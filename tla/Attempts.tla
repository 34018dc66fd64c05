------------------------------ MODULE Attempts ------------------------------
(***************************************************************************)
(* The attempts of one run and the money they move: the attempt loop of     *)
(* stage.execute and stage.execute.item, StageRunnerService behind it, the  *)
(* provider adapters, the budget sweep and the cancellation reconciler, all *)
(* at work on the same `stage_attempt` and `ledger_entry` rows.             *)
(*                                                                          *)
(* Every action is one transaction, one statement or one provider call.     *)
(* The row an attempt's step wrote last is never re-read by the code, so    *)
(* the other parties may write to it between any two actions.               *)
(***************************************************************************)
EXTENDS Ledger

CONSTANTS
  ItemOf,      \* [Attempt -> Nat], the item it works on; 0 for a whole stage
  After,       \* [Attempt -> SUBSET Attempt], whom it follows in its loop
  Adapter,     \* [Attempt -> {"queue", "direct", "memory"}], see below
  Costs,       \* [Attempt -> SUBSET Nat], what its provider may charge
  Results,     \* what a job may come to, a subset of Endings
  QcCosts,     \* what judging an output may cost; {} is no quality control
  NewCaps,     \* the run caps people raise to
  NewStageCaps,  \* the stage caps people raise to
  Ops,         \* subset of {"pause", "cancel"}
  Reconciler,  \* the request that cancels and the event that follows it up
  Late,        \* TRUE: a reservation may expire under an attempt still at work
  MaxReplays,  \* bound: times the steps of one attempt run again
  MaxEpoch     \* bound: execution epochs of the run

(* queue  : fal, the browser and the CLI providers; the job runs by itself   *)
(*          from submit on, and its fetch reports that it cost nothing.      *)
(* direct : ElevenLabs and Deepgram; the paid call is made by fetch, and     *)
(*          a cancellation is never confirmed.                               *)
(* memory : OpenRouter; the paid call is made by fetch, from a request kept  *)
(*          in memory until a restart or a cancellation drops it; the        *)
(*          cancellation is always confirmed and never billed.               *)
Adapters == {"queue", "direct", "memory"}

(* What ends an attempt, the way its reservation is settled for it, and the  *)
(* outcome its row is left with.                                             *)
Success     == {"normal", "rejected", "deferred"}
Provisional == {"timeout", "stall"}
FailedPoll  == {"infrastructure", "user_action", "failed"}
Release     == FailedPoll \cup {"discarded", "invalid"}
Endings     == Success \cup Provisional \cup FailedPoll
                \cup {"invalid", "throws", "check_failed", "qc_failed"}
Verdict     == Success \cup Provisional \cup Release \cup {"qc_failed"}

OutcomeIsVerdict == [v \in Verdict |-> v]   \* mutant
OutcomeOf == [
  rejected       |-> "provider_error",   deferred    |-> "deferred",
  timeout        |-> "provider_timeout", stall       |-> "infra_error",
  infrastructure |-> "infra_error",      failed      |-> "provider_error",
  invalid        |-> "provider_error",   discarded   |-> "cancelled"]

ASSUME LoopAssumption ==
  /\ ItemOf \in [Attempt -> Nat]
  /\ After \in [Attempt -> SUBSET Attempt]
  /\ \A a \in Attempt : \A b \in After[a] : StageOf[b] = StageOf[a] /\ ItemOf[b] = ItemOf[a]
  /\ \A a \in Attempt : \A b \in Attempt :
       StageOf[a] = StageOf[b] => (ItemOf[a] = 0 <=> ItemOf[b] = 0)
  /\ Adapter \in [Attempt -> Adapters]
  /\ Costs \in [Attempt -> SUBSET Nat]
  /\ Results \subseteq Endings
ASSUME ChargesAssumption ==
  /\ QcCosts \subseteq Nat
  /\ NewCaps \subseteq Nat
  /\ NewStageCaps \subseteq Nat
ASSUME LimitsAssumption ==
  /\ Late \in BOOLEAN
  /\ MaxReplays \in Nat
  /\ MaxEpoch \in Nat

VARIABLES
  phase,     \* stage_attempt.phase
  outcome,   \* stage_attempt.outcome, "success" from the start
  closed,    \* attempts whose duration_ms is set: finishAttempt ran
  delivered, \* attempts whose artifact a finalizing transaction made current
  handled,   \* attempts whose job_handle is set
  stopped,   \* attempts whose cancellation_confirmed is true
  pc,        \* [Attempt -> Place], where its function is
  verdict,   \* [Attempt -> Verdict], what the function is settling for
  limit,     \* [Attempt -> cap], the stage cap its invocation loaded
  cost,      \* [Attempt -> Nat], the cost fetch reported
  tries,     \* [Attempt -> Nat], replays of its steps
  job,       \* [Attempt -> JobState], the provider's side
  bill,      \* [Attempt -> Nat], everything providers charged for it
  sweep,     \* reservations the running budget.sweep has yet to do
  sweeping,  \* the one it has settled and not yet marked
  recon      \* [Reconciler -> what it has read and is doing]

row      == <<epochOf, phase, outcome, closed, delivered, handled, stopped>>
engine   == <<pc, verdict, limit, cost, tries>>
provider == <<job, bill>>
cleanup  == <<sweep, sweeping, recon>>
runRow   == <<state, epoch>>
vars     == <<runRow, money, row, engine, provider, cleanup>>

Phase   == {"none", "created", "reserved", "submitting", "submitted", "settled"}
UnsettledButCalling == {"created", "reserved", "submitted"}   \* mutant
Unsettled == {"created", "reserved", "submitting", "submitted"}
Outcome == {"success", "cancelled", "budget_blocked", "provider_error", "deferred",
            "provider_timeout", "infra_error", "check_failed", "qc_failed"}
Place   == {"idle", "reserve", "mark", "admit", "call", "accepted", "store",
            "stored", "stop", "settle", "record", "failing", "fetch", "fetching",
            "check", "judge", "judged", "committed", "error", "ended"}
JobState == {"none", "working", "delivered", "failed", "stopped", "kept"}

(* What a reconciler read of an attempt, and what it then learnt of its job. *)
Candidate == [attempt : Attempt, phase : Phase, handled : BOOLEAN, stopped : BOOLEAN]
Answer    == [attempt : Attempt, stopped : BOOLEAN, booked : BOOLEAN,
              confirmed : BOOLEAN, billed : BOOLEAN]
Work == [doing : BOOLEAN, epoch : Nat, todo : SUBSET Candidate, now : SUBSET Answer]
NoWork == [doing |-> FALSE, epoch |-> 0, todo |-> {}, now |-> {}]

Init ==
  /\ state = "RUNNING"
  /\ epoch = 0
  /\ epochOf = [a \in Attempt |-> 0]
  /\ NoMoney
  /\ phase = [a \in Attempt |-> "none"]
  /\ outcome = [a \in Attempt |-> "success"]
  /\ closed = {}
  /\ delivered = {}
  /\ handled = {}
  /\ stopped = {}
  /\ pc = [a \in Attempt |-> "idle"]
  /\ verdict = [a \in Attempt |-> "normal"]
  /\ limit = [a \in Attempt |-> NoCap]
  /\ cost = [a \in Attempt |-> 0]
  /\ tries = [a \in Attempt |-> 0]
  /\ job = [a \in Attempt |-> "none"]
  /\ bill = [a \in Attempt |-> 0]
  /\ sweep = {}
  /\ sweeping = {}
  /\ recon = [r \in Reconciler |-> NoWork]

-----------------------------------------------------------------------------
(* The run around the attempts: what RunControl describes in full, reduced   *)
(* to its state and epoch and to the conditions attempts depend on.          *)

AtWork(a) == pc[a] \notin {"idle", "ended"}
Quiet     == \A a \in Attempt : ~AtWork(a)
Busy      == \/ state \in {"RUNNING", "PAUSING", "CANCELLING"}
             \/ \E a \in Attempt : /\ epochOf[a] = epoch
                                   /\ phase[a] \in Unsettled
                                   /\ outcome[a] # "cancelled"

Pause ==
  /\ "pause" \in Ops
  /\ state = "RUNNING"
  /\ state' = "PAUSING"
  /\ UNCHANGED <<epoch, money, row, engine, provider, cleanup>>

(* The orchestrator stops once none of its stages works any more. *)
Passed(s)  == \A a \in Attempt : StageOf[a] = s =>
                 \E b \in delivered : StageOf[b] = s /\ ItemOf[b] = ItemOf[a]
BlockedNow == \E a \in Attempt : epochOf[a] = epoch /\ outcome[a] = "budget_blocked"
Halt ==
  /\ state \in {"RUNNING", "PAUSING"}
  /\ \E a \in Attempt : pc[a] = "ended" /\ epochOf[a] = epoch
  /\ Quiet
  /\ state' = IF state = "PAUSING" THEN "PAUSED_MANUAL"
              ELSE IF BlockedNow THEN "PAUSED_BUDGET"
              ELSE IF \A s \in Stage : Passed(s) THEN "COMPLETED" ELSE "FAILED"
  /\ UNCHANGED <<epoch, money, row, engine, provider, cleanup>>

(* A resumed or replanned run is claimed under the next epoch. *)
Resume ==
  /\ ~Busy
  /\ epoch < MaxEpoch
  /\ \E a \in Attempt : pc[a] = "idle"
  /\ state' = "RUNNING"
  /\ epoch' = epoch + 1
  /\ UNCHANGED <<money, row, engine, provider, cleanup>>

Cancel ==
  /\ "cancel" \in Ops
  /\ state \in {"RUNNING", "PAUSING", "PAUSED_MANUAL", "PAUSED_BUDGET", "FAILED"}
  /\ epoch < MaxEpoch
  /\ state' = "CANCELLING"
  /\ epoch' = epoch + 1
  /\ UNCHANGED <<money, row, engine, provider, cleanup>>

Raise ==
  /\ \/ \E c \in NewCaps : RaiseBudget(c)
     \/ \E s \in Stage, c \in NewStageCaps : RaiseStageCap(s, c)
  /\ UNCHANGED <<runRow, row, engine, provider, cleanup>>

(* isCurrentExecution, and the same test inside the finalizing transaction. *)
Current(a, states) == epochOf[a] = epoch /\ state \in states
Draining == {"RUNNING", "PAUSING", "PAUSED_MANUAL"}

-----------------------------------------------------------------------------
(* The attempt loop up to the provider's answer.                             *)

Go(a, place) == pc' = [pc EXCEPT ![a] = place]
Phased(a, p) == phase' = [phase EXCEPT ![a] = p]

(* The code runs in steps whose results are saved.  One that dies before its *)
(* result is saved, between two of its writes or after the last of them,     *)
(* runs again from its start.  Polls and steps of one settlement are not     *)
(* told apart from their repetition, which changes nothing.                  *)
Settling(a, verdicts) == pc[a] \in {"settle", "record"} /\ verdict[a] \in verdicts
InSubmit(a)   == \/ pc[a] \in {"reserve", "mark", "admit", "call", "accepted", "store"}
                 \/ Settling(a, {"discarded"})
InFetch(a)    == \/ pc[a] \in {"fetch", "fetching", "check"}
                 \/ Settling(a, Success)
                 \/ pc[a] = "committed" /\ QcCosts = {}
InTimeout(a)  == pc[a] = "stop" \/ Settling(a, Provisional)
InVerdict(a)  == \/ pc[a] \in {"judge", "judged"}
                 \/ pc[a] = "committed" /\ QcCosts # {}
StartOf(a) ==
  CASE InSubmit(a)  -> "reserve"
    [] InFetch(a)   -> "fetch"
    [] InTimeout(a) -> "stop"
    [] InVerdict(a) -> "judge"
    [] OTHER        -> pc[a]

StepAgain(a) ==
  /\ tries[a] < MaxReplays
  /\ tries' = [tries EXCEPT ![a] = tries[a] + 1]
  /\ Go(a, StartOf(a))
StepEnds(a, place) == (Go(a, place) /\ UNCHANGED tries) \/ StepAgain(a)

(* A loop starts its next attempt once the last one ended in a way it        *)
(* retries; a later execution of the stage starts over.                      *)
Retried == {"provider_error", "provider_timeout", "infra_error",
            "check_failed", "qc_failed"}
MayFollow(a, b) ==
  /\ pc[b] = "ended"
  /\ IF epochOf[b] = epoch THEN outcome[b] \in Retried /\ verdict[b] # "invalid"
                           ELSE b \notin delivered

BeginAttempt(a) ==
  /\ pc[a] = "idle"
  /\ state = "RUNNING"
  /\ \A b \in After[a] : MayFollow(a, b)
  /\ epochOf' = [epochOf EXCEPT ![a] = epoch]
  /\ Phased(a, "created")
  /\ limit' = [limit EXCEPT ![a] =
       LET sooner == {b \in After[a] : epochOf[b] = epoch}
       IN  IF sooner = {} THEN stageCap[StageOf[a]] ELSE limit[CHOOSE b \in sooner : TRUE]]
  /\ Go(a, "reserve")
  /\ UNCHANGED <<runRow, money, outcome, closed, delivered, handled, stopped, verdict, cost, tries,
                 provider, cleanup>>

RefuseBudget(a) ==
  /\ pc[a] = "reserve"
  /\ Refusal(a, limit[a]) # "none"
  /\ outcome' = [outcome EXCEPT ![a] =
       IF Refusal(a, limit[a]) = "run_not_running" THEN "cancelled" ELSE "budget_blocked"]
  /\ Phased(a, "settled")
  /\ closed' = closed \cup {a}
  /\ StepEnds(a, "ended")
  /\ UNCHANGED <<runRow, money, epochOf, delivered, handled, stopped, verdict, limit, cost,
                 provider, cleanup>>

ReserveBudget(a) ==
  /\ pc[a] = "reserve"
  /\ Refusal(a, limit[a]) = "none"
  /\ Reserve(a)
  /\ Go(a, "mark")
  /\ UNCHANGED <<runRow, row, verdict, limit, cost, tries, provider, cleanup>>

MarkReserved(a) ==
  /\ pc[a] = "mark"
  /\ Phased(a, "reserved")
  /\ Go(a, "admit")
  /\ UNCHANGED <<runRow, money, epochOf, outcome, closed, delivered, handled, stopped, verdict, limit,
                 cost, tries, provider, cleanup>>

Admit(a) ==
  /\ pc[a] = "admit"
  /\ IF Current(a, {"RUNNING", "PAUSING"})
       THEN /\ Phased(a, "submitting")
            /\ Go(a, "call")
            /\ UNCHANGED verdict
       ELSE /\ verdict' = [verdict EXCEPT ![a] = "discarded"]
            /\ Go(a, "settle")
            /\ UNCHANGED phase
  /\ UNCHANGED <<runRow, money, epochOf, outcome, closed, delivered, handled, stopped, limit, cost,
                 tries, provider, cleanup>>

(* capability.submit.  A call that throws may have reached the provider; one *)
(* the provider turned down as malformed has not.                            *)
Starts(a) ==
  job' = [job EXCEPT ![a] = CASE Adapter[a] = "queue"  -> "working"
                              [] Adapter[a] = "memory" -> "kept"
                              [] OTHER                 -> @]
Drop(a) == job' = [job EXCEPT ![a] = IF @ = "kept" THEN "stopped" ELSE @]

SubmitJob(a) ==
  /\ pc[a] = "call"
  /\ Starts(a)
  /\ Go(a, "accepted")
  /\ UNCHANGED <<runRow, money, row, verdict, limit, cost, tries, bill, cleanup>>

SubmitRejected(a) ==
  /\ pc[a] = "call"
  /\ "invalid" \in Results
  /\ verdict' = [verdict EXCEPT ![a] = "invalid"]
  /\ Go(a, "settle")
  /\ UNCHANGED <<runRow, money, row, limit, cost, tries, provider, cleanup>>

SubmitThrows(a) ==
  /\ pc[a] = "call"
  /\ "throws" \in Results
  /\ (Adapter[a] = "queue" /\ Starts(a)) \/ UNCHANGED job
  /\ Go(a, "error")
  /\ UNCHANGED <<runRow, money, row, verdict, limit, cost, tries, bill, cleanup>>

MarkSubmitted(a) ==
  /\ pc[a] = "accepted"
  /\ MoveExpiry(a)
  /\ Go(a, "store")
  /\ UNCHANGED <<runRow, row, verdict, limit, cost, tries, provider, cleanup>>

StoreHandle(a) ==
  /\ pc[a] = "store"
  /\ Phased(a, "submitted")
  /\ handled' = handled \cup {a}
  /\ StepEnds(a, "stored")
  /\ UNCHANGED <<runRow, money, epochOf, outcome, closed, delivered, stopped, verdict, limit, cost,
                 provider, cleanup>>

(* pollOnce.  Adapters that make the call in fetch report it done at once.   *)
JobDone(a) == Adapter[a] # "queue" \/ job[a] = "delivered"

PollDone(a) ==
  /\ pc[a] = "stored"
  /\ JobDone(a)
  /\ Go(a, "fetch")
  /\ UNCHANGED <<runRow, money, row, verdict, limit, cost, tries, provider, cleanup>>

PollFailed(a) ==
  /\ pc[a] = "stored"
  /\ Adapter[a] = "queue"
  /\ job[a] \in {"failed", "stopped"}
  /\ \E v \in FailedPoll \cap Results : verdict' = [verdict EXCEPT ![a] = v]
  /\ Go(a, "settle")
  /\ UNCHANGED <<runRow, money, row, limit, cost, tries, provider, cleanup>>

(* A job with a deadline of its own keeps its reservation from expiring. *)
PollPending(a) ==
  /\ pc[a] = "stored"
  /\ job[a] = "working"
  /\ a \in expired
  /\ "stall" \in Results
  /\ MoveExpiry(a)
  /\ UNCHANGED <<runRow, row, engine, provider, cleanup>>

(* The polling window, or the job's own deadline, is over. *)
PollExhausted(a) ==
  /\ pc[a] = "stored"
  /\ job[a] = "working"
  /\ \E v \in Provisional \cap Results : verdict' = [verdict EXCEPT ![a] = v]
  /\ Go(a, "stop")
  /\ UNCHANGED <<runRow, money, row, limit, cost, tries, provider, cleanup>>

PollThrows(a) ==
  /\ pc[a] = "stored"
  /\ Adapter[a] = "queue"
  /\ "throws" \in Results
  /\ Go(a, "error")
  /\ UNCHANGED <<runRow, money, row, verdict, limit, cost, tries, provider, cleanup>>

(* What an adapter's cancel may answer, and what becomes of the job. *)
CancelAnswer(a, confirmed, billed) ==
  CASE Adapter[a] = "memory" -> confirmed /\ ~billed /\ Drop(a)
    [] Adapter[a] = "direct" -> ~confirmed /\ ~billed /\ UNCHANGED job
    [] OTHER ->
         \/ /\ job[a] = "working"
            /\ confirmed /\ ~billed
            /\ job' = [job EXCEPT ![a] = "stopped"]
         \/ /\ job[a] # "working" /\ Costs[a] = {0}
            /\ confirmed /\ ~billed
            /\ UNCHANGED job
         \/ ~confirmed /\ UNCHANGED job

StopJob(a) ==
  /\ pc[a] = "stop"
  /\ \E confirmed, billed \in BOOLEAN : CancelAnswer(a, confirmed, billed)
  /\ Go(a, "settle")
  /\ UNCHANGED <<runRow, money, row, verdict, limit, cost, tries, bill, cleanup>>

-----------------------------------------------------------------------------
(* fetchAndFinalize, and what ends an attempt.                               *)

StartFetch(a) ==
  /\ pc[a] = "fetch"
  /\ Go(a, IF Adapter[a] = "memory" /\ job[a] # "kept" THEN "error" ELSE "fetching")
  /\ UNCHANGED <<runRow, money, row, verdict, limit, cost, tries, provider, cleanup>>

Charge(a, c) == bill' = [bill EXCEPT ![a] = bill[a] + c]

FetchAnswers(a) ==
  /\ pc[a] = "fetching"
  /\ \E v \in Success \cap Results : verdict' = [verdict EXCEPT ![a] = v]
  /\ IF Adapter[a] = "queue"
       THEN /\ cost' = [cost EXCEPT ![a] = 0]
            /\ UNCHANGED bill
       ELSE \E c \in Costs[a] : /\ cost' = [cost EXCEPT ![a] = c]
                                /\ Charge(a, c)
  /\ Go(a, "settle")
  /\ UNCHANGED <<runRow, money, row, limit, tries, job, cleanup>>

(* A call that was charged and whose answer is lost or cannot be read. *)
FetchThrows(a) ==
  /\ pc[a] = "fetching"
  /\ "throws" \in Results
  /\ IF Adapter[a] = "queue" THEN UNCHANGED bill
                             ELSE \E c \in Costs[a] \cup {0} : Charge(a, c)
  /\ Go(a, "error")
  /\ UNCHANGED <<runRow, money, row, verdict, limit, cost, tries, job, cleanup>>

SettleAttempt(a) ==
  /\ pc[a] = "settle"
  /\ \/ verdict[a] \in Success /\ SettleSuccess(a, cost[a])
     \/ verdict[a] \in Provisional /\ SettleProvisional(a)
     \/ verdict[a] \in Release /\ SettleRelease(a)
  /\ Go(a, "record")
  /\ UNCHANGED <<runRow, row, verdict, limit, cost, tries, provider, cleanup>>

Close(a, o) ==
  /\ outcome' = [outcome EXCEPT ![a] = o]
  /\ Phased(a, "settled")
  /\ closed' = closed \cup {a}
  /\ UNCHANGED <<epochOf, delivered, handled, stopped>>

(* An output to judge keeps its row open. *)
RecordOutput(a) ==
  /\ pc[a] = "record"
  /\ verdict[a] = "normal"
  /\ Phased(a, "settled")
  /\ Go(a, "check")
  /\ UNCHANGED <<runRow, money, epochOf, outcome, closed, delivered, handled, stopped, verdict, limit,
                 cost, tries, provider, cleanup>>

RecordEnd(a) ==
  /\ pc[a] = "record"
  /\ verdict[a] \in Provisional \cup {"rejected", "deferred", "invalid"}
  /\ Close(a, OutcomeOf[verdict[a]])
  /\ StepEnds(a, "ended")
  /\ UNCHANGED <<runRow, money, verdict, limit, cost, provider, cleanup>>

RecordDiscarded(a) ==
  /\ outcome' = [outcome EXCEPT ![a] = "cancelled"]
  /\ Phased(a, "settled")
  /\ UNCHANGED <<epochOf, closed, delivered, handled, stopped>>
RecordRefusal(a) ==
  /\ pc[a] = "record"
  /\ verdict[a] = "discarded"
  /\ RecordDiscarded(a)
  /\ StepEnds(a, "ended")
  /\ UNCHANGED <<runRow, money, verdict, limit, cost, provider, cleanup>>

(* A failed poll first asks whether a cancellation made it fail.             *)
StopIfRunNotRunning(a) ==
  /\ pc[a] = "record"
  /\ verdict[a] \in FailedPoll
  /\ IF Current(a, Draining) THEN Go(a, "failing") /\ UNCHANGED row
                             ELSE Go(a, "ended") /\ RecordDiscarded(a)
  /\ UNCHANGED <<runRow, money, verdict, limit, cost, tries, provider, cleanup>>

(* A failure the user must mend ends the stage and leaves the attempt's row  *)
(* as it is.                                                                 *)
RecordFailedPoll(a) ==
  /\ pc[a] = "failing" /\ verdict[a] \in FailedPoll
  /\ IF verdict[a] = "user_action" THEN UNCHANGED row ELSE Close(a, OutcomeOf[verdict[a]])
  /\ StepEnds(a, "ended")
  /\ UNCHANGED <<runRow, money, verdict, limit, cost, provider, cleanup>>

(* The catch of the loop: the job is given up, nothing is settled. *)
RecordError(a) ==
  /\ pc[a] = "error"
  /\ IF a \in handled
       THEN \E confirmed, billed \in BOOLEAN : CancelAnswer(a, confirmed, billed)
       ELSE UNCHANGED job
  /\ Close(a, "provider_error")
  /\ StepEnds(a, "ended")
  /\ UNCHANGED <<runRow, money, verdict, limit, cost, bill, cleanup>>

-----------------------------------------------------------------------------
(* Checks, quality control and the finalizing transaction.                   *)

(* Judging a stored output starts with the checks once more. *)
JudgeCheckFailed(a) ==
  /\ pc[a] \in {"check", "judge"}
  /\ "check_failed" \in Results
  /\ Close(a, "check_failed")
  /\ StepEnds(a, "ended")
  /\ UNCHANGED <<runRow, money, verdict, limit, cost, provider, cleanup>>

(* The loop leaves quality control to steps of its own, whose verdict is     *)
(* saved before the step that acts on it.                                    *)
DeferQc(a) ==
  /\ pc[a] = "check"
  /\ QcCosts # {}
  /\ \E v \in {"normal"} \cup ({"qc_failed"} \cap Results) : verdict' = [verdict EXCEPT ![a] = v]
  /\ StepEnds(a, "judge")
  /\ UNCHANGED <<runRow, money, row, limit, cost, provider, cleanup>>

(* The judge's verdict is paid for on its own, before anything asks whether  *)
(* the output is still wanted.                                               *)
PayForVerdict(a) ==
  /\ pc[a] = "judge"
  /\ \E q \in QcCosts : RecordActual(q)
  /\ Go(a, "judged")
  /\ UNCHANGED <<runRow, row, verdict, limit, cost, tries, provider, cleanup>>

JudgeQcFailed(a) ==
  /\ pc[a] = "judged"
  /\ verdict[a] = "qc_failed"
  /\ Close(a, "qc_failed")
  /\ StepEnds(a, "ended")
  /\ UNCHANGED <<runRow, money, verdict, limit, cost, provider, cleanup>>

(* The finalizing transaction, and finishAttempt after it. *)
Judged(a) == IF QcCosts = {} THEN pc[a] = "check"
                             ELSE pc[a] = "judged" /\ verdict[a] = "normal"
Deliver(a) ==
  /\ outcome' = [outcome EXCEPT ![a] = "success"]
  /\ delivered' = delivered \cup {a}
  /\ UNCHANGED <<epochOf, phase, closed, handled, stopped>>
FinalizeAnyEpoch(a) ==   \* mutant
  /\ Judged(a)
  /\ Deliver(a)
  /\ Go(a, "committed")
  /\ UNCHANGED <<runRow, money, verdict, limit, cost, tries, provider, cleanup>>
Finalize(a) ==
  /\ Judged(a)
  /\ IF Current(a, Draining) THEN Deliver(a) ELSE RecordDiscarded(a)
  /\ Go(a, "committed")
  /\ UNCHANGED <<runRow, money, verdict, limit, cost, tries, provider, cleanup>>

FinishAttempt(a) ==
  /\ pc[a] = "committed"
  /\ Close(a, outcome[a])
  /\ StepEnds(a, "ended")
  /\ UNCHANGED <<runRow, money, verdict, limit, cost, provider, cleanup>>

-----------------------------------------------------------------------------
(* An interrupted step.  A restart also drops what a memory adapter kept.    *)
Replay(a) ==
  /\ StartOf(a) # pc[a]
  /\ StepAgain(a)
  /\ Drop(a) \/ UNCHANGED job
  /\ UNCHANGED <<runRow, money, row, verdict, limit, cost, bill, cleanup>>

(* cancelOn: the function of a retired epoch stops between two steps. *)
Boundary(a) == \/ pc[a] \in {"reserve", "stored", "stop", "fetch", "judge", "failing", "error"}
               \/ Settling(a, FailedPoll \cup {"invalid"})
Kill(a) ==
  /\ epochOf[a] < epoch
  /\ Boundary(a)
  /\ Go(a, "ended")
  /\ UNCHANGED <<runRow, money, row, verdict, limit, cost, tries, provider, cleanup>>

(* The provider's own progress with a queued job. *)
JobRuns(a) ==
  /\ job[a] = "working"
  /\ \/ /\ FailedPoll \cap Results # {}
        /\ job' = [job EXCEPT ![a] = "failed"]
        /\ UNCHANGED bill
     \/ /\ job' = [job EXCEPT ![a] = "delivered"]
        /\ \E c \in Costs[a] : Charge(a, c)
  /\ UNCHANGED <<runRow, money, row, engine, cleanup>>

-----------------------------------------------------------------------------
(* Expiry and budget.sweep.                                                  *)

Expire(a) ==
  /\ Open(a)
  /\ a \notin expired
  /\ Late \/ pc[a] = "ended"
  /\ expired' = expired \cup {a}
  /\ UNCHANGED <<runRow, cap, stageCap, reserved, spent, ledger, judged, row, engine,
                 provider, cleanup>>

(* The phases are read with the candidates, then each one is settled and its *)
(* attempt marked, one after the other.                                      *)
SweepSubmitted ==   \* mutant
  /\ sweep = {} /\ sweeping = {}
  /\ \E a \in Attempt : Open(a) /\ a \in expired /\ a \in handled
  /\ sweep' = {<<a, phase[a]>> : a \in {b \in expired : Open(b) /\ b \in handled}}
  /\ UNCHANGED <<runRow, money, row, engine, provider, sweeping, recon>>
SweepSelect ==
  /\ sweep = {} /\ sweeping = {}
  /\ \E a \in Attempt : Open(a) /\ a \in expired
  /\ sweep' = {<<a, phase[a]>> : a \in {b \in expired : Open(b)}}
  /\ UNCHANGED <<runRow, money, row, engine, provider, sweeping, recon>>

NothingToCharge == {"created", "reserved", "settled"}   \* mutant
NeverSent == {"created", "reserved"}

SweepSettle(t) ==
  /\ t \in sweep
  /\ sweeping = {}
  /\ IF t[2] \in NeverSent THEN SettleRelease(t[1]) ELSE SettleProvisional(t[1])
  /\ sweep' = sweep \ {t}
  /\ sweeping' = {t}
  /\ UNCHANGED <<runRow, row, engine, provider, recon>>

SweepMark(t) ==
  /\ t \in sweeping
  /\ outcome' = [outcome EXCEPT ![t[1]] =
       IF t[2] \in NeverSent THEN "infra_error" ELSE "provider_timeout"]
  /\ Phased(t[1], "settled")
  /\ sweeping' = {}
  /\ UNCHANGED <<runRow, money, epochOf, closed, delivered, handled, stopped, engine, provider,
                 sweep, recon>>

(* A sweep or a reconciler that dies forgets what it had read. *)
SweepStops ==
  /\ MaxReplays > 0
  /\ sweep # {} \/ sweeping # {}
  /\ sweep' = {} /\ sweeping' = {}
  /\ UNCHANGED <<runRow, money, row, engine, provider, recon>>

-----------------------------------------------------------------------------
(* RunCancellationService.settleOutstanding, in the request that cancels and *)
(* in the event that follows it up.                                          *)

(* A settled attempt whose output nobody judged to the end, told by its row  *)
(* and by its stage, which the cancellation has just set cancelled unless it *)
(* had passed.  (A stage of items passes after its last item has; a failed   *)
(* stage is not told from a cancelled one, nor a person's edit from an       *)
(* attempt: none of the attempts here is one.)                               *)
StageCancelled(a)   == ~(ItemOf[a] = 0 /\ Passed(StageOf[a]))
InterruptedItem(a)  ==   \* mutant
  phase[a] = "settled" /\ a \notin closed /\ outcome[a] = "success"
InterruptedOrDone(a) == phase[a] = "settled" /\ outcome[a] = "success"   \* mutant
Interrupted(a) ==
  phase[a] = "settled" /\ a \notin closed /\ outcome[a] = "success" /\ StageCancelled(a)

ReconcileSelect(r) ==
  /\ ~recon[r].doing
  /\ state = "CANCELLING"
  /\ recon' = [recon EXCEPT ![r] =
       [doing |-> TRUE, epoch |-> epoch, now |-> {},
        todo |-> {[attempt |-> a, phase |-> phase[a], handled |-> a \in handled,
                   stopped |-> a \in stopped] :
                  a \in {b \in Attempt : /\ epochOf[b] < epoch
                                         /\ phase[b] \in Unsettled \/ Interrupted(b)}}]]
  /\ UNCHANGED <<runRow, money, row, engine, provider, sweep, sweeping>>

(* What is known of the attempt's job, asking the provider where it has one. *)
AskIfSent(t, confirmed, billed) ==   \* mutant
  IF t.handled THEN CancelAnswer(t.attempt, confirmed, billed)
               ELSE confirmed /\ ~billed /\ UNCHANGED job
Ask(t, confirmed, billed) ==
  IF t.stopped                THEN confirmed /\ ~billed /\ UNCHANGED job
  ELSE IF t.phase = "settled" THEN ~confirmed /\ ~billed /\ UNCHANGED job
  ELSE IF ~t.handled          THEN /\ confirmed = (t.phase \in NeverSent)
                                   /\ ~billed
                                   /\ UNCHANGED job
  ELSE CancelAnswer(t.attempt, confirmed, billed)

Asked(work, t, confirmed, billed) ==
  [work EXCEPT !.todo = work.todo \ {t},
               !.now = {[attempt |-> t.attempt, stopped |-> t.stopped, booked |-> FALSE,
                         confirmed |-> confirmed, billed |-> billed]}]

ReconcileAsk(r, t) ==
  /\ t \in recon[r].todo
  /\ recon[r].now = {}
  /\ \E confirmed, billed \in BOOLEAN :
       /\ Ask(t, confirmed, billed)
       /\ recon' = [recon EXCEPT ![r] = Asked(recon[r], t, confirmed, billed)]
  /\ UNCHANGED <<runRow, money, row, engine, bill, sweep, sweeping>>

ReconcileBook(r, t) ==
  /\ t \in recon[r].now
  /\ ~t.booked
  /\ IF t.stopped \/ ~HasReservation(t.attempt) THEN UNCHANGED money
     ELSE IF t.confirmed /\ ~t.billed           THEN SettleRelease(t.attempt)
     ELSE SettleProvisional(t.attempt)
  /\ recon' = [recon EXCEPT ![r].now = {[t EXCEPT !.booked = TRUE]}]
  /\ UNCHANGED <<runRow, row, engine, provider, sweep, sweeping>>

OverwriteConfirmed(t) ==   \* mutant
  stopped' = IF t.confirmed THEN stopped \cup {t.attempt} ELSE stopped \ {t.attempt}
KeepConfirmed(t) == stopped' = IF t.confirmed THEN stopped \cup {t.attempt} ELSE stopped

ReconcileMark(r, t) ==
  /\ t \in recon[r].now
  /\ t.booked
  /\ outcome' = [outcome EXCEPT ![t.attempt] = "cancelled"]
  /\ Phased(t.attempt, "settled")
  /\ KeepConfirmed(t)
  /\ recon' = [recon EXCEPT ![r].now = {}]
  /\ UNCHANGED <<runRow, money, epochOf, closed, delivered, handled, engine, provider, sweep, sweeping>>

ReconcileDone(r) ==
  /\ recon[r].doing
  /\ recon[r].todo = {} /\ recon[r].now = {}
  /\ state' = IF state = "CANCELLING" /\ epoch = recon[r].epoch THEN "CANCELLED" ELSE state
  /\ recon' = [recon EXCEPT ![r] = NoWork]
  /\ UNCHANGED <<epoch, money, row, engine, provider, sweep, sweeping>>

ReconcileStops(r) ==
  /\ MaxReplays > 0
  /\ recon[r].doing
  /\ recon' = [recon EXCEPT ![r] = NoWork]
  /\ UNCHANGED <<runRow, money, row, engine, provider, sweep, sweeping>>

-----------------------------------------------------------------------------
Run == Pause \/ Halt \/ Resume \/ Cancel \/ Raise

Submitting(a) ==
  \/ RefuseBudget(a) \/ ReserveBudget(a) \/ MarkReserved(a) \/ Admit(a)
  \/ SubmitJob(a) \/ SubmitRejected(a) \/ SubmitThrows(a)
  \/ MarkSubmitted(a) \/ StoreHandle(a)
Polling(a) ==
  \/ PollDone(a) \/ PollFailed(a) \/ PollPending(a) \/ PollExhausted(a)
  \/ PollThrows(a) \/ StopJob(a)
Finishing(a) ==
  \/ StartFetch(a) \/ FetchAnswers(a) \/ FetchThrows(a) \/ SettleAttempt(a)
  \/ RecordOutput(a) \/ RecordEnd(a) \/ RecordRefusal(a) \/ StopIfRunNotRunning(a)
  \/ RecordFailedPoll(a) \/ RecordError(a) \/ JudgeCheckFailed(a) \/ DeferQc(a) \/ PayForVerdict(a)
  \/ JudgeQcFailed(a) \/ Finalize(a) \/ FinishAttempt(a)
Loop(a) == BeginAttempt(a) \/ Submitting(a) \/ Polling(a) \/ Finishing(a)

Sweeping ==
  \/ SweepSelect \/ SweepStops
  \/ \E t \in sweep : SweepSettle(t)
  \/ \E t \in sweeping : SweepMark(t)

Reconciling(r) ==
  \/ ReconcileSelect(r) \/ ReconcileDone(r) \/ ReconcileStops(r)
  \/ \E t \in recon[r].todo : ReconcileAsk(r, t)
  \/ \E t \in recon[r].now : ReconcileBook(r, t) \/ ReconcileMark(r, t)

Next ==
  \/ Run \/ Sweeping
  \/ \E r \in Reconciler : Reconciling(r)
  \/ \E a \in Attempt : Loop(a) \/ Replay(a) \/ Kill(a) \/ JobRuns(a) \/ Expire(a)

Spec == Init /\ [][Next]_vars

(* budget.sweep is a cron function, so it runs again and again; time passes; *)
(* and the polling window is finite.  Nothing is assumed of the attempts'    *)
(* own functions, which may stop for good at any step.                       *)
Fairness ==
  /\ WF_vars(SweepSelect)
  /\ WF_vars(\E t \in sweep : SweepSettle(t))
  /\ WF_vars(\E t \in sweeping : SweepMark(t))
  /\ \A a \in Attempt : WF_vars(Expire(a)) /\ WF_vars(PollExhausted(a))
FairSpec == Spec /\ Fairness
-----------------------------------------------------------------------------
(* What ought to hold.                                                       *)

TypeOK ==
  /\ state \in {"RUNNING", "PAUSING", "PAUSED_MANUAL", "PAUSED_BUDGET", "FAILED",
               "COMPLETED", "CANCELLING", "CANCELLED"}
  /\ epoch \in 0..MaxEpoch
  /\ epochOf \in [Attempt -> 0..MaxEpoch]
  /\ cap \in Nat
  /\ stageCap \in [Stage -> Nat \cup {NoCap}]
  /\ reserved \in Int /\ spent \in Int /\ judged \in Nat
  /\ ledger \subseteq Entry
  /\ expired \subseteq Attempt
  /\ phase \in [Attempt -> Phase]
  /\ outcome \in [Attempt -> Outcome]
  /\ closed \subseteq Attempt /\ delivered \subseteq Attempt
  /\ handled \subseteq Attempt /\ stopped \subseteq Attempt
  /\ pc \in [Attempt -> Place]
  /\ verdict \in [Attempt -> Verdict]
  /\ limit \in [Attempt -> Nat \cup {NoCap}]
  /\ cost \in [Attempt -> Nat]
  /\ tries \in [Attempt -> 0..MaxReplays]
  /\ job \in [Attempt -> JobState]
  /\ bill \in [Attempt -> Nat]
  /\ sweep \subseteq Attempt \X Phase /\ sweeping \subseteq Attempt \X Phase
  /\ recon \in [Reconciler -> Work]

(* The materialized totals of the run agree with its ledger: what is         *)
(* reserved is the open reservations, what is spent is the actuals, whatever *)
(* settles first (ledger.service.ts, "the ledger itself remains the source   *)
(* of truth").                                                               *)
Balanced ==
  /\ reserved = Total({r \in ledger : r.kind = "reservation" /\ Open(r.attempt)})
  /\ spent = judged + Total({r \in ledger : r.kind = "actual"})

(* However many attempts run at once, what is spent and set aside stays      *)
(* within the run cap, quality control apart, which reserves nothing, and    *)
(* what stageCommittedUsd counts within each stage's own cap.                *)
WithinCaps ==
  /\ InitialCap > 0 => reserved + spent <= cap + judged
  /\ \A s \in Stage : stageCap[s] # NoCap => StageCommitted(s) <= stageCap[s]

(* What the providers charged for an attempt is covered by what the ledger   *)
(* books or still holds for it, through every crash, lost answer, sweep and  *)
(* cancellation; a step that runs again may add one call nobody books        *)
(* (fetchAndFinalize makes a direct adapter's paid call).                    *)
Covered(a) == Total(Rows(a, "actual")) + IF Open(a) THEN Ceiling[a] ELSE 0
BilledIsBooked == \A a \in Attempt : bill[a] <= Covered(a) + tries[a] * Ceiling[a]

(* A reservation freed without an actual belongs to an attempt nobody        *)
(* charges for (spec 11.3: only a confirmed non-billing failure is released).*)
ReleasedIsUnbilled ==
  \A a \in Attempt : Settled(a) /\ Rows(a, "actual") = {} => bill[a] = 0

(* What became of an attempt is not undone by those who mark rows they read  *)
(* earlier: a cancellation the provider confirmed stays confirmed ("Over-    *)
(* lapping reconcilers must never undo confirmed cancellation"), and once    *)
(* the finalizing transaction called an attempt a success, only its own step *)
(* run again calls it anything else, and for an item a reconciler that took  *)
(* it for interrupted.                                                       *)
OutcomeStays ==
  [][/\ stopped \subseteq stopped'
     /\ \A a \in delivered :
          outcome[a] = "success" /\ outcome'[a] # "success" /\ pc[a] \in {"committed", "ended"}
            => ItemOf[a] # 0 /\ \E r \in Reconciler : \E t \in recon[r].now : t.attempt = a]_vars

(* Only attempts that end as a success have written: "Failed, rejected, and  *)
(* cancelled attempts never write memory" (design spec section 6, line 720;  *)
(* the finalizing transaction writes the memory with the artifact).          *)
OnlySuccessesWrite == \A a \in delivered : pc[a] = "ended" => outcome[a] = "success"

(* Nothing is delivered after its execution was retired or its run           *)
(* cancelled, however late the provider answers.                             *)
RetiredDeliversNothing ==
  [][\A a \in delivered' \ delivered : epochOf[a] = epoch /\ state \in Draining]_vars

(* A replayed submit step finds its reservation and goes on: the cap cannot  *)
(* block an attempt by the money set aside for this very attempt             *)
(* (LedgerService.reserve, "idempotent").                                    *)
NotBlockedByItself ==
  [][\A a \in Attempt : a \notin closed /\ a \in closed' /\ outcome'[a] = "budget_blocked"
        => ~Open(a)]_vars

(* Money set aside is never lost: every reservation is settled in the end,   *)
(* by the attempt, a cancellation or the sweep, wherever its function died.  *)
ReservationsSettle == \A a \in Attempt : Open(a) ~> ~Open(a)

(* Through every race of an attempt, its replays, a reconciler and the sweep *)
(* the money of an attempt is held once and settled once: the ledger         *)
(* implements Settlement (class comment of LedgerService).                   *)
Money == INSTANCE Settlement WITH account <- [a \in Attempt |-> Account(a)]
SettledOnce == Money!Spec

(* In a cancelled run the money of every attempt its function has left is    *)
(* settled, with one exception: an attempt given up after an error, which    *)
(* recordAttemptError closes without settling anything and a reconciler then *)
(* takes for done, and one refused when its submit step ran again over its   *)
(* own reservation.  Those wait for the sweep (ReservationsSettle).          *)
GivenUp(a) ==
  /\ a \in closed
  /\ \/ outcome[a] = "provider_error"
     \/ outcome[a] \in {"budget_blocked", "cancelled"} /\ tries[a] > 0
CancelledIsBooked ==
  state = "CANCELLED" =>
    \A a \in Attempt : epochOf[a] < epoch /\ pc[a] = "ended" /\ Open(a) => GivenUp(a)

=============================================================================
