---------------------------- MODULE BillingProofs ----------------------------
(* Theorems about what providers charge.                                     *)
EXTENDS CancellationProofs

-----------------------------------------------------------------------------
(* What is released although its attempt is charged for: nothing, for an     *)
(* attempt whose calls cost nothing, one whose paid call is made by fetch    *)
(* and answered there, and a queued job no restart submits again.            *)

Costless(a)   == Costs[a] \subseteq {0}
Direct(a)     == Adapter[a] = "direct"
QueuedOnce(a) == Adapter[a] = "queue" /\ MaxReplays = 0
Tame(a)       == ~Costless(a) /\ (Direct(a) \/ QueuedOnce(a))

(* Its execution takes no new step of it on. *)
Shut(a)  == epochOf[a] < epoch \/ state \notin {"RUNNING", "PAUSING"}
(* It has not called its provider, or will not get its answer. *)
Early(a) == pc[a] \in {"idle", "reserve", "mark", "admit", "call"}
              \/ Settling(a, {"discarded", "invalid"})
(* Nobody charges for it, and nobody will. *)
Harmless(a) ==
  /\ bill[a] = 0 /\ job[a] # "working"
  /\ \/ (pc[a] \in {"reserve", "mark", "admit"} \/ Settling(a, {"discarded"})) /\ Shut(a)
     \/ pc[a] = "ended"
     \/ Settling(a, {"invalid"})
     \/ QueuedOnce(a) /\ ~Early(a)

Unsent == {"none", "created", "reserved"}
AfterCall == {"call", "accepted", "store", "stored", "stop", "fetch", "fetching", "check",
              "judge", "judged", "failing", "committed", "error"}
(* The phase an attempt's row shows is not behind its calls. *)
Sent(a) ==
  /\ pc[a] \in AfterCall => phase[a] \notin Unsent
  /\ pc[a] \in {"settle", "record"} /\ verdict[a] # "discarded" => phase[a] \notin Unsent
  /\ Settling(a, {"discarded"}) => Shut(a)
  /\ pc[a] = "stop" => verdict[a] \in Provisional
Metered(a) ==
  /\ Costless(a) => bill[a] = 0
  /\ Tame(a) =>
       /\ Early(a) => bill[a] = 0 /\ job[a] = "none"
       /\ bill[a] > 0 \/ job[a] # "none" => phase[a] \notin Unsent
  /\ Tame(a) /\ Direct(a) =>
       /\ job[a] = "none"
       /\ pc[a] \in {"accepted", "store"} => bill[a] = 0
       /\ ~(pc[a] = "settle" /\ verdict[a] \in FailedPoll)
  /\ Tame(a) /\ QueuedOnce(a) =>
       /\ a \in handled => ~Early(a)
       /\ bill[a] > 0 => job[a] = "delivered"
       /\ pc[a] = "settle" /\ verdict[a] \in FailedPoll => job[a] \in {"failed", "stopped"}

LEMMA CancelEffect ==
  ASSUME Typed, NEW b \in Attempt, NEW confirmed \in BOOLEAN, NEW billed \in BOOLEAN,
         CancelAnswer(b, confirmed, billed), NEW a \in Attempt
  PROVE  \/ job'[a] = job[a]
         \/ a = b /\ job[a] \in {"working", "kept"} /\ job'[a] = "stopped"
BY LoopAssumption DEF CancelAnswer, Drop, Typed, ProviderType, Adapters

LEMMA JobStep ==
  ASSUME Typed, [Next]_vars, NEW a \in Attempt, ~Own(a)
  PROVE  \/ job'[a] = job[a]
         \/ job[a] \in {"working", "kept"} /\ job'[a] = "stopped"
<1>1. CASE Run \/ Sweeping \/ UNCHANGED vars
  BY <1>1 DEF Run, Pause, Halt, Resume, Cancel, Raise, Sweeping, SweepSelect, SweepStops,
     SweepSettle, SweepMark, provider, vars
<1>2. ASSUME NEW r \in Reconciler, NEW t \in recon[r].todo, ReconcileAsk(r, t)
      PROVE  \/ job'[a] = job[a]
             \/ job[a] \in {"working", "kept"} /\ job'[a] = "stopped"
  <2>1. t.attempt \in Attempt
    BY ReconTyped
  <2>2. PICK confirmed \in BOOLEAN, billed \in BOOLEAN : Ask(t, confirmed, billed)
    BY <1>2 DEF ReconcileAsk
  <2>3. UNCHANGED job \/ CancelAnswer(t.attempt, confirmed, billed)
    BY <2>2 DEF Ask
  <2> QED
    BY <2>1, <2>3, CancelEffect
<1>3. ASSUME NEW r \in Reconciler, Reconciling(r), ~\E t \in recon[r].todo : ReconcileAsk(r, t)
      PROVE  job'[a] = job[a]
  BY <1>3 DEF Reconciling, ReconcileSelect, ReconcileDone, ReconcileStops, ReconcileBook,
     ReconcileMark, provider
<1>4. ASSUME NEW b \in Attempt, Own(b) PROVE job'[a] = job[a]
  BY <1>4, OthersKeep
<1> QED
  BY <1>1, <1>2, <1>3, <1>4, StepKinds DEF Reconciling

LEMMA ShutStays ==
  ASSUME Typed, Begun, [Next]_vars, NEW a \in Attempt, pc[a] # "idle", Shut(a)
  PROVE  Shut(a)'
<1>1. epochOf'[a] = epochOf[a]
  BY IdleStep DEF BeginAttempt
<1>2. epochOf[a] \in Nat /\ epochOf[a] <= epoch
  BY LimitsAssumption DEF Begun, Typed, RowType
<1> QED
  BY <1>1, <1>2, EpochStep DEF Shut

(* What the other parties may do to an attempt keeps all of this. *)
LEMMA OthersMeter ==
  ASSUME Typed, Begun, [Next]_vars, NEW a \in Attempt, ~Own(a), Sent(a), Metered(a)
  PROVE  Sent(a)' /\ Metered(a)' /\ (Early(a)' <=> Early(a))
<1>1. /\ pc'[a] = pc[a] /\ verdict'[a] = verdict[a] /\ bill'[a] = bill[a]
      /\ a \in handled' <=> a \in handled
  BY OwnOrKept DEF Kept, Alone
<1>2. phase'[a] = phase[a] \/ phase'[a] = "settled"
  BY PhaseStep
<1>3. Settling(a, {"discarded"}) => Shut(a)'
  BY ShutStays DEF Sent, Settling
<1>4. Sent(a)'
  BY <1>1, <1>2, <1>3 DEF Sent, Settling, Unsent
<1>5. Early(a)' <=> Early(a)
  BY <1>1 DEF Early, Settling
<1>6. Metered(a)'
  <2>1. \/ job'[a] = job[a]
        \/ job[a] \in {"working", "kept"} /\ job'[a] = "stopped"
    BY JobStep
  <2>2. phase[a] \notin Unsent => phase'[a] \notin Unsent
    BY <1>2 DEF Unsent
  <2>3. bill[a] \in Nat
    BY DEF Typed, ProviderType
  <2> QED
    BY <1>1, <1>5, <2>1, <2>2, <2>3 DEF Metered, Direct, Tame, Costless, QueuedOnce
<1> QED
  BY <1>4, <1>5, <1>6

(* What the last action of a step does when the step then runs again.        *)
LEMMA Reruns ==
  ASSUME Typed, NEW a \in Attempt, Own(a), StepAgain(a)
  PROVE  /\ tries'[a] = tries[a] + 1
         /\ bill'[a] = bill[a] /\ cost'[a] = cost[a] /\ UNCHANGED ledger
         /\ verdict'[a] = verdict[a] \/ pc[a] = "check"
         /\ phase'[a] = phase[a] \/ phase'[a] \in {"submitted", "settled"}
         /\ pc[a] \notin {"idle", "ended"} /\ pc'[a] \notin {"idle", "settle"}
         /\ \/ pc'[a] = pc[a] /\ ~InSubmit(a)
            \/ pc'[a] = "reserve" /\ InSubmit(a)
            \/ pc'[a] = "fetch" /\ InFetch(a)
            \/ pc'[a] = "stop" /\ InTimeout(a)
            \/ pc'[a] = "judge" /\ InVerdict(a)
<1>1. tries'[a] = tries[a] + 1 /\ tries'[a] # tries[a]
  BY LimitsAssumption DEF StepAgain, Typed, EngineType
<1>2. \/ RefuseBudget(a) \/ StoreHandle(a) \/ RecordEnd(a) \/ RecordRefusal(a)
      \/ RecordFailedPoll(a) \/ RecordError(a) \/ JudgeCheckFailed(a) \/ DeferQc(a)
      \/ JudgeQcFailed(a) \/ FinishAttempt(a) \/ Replay(a)
  BY <1>1 DEF Own, Loop, Submitting, Polling, Finishing, BeginAttempt, ReserveBudget, MarkReserved,
     Admit, SubmitJob, SubmitRejected, SubmitThrows, MarkSubmitted, PollDone, PollFailed,
     PollPending, PollExhausted, PollThrows, StopJob, StartFetch, FetchAnswers, FetchThrows,
     SettleAttempt, RecordOutput, StopIfRunNotRunning, PayForVerdict, Finalize, Kill, JobRuns,
     Expire, engine
<1>3. /\ bill'[a] = bill[a] /\ cost'[a] = cost[a] /\ UNCHANGED ledger
      /\ verdict'[a] = verdict[a] \/ pc[a] = "check"
  BY <1>2 DEF RefuseBudget, StoreHandle, RecordEnd, RecordRefusal, RecordFailedPoll, RecordError,
     JudgeCheckFailed, DeferQc, JudgeQcFailed, FinishAttempt, Replay, money, provider
<1>4. phase'[a] = phase[a] \/ phase'[a] \in {"submitted", "settled"}
  BY <1>2 DEF RefuseBudget, StoreHandle, RecordEnd, RecordRefusal, RecordFailedPoll, RecordError,
     JudgeCheckFailed, DeferQc, JudgeQcFailed, FinishAttempt, Replay, Close, RecordDiscarded,
     Phased, row, Typed, RowType
<1>5. pc[a] \in {"reserve", "store", "record", "failing", "error", "check", "judge", "judged",
                 "committed"} \/ Replay(a)
  BY <1>2 DEF RefuseBudget, StoreHandle, RecordEnd, RecordRefusal, RecordFailedPoll, RecordError,
     JudgeCheckFailed, DeferQc, JudgeQcFailed, FinishAttempt
<1>6. \/ pc'[a] = pc[a] /\ ~InSubmit(a)
      \/ pc'[a] = "reserve" /\ InSubmit(a)
      \/ pc'[a] = "fetch" /\ InFetch(a)
      \/ pc'[a] = "stop" /\ InTimeout(a)
      \/ pc'[a] = "judge" /\ InVerdict(a)
  <2>1. InSubmit(a) => StartOf(a) = "reserve"
    BY DEF StartOf, InSubmit, InFetch, InTimeout, InVerdict, Settling, Success, Provisional
  <2> QED
    BY <2>1, AgainPlaces DEF StepAgain, Go, Typed, EngineType
<1>7. Replay(a) => pc'[a] # pc[a]
  BY DEF Replay, StepAgain, Go, Typed, EngineType
<1>8. pc[a] \notin {"idle", "ended"}
  BY <1>5, ReplayPlaces
<1> QED
  BY <1>1, <1>3, <1>4, <1>5, <1>6, <1>7, <1>8

LEMMA OwnSent ==
  ASSUME Typed, Begun, [Next]_vars, NEW a \in Attempt, Own(a), Sent(a)
  PROVE  Sent(a)'
<1>0. Settling(a, {"discarded"}) => Shut(a)'
  BY ShutStays DEF Sent, Settling
<1>a. CASE StepAgain(a)
  <2>1. Settling(a, {"discarded"})' => Shut(a)'
    BY <1>0, <1>a, Reruns DEF Settling
  <2> QED
    BY <1>a, <2>1, Reruns DEF InSubmit, InFetch, InTimeout, InVerdict, Settling, Success,
       Provisional, Sent, AfterCall, Unsent
<1>1. CASE ~StepAgain(a) /\ (\/ BeginAttempt(a) \/ RefuseBudget(a) \/ ReserveBudget(a) \/ MarkReserved(a)
           \/ Replay(a) \/ Kill(a))
  BY <1>1 DEF BeginAttempt, RefuseBudget, ReserveBudget, MarkReserved, Replay, Kill, StepEnds,
     Settling, Phased, Go, Sent, AfterCall, Unsent, Typed, RowType, EngineType, row
<1>2. CASE Admit(a)
  <2>1. CASE Current(a, {"RUNNING", "PAUSING"})
    BY <1>2, <2>1 DEF Admit, Phased, Go, Sent, AfterCall, Unsent, Settling, Typed, RowType,
       EngineType
  <2>2. CASE ~Current(a, {"RUNNING", "PAUSING"})
    <3>1. Shut(a)
      BY <2>2, LimitsAssumption DEF Current, Shut, Begun, Typed, RowType, RunRowType
    <3>2. Shut(a)'
      BY <1>2, <3>1, ShutStays DEF Admit
    <3> QED
      BY <1>2, <2>2, <3>2 DEF Admit, Go, Sent, AfterCall, Settling, Typed, EngineType
  <2> QED
    BY <2>1, <2>2
<1>3. CASE \/ SubmitJob(a) \/ SubmitRejected(a) \/ SubmitThrows(a) \/ MarkSubmitted(a)
           \/ (StoreHandle(a) /\ ~StepAgain(a))
  BY <1>3 DEF SubmitJob, SubmitRejected, SubmitThrows, MarkSubmitted, StoreHandle, StepEnds, Settling,
     Phased, Go, Sent, AfterCall, Unsent, Typed, RowType, EngineType, row
<1>4. CASE \/ PollDone(a) \/ PollPending(a) \/ PollThrows(a) \/ StopJob(a)
  BY <1>4 DEF PollDone, PollPending, PollThrows, StopJob, Settling, Provisional, Go, Sent,
     AfterCall, Typed, RowType, EngineType, row, engine
<1>5. CASE PollFailed(a) \/ PollExhausted(a)
  <2>1. /\ pc[a] = "stored" /\ phase'[a] = phase[a]
        /\ \/ pc'[a] = "settle" /\ verdict'[a] \in FailedPoll
           \/ pc'[a] = "stop" /\ verdict'[a] \in Provisional
    BY <1>5 DEF PollFailed, PollExhausted, Go, Typed, EngineType, row
  <2> QED
    BY <2>1 DEF Settling, FailedPoll, Provisional, Sent, AfterCall
<1>6. CASE \/ StartFetch(a) \/ FetchAnswers(a) \/ FetchThrows(a) \/ SettleAttempt(a)
           \/ RecordOutput(a)
  BY <1>0, <1>6 DEF StartFetch, FetchAnswers, FetchThrows, SettleAttempt, RecordOutput,
     Settling, Success, Phased, Go, Sent, AfterCall, Unsent, Typed, RowType, EngineType, row
<1>7. CASE ~StepAgain(a) /\ (\/ RecordEnd(a) \/ RecordRefusal(a) \/ RecordFailedPoll(a)
                            \/ RecordError(a) \/ JudgeCheckFailed(a) \/ JudgeQcFailed(a)
                            \/ FinishAttempt(a))
  BY <1>7 DEF RecordEnd, RecordRefusal, RecordFailedPoll, RecordError, JudgeCheckFailed,
     JudgeQcFailed, FinishAttempt, StepEnds, Settling, Go, Sent, AfterCall, Typed, EngineType
<1>8. CASE StopIfRunNotRunning(a) \/ Finalize(a)
  BY <1>8 DEF StopIfRunNotRunning, Finalize, Judged, Deliver, RecordDiscarded, Phased, Unsent,
     Settling, FailedPoll, Go, Sent, AfterCall, Typed, RowType, EngineType, row
<1>9. CASE (DeferQc(a) /\ ~StepAgain(a)) \/ PayForVerdict(a) \/ JobRuns(a) \/ Expire(a)
  BY <1>0, <1>9 DEF DeferQc, PayForVerdict, JobRuns, Expire, StepEnds, Settling, Go, Sent, AfterCall,
     Typed, EngineType, row, engine
<1> QED
  BY <1>a, <1>1, <1>2, <1>3, <1>4, <1>5, <1>6, <1>7, <1>8, <1>9
  DEF Own, Loop, Submitting, Polling, Finishing

(* Charges are made by the answer to fetch and by the job that runs. *)
LEMMA BillStep ==
  ASSUME Typed, NEW a \in Attempt, Own(a)
  PROVE  \/ bill'[a] = bill[a]
         \/ /\ FetchAnswers(a) \/ FetchThrows(a)
            /\ Adapter[a] # "queue"
            /\ \E c \in Costs[a] \cup {0} : c \in Nat /\ bill'[a] = bill[a] + c
         \/ /\ JobRuns(a) /\ job'[a] = "delivered"
            /\ \E c \in Costs[a] : c \in Nat /\ bill'[a] = bill[a] + c
<1>1. CASE FetchAnswers(a) \/ FetchThrows(a)
  BY <1>1, LoopAssumption DEF FetchAnswers, FetchThrows, Charge, Typed, ProviderType
<1>2. CASE JobRuns(a)
  BY <1>2, LoopAssumption DEF JobRuns, Charge, Typed, ProviderType
<1>3. CASE ~FetchAnswers(a) /\ ~FetchThrows(a) /\ ~JobRuns(a)
  BY <1>3 DEF Own, Loop, Submitting, Polling, Finishing, BeginAttempt, RefuseBudget,
     ReserveBudget, MarkReserved, Admit, SubmitJob, SubmitRejected, SubmitThrows, MarkSubmitted,
     StoreHandle, PollDone, PollFailed, PollPending, PollExhausted, PollThrows, StopJob,
     StartFetch, SettleAttempt, RecordOutput, RecordEnd, RecordRefusal, StopIfRunNotRunning,
     RecordFailedPoll, RecordError, JudgeCheckFailed, DeferQc, PayForVerdict, JudgeQcFailed,
     Finalize, FinishAttempt, Replay, Kill, Expire, provider
<1> QED
  BY <1>1, <1>2, <1>3

LEMMA OwnJob ==
  ASSUME Typed, NEW a \in Attempt, Own(a)
  PROVE  \/ job'[a] = job[a]
         \/ pc[a] = "call" /\ Adapter[a] # "direct" /\ pc'[a] \in {"accepted", "error"}
              /\ job'[a] \in {"working", "kept"}
         \/ JobRuns(a) /\ job[a] = "working" /\ job'[a] \in {"failed", "delivered"}
         \/ job[a] \in {"working", "kept"} /\ job'[a] = "stopped"
<1>1. CASE SubmitJob(a) \/ SubmitThrows(a)
  BY <1>1, LoopAssumption DEF SubmitJob, SubmitThrows, Starts, Go, Adapters, Typed, ProviderType,
     EngineType
<1>2. CASE StopJob(a) \/ RecordError(a)
  BY <1>2, CancelEffect DEF StopJob, RecordError
<1>3. CASE JobRuns(a)
  BY <1>3 DEF JobRuns, Typed, ProviderType
<1>4. CASE Replay(a)
  <2>1. Drop(a) => \/ job'[a] = job[a]
                   \/ job[a] = "kept" /\ job'[a] = "stopped"
    BY DEF Drop, Typed, ProviderType
  <2> QED
    BY <1>4, <2>1 DEF Replay
<1>5. CASE ~SubmitJob(a) /\ ~SubmitThrows(a) /\ ~StopJob(a) /\ ~RecordError(a) /\ ~JobRuns(a)
             /\ ~Replay(a)
  BY <1>5 DEF Own, Loop, Submitting, Polling, Finishing, BeginAttempt, RefuseBudget,
     ReserveBudget, MarkReserved, Admit, SubmitRejected, MarkSubmitted, StoreHandle, PollDone,
     PollFailed, PollPending, PollExhausted, PollThrows, StartFetch, FetchAnswers, FetchThrows,
     SettleAttempt, RecordOutput, RecordEnd, RecordRefusal, StopIfRunNotRunning,
     RecordFailedPoll, JudgeCheckFailed, DeferQc, PayForVerdict, JudgeQcFailed, Finalize,
     FinishAttempt, Kill, Expire, provider
<1> QED
  BY <1>1, <1>2, <1>3, <1>4, <1>5

(* Where a step of the attempt itself may take it. *)
Going(a) ==
  /\ Early(a)' => Early(a) \/ (StepAgain(a) /\ pc[a] \in {"accepted", "store"})
  /\ pc'[a] \in {"accepted", "store"} => pc[a] \in {"call", "accepted", "store"}
  /\ pc'[a] = "settle" /\ verdict'[a] \in FailedPoll
       => \/ pc[a] = "settle" /\ verdict[a] \in FailedPoll
          \/ Adapter[a] = "queue" /\ job[a] \in {"failed", "stopped"}
  /\ a \in handled' => a \in handled \/ pc'[a] = "stored" \/ StepAgain(a)
  /\ phase'[a] \in Unsent
       => phase[a] \in Unsent \/ (pc[a] \in {"idle", "mark"} /\ pc'[a] \in {"reserve", "admit"})

LEMMA OwnGoing ==
  ASSUME Typed, NEW a \in Attempt, Own(a), Sent(a)
  PROVE  Going(a)
<1>1. CASE \/ BeginAttempt(a) \/ (RefuseBudget(a) /\ ~StepAgain(a)) \/ ReserveBudget(a)
           \/ MarkReserved(a) \/ Kill(a)
  BY <1>1 DEF BeginAttempt, RefuseBudget, ReserveBudget, MarkReserved, Kill, StepEnds, Phased, Go,
     Going, Early, Settling, Unsent, Typed, RowType, EngineType, row
<1>2. CASE StepAgain(a)
  <2>1. Early(a)' => Early(a) \/ pc[a] \in {"accepted", "store"}
    BY <1>2, Reruns DEF InSubmit, Early, Settling
  <2> QED
    BY <1>2, <2>1, Reruns DEF Going, Unsent
<1>a. Replay(a) => StepAgain(a)
  BY DEF Replay
<1>3. CASE \/ Admit(a) \/ SubmitJob(a) \/ SubmitRejected(a) \/ SubmitThrows(a)
           \/ MarkSubmitted(a) \/ (StoreHandle(a) /\ ~StepAgain(a))
  BY <1>3 DEF Admit, SubmitJob, SubmitRejected, SubmitThrows, MarkSubmitted, StoreHandle,
     StepEnds, FailedPoll, Phased, Go, Going, Early, Settling, Unsent, Typed, RowType, EngineType, row
<1>4. CASE \/ PollDone(a) \/ PollPending(a) \/ PollThrows(a) \/ StopJob(a)
  BY <1>4 DEF PollDone, PollPending, PollThrows, StopJob, Settling, Provisional, FailedPoll, Go,
     Sent, Going, Early, Typed, RowType, EngineType, row, engine
<1>5. CASE PollFailed(a) \/ PollExhausted(a)
  <2>1. /\ pc[a] = "stored" /\ phase'[a] = phase[a] /\ UNCHANGED handled
        /\ verdict'[a] \in FailedPoll \cup Provisional
        /\ \/ pc'[a] = "settle" /\ Adapter[a] = "queue" /\ job[a] \in {"failed", "stopped"}
           \/ pc'[a] = "stop"
    BY <1>5 DEF PollFailed, PollExhausted, Go, Typed, EngineType, row
  <2> QED
    BY <2>1 DEF Settling, FailedPoll, Provisional, Going, Early
<1>6. CASE \/ StartFetch(a) \/ FetchAnswers(a) \/ FetchThrows(a) \/ SettleAttempt(a)
           \/ RecordOutput(a)
  BY <1>6 DEF StartFetch, FetchAnswers, FetchThrows, SettleAttempt, RecordOutput,
     Success, FailedPoll, Phased, Go, Going, Early, Settling, Unsent, Typed, RowType,
     EngineType, row
<1>7. CASE ~StepAgain(a) /\ (\/ RecordEnd(a) \/ RecordRefusal(a) \/ RecordFailedPoll(a)
                            \/ RecordError(a) \/ JudgeCheckFailed(a) \/ JudgeQcFailed(a)
                            \/ FinishAttempt(a))
  BY <1>7 DEF RecordEnd, RecordRefusal, RecordFailedPoll, RecordDiscarded, RecordError,
     JudgeCheckFailed, JudgeQcFailed, FinishAttempt, Close, StepEnds, Phased, Settling, Unsent,
     Go, Going, Early, Typed, RowType, EngineType, row
<1>8. CASE StopIfRunNotRunning(a) \/ Finalize(a)
  <2>1. pc'[a] \in {"failing", "ended", "committed"} /\ UNCHANGED handled
    BY <1>8 DEF StopIfRunNotRunning, Finalize, Deliver, RecordDiscarded, Go, Typed, EngineType, row
  <2>2. phase'[a] = phase[a] \/ phase'[a] = "settled"
    BY <1>8 DEF StopIfRunNotRunning, Finalize, Deliver, RecordDiscarded, Phased, Typed, RowType, row
  <2>3. ~Early(a)'
    BY <2>1 DEF Early, Settling
  <2> QED
    BY <2>1, <2>2, <2>3 DEF Unsent, Going
<1>9. CASE (DeferQc(a) /\ ~StepAgain(a)) \/ PayForVerdict(a) \/ JobRuns(a) \/ Expire(a)
  BY <1>9 DEF DeferQc, PayForVerdict, JobRuns, Expire, StepEnds, Settling, Go, Going, Early,
     Typed, EngineType, row, engine
<1> QED
  BY <1>a, <1>1, <1>2, <1>3, <1>4, <1>5, <1>6, <1>7, <1>8, <1>9
  DEF Own, Loop, Submitting, Polling, Finishing

LEMMA OwnMeter ==
  ASSUME Typed, NEW a \in Attempt, Own(a), Sent(a), Metered(a)
  PROVE  Metered(a)'
<1>0. Going(a)
  BY OwnGoing
<1>1. /\ bill[a] \in Nat /\ bill'[a] \in Nat
      /\ \/ bill'[a] = bill[a]
         \/ pc[a] = "fetching" /\ Adapter[a] # "queue"
         \/ job[a] = "working" /\ job'[a] = "delivered"
      /\ Costless(a) /\ bill[a] = 0 => bill'[a] = 0
  BY BillStep DEF Typed, ProviderType, FetchAnswers, FetchThrows, JobRuns, Costless
<1>2. \/ job'[a] = job[a]
      \/ pc[a] = "call" /\ Adapter[a] # "direct" /\ pc'[a] \in {"accepted", "error"}
           /\ job'[a] \in {"working", "kept"}
      \/ job[a] = "working" /\ job'[a] \in {"failed", "delivered"}
      \/ job[a] \in {"working", "kept"} /\ job'[a] = "stopped"
  BY OwnJob
<1>3. QueuedOnce(a) => ~StepAgain(a)
  BY LimitsAssumption DEF QueuedOnce, StepAgain, Typed, EngineType
<1>4. Costless(a) => bill'[a] = 0
  BY <1>1 DEF Metered
<1>5. ASSUME Tame(a), Early(a)' PROVE bill'[a] = 0 /\ job'[a] = "none"
  <2>1. bill[a] = 0 /\ job[a] = "none" /\ pc[a] # "fetching"
    BY <1>0, <1>3, <1>5 DEF Going, Metered, Tame, Early, Settling
  <2>2. pc'[a] \notin {"accepted", "error"}
    BY <1>5 DEF Early, Settling
  <2> QED
    BY <1>1, <1>2, <2>1, <2>2
<1>6. ASSUME Tame(a), bill'[a] > 0 \/ job'[a] # "none" PROVE phase'[a] \notin Unsent
  <2>1. CASE bill[a] > 0 \/ job[a] # "none"
    <3>1. phase[a] \notin Unsent /\ ~Early(a)
      BY <1>1, <1>6, <2>1 DEF Metered
    <3> QED
      BY <1>0, <3>1 DEF Going, Early
  <2>2. CASE ~(bill[a] > 0 \/ job[a] # "none")
    <3>1. pc[a] \in {"fetching", "call"}
      BY <1>1, <1>2, <1>6, <2>2
    <3> QED
      BY <1>0, <3>1 DEF Going, Sent, AfterCall
  <2> QED
    BY <2>1, <2>2
<1>7. ASSUME Tame(a), Direct(a)
      PROVE  /\ job'[a] = "none"
             /\ pc'[a] \in {"accepted", "store"} => bill'[a] = 0
             /\ ~(pc'[a] = "settle" /\ verdict'[a] \in FailedPoll)
  <2>1. job[a] = "none" /\ job'[a] = "none"
    BY <1>2, <1>7 DEF Metered, Direct
  <2>2. pc'[a] \in {"accepted", "store"} => bill'[a] = 0
    BY <1>0, <1>1, <1>7, <2>1 DEF Going, Metered, Early
  <2> QED
    BY <1>0, <1>7, <2>1, <2>2 DEF Going, Metered, Direct
<1>8. ASSUME Tame(a), QueuedOnce(a)
      PROVE  /\ a \in handled' => ~Early(a)'
             /\ bill'[a] > 0 => job'[a] = "delivered"
             /\ pc'[a] = "settle" /\ verdict'[a] \in FailedPoll => job'[a] \in {"failed", "stopped"}
  <2>1. a \in handled' => ~Early(a)'
    <3>1. pc'[a] = "stored" => ~Early(a)'
      BY DEF Early, Settling
    <3> QED
      BY <1>0, <1>3, <1>8, <3>1 DEF Going, Metered
  <2>2. bill'[a] > 0 => job'[a] = "delivered"
    BY <1>1, <1>2, <1>8 DEF Metered, Early, QueuedOnce
  <2>3. pc'[a] = "settle" /\ verdict'[a] \in FailedPoll => job'[a] \in {"failed", "stopped"}
    BY <1>0, <1>2, <1>8 DEF Going, Metered
  <2> QED
    BY <2>1, <2>2, <2>3
<1> QED
  BY <1>4, <1>5, <1>6, <1>7, <1>8 DEF Metered, Tame, Costless, Direct, QueuedOnce

(* A step of a shut execution leads to its refusal or to its release. *)
LEMMA OwnShut ==
  ASSUME Typed, NEW a \in Attempt, Own(a), Shut(a), job[a] # "working",
         pc[a] \in {"reserve", "mark", "admit"} \/ Settling(a, {"discarded"})
  PROVE  pc'[a] \in {"reserve", "mark", "admit", "ended"} \/ Settling(a, {"discarded"})'
<1>0. Refusal(a, limit[a]) # "none" /\ ~Current(a, {"RUNNING", "PAUSING"})
  BY LimitsAssumption DEF Shut, Refusal, Current, Typed, RowType, RunRowType
<1>a. CASE StepAgain(a)
  <2>1. InSubmit(a) /\ pc'[a] = "reserve"
    BY <1>a, Reruns DEF InSubmit, InFetch, InTimeout, InVerdict, Settling, Success, Provisional
  <2> QED
    BY <2>1
<1>1. CASE pc[a] = "reserve" /\ ~StepAgain(a)
  <2>1. RefuseBudget(a) \/ Kill(a) \/ Expire(a)
    BY <1>0, <1>1 DEF Own, Loop, Submitting, Polling, Finishing, BeginAttempt, ReserveBudget,
       MarkReserved, Admit, SubmitJob, SubmitRejected, SubmitThrows, MarkSubmitted, StoreHandle,
       PollDone, PollFailed, PollPending, PollExhausted, PollThrows, StopJob, StartFetch,
       FetchAnswers, FetchThrows, SettleAttempt, RecordOutput, RecordEnd, RecordRefusal,
       StopIfRunNotRunning, RecordFailedPoll, RecordError, JudgeCheckFailed, DeferQc,
       PayForVerdict, JudgeQcFailed, Finalize, FinishAttempt, Judged, Replay, Settling, JobRuns
  <2> QED
    BY <1>1, <2>1 DEF RefuseBudget, Kill, Expire, StepEnds, Go, Typed, EngineType, engine
<1>2. CASE pc[a] \in {"mark", "admit"} /\ ~StepAgain(a)
  <2>1. MarkReserved(a) \/ Admit(a) \/ Expire(a)
    BY <1>2 DEF Own, Loop, Submitting, Polling, Finishing, BeginAttempt, RefuseBudget,
       ReserveBudget, SubmitJob, SubmitRejected, SubmitThrows, MarkSubmitted, StoreHandle,
       PollDone, PollFailed, PollPending, PollExhausted, PollThrows, StopJob, StartFetch,
       FetchAnswers, FetchThrows, SettleAttempt, RecordOutput, RecordEnd, RecordRefusal,
       StopIfRunNotRunning, RecordFailedPoll, RecordError, JudgeCheckFailed, DeferQc,
       PayForVerdict, JudgeQcFailed, Finalize, FinishAttempt, Judged, Replay, Kill, Boundary,
       Settling, JobRuns
  <2> QED
    BY <1>0, <1>2, <2>1 DEF MarkReserved, Admit, Expire, Settling, Go, Typed, EngineType, engine
<1>3. CASE Settling(a, {"discarded"}) /\ ~StepAgain(a)
  <2>1. SettleAttempt(a) \/ RecordRefusal(a) \/ Expire(a)
    BY <1>3 DEF Own, Loop, Submitting, Polling, Finishing, BeginAttempt, RefuseBudget,
       ReserveBudget, MarkReserved, Admit, SubmitJob, SubmitRejected, SubmitThrows,
       MarkSubmitted, StoreHandle, PollDone, PollFailed, PollPending, PollExhausted, PollThrows,
       StopJob, StartFetch, FetchAnswers, FetchThrows, RecordOutput, RecordEnd,
       StopIfRunNotRunning, RecordFailedPoll, RecordError, JudgeCheckFailed, DeferQc,
       PayForVerdict, JudgeQcFailed, Finalize, FinishAttempt, Judged, Replay, Kill, Boundary,
       Settling, JobRuns, Provisional, FailedPoll
  <2> QED
    BY <1>3, <2>1 DEF SettleAttempt, RecordRefusal, Expire, StepEnds, Settling, Go, Typed,
       EngineType, engine
<1> QED
  BY <1>a, <1>1, <1>2, <1>3

LEMMA OwnInvalid ==
  ASSUME Typed, NEW a \in Attempt, Own(a), job[a] # "working", Settling(a, {"invalid"})
  PROVE  pc'[a] = "ended" \/ Settling(a, {"invalid"})'
<1>a. CASE StepAgain(a)
  <2>1. pc'[a] = pc[a] /\ verdict'[a] = verdict[a]
    BY <1>a, Reruns DEF InSubmit, InFetch, InTimeout, InVerdict, Settling, Success, Provisional
  <2> QED
    BY <2>1 DEF Settling
<1>b. ASSUME ~StepAgain(a) PROVE SettleAttempt(a) \/ RecordEnd(a) \/ Kill(a) \/ Expire(a)
  BY <1>b DEF Own, Loop, Submitting, Polling, Finishing, BeginAttempt, RefuseBudget, ReserveBudget,
     MarkReserved, Admit, SubmitJob, SubmitRejected, SubmitThrows, MarkSubmitted, StoreHandle,
     PollDone, PollFailed, PollPending, PollExhausted, PollThrows, StopJob, StartFetch,
     FetchAnswers, FetchThrows, RecordOutput, RecordRefusal, StopIfRunNotRunning,
     RecordFailedPoll, RecordError, JudgeCheckFailed, DeferQc, PayForVerdict, JudgeQcFailed,
     Finalize, FinishAttempt, Judged, Replay, Settling, JobRuns, Success, Provisional, FailedPoll
<1> QED
  BY <1>a, <1>b DEF SettleAttempt, RecordEnd, Kill, Expire, StepEnds, Settling, Go, Typed, EngineType, engine

LEMMA HarmlessStays ==
  ASSUME Typed, Begun, [Next]_vars, NEW a \in Attempt, Tame(a), Sent(a), Metered(a), Harmless(a)
  PROVE  Harmless(a)'
<1>0. pc[a] # "idle" /\ bill[a] = 0 /\ job[a] # "working" /\ (Shut(a) => Shut(a)')
  <2>1. QueuedOnce(a) /\ ~Early(a) => pc[a] # "idle"
    BY DEF Early
  <2>2. pc[a] # "idle"
    BY <2>1 DEF Harmless, Settling
  <2> QED
    BY <2>2, ShutStays DEF Harmless
<1>1. CASE ~Own(a)
  <2>1. pc'[a] = pc[a] /\ verdict'[a] = verdict[a] /\ bill'[a] = bill[a]
    BY <1>1, OwnOrKept DEF Kept, Alone
  <2>2. job'[a] # "working"
    BY <1>0, <1>1, JobStep
  <2> QED
    BY <1>0, <1>1, <2>1, <2>2, OthersMeter DEF Harmless, Settling, QueuedOnce
<1>2. CASE Own(a)
  <2>1. CASE (pc[a] \in {"reserve", "mark", "admit"} \/ Settling(a, {"discarded"})) /\ Shut(a)
    <3>1. pc'[a] \in {"reserve", "mark", "admit", "ended"} \/ Settling(a, {"discarded"})'
      BY <1>0, <1>2, <2>1, OwnShut
    <3>2. pc[a] \notin {"fetching", "call"}
      BY <2>1 DEF Settling
    <3>3. bill'[a] = 0 /\ job'[a] # "working"
      BY <1>0, <1>2, <3>2, BillStep, OwnJob DEF FetchAnswers, FetchThrows, JobRuns
    <3> QED
      BY <1>0, <2>1, <3>1, <3>3 DEF Harmless
  <2>2. CASE pc[a] = "ended"
    <3>1. pc'[a] = "ended"
      BY <2>2, EndedStays
    <3>2. bill'[a] = 0 /\ job'[a] # "working"
      BY <1>0, <1>2, <2>2, BillStep, OwnJob DEF FetchAnswers, FetchThrows, JobRuns
    <3> QED
      BY <3>1, <3>2 DEF Harmless
  <2>3. CASE Settling(a, {"invalid"})
    <3>1. pc'[a] = "ended" \/ Settling(a, {"invalid"})'
      BY <1>0, <1>2, <2>3, OwnInvalid
    <3>2. pc[a] \notin {"fetching", "call"}
      BY <2>3 DEF Settling
    <3>3. bill'[a] = 0 /\ job'[a] # "working"
      BY <1>0, <1>2, <3>2, BillStep, OwnJob DEF FetchAnswers, FetchThrows, JobRuns
    <3> QED
      BY <3>1, <3>3 DEF Harmless
  <2>4. CASE QueuedOnce(a) /\ ~Early(a)
    <3>1. ~StepAgain(a)
      BY <2>4, LimitsAssumption DEF QueuedOnce, StepAgain, Typed, EngineType
    <3>2. ~Early(a)'
      BY <1>2, <2>4, <3>1, OwnGoing DEF Going
    <3>3. pc[a] # "call" /\ Adapter[a] = "queue"
      BY <2>4 DEF Early, QueuedOnce
    <3>4. bill'[a] = 0 /\ job'[a] # "working"
      BY <1>0, <1>2, <3>3, BillStep, OwnJob DEF JobRuns
    <3> QED
      BY <2>4, <3>2, <3>4 DEF Harmless, QueuedOnce
  <2> QED
    BY <2>1, <2>2, <2>3, <2>4 DEF Harmless
<1> QED
  BY <1>1, <1>2

Freed(a) == Account(a) = "freed"
(* The answer on which a reconciler releases. *)
Releasing(t) == ~t.booked /\ ~t.stopped /\ t.confirmed /\ ~t.billed

LEMMA ReleaseFrees ==
  ASSUME NEW a \in Attempt, NEW c \in Nat, NEW b \in Attempt, HasReservation(b), SettlesNow(b, c),
         Freed(a)', ~Freed(a)
  PROVE  a = b /\ ~Settled(a) /\ ~SettleSuccess(a, c) /\ ~SettleProvisional(a)
<1>1. a = b /\ ~Settled(a)
  BY SettleEffect DEF Freed
<1>2. Rows(a, "actual")' = {}
  BY DEF Freed, Account
<1>3. ~SettleSuccess(a, c)
  <2> SUFFICES ASSUME SettleSuccess(a, c) PROVE FALSE
    OBVIOUS
  <2> DEFINE r == Row(a, "actual", c, TRUE)
  <2>1. r.attempt = a /\ r.kind = "actual"
    BY DEF Row
  <2>2. r \in ledger'
    BY <1>1 DEF SettleSuccess, Settle
  <2> HIDE DEF r
  <2> QED
    BY <1>2, <2>1, <2>2 DEF Rows
<1>4. ~SettleProvisional(a)
  <2> SUFFICES ASSUME SettleProvisional(a) PROVE FALSE
    OBVIOUS
  <2> DEFINE r == Row(a, "actual", Ceiling[a], FALSE)
  <2>1. r.attempt = a /\ r.kind = "actual"
    BY DEF Row
  <2>2. r \in ledger'
    BY <1>1 DEF SettleProvisional, Settle
  <2> HIDE DEF r
  <2> QED
    BY <1>2, <2>1, <2>2 DEF Rows
<1> QED
  BY <1>1, <1>3, <1>4

LEMMA OwnLedger ==
  ASSUME NEW a \in Attempt, Own(a)
  PROVE  UNCHANGED ledger \/ ReserveBudget(a) \/ SettleAttempt(a)
BY DEF Own, Loop, Submitting, Polling, Finishing, BeginAttempt, RefuseBudget, MarkReserved,
   Admit, SubmitJob, SubmitRejected, SubmitThrows, MarkSubmitted, MoveExpiry, StoreHandle,
   PollDone, PollFailed, PollPending, PollExhausted, PollThrows, StopJob, StartFetch,
   FetchAnswers, FetchThrows, RecordOutput, RecordEnd, RecordRefusal, StopIfRunNotRunning,
   RecordFailedPoll, RecordError, JudgeCheckFailed, DeferQc, PayForVerdict, RecordActual,
   JudgeQcFailed, Finalize, FinishAttempt, Replay, Kill, JobRuns, Expire, money

(* The three that free an attempt's money. *)
LEMMA FreedStep ==
  ASSUME Typed, SetAside, [Next]_vars, NEW a \in Attempt, Freed(a)', ~Freed(a)
  PROVE  \/ SettleAttempt(a) /\ verdict[a] \in Release
         \/ \E t \in sweep : t[1] = a /\ SweepSettle(t) /\ t[2] \in NeverSent
         \/ \E r \in Reconciler : \E t \in recon[r].now :
              t.attempt = a /\ ReconcileBook(r, t) /\ Releasing(t)
<1>0. ~UNCHANGED ledger
  BY UnchangedLedger DEF Freed
<1>1. ASSUME NEW b \in Attempt, Own(b) PROVE SettleAttempt(a) /\ verdict[a] \in Release
  <2>1. ~ReserveBudget(b)
    <3>1. ASSUME Reserve(b) PROVE FALSE
      <4>1. Account(a)' = Account(a) \/ Account(a)' = "held"
        BY <3>1, ReserveEffect DEF SetAside
      <4> QED
        BY <4>1 DEF Freed
    <3> QED
      BY <3>1 DEF ReserveBudget
  <2>2. SettleAttempt(b)
    BY <1>0, <1>1, <2>1, OwnLedger
  <2>3. HasReservation(b) /\ cost[b] \in Nat /\ SettlesNow(b, cost[b])
    BY <2>2 DEF SettleAttempt, SettlesNow, SetAside, Holding, Place, Typed, EngineType
  <2>4. a = b /\ ~SettleSuccess(a, cost[a]) /\ ~SettleProvisional(a)
    BY <2>3, ReleaseFrees
  <2> QED
    BY <2>2, <2>4 DEF SettleAttempt
<1>2. ASSUME NEW t \in sweep, SweepSettle(t) PROVE t[1] = a /\ t[2] \in NeverSent
  <2>1. t[1] \in Attempt /\ HasReservation(t[1]) /\ SettlesNow(t[1], 0)
    BY <1>2, SweptTyped DEF SetAside, SweepSettle, SettlesNow
  <2>2. a = t[1] /\ ~SettleProvisional(a)
    BY <2>1, ReleaseFrees
  <2> QED
    BY <1>2, <2>2 DEF SweepSettle
<1>3. ASSUME NEW r \in Reconciler, NEW t \in recon[r].now, ReconcileBook(r, t)
      PROVE  t.attempt = a /\ Releasing(t)
  <2>1. t.attempt \in Attempt
    BY ReconTyped
  <2>2. ~(t.stopped \/ ~HasReservation(t.attempt))
    BY <1>0, <1>3 DEF ReconcileBook, money
  <2>3. SettlesNow(t.attempt, 0)
    BY <1>3, <2>2 DEF ReconcileBook, SettlesNow
  <2>4. a = t.attempt /\ ~SettleProvisional(a)
    BY <2>1, <2>2, <2>3, ReleaseFrees
  <2> QED
    BY <1>3, <2>2, <2>4 DEF ReconcileBook, Releasing
<1>4. Run \/ UNCHANGED vars => UNCHANGED ledger
  BY DEF Run, Pause, Halt, Resume, Cancel, Raise, RaiseBudget, RaiseStageCap, money, vars
<1>5. SweepSelect \/ SweepStops \/ (\E t \in sweeping : SweepMark(t)) => UNCHANGED ledger
  BY DEF SweepSelect, SweepStops, SweepMark, money
<1>6. ASSUME NEW r \in Reconciler,
             \/ ReconcileSelect(r) \/ ReconcileDone(r) \/ ReconcileStops(r)
             \/ \E t \in recon[r].todo : ReconcileAsk(r, t)
             \/ \E t \in recon[r].now : ReconcileMark(r, t)
      PROVE  UNCHANGED ledger
  BY <1>6 DEF ReconcileSelect, ReconcileDone, ReconcileStops, ReconcileAsk, ReconcileMark, money
<1> QED
  BY <1>0, <1>1, <1>2, <1>3, <1>4, <1>5, <1>6, StepKinds DEF Sweeping, Reconciling

MeteredAll == \A a \in Attempt : Sent(a) /\ Metered(a)
Released ==
  /\ \A a \in Attempt : Tame(a) /\ Freed(a) => Harmless(a)
  /\ \A t \in sweep : Tame(t[1]) /\ t[2] \in NeverSent => Harmless(t[1])
  /\ \A r \in Reconciler :
       /\ \A t \in recon[r].todo :
            /\ t.handled => t.attempt \in handled
            /\ Tame(t.attempt) /\ t.phase \in NeverSent => Harmless(t.attempt)
       /\ \A t \in recon[r].now : Tame(t.attempt) /\ Releasing(t) => Harmless(t.attempt)

LEMMA MeteredInit == Init => MeteredAll
<1> SUFFICES ASSUME Init, NEW a \in Attempt PROVE Sent(a) /\ Metered(a)
  BY DEF MeteredAll
<1>1. /\ pc[a] = "idle" /\ bill[a] = 0 /\ job[a] = "none" /\ handled = {}
  BY DEF Init
<1> QED
  BY <1>1 DEF Sent, Metered, AfterCall, Settling

LEMMA MeteredNext == Typed /\ Begun /\ MeteredAll /\ [Next]_vars => MeteredAll'
<1> SUFFICES ASSUME Typed, Begun, MeteredAll, [Next]_vars, NEW a \in Attempt
             PROVE  Sent(a)' /\ Metered(a)'
  BY DEF MeteredAll
<1>1. Sent(a) /\ Metered(a)
  BY DEF MeteredAll
<1> QED
  BY <1>1, OthersMeter, OwnSent, OwnMeter

LEMMA ReleasedInit == Init => Released
<1> SUFFICES ASSUME Init PROVE Released
  OBVIOUS
<1>1. \A a \in Attempt : ~Freed(a)
  BY DEF Init, NoMoney, Freed, Account, HasReservation, Rows
<1> QED
  BY <1>1 DEF Init, Released, NoWork

(* An attempt whose row says that it was never sent, and which nobody works *)
(* on or whose execution is retired, is charged nothing. *)
LEMMA UnsentHarmless ==
  ASSUME Typed, Begun, NEW a \in Attempt, Tame(a), Sent(a), Metered(a),
         phase[a] \in NeverSent, pc[a] = "ended" \/ Retired(a)
  PROVE  Harmless(a)
<1>1. bill[a] = 0 /\ job[a] = "none"
  BY DEF Metered, NeverSent, Unsent, Typed, ProviderType
<1>2. Retired(a) => Shut(a) /\ pc[a] # "idle"
  BY DEF Retired, Shut
<1>3. pc[a] \in {"reserve", "mark", "admit", "ended", "idle"} \/ Settling(a, {"discarded"})
  BY DEF Sent, AfterCall, NeverSent, Unsent, Settling, Typed, EngineType, Place
<1> QED
  BY <1>1, <1>2, <1>3 DEF Harmless

(* What an attempt's own function releases, nobody charges for. *)
LEMMA OwnRelease ==
  ASSUME Typed, SetAside, Begun, [Next]_vars, NEW a \in Attempt, Tame(a), Sent(a), Metered(a),
         SettleAttempt(a), verdict[a] \in Release
  PROVE  Harmless(a)'
<1>1. /\ pc[a] = "settle" /\ pc'[a] = "record" /\ verdict'[a] = verdict[a]
      /\ bill'[a] = bill[a] /\ job'[a] = job[a]
  BY DEF SettleAttempt, Go, Typed, EngineType, provider
<1>2. CASE verdict[a] = "discarded"
  <2>1. Settling(a, {"discarded"}) /\ Settling(a, {"discarded"})' /\ Early(a)
    BY <1>1, <1>2 DEF Settling, Early
  <2>2. Shut(a)'
    BY <1>1, <2>1, ShutStays DEF Sent
  <2> QED
    BY <1>1, <2>1, <2>2 DEF Metered, Harmless
<1>3. CASE verdict[a] = "invalid"
  <2>1. Settling(a, {"invalid"})' /\ Early(a)
    BY <1>1, <1>3 DEF Settling, Early
  <2> QED
    BY <1>1, <2>1 DEF Metered, Harmless
<1>4. CASE verdict[a] \in FailedPoll
  <2>1. QueuedOnce(a) /\ job[a] \in {"failed", "stopped"} /\ bill[a] = 0
    BY <1>1, <1>4 DEF Metered, Tame, Typed, ProviderType
  <2>2. ~Early(a)'
    BY <1>1, <1>4 DEF Early, Settling, FailedPoll
  <2> QED
    BY <1>1, <2>1, <2>2 DEF Harmless, QueuedOnce
<1> QED
  BY <1>2, <1>3, <1>4 DEF Release

LEMMA HandledStays ==
  ASSUME Typed, [Next]_vars
  PROVE  handled \subseteq handled'
<1>1. ASSUME NEW a \in Attempt, Own(a) PROVE handled \subseteq handled'
  BY <1>1 DEF Own, Loop, Submitting, Polling, Finishing, BeginAttempt, RefuseBudget,
     ReserveBudget, MarkReserved, Admit, SubmitJob, SubmitRejected, SubmitThrows, MarkSubmitted,
     StoreHandle, PollDone, PollFailed, PollPending, PollExhausted, PollThrows, StopJob,
     StartFetch, FetchAnswers, FetchThrows, SettleAttempt, RecordOutput, RecordEnd,
     RecordRefusal, StopIfRunNotRunning, RecordFailedPoll, RecordDiscarded, RecordError,
     JudgeCheckFailed, DeferQc, PayForVerdict, JudgeQcFailed, Finalize, FinishAttempt, Close,
     Replay, Kill, JobRuns, Expire, row, Deliver
<1>2. ASSUME NEW a \in Attempt, ~Own(a) PROVE a \in handled => a \in handled'
  BY <1>2, OwnOrKept DEF Kept
<1>3. handled \subseteq Attempt
  BY DEF Typed, RowType
<1> QED
  BY <1>1, <1>2, <1>3

(* A reconciler that may release has it from the provider, or from a row     *)
(* that was never sent.                                                      *)
LEMMA AskedHarmless ==
  ASSUME Typed, SetAside, Begun, MeteredAll, Released, [Next]_vars, UNCHANGED row,
         NEW r \in Reconciler, NEW t \in recon[r].todo, Tame(t.attempt), ~t.stopped,
         NEW billed \in BOOLEAN, ~billed, Ask(t, TRUE, billed)
  PROVE  Harmless(t.attempt)'
<1> DEFINE a == t.attempt
<1>0. /\ a \in Attempt /\ Sent(a) /\ Metered(a)
      /\ t.handled => a \in handled
      /\ t.phase \in NeverSent => Harmless(a)
  BY ReconTyped DEF MeteredAll, Released
<1> HIDE DEF a
<1>1. CASE t.phase \in NeverSent
  BY <1>0, <1>1, HarmlessStays DEF a
<1>2. CASE t.phase \notin NeverSent
  <2>1. t.handled /\ CancelAnswer(a, TRUE, billed)
    BY <1>2 DEF Ask, a
  <2>2. Adapter[a] = "queue" /\ job[a] = "working" /\ QueuedOnce(a) /\ job'[a] = "stopped"
    BY <1>0, <2>1 DEF CancelAnswer, Tame, Direct, QueuedOnce, Costless, a, Typed, ProviderType
  <2>3. bill[a] = 0 /\ ~Early(a)
    BY <1>0, <2>1, <2>2 DEF Metered, Tame, a, Typed, ProviderType
  <2>4. Sent(a)' /\ Metered(a)'
    BY <1>0, MeteredNext DEF MeteredAll
  <2>5. Tame(a) /\ a \in handled'
    BY <1>0, <2>1, HandledStays DEF a
  <2>6. ~Early(a)' /\ bill'[a] = 0
    BY <1>0, <2>2, <2>4, <2>5, TypedNext DEF Metered, Tame, Costless, Direct, QueuedOnce, Typed, ProviderType
  <2> QED
    BY <2>2, <2>6 DEF Harmless, QueuedOnce, a
<1> QED
  BY <1>1, <1>2

LEMMA ReleasedNext ==
  ASSUME Typed, SetAside, Begun, Booked, Careful, Behind, MeteredAll, Released, [Next]_vars
  PROVE  Released'
<1>0. \A a \in Attempt : Tame(a) /\ Harmless(a) => Harmless(a)'
  BY HarmlessStays DEF MeteredAll
<1>1. ASSUME NEW a \in Attempt, Tame(a), Freed(a)' PROVE Harmless(a)'
  <2>1. CASE Freed(a)
    BY <1>0, <1>1, <2>1 DEF Released
  <2>2. CASE ~Freed(a)
    <3>1. CASE SettleAttempt(a) /\ verdict[a] \in Release
      BY <1>1, <3>1, OwnRelease DEF MeteredAll
    <3>2. (\E t \in sweep : t[1] = a /\ t[2] \in NeverSent) => Harmless(a)
      BY <1>1 DEF Released
    <3>3. (\E r \in Reconciler : \E t \in recon[r].now : t.attempt = a /\ Releasing(t))
            => Harmless(a)
      BY <1>1 DEF Released
    <3> QED
      BY <1>0, <1>1, <2>2, <3>1, <3>2, <3>3, FreedStep
  <2> QED
    BY <2>1, <2>2
<1>2. ASSUME NEW t \in sweep', Tame(t[1]), t[2] \in NeverSent PROVE Harmless(t[1])'
  <2>1. CASE t \in sweep
    BY <1>0, <1>2, <2>1, SweptTyped DEF Released
  <2>2. ASSUME NEW a \in Attempt, t = <<a, phase[a]>>, a \in expired PROVE Harmless(t[1])'
    <3>1. t[1] = a /\ phase[a] \in NeverSent /\ pc[a] = "ended"
      BY <1>2, <2>2 DEF Behind
    <3> QED
      BY <1>0, <1>2, <3>1, UnsentHarmless DEF MeteredAll
  <2> QED
    BY <2>1, <2>2, SweepStep
<1>3. ASSUME NEW r \in Reconciler
      PROVE  /\ \A t \in recon'[r].todo :
                  /\ t.handled => t.attempt \in handled'
                  /\ Tame(t.attempt) /\ t.phase \in NeverSent => Harmless(t.attempt)'
             /\ \A t \in recon'[r].now :
                  Tame(t.attempt) /\ Releasing(t) => Harmless(t.attempt)'
  <2>0. /\ recon[r] \in Work
        /\ \A t \in recon[r].todo : t \in Candidate /\ t.attempt \in Attempt
        /\ \A t \in recon[r].now : t \in Answer /\ t.attempt \in Attempt
    BY ReconTyped
  <2>1. /\ \A t \in recon[r].todo :
             /\ t.handled => t.attempt \in handled'
             /\ Tame(t.attempt) /\ t.phase \in NeverSent => Harmless(t.attempt)'
        /\ \A t \in recon[r].now :
             Tame(t.attempt) /\ Releasing(t) => Harmless(t.attempt)'
    BY <1>0, <2>0, HandledStays DEF Released
  <2> DEFINE Good ==
        /\ \A t \in recon'[r].todo :
             /\ t.handled => t.attempt \in handled'
             /\ Tame(t.attempt) /\ t.phase \in NeverSent => Harmless(t.attempt)'
        /\ \A t \in recon'[r].now :
             Tame(t.attempt) /\ Releasing(t) => Harmless(t.attempt)'
  <2>2. ASSUME recon'[r] = recon[r] PROVE Good
    BY <2>1, <2>2
  <2>3. ASSUME recon'[r] = NoWork PROVE Good
    BY <2>3 DEF NoWork
  <2>4. ASSUME UNCHANGED <<runRow, row, money>>,
               recon'[r] = [doing |-> TRUE, epoch |-> epoch, now |-> {}, todo |-> Found]
        PROVE  Good
    <3>1. ASSUME NEW t \in Found
          PROVE  /\ t.handled => t.attempt \in handled'
                 /\ Tame(t.attempt) /\ t.phase \in NeverSent => Harmless(t.attempt)'
      <4>1. /\ t.attempt \in Attempt /\ Retired(t.attempt) /\ t.phase = phase[t.attempt]
            /\ t.handled => t.attempt \in handled
        BY FoundFields
      <4> QED
        BY <1>0, <4>1, HandledStays, UnsentHarmless DEF MeteredAll
    <3> QED
      BY <2>4, <3>1
  <2>5. ASSUME NEW t \in recon[r].todo, NEW confirmed \in BOOLEAN, NEW billed \in BOOLEAN,
               UNCHANGED <<row, money>>, Ask(t, confirmed, billed),
               recon'[r] = Asked(recon[r], t, confirmed, billed)
        PROVE  Good
    <3>1. t \in Candidate /\ recon[r] \in Work
      BY <2>0
    <3> DEFINE told == [attempt |-> t.attempt, stopped |-> t.stopped, booked |-> FALSE,
                        confirmed |-> confirmed, billed |-> billed]
    <3>2. recon'[r].todo = recon[r].todo \ {t} /\ recon'[r].now = {told}
      BY <2>5, <3>1, Asking
    <3>3. /\ told.attempt = t.attempt /\ told.stopped = t.stopped
          /\ told.confirmed = confirmed /\ told.billed = billed
      OBVIOUS
    <3> HIDE DEF told
    <3>4. ASSUME Tame(told.attempt), Releasing(told) PROVE Harmless(told.attempt)'
      <4>1. Tame(t.attempt) /\ ~t.stopped /\ confirmed = TRUE /\ ~billed
        BY <3>3, <3>4 DEF Releasing
      <4>2. Ask(t, TRUE, billed)
        BY <2>5, <4>1
      <4>3. Harmless(t.attempt)'
        BY <2>5, <4>1, <4>2, AskedHarmless
      <4> QED
        BY <3>3, <4>3
    <3> QED
      BY <2>1, <3>2, <3>4
  <2>6. ASSUME NEW t \in recon[r].now,
               recon'[r] = [recon[r] EXCEPT !.now = {[t EXCEPT !.booked = TRUE]}]
        PROVE  Good
    <3>1. [t EXCEPT !.booked = TRUE].booked = TRUE
      BY <2>0 DEF Answer
    <3>2. recon'[r].todo = recon[r].todo /\ \A u \in recon'[r].now : ~Releasing(u)
      BY <2>0, <2>6, <3>1 DEF Work, Releasing
    <3> QED
      BY <2>1, <3>2
  <2>7. ASSUME recon'[r] = [recon[r] EXCEPT !.now = {}]
        PROVE  Good
    <3>1. recon'[r].todo = recon[r].todo /\ recon'[r].now = {}
      BY <2>0, <2>7 DEF Work
    <3> QED
      BY <2>1, <3>1
  <2>8. Good
    <3> HIDE DEF Good
    <3> QED
      BY <2>2, <2>3, <2>4, <2>5, <2>6, <2>7, ReconStep, ReconEffect
  <2> QED
    BY <2>8
<1> QED
  BY <1>1, <1>2, <1>3 DEF Released

(* Money set aside comes back to the budget only for an attempt nobody       *)
(* charges for, through replays, sweeps, cancellations and late answers, as  *)
(* long as no reservation expires under an attempt at work, and unless a     *)
(* restart submits a queued job again or a cancellation drops a request      *)
(* whose call is made (spec 11.3: only a confirmed non-billing failure is    *)
(* released).                                                                *)
THEOREM ReleasesAreUnbilled ==
  ASSUME ~Late, \A a \in Attempt : Costless(a) \/ Direct(a) \/ QueuedOnce(a)
  PROVE  Spec => []ReleasedIsUnbilled
<1>1. Typed /\ Behind /\ [Next]_vars => Behind'
  BY BehindNext
<1>2. Typed /\ SetAside /\ Begun /\ Booked /\ Careful /\ Behind /\ MeteredAll /\ Released
        /\ [Next]_vars => Released'
  BY ReleasedNext
<1>3. ASSUME SetAside, MeteredAll, Released PROVE ReleasedIsUnbilled
  <2> SUFFICES ASSUME NEW a \in Attempt, Settled(a), Rows(a, "actual") = {} PROVE bill[a] = 0
    BY DEF ReleasedIsUnbilled
  <2>1. CASE Costless(a)
    BY <1>3, <2>1 DEF MeteredAll, Metered
  <2>2. CASE ~Costless(a)
    <3>1. Freed(a)
      BY <1>3 DEF Freed, Account, SetAside
    <3> QED
      BY <1>3, <2>2, <3>1 DEF Released, Harmless, Tame
  <2> QED
    BY <2>1, <2>2
<1>4. SetAside /\ MeteredAll /\ Released => ReleasedIsUnbilled
  BY <1>3
<1> QED
  BY <1>1, <1>2, <1>4, TypedInit, TypedNext, SetAsideInit, SetAsideNext, BegunInit,
     BegunNext, BookedNext, CarefulNext, BehindInit, MeteredInit, MeteredNext, ReleasedInit, PTL
  DEF Spec

-----------------------------------------------------------------------------
(* What is charged although it is not in the books: one call for every time  *)
(* a step ran again, where a call costs no more than was set aside for it    *)
(* and is answered by the fetch that makes it.                               *)

LEMMA CoveredNow ==
  ASSUME WellKept, NEW a \in Attempt
  PROVE  /\ Covered(a) \in Nat
         /\ Total(ActualIn({a})) = Total(Rows(a, "actual"))
         /\ ~Settled(a) => Rows(a, "actual") = {} /\ Total(Rows(a, "actual")) = 0
         /\ Open(a) => Covered(a) = Ceiling[a]
         /\ ~HasReservation(a) /\ ~Settled(a) => Covered(a) = 0
<1>1. ActualIn({a}) = Rows(a, "actual")
  BY DEF ActualIn, Rows
<1>2. Total(ActualIn({a})) \in Nat /\ Ceiling[a] \in Nat
  BY SumsType, AttemptsAssumption
<1>3. ~Settled(a) => Rows(a, "actual") = {} /\ Total(Rows(a, "actual")) = 0
  BY TotalEmpty DEF Settled
<1> QED
  BY <1>1, <1>2, <1>3 DEF Covered, Open

(* The cover of an attempt is as it was. *)
Same(a) == Covered(a)' = Covered(a) /\ (Open(a)' => Open(a))

LEMMA CoveredStays ==
  ASSUME UNCHANGED ledger, NEW a \in Attempt
  PROVE  Same(a)
BY DEF Same, Covered, Open, HasReservation, Settled, Rows

(* Money of one attempt is not touched with another's. *)
LEMMA CoveredOther ==
  ASSUME NEW a \in Attempt, NEW b \in Attempt, a # b, NEW c,
         Reserve(b) \/ SettlesNow(b, c)
  PROVE  Same(a)
<1> DEFINE held     == Row(b, "reservation", Ceiling[b], TRUE)
           actual   == Row(b, "actual", c, TRUE)
           presumed == Row(b, "actual", Ceiling[b], FALSE)
           release  == Row(b, "release", Ceiling[b], TRUE)
<1>1. /\ held.attempt = b /\ actual.attempt = b /\ presumed.attempt = b /\ release.attempt = b
  BY DEF Row
<1>2. \/ UNCHANGED ledger \/ ledger' = ledger \cup {held}
      \/ ledger' = ledger \cup {actual, release} \/ ledger' = ledger \cup {presumed}
      \/ ledger' = ledger \cup {release}
  BY DEF Reserve, SettlesNow, SettleSuccess, SettleProvisional, SettleRelease, Settle
<1> HIDE DEF held, actual, presumed, release
<1>3. \A kind : Rows(a, kind)' = Rows(a, kind)
  BY <1>1, <1>2 DEF Rows
<1> QED
  BY <1>3 DEF Same, Covered, Open, HasReservation, Settled

LEMMA ReserveCovers ==
  ASSUME WellKept, SetAside, NEW a \in Attempt, ~HasReservation(a), Reserve(a)
  PROVE  Covered(a) = 0 /\ Covered(a)' = Ceiling[a]
<1>1. ~Settled(a) /\ Ceiling[a] \in Nat
  BY AttemptsAssumption DEF SetAside
<1>2. HasReservation(a)' /\ ~Settled(a)'
  BY <1>1, ReserveEffect
<1>3. Total(Rows(a, "actual"))' = 0
  BY <1>2, TotalEmpty DEF Settled
<1>4. Covered(a) = 0
  BY <1>1, CoveredNow
<1>5. Open(a)'
  BY <1>2 DEF Open
<1>6. Covered(a)' = 0 + Ceiling[a]
  BY <1>3, <1>5 DEF Covered
<1> QED
  BY <1>1, <1>4, <1>6

LEMMA SettlementCovers ==
  ASSUME WellKept, NEW a \in Attempt, NEW b \in Attempt, HasReservation(b), NEW c \in Nat
  PROVE  /\ SettleSuccess(b, c)    => Same(a) \/ (a = b /\ Open(a) /\ Covered(a)' = c)
         /\ SettleProvisional(b)   => Same(a)
         /\ SettleRelease(b)       => Same(a) \/ Freed(a)'
<1>1. CASE a # b
  BY <1>1, CoveredOther DEF SettlesNow
<1>2. CASE Settled(b)
  <2>1. SettlesNow(b, c) => UNCHANGED ledger
    BY <1>2 DEF SettlesNow, SettleSuccess, SettleProvisional, SettleRelease, Settle
  <2> QED
    BY <2>1, CoveredStays DEF SettlesNow
<1>3. CASE a = b /\ ~Settled(a)
  <2>a. Open(a) /\ Ceiling[a] \in Nat
    BY <1>3, AttemptsAssumption DEF Open
  <2>b. ActualIn({a}) = Rows(a, "actual") /\ ActualIn({a})' = Rows(a, "actual")'
    BY DEF ActualIn, Rows
  <2>c. Covered(a) = Ceiling[a] /\ Rows(a, "actual") = {} /\ Total(ActualIn({a})) = 0
    BY <1>3, <2>a, CoveredNow
  <2>0. /\ Open(a) /\ Covered(a) = Ceiling[a] /\ Ceiling[a] \in Nat
        /\ ActualIn({a}) = Rows(a, "actual") /\ ActualIn({a})' = Rows(a, "actual")'
        /\ Rows(a, "actual") = {} /\ Total(ActualIn({a})) = 0
    BY <2>a, <2>b, <2>c
  <2>1. SettlesNow(a, c) => HasReservation(a)' /\ Settled(a)' /\ ~Open(a)'
    BY <1>3, SettleEffect DEF Open
  <2>2. ASSUME SettleSuccess(a, c) PROVE Covered(a)' = c
    <3>1. Total(ActualIn({a})') = Total(ActualIn({a})) + IF a \in {a} THEN c ELSE 0
      BY <1>3, <2>2, SuccessSums
    <3> QED
      BY <2>0, <2>1, <2>2, <3>1 DEF Covered, SettlesNow
  <2>3. ASSUME SettleProvisional(a) PROVE Same(a)
    <3>1. Total(ActualIn({a})') = Total(ActualIn({a})) + IF a \in {a} THEN Ceiling[a] ELSE 0
      BY <1>3, <2>3, ProvisionalSums
    <3> QED
      BY <2>0, <2>1, <2>3, <3>1 DEF Same, Covered, SettlesNow
  <2>4. ASSUME SettleRelease(a) PROVE Freed(a)'
    <3>1. ActualIn({a})' = ActualIn({a})
      BY <1>3, <2>4, ReleaseSums
    <3> QED
      BY <2>0, <2>1, <2>4, <3>1 DEF Freed, Account, SettlesNow
  <2> QED
    BY <1>3, <2>0, <2>2, <2>3, <2>4
<1> QED
  BY <1>1, <1>2, <1>3

LEMMA CoveredStep ==
  ASSUME Typed, SetAside, WellKept, [Next]_vars, NEW a \in Attempt
  PROVE  \/ Same(a) \/ Freed(a)'
         \/ ReserveBudget(a) /\ ~HasReservation(a) /\ Covered(a)' = Ceiling[a]
         \/ SettleAttempt(a) /\ Open(a) /\ verdict[a] \in Success /\ Covered(a)' = cost[a]
<1>1. CASE UNCHANGED ledger
  BY <1>1, CoveredStays
<1>2. ASSUME NEW b \in Attempt, ReserveBudget(b)
      PROVE  Same(a) \/ (ReserveBudget(a) /\ ~HasReservation(a) /\ Covered(a)' = Ceiling[a])
  <2>1. Reserve(b)
    BY <1>2 DEF ReserveBudget
  <2>2. CASE b # a
    BY <2>1, <2>2, CoveredOther
  <2>3. CASE b = a /\ HasReservation(a)
    BY <2>1, <2>3, CoveredStays DEF Reserve
  <2>4. CASE b = a /\ ~HasReservation(a)
    BY <1>2, <2>1, <2>4, ReserveCovers
  <2> QED
    BY <2>2, <2>3, <2>4
<1>3. ASSUME NEW b \in Attempt, SettleAttempt(b)
      PROVE  \/ Same(a) \/ Freed(a)'
             \/ SettleAttempt(a) /\ Open(a) /\ verdict[a] \in Success /\ Covered(a)' = cost[a]
  <2>1. HasReservation(b) /\ cost[b] \in Nat
    BY <1>3 DEF SettleAttempt, SetAside, Holding, Place, Typed, EngineType
  <2>2. \/ verdict[b] \in Success /\ SettleSuccess(b, cost[b])
        \/ SettleProvisional(b) \/ SettleRelease(b)
    BY <1>3 DEF SettleAttempt
  <2> QED
    BY <1>3, <2>1, <2>2, SettlementCovers
<1>4. ASSUME NEW t \in sweep, SweepSettle(t) PROVE Same(a) \/ Freed(a)'
  <2>1. t[1] \in Attempt /\ HasReservation(t[1])
    BY SweptTyped DEF SetAside
  <2>2. SettleProvisional(t[1]) \/ SettleRelease(t[1])
    BY <1>4 DEF SweepSettle
  <2>3. 0 \in Nat
    OBVIOUS
  <2> QED
    BY <2>1, <2>2, <2>3, SettlementCovers
<1>5. ASSUME NEW r \in Reconciler, NEW t \in recon[r].now, ReconcileBook(r, t)
      PROVE  Same(a) \/ Freed(a)'
  <2>1. t.attempt \in Attempt
    BY ReconTyped
  <2>2. \/ UNCHANGED money
        \/ HasReservation(t.attempt) /\ (SettleProvisional(t.attempt) \/ SettleRelease(t.attempt))
    BY <1>5 DEF ReconcileBook
  <2>3. 0 \in Nat
    OBVIOUS
  <2>4. UNCHANGED money => Same(a)
    BY CoveredStays DEF money
  <2> QED
    BY <2>1, <2>2, <2>3, <2>4, SettlementCovers
<1>6. Run \/ UNCHANGED vars => UNCHANGED ledger
  BY DEF Run, Pause, Halt, Resume, Cancel, Raise, RaiseBudget, RaiseStageCap, money, vars
<1>7. SweepSelect \/ SweepStops \/ (\E t \in sweeping : SweepMark(t)) => UNCHANGED ledger
  BY DEF SweepSelect, SweepStops, SweepMark, money
<1>8. ASSUME NEW r \in Reconciler,
             \/ ReconcileSelect(r) \/ ReconcileDone(r) \/ ReconcileStops(r)
             \/ \E t \in recon[r].todo : ReconcileAsk(r, t)
             \/ \E t \in recon[r].now : ReconcileMark(r, t)
      PROVE  UNCHANGED ledger
  BY <1>8 DEF ReconcileSelect, ReconcileDone, ReconcileStops, ReconcileAsk, ReconcileMark, money
<1> QED
  BY <1>1, <1>2, <1>3, <1>4, <1>5, <1>6, <1>7, <1>8, StepKinds, OwnLedger
  DEF Sweeping, Reconciling
(* What a step may add to the bill without the books: the calls of the steps *)
(* that ran again. *)
Redone(a) == tries[a] * Ceiling[a]
(* One more call is covered. *)
Room(a)   == bill[a] + Ceiling[a] <= Covered(a) + Redone(a)

Waits == {"mark", "admit"}
Calls == {"call", "accepted", "store", "stored", "stop", "fetch", "fetching"}
Paid(a) ==
  /\ bill[a] <= Covered(a) + Redone(a)
  /\ pc[a] \in Waits \/ (pc[a] = "reserve" /\ HasReservation(a)) => Room(a) \/ Shut(a)
  /\ pc[a] \in Calls => Room(a)
  /\ pc[a] = "settle" /\ verdict[a] \in Success /\ Open(a) => bill[a] <= cost[a] + Redone(a)
PaidAll == \A a \in Attempt : ~Costless(a) /\ Direct(a) => Paid(a)

LEMMA RedoneStep ==
  ASSUME Typed, Typed', NEW a \in Attempt
  PROVE  /\ Redone(a) \in Nat
         /\ tries'[a] = tries[a] => Redone(a)' = Redone(a)
         /\ tries'[a] = tries[a] + 1 => Redone(a)' = Redone(a) + Ceiling[a]
<1>1. \A n, c \in Nat : n * c \in Nat /\ (n + 1) * c = n * c + c
  OBVIOUS
<1>2. tries[a] \in Nat /\ Ceiling[a] \in Nat
  BY AttemptsAssumption, LimitsAssumption DEF Typed, EngineType
<1> QED
  BY <1>1, <1>2 DEF Redone

(* Where a direct call is waited for, made and answered. *)
CallStep(a) ==
  /\ pc'[a] \in Waits => pc[a] \in Waits \/ ReserveBudget(a)
  /\ pc'[a] = "reserve" => pc[a] = "reserve" \/ BeginAttempt(a) \/ StepAgain(a)
  /\ pc'[a] \in Calls
       => pc[a] \in Calls \/ (pc[a] = "admit" /\ Current(a, {"RUNNING", "PAUSING"})) \/ StepAgain(a)
  /\ pc'[a] = "settle" /\ verdict'[a] \in Success
       => FetchAnswers(a) \/ (pc[a] = "settle" /\ verdict[a] \in Success)
  /\ ~FetchAnswers(a) => cost'[a] = cost[a]
  /\ tries'[a] = tries[a] \/ (StepAgain(a) /\ tries'[a] = tries[a] + 1)
  /\ FetchAnswers(a) \/ FetchThrows(a) => pc[a] = "fetching" /\ pc'[a] \in {"settle", "error"}
  /\ ReserveBudget(a) => pc[a] = "reserve" /\ pc'[a] = "mark"
  /\ SettleAttempt(a) => pc[a] = "settle" /\ pc'[a] = "record"

LEMMA OwnCalls ==
  ASSUME Typed, NEW a \in Attempt, Own(a), Sent(a)
  PROVE  CallStep(a)
<1>1. CASE \/ BeginAttempt(a) \/ (RefuseBudget(a) /\ ~StepAgain(a)) \/ ReserveBudget(a)
           \/ MarkReserved(a) \/ Kill(a)
  BY <1>1 DEF BeginAttempt, RefuseBudget, ReserveBudget, MarkReserved, Kill, StepEnds, Go, CallStep,
     Waits, Calls, FetchAnswers, FetchThrows, SettleAttempt, Typed, EngineType
<1>2. CASE StepAgain(a)
  <2>1. pc'[a] \notin Waits
    BY <1>2, Reruns DEF InSubmit, Waits
  <2>2. ~FetchAnswers(a) /\ ~FetchThrows(a) /\ ~ReserveBudget(a) /\ ~SettleAttempt(a)
    BY <1>2, LimitsAssumption DEF StepAgain, FetchAnswers, FetchThrows, ReserveBudget,
       SettleAttempt, Typed, EngineType
  <2> QED
    BY <1>2, <2>1, <2>2, Reruns DEF CallStep
<1>a. Replay(a) => StepAgain(a)
  BY DEF Replay
<1>3. CASE \/ Admit(a) \/ SubmitJob(a) \/ SubmitRejected(a) \/ SubmitThrows(a)
           \/ MarkSubmitted(a) \/ (StoreHandle(a) /\ ~StepAgain(a))
  BY <1>3 DEF Admit, SubmitJob, SubmitRejected, SubmitThrows, MarkSubmitted, StoreHandle, StepEnds,
     Success, Go, CallStep, Waits, Calls, FetchAnswers, FetchThrows, ReserveBudget, SettleAttempt, Typed,
     EngineType
<1>4. CASE \/ PollDone(a) \/ PollPending(a) \/ PollThrows(a) \/ StopJob(a)
  BY <1>4 DEF PollDone, PollPending, PollThrows, StopJob, Success, Provisional, Sent,
     Go, CallStep, Waits, Calls, FetchAnswers, FetchThrows, ReserveBudget, SettleAttempt, Typed,
     EngineType, engine
<1>5. CASE PollFailed(a) \/ PollExhausted(a)
  <2>1. /\ pc[a] = "stored" /\ pc'[a] \in {"settle", "stop"}
        /\ verdict'[a] \in FailedPoll \cup Provisional
        /\ cost'[a] = cost[a] /\ tries'[a] = tries[a]
    BY <1>5 DEF PollFailed, PollExhausted, Go, Typed, EngineType
  <2> QED
    BY <2>1 DEF Success, Provisional, FailedPoll, CallStep, Waits, Calls, FetchAnswers,
       FetchThrows, ReserveBudget, SettleAttempt
<1>6. CASE \/ StartFetch(a) \/ FetchAnswers(a) \/ FetchThrows(a) \/ SettleAttempt(a)
           \/ RecordOutput(a)
  BY <1>6 DEF StartFetch, FetchAnswers, FetchThrows, SettleAttempt, RecordOutput, ReserveBudget,
     Go, CallStep, Waits, Calls, Typed, EngineType
<1>7. CASE ~StepAgain(a) /\ (\/ RecordEnd(a) \/ RecordRefusal(a) \/ RecordFailedPoll(a)
                            \/ RecordError(a) \/ JudgeCheckFailed(a) \/ DeferQc(a)
                            \/ JudgeQcFailed(a) \/ FinishAttempt(a))
  BY <1>7 DEF RecordEnd, RecordRefusal, RecordFailedPoll, RecordError, JudgeCheckFailed, DeferQc,
     JudgeQcFailed, FinishAttempt, StepEnds, FetchAnswers, FetchThrows, ReserveBudget,
     SettleAttempt, Go, CallStep, Waits, Calls, Typed, EngineType
<1>8. CASE StopIfRunNotRunning(a) \/ PayForVerdict(a) \/ Finalize(a)
  <2>1. /\ pc[a] \in {"record", "check", "judge", "judged"}
        /\ pc'[a] \in {"failing", "ended", "judged", "committed"}
        /\ cost'[a] = cost[a] /\ tries'[a] = tries[a]
    BY <1>8 DEF StopIfRunNotRunning, PayForVerdict, Finalize, Judged, Go, Typed, EngineType
  <2>2. ~FetchAnswers(a) /\ ~FetchThrows(a) /\ ~ReserveBudget(a) /\ ~SettleAttempt(a)
    BY <2>1 DEF FetchAnswers, FetchThrows, ReserveBudget, SettleAttempt, Go, Typed, EngineType
  <2> QED
    BY <2>1, <2>2 DEF CallStep, Waits, Calls
<1>9. CASE JobRuns(a) \/ Expire(a)
  BY <1>9 DEF JobRuns, Expire, FetchAnswers, FetchThrows, ReserveBudget, SettleAttempt,
     Go, CallStep, Typed, EngineType, engine
<1> QED
  BY <1>a, <1>1, <1>2, <1>3, <1>4, <1>5, <1>6, <1>7, <1>8, <1>9
  DEF Own, Loop, Submitting, Polling, Finishing

(* Whoever else moves leaves what is paid for an attempt as it was. *)
LEMMA OthersPaid ==
  ASSUME Typed, Typed', SetAside, Begun, [Next]_vars, NEW a \in Attempt, ~Own(a), Same(a), Paid(a)
  PROVE  Paid(a)'
<1>1. /\ pc'[a] = pc[a] /\ verdict'[a] = verdict[a] /\ bill'[a] = bill[a]
      /\ cost'[a] = cost[a] /\ tries'[a] = tries[a]
  BY OwnOrKept DEF Kept, Alone
<1>2. Redone(a)' = Redone(a) /\ Covered(a)' = Covered(a) /\ (Open(a)' => Open(a))
  BY <1>1, RedoneStep DEF Same
<1>3. HasReservation(a)' => HasReservation(a)
  BY ReservedBySelf DEF Own, Loop, Submitting
<1>4. pc[a] \in Waits \/ pc[a] = "reserve" => (Shut(a) => Shut(a)')
  BY ShutStays DEF Waits
<1>5. Room(a)' <=> Room(a)
  BY <1>1, <1>2 DEF Room
<1> QED
  BY <1>1, <1>2, <1>3, <1>4, <1>5 DEF Paid

LEMMA OwnPaid ==
  ASSUME Typed, Typed', SetAside, Begun, WellKept, [Next]_vars,
         NEW a \in Attempt, Own(a), ~Costless(a), Direct(a), CostsFit, Sent(a), Metered(a), Paid(a),
         \/ Same(a)
         \/ ReserveBudget(a) /\ ~HasReservation(a) /\ Covered(a)' = Ceiling[a]
         \/ SettleAttempt(a) /\ Open(a) /\ verdict[a] \in Success /\ Covered(a)' = cost[a]
  PROVE  Paid(a)'
<1>0. CallStep(a)
  BY OwnCalls
<1>n. /\ bill[a] \in Nat /\ bill'[a] \in Nat /\ Ceiling[a] \in Nat /\ cost[a] \in Nat
      /\ Redone(a) \in Nat /\ Covered(a) \in Nat
  BY RedoneStep, CoveredNow, AttemptsAssumption DEF Typed, ProviderType, EngineType
<1>b. \/ bill'[a] = bill[a]
      \/ /\ FetchAnswers(a) \/ FetchThrows(a)
         /\ \E c \in 0..Ceiling[a] : bill'[a] = bill[a] + c
  <2>1. ~JobRuns(a)
    BY DEF Metered, Tame, JobRuns
  <2>2. \A c \in Costs[a] \cup {0} : c \in 0..Ceiling[a]
    BY <1>n DEF CostsFit
  <2> QED
    BY <2>1, <2>2, BillStep
<1>r. \/ tries'[a] = tries[a] /\ Redone(a)' = Redone(a)
      \/ StepAgain(a) /\ Redone(a)' = Redone(a) + Ceiling[a]
  BY <1>0, RedoneStep DEF CallStep
<1>1. CASE FetchAnswers(a)
  <2>1. Room(a) /\ pc'[a] = "settle" /\ tries'[a] = tries[a]
    BY <1>0, <1>1 DEF Paid, Calls, FetchAnswers, Go, Typed, EngineType, CallStep
  <2>2. PICK c \in 0..Ceiling[a] : cost'[a] = c /\ bill'[a] = bill[a] + c
    BY <1>1, <1>n DEF FetchAnswers, Direct, Charge, CostsFit, Typed, EngineType, ProviderType
  <2>3. Same(a) /\ Redone(a)' = Redone(a)
    BY <1>1, <2>1, CoveredStays, RedoneStep DEF FetchAnswers, money
  <2>4. Open(a) => Covered(a) = Ceiling[a]
    BY CoveredNow
  <2>5. bill'[a] <= Covered(a)' + Redone(a)'
    BY <1>n, <2>1, <2>2, <2>3 DEF Same, Room
  <2>6. Open(a)' => bill'[a] <= cost'[a] + Redone(a)'
    BY <1>n, <2>1, <2>2, <2>3, <2>4 DEF Same, Room
  <2> QED
    BY <2>1, <2>5, <2>6 DEF Paid, Waits, Calls
<1>2. CASE FetchThrows(a)
  <2>1. Room(a) /\ pc'[a] = "error" /\ tries'[a] = tries[a]
    BY <1>0, <1>2 DEF Paid, Calls, FetchThrows, Go, Typed, EngineType, CallStep
  <2>2. Same(a) /\ Redone(a)' = Redone(a)
    BY <1>2, <2>1, CoveredStays, RedoneStep DEF FetchThrows, money
  <2>3. bill'[a] <= Covered(a)' + Redone(a)'
    BY <1>b, <1>n, <2>1, <2>2 DEF Same, Room
  <2> QED
    BY <2>1, <2>3 DEF Paid, Waits, Calls
<1>3. CASE StepAgain(a)
  <2>1. UNCHANGED ledger /\ bill'[a] = bill[a] /\ tries'[a] = tries[a] + 1 /\ pc'[a] # "settle"
    BY <1>3, Reruns
  <2>2. Same(a) /\ Redone(a)' = Redone(a) + Ceiling[a]
    BY <2>1, CoveredStays, RedoneStep
  <2>3. Room(a)' /\ bill'[a] <= Covered(a)' + Redone(a)'
    BY <1>n, <2>1, <2>2 DEF Same, Room, Paid
  <2> QED
    BY <2>1, <2>3 DEF Paid
<1>4. CASE SettleAttempt(a) /\ ~Same(a)
  <2>1. pc'[a] = "record" /\ bill'[a] = bill[a] /\ tries'[a] = tries[a]
    BY <1>0, <1>4 DEF CallStep, SettleAttempt, provider, Go, Typed, EngineType
  <2>2. bill[a] <= Covered(a)' + Redone(a)
    BY <1>0, <1>4 DEF Paid, CallStep, ReserveBudget, SettleAttempt
  <2>3. Redone(a)' = Redone(a)
    BY <2>1, RedoneStep
  <2> QED
    BY <2>1, <2>2, <2>3 DEF Paid, Waits, Calls
<1>5. CASE ReserveBudget(a) /\ ~Same(a)
  <2>1. pc[a] = "reserve" /\ pc'[a] = "mark" /\ bill'[a] = bill[a] /\ tries'[a] = tries[a]
    BY <1>0, <1>5 DEF CallStep, ReserveBudget, provider, Go, Typed, EngineType
  <2>2. Covered(a)' = Ceiling[a]
    BY <1>5, <2>1 DEF SettleAttempt
  <2>3. bill[a] = 0
    BY <2>1 DEF Metered, Tame, Early
  <2>4. Redone(a)' = Redone(a)
    BY <2>1, RedoneStep
  <2>5. Room(a)' /\ bill'[a] <= Covered(a)' + Redone(a)'
    BY <1>n, <2>1, <2>2, <2>3, <2>4 DEF Room
  <2> QED
    BY <2>1, <2>5 DEF Paid, Calls
<1>6. CASE Same(a) /\ ~FetchAnswers(a) /\ ~FetchThrows(a) /\ ~StepAgain(a)
  <2>1. /\ bill'[a] = bill[a] /\ Redone(a)' = Redone(a) /\ Covered(a)' = Covered(a)
        /\ Open(a)' => Open(a)
        /\ cost'[a] = cost[a]
    BY <1>0, <1>6, <1>b, <1>r DEF Same, CallStep
  <2>2. Room(a)' <=> Room(a)
    BY <2>1 DEF Room
  <2>3. pc[a] # "idle" => (Shut(a) => Shut(a)')
    BY ShutStays
  <2>4. ASSUME pc'[a] \in Waits \/ (pc'[a] = "reserve" /\ HasReservation(a)')
        PROVE  Room(a)' \/ Shut(a)'
    <3>1. HasReservation(a)' /\ ~HasReservation(a) => ReserveBudget(a)
      BY ReservedBySelf
    <3>2. CASE pc[a] \in Waits
      BY <2>2, <2>3, <3>2 DEF Paid, Waits
    <3>3. CASE ReserveBudget(a) /\ ~HasReservation(a)
      <4>1. bill[a] = 0
        BY <1>0, <3>3 DEF Metered, Tame, Early, CallStep
      <4>2. Covered(a)' = Ceiling[a]
        BY <3>3, ReserveCovers DEF ReserveBudget
      <4> QED
        BY <1>n, <2>1, <4>1, <4>2 DEF Room
    <3>4. CASE pc[a] = "reserve" /\ HasReservation(a)
      BY <2>2, <2>3, <3>4 DEF Paid
    <3>5. CASE BeginAttempt(a)
      <4>1. pc'[a] = "reserve" /\ HasReservation(a)' /\ ~HasReservation(a)
        BY <2>4, <3>5 DEF BeginAttempt, Begun, Waits, Go, Typed, EngineType
      <4> QED
        BY <1>0, <3>1, <4>1 DEF CallStep
    <3> QED
      BY <1>0, <1>6, <2>4, <3>1, <3>2, <3>3, <3>4, <3>5 DEF CallStep
  <2>5. pc'[a] \in Calls => Room(a)'
    <3>1. Current(a, {"RUNNING", "PAUSING"}) => ~Shut(a)
      BY LimitsAssumption DEF Current, Shut, Begun, Typed, RowType, RunRowType
    <3> QED
      BY <1>0, <1>6, <2>2, <3>1 DEF CallStep, Paid, Waits
  <2>6. pc'[a] = "settle" /\ verdict'[a] \in Success /\ Open(a)' => bill'[a] <= cost'[a] + Redone(a)'
    BY <1>0, <1>6, <2>1 DEF CallStep, Paid
  <2>7. bill'[a] <= Covered(a)' + Redone(a)'
    BY <2>1 DEF Paid
  <2> QED
    BY <2>4, <2>5, <2>6, <2>7 DEF Paid
<1> QED
  BY <1>1, <1>2, <1>3, <1>4, <1>5, <1>6

LEMMA PaidInit == Init => PaidAll
<1> SUFFICES ASSUME Init, NEW a \in Attempt PROVE Paid(a)
  BY DEF PaidAll
<1>1. pc[a] = "idle" /\ bill[a] = 0 /\ tries[a] = 0 /\ ledger = {}
  BY DEF Init, NoMoney
<1>2. ~Settled(a) /\ ~HasReservation(a) /\ Rows(a, "actual") = {}
  BY <1>1 DEF Settled, HasReservation, Rows
<1>3. Covered(a) = 0
  BY <1>2, TotalEmpty DEF Covered, Open
<1>4. Redone(a) = 0
  BY <1>1, AttemptsAssumption DEF Redone
<1> QED
  BY <1>1, <1>3, <1>4 DEF Paid, Waits, Calls

LEMMA PaidNext ==
  ASSUME Typed, SetAside, InBooks, Begun, Booked, Careful, Behind, MeteredAll, Released, PaidAll,
         CostsFit, [Next]_vars
  PROVE  PaidAll'
<1>0. Typed' /\ Released' /\ MeteredAll' /\ SetAside'
  BY TypedNext, ReleasedNext, MeteredNext, SetAsideNext
<1> SUFFICES ASSUME NEW a \in Attempt, ~Costless(a), Direct(a) PROVE Paid(a)'
  BY DEF PaidAll, Costless, Direct
<1>1. Paid(a) /\ Sent(a) /\ Metered(a)
  BY DEF PaidAll, MeteredAll
<1>2. CASE Freed(a)'
  <2>1. Harmless(a)'
    BY <1>0, <1>2 DEF Released, Tame, Costless, Direct
  <2>2. Settled(a)' /\ ~Open(a)'
    BY <1>2 DEF Freed, Account, Open
  <2>3. bill'[a] = 0 /\ ~QueuedOnce(a)
    BY <2>1 DEF Harmless, Direct, QueuedOnce
  <2>4. pc'[a] \notin Calls /\ (pc'[a] \in Waits \/ pc'[a] = "reserve" => Shut(a)')
    BY <2>1, <2>3 DEF Harmless, Calls, Waits, Settling, QueuedOnce
  <2>5. Covered(a)' = 0
    BY <1>2, <2>2, TotalEmpty DEF Freed, Account, Covered
  <2>6. Redone(a)' \in Nat
    BY <1>0, AttemptsAssumption, LimitsAssumption DEF Redone, Typed, EngineType
  <2> QED
    BY <2>2, <2>3, <2>4, <2>5, <2>6 DEF Paid
<1>3. CASE ~Freed(a)'
  BY <1>0, <1>1, <1>3, CoveredStep, OthersPaid, OwnPaid DEF InBooks, Own, Loop, Submitting, Finishing
<1> QED
  BY <1>2, <1>3

(* What the providers charge for an attempt is in the books or still held    *)
(* for it, but for one call for every time a step of it ran again, through   *)
(* crashes, lost answers, sweeps and cancellations, where a call costs no    *)
(* more than was set aside for it and its answer is what makes it, and as    *)
(* long as no reservation expires under an attempt at work                   *)
(* (fetchAndFinalize, settleSuccess, settleProvisional).                     *)
THEOREM BilledBooked ==
  ASSUME ~Late, CostsFit, \A a \in Attempt : Costless(a) \/ Direct(a)
  PROVE  Spec => []BilledIsBooked
<1>1. Typed /\ Behind /\ [Next]_vars => Behind'
  BY BehindNext
<1>2. Typed /\ SetAside /\ Begun /\ Booked /\ Careful /\ Behind /\ MeteredAll /\ Released
        /\ [Next]_vars => Released'
  BY ReleasedNext
<1>3. Typed /\ SetAside /\ InBooks /\ Begun /\ Booked /\ Careful /\ Behind /\ MeteredAll
        /\ Released /\ PaidAll /\ [Next]_vars => PaidAll'
  BY PaidNext
<1>4. ASSUME Typed, InBooks, MeteredAll, PaidAll PROVE BilledIsBooked
  <2> SUFFICES ASSUME NEW a \in Attempt PROVE bill[a] <= Covered(a) + Redone(a)
    BY DEF BilledIsBooked, Redone
  <2>1. CASE Costless(a)
    <3>1. Covered(a) \in Nat
      BY <1>4, CoveredNow DEF InBooks
    <3>2. Redone(a) \in Nat
      BY <1>4, AttemptsAssumption, LimitsAssumption DEF Redone, Typed, EngineType
    <3> QED
      BY <1>4, <2>1, <3>1, <3>2 DEF MeteredAll, Metered
  <2>2. CASE ~Costless(a)
    BY <1>4, <2>2 DEF PaidAll, Paid
  <2> QED
    BY <2>1, <2>2
<1>5. Typed /\ InBooks /\ MeteredAll /\ PaidAll => BilledIsBooked
  BY <1>4
<1>6. Typed /\ SetAside /\ InBooks /\ [Next]_vars => InBooks'
  BY InBooksNext
<1> QED
  BY <1>1, <1>2, <1>3, <1>5, <1>6, TypedInit, TypedNext, SetAsideInit, SetAsideNext, InBooksInit,
     BegunInit, BegunNext, BookedNext, CarefulNext, BehindInit, MeteredInit, MeteredNext,
     ReleasedInit, PaidInit, PTL
  DEF Spec
=============================================================================
