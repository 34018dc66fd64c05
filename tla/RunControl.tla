----------------------------- MODULE RunControl -----------------------------
(***************************************************************************)
(* The control plane of one Reelcraft run: the `run` row, the transactional *)
(* outbox of wakeups (`run_wakeup`), the orchestrator functions that claim  *)
(* them, the stage invocations those start, the waits on a person, and the  *)
(* operations of the HTTP API.                                              *)
(*                                                                          *)
(* Every action is one database transaction (or one durable step) of the    *)
(* code.  A read and the write it leads to are separate actions wherever    *)
(* the code does not hold the run's row lock in between.                    *)
(***************************************************************************)
EXTENDS Integers, FiniteSets

CONSTANTS
  Stage,        \* the stages of the run's blueprint
  Deps,         \* [Stage -> SUBSET Stage], the stages each one depends on
  Approval,     \* stages whose output a person approves
  Input,        \* stages a person fills in (human.input, human.timeline_edit)
  Disabled,     \* stages whose "Enabled when" does not match the run's input
  Concurrency,  \* run.concurrent_branches
  Outcomes,     \* what an attempt may come to, see Attempted
  Ops,          \* the operations users are offered in this instance
  Restarts,     \* TRUE: the API may restart between a claim and its memo
  MaxRevision,  \* bound: operator mutations of the run
  MaxEpoch      \* bound: execution epochs of the run

Attempted == {"success", "failure", "user_action", "crash", "budget",
              "deferred", "qc_error"}
Operations == {"start", "pause", "resume", "cancel", "approve", "reject",
               "retry_qc", "submit_input", "retry", "plan",
               "patch_overrides", "settings"}

ASSUME StagesAssumption ==
  /\ Deps \in [Stage -> SUBSET Stage]
  /\ Approval \subseteq Stage
  /\ Input \subseteq Stage
  /\ Disabled \subseteq Stage
ASSUME BoundsAssumption ==
  /\ Concurrency \in Nat \ {0}
  /\ MaxRevision \in Nat
  /\ MaxEpoch \in Nat
  /\ Restarts \in BOOLEAN
ASSUME ChoicesAssumption ==
  /\ Outcomes \subseteq Attempted
  /\ Ops \subseteq Operations

VARIABLES
  state,     \* run.state
  revision,  \* run.revision, raised by every operator mutation
  epoch,     \* run.execution_epoch, the fence around one execution
  scope,     \* run.execution_scope: the stages this execution may start
  outbox,    \* run_wakeup rows that some function listens to
  sent,      \* those the dispatcher has handed to Inngest
  claimed,   \* those whose claimed_at is set
  rejected,  \* those whose function ran and ended "ignored"
  orch,      \* [Epochs -> Orchestrator], the run.orchestrate of each epoch
  inv,       \* [Epochs -> [Stage -> Invocation]], the stage.execute calls
  leftover,  \* <<epoch, stage>> of attempts ended without being settled
  exec,      \* [Stage -> ExecState], stage_execution.state
  wait,      \* [Stage -> WaitKind], the stage's open human_wait
  held       \* stages whose newest attempt quality control will judge again

runRow  == <<state, revision, epoch, scope>>
mail    == <<outbox, sent, claimed, rejected>>
engine  == <<orch, inv, leftover>>
work    == <<exec, wait, held>>
vars    == <<runRow, mail, engine, work>>

Epochs == 0..MaxEpoch

RunState == {"CREATED", "RUNNING", "PAUSING", "PAUSED_MANUAL",
             "PAUSED_APPROVAL", "PAUSED_INPUT", "PAUSED_BUDGET",
             "PAUSED_QUOTA", "FAILED", "CANCELLING", "CANCELLED", "IDLE",
             "COMPLETED"}
ExecState == {"pending", "running", "passed", "failed", "skipped", "stale",
              "cancelled", "awaiting_approval", "awaiting_input"}
WaitKind  == {"none", "approval", "qc_error", "input"}

-----------------------------------------------------------------------------
(* RunActionPolicy: which states accept which action.                      *)

PausedStates == {"PAUSED_BUDGET", "PAUSED_APPROVAL", "PAUSED_INPUT",
                 "PAUSED_QUOTA"}
ParkedOnWait == {"PAUSED_APPROVAL", "PAUSED_INPUT"}
AnswerStates == ParkedOnWait \cup {"FAILED", "CANCELLED", "IDLE",
                "PAUSED_MANUAL", "PAUSED_BUDGET", "PAUSED_QUOTA"}

AllowedStates == [
  start           |-> {"CREATED"},
  continue        |-> PausedStates \cup {"CREATED", "COMPLETED", "IDLE",
                      "CANCELLED", "FAILED", "PAUSED_MANUAL"},
  pause           |-> {"RUNNING"},
  retry           |-> PausedStates \cup {"FAILED", "COMPLETED", "IDLE",
                      "CANCELLED", "PAUSED_MANUAL"},
  patch_overrides |-> PausedStates \cup {"FAILED"},
  approve         |-> AnswerStates \cup {"RUNNING"},
  reject          |-> AnswerStates,
  retry_qc        |-> AnswerStates,
  submit_input    |-> AnswerStates,
  resume          |-> {"PAUSED_BUDGET", "PAUSED_MANUAL", "PAUSED_QUOTA",
                       "FAILED", "CANCELLED"},
  cancel          |-> PausedStates \cup {"CREATED", "RUNNING", "IDLE",
                      "PAUSING", "PAUSED_MANUAL", "FAILED"}]

-----------------------------------------------------------------------------
(* Wakeups.  A row's identity is its content: every insertion follows a     *)
(* raise of the revision or of the epoch it carries.                        *)

Wakeup == [event    : {"run/started", "run/resumed", "run/cancelled"},
           action   : DOMAIN AllowedStates,
           source   : RunState,
           revision : 0..MaxRevision,
           epoch    : Epochs,
           timed    : BOOLEAN]

Wake(event, action, rev, ep) ==
  [event |-> event, action |-> action, source |-> state,
   revision |-> rev, epoch |-> ep, timed |-> FALSE]

(* RunService.queuedWork: a start or resume that can still be claimed. A    *)
(* held-back row counts from the moment the sweep finds it due.             *)
Queued(w) == /\ w \in outbox \ claimed
             /\ w.event # "run/cancelled"
             /\ w.revision = revision
             /\ w.epoch = epoch
             /\ w.timed => w \in sent

ActiveAttempt(s) == inv[epoch][s] = "working" \/ <<epoch, s>> \in leftover

Busy == \/ state \in {"RUNNING", "PAUSING", "CANCELLING"}
        \/ \E s \in Stage : ActiveAttempt(s)
        \/ \E w \in outbox : Queued(w)

(* HumanWaitService.liveOpenWaits: an open row counts while its stage waits. *)
LiveWaits(x, q) ==
  {s \in Stage : q[s] # "none" /\ x[s] \in {"awaiting_approval", "awaiting_input"}}

(* HumanWaitService.pausedStateFor: approval before input. *)
PausedStateFor(x, q) ==
  IF \E s \in LiveWaits(x, q) : q[s] \in {"approval", "qc_error"}
    THEN "PAUSED_APPROVAL" ELSE "PAUSED_INPUT"

-----------------------------------------------------------------------------
(* planWave over an orchestrator's own copy of the stage rows.              *)

Invocation == {"none", "requested", "asking", "working", "passed",
               "approval_required", "input_required", "budget_blocked",
               "deferred", "failed", "crashed", "run_not_running"}
Results == Invocation \ {"none", "requested", "asking", "working"}

Orchestrator == [pc      : {"none", "load", "admit", "schedule", "collect",
                            "halt", "finish", "ended"},
                 scope   : SUBSET Stage,  \* settings.scope
                 done    : SUBSET Stage,  \* rows passed or skipped
                 waiting : SUBSET Stage,  \* rows with an open wait
                 spent   : SUBSET Stage,  \* rows running, failed, cancelled
                 active  : SUBSET Stage,  \* invocations not yet collected
                 todo    : SUBSET Stage,  \* ready rows left to start
                 stopped : {"none", "budget", "quota"},
                 failed  : BOOLEAN]

NoOrchestrator ==
  [pc |-> "none", scope |-> {}, done |-> {}, waiting |-> {}, spent |-> {},
   active |-> {}, todo |-> {}, stopped |-> "none", failed |-> FALSE]

(* A row is done when it is settled and so is everything it depends on. *)
IsDone(o) ==
  LET done[s \in Stage] == s \in o.done /\ \A d \in Deps[s] : done[d]
  IN  done

ReadyBeforeAnswer(o) ==   \* mutant
  {s \in Stage \ (o.waiting \cup o.spent) :
      ~IsDone(o)[s] /\ \A d \in Deps[s] : IsDone(o)[d] \/ d \in o.waiting}
ReadyBehindWait(o) ==   \* mutant
  {s \in Stage \ o.spent : ~IsDone(o)[s] /\ \A d \in Deps[s] : IsDone(o)[d]}
Ready(o) ==
  {s \in Stage \ (o.waiting \cup o.spent) :
      ~IsDone(o)[s] /\ \A d \in Deps[s] : IsDone(o)[d]}

SelectedDone(o) == \A s \in o.scope : IsDone(o)[s]   \* mutant
AllDone(o) == \A s \in Stage : IsDone(o)[s]

-----------------------------------------------------------------------------
Init ==
  /\ state = "CREATED"
  /\ revision = 0
  /\ epoch = 0
  /\ scope = Stage
  /\ outbox = {} /\ sent = {} /\ claimed = {} /\ rejected = {}
  /\ orch = [e \in Epochs |-> NoOrchestrator]
  /\ inv = [e \in Epochs |-> [s \in Stage |-> "none"]]
  /\ leftover = {}
  /\ exec = [s \in Stage |-> "pending"]
  /\ wait = [s \in Stage |-> "none"]
  /\ held = {}

(***************************************************************************)
(* Operators.  Mutation is RunMutationService.withLockedRun(MaybeWake):     *)
(* under the run's lock, check the policy, raise the revision, open a new   *)
(* epoch for work that will resume, and insert the wakeup.                  *)
(***************************************************************************)
NextEpochNotRaised(event) == epoch   \* mutant
NextEpoch(event) ==
  IF event = "run/resumed" /\ state # "RUNNING" THEN epoch + 1 ELSE epoch

Mutation(action, allowed, event, wakes) ==
  /\ state \in AllowedStates[action] \cap allowed
  /\ revision < MaxRevision
  /\ epoch < MaxEpoch
  /\ revision' = revision + 1
  /\ epoch' = NextEpoch(event)
  /\ outbox' = outbox \cup
       (IF wakes THEN {Wake(event, action, revision + 1, NextEpoch(event))} ELSE {})
  /\ UNCHANGED <<sent, claimed, rejected, engine>>

(* HumanActionService.settleAnswer: a parked run wakes once no wait is left *)
(* and otherwise follows the first kind still open; a run stopped for       *)
(* another reason only records the answer.                                  *)
Wakes(q) == state \in ParkedOnWait /\ LiveWaits(exec', q) = {}
Answer(action) ==
  /\ Mutation(action, RunState, "run/resumed", Wakes(wait'))
  /\ state' = IF state \in ParkedOnWait /\ ~Wakes(wait')
                THEN PausedStateFor(exec', wait') ELSE state
  /\ UNCHANGED scope

(* InvalidationService.apply for a stage-level seed: the seeds, and what    *)
(* has run on their output, go stale; waits left without their stage close. *)
Descendant[n \in Nat] ==
  IF n = 0 THEN {<<s, s>> : s \in Stage}
  ELSE {p \in Stage \X Stage :
          \E d \in Stage : <<p[1], d>> \in Descendant[n - 1] /\ (d = p[2] \/ d \in Deps[p[2]])}
DescendantsOf(s) == {d \in Stage : <<s, d>> \in Descendant[Cardinality(Stage)]}
Readers(s) ==
  {s} \cup {d \in DescendantsOf(s) :
              d \in held \/ exec[d] \notin {"pending", "skipped", "awaiting_input"}}
InvalidateKeepingWaits(affected) ==   \* mutant
  /\ exec' = [s \in Stage |-> IF s \in affected THEN "stale" ELSE exec[s]]
  /\ UNCHANGED <<wait, held>>
Invalidate(affected) ==
  /\ exec' = [s \in Stage |-> IF s \in affected THEN "stale" ELSE exec[s]]
  /\ wait' = [s \in Stage |-> IF s \in affected THEN "none" ELSE wait[s]]
  /\ UNCHANGED held

Start ==
  /\ "start" \in Ops
  /\ Mutation("start", {"CREATED"}, "run/started", TRUE)
  /\ UNCHANGED <<state, scope, work>>

(* The run/paused event has no listener, so its row is not kept. *)
Pause ==
  /\ "pause" \in Ops
  /\ Mutation("pause", RunState, "run/paused", FALSE)
  /\ state' = "PAUSING"
  /\ UNCHANGED <<scope, work>>

Resumable ==
  \E s \in Stage : exec[s] \notin {"passed", "skipped", "awaiting_approval",
                                   "awaiting_input"}

Resume ==
  /\ "resume" \in Ops
  /\ ~Busy
  /\ state # "CANCELLED"
  /\ state \in {"PAUSED_BUDGET", "FAILED"} => Resumable
  /\ Mutation("resume", RunState, "run/resumed", TRUE)
  /\ UNCHANGED <<state, scope, work>>

CancelNamingItsOwnEpoch ==   \* mutant
  /\ "cancel" \in Ops
  /\ state \in AllowedStates["cancel"]
  /\ revision < MaxRevision
  /\ epoch < MaxEpoch
  /\ state' = "CANCELLING"
  /\ revision' = revision + 1
  /\ epoch' = epoch + 1
  /\ outbox' = outbox \cup {Wake("run/cancelled", "cancel", revision + 1, epoch + 1)}
  /\ UNCHANGED <<scope, sent, claimed, rejected, engine, work>>

(* The wakeup of a cancellation names the epoch it interrupts. *)
Cancel ==
  /\ "cancel" \in Ops
  /\ state \in AllowedStates["cancel"]
  /\ revision < MaxRevision
  /\ epoch < MaxEpoch
  /\ state' = "CANCELLING"
  /\ revision' = revision + 1
  /\ epoch' = epoch + 1
  /\ outbox' = outbox \cup {Wake("run/cancelled", "cancel", revision + 1, epoch)}
  /\ UNCHANGED <<scope, sent, claimed, rejected, engine, work>>

(* RunCancellationService.reconcileCancellation, called inline by cancel and *)
(* again by run.reconcile-cancellation. Every write is fenced by CANCELLING  *)
(* in this epoch, a state no operation leaves.                               *)
ReconcileRowOnly ==   \* mutant
  /\ state = "CANCELLING"
  /\ state' = "CANCELLED"
  /\ UNCHANGED <<revision, epoch, scope, mail, engine, work>>
Reconcile ==
  /\ state = "CANCELLING"
  /\ exec' = [s \in Stage |-> IF exec[s] = "running" THEN "cancelled" ELSE exec[s]]
  /\ state' = "CANCELLED"
  /\ UNCHANGED <<revision, epoch, scope, mail, engine, wait, held>>

ReconcileOnEvent(w) ==
  /\ w \in sent
  /\ w.event = "run/cancelled"
  /\ epoch = w.epoch + 1
  /\ Reconcile

Approve(s) ==
  /\ "approve" \in Ops
  /\ exec[s] = "awaiting_approval"
  /\ wait[s] \in {"approval", "qc_error"}
  /\ exec' = [exec EXCEPT ![s] = "passed"]
  /\ wait' = [wait EXCEPT ![s] = "none"]
  /\ Answer("approve")
  /\ UNCHANGED held

SubmitInput(s) ==
  /\ "submit_input" \in Ops
  /\ wait[s] = "input"
  /\ exec' = [exec EXCEPT ![s] = "passed"]
  /\ wait' = [wait EXCEPT ![s] = "none"]
  /\ Answer("submit_input")
  /\ UNCHANGED held

(* A rejection restarts the rejected stage or the one onReject names. *)
Reject(s, target) ==
  /\ "reject" \in Ops
  /\ wait[s] \in {"approval", "qc_error"}
  /\ s \in DescendantsOf(target)
  /\ Invalidate({s} \cup Readers(target))
  /\ Answer("reject")

RetryQc(s) ==
  /\ "retry_qc" \in Ops
  /\ wait[s] = "qc_error"
  /\ exec' = [exec EXCEPT ![s] = IF state \in ParkedOnWait THEN "running" ELSE "pending"]
  /\ wait' = [wait EXCEPT ![s] = "none"]
  /\ held' = held \cup {s}
  /\ Answer("retry_qc")

(* A stage is eligible when its dependencies passed and nobody is asked. *)
Retry(s) ==
  /\ "retry" \in Ops
  /\ ~Busy
  /\ wait[s] = "none"
  /\ exec[s] \notin {"pending", "skipped"}
  /\ \A d \in Deps[s] : exec[d] \in {"passed", "skipped"}
  /\ Invalidate(Readers(s))
  /\ \E chosen \in {{s}, Readers(s)} : scope' = chosen
  /\ Mutation("retry", PausedStates \cup {"FAILED", "COMPLETED"}, "run/resumed", TRUE)
  /\ UNCHANGED state

(* RunStagePlanService.confirm, the plan that continues the whole run: what  *)
(* is unfinished and not waiting goes back to pending.                       *)
Unfinished == {s \in Stage : exec[s] \notin {"passed", "skipped"}}
Plan ==
  /\ "plan" \in Ops
  /\ ~Busy
  /\ state # "CREATED"
  /\ Unfinished # {}
  /\ exec' = [s \in Stage |-> IF s \in Unfinished /\ wait[s] = "none"
                                THEN "pending" ELSE exec[s]]
  /\ scope' = Unfinished
  /\ Mutation(IF state = "FAILED" THEN "retry" ELSE "continue", RunState, "run/resumed", TRUE)
  /\ UNCHANGED <<state, wait, held>>

(* RunActionService.patchOverrides checks the revision but not Busy; it only *)
(* resumes the run when the changed stage has an output to invalidate.       *)
PatchOverrides(s) ==
  /\ "patch_overrides" \in Ops
  /\ IF \E d \in Readers(s) : exec[d] = "passed"
       THEN /\ Invalidate(Readers(s))
            /\ Mutation("patch_overrides", RunState, "run/resumed", TRUE)
       ELSE /\ UNCHANGED work
            /\ Mutation("patch_overrides", RunState, "run/config-updated", FALSE)
  /\ UNCHANGED <<state, scope>>

UpdateExecutionSettings ==
  /\ "settings" \in Ops
  /\ ~Busy
  /\ Mutation("continue", RunState, "run/settings-updated", FALSE)
  /\ UNCHANGED <<state, scope, work>>

Operator ==
  \/ Start \/ Pause \/ Resume \/ Cancel \/ Plan \/ UpdateExecutionSettings
  \/ \E s \in Stage : \/ Approve(s) \/ SubmitInput(s) \/ RetryQc(s)
                      \/ Retry(s) \/ PatchOverrides(s)
                      \/ \E target \in Stage : Reject(s, target)

(***************************************************************************)
(* Delivery.  The request dispatches its row at once and a sweep every      *)
(* minute dispatches what is left; a row sent twice is one event, because   *)
(* Inngest drops the second by its id.  A row held back for a quota goes    *)
(* out when its time comes.                                                 *)
(***************************************************************************)
Dispatch(w) ==
  /\ w \in outbox \ sent
  /\ sent' = sent \cup {w}
  /\ UNCHANGED <<runRow, outbox, claimed, rejected, engine, work>>

ClaimableWhenPaused(w) ==   \* mutant
  /\ w \notin claimed
  /\ epoch = w.epoch
  /\ revision = w.revision
  /\ state = w.source
  /\ state \in AllowedStates[w.action] \cap PausedStates
Claimable(w) ==
  /\ w \notin claimed
  /\ epoch = w.epoch
  /\ revision = w.revision
  /\ state = w.source
  /\ state \in AllowedStates[w.action]

DeliveredAgain(w) == w \in sent \ rejected /\ w.event # "run/cancelled"   \* mutant
Delivered(w) == w \in sent \ (claimed \cup rejected) /\ w.event # "run/cancelled"

Claim(w) ==
  /\ Delivered(w)
  /\ Claimable(w)
  /\ state' = "RUNNING"
  /\ claimed' = claimed \cup {w}
  /\ orch' = [orch EXCEPT ![w.epoch] = [NoOrchestrator EXCEPT !.pc = "load"]]
  /\ UNCHANGED <<revision, epoch, scope, outbox, sent, rejected, inv, leftover, work>>

(* The claim commits, the process dies before Inngest stores the step's     *)
(* result, and the replayed step finds the row already claimed.             *)
ClaimThenRestart(w) ==
  /\ Restarts
  /\ Delivered(w)
  /\ Claimable(w)
  /\ state' = "RUNNING"
  /\ claimed' = claimed \cup {w}
  /\ UNCHANGED <<revision, epoch, scope, outbox, sent, rejected, engine, work>>

IgnoreWakeup(w) ==
  /\ Delivered(w)
  /\ ~Claimable(w)
  /\ rejected' = rejected \cup {w}
  /\ UNCHANGED <<runRow, outbox, sent, claimed, engine, work>>

(* cancelOn: Inngest ends every function that carries the cancelled epoch. *)
KillEpoch(w) ==
  /\ w \in sent
  /\ w.event = "run/cancelled"
  /\ \/ orch[w.epoch].pc \notin {"none", "ended"}
     \/ \E s \in Stage : inv[w.epoch][s] # "none"
  /\ orch' = [orch EXCEPT ![w.epoch] = [NoOrchestrator EXCEPT !.pc = "ended"]]
  /\ inv' = [inv EXCEPT ![w.epoch] = [s \in Stage |-> "none"]]
  /\ UNCHANGED <<runRow, mail, leftover, work>>

Delivery ==
  \E w \in outbox : \/ Dispatch(w) \/ Claim(w) \/ ClaimThenRestart(w)
                    \/ IgnoreWakeup(w) \/ KillEpoch(w) \/ ReconcileOnEvent(w)

(***************************************************************************)
(* run.orchestrate, one per claimed wakeup, so one per epoch.  It works on  *)
(* its own copy of the stage rows; each step below is one durable step.     *)
(* Inngest's concurrency limit keeps two steps of one run's orchestrators   *)
(* from running at once, not two orchestrators from being alive.            *)
(***************************************************************************)
Step(e, o) == orch' = [orch EXCEPT ![e] = o]

(* load-execution-scope and load-stage-executions: rows left failed,        *)
(* running or cancelled by an earlier execution count as pending again.     *)
Load(e) ==
  /\ orch[e].pc = "load"
  /\ Step(e, IF epoch # e THEN [orch[e] EXCEPT !.pc = "ended"]
             ELSE [orch[e] EXCEPT
                     !.pc = "admit",
                     !.scope = scope,
                     !.done = {s \in Stage : exec[s] \in {"passed", "skipped"}},
                     !.waiting = LiveWaits(exec, wait)])
  /\ UNCHANGED <<runRow, mail, inv, leftover, work>>

(* Where an orchestrator goes with nothing in flight, after it read RUNNING. *)
Idle(o) == IF o.stopped = "none" /\ Ready(o) \cap o.scope # {} THEN "admit" ELSE "finish"

(* admission-n: read the run's state, without its lock, and decide. *)
Admits(o) ==
  /\ state = "RUNNING"
  /\ o.stopped = "none"
  /\ Ready(o) \cap o.scope # {}
  /\ Cardinality(o.active) < Concurrency

DrainedUnlessFailed(o) == o.active = {} \/ o.failed   \* mutant
Drained(o) == o.active = {}

AdmissionOf(e, o) ==
  IF epoch # e THEN "ended"
  ELSE IF Admits(o) THEN "schedule"
  ELSE IF ~Drained(o) THEN "collect"
  ELSE IF state = "PAUSING" THEN "halt"
  ELSE IF state # "RUNNING" THEN "ended"
  ELSE "finish"

Admit(e) ==
  LET o == orch[e]
      pc == AdmissionOf(e, o)
  IN  /\ o.pc = "admit"
      /\ Step(e, [o EXCEPT !.pc = pc,
                           !.todo = IF pc = "schedule" THEN Ready(o) \cap o.scope ELSE {}])
      /\ UNCHANGED <<runRow, mail, inv, leftover, work>>

Scheduled(o) ==
  IF o.todo # {} /\ Cardinality(o.active) < Concurrency THEN o
  ELSE [o EXCEPT !.todo = {}, !.pc = IF o.active # {} THEN "collect" ELSE Idle(o)]

(* RunStateService.skipStage: the row is written only while RUNNING in this *)
(* epoch; the orchestrator takes it as skipped either way.                  *)
Skip(e, s) ==
  /\ orch[e].pc = "schedule"
  /\ s \in orch[e].todo \cap Disabled
  /\ exec' = IF epoch = e /\ state = "RUNNING" THEN [exec EXCEPT ![s] = "skipped"] ELSE exec
  /\ Step(e, Scheduled([orch[e] EXCEPT !.todo = @ \ {s}, !.done = @ \cup {s}]))
  /\ UNCHANGED <<runRow, mail, inv, leftover, wait, held>>

InvokeStage(e, s) ==
  /\ orch[e].pc = "schedule"
  /\ s \in orch[e].todo \ Disabled
  /\ inv' = [inv EXCEPT ![e][s] = "requested"]
  /\ Step(e, Scheduled([orch[e] EXCEPT !.todo = @ \ {s}, !.spent = @ \cup {s},
                                       !.active = @ \cup {s}]))
  /\ UNCHANGED <<runRow, mail, leftover, work>>

(* One settled invocation: update the row, and remember why to stop. A       *)
(* crashed invocation marks its stage failed, fenced by epoch and state.    *)
Collect(e, s) ==
  LET o == orch[e]
      r == inv[e][s]
      base == [o EXCEPT !.active = @ \ {s}, !.pc = "admit"]
  IN  /\ o.pc = "collect"
      /\ s \in o.active
      /\ r \in Results
      /\ inv' = [inv EXCEPT ![e][s] = "none"]
      /\ Step(e,
           CASE r = "passed" -> [base EXCEPT !.done = @ \cup {s}, !.spent = @ \ {s}]
             [] r \in {"approval_required", "input_required"} ->
                  [base EXCEPT !.waiting = @ \cup {s}, !.spent = @ \ {s}]
             [] r = "budget_blocked" -> [base EXCEPT !.stopped = "budget"]
             [] r = "deferred" ->
                  [base EXCEPT !.stopped = IF @ = "none" THEN "quota" ELSE @]
             [] r \in {"failed", "crashed"} -> [base EXCEPT !.failed = TRUE]
             [] OTHER -> base)
      /\ exec' = IF r = "crashed" /\ epoch = e /\ state \in {"RUNNING", "PAUSING"}
                   THEN [exec EXCEPT ![s] = "failed"] ELSE exec
      /\ UNCHANGED <<runRow, mail, leftover, wait, held>>

(* RunStateService.transition: a pause asked for in the meantime wins. *)
TransitionOverPause(e, target) ==   \* mutant
  /\ state' = IF epoch = e /\ state \in {"RUNNING", "PAUSING"} THEN target ELSE state
  /\ UNCHANGED <<revision, epoch, outbox>>
TransitionFromRunning(e, target) ==   \* mutant
  /\ state' = IF epoch = e /\ state = "RUNNING" THEN target ELSE state
  /\ UNCHANGED <<revision, epoch, outbox>>
Transition(e, target) ==
  /\ state' = IF epoch = e /\ state = "RUNNING" THEN target
              ELSE IF epoch = e /\ state = "PAUSING" THEN "PAUSED_MANUAL"
              ELSE state
  /\ UNCHANGED <<revision, epoch, outbox>>

(* RunStateService.pauseForQuota: only a RUNNING run of this epoch pauses.  *)
PauseForQuotaInPlace(e) ==   \* mutant
  IF epoch = e /\ state = "RUNNING"
    THEN /\ epoch < MaxEpoch
         /\ state' = "PAUSED_QUOTA"
         /\ epoch' = epoch + 1
         /\ outbox' = outbox \cup
              {[event |-> "run/resumed", action |-> "resume", source |-> "PAUSED_QUOTA",
                revision |-> revision, epoch |-> epoch, timed |-> TRUE]}
         /\ UNCHANGED revision
    ELSE UNCHANGED <<state, revision, epoch, outbox>>
PauseForQuota(e) ==
  IF epoch = e /\ state = "RUNNING"
    THEN /\ epoch < MaxEpoch
         /\ state' = "PAUSED_QUOTA"
         /\ epoch' = epoch + 1
         /\ outbox' = outbox \cup
              {[event |-> "run/resumed", action |-> "resume", source |-> "PAUSED_QUOTA",
                revision |-> revision, epoch |-> epoch + 1, timed |-> TRUE]}
         /\ UNCHANGED revision
    ELSE UNCHANGED <<state, revision, epoch, outbox>>

(* RunStateService.parkOnWaits: park on the waits still open or, when all   *)
(* were answered while the run worked, queue the run's own resume.          *)
ParkAnyway(e) == Transition(e, PausedStateFor(exec, wait))   \* mutant
ParkOnWaits(e) ==
  CASE epoch = e /\ state = "RUNNING" /\ LiveWaits(exec, wait) # {} ->
         /\ state' = PausedStateFor(exec, wait)
         /\ UNCHANGED <<revision, epoch, outbox>>
    [] epoch = e /\ state = "RUNNING" /\ LiveWaits(exec, wait) = {} ->
         /\ epoch < MaxEpoch
         /\ state' = "PAUSED_APPROVAL"
         /\ epoch' = epoch + 1
         /\ outbox' = outbox \cup
              {[event |-> "run/resumed", action |-> "approve", source |-> "PAUSED_APPROVAL",
                revision |-> revision, epoch |-> epoch + 1, timed |-> FALSE]}
         /\ UNCHANGED revision
    [] OTHER -> Transition(e, state)

End(e) ==
  /\ Step(e, [NoOrchestrator EXCEPT !.pc = "ended"])
  /\ UNCHANGED <<scope, sent, claimed, rejected, inv, leftover, work>>

Halt(e) ==
  /\ orch[e].pc = "halt"
  /\ Transition(e, "PAUSED_MANUAL")
  /\ End(e)

Finishing(e, why) ==
  /\ orch[e].pc = "finish"
  /\ why = CASE orch[e].stopped # "none" -> orch[e].stopped
             [] orch[e].stopped = "none" /\ orch[e].failed -> "failed"
             [] orch[e].stopped = "none" /\ ~orch[e].failed /\ orch[e].waiting # {} -> "waits"
             [] OTHER -> IF AllDone(orch[e]) THEN "done" ELSE "idle"
  /\ End(e)

FinishBudget(e)    == Finishing(e, "budget") /\ Transition(e, "PAUSED_BUDGET")
FinishQuota(e)     == Finishing(e, "quota")  /\ PauseForQuota(e)
FinishFailed(e)    == Finishing(e, "failed") /\ Transition(e, "FAILED")
FinishWaits(e)     == Finishing(e, "waits")  /\ ParkOnWaits(e)
FinishIdle(e)      == Finishing(e, "idle")   /\ Transition(e, "IDLE")
FinishCompleted(e) == Finishing(e, "done")   /\ Transition(e, "COMPLETED")

Orchestrate(e) ==
  \/ Load(e) \/ Admit(e) \/ Halt(e)
  \/ FinishBudget(e) \/ FinishQuota(e) \/ FinishFailed(e)
  \/ FinishWaits(e) \/ FinishIdle(e) \/ FinishCompleted(e)
  \/ \E s \in Stage : Skip(e, s) \/ InvokeStage(e, s) \/ Collect(e, s)

(***************************************************************************)
(* stage.execute, one per invocation of a stage in an epoch.  Its writes    *)
(* take the run's row and check the epoch again.                            *)
(***************************************************************************)
CurrentState(e, states) == state \in states   \* mutant
Current(e, states) == epoch = e /\ state \in states
Return(e, s, r) == inv' = [inv EXCEPT ![e][s] = r]

(* isCurrentExecution, then beginAttempt under the run's lock.  A stage held *)
(* for quality control gets here once the judge has refused its output.     *)
BeginAttemptOnStale(e, s) ==   \* mutant
  /\ inv[e][s] = IF s \in held THEN "working" ELSE "requested"
  /\ s \notin Input
  /\ Current(e, {"RUNNING"})
  /\ exec' = [exec EXCEPT ![s] =
       IF @ \in {"pending", "failed", "running", "cancelled"} THEN "running" ELSE @]
  /\ held' = held \ {s}
  /\ Return(e, s, "working")
  /\ UNCHANGED <<runRow, mail, orch, leftover, wait>>
BeginAttempt(e, s) ==
  /\ inv[e][s] = IF s \in held THEN "working" ELSE "requested"
  /\ s \notin Input
  /\ Current(e, {"RUNNING"})
  /\ exec' = [exec EXCEPT ![s] =
       IF @ \in {"pending", "failed", "stale", "running", "cancelled"} THEN "running" ELSE @]
  /\ held' = held \ {s}
  /\ Return(e, s, "working")
  /\ UNCHANGED <<runRow, mail, orch, leftover, wait>>

(* findHeldQcAttempt: judge the stored output, no attempt begins. *)
JudgeHeld(e, s) ==
  /\ inv[e][s] = "requested"
  /\ s \in held
  /\ Current(e, {"RUNNING"})
  /\ Return(e, s, "working")
  /\ UNCHANGED <<runRow, mail, orch, leftover, work>>

AdmitInput(e, s) ==
  /\ inv[e][s] = "requested"
  /\ s \in Input
  /\ Current(e, {"RUNNING"})
  /\ Return(e, s, "asking")
  /\ UNCHANGED <<runRow, mail, orch, leftover, work>>

(* An invocation or its next attempt is not admitted, or its output is       *)
(* discarded: the stage row is not written.                                  *)
NotAdmitted(e, s) ==
  /\ inv[e][s] \in {"requested", "working"}
  /\ ~Current(e, {"RUNNING"})
  /\ held' = IF inv[e][s] = "working" THEN held \ {s} ELSE held
  /\ Return(e, s, "run_not_running")
  /\ UNCHANGED <<runRow, mail, orch, leftover, exec, wait>>

AwaitHumanInput(e, s) ==
  /\ inv[e][s] = "asking"
  /\ IF Current(e, {"RUNNING", "PAUSING"})
       THEN /\ exec' = [exec EXCEPT ![s] = "awaiting_input"]
            /\ wait' = [wait EXCEPT ![s] = "input"]
       ELSE UNCHANGED <<exec, wait>>
  /\ Return(e, s, "input_required")
  /\ UNCHANGED <<runRow, mail, orch, leftover, held>>

(* openApprovalGate: the output waits for a person. *)
OpenGate(e, s, kind) ==
  /\ exec' = [exec EXCEPT ![s] = "awaiting_approval"]
  /\ wait' = [wait EXCEPT ![s] = kind]
  /\ Return(e, s, "approval_required")

(* judgeAndFinalize: a pause lets a paid-for output commit, a cancellation  *)
(* or a newer epoch discards it.                                            *)
Finalize(e, s) ==
  /\ inv[e][s] = "working"
  /\ "success" \in Outcomes
  /\ Current(e, {"RUNNING", "PAUSING", "PAUSED_MANUAL"})
  /\ \/ s \in Approval /\ OpenGate(e, s, "approval")
     \/ /\ s \notin Approval
        /\ exec' = [exec EXCEPT ![s] = "passed"]
        /\ Return(e, s, "passed")
        /\ UNCHANGED wait
  /\ held' = held \ {s}
  /\ UNCHANGED <<runRow, mail, orch, leftover>>

(* holdForQcRetry: quality control could not run, a person decides. *)
HoldForQc(e, s) ==
  /\ inv[e][s] = "working"
  /\ "qc_error" \in Outcomes
  /\ Current(e, {"RUNNING", "PAUSING", "PAUSED_MANUAL"})
  /\ OpenGate(e, s, "qc_error")
  /\ held' = held \ {s}
  /\ UNCHANGED <<runRow, mail, orch, leftover>>

(* failStageExecution. After a user_action failure the attempt's own row    *)
(* keeps its phase.                                                         *)
FailStageUnsettled(e, s) ==   \* mutant
  /\ inv[e][s] = "working"
  /\ exec' = IF Current(e, {"RUNNING", "PAUSING"})
               THEN [exec EXCEPT ![s] = "failed"] ELSE exec
  /\ leftover' = leftover \cup {<<e, s>>}
  /\ held' = held \ {s}
  /\ Return(e, s, "failed")
  /\ UNCHANGED <<runRow, mail, orch, wait>>
FailStage(e, s) ==
  /\ inv[e][s] = "working"
  /\ exec' = IF Current(e, {"RUNNING", "PAUSING"})
               THEN [exec EXCEPT ![s] = "failed"] ELSE exec
  /\ \/ "failure" \in Outcomes /\ UNCHANGED leftover
     \/ /\ "user_action" \in Outcomes
        /\ s \notin held
        /\ Current(e, {"RUNNING", "PAUSING", "PAUSED_MANUAL"})
        /\ leftover' = leftover \cup {<<e, s>>}
  /\ held' = held \ {s}
  /\ Return(e, s, "failed")
  /\ UNCHANGED <<runRow, mail, orch, wait>>

(* The stage row stays as it is; the orchestrator stops the run. *)
StopStage(e, s) ==
  /\ inv[e][s] = "working"
  /\ s \notin held
  /\ \/ "budget" \in Outcomes /\ Return(e, s, "budget_blocked")
     \/ "deferred" \in Outcomes /\ e < MaxEpoch /\ Return(e, s, "deferred")
  /\ UNCHANGED <<runRow, mail, orch, leftover, work>>

(* The function fails for good, its attempt settled or not. *)
CrashStage(e, s) ==
  /\ inv[e][s] = "working"
  /\ "crash" \in Outcomes
  /\ Return(e, s, "crashed")
  /\ leftover' \in {leftover} \cup {leftover \cup {<<e, s>>} : x \in {s} \ held}
  /\ UNCHANGED <<runRow, mail, orch, work>>

Execute(e, s) ==
  \/ BeginAttempt(e, s) \/ JudgeHeld(e, s) \/ AdmitInput(e, s) \/ NotAdmitted(e, s)
  \/ AwaitHumanInput(e, s) \/ Finalize(e, s) \/ HoldForQc(e, s)
  \/ FailStage(e, s) \/ StopStage(e, s) \/ CrashStage(e, s)

Engine == \E e \in Epochs : Orchestrate(e) \/ \E s \in Stage : Execute(e, s)

Next == Operator \/ Delivery \/ Reconcile \/ Engine

Spec == Init /\ [][Next]_vars

(* Inngest runs what it was sent and the sweep sends what is committed; a    *)
(* person need not act, and the request that cancels may die before it       *)
(* reconciles.                                                               *)
Fairness ==
  /\ WF_vars(\E w \in outbox : Dispatch(w))
  /\ WF_vars(\E w \in outbox : Claim(w) \/ IgnoreWakeup(w))
  /\ WF_vars(\E w \in outbox : KillEpoch(w))
  /\ WF_vars(\E w \in outbox : ReconcileOnEvent(w))
  /\ \A e \in Epochs :
       /\ WF_vars(Orchestrate(e))
       /\ \A s \in Stage : WF_vars(Execute(e, s))

FairSpec == Spec /\ Fairness

-----------------------------------------------------------------------------
(* Properties.                                                             *)

TypeOK ==
  /\ state \in RunState
  /\ revision \in 0..MaxRevision
  /\ epoch \in Epochs
  /\ scope \subseteq Stage
  /\ outbox \subseteq Wakeup
  /\ sent \subseteq outbox
  /\ claimed \subseteq sent
  /\ rejected \subseteq sent \ claimed
  /\ orch \in [Epochs -> Orchestrator]
  /\ inv \in [Epochs -> [Stage -> Invocation]]
  /\ leftover \subseteq Epochs \X Stage
  /\ exec \in [Stage -> ExecState]
  /\ wait \in [Stage -> WaitKind]
  /\ held \subseteq Stage

Live == {"RUNNING", "PAUSING", "CANCELLING"}
Settled == {"passed", "skipped"}
SomeQueued == \E w \in outbox : Queued(w)

(* Two wakeups never start the same execution, whatever the order, the       *)
(* duplication or the delay of their delivery.                               *)
OneClaimPerEpoch == \A w1, w2 \in claimed : w1.epoch = w2.epoch => w1 = w2

(* An attempt works only on a stage marked running, never behind an open     *)
(* wait or over an output already accepted, and only on the outputs of       *)
(* stages that are settled.                                                  *)
WorksOnAccepted ==
  \A s \in Stage : inv[epoch][s] = "working" =>
    /\ s \notin held => exec[s] = "running"
    /\ \A d \in Deps[s] : exec[d] \in Settled

(* COMPLETED means every stage is, or that work on it is queued again. *)
CompletedMeansDone ==
  state = "COMPLETED" => SomeQueued \/ \A s \in Stage : exec[s] \in Settled

(* A cancelled run has no stage left running. *)
CancelledIsSettled == state = "CANCELLED" => \A s \in Stage : exec[s] # "running"

(* The run's row and its functions agree: a run that stopped is quiet, its   *)
(* branches have finished first, and a run that works has an orchestrator    *)
(* that will end the work.                                                   *)
WorkMatchesState ==
  /\ state \notin Live =>
       /\ orch[epoch].pc \in {"none", "ended"}
       /\ \A s \in Stage : inv[epoch][s] \notin {"requested", "asking", "working"}
  /\ state \in {"RUNNING", "PAUSING"} => orch[epoch].pc \notin {"none", "ended"}

(* A run parked on a person has a wait to answer or a wakeup on its way. *)
ParkedHasWayOut ==
  state \in ParkedOnWait =>
    LiveWaits(exec, wait) # {} \/ \E w \in outbox : w.event = "run/resumed" /\ Claimable(w)

(* A stopped run offers Continue, unless it is about to work already. *)
StoppedCanContinue == state \notin Live => SomeQueued \/ ~Busy

(* What belongs to an execution the run has left writes nothing any more. *)
RetiredWritesNothing ==
  [][ \A e \in Epochs :
        e # epoch /\ <<orch'[e], inv'[e]>> # <<orch[e], inv[e]>>
          => UNCHANGED <<state, exec, wait>> ]_vars

(* A pause asked for is never lost, except to a cancellation. *)
PauseIsKept ==
  [][ state = "PAUSING" => state' \in {"PAUSING", "PAUSED_MANUAL", "CANCELLING"} ]_vars

(* An output made stale is made again before the stage counts as done. *)
StaleIsRegenerated ==
  [][ \A s \in Stage : exec[s] = "stale" => exec'[s] \notin {"passed", "awaiting_approval"} ]_vars

(* Work, a pause and a cancellation all come to an end. *)
WorkSettles == state \in Live ~> state \notin Live

(* A run that ran out of quota resumes by itself. *)
QuotaResumes == state = "PAUSED_QUOTA" ~> state # "PAUSED_QUOTA"
====
