-------------------------- MODULE RunControlProofs --------------------------
(* Theorems about RunControl for every run: any graph of stages, any bounds *)
(* and any choice of outcomes and operations.                               *)
EXTENDS RunControl, TLAPS

-----------------------------------------------------------------------------
(* Type correctness, one lemma for the operators' transactions, one for     *)
(* delivery, one for the orchestrator and one for the stage invocations.    *)

(* What every operator mutation adds to the outbox is a wakeup. *)
LEMMA MutationType ==
  ASSUME TypeOK, NEW action \in DOMAIN AllowedStates, NEW allowed,
         NEW event \in {"run/started", "run/resumed", "run/paused",
                        "run/config-updated", "run/settings-updated"},
         NEW wakes, wakes => event \in {"run/started", "run/resumed"},
         Mutation(action, allowed, event, wakes)
  PROVE  /\ revision' \in 0..MaxRevision
         /\ epoch' \in Epochs
         /\ outbox' \subseteq Wakeup
         /\ sent' \subseteq outbox'
         /\ claimed' \subseteq sent'
         /\ rejected' \subseteq sent' \ claimed'
         /\ orch' \in [Epochs -> Orchestrator]
         /\ inv' \in [Epochs -> [Stage -> Invocation]]
         /\ leftover' \subseteq Epochs \X Stage
<1>1. revision' \in 0..MaxRevision /\ NextEpoch(event) \in Epochs
  BY BoundsAssumption DEF Mutation, TypeOK, Epochs, NextEpoch
<1>2. Wake(event, action, revision + 1, NextEpoch(event)) \in Wakeup \/ ~wakes
  BY <1>1 DEF Mutation, Wake, Wakeup, TypeOK
<1> QED
  BY <1>1, <1>2 DEF Mutation, TypeOK, engine

LEMMA AnswerType ==
  ASSUME TypeOK, NEW action \in DOMAIN AllowedStates, Answer(action)
  PROVE  /\ state' \in RunState
         /\ revision' \in 0..MaxRevision
         /\ epoch' \in Epochs
         /\ scope' \subseteq Stage
         /\ outbox' \subseteq Wakeup
         /\ sent' \subseteq outbox'
         /\ claimed' \subseteq sent'
         /\ rejected' \subseteq sent' \ claimed'
         /\ orch' \in [Epochs -> Orchestrator]
         /\ inv' \in [Epochs -> [Stage -> Invocation]]
         /\ leftover' \subseteq Epochs \X Stage
<1>1. Mutation(action, RunState, "run/resumed", Wakes(wait'))
  BY DEF Answer
<1>2. state' \in RunState /\ scope' \subseteq Stage
  BY DEF Answer, TypeOK, RunState, PausedStateFor
<1> QED
  BY <1>1, <1>2, MutationType

LEMMA ReadersType ==
  ASSUME NEW s \in Stage
  PROVE  Readers(s) \subseteq Stage
  BY DEF Readers, DescendantsOf

LEMMA InvalidateType ==
  ASSUME TypeOK, NEW affected, Invalidate(affected)
  PROVE  /\ exec' \in [Stage -> ExecState]
         /\ wait' \in [Stage -> WaitKind]
         /\ held' \subseteq Stage
  BY DEF TypeOK, Invalidate, ExecState, WaitKind

LEMMA OperatorType ==
  ASSUME TypeOK, Operator
  PROVE  TypeOK'
<1> USE DEF AllowedStates
<1>1. CASE Start
  BY <1>1, MutationType DEF Start, TypeOK, work
<1>2. CASE Pause
  BY <1>2, MutationType DEF Pause, TypeOK, work, RunState
<1>3. CASE Resume
  BY <1>3, MutationType DEF Resume, TypeOK, work
<1>4. CASE Cancel
  <2>1. Wake("run/cancelled", "cancel", revision + 1, epoch) \in Wakeup
    BY <1>4, BoundsAssumption DEF Cancel, Wake, Wakeup, TypeOK, Epochs
  <2> QED
    BY <1>4, <2>1, BoundsAssumption DEF Cancel, TypeOK, Epochs, RunState, engine, work
<1>5. CASE Plan
  <2>1. exec' \in [Stage -> ExecState] /\ scope' \subseteq Stage
    BY <1>5 DEF Plan, TypeOK, ExecState, Unfinished
  <2>2. PICK action \in {"retry", "continue"} :
          Mutation(action, RunState, "run/resumed", TRUE)
    BY <1>5 DEF Plan
  <2> QED
    BY <1>5, <2>1, <2>2, MutationType DEF Plan, TypeOK
<1>6. CASE UpdateExecutionSettings
  BY <1>6, MutationType DEF UpdateExecutionSettings, TypeOK, work
<1>7. ASSUME NEW s \in Stage, Approve(s) PROVE TypeOK'
  BY <1>7, AnswerType DEF Approve, TypeOK, ExecState, WaitKind
<1>8. ASSUME NEW s \in Stage, SubmitInput(s) PROVE TypeOK'
  BY <1>8, AnswerType DEF SubmitInput, TypeOK, ExecState, WaitKind
<1>9. ASSUME NEW s \in Stage, RetryQc(s) PROVE TypeOK'
  BY <1>9, AnswerType DEF RetryQc, TypeOK, ExecState, WaitKind
<1>10. ASSUME NEW s \in Stage, Retry(s) PROVE TypeOK'
  <2>1. scope' \subseteq Stage
    BY <1>10, ReadersType DEF Retry
  <2>2. Mutation("retry", PausedStates \cup {"FAILED", "COMPLETED"}, "run/resumed", TRUE)
    BY <1>10 DEF Retry
  <2> QED
    BY <1>10, <2>1, <2>2, MutationType, InvalidateType DEF Retry, TypeOK
<1>11. ASSUME NEW s \in Stage, PatchOverrides(s) PROVE TypeOK'
  <2>1. CASE Invalidate(Readers(s)) /\ Mutation("patch_overrides", RunState, "run/resumed", TRUE)
    BY <1>11, <2>1, MutationType, InvalidateType DEF PatchOverrides, TypeOK
  <2>2. CASE UNCHANGED work /\ Mutation("patch_overrides", RunState, "run/config-updated", FALSE)
    BY <1>11, <2>2, MutationType DEF PatchOverrides, TypeOK, work
  <2> QED
    BY <1>11, <2>1, <2>2 DEF PatchOverrides
<1>12. ASSUME NEW s \in Stage, NEW target \in Stage, Reject(s, target) PROVE TypeOK'
  BY <1>12, AnswerType, InvalidateType DEF Reject, TypeOK
<1> QED
  BY <1>1, <1>2, <1>3, <1>4, <1>5, <1>6, <1>7, <1>8, <1>9, <1>10, <1>11, <1>12 DEF Operator

LEMMA DeliveryType ==
  ASSUME TypeOK, NEW w \in outbox,
         \/ Dispatch(w) \/ Claim(w) \/ ClaimThenRestart(w) \/ IgnoreWakeup(w)
  PROVE  TypeOK'
<1>1. w \in Wakeup /\ w.epoch \in Epochs
  BY DEF TypeOK, Wakeup
<1>2. CASE Dispatch(w)
  BY <1>2 DEF Dispatch, TypeOK, runRow, engine, work
<1>3. CASE Claim(w)
  <2>1. [NoOrchestrator EXCEPT !.pc = "load"] \in Orchestrator
    BY DEF NoOrchestrator, Orchestrator
  <2> QED
    BY <1>1, <1>3, <2>1 DEF Claim, Delivered, TypeOK, RunState, work
<1>4. CASE ClaimThenRestart(w)
  BY <1>4 DEF ClaimThenRestart, Delivered, TypeOK, RunState, engine, work
<1>5. CASE IgnoreWakeup(w)
  BY <1>5 DEF IgnoreWakeup, Delivered, TypeOK, runRow, engine, work
<1> QED
  BY <1>2, <1>3, <1>4, <1>5

LEMMA KillEpochType ==
  ASSUME TypeOK, NEW w \in outbox, KillEpoch(w)
  PROVE  TypeOK'
<1>1. w.epoch \in Epochs
  BY DEF TypeOK, Wakeup
<1>2. [NoOrchestrator EXCEPT !.pc = "ended"] \in Orchestrator
  BY DEF NoOrchestrator, Orchestrator
<1>3. [s \in Stage |-> "none"] \in [Stage -> Invocation]
  BY DEF Invocation
<1> QED
  BY <1>1, <1>2, <1>3 DEF KillEpoch, TypeOK, runRow, mail, work

LEMMA ReconcileType ==
  ASSUME TypeOK, Reconcile
  PROVE  TypeOK'
  BY DEF Reconcile, TypeOK, RunState, ExecState, mail, engine

-----------------------------------------------------------------------------
(* The orchestrator. *)

(* What every step of an orchestrator leaves well typed. *)
LEMMA StepType ==
  ASSUME TypeOK, NEW e \in Epochs, NEW o \in Orchestrator, Step(e, o)
  PROVE  orch' \in [Epochs -> Orchestrator]
  BY DEF Step, TypeOK

LEMMA ReadyType ==
  ASSUME NEW o
  PROVE  Ready(o) \subseteq Stage
  BY DEF Ready

LEMMA LoadType ==
  ASSUME TypeOK, NEW e \in Epochs, Load(e)
  PROVE  TypeOK'
<1>1. orch[e] \in Orchestrator
  BY DEF TypeOK
<1>2. orch' \in [Epochs -> Orchestrator]
  BY <1>1 DEF Load, Step, TypeOK, Orchestrator, LiveWaits
<1> QED
  BY <1>2 DEF Load, TypeOK, runRow, mail, work

LEMMA AdmitType ==
  ASSUME TypeOK, NEW e \in Epochs, Admit(e)
  PROVE  TypeOK'
<1>1. orch[e] \in Orchestrator
  BY DEF TypeOK
<1>2. AdmissionOf(e, orch[e]) \in {"ended", "schedule", "collect", "halt", "finish"}
  BY DEF AdmissionOf
<1>3. orch' \in [Epochs -> Orchestrator]
  BY <1>1, <1>2, ReadyType DEF Admit, Step, TypeOK, Orchestrator
<1> QED
  BY <1>3 DEF Admit, TypeOK, runRow, mail, work

LEMMA ScheduledType ==
  ASSUME NEW o \in Orchestrator
  PROVE  Scheduled(o) \in Orchestrator
  BY DEF Scheduled, Idle, Orchestrator

LEMMA SkipType ==
  ASSUME TypeOK, NEW e \in Epochs, NEW s \in Stage, Skip(e, s)
  PROVE  TypeOK'
<1> DEFINE o == [orch[e] EXCEPT !.todo = @ \ {s}, !.done = @ \cup {s}]
<1>0. orch[e] \in Orchestrator
  BY DEF TypeOK
<1>1. o \in Orchestrator
  BY <1>0 DEF Orchestrator
<1>2. orch' \in [Epochs -> Orchestrator]
  <2>1. Step(e, Scheduled(o))
    BY DEF Skip
  <2> QED
    BY <1>1, <2>1, ScheduledType, StepType
<1>3. exec' \in [Stage -> ExecState]
  BY DEF Skip, TypeOK, ExecState
<1> QED
  BY <1>2, <1>3 DEF Skip, TypeOK, runRow, mail

LEMMA InvokeStageType ==
  ASSUME TypeOK, NEW e \in Epochs, NEW s \in Stage, InvokeStage(e, s)
  PROVE  TypeOK'
<1> DEFINE o == [orch[e] EXCEPT !.todo = @ \ {s}, !.spent = @ \cup {s},
                                !.active = @ \cup {s}]
<1>0. orch[e] \in Orchestrator
  BY DEF TypeOK
<1>1. o \in Orchestrator
  BY <1>0 DEF Orchestrator
<1>2. orch' \in [Epochs -> Orchestrator]
  <2>1. Step(e, Scheduled(o))
    BY DEF InvokeStage
  <2> QED
    BY <1>1, <2>1, ScheduledType, StepType
<1>3. inv' \in [Epochs -> [Stage -> Invocation]]
  BY DEF InvokeStage, TypeOK, Invocation
<1> QED
  BY <1>2, <1>3 DEF InvokeStage, TypeOK, runRow, mail, work

LEMMA CollectType ==
  ASSUME TypeOK, NEW e \in Epochs, NEW s \in Stage, Collect(e, s)
  PROVE  TypeOK'
<1> DEFINE base == [orch[e] EXCEPT !.active = @ \ {s}, !.pc = "admit"]
<1>0. orch[e] \in Orchestrator
  BY DEF TypeOK
<1>1. base \in Orchestrator
  BY <1>0 DEF Orchestrator
<1>2. \E o \in Orchestrator : Step(e, o)
  <2>1. /\ [base EXCEPT !.done = @ \cup {s}, !.spent = @ \ {s}] \in Orchestrator
        /\ [base EXCEPT !.waiting = @ \cup {s}, !.spent = @ \ {s}] \in Orchestrator
        /\ [base EXCEPT !.stopped = "budget"] \in Orchestrator
        /\ [base EXCEPT !.stopped = IF @ = "none" THEN "quota" ELSE @] \in Orchestrator
        /\ [base EXCEPT !.failed = TRUE] \in Orchestrator
    BY <1>1 DEF Orchestrator
  <2> QED
    BY <1>1, <2>1 DEF Collect
<1>3. orch' \in [Epochs -> Orchestrator]
  BY <1>2, StepType
<1>4. inv' \in [Epochs -> [Stage -> Invocation]] /\ exec' \in [Stage -> ExecState]
  BY DEF Collect, TypeOK, Invocation, ExecState
<1> QED
  BY <1>3, <1>4 DEF Collect, TypeOK, runRow, mail

(* How an orchestrator ends the run it belongs to. *)
LEMMA EndType ==
  ASSUME TypeOK, NEW e \in Epochs, End(e),
         state' \in RunState, revision' \in 0..MaxRevision, epoch' \in Epochs,
         outbox' \subseteq Wakeup, outbox \subseteq outbox'
  PROVE  TypeOK'
<1>1. [NoOrchestrator EXCEPT !.pc = "ended"] \in Orchestrator
  BY DEF NoOrchestrator, Orchestrator
<1>2. orch' \in [Epochs -> Orchestrator]
  BY <1>1 DEF End, Step, TypeOK
<1> QED
  BY <1>2 DEF End, TypeOK, work

LEMMA TransitionType ==
  ASSUME TypeOK, NEW e \in Epochs, NEW target \in RunState, Transition(e, target), End(e)
  PROVE  TypeOK'
<1>1. /\ state' \in RunState /\ revision' \in 0..MaxRevision /\ epoch' \in Epochs
      /\ outbox' \subseteq Wakeup /\ outbox \subseteq outbox'
  BY DEF Transition, TypeOK, RunState
<1> QED
  BY <1>1, EndType

LEMMA PauseForQuotaType ==
  ASSUME TypeOK, NEW e \in Epochs, PauseForQuota(e), End(e)
  PROVE  TypeOK'
<1>1. CASE UNCHANGED <<state, revision, epoch, outbox>>
  BY <1>1, EndType DEF TypeOK
<1>2. CASE /\ epoch < MaxEpoch
           /\ state' = "PAUSED_QUOTA"
           /\ epoch' = epoch + 1
           /\ outbox' = outbox \cup
                {[event |-> "run/resumed", action |-> "resume", source |-> "PAUSED_QUOTA",
                  revision |-> revision, epoch |-> epoch + 1, timed |-> TRUE]}
           /\ UNCHANGED revision
  <2>1. epoch + 1 \in Epochs
    BY <1>2, BoundsAssumption DEF TypeOK, Epochs
  <2>2. [event |-> "run/resumed", action |-> "resume", source |-> "PAUSED_QUOTA",
         revision |-> revision, epoch |-> epoch + 1, timed |-> TRUE] \in Wakeup
    BY <2>1 DEF TypeOK, Wakeup, RunState, AllowedStates
  <2>3. /\ state' \in RunState /\ revision' \in 0..MaxRevision /\ epoch' \in Epochs
        /\ outbox' \subseteq Wakeup /\ outbox \subseteq outbox'
    BY <1>2, <2>1, <2>2 DEF TypeOK, RunState
  <2> QED
    BY <2>3, EndType
<1> QED
  BY <1>1, <1>2 DEF PauseForQuota

LEMMA ParkOnWaitsType ==
  ASSUME TypeOK, NEW e \in Epochs, ParkOnWaits(e), End(e)
  PROVE  TypeOK'
<1>1. CASE /\ state' = PausedStateFor(exec, wait)
           /\ UNCHANGED <<revision, epoch, outbox>>
  <2>1. /\ state' \in RunState /\ revision' \in 0..MaxRevision /\ epoch' \in Epochs
        /\ outbox' \subseteq Wakeup /\ outbox \subseteq outbox'
    BY <1>1 DEF TypeOK, RunState, PausedStateFor
  <2> QED
    BY <2>1, EndType
<1>2. CASE /\ epoch < MaxEpoch
           /\ state' = "PAUSED_APPROVAL"
           /\ epoch' = epoch + 1
           /\ outbox' = outbox \cup
                {[event |-> "run/resumed", action |-> "approve", source |-> "PAUSED_APPROVAL",
                  revision |-> revision, epoch |-> epoch + 1, timed |-> FALSE]}
           /\ UNCHANGED revision
  <2>1. epoch + 1 \in Epochs
    BY <1>2, BoundsAssumption DEF TypeOK, Epochs
  <2>2. [event |-> "run/resumed", action |-> "approve", source |-> "PAUSED_APPROVAL",
         revision |-> revision, epoch |-> epoch + 1, timed |-> FALSE] \in Wakeup
    BY <2>1 DEF TypeOK, Wakeup, RunState, AllowedStates
  <2>3. /\ state' \in RunState /\ revision' \in 0..MaxRevision /\ epoch' \in Epochs
        /\ outbox' \subseteq Wakeup /\ outbox \subseteq outbox'
    BY <1>2, <2>1, <2>2 DEF TypeOK, RunState
  <2> QED
    BY <2>3, EndType
<1>3. CASE Transition(e, state)
  BY <1>3, TransitionType DEF TypeOK
<1> QED
  BY <1>1, <1>2, <1>3 DEF ParkOnWaits

LEMMA OrchestrateType ==
  ASSUME TypeOK, NEW e \in Epochs, Orchestrate(e)
  PROVE  TypeOK'
<1>1. CASE Load(e)
  BY <1>1, LoadType
<1>2. CASE Admit(e)
  BY <1>2, AdmitType
<1>3. CASE Halt(e)
  BY <1>3, TransitionType DEF Halt, RunState
<1>4. CASE FinishBudget(e)
  BY <1>4, TransitionType DEF FinishBudget, Finishing, RunState
<1>5. CASE FinishQuota(e)
  BY <1>5, PauseForQuotaType DEF FinishQuota, Finishing
<1>6. CASE FinishFailed(e)
  BY <1>6, TransitionType DEF FinishFailed, Finishing, RunState
<1>7. CASE FinishWaits(e)
  BY <1>7, ParkOnWaitsType DEF FinishWaits, Finishing
<1>8. CASE FinishIdle(e)
  BY <1>8, TransitionType DEF FinishIdle, Finishing, RunState
<1>9. CASE FinishCompleted(e)
  BY <1>9, TransitionType DEF FinishCompleted, Finishing, RunState
<1>10. CASE \E s \in Stage : Skip(e, s) \/ InvokeStage(e, s) \/ Collect(e, s)
  BY <1>10, SkipType, InvokeStageType, CollectType
<1> QED
  BY <1>1, <1>2, <1>3, <1>4, <1>5, <1>6, <1>7, <1>8, <1>9, <1>10 DEF Orchestrate

-----------------------------------------------------------------------------
(* The invocations of stages. *)

LEMMA ReturnType ==
  ASSUME TypeOK, NEW e \in Epochs, NEW s \in Stage, NEW r \in Invocation, Return(e, s, r)
  PROVE  inv' \in [Epochs -> [Stage -> Invocation]]
  BY DEF Return, TypeOK

LEMMA ExecuteType ==
  ASSUME TypeOK, NEW e \in Epochs, NEW s \in Stage, Execute(e, s)
  PROVE  TypeOK'
<1>1. /\ inv' \in [Epochs -> [Stage -> Invocation]]
  <2>1. \E r \in Invocation : Return(e, s, r)
    BY DEF Execute, BeginAttempt, JudgeHeld, AdmitInput, NotAdmitted, AwaitHumanInput,
           Finalize, OpenGate, HoldForQc, FailStage, StopStage, CrashStage, Invocation
  <2> QED
    BY <2>1, ReturnType
<1>2. exec' \in [Stage -> ExecState]
  BY DEF Execute, BeginAttempt, JudgeHeld, AdmitInput, NotAdmitted, AwaitHumanInput,
         Finalize, OpenGate, HoldForQc, FailStage, StopStage, CrashStage, TypeOK,
         ExecState, work
<1>3. wait' \in [Stage -> WaitKind]
  BY DEF Execute, BeginAttempt, JudgeHeld, AdmitInput, NotAdmitted, AwaitHumanInput,
         Finalize, OpenGate, HoldForQc, FailStage, StopStage, CrashStage, TypeOK,
         WaitKind, work
<1>4. held' \subseteq Stage
  BY DEF Execute, BeginAttempt, JudgeHeld, AdmitInput, NotAdmitted, AwaitHumanInput,
         Finalize, HoldForQc, FailStage, StopStage, CrashStage, TypeOK, work
<1>5. leftover' \subseteq Epochs \X Stage
  BY DEF Execute, BeginAttempt, JudgeHeld, AdmitInput, NotAdmitted, AwaitHumanInput,
         Finalize, HoldForQc, FailStage, StopStage, CrashStage, TypeOK
<1>6. UNCHANGED <<runRow, mail, orch>>
  BY DEF Execute, BeginAttempt, JudgeHeld, AdmitInput, NotAdmitted, AwaitHumanInput,
         Finalize, HoldForQc, FailStage, StopStage, CrashStage
<1> QED
  BY <1>1, <1>2, <1>3, <1>4, <1>5, <1>6 DEF TypeOK, runRow, mail

-----------------------------------------------------------------------------
LEMMA TypeInit ==
  Init => TypeOK
  BY BoundsAssumption
     DEF Init, TypeOK, RunState, Epochs, Orchestrator, NoOrchestrator, Invocation,
         ExecState, WaitKind

LEMMA TypeNext ==
  TypeOK /\ [Next]_vars => TypeOK'
<1> SUFFICES ASSUME TypeOK, [Next]_vars PROVE TypeOK'
  OBVIOUS
<1>1. CASE Operator
  BY <1>1, OperatorType
<1>2. CASE Delivery
  BY <1>2, DeliveryType, KillEpochType, ReconcileType DEF Delivery, ReconcileOnEvent
<1>3. CASE Reconcile
  BY <1>3, ReconcileType
<1>4. CASE Engine
  BY <1>4, OrchestrateType, ExecuteType DEF Engine
<1>5. CASE UNCHANGED vars
  BY <1>5 DEF vars, runRow, mail, engine, work, TypeOK
<1> QED
  BY <1>1, <1>2, <1>3, <1>4, <1>5 DEF Next

(* Every variable keeps to what its row or its function can hold; a claimed  *)
(* or rejected wakeup was sent, and none is both.                           *)
THEOREM TypeCorrect == Spec => []TypeOK
  BY TypeInit, TypeNext, PTL DEF Spec

-----------------------------------------------------------------------------
(* A wakeup is claimed at most once for each execution.  The epochs of the  *)
(* outbox explain it: a start carries epoch 0 and is claimed only from      *)
(* CREATED, which a run never enters again, and every resume carries an     *)
(* epoch of its own, higher than any before it.                             *)

Started(w) == w.event = "run/started"
Resumed(w) == w.event = "run/resumed"

OutboxFollowsRow ==
  \A w \in outbox : w.epoch <= epoch
StartsComeFirst ==
  \A w \in outbox : Started(w) => w.epoch = 0 /\ w.source = "CREATED"
ResumesHaveOwnEpoch ==
  /\ \A w \in outbox : Resumed(w) => w.epoch > 0
  /\ \A w1, w2 \in outbox : Resumed(w1) /\ Resumed(w2) /\ w1.epoch = w2.epoch => w1 = w2
CreatedIsFresh ==
  state = "CREATED" => epoch = 0 /\ \A w \in claimed : ~Started(w)
ClaimsAreWork ==
  /\ \A w \in claimed : w.event # "run/cancelled"
  /\ \A w1, w2 \in claimed : Started(w1) /\ Started(w2) => w1 = w2

WakeupInv ==
  /\ OutboxFollowsRow
  /\ StartsComeFirst
  /\ ResumesHaveOwnEpoch
  /\ CreatedIsFresh
  /\ ClaimsAreWork

(* A step that claims nothing keeps the invariant when what it adds to the  *)
(* outbox is a start at epoch 0, a cancellation, or a resume that opens the *)
(* epoch it carries.                                                        *)
LEMMA InsertKeepsWakeupInv ==
  ASSUME TypeOK, WakeupInv,
         claimed' = claimed,
         epoch' \in Epochs, epoch' >= epoch,
         state' = "CREATED" => state = "CREATED" /\ epoch' = epoch,
         NEW new \in SUBSET Wakeup, outbox' = outbox \cup new,
         \A w1, w2 \in new : w1 = w2,
         \A w \in new : w.epoch <= epoch',
         \A w \in new : Started(w) => w.epoch = 0 /\ w.source = "CREATED",
         \A w \in new : Resumed(w) => w.epoch > epoch
  PROVE  WakeupInv'
<1>1. epoch \in Nat /\ epoch' \in Nat /\ \A w \in outbox \cup new : w.epoch \in Nat
  BY BoundsAssumption DEF TypeOK, Epochs, Wakeup
<1>2. OutboxFollowsRow'
  BY <1>1 DEF WakeupInv, OutboxFollowsRow
<1>3. StartsComeFirst'
  BY DEF WakeupInv, StartsComeFirst
<1>4. ResumesHaveOwnEpoch'
  <2>1. \A w \in outbox' : Resumed(w) => w.epoch > 0
    BY <1>1 DEF WakeupInv, ResumesHaveOwnEpoch
  <2>2. ASSUME NEW w1 \in outbox', NEW w2 \in outbox',
               Resumed(w1), Resumed(w2), w1.epoch = w2.epoch
        PROVE  w1 = w2
    <3>1. CASE w1 \in outbox /\ w2 \in outbox
      BY <2>2, <3>1 DEF WakeupInv, ResumesHaveOwnEpoch
    <3>2. CASE w1 \in new /\ w2 \in new
      BY <3>2
    <3>3. CASE w1 \in outbox /\ w2 \in new
      <4>1. w1.epoch <= epoch /\ epoch < w2.epoch
        BY <2>2, <3>3 DEF WakeupInv, OutboxFollowsRow
      <4> QED
        BY <1>1, <2>2, <3>3, <4>1
    <3>4. CASE w1 \in new /\ w2 \in outbox
      <4>1. w2.epoch <= epoch /\ epoch < w1.epoch
        BY <2>2, <3>4 DEF WakeupInv, OutboxFollowsRow
      <4> QED
        BY <1>1, <2>2, <3>4, <4>1
    <3> QED
      BY <3>1, <3>2, <3>3, <3>4
  <2> QED
    BY <2>1, <2>2 DEF ResumesHaveOwnEpoch
<1>5. CreatedIsFresh' /\ ClaimsAreWork'
  BY DEF WakeupInv, CreatedIsFresh, ClaimsAreWork
<1> QED
  BY <1>2, <1>3, <1>4, <1>5 DEF WakeupInv

(* The same for a mutation of the run; what it may do is left to its guard. *)
LEMMA MutationKeepsWakeupInv ==
  ASSUME TypeOK, WakeupInv,
         NEW action \in DOMAIN AllowedStates, NEW allowed,
         NEW event \in {"run/started", "run/resumed", "run/paused",
                        "run/config-updated", "run/settings-updated"},
         NEW wakes \in BOOLEAN, wakes => event \in {"run/started", "run/resumed"},
         Mutation(action, allowed, event, wakes),
         event = "run/started" => state = "CREATED",
         wakes /\ event = "run/resumed" => state # "RUNNING",
         state = "CREATED" => event # "run/resumed",
         state' = "CREATED" => state = "CREATED"
  PROVE  WakeupInv'
<1> DEFINE w == Wake(event, action, revision + 1, NextEpoch(event))
           new == IF wakes THEN {w} ELSE {}
<1>1. /\ revision + 1 \in 0..MaxRevision
      /\ NextEpoch(event) \in Epochs
      /\ epoch' = NextEpoch(event) /\ epoch \in Nat /\ epoch' >= epoch
  BY BoundsAssumption DEF Mutation, NextEpoch, TypeOK, Epochs
<1>2. new \in SUBSET Wakeup
  BY <1>1 DEF Wake, Wakeup, TypeOK
<1>3. /\ w.event = event
      /\ w.epoch = NextEpoch(event)
      /\ w.source = state
  BY DEF Wake
<1>4. \A x \in new : x.epoch <= epoch'
  BY <1>1, <1>3 DEF Epochs
<1>5. \A x \in new : Started(x) => x.epoch = 0 /\ x.source = "CREATED"
  BY <1>3 DEF Started, WakeupInv, CreatedIsFresh, NextEpoch
<1>6. \A x \in new : Resumed(x) => x.epoch > epoch
  BY <1>1, <1>3 DEF Resumed, NextEpoch
<1>7. /\ outbox' = outbox \cup new
      /\ claimed' = claimed
      /\ state' = "CREATED" => epoch' = epoch
  BY <1>1 DEF Mutation, NextEpoch
<1> HIDE DEF w, new
<1>8. \A w1, w2 \in new : w1 = w2
  BY DEF new
<1> QED
  BY <1>1, <1>2, <1>4, <1>5, <1>6, <1>7, <1>8, InsertKeepsWakeupInv

LEMMA AnswerKeepsWakeupInv ==
  ASSUME TypeOK, WakeupInv,
         NEW action \in {"approve", "reject", "retry_qc", "submit_input"}, Answer(action)
  PROVE  WakeupInv'
<1>1. Mutation(action, RunState, "run/resumed", Wakes(wait'))
  BY DEF Answer
<1>2. /\ action \in DOMAIN AllowedStates
      /\ Wakes(wait') \in BOOLEAN
  BY DEF AllowedStates, Wakes
<1>3. Wakes(wait') => state # "RUNNING"
  BY DEF Wakes, ParkedOnWait
<1>4. state # "CREATED"
  BY <1>1 DEF Mutation, AllowedStates, AnswerStates, ParkedOnWait
<1>5. state' # "CREATED"
  BY <1>4 DEF Answer, PausedStateFor
<1> QED
  BY <1>1, <1>2, <1>3, <1>4, <1>5, MutationKeepsWakeupInv

LEMMA OperatorKeepsWakeupInv ==
  ASSUME TypeOK, WakeupInv, Operator
  PROVE  WakeupInv'
<1>0. {"start", "pause", "resume", "retry", "continue", "patch_overrides"}
        \subseteq DOMAIN AllowedStates
  BY DEF AllowedStates
<1>1. CASE Start
  <2>1. Mutation("start", {"CREATED"}, "run/started", TRUE) /\ state = "CREATED"
    BY <1>1 DEF Start, Mutation
  <2> QED
    BY <1>0, <2>1, MutationKeepsWakeupInv
<1>2. CASE Pause
  BY <1>0, <1>2, MutationKeepsWakeupInv DEF Pause
<1>3. CASE Resume
  <2>1. /\ Mutation("resume", RunState, "run/resumed", TRUE)
        /\ state \notin {"CREATED", "RUNNING"} /\ state' = state
    BY <1>3 DEF Resume, Mutation, AllowedStates
  <2> QED
    BY <1>0, <2>1, MutationKeepsWakeupInv
<1>4. CASE Cancel
  <2> DEFINE new == {Wake("run/cancelled", "cancel", revision + 1, epoch)}
  <2>1. /\ new \in SUBSET Wakeup
        /\ \A w \in new : w.event = "run/cancelled" /\ w.epoch = epoch
    BY <1>4, BoundsAssumption DEF Cancel, Wake, Wakeup, TypeOK, Epochs, AllowedStates
  <2>2. epoch' \in Epochs /\ epoch' >= epoch /\ epoch \in Nat /\ epoch <= epoch'
    BY <1>4, BoundsAssumption DEF Cancel, TypeOK, Epochs
  <2>3. /\ claimed' = claimed /\ outbox' = outbox \cup new /\ state' # "CREATED"
        /\ \A w1, w2 \in new : w1 = w2
    BY <1>4 DEF Cancel
  <2> HIDE DEF new
  <2> QED
    BY <2>1, <2>2, <2>3, InsertKeepsWakeupInv DEF Started, Resumed
<1>5. CASE Plan
  <2>1. PICK action \in {"retry", "continue"} : Mutation(action, RunState, "run/resumed", TRUE)
    BY <1>5 DEF Plan
  <2>2. state \notin {"CREATED", "RUNNING"} /\ state' = state
    BY <1>5, <2>1 DEF Plan, Mutation, AllowedStates, PausedStates
  <2> QED
    BY <1>0, <2>1, <2>2, MutationKeepsWakeupInv
<1>6. CASE UpdateExecutionSettings
  BY <1>0, <1>6, MutationKeepsWakeupInv DEF UpdateExecutionSettings
<1>7. ASSUME NEW s \in Stage, Approve(s) \/ SubmitInput(s) \/ RetryQc(s) PROVE WakeupInv'
  BY <1>7, AnswerKeepsWakeupInv DEF Approve, SubmitInput, RetryQc
<1>8. ASSUME NEW s \in Stage, Retry(s) PROVE WakeupInv'
  <2>1. /\ Mutation("retry", PausedStates \cup {"FAILED", "COMPLETED"}, "run/resumed", TRUE)
        /\ state' = state
    BY <1>8 DEF Retry
  <2>2. state \notin {"CREATED", "RUNNING"}
    BY <2>1 DEF Mutation, PausedStates
  <2> QED
    BY <1>0, <2>1, <2>2, MutationKeepsWakeupInv
<1>9. ASSUME NEW s \in Stage, PatchOverrides(s) PROVE WakeupInv'
  <2>1. /\ \/ Mutation("patch_overrides", RunState, "run/resumed", TRUE)
           \/ Mutation("patch_overrides", RunState, "run/config-updated", FALSE)
        /\ state' = state
    BY <1>9 DEF PatchOverrides
  <2>2. state \notin {"CREATED", "RUNNING"}
    BY <2>1 DEF Mutation, AllowedStates, PausedStates
  <2> QED
    BY <1>0, <2>1, <2>2, MutationKeepsWakeupInv
<1>10. ASSUME NEW s \in Stage, NEW target \in Stage, Reject(s, target) PROVE WakeupInv'
  BY <1>10, AnswerKeepsWakeupInv DEF Reject
<1> QED
  BY <1>1, <1>2, <1>3, <1>4, <1>5, <1>6, <1>7, <1>8, <1>9, <1>10 DEF Operator

LEMMA ClaimKeepsWakeupInv ==
  ASSUME TypeOK, WakeupInv, NEW w \in outbox, Delivered(w), Claimable(w),
         state' = "RUNNING", claimed' = claimed \cup {w}, UNCHANGED <<epoch, outbox>>
  PROVE  WakeupInv'
<1>1. /\ w.event # "run/cancelled"
      /\ Started(w) => state = "CREATED"
  BY DEF Delivered, Claimable, WakeupInv, StartsComeFirst
<1>2. ClaimsAreWork'
  BY <1>1 DEF WakeupInv, ClaimsAreWork, CreatedIsFresh
<1>3. OutboxFollowsRow' /\ StartsComeFirst' /\ ResumesHaveOwnEpoch' /\ CreatedIsFresh'
  BY DEF WakeupInv, OutboxFollowsRow, StartsComeFirst, ResumesHaveOwnEpoch, CreatedIsFresh
<1> QED
  BY <1>2, <1>3 DEF WakeupInv

(* Steps that touch neither the epoch nor a wakeup. *)
LEMMA OtherKeepsWakeupInv ==
  ASSUME WakeupInv, UNCHANGED <<epoch, outbox, claimed>>,
         state' = "CREATED" => state = "CREATED"
  PROVE  WakeupInv'
  BY DEF WakeupInv, OutboxFollowsRow, StartsComeFirst, ResumesHaveOwnEpoch,
         CreatedIsFresh, ClaimsAreWork

LEMMA DeliveryKeepsWakeupInv ==
  ASSUME TypeOK, WakeupInv, NEW w \in outbox,
         \/ Dispatch(w) \/ Claim(w) \/ ClaimThenRestart(w)
         \/ IgnoreWakeup(w) \/ KillEpoch(w) \/ ReconcileOnEvent(w)
  PROVE  WakeupInv'
<1>1. CASE Claim(w) \/ ClaimThenRestart(w)
  BY <1>1, ClaimKeepsWakeupInv DEF Claim, ClaimThenRestart
<1>2. CASE Dispatch(w) \/ IgnoreWakeup(w) \/ KillEpoch(w) \/ ReconcileOnEvent(w)
  BY <1>2, OtherKeepsWakeupInv
     DEF Dispatch, IgnoreWakeup, KillEpoch, ReconcileOnEvent, Reconcile, runRow, mail
<1> QED
  BY <1>1, <1>2

(* An orchestrator that ends leaves at most the resume of its own run. *)
LEMMA EndKeepsWakeupInv ==
  ASSUME TypeOK, WakeupInv, NEW e \in Epochs, End(e),
         \/ PauseForQuota(e) \/ ParkOnWaits(e)
         \/ \E target \in RunState \ {"CREATED"} : Transition(e, target)
  PROVE  WakeupInv'
<1>1. claimed' = claimed
  BY DEF End
<1>2. CASE UNCHANGED <<epoch, outbox>> /\ (state' = "CREATED" => state = "CREATED")
  BY <1>1, <1>2, OtherKeepsWakeupInv
<1>3. CASE \E target \in {"PAUSED_QUOTA", "PAUSED_APPROVAL"}, action \in {"resume", "approve"},
             t \in BOOLEAN :
             /\ epoch < MaxEpoch
             /\ state' = target
             /\ epoch' = epoch + 1
             /\ outbox' = outbox \cup
                  {[event |-> "run/resumed", action |-> action, source |-> target,
                    revision |-> revision, epoch |-> epoch + 1, timed |-> t]}
  <2>1. PICK target \in {"PAUSED_QUOTA", "PAUSED_APPROVAL"}, action \in {"resume", "approve"},
             t \in BOOLEAN :
             /\ epoch < MaxEpoch
             /\ state' = target
             /\ epoch' = epoch + 1
             /\ outbox' = outbox \cup
                  {[event |-> "run/resumed", action |-> action, source |-> target,
                    revision |-> revision, epoch |-> epoch + 1, timed |-> t]}
    BY <1>3
  <2> DEFINE new == {[event |-> "run/resumed", action |-> action, source |-> target,
                      revision |-> revision, epoch |-> epoch + 1, timed |-> t]}
  <2>2. epoch \in Nat /\ epoch' \in Epochs /\ epoch' >= epoch /\ epoch' > epoch
    BY <2>1, BoundsAssumption DEF TypeOK, Epochs
  <2>3. /\ new \in SUBSET Wakeup
        /\ \A w \in new : w.event = "run/resumed" /\ w.epoch = epoch'
    BY <2>1, <2>2 DEF TypeOK, Wakeup, RunState, AllowedStates
  <2>4. /\ outbox' = outbox \cup new /\ state' # "CREATED"
        /\ \A w1, w2 \in new : w1 = w2
    BY <2>1
  <2> HIDE DEF new
  <2>5. \A w \in new : w.epoch <= epoch' /\ w.epoch > epoch /\ ~Started(w)
    BY <2>2, <2>3 DEF Started, Epochs
  <2> QED
    BY <1>1, <2>2, <2>3, <2>4, <2>5, InsertKeepsWakeupInv
<1>4. CASE PauseForQuota(e)
  BY <1>2, <1>3, <1>4 DEF PauseForQuota
<1>5. CASE \E target \in RunState \ {"CREATED"} : Transition(e, target)
  BY <1>2, <1>5 DEF Transition
<1>6. CASE ParkOnWaits(e)
  <2>1. CASE Transition(e, state)
    BY <1>2, <2>1 DEF Transition
  <2> QED
    BY <1>2, <1>3, <1>6, <2>1 DEF ParkOnWaits, PausedStateFor
<1> QED
  BY <1>4, <1>5, <1>6

LEMMA EngineKeepsWakeupInv ==
  ASSUME TypeOK, WakeupInv, Engine
  PROVE  WakeupInv'
<1>1. ASSUME NEW e \in Epochs, Orchestrate(e) PROVE WakeupInv'
  <2>1. CASE End(e) /\ (\/ PauseForQuota(e) \/ ParkOnWaits(e)
                        \/ \E target \in RunState \ {"CREATED"} : Transition(e, target))
    BY <2>1, EndKeepsWakeupInv
  <2>2. CASE UNCHANGED <<state, epoch, outbox, claimed>>
    BY <2>2, OtherKeepsWakeupInv
  <2>3. CASE Load(e) \/ Admit(e) \/ \E s \in Stage : Skip(e, s) \/ InvokeStage(e, s) \/ Collect(e, s)
    BY <2>2, <2>3 DEF Load, Admit, Skip, InvokeStage, Collect, runRow, mail
  <2>4. CASE \/ Halt(e) \/ FinishBudget(e) \/ FinishQuota(e) \/ FinishFailed(e)
             \/ FinishWaits(e) \/ FinishIdle(e) \/ FinishCompleted(e)
    BY <2>1, <2>4 DEF Halt, FinishBudget, FinishQuota, FinishFailed, FinishWaits,
       FinishIdle, FinishCompleted, Finishing, RunState
  <2> QED
    BY <1>1, <2>3, <2>4 DEF Orchestrate
<1>2. ASSUME NEW e \in Epochs, NEW s \in Stage, Execute(e, s) PROVE WakeupInv'
  <2>1. UNCHANGED <<state, epoch, outbox, claimed>>
    BY <1>2 DEF Execute, BeginAttempt, JudgeHeld, AdmitInput, NotAdmitted, AwaitHumanInput,
       Finalize, HoldForQc, FailStage, StopStage, CrashStage, runRow, mail
  <2> QED
    BY <2>1, OtherKeepsWakeupInv
<1> QED
  BY <1>1, <1>2 DEF Engine

LEMMA WakeupInvNext ==
  TypeOK /\ WakeupInv /\ [Next]_vars => WakeupInv'
<1> SUFFICES ASSUME TypeOK, WakeupInv, [Next]_vars PROVE WakeupInv'
  OBVIOUS
<1>1. CASE Reconcile \/ UNCHANGED vars
  BY <1>1, OtherKeepsWakeupInv DEF Reconcile, vars, runRow, mail
<1> QED
  BY <1>1, OperatorKeepsWakeupInv, DeliveryKeepsWakeupInv, EngineKeepsWakeupInv
     DEF Next, Delivery

(* Two wakeups never start the same execution of a run. *)
THEOREM ClaimedOncePerEpoch == Spec => []OneClaimPerEpoch
<1>1. Init => WakeupInv
  BY DEF Init, WakeupInv, OutboxFollowsRow, StartsComeFirst, ResumesHaveOwnEpoch,
         CreatedIsFresh, ClaimsAreWork
<1>2. TypeOK /\ WakeupInv => OneClaimPerEpoch
  <2> SUFFICES ASSUME TypeOK, WakeupInv, NEW w1 \in claimed, NEW w2 \in claimed,
                      w1.epoch = w2.epoch
               PROVE  w1 = w2
    BY DEF OneClaimPerEpoch
  <2>1. \A w \in claimed : w \in outbox /\ (Started(w) \/ Resumed(w))
    BY DEF TypeOK, WakeupInv, ClaimsAreWork, Wakeup, Started, Resumed
  <2>2. CASE Started(w1) /\ Started(w2)
    BY <2>2 DEF WakeupInv, ClaimsAreWork
  <2>3. CASE Resumed(w1) /\ Resumed(w2)
    BY <2>1, <2>3 DEF WakeupInv, ResumesHaveOwnEpoch
  <2>4. CASE \/ Started(w1) /\ Resumed(w2)
             \/ Resumed(w1) /\ Started(w2)
    BY <2>1, <2>4 DEF WakeupInv, StartsComeFirst, ResumesHaveOwnEpoch
  <2> QED
    BY <2>1, <2>2, <2>3, <2>4
<1> QED
  BY <1>1, <1>2, WakeupInvNext, TypeCorrect, PTL DEF Spec

-----------------------------------------------------------------------------
(* No wakeup is queued from a run at work, so none is claimed by one: the   *)
(* states a claim checks are those of the operations that insert it.        *)

QueuedFromRest ==
  \A w \in outbox : w.event # "run/cancelled" => w.source \notin Live

LEMMA OperatorQueuesFromRest ==
  ASSUME TypeOK, QueuedFromRest, Operator
  PROVE  QueuedFromRest'
<1>1. ASSUME NEW action, NEW allowed, NEW event, NEW wakes,
             wakes => state \notin Live,
             Mutation(action, allowed, event, wakes)
      PROVE  QueuedFromRest'
  BY <1>1 DEF Mutation, Wake, QueuedFromRest
<1>2. CASE Start
  BY <1>1, <1>2 DEF Start, Mutation, AllowedStates, Live
<1>3. CASE Pause
  BY <1>1, <1>3 DEF Pause
<1>4. CASE Resume
  <2>1. Mutation("resume", RunState, "run/resumed", TRUE) /\ state \notin Live
    BY <1>4 DEF Resume, Mutation, AllowedStates, Live
  <2> QED
    BY <1>1, <2>1
<1>5. CASE Cancel
  BY <1>5 DEF Cancel, Wake, QueuedFromRest
<1>6. CASE Plan
  <2>1. PICK action \in {"retry", "continue"} : Mutation(action, RunState, "run/resumed", TRUE)
    BY <1>6 DEF Plan
  <2>2. state \notin Live
    BY <2>1 DEF Mutation, AllowedStates, PausedStates, Live
  <2> QED
    BY <1>1, <2>1, <2>2
<1>7. CASE UpdateExecutionSettings
  BY <1>1, <1>7 DEF UpdateExecutionSettings
<1>8. ASSUME NEW action, Answer(action) PROVE QueuedFromRest'
  <2>1. Mutation(action, RunState, "run/resumed", Wakes(wait'))
    BY <1>8 DEF Answer
  <2>2. Wakes(wait') => state \notin Live
    BY DEF Wakes, ParkedOnWait, Live
  <2> QED
    BY <1>1, <2>1, <2>2
<1>9. ASSUME NEW s \in Stage,
             \/ Approve(s) \/ SubmitInput(s) \/ RetryQc(s)
             \/ \E target \in Stage : Reject(s, target)
      PROVE  QueuedFromRest'
  BY <1>8, <1>9 DEF Approve, SubmitInput, RetryQc, Reject
<1>10. ASSUME NEW s \in Stage, Retry(s) PROVE QueuedFromRest'
  <2>1. /\ Mutation("retry", PausedStates \cup {"FAILED", "COMPLETED"}, "run/resumed", TRUE)
        /\ state \notin Live
    BY <1>10 DEF Retry, Mutation, PausedStates, Live
  <2> QED
    BY <1>1, <2>1
<1>11. ASSUME NEW s \in Stage, PatchOverrides(s) PROVE QueuedFromRest'
  <2>1. \/ Mutation("patch_overrides", RunState, "run/resumed", TRUE)
        \/ Mutation("patch_overrides", RunState, "run/config-updated", FALSE)
    BY <1>11 DEF PatchOverrides
  <2>2. state \notin Live
    BY <2>1 DEF Mutation, AllowedStates, PausedStates, Live
  <2> QED
    BY <1>1, <2>1, <2>2
<1> QED
  BY <1>2, <1>3, <1>4, <1>5, <1>6, <1>7, <1>9, <1>10, <1>11 DEF Operator

(* What an orchestrator may do to the run and to the outbox. *)
LEMMA OrchestrateOnRun ==
  ASSUME NEW e \in Epochs, Orchestrate(e)
  PROVE  \/ UNCHANGED <<state, outbox>>
         \/ /\ epoch = e
            /\ state \in {"RUNNING", "PAUSING"}
            /\ state' \in {"PAUSED_MANUAL"} \cup
                 (IF state = "RUNNING" THEN PausedStates \cup {"FAILED", "IDLE", "COMPLETED"} ELSE {})
            /\ \A w \in outbox' \ outbox : w.source \in {"PAUSED_QUOTA", "PAUSED_APPROVAL"}
<1>1. CASE Load(e) \/ Admit(e) \/ \E s \in Stage : Skip(e, s) \/ InvokeStage(e, s) \/ Collect(e, s)
  BY <1>1 DEF Load, Admit, Skip, InvokeStage, Collect, runRow, mail
<1>2. CASE \E target \in {"PAUSED_MANUAL", "PAUSED_BUDGET", "FAILED", "IDLE", "COMPLETED"} :
             Transition(e, target)
  BY <1>2 DEF Transition, PausedStates
<1>3. CASE PauseForQuota(e)
  BY <1>3 DEF PauseForQuota, PausedStates
<1>4. CASE ParkOnWaits(e)
  BY <1>4 DEF ParkOnWaits, PausedStateFor, Transition, PausedStates
<1> QED
  BY <1>1, <1>2, <1>3, <1>4
     DEF Orchestrate, Halt, FinishBudget, FinishQuota, FinishFailed, FinishWaits,
         FinishIdle, FinishCompleted

LEMMA QueuedFromRestNext ==
  TypeOK /\ QueuedFromRest /\ [Next]_vars => QueuedFromRest'
<1> SUFFICES ASSUME TypeOK, QueuedFromRest, [Next]_vars PROVE QueuedFromRest'
  OBVIOUS
<1>1. CASE UNCHANGED outbox
  BY <1>1 DEF QueuedFromRest
<1>2. CASE Operator
  BY <1>2, OperatorQueuesFromRest
<1>3. CASE Delivery \/ Reconcile \/ UNCHANGED vars
  BY <1>1, <1>3 DEF Delivery, Dispatch, Claim, ClaimThenRestart, IgnoreWakeup, KillEpoch,
     ReconcileOnEvent, Reconcile, vars, mail
<1>4. ASSUME NEW e \in Epochs, Orchestrate(e) PROVE QueuedFromRest'
  BY <1>1, <1>4, OrchestrateOnRun DEF QueuedFromRest, Live
<1>5. ASSUME NEW e \in Epochs, NEW s \in Stage, Execute(e, s) PROVE QueuedFromRest'
  BY <1>1, <1>5 DEF Execute, BeginAttempt, JudgeHeld, AdmitInput, NotAdmitted, AwaitHumanInput,
     Finalize, HoldForQc, FailStage, StopStage, CrashStage, mail
<1> QED
  BY <1>2, <1>3, <1>4, <1>5 DEF Next, Engine

LEMMA QueuedFromRestAlways == Spec => []QueuedFromRest
<1>1. Init => QueuedFromRest
  BY DEF Init, QueuedFromRest
<1> QED
  BY <1>1, QueuedFromRestNext, TypeCorrect, PTL DEF Spec

LEMMA ExecuteOnRun ==
  ASSUME NEW e \in Epochs, NEW s \in Stage, Execute(e, s)
  PROVE  UNCHANGED <<runRow, mail, orch>>
  BY DEF Execute, BeginAttempt, JudgeHeld, AdmitInput, NotAdmitted, AwaitHumanInput,
     Finalize, HoldForQc, FailStage, StopStage, CrashStage

(* A pause that was asked for ends in PAUSED_MANUAL unless the run is       *)
(* cancelled: no other ending of the orchestrator and no claim overtakes it.*)
THEOREM PauseKept == Spec => PauseIsKept
<1>1. ASSUME TypeOK, QueuedFromRest, [Next]_vars, state = "PAUSING"
      PROVE  state' \in {"PAUSING", "PAUSED_MANUAL", "CANCELLING"}
  <2> USE <1>1
  <2>1. CASE Operator
    <3>1. CASE Cancel
      BY <3>1 DEF Cancel
    <3>2. CASE UNCHANGED state
      BY <3>2
    <3>3. ASSUME NEW action \in {"approve", "reject", "submit_input", "retry_qc"}, Answer(action)
          PROVE  FALSE
      BY <3>3 DEF Answer, Mutation, AllowedStates, AnswerStates, ParkedOnWait
    <3>4. ~Pause
      BY DEF Pause, Mutation, AllowedStates
    <3> QED
      BY <2>1, <3>1, <3>2, <3>3, <3>4
         DEF Operator, Start, Resume, Plan, UpdateExecutionSettings, Approve, SubmitInput,
             RetryQc, Retry, PatchOverrides, Reject
  <2>2. CASE Delivery
    <3>1. ASSUME NEW w \in outbox, Claim(w) \/ ClaimThenRestart(w) PROVE FALSE
      BY <3>1 DEF Claim, ClaimThenRestart, Delivered, Claimable, QueuedFromRest, Live
    <3> QED
      BY <2>2, <3>1 DEF Delivery, Dispatch, IgnoreWakeup, KillEpoch, ReconcileOnEvent,
         Reconcile, runRow
  <2>3. CASE Reconcile \/ UNCHANGED vars
    BY <2>3 DEF Reconcile, vars, runRow
  <2>4. CASE Engine
    BY <2>4, OrchestrateOnRun, ExecuteOnRun DEF Engine, runRow
  <2> QED
    BY <2>1, <2>2, <2>3, <2>4 DEF Next
<1> QED
  BY <1>1, TypeCorrect, QueuedFromRestAlways, PTL DEF Spec, PauseIsKept

-----------------------------------------------------------------------------
(* Cancellation and retired executions. *)

(* Reconciliation settles every running stage, and nothing that is left of  *)
(* the cancelled execution, nor an answer given since, starts one again.    *)
THEOREM CancelledSettled == Spec => []CancelledIsSettled
<1>1. Init => CancelledIsSettled
  BY DEF Init, CancelledIsSettled
<1>2. TypeOK /\ CancelledIsSettled /\ [Next]_vars => CancelledIsSettled'
  <2> SUFFICES ASSUME TypeOK, CancelledIsSettled, [Next]_vars, state' = "CANCELLED"
               PROVE  \A s \in Stage : exec'[s] # "running"
    BY DEF CancelledIsSettled
  <2>1. CASE Reconcile
    BY <2>1 DEF Reconcile, TypeOK
  <2>2. CASE state = "CANCELLED" /\ UNCHANGED exec
    BY <2>2 DEF CancelledIsSettled
  <2>3. CASE Operator
    <3>1. ASSUME NEW action, Answer(action) PROVE state = "CANCELLED"
      BY <3>1 DEF Answer, PausedStateFor
    <3>2. state = "CANCELLED"
      BY <2>3, <3>1 DEF Operator, Start, Pause, Resume, Cancel, Plan, UpdateExecutionSettings,
         Approve, SubmitInput, RetryQc, Retry, PatchOverrides, Reject
    <3>3. \A s \in Stage : exec'[s] \in {exec[s], "passed", "stale", "pending"}
      BY <2>3, <3>2 DEF Operator, Start, Pause, Resume, Cancel, Plan, UpdateExecutionSettings,
         Approve, SubmitInput, RetryQc, Retry, PatchOverrides, Reject, Invalidate, work,
         ParkedOnWait, TypeOK
    <3> QED
      BY <3>2, <3>3 DEF CancelledIsSettled
  <2>4. CASE Delivery
    BY <2>1, <2>2, <2>4 DEF Delivery, Dispatch, Claim, ClaimThenRestart, IgnoreWakeup, KillEpoch,
       ReconcileOnEvent, runRow, work
  <2>5. ASSUME NEW e \in Epochs, Orchestrate(e)
        PROVE  \A s \in Stage : exec'[s] # "running"
    <3>1. state = "CANCELLED"
      BY <2>5, OrchestrateOnRun DEF PausedStates
    <3>2. UNCHANGED exec
      BY <2>5, <3>1 DEF Orchestrate, Load, Admit, Skip, InvokeStage, Collect, Halt, End,
         FinishBudget, FinishQuota, FinishFailed, FinishWaits, FinishIdle, FinishCompleted,
         Finishing, work
    <3> QED
      BY <2>2, <3>1, <3>2
  <2>6. ASSUME NEW e \in Epochs, NEW s \in Stage, Execute(e, s)
        PROVE  \A x \in Stage : exec'[x] # "running"
    <3>1. state = "CANCELLED"
      BY <2>6, ExecuteOnRun DEF runRow
    <3>2. UNCHANGED exec
      BY <2>6, <3>1 DEF Execute, BeginAttempt, JudgeHeld, AdmitInput, NotAdmitted,
         AwaitHumanInput, Finalize, HoldForQc, FailStage, StopStage, CrashStage, Current, work
    <3> QED
      BY <2>2, <3>1, <3>2
  <2> QED
    BY <2>1, <2>2, <2>3, <2>4, <2>5, <2>6 DEF Next, Engine, vars, runRow, work
<1> QED
  BY <1>1, <1>2, TypeCorrect, PTL DEF Spec

(* Functions of an execution the run has left still run to their end, but   *)
(* none of their steps reaches the run, its stages or its waits.            *)
THEOREM RetiredSilent == Spec => RetiredWritesNothing
<1>1. ASSUME TypeOK, [Next]_vars, NEW e \in Epochs, e # epoch,
             <<orch'[e], inv'[e]>> # <<orch[e], inv[e]>>
      PROVE  UNCHANGED <<state, exec, wait>>
  <2> USE <1>1
  <2>1. ~Operator
    BY DEF Operator, Start, Pause, Resume, Cancel, Plan, UpdateExecutionSettings,
       Approve, SubmitInput, RetryQc, Retry, PatchOverrides, Reject, Answer, Mutation, engine
  <2>2. CASE Delivery
    BY <2>2 DEF Delivery, Dispatch, Claim, ClaimThenRestart, IgnoreWakeup, KillEpoch,
       ReconcileOnEvent, Reconcile, Claimable, TypeOK, Wakeup, engine, runRow, work
  <2>3. ~Reconcile /\ ~UNCHANGED vars
    BY DEF Reconcile, vars, engine
  <2>4. ASSUME NEW x \in Epochs, Orchestrate(x) PROVE UNCHANGED <<state, exec, wait>>
    <3>1. x = e
      BY <2>4 DEF Orchestrate, Load, Admit, Skip, InvokeStage, Collect, Halt, End, Step,
         FinishBudget, FinishQuota, FinishFailed, FinishWaits, FinishIdle, FinishCompleted,
         Finishing, TypeOK
    <3>2. UNCHANGED state
      BY <2>4, <3>1, OrchestrateOnRun
    <3>3. UNCHANGED <<exec, wait>>
      BY <2>4, <3>1 DEF Orchestrate, Load, Admit, Skip, InvokeStage, Collect, Halt, End,
         FinishBudget, FinishQuota, FinishFailed, FinishWaits, FinishIdle, FinishCompleted,
         Finishing, work
    <3> QED
      BY <3>2, <3>3
  <2>5. ASSUME NEW x \in Epochs, NEW s \in Stage, Execute(x, s) PROVE UNCHANGED <<state, exec, wait>>
    <3>1. UNCHANGED <<state, orch>>
      BY <2>5, ExecuteOnRun DEF runRow
    <3>2. x = e
      BY <2>5, <3>1 DEF Execute, BeginAttempt, JudgeHeld, AdmitInput, NotAdmitted,
         AwaitHumanInput, Finalize, OpenGate, HoldForQc, FailStage, StopStage, CrashStage,
         Return, TypeOK
    <3>3. UNCHANGED <<exec, wait>>
      BY <2>5, <3>2 DEF Execute, BeginAttempt, JudgeHeld, AdmitInput, NotAdmitted,
         AwaitHumanInput, Finalize, HoldForQc, FailStage, StopStage, CrashStage, Current, work
    <3> QED
      BY <3>1, <3>3
  <2> QED
    BY <2>1, <2>2, <2>3, <2>4, <2>5 DEF Next, Engine
<1>2. TypeOK /\ [Next]_vars =>
        \A e \in Epochs :
          e # epoch /\ <<orch'[e], inv'[e]>> # <<orch[e], inv[e]>>
            => UNCHANGED <<state, exec, wait>>
  BY <1>1
<1> QED
  BY <1>2, TypeCorrect, PTL DEF Spec, RetiredWritesNothing
-----------------------------------------------------------------------------
(* What an orchestrator's copy of the rows holds.                            *)

Working  == {"RUNNING", "PAUSING"}
Awaiting == {"awaiting_approval", "awaiting_input"}
Ended    == [NoOrchestrator EXCEPT !.pc = "ended"]

(* The recursion of planWave unfolds, whether or not the graph has a cycle:  *)
(* a stage is done when it is in a set of settled stages that is closed      *)
(* under dependencies.                                                       *)
LEMMA DoneUnfolds ==
  ASSUME NEW o, NEW s \in Stage
  PROVE  IsDone(o)[s] = (s \in o.done /\ \A d \in Deps[s] : IsDone(o)[d])
<1> DEFINE Closed(X) == X \subseteq o.done /\ \A x \in X : Deps[x] \subseteq X
           InClosed  == [x \in Stage |-> \E X \in SUBSET Stage : x \in X /\ Closed(X)]
           Unfolding(f) == [x \in Stage |-> x \in o.done /\ \A d \in Deps[x] : f[d]]
<1>1. \A x \in Stage : InClosed[x] <=> Unfolding(InClosed)[x]
  <2> TAKE x \in Stage
  <2>1. ASSUME NEW X \in SUBSET Stage, x \in X, Closed(X)
        PROVE  x \in o.done /\ \A d \in Deps[x] : InClosed[d]
    BY <2>1, StagesAssumption
  <2>2. ASSUME x \in o.done, \A d \in Deps[x] : InClosed[d]
        PROVE  \E X \in SUBSET Stage : x \in X /\ Closed(X)
    <3> DEFINE Y == {x} \cup {y \in Stage : InClosed[y]}
    <3>1. \A y \in Stage : InClosed[y] => y \in o.done /\ \A d \in Deps[y] : InClosed[d]
      BY StagesAssumption
    <3>2. Y \subseteq o.done
      BY <2>2, <3>1
    <3>3. \A y \in Y : Deps[y] \subseteq Y
      <4> HIDE DEF InClosed
      <4> QED
        BY <2>2, <3>1, StagesAssumption
    <3>4. Y \in SUBSET Stage /\ x \in Y
      OBVIOUS
    <3> HIDE DEF Y
    <3> QED
      BY <3>2, <3>3, <3>4
  <2> QED
    BY <2>1, <2>2
<1>2. InClosed = Unfolding(InClosed)
  <2>1. \A x \in Stage : InClosed[x] \in BOOLEAN /\ Unfolding(InClosed)[x] \in BOOLEAN
    OBVIOUS
  <2>2. \A x \in Stage : InClosed[x] = Unfolding(InClosed)[x]
    BY <1>1, <2>1
  <2>3. InClosed = [x \in Stage |-> InClosed[x]]
    OBVIOUS
  <2>4. Unfolding(InClosed) = [x \in Stage |-> Unfolding(InClosed)[x]]
    OBVIOUS
  <2> HIDE DEF InClosed, Unfolding
  <2> QED
    BY <2>2, <2>3, <2>4
<1>3. IsDone(o) = Unfolding(IsDone(o))
  <2>1. IsDone(o) = CHOOSE f : f = Unfolding(f)
    BY DEF IsDone
  <2> HIDE DEF InClosed, Unfolding
  <2> QED
    BY <1>2, <2>1
<1> QED
  BY <1>3

LEMMA ReadyIsDrawn ==
  ASSUME NEW o, NEW s \in Ready(o)
  PROVE  /\ s \in Stage
         /\ s \notin o.done \cup o.waiting \cup o.spent
         /\ Deps[s] \subseteq o.done
<1>1. s \in Stage /\ ~IsDone(o)[s] /\ \A d \in Deps[s] : IsDone(o)[d]
  BY DEF Ready
<1>2. s \notin o.done
  BY <1>1, DoneUnfolds
<1>3. \A d \in Deps[s] : d \in o.done
  BY <1>1, DoneUnfolds, StagesAssumption
<1> QED
  BY <1>1, <1>2, <1>3 DEF Ready

LEMMA AllDoneAreDone ==
  ASSUME NEW o, AllDone(o)
  PROVE  Stage \subseteq o.done
BY DoneUnfolds DEF AllDone

(* What an orchestrator holds while its stages run: it starts a stage only   *)
(* when the stages before it are done, and collects what it started before   *)
(* it ends.                                                                  *)
Drawn(o) ==
  /\ o.pc \in {"none", "load"} => o = [NoOrchestrator EXCEPT !.pc = o.pc]
  /\ o.pc # "schedule" => o.todo = {}
  /\ o.pc \in {"halt", "finish"} => o.active = {}
  /\ o.active \subseteq o.spent
  /\ o.active \cap o.done = {}
  /\ o.todo \cap (o.done \cup o.waiting \cup o.spent) = {}
  /\ \A s \in o.todo \cup o.active : Deps[s] \subseteq o.done

(* Who works for a run: the orchestrator of its epoch, from the claim on, and *)
(* the invocations that orchestrator has not collected; a run at rest has     *)
(* neither, and a cancellation only kills what the run has left.              *)
CopiesDrawn   == \A e \in Epochs : Drawn(orch[e])
CallsActive   == \A e \in Epochs : \A s \in Stage : inv[e][s] # "none" => s \in orch[e].active
NoneAhead     == \A e \in Epochs : e > epoch => orch[e].pc = "none"
RestIsFree    == state \notin Working => orch[epoch] \in {NoOrchestrator, Ended}
CancelsBehind == \A w \in outbox : w.event = "run/cancelled" => w.epoch < epoch
EngineInv ==
  CopiesDrawn /\ CallsActive /\ NoneAhead /\ RestIsFree /\ CancelsBehind

LEMMA NoOrchestratorDrawn ==
  \A pc \in {"none", "load", "ended"} : Drawn([NoOrchestrator EXCEPT !.pc = pc])
BY DEF Drawn, NoOrchestrator

LEMMA ScheduledDrawn ==
  ASSUME NEW o \in Orchestrator, o.pc = "schedule", Drawn(o)
  PROVE  Drawn(Scheduled(o)) /\ Scheduled(o).pc \in {"schedule", "collect", "admit", "finish"}
         /\ Scheduled(o).active = o.active
<1>1. CASE Scheduled(o) = o
  BY <1>1
<1>2. CASE o.active # {} /\ Scheduled(o) = [o EXCEPT !.todo = {}, !.pc = "collect"]
  BY <1>2 DEF Drawn, Orchestrator
<1>3. CASE o.active = {} /\ Scheduled(o) = [o EXCEPT !.todo = {}, !.pc = Idle(o)]
  BY <1>3 DEF Drawn, Orchestrator, Idle
<1> QED
  BY <1>1, <1>2, <1>3 DEF Scheduled

LEMMA RestHasNoCalls ==
  ASSUME TypeOK, EngineInv, state \notin Working, NEW s \in Stage
  PROVE  inv[epoch][s] = "none"
BY DEF EngineInv, CallsActive, RestIsFree, NoOrchestrator, Ended, TypeOK

LEMMA AheadIsFree ==
  ASSUME TypeOK, EngineInv, NEW e \in Epochs, e > epoch
  PROVE  orch[e] = NoOrchestrator /\ \A s \in Stage : inv[e][s] = "none"
<1>1. Drawn(orch[e]) /\ orch[e].pc = "none"
  BY DEF EngineInv, CopiesDrawn, NoneAhead
<1>2. orch[e] = NoOrchestrator
  BY <1>1 DEF Drawn, NoOrchestrator
<1> QED
  BY <1>2 DEF EngineInv, CallsActive, NoOrchestrator

(* An operator's transaction does not touch whoever works for the run: it    *)
(* opens an epoch nobody works for yet, or changes neither epoch nor         *)
(* whether the run is at work.                                               *)
LeavesWorkers ==
  /\ UNCHANGED engine
  /\ epoch' \in {epoch, epoch + 1}
  /\ epoch' = epoch => (state' \in Working <=> state \in Working)
  /\ state' \in Working => epoch' = epoch
  /\ \A w \in outbox' \ outbox : w.event = "run/cancelled" => w.epoch < epoch'

LEMMA OperatorOnRun ==
  ASSUME TypeOK, Operator
  PROVE  LeavesWorkers
<1> USE DEF Working
<1>1. ASSUME NEW action, NEW allowed, NEW event, NEW wakes,
             event # "run/cancelled", Mutation(action, allowed, event, wakes),
             state \notin Working, state' \notin Working
      PROVE  LeavesWorkers
  BY <1>1 DEF Mutation, NextEpoch, Wake, LeavesWorkers
<1>2. CASE Start
  BY <1>1, <1>2 DEF Start, Mutation, AllowedStates
<1>3. CASE Pause
  BY <1>3 DEF Pause, Mutation, AllowedStates, NextEpoch, LeavesWorkers
<1>4. CASE Resume
  BY <1>1, <1>4 DEF Resume, Mutation, AllowedStates
<1>5. CASE Cancel
  BY <1>5 DEF Cancel, Wake, TypeOK, Epochs, LeavesWorkers
<1>6. CASE Plan
  <2>1. PICK action \in {"retry", "continue"} : Mutation(action, RunState, "run/resumed", TRUE)
    BY <1>6 DEF Plan
  <2>2. state \notin Working
    BY <2>1 DEF Mutation, AllowedStates, PausedStates
  <2> QED
    BY <1>1, <1>6, <2>1, <2>2 DEF Plan
<1>7. CASE UpdateExecutionSettings
  BY <1>1, <1>7 DEF UpdateExecutionSettings, Mutation, AllowedStates, PausedStates
<1>8. ASSUME NEW action \in {"approve", "reject", "retry_qc", "submit_input"}, Answer(action)
      PROVE  LeavesWorkers
  <2>1. Mutation(action, RunState, "run/resumed", Wakes(wait'))
    BY <1>8 DEF Answer
  <2>2. CASE state = "RUNNING"
    BY <1>8, <2>1, <2>2 DEF Answer, Mutation, NextEpoch, Wake, ParkedOnWait, LeavesWorkers
  <2>3. CASE state # "RUNNING"
    <3>1. state \notin Working
      BY <2>1, <2>3 DEF Mutation, AllowedStates, AnswerStates, ParkedOnWait
    <3>2. state' \notin Working
      BY <1>8, <3>1 DEF Answer, PausedStateFor
    <3> QED
      BY <1>1, <2>1, <3>1, <3>2
  <2> QED
    BY <2>2, <2>3
<1>9. ASSUME NEW s \in Stage,
             \/ Approve(s) \/ SubmitInput(s) \/ RetryQc(s)
             \/ \E target \in Stage : Reject(s, target)
      PROVE  LeavesWorkers
  BY <1>8, <1>9 DEF Approve, SubmitInput, RetryQc, Reject
<1>10. ASSUME NEW s \in Stage, Retry(s) PROVE LeavesWorkers
  BY <1>1, <1>10 DEF Retry, Mutation, PausedStates
<1>11. ASSUME NEW s \in Stage, PatchOverrides(s) PROVE LeavesWorkers
  <2>1. \/ Mutation("patch_overrides", RunState, "run/resumed", TRUE)
        \/ Mutation("patch_overrides", RunState, "run/config-updated", FALSE)
    BY <1>11 DEF PatchOverrides
  <2>2. state \notin Working /\ state' \notin Working
    BY <1>11, <2>1 DEF PatchOverrides, Mutation, AllowedStates, PausedStates
  <2>3. CASE Mutation("patch_overrides", RunState, "run/resumed", TRUE)
    BY <1>1, <2>2, <2>3
  <2>4. CASE Mutation("patch_overrides", RunState, "run/config-updated", FALSE)
    BY <1>1, <2>2, <2>4
  <2> QED
    BY <2>1, <2>3, <2>4
<1> QED
  BY <1>2, <1>3, <1>4, <1>5, <1>6, <1>7, <1>9, <1>10, <1>11 DEF Operator

LEMMA OperatorKeepsEngineInv ==
  ASSUME TypeOK, TypeOK', EngineInv, Operator
  PROVE  EngineInv'
<1>1. epoch \in Int /\ epoch' \in Int
  BY BoundsAssumption DEF TypeOK, Epochs
<1>2. CopiesDrawn' /\ CallsActive'
  BY OperatorOnRun DEF LeavesWorkers, EngineInv, CopiesDrawn, CallsActive, engine
<1>3. NoneAhead'
  BY <1>1, OperatorOnRun DEF LeavesWorkers, EngineInv, NoneAhead, engine, Epochs
<1>4. RestIsFree'
  <2>1. CASE epoch' = epoch
    BY <2>1, OperatorOnRun DEF LeavesWorkers, EngineInv, RestIsFree, engine
  <2>2. CASE epoch' = epoch + 1
    BY <1>1, <2>2, OperatorOnRun, AheadIsFree DEF LeavesWorkers, RestIsFree, engine, TypeOK
  <2> QED
    BY <2>1, <2>2, OperatorOnRun DEF LeavesWorkers
<1>5. CancelsBehind'
  BY <1>1, OperatorOnRun DEF LeavesWorkers, EngineInv, CancelsBehind, TypeOK, Wakeup, Epochs
<1> QED
  BY <1>2, <1>3, <1>4, <1>5 DEF EngineInv

LEMMA DeliveryKeepsEngineInv ==
  ASSUME TypeOK, TypeOK', QueuedFromRest, EngineInv, Delivery \/ Reconcile
  PROVE  EngineInv'
<1>1. CASE UNCHANGED <<epoch, outbox, engine>> /\ (state' = state \/ state' = "RUNNING" \/ state = "CANCELLING")
  BY <1>1 DEF EngineInv, CopiesDrawn, CallsActive, NoneAhead, RestIsFree, CancelsBehind, engine, Working
<1>2. ASSUME NEW w \in outbox, Claim(w) PROVE EngineInv'
  <2>1. w.epoch = epoch /\ epoch \in Epochs /\ state \notin Working
    BY <1>2 DEF Claim, Delivered, Claimable, QueuedFromRest, TypeOK, Working, Live
  <2>2. \A s \in Stage : inv[epoch][s] = "none"
    BY <2>1, RestHasNoCalls
  <2>3. /\ orch' = [orch EXCEPT ![epoch] = [NoOrchestrator EXCEPT !.pc = "load"]]
        /\ state' = "RUNNING" /\ UNCHANGED <<epoch, inv, outbox>>
    BY <1>2, <2>1 DEF Claim
  <2>4. CopiesDrawn'
    BY <2>1, <2>3, NoOrchestratorDrawn DEF EngineInv, CopiesDrawn, TypeOK
  <2>5. CallsActive'
    BY <2>1, <2>2, <2>3 DEF EngineInv, CallsActive, TypeOK
  <2>6. NoneAhead'
    BY <2>1, <2>3, BoundsAssumption DEF EngineInv, NoneAhead, TypeOK, Epochs
  <2>7. RestIsFree' /\ CancelsBehind'
    BY <2>3 DEF EngineInv, RestIsFree, CancelsBehind, Working
  <2> QED
    BY <2>4, <2>5, <2>6, <2>7 DEF EngineInv
<1>3. ASSUME NEW w \in outbox, KillEpoch(w) PROVE EngineInv'
  <2>1. w.epoch \in Epochs /\ w.epoch < epoch /\ epoch \in Int
    BY <1>3, BoundsAssumption DEF KillEpoch, EngineInv, CancelsBehind, TypeOK, Wakeup, Epochs
  <2>2. /\ orch' = [orch EXCEPT ![w.epoch] = Ended]
        /\ inv' = [inv EXCEPT ![w.epoch] = [s \in Stage |-> "none"]]
        /\ UNCHANGED <<state, epoch, outbox>>
    BY <1>3 DEF KillEpoch, runRow, mail, Ended
  <2>3. CopiesDrawn'
    BY <2>1, <2>2, NoOrchestratorDrawn DEF EngineInv, CopiesDrawn, TypeOK, Ended
  <2>4. CallsActive'
    BY <2>1, <2>2 DEF EngineInv, CallsActive, TypeOK
  <2>5. NoneAhead'
    BY <2>1, <2>2 DEF EngineInv, NoneAhead, TypeOK, Epochs
  <2>6. RestIsFree' /\ CancelsBehind'
    BY <2>1, <2>2 DEF EngineInv, RestIsFree, CancelsBehind, TypeOK
  <2> QED
    BY <2>3, <2>4, <2>5, <2>6 DEF EngineInv
<1>4. CASE Reconcile
  BY <1>1, <1>4 DEF Reconcile, mail
<1>5. ASSUME NEW w \in outbox, Dispatch(w) \/ ClaimThenRestart(w) \/ IgnoreWakeup(w) \/ ReconcileOnEvent(w)
      PROVE  EngineInv'
  BY <1>1, <1>4, <1>5 DEF Dispatch, ClaimThenRestart, IgnoreWakeup, ReconcileOnEvent, runRow
<1> QED
  BY <1>2, <1>3, <1>4, <1>5 DEF Delivery

(* A step of an orchestrator replaces its copy, and the invocations that are  *)
(* not collected yet are among those the copy knows.                         *)
CopyOf(e, o) ==
  /\ orch' = [orch EXCEPT ![e] = o]
  /\ Drawn(o)
  /\ o.pc # "none"
  /\ \A x \in Epochs : x # e => inv'[x] = inv[x]
  /\ \A s \in Stage : inv'[e][s] # "none" => s \in o.active

LEMMA CopyKept ==
  ASSUME TypeOK, EngineInv, NEW e \in Epochs, NEW o, Step(e, o), Drawn(o), o.pc # "none",
         orch[e].active \subseteq o.active, UNCHANGED inv
  PROVE  CopyOf(e, o)
BY DEF CopyOf, Step, EngineInv, CallsActive

LEMMA EndedCopy ==
  ASSUME TypeOK, EngineInv, NEW e \in Epochs, End(e), orch[e].pc \in {"halt", "finish"}
  PROVE  CopyOf(e, Ended)
<1>1. orch[e].active = {}
  BY DEF EngineInv, CopiesDrawn, Drawn
<1>2. Step(e, Ended) /\ UNCHANGED inv
  BY DEF End, Ended
<1>3. Drawn(Ended) /\ Ended.pc # "none"
  BY NoOrchestratorDrawn DEF Ended, NoOrchestrator
<1> QED
  BY <1>1, <1>2, <1>3, CopyKept

LEMMA LoadCopy ==
  ASSUME TypeOK, EngineInv, NEW e \in Epochs, Load(e)
  PROVE  CopyOf(e, orch'[e])
<1>1. orch[e] \in Orchestrator /\ orch[e] = [NoOrchestrator EXCEPT !.pc = "load"]
  BY DEF Load, TypeOK, EngineInv, CopiesDrawn, Drawn
<1> DEFINE o == IF epoch # e THEN [orch[e] EXCEPT !.pc = "ended"]
                ELSE [orch[e] EXCEPT
                        !.pc = "admit",
                        !.scope = scope,
                        !.done = {s \in Stage : exec[s] \in {"passed", "skipped"}},
                        !.waiting = LiveWaits(exec, wait)]
<1>2. Step(e, o) /\ UNCHANGED inv
  BY DEF Load
<1>3. Drawn(o) /\ o.pc # "none" /\ o.active = orch[e].active
  <2>1. /\ o.pc \in {"ended", "admit"}
        /\ o.active = {} /\ o.todo = {} /\ o.spent = {}
    BY <1>1 DEF NoOrchestrator
  <2> HIDE DEF o
  <2> QED
    BY <1>1, <2>1 DEF Drawn, NoOrchestrator
<1> HIDE DEF o
<1>4. o = orch'[e]
  BY <1>2 DEF Step, TypeOK
<1> QED
  BY <1>2, <1>3, <1>4, CopyKept

LEMMA AdmitCopy ==
  ASSUME TypeOK, EngineInv, NEW e \in Epochs, Admit(e)
  PROVE  CopyOf(e, orch'[e])
<1> DEFINE pc == AdmissionOf(e, orch[e])
           o  == [orch[e] EXCEPT !.pc = pc,
                    !.todo = IF pc = "schedule" THEN Ready(orch[e]) \cap orch[e].scope ELSE {}]
<1>1. orch[e] \in Orchestrator /\ Drawn(orch[e]) /\ orch[e].pc = "admit"
  BY DEF Admit, TypeOK, EngineInv, CopiesDrawn
<1>2. pc \in {"ended", "schedule", "collect", "halt", "finish"}
      /\ (pc \in {"halt", "finish"} => orch[e].active = {})
  BY DEF AdmissionOf, Drained
<1>3. \A s \in Ready(orch[e]) : /\ s \notin orch[e].done \cup orch[e].waiting \cup orch[e].spent
                                /\ Deps[s] \subseteq orch[e].done
  BY ReadyIsDrawn
<1>4. Step(e, o) /\ UNCHANGED inv
  BY DEF Admit
<1> HIDE DEF pc
<1>5. Drawn(o) /\ o.pc # "none" /\ o.active = orch[e].active
  BY <1>1, <1>2, <1>3 DEF Drawn, Orchestrator
<1>6. o = orch'[e]
  BY <1>4 DEF Step, TypeOK
<1> HIDE DEF o
<1> QED
  BY <1>4, <1>5, <1>6, CopyKept

LEMMA SkipCopy ==
  ASSUME TypeOK, EngineInv, NEW e \in Epochs, NEW s \in Stage, Skip(e, s)
  PROVE  CopyOf(e, orch'[e])
<1> DEFINE o == [orch[e] EXCEPT !.todo = @ \ {s}, !.done = @ \cup {s}]
<1>1. orch[e] \in Orchestrator /\ Drawn(orch[e]) /\ orch[e].pc = "schedule" /\ s \in orch[e].todo
  BY DEF Skip, TypeOK, EngineInv, CopiesDrawn
<1>2. o \in Orchestrator /\ o.pc = "schedule" /\ Drawn(o) /\ o.active = orch[e].active
  <2>1. o \in Orchestrator
    BY <1>1 DEF Orchestrator
  <2>2. /\ o.pc = orch[e].pc /\ o.active = orch[e].active /\ o.spent = orch[e].spent
        /\ o.waiting = orch[e].waiting
        /\ o.todo = orch[e].todo \ {s} /\ o.done = orch[e].done \cup {s}
    BY <1>1 DEF Orchestrator
  <2>3. s \notin orch[e].active
    BY <1>1 DEF Drawn
  <2> HIDE DEF o
  <2> QED
    BY <1>1, <2>1, <2>2, <2>3 DEF Drawn
<1>3. Step(e, Scheduled(o)) /\ UNCHANGED inv
  BY DEF Skip
<1> HIDE DEF o
<1>4. Scheduled(o) = orch'[e]
  BY <1>3 DEF Step, TypeOK
<1>5. Drawn(Scheduled(o)) /\ Scheduled(o).pc # "none" /\ Scheduled(o).active = orch[e].active
  BY <1>2, ScheduledDrawn
<1> QED
  BY <1>3, <1>4, <1>5, CopyKept

LEMMA InvokeStageCopy ==
  ASSUME TypeOK, EngineInv, NEW e \in Epochs, NEW s \in Stage, InvokeStage(e, s)
  PROVE  CopyOf(e, orch'[e]) /\ s \in orch'[e].active
<1> DEFINE o == [orch[e] EXCEPT !.todo = @ \ {s}, !.spent = @ \cup {s}, !.active = @ \cup {s}]
<1>1. orch[e] \in Orchestrator /\ Drawn(orch[e]) /\ orch[e].pc = "schedule" /\ s \in orch[e].todo
  BY DEF InvokeStage, TypeOK, EngineInv, CopiesDrawn
<1>2. o \in Orchestrator /\ o.pc = "schedule" /\ Drawn(o) /\ o.active = orch[e].active \cup {s}
  <2>1. o \in Orchestrator
    BY <1>1 DEF Orchestrator
  <2>2. /\ o.pc = orch[e].pc /\ o.done = orch[e].done /\ o.waiting = orch[e].waiting
        /\ o.todo = orch[e].todo \ {s}
        /\ o.spent = orch[e].spent \cup {s} /\ o.active = orch[e].active \cup {s}
    BY <1>1 DEF Orchestrator
  <2> HIDE DEF o
  <2> QED
    BY <1>1, <2>1, <2>2 DEF Drawn
<1>3. Step(e, Scheduled(o)) /\ inv' = [inv EXCEPT ![e][s] = "requested"]
  BY DEF InvokeStage
<1> HIDE DEF o
<1>4. Scheduled(o) = orch'[e]
  BY <1>3 DEF Step, TypeOK
<1>5. Drawn(Scheduled(o)) /\ Scheduled(o).pc # "none" /\ Scheduled(o).active = orch[e].active \cup {s}
  BY <1>2, ScheduledDrawn
<1> QED
  BY <1>3, <1>4, <1>5 DEF CopyOf, Step, EngineInv, CallsActive, TypeOK

LEMMA CollectCopy ==
  ASSUME TypeOK, EngineInv, NEW e \in Epochs, NEW s \in Stage, Collect(e, s)
  PROVE  /\ CopyOf(e, orch'[e])
         /\ orch'[e].active = orch[e].active \ {s}
         /\ orch'[e].pc = "admit"
<1> DEFINE base == [orch[e] EXCEPT !.active = @ \ {s}, !.pc = "admit"]
<1>1. orch[e] \in Orchestrator /\ Drawn(orch[e]) /\ orch[e].pc = "collect" /\ s \in orch[e].active
  BY DEF Collect, TypeOK, EngineInv, CopiesDrawn
<1>2. base \in Orchestrator /\ Drawn(base) /\ base.pc = "admit" /\ base.todo = {}
      /\ base.active = orch[e].active \ {s}
  BY <1>1 DEF Drawn, Orchestrator
<1>3. PICK o : /\ Step(e, o)
               /\ o \in {[base EXCEPT !.done = @ \cup {s}, !.spent = @ \ {s}],
                         [base EXCEPT !.waiting = @ \cup {s}, !.spent = @ \ {s}],
                         [base EXCEPT !.stopped = "budget"],
                         [base EXCEPT !.stopped = IF @ = "none" THEN "quota" ELSE @],
                         [base EXCEPT !.failed = TRUE],
                         base}
  BY DEF Collect
<1> HIDE DEF base
<1>4. Drawn(o) /\ o.pc = "admit" /\ o.active = orch[e].active \ {s}
  <2>1. /\ o.pc = base.pc /\ o.active = base.active /\ o.todo = base.todo
        /\ base.done \subseteq o.done /\ o.done \subseteq base.done \cup {s}
        /\ base.spent \ {s} \subseteq o.spent
    BY <1>2, <1>3 DEF Orchestrator
  <2> QED
    BY <1>2, <2>1 DEF Drawn
<1>5. o = orch'[e]
  BY <1>3 DEF Step, TypeOK
<1>6. inv' = [inv EXCEPT ![e][s] = "none"]
  BY DEF Collect
<1> QED
  BY <1>3, <1>4, <1>5, <1>6 DEF CopyOf, Step, EngineInv, CallsActive, TypeOK

(* An orchestrator either leaves the run alone, or it is the run's own and    *)
(* ends the run's work with its own end.                                      *)
LEMMA OrchestrateOnWorkers ==
  ASSUME TypeOK, EngineInv, NEW e \in Epochs, Orchestrate(e)
  PROVE  /\ CopyOf(e, orch'[e])
         /\ orch[e].pc \notin {"none", "ended"}
         /\ \/ UNCHANGED <<state, epoch, outbox>>
            \/ /\ epoch = e /\ state' \notin Working /\ epoch' \in {epoch, epoch + 1}
               /\ orch'[e] = Ended
               /\ \A w \in outbox' \ outbox : w.event = "run/resumed"
<1>1. CASE Load(e) \/ Admit(e) \/ \E s \in Stage : Skip(e, s) \/ InvokeStage(e, s) \/ Collect(e, s)
  <2>1. CopyOf(e, orch'[e])
    BY <1>1, LoadCopy, AdmitCopy, SkipCopy, InvokeStageCopy, CollectCopy
  <2>2. CASE Load(e) \/ Admit(e)
    BY <2>1, <2>2 DEF Load, Admit, runRow, mail
  <2>3. ASSUME NEW s \in Stage, Skip(e, s) \/ InvokeStage(e, s)
        PROVE  orch[e].pc = "schedule" /\ UNCHANGED <<state, epoch, outbox>>
    BY <2>3 DEF Skip, InvokeStage, runRow, mail
  <2>4. ASSUME NEW s \in Stage, Collect(e, s)
        PROVE  orch[e].pc = "collect" /\ UNCHANGED <<state, epoch, outbox>>
    BY <2>4 DEF Collect, runRow, mail
  <2> QED
    BY <1>1, <2>1, <2>2, <2>3, <2>4
<1>2. ASSUME End(e), orch[e].pc \in {"halt", "finish"},
             \/ UNCHANGED <<state, epoch, outbox>>
             \/ /\ epoch = e /\ state' \notin Working /\ epoch' \in {epoch, epoch + 1}
                /\ \A w \in outbox' \ outbox : w.event = "run/resumed"
      PROVE  /\ CopyOf(e, orch'[e])
             /\ orch[e].pc \notin {"none", "ended"}
             /\ \/ UNCHANGED <<state, epoch, outbox>>
                \/ /\ epoch = e /\ state' \notin Working /\ epoch' \in {epoch, epoch + 1}
                   /\ orch'[e] = Ended
                   /\ \A w \in outbox' \ outbox : w.event = "run/resumed"
  <2>1. CopyOf(e, Ended) /\ orch'[e] = Ended
    BY <1>2, EndedCopy DEF CopyOf, TypeOK
  <2> QED
    BY <1>2, <2>1
<1>3. ASSUME NEW target \in {"PAUSED_MANUAL", "PAUSED_BUDGET", "FAILED", "IDLE", "COMPLETED"},
             Transition(e, target)
      PROVE  \/ UNCHANGED <<state, epoch, outbox>>
             \/ /\ epoch = e /\ state' \notin Working /\ epoch' \in {epoch, epoch + 1}
                /\ \A w \in outbox' \ outbox : w.event = "run/resumed"
  BY <1>3 DEF Transition, Working
<1>4. PauseForQuota(e) \/ ParkOnWaits(e)
        => \/ UNCHANGED <<state, epoch, outbox>>
           \/ /\ epoch = e /\ state' \notin Working /\ epoch' \in {epoch, epoch + 1}
              /\ \A w \in outbox' \ outbox : w.event = "run/resumed"
  BY DEF PauseForQuota, ParkOnWaits, Transition, PausedStateFor, Working
<1>5. CASE Halt(e)
  BY <1>2, <1>3, <1>5 DEF Halt
<1>6. CASE FinishQuota(e) \/ FinishWaits(e)
  BY <1>2, <1>4, <1>6 DEF FinishQuota, FinishWaits, Finishing
<1>7. CASE FinishBudget(e) \/ FinishFailed(e) \/ FinishIdle(e) \/ FinishCompleted(e)
  BY <1>2, <1>3, <1>7 DEF FinishBudget, FinishFailed, FinishIdle, FinishCompleted, Finishing
<1> QED
  BY <1>1, <1>5, <1>6, <1>7 DEF Orchestrate

LEMMA OrchestrateKeepsEngineInv ==
  ASSUME TypeOK, TypeOK', EngineInv, NEW e \in Epochs, Orchestrate(e)
  PROVE  EngineInv'
<1>0. epoch \in Int /\ epoch' \in Int /\ e \in Int
  BY BoundsAssumption DEF TypeOK, Epochs
<1>1. /\ CopyOf(e, orch'[e]) /\ orch[e].pc \notin {"none", "ended"}
      /\ \A x \in Epochs : x # e => orch'[x] = orch[x]
  BY OrchestrateOnWorkers DEF CopyOf, TypeOK
<1>2. e <= epoch
  BY <1>0, <1>1 DEF EngineInv, NoneAhead
<1>3. CopiesDrawn'
  BY <1>1 DEF EngineInv, CopiesDrawn, CopyOf
<1>4. CallsActive'
  BY <1>1 DEF EngineInv, CallsActive, CopyOf
<1>5. CASE UNCHANGED <<state, epoch, outbox>>
  <2>1. NoneAhead'
    BY <1>0, <1>1, <1>2, <1>5 DEF EngineInv, NoneAhead
  <2>2. RestIsFree'
    <3>1. CASE state \in Working
      BY <1>5, <3>1 DEF RestIsFree
    <3>2. CASE state \notin Working
      <4>1. e # epoch
        BY <1>1, <3>2 DEF EngineInv, RestIsFree, NoOrchestrator, Ended
      <4> QED
        BY <1>1, <1>5, <4>1 DEF EngineInv, RestIsFree, TypeOK
    <3> QED
      BY <3>1, <3>2
  <2>3. CancelsBehind'
    BY <1>5 DEF EngineInv, CancelsBehind
  <2> QED
    BY <1>3, <1>4, <2>1, <2>2, <2>3 DEF EngineInv
<1>6. CASE /\ epoch = e /\ epoch' \in {epoch, epoch + 1} /\ orch'[e] = Ended
           /\ \A w \in outbox' \ outbox : w.event = "run/resumed"
  <2>1. NoneAhead'
    <3> SUFFICES ASSUME NEW x \in Epochs, x > epoch' PROVE orch'[x].pc = "none"
      BY DEF NoneAhead
    <3>1. x > epoch /\ x # e
      BY <1>0, <1>6 DEF Epochs
    <3> QED
      BY <1>1, <3>1 DEF EngineInv, NoneAhead
  <2>2. RestIsFree'
    <3>1. CASE epoch' = epoch
      BY <1>6, <3>1 DEF RestIsFree
    <3>2. CASE epoch' = epoch + 1
      <4>1. epoch' \in Epochs /\ epoch' > epoch
        BY <1>0, <3>2 DEF TypeOK
      <4>2. orch'[epoch'] = orch[epoch'] /\ orch[epoch'] = NoOrchestrator
        BY <1>0, <1>1, <1>6, <4>1, AheadIsFree
      <4> QED
        BY <4>2 DEF RestIsFree
    <3> QED
      BY <1>6, <3>1, <3>2
  <2>3. CancelsBehind'
    BY <1>0, <1>6 DEF EngineInv, CancelsBehind, TypeOK, Wakeup, Epochs
  <2> QED
    BY <1>3, <1>4, <2>1, <2>2, <2>3 DEF EngineInv
<1> QED
  BY <1>5, <1>6, OrchestrateOnWorkers

LEMMA ExecuteCalls ==
  ASSUME TypeOK, NEW e \in Epochs, NEW s \in Stage, Execute(e, s)
  PROVE  /\ inv[e][s] \in {"requested", "asking", "working"}
         /\ \E r \in Invocation \ {"none", "requested"} : inv' = [inv EXCEPT ![e][s] = r]
<1>1. inv[e][s] \in {"requested", "asking", "working"}
  BY DEF Execute, BeginAttempt, JudgeHeld, AdmitInput, NotAdmitted, AwaitHumanInput,
     Finalize, HoldForQc, FailStage, StopStage, CrashStage
<1>2. \E r \in Invocation \ {"none", "requested"} : Return(e, s, r)
  BY DEF Execute, BeginAttempt, JudgeHeld, AdmitInput, NotAdmitted, AwaitHumanInput,
     Finalize, OpenGate, HoldForQc, FailStage, StopStage, CrashStage, Invocation
<1> QED
  BY <1>1, <1>2 DEF Return

LEMMA EngineInvNext ==
  ASSUME TypeOK, TypeOK', QueuedFromRest, EngineInv, [Next]_vars
  PROVE  EngineInv'
<1>1. CASE UNCHANGED vars
  BY <1>1 DEF EngineInv, CopiesDrawn, CallsActive, NoneAhead, RestIsFree, CancelsBehind,
     vars, runRow, mail, engine
<1>2. ASSUME NEW e \in Epochs, NEW s \in Stage, Execute(e, s) PROVE EngineInv'
  <2>1. UNCHANGED <<runRow, mail, orch>>
    BY <1>2, ExecuteOnRun
  <2>2. inv[e][s] # "none" /\ \E r : inv' = [inv EXCEPT ![e][s] = r]
    BY <1>2, ExecuteCalls
  <2>3. CallsActive'
    BY <2>1, <2>2 DEF EngineInv, CallsActive, TypeOK
  <2> QED
    BY <2>1, <2>3 DEF EngineInv, CopiesDrawn, NoneAhead, RestIsFree, CancelsBehind, runRow, mail
<1> QED
  BY <1>1, <1>2, OperatorKeepsEngineInv, DeliveryKeepsEngineInv, OrchestrateKeepsEngineInv
  DEF Next, Engine

LEMMA EngineInvInit == Init => EngineInv
<1> SUFFICES ASSUME Init PROVE EngineInv
  OBVIOUS
<1>1. \A e \in Epochs : orch[e] = NoOrchestrator
  BY DEF Init
<1>2. CopiesDrawn
  BY <1>1 DEF CopiesDrawn, Drawn, NoOrchestrator
<1>3. NoneAhead /\ RestIsFree
  BY <1>1, BoundsAssumption DEF Init, NoneAhead, RestIsFree, NoOrchestrator, Epochs
<1> QED
  BY <1>2, <1>3 DEF Init, EngineInv, CallsActive, CancelsBehind

LEMMA EngineInvAlways == Spec => []EngineInv
<1>1. TypeOK /\ TypeOK' /\ QueuedFromRest /\ EngineInv /\ [Next]_vars => EngineInv'
  BY EngineInvNext
<1> QED
  BY <1>1, EngineInvInit, TypeCorrect, QueuedFromRestAlways, PTL DEF Spec

-----------------------------------------------------------------------------
(* A run that works has an orchestrator, unless a restart lost the claim's    *)
(* memo or a pause met the end of a run that was out of quota.                *)

Driven ==
  /\ state \in Working => orch[epoch].pc \notin {"none", "ended"}
  /\ \A e \in Epochs : orch[e].stopped # "quota"
  /\ \A e \in Epochs : \A s \in Stage : inv[e][s] # "deferred"

LEMMA ScheduledDrives ==
  ASSUME NEW o \in Orchestrator, o.pc = "schedule"
  PROVE  Scheduled(o).stopped = o.stopped /\ Scheduled(o).pc \notin {"none", "ended"}
BY DEF Scheduled, Idle, Orchestrator

LEMMA OrchestrateDrives ==
  ASSUME TypeOK, EngineInv, Driven, NEW e \in Epochs, Orchestrate(e)
  PROVE  /\ orch'[e].stopped # "quota"
         /\ epoch = e /\ state \in Working
              => state' \notin Working \/ orch'[e].pc \notin {"none", "ended"}
<1>0. orch[e] \in Orchestrator /\ orch[e].stopped # "quota"
  BY DEF TypeOK, Driven
<1>1. CASE Load(e)
  <2>1. Step(e, IF epoch # e THEN [orch[e] EXCEPT !.pc = "ended"]
                ELSE [orch[e] EXCEPT
                        !.pc = "admit",
                        !.scope = scope,
                        !.done = {s \in Stage : exec[s] \in {"passed", "skipped"}},
                        !.waiting = LiveWaits(exec, wait)])
    BY <1>1 DEF Load
  <2>2. CASE epoch # e
    BY <1>0, <2>1, <2>2 DEF Step, TypeOK, Orchestrator
  <2>3. CASE epoch = e
    BY <1>0, <2>1, <2>3 DEF Step, TypeOK, Orchestrator
  <2> QED
    BY <2>2, <2>3
<1>2. CASE Admit(e)
  BY <1>0, <1>2 DEF Admit, AdmissionOf, Drained, Step, TypeOK, Orchestrator, Working
<1>3. ASSUME NEW s \in Stage, Skip(e, s)
      PROVE  orch'[e].stopped # "quota" /\ orch'[e].pc \notin {"none", "ended"}
  <2> DEFINE o == [orch[e] EXCEPT !.todo = @ \ {s}, !.done = @ \cup {s}]
  <2>1. orch'[e] = Scheduled(o) /\ orch[e].pc = "schedule"
    BY <1>3 DEF Skip, Step, TypeOK
  <2>2. o \in Orchestrator
    BY <1>0 DEF Orchestrator
  <2>3. o.pc = orch[e].pc /\ o.stopped = orch[e].stopped
    BY <1>0 DEF Orchestrator
  <2> HIDE DEF o
  <2> QED
    BY <1>0, <2>1, <2>2, <2>3, ScheduledDrives
<1>4. ASSUME NEW s \in Stage, InvokeStage(e, s)
      PROVE  orch'[e].stopped # "quota" /\ orch'[e].pc \notin {"none", "ended"}
  <2> DEFINE o == [orch[e] EXCEPT !.todo = @ \ {s}, !.spent = @ \cup {s}, !.active = @ \cup {s}]
  <2>1. orch'[e] = Scheduled(o) /\ orch[e].pc = "schedule"
    BY <1>4 DEF InvokeStage, Step, TypeOK
  <2>2. o \in Orchestrator
    BY <1>0 DEF Orchestrator
  <2>3. o.pc = orch[e].pc /\ o.stopped = orch[e].stopped
    BY <1>0 DEF Orchestrator
  <2> HIDE DEF o
  <2> QED
    BY <1>0, <2>1, <2>2, <2>3, ScheduledDrives
<1>5. ASSUME NEW s \in Stage, Collect(e, s)
      PROVE  orch'[e].stopped # "quota" /\ orch'[e].pc \notin {"none", "ended"}
  <2> DEFINE base == [orch[e] EXCEPT !.active = @ \ {s}, !.pc = "admit"]
  <2>1. base \in Orchestrator /\ base.pc = "admit" /\ base.stopped # "quota"
    BY <1>0 DEF Orchestrator
  <2>2. inv[e][s] # "deferred"
    BY DEF Driven
  <2>3. orch'[e] \in {[base EXCEPT !.done = @ \cup {s}, !.spent = @ \ {s}],
                      [base EXCEPT !.waiting = @ \cup {s}, !.spent = @ \ {s}],
                      [base EXCEPT !.stopped = "budget"],
                      [base EXCEPT !.failed = TRUE],
                      base}
    BY <1>5, <2>2 DEF Collect, Step, TypeOK
  <2> HIDE DEF base
  <2> QED
    BY <2>1, <2>3 DEF Orchestrator
<1>6. ASSUME End(e),
             \/ \E target \in {"PAUSED_MANUAL", "PAUSED_BUDGET", "FAILED", "IDLE", "COMPLETED"} :
                  Transition(e, target)
             \/ ParkOnWaits(e)
      PROVE  /\ orch'[e].stopped # "quota"
             /\ epoch = e /\ state \in Working => state' \notin Working
  <2>1. epoch = e /\ state \in Working => state' \notin Working
    BY <1>6 DEF ParkOnWaits, Transition, PausedStateFor, Working
  <2> QED
    BY <1>6, <2>1 DEF End, Step, NoOrchestrator, TypeOK
<1>7. ~FinishQuota(e)
  BY <1>0 DEF FinishQuota, Finishing
<1>8. CASE Halt(e) \/ FinishBudget(e) \/ FinishFailed(e) \/ FinishWaits(e) \/ FinishIdle(e)
           \/ FinishCompleted(e)
  BY <1>6, <1>8 DEF Halt, FinishBudget, FinishFailed, FinishWaits, FinishIdle, FinishCompleted,
     Finishing
<1> QED
  BY <1>1, <1>2, <1>3, <1>4, <1>5, <1>7, <1>8 DEF Orchestrate

LEMMA DrivenNext ==
  ASSUME ~Restarts, "deferred" \notin Outcomes,
         TypeOK, TypeOK', QueuedFromRest, EngineInv, Driven, [Next]_vars
  PROVE  Driven'
<1>1. CASE Operator
  BY <1>1, OperatorOnRun DEF LeavesWorkers, Driven, engine
<1>2. CASE Reconcile \/ UNCHANGED vars
  BY <1>2 DEF Reconcile, Driven, Working, vars, runRow, engine
<1>3. ASSUME NEW w \in outbox, Claim(w) PROVE Driven'
  <2>1. w.epoch = epoch /\ epoch \in Epochs
    BY <1>3 DEF Claim, Claimable, TypeOK
  <2> QED
    BY <1>3, <2>1 DEF Claim, Driven, TypeOK, NoOrchestrator
<1>4. ASSUME NEW w \in outbox, KillEpoch(w) PROVE Driven'
  <2>1. w.epoch \in Epochs /\ w.epoch # epoch
    BY <1>4, BoundsAssumption DEF KillEpoch, EngineInv, CancelsBehind, TypeOK, Wakeup, Epochs
  <2> QED
    BY <1>4, <2>1 DEF KillEpoch, Driven, TypeOK, NoOrchestrator, runRow
<1>5. CASE Delivery
  BY <1>2, <1>3, <1>4, <1>5 DEF Delivery, Dispatch, ClaimThenRestart, IgnoreWakeup,
     ReconcileOnEvent, Driven, runRow, engine
<1>6. ASSUME NEW e \in Epochs, Orchestrate(e) PROVE Driven'
  <2>1. \A x \in Epochs : x # e => orch'[x] = orch[x] /\ inv'[x] = inv[x]
    BY <1>6, OrchestrateOnWorkers DEF CopyOf, TypeOK
  <2>2. \A x \in Epochs : orch'[x].stopped # "quota"
    BY <1>6, <2>1, OrchestrateDrives DEF Driven
  <2>3. state' \in Working => orch'[epoch'].pc \notin {"none", "ended"}
    BY <1>6, <2>1, OrchestrateDrives, OrchestrateOnWorkers DEF Driven, TypeOK
  <2>4. \A s \in Stage : inv'[e][s] # "deferred"
    <3>1. ASSUME NEW s \in Stage, InvokeStage(e, s) \/ Collect(e, s)
          PROVE  \E r \in {"requested", "none"} : inv' = [inv EXCEPT ![e][s] = r]
      BY <3>1 DEF InvokeStage, Collect
    <3>2. ASSUME Load(e) \/ Admit(e) \/ \E s \in Stage : Skip(e, s)
          PROVE  inv' = inv
      <4>1. CASE Load(e) \/ Admit(e)
        BY <4>1 DEF Load, Admit
      <4>2. ASSUME NEW s \in Stage, Skip(e, s) PROVE inv' = inv
        BY <4>2 DEF Skip
      <4> QED
        BY <3>2, <4>1, <4>2
    <3>3. CASE End(e)
      BY <3>3 DEF End, Driven
    <3>4. \/ Load(e) \/ Admit(e) \/ End(e)
          \/ \E s \in Stage : Skip(e, s) \/ InvokeStage(e, s) \/ Collect(e, s)
      BY <1>6 DEF Orchestrate, Halt, FinishBudget, FinishQuota, FinishFailed, FinishWaits,
         FinishIdle, FinishCompleted, Finishing
    <3> QED
      BY <3>1, <3>2, <3>3, <3>4 DEF Driven, TypeOK
  <2> QED
    BY <2>1, <2>2, <2>3, <2>4 DEF Driven
<1>7. ASSUME NEW e \in Epochs, NEW s \in Stage, Execute(e, s) PROVE Driven'
  <2>1. UNCHANGED <<runRow, mail, orch>>
    BY <1>7, ExecuteOnRun
  <2>2. PICK r : inv' = [inv EXCEPT ![e][s] = r] /\ r # "deferred"
    BY <1>7 DEF Execute, BeginAttempt, JudgeHeld, AdmitInput, NotAdmitted, AwaitHumanInput,
       Finalize, OpenGate, HoldForQc, FailStage, StopStage, CrashStage, Return
  <2> QED
    BY <2>1, <2>2 DEF Driven, TypeOK, runRow
<1> QED
  BY <1>1, <1>2, <1>5, <1>6, <1>7 DEF Next, Engine

(* A run that stopped is quiet: nobody works for it, and its invocations have *)
(* come to their end, whatever pauses, answers, cancellations and endings     *)
(* met (run.orchestrate ends with its last collect).                          *)
THEOREM StoppedIsQuiet ==
  Spec => [](state \notin Live =>
               /\ orch[epoch].pc \in {"none", "ended"}
               /\ \A s \in Stage : inv[epoch][s] \notin {"requested", "asking", "working"})
<1>1. TypeOK /\ EngineInv =>
        (state \notin Live =>
           /\ orch[epoch].pc \in {"none", "ended"}
           /\ \A s \in Stage : inv[epoch][s] \notin {"requested", "asking", "working"})
  BY RestHasNoCalls DEF EngineInv, RestIsFree, NoOrchestrator, Ended, Working, Live
<1> QED
  BY <1>1, TypeCorrect, EngineInvAlways, PTL

(* The run's row and its functions agree, and a run that works has an         *)
(* orchestrator that will end the work: the claim starts one in the same      *)
(* transaction's epoch, and only its own end takes it away, as long as no     *)
(* restart falls between the claim and its memo and no provider runs out of   *)
(* quota (claimRunWakeup, RunStateService.transition).                        *)
THEOREM WorkMatches ==
  ASSUME ~Restarts, "deferred" \notin Outcomes
  PROVE  Spec => []WorkMatchesState
<1>1. Init => Driven
  BY BoundsAssumption DEF Init, Driven, NoOrchestrator, Working, Epochs
<1>2. TypeOK /\ TypeOK' /\ QueuedFromRest /\ EngineInv /\ Driven /\ [Next]_vars => Driven'
  BY DrivenNext
<1>3. TypeOK /\ EngineInv /\ Driven => WorkMatchesState
  BY RestHasNoCalls
  DEF WorkMatchesState, Driven, EngineInv, RestIsFree, NoOrchestrator, Ended, Working, Live
<1> QED
  BY <1>1, <1>2, <1>3, TypeCorrect, QueuedFromRestAlways, EngineInvAlways, PTL DEF Spec

-----------------------------------------------------------------------------
(* The copy against the rows.  A row only changes under the orchestrator by   *)
(* the invocations it started, which are not done, and by an approval, which  *)
(* settles it; so what the copy has for done stays settled, what it may start *)
(* is neither settled nor waiting, and what it started builds on settled      *)
(* stages.                                                                    *)

Open(o)  == o.pc \notin {"none", "load", "ended"}
Claiming == {"requested", "asking", "working", "crashed"}
RowsKnown ==
  state \in Working =>
    /\ \A s \in orch[epoch].active \cup orch[epoch].todo : \A d \in Deps[s] : exec[d] \in Settled
    /\ state = "RUNNING" => \A s \in orch[epoch].done : exec[s] \in Settled
    /\ Open(orch[epoch]) =>
         \A s \in Stage : exec[s] \in Settled \cup Awaiting
           => s \in orch[epoch].done \cup orch[epoch].waiting \cup orch[epoch].spent
    /\ \A s \in Stage : inv[epoch][s] = "passed" => exec[s] \in Settled
    /\ \A s \in Stage : inv[epoch][s] \in Claiming => exec[s] \notin Settled \cup Awaiting
(* The open waits are those of the stages that wait. *)
WaitsMatch == \A s \in Stage : exec[s] \in Awaiting <=> wait[s] # "none"
RowsInv == RowsKnown /\ WaitsMatch

(* While the run works, its operators only approve, pause and cancel. *)
LEMMA OperatorAtWork ==
  ASSUME TypeOK, Operator, state \in Working
  PROVE  /\ state' = "RUNNING" => state = "RUNNING"
         /\ \/ UNCHANGED <<exec, wait>>
            \/ \E t \in Stage : /\ exec[t] = "awaiting_approval"
                                /\ exec' = [exec EXCEPT ![t] = "passed"]
                                /\ wait' = [wait EXCEPT ![t] = "none"]
<1> USE DEF Working, AllowedStates, PausedStates, ParkedOnWait, AnswerStates
<1>1. ~Start /\ ~Resume /\ ~UpdateExecutionSettings
  BY DEF Start, Resume, UpdateExecutionSettings, Mutation
<1>2. ~Plan
  BY DEF Plan, Mutation
<1>3. \A s \in Stage : ~Retry(s) /\ ~PatchOverrides(s)
  BY DEF Retry, PatchOverrides, Mutation
<1>4. \A action \in {"reject", "retry_qc", "submit_input"} : ~Answer(action)
  BY DEF Answer, Mutation
<1>5. CASE Pause \/ Cancel
  BY <1>5 DEF Pause, Cancel, work
<1>6. ASSUME NEW s \in Stage, Approve(s)
      PROVE  /\ state' = "RUNNING" => state = "RUNNING"
             /\ exec[s] = "awaiting_approval"
             /\ exec' = [exec EXCEPT ![s] = "passed"]
             /\ wait' = [wait EXCEPT ![s] = "none"]
  BY <1>6 DEF Approve, Answer
<1> QED
  BY <1>1, <1>2, <1>3, <1>4, <1>5, <1>6 DEF Operator, SubmitInput, RetryQc, Reject

LEMMA OperatorKeepsRowsKnown ==
  ASSUME TypeOK, TypeOK', RowsKnown, Operator
  PROVE  RowsKnown'
<1> SUFFICES ASSUME state' \in Working PROVE RowsKnown'
  BY DEF RowsKnown
<1>1. state \in Working /\ epoch' = epoch /\ UNCHANGED engine
  BY OperatorOnRun DEF LeavesWorkers
<1>2. CASE UNCHANGED <<exec, wait>>
  BY <1>1, <1>2, OperatorAtWork DEF RowsKnown, engine
<1>3. ASSUME NEW t \in Stage, exec[t] = "awaiting_approval", exec' = [exec EXCEPT ![t] = "passed"]
      PROVE  RowsKnown'
  <2>1. \A s \in Stage : /\ exec[s] \in Settled => exec'[s] \in Settled
                         /\ exec'[s] \in Settled \cup Awaiting => exec[s] \in Settled \cup Awaiting
    BY <1>3 DEF TypeOK, Settled, Awaiting
  <2>2. \A s \in orch[epoch].active \cup orch[epoch].todo : Deps[s] \subseteq Stage
    BY StagesAssumption DEF TypeOK, Orchestrator
  <2>3. orch[epoch].done \subseteq Stage
    BY DEF TypeOK, Orchestrator
  <2> QED
    BY <1>1, <2>1, <2>2, <2>3, OperatorAtWork DEF RowsKnown, engine
<1> QED
  BY <1>1, <1>2, <1>3, OperatorAtWork

LEMMA OperatorKeepsWaitsMatch ==
  ASSUME TypeOK, WaitsMatch, Operator
  PROVE  WaitsMatch'
<1>1. CASE UNCHANGED work
  BY <1>1 DEF WaitsMatch, work
<1>2. ASSUME NEW affected, Invalidate(affected) PROVE WaitsMatch'
  BY <1>2 DEF Invalidate, WaitsMatch, Awaiting
<1>3. ASSUME NEW s \in Stage, Approve(s) \/ SubmitInput(s) \/ RetryQc(s) PROVE WaitsMatch'
  BY <1>3 DEF Approve, SubmitInput, RetryQc, WaitsMatch, Awaiting, TypeOK
<1>4. CASE Plan
  BY <1>4 DEF Plan, WaitsMatch, Awaiting
<1> QED
  BY <1>1, <1>2, <1>3, <1>4 DEF Operator, Start, Pause, Resume, Cancel, UpdateExecutionSettings,
     Retry, PatchOverrides, Reject

LEMMA DeliveryKeepsRows ==
  ASSUME TypeOK, TypeOK', QueuedFromRest, EngineInv, RowsInv, Delivery \/ Reconcile \/ UNCHANGED vars
  PROVE  RowsInv'
<1>1. ASSUME NEW w \in outbox, Claim(w) PROVE RowsInv'
  <2>1. w.epoch = epoch /\ epoch \in Epochs /\ state \notin Working
    BY <1>1 DEF Claim, Delivered, Claimable, QueuedFromRest, TypeOK, Working, Live
  <2>2. \A s \in Stage : inv[epoch][s] = "none"
    BY <2>1, RestHasNoCalls
  <2>3. /\ orch'[epoch] = [NoOrchestrator EXCEPT !.pc = "load"]
        /\ UNCHANGED <<epoch, inv, exec, wait>>
    BY <1>1, <2>1 DEF Claim, TypeOK, work
  <2> QED
    BY <2>2, <2>3 DEF RowsInv, RowsKnown, WaitsMatch, NoOrchestrator, Open, Claiming
<1>2. ASSUME NEW w \in outbox, ClaimThenRestart(w) PROVE RowsInv'
  <2>1. state \notin Working
    BY <1>2 DEF ClaimThenRestart, Delivered, Claimable, QueuedFromRest, Working, Live
  <2>2. \A s \in Stage : inv[epoch][s] = "none"
    BY <2>1, RestHasNoCalls
  <2>3. orch[epoch] \in {NoOrchestrator, Ended}
    BY <2>1 DEF EngineInv, RestIsFree
  <2> QED
    BY <1>2, <2>2, <2>3 DEF ClaimThenRestart, RowsInv, RowsKnown, WaitsMatch, NoOrchestrator, Ended,
       Open, Claiming, engine, work
<1>3. ASSUME NEW w \in outbox, KillEpoch(w) PROVE RowsInv'
  <2>1. w.epoch \in Epochs /\ w.epoch # epoch
    BY <1>3, BoundsAssumption DEF KillEpoch, EngineInv, CancelsBehind, TypeOK, Wakeup, Epochs
  <2>2. orch'[epoch] = orch[epoch] /\ inv'[epoch] = inv[epoch] /\ UNCHANGED <<state, epoch, exec, wait>>
    BY <1>3, <2>1 DEF KillEpoch, TypeOK, runRow, work
  <2> QED
    BY <2>2 DEF RowsInv, RowsKnown, WaitsMatch
<1>4. CASE Reconcile
  BY <1>4 DEF Reconcile, RowsInv, RowsKnown, WaitsMatch, Working, Awaiting, TypeOK
<1>5. CASE UNCHANGED <<runRow, engine, work>>
  BY <1>5 DEF RowsInv, RowsKnown, WaitsMatch, runRow, engine, work
<1> QED
  BY <1>1, <1>2, <1>3, <1>4, <1>5 DEF Delivery, Dispatch, IgnoreWakeup, ReconcileOnEvent, vars

(* What an invocation writes into its stage's row.                           *)
RowWritten(e, s, x, q, r) ==
  /\ exec' = [exec EXCEPT ![s] = x]
  /\ wait' = [wait EXCEPT ![s] = q]
  /\ inv' = [inv EXCEPT ![e][s] = r]
  /\ r = "passed" => x \in Settled
  /\ r \in Claiming => x \notin Settled \cup Awaiting
  /\ x \in Awaiting <=> q # "none"

LEMMA ExecuteOnRows ==
  ASSUME TypeOK, NEW e \in Epochs, NEW s \in Stage, Execute(e, s), e = epoch,
         exec[s] \notin Settled \cup Awaiting, wait[s] = "none"
  PROVE  \E x \in ExecState, q \in WaitKind : \E r : RowWritten(e, s, x, q, r)
<1>1. ASSUME UNCHANGED <<exec, wait>>, NEW r, r # "passed", inv' = [inv EXCEPT ![e][s] = r]
      PROVE  \E x \in ExecState, q \in WaitKind : \E t : RowWritten(e, s, x, q, t)
  <2>1. RowWritten(e, s, exec[s], "none", r)
    BY <1>1 DEF RowWritten, Settled, Awaiting, TypeOK
  <2> QED
    BY <2>1 DEF TypeOK, WaitKind
<1>2. CASE BeginAttempt(e, s)
  <2>1. RowWritten(e, s, "running", "none", "working")
    BY <1>2 DEF BeginAttempt, RowWritten, Settled, Awaiting, Claiming, TypeOK, ExecState, Return
  <2> QED
    BY <2>1 DEF ExecState, WaitKind
<1>3. CASE JudgeHeld(e, s) \/ AdmitInput(e, s) \/ NotAdmitted(e, s)
  <2>1. \E r : r # "passed" /\ inv' = [inv EXCEPT ![e][s] = r]
    BY <1>3 DEF JudgeHeld, AdmitInput, NotAdmitted, Return
  <2>2. UNCHANGED <<exec, wait>>
    BY <1>3 DEF JudgeHeld, AdmitInput, NotAdmitted, work
  <2> QED
    BY <1>1, <2>1, <2>2
<1>4. CASE AwaitHumanInput(e, s)
  <2>1. CASE Current(e, {"RUNNING", "PAUSING"})
    <3>1. RowWritten(e, s, "awaiting_input", "input", "input_required")
      BY <1>4, <2>1 DEF AwaitHumanInput, RowWritten, Settled, Awaiting, Claiming, TypeOK, Return
    <3> QED
      BY <3>1 DEF ExecState, WaitKind
  <2>2. CASE ~Current(e, {"RUNNING", "PAUSING"})
    BY <1>1, <1>4, <2>2 DEF AwaitHumanInput, Return
  <2> QED
    BY <2>1, <2>2
<1>5. CASE Finalize(e, s)
  <2>1. RowWritten(e, s, "awaiting_approval", "approval", "approval_required") \/ RowWritten(e, s, "passed", "none", "passed")
    BY <1>5 DEF Finalize, OpenGate, RowWritten, Settled, Awaiting, Claiming, TypeOK, Return
  <2> QED
    BY <2>1 DEF ExecState, WaitKind
<1>6. CASE HoldForQc(e, s)
  <2>1. RowWritten(e, s, "awaiting_approval", "qc_error", "approval_required")
    BY <1>6 DEF HoldForQc, OpenGate, RowWritten, Settled, Awaiting, Claiming, TypeOK, Return
  <2> QED
    BY <2>1 DEF ExecState, WaitKind
<1>7. CASE FailStage(e, s)
  <2>1. CASE Current(e, {"RUNNING", "PAUSING"})
    <3>1. RowWritten(e, s, "failed", "none", "failed")
      BY <1>7, <2>1 DEF FailStage, RowWritten, Settled, Awaiting, Claiming, TypeOK, Return
    <3> QED
      BY <3>1 DEF ExecState, WaitKind
  <2>2. CASE ~Current(e, {"RUNNING", "PAUSING"})
    BY <1>1, <1>7, <2>2 DEF FailStage, Return
  <2> QED
    BY <2>1, <2>2
<1>8. CASE StopStage(e, s) \/ CrashStage(e, s)
  <2>1. \E r : r # "passed" /\ inv' = [inv EXCEPT ![e][s] = r]
    BY <1>8 DEF StopStage, CrashStage, Return
  <2>2. UNCHANGED <<exec, wait>>
    BY <1>8 DEF StopStage, CrashStage, work
  <2> QED
    BY <1>1, <2>1, <2>2
<1> QED
  BY <1>2, <1>3, <1>4, <1>5, <1>6, <1>7, <1>8 DEF Execute

LEMMA RetiredExecute ==
  ASSUME NEW e \in Epochs, NEW s \in Stage, Execute(e, s), e # epoch
  PROVE  UNCHANGED <<exec, wait>>
BY DEF Execute, BeginAttempt, JudgeHeld, AdmitInput, NotAdmitted, AwaitHumanInput, Finalize,
   HoldForQc, FailStage, StopStage, CrashStage, Current, work

(* An invocation of the run's epoch works while the run does. *)
LEMMA ExecuteAtWork ==
  ASSUME TypeOK, EngineInv, NEW s \in Stage, Execute(epoch, s)
  PROVE  /\ state \in Working
         /\ s \in orch[epoch].active /\ s \in orch[epoch].spent /\ s \notin orch[epoch].done
         /\ inv[epoch][s] \in Claiming
<1>1. epoch \in Epochs
  BY DEF TypeOK
<1>2. inv[epoch][s] \in {"requested", "asking", "working"}
  BY <1>1, ExecuteCalls
<1>3. state \in Working
  BY <1>2, RestHasNoCalls
<1>4. s \in orch[epoch].active /\ Drawn(orch[epoch])
  BY <1>1, <1>2 DEF EngineInv, CallsActive, CopiesDrawn
<1> QED
  BY <1>2, <1>3, <1>4 DEF Drawn, Claiming

LEMMA ExecuteKeepsRows ==
  ASSUME TypeOK, TypeOK', EngineInv, RowsInv, NEW e \in Epochs, NEW s \in Stage, Execute(e, s)
  PROVE  RowsInv'
<1>1. UNCHANGED <<state, epoch, orch>>
  BY ExecuteOnRun DEF runRow
<1>2. CASE e # epoch
  <2>1. UNCHANGED <<exec, wait>> /\ inv'[epoch] = inv[epoch]
    BY <1>2, RetiredExecute, ExecuteCalls DEF TypeOK
  <2> QED
    BY <1>1, <2>1 DEF RowsInv, RowsKnown, WaitsMatch
<1>3. CASE e = epoch
  <2>1. /\ state \in Working
        /\ s \in orch[epoch].active /\ s \in orch[epoch].spent /\ s \notin orch[epoch].done
        /\ inv[epoch][s] \in Claiming
    BY <1>3, ExecuteAtWork
  <2>2. exec[s] \notin Settled \cup Awaiting /\ wait[s] = "none"
    BY <2>1 DEF RowsInv, RowsKnown, WaitsMatch
  <2>3. PICK x \in ExecState, q \in WaitKind : \E r : RowWritten(e, s, x, q, r)
    BY <1>3, <2>2, ExecuteOnRows
  <2>4. PICK r : RowWritten(e, s, x, q, r)
    BY <2>3
  <2>5. WaitsMatch'
    BY <2>4 DEF RowWritten, RowsInv, WaitsMatch, TypeOK
  <2>6. \A t \in Stage : t # s => exec'[t] = exec[t] /\ inv'[epoch][t] = inv[epoch][t]
    BY <2>4 DEF RowWritten, TypeOK
  <2>7. exec'[s] = x /\ inv'[epoch][s] = r
    BY <1>3, <2>4 DEF RowWritten, TypeOK
  <2>8. \A t \in orch[epoch].active \cup orch[epoch].todo :
          Deps[t] \subseteq orch[epoch].done
    BY DEF EngineInv, CopiesDrawn, Drawn, TypeOK
  <2>9. orch[epoch].done \subseteq Stage
    BY DEF TypeOK, Orchestrator
  <2>10. RowsKnown'
    BY <1>1, <2>1, <2>4, <2>6, <2>7, <2>8, <2>9 DEF RowWritten, RowsInv, RowsKnown
  <2> QED
    BY <2>5, <2>10 DEF RowsInv
<1> QED
  BY <1>2, <1>3

-----------------------------------------------------------------------------
(* The orchestrator's own steps against the rows. *)

LEMMA ScheduledFields ==
  ASSUME NEW o \in Orchestrator, o.pc = "schedule"
  PROVE  /\ Scheduled(o).active = o.active /\ Scheduled(o).done = o.done
         /\ Scheduled(o).waiting = o.waiting /\ Scheduled(o).spent = o.spent
         /\ Scheduled(o).todo \subseteq o.todo
BY DEF Scheduled, Orchestrator

LEMMA RetiredOrchestrate ==
  ASSUME TypeOK, EngineInv, NEW e \in Epochs, Orchestrate(e), e # epoch
  PROVE  UNCHANGED <<state, epoch, exec, wait>> /\ orch'[epoch] = orch[epoch] /\ inv'[epoch] = inv[epoch]
<1>1. UNCHANGED <<state, epoch>> /\ orch'[epoch] = orch[epoch] /\ inv'[epoch] = inv[epoch]
  BY OrchestrateOnWorkers DEF CopyOf, TypeOK
<1>2. CASE Load(e) \/ Admit(e)
  BY <1>1, <1>2 DEF Load, Admit, work
<1>3. ASSUME NEW s \in Stage, Skip(e, s) \/ InvokeStage(e, s) PROVE UNCHANGED <<exec, wait>>
  BY <1>3 DEF Skip, InvokeStage, work
<1>4. ASSUME NEW s \in Stage, Collect(e, s) PROVE UNCHANGED <<exec, wait>>
  BY <1>4 DEF Collect
<1>5. CASE End(e)
  BY <1>1, <1>5 DEF End, work
<1>6. \/ Load(e) \/ Admit(e) \/ End(e)
      \/ \E s \in Stage : Skip(e, s) \/ InvokeStage(e, s) \/ Collect(e, s)
  BY DEF Orchestrate, Halt, FinishBudget, FinishQuota, FinishFailed, FinishWaits,
     FinishIdle, FinishCompleted, Finishing
<1> QED
  BY <1>1, <1>2, <1>3, <1>4, <1>5, <1>6

LEMMA LoadKeepsRows ==
  ASSUME TypeOK, EngineInv, RowsInv, Load(epoch)
  PROVE  RowsInv'
<1>1. epoch \in Epochs /\ orch[epoch] = [NoOrchestrator EXCEPT !.pc = "load"]
  BY DEF Load, TypeOK, EngineInv, CopiesDrawn, Drawn
<1>2. /\ orch'[epoch].done = {s \in Stage : exec[s] \in {"passed", "skipped"}}
      /\ orch'[epoch].waiting = LiveWaits(exec, wait)
      /\ orch'[epoch].active = {} /\ orch'[epoch].todo = {}
  <2>1. orch'[epoch] = [orch[epoch] EXCEPT
                          !.pc = "admit",
                          !.scope = scope,
                          !.done = {s \in Stage : exec[s] \in {"passed", "skipped"}},
                          !.waiting = LiveWaits(exec, wait)]
    BY <1>1 DEF Load, Step, TypeOK
  <2> QED
    BY <1>1, <2>1 DEF NoOrchestrator
<1>3. UNCHANGED <<state, epoch, inv, exec, wait>>
  BY DEF Load, runRow, work
<1>4. \A s \in Stage : exec[s] \in Awaiting => s \in LiveWaits(exec, wait)
  BY DEF RowsInv, WaitsMatch, LiveWaits, Awaiting
<1> QED
  BY <1>2, <1>3, <1>4 DEF RowsInv, RowsKnown, WaitsMatch, Settled

LEMMA AdmitKeepsRows ==
  ASSUME TypeOK, EngineInv, RowsInv, Admit(epoch)
  PROVE  RowsInv'
<1>1. epoch \in Epochs /\ orch[epoch] \in Orchestrator /\ orch[epoch].pc = "admit"
  BY DEF Admit, TypeOK
<1>2. /\ orch'[epoch].done = orch[epoch].done /\ orch'[epoch].waiting = orch[epoch].waiting
      /\ orch'[epoch].spent = orch[epoch].spent /\ orch'[epoch].active = orch[epoch].active
      /\ \/ orch'[epoch].todo = {}
         \/ orch'[epoch].todo \subseteq Ready(orch[epoch]) /\ state = "RUNNING"
  BY <1>1 DEF Admit, AdmissionOf, Admits, Step, TypeOK, Orchestrator
<1>3. UNCHANGED <<state, epoch, inv, exec, wait>>
  BY DEF Admit, runRow, work
<1>4. \A s \in Ready(orch[epoch]) : Deps[s] \subseteq orch[epoch].done
  BY ReadyIsDrawn
<1>5. Open(orch[epoch])
  BY <1>1 DEF Open
<1> QED
  BY <1>2, <1>3, <1>4, <1>5 DEF RowsInv, RowsKnown, WaitsMatch

LEMMA SkipKeepsRows ==
  ASSUME TypeOK, EngineInv, RowsInv, NEW s \in Stage, Skip(epoch, s)
  PROVE  RowsInv'
<1> DEFINE o == [orch[epoch] EXCEPT !.todo = @ \ {s}, !.done = @ \cup {s}]
<1>1. /\ epoch \in Epochs /\ orch[epoch] \in Orchestrator /\ orch[epoch].pc = "schedule"
      /\ s \in orch[epoch].todo /\ Drawn(orch[epoch])
  BY DEF Skip, TypeOK, EngineInv, CopiesDrawn
<1>2. o \in Orchestrator
  BY <1>1 DEF Orchestrator
<1>3. /\ o.pc = "schedule" /\ o.active = orch[epoch].active /\ o.spent = orch[epoch].spent
      /\ o.waiting = orch[epoch].waiting
      /\ o.todo = orch[epoch].todo \ {s} /\ o.done = orch[epoch].done \cup {s}
  BY <1>1 DEF Orchestrator
<1>4. orch'[epoch] = Scheduled(o) /\ UNCHANGED <<state, epoch, inv, wait>>
  BY <1>1 DEF Skip, Step, TypeOK, runRow
<1>5. exec' = IF state = "RUNNING" THEN [exec EXCEPT ![s] = "skipped"] ELSE exec
  BY DEF Skip
<1> HIDE DEF o
<1>6. /\ orch'[epoch].active = orch[epoch].active /\ orch'[epoch].spent = orch[epoch].spent
      /\ orch'[epoch].waiting = orch[epoch].waiting
      /\ orch'[epoch].todo \subseteq orch[epoch].todo /\ orch'[epoch].done = orch[epoch].done \cup {s}
  BY <1>2, <1>3, <1>4, ScheduledFields
<1>7. Open(orch[epoch]) /\ s \notin orch[epoch].active
  BY <1>1 DEF Open, Drawn
<1>8. inv[epoch][s] = "none"
  BY <1>1, <1>7 DEF EngineInv, CallsActive
<1>9. state \in Working => exec[s] \notin Awaiting /\ wait[s] = "none"
  BY <1>1, <1>7 DEF RowsInv, RowsKnown, WaitsMatch, Drawn
<1>10. WaitsMatch'
  BY <1>4, <1>5, <1>9 DEF RowsInv, WaitsMatch, Awaiting, Working, TypeOK
<1>11. \A t \in Stage : exec'[t] = exec[t] \/ (t = s /\ exec'[t] = "skipped")
  BY <1>5 DEF TypeOK
<1>12. \A t \in orch[epoch].active \cup orch[epoch].todo : Deps[t] \subseteq Stage
  BY <1>1, StagesAssumption DEF Orchestrator
<1>13. orch[epoch].done \subseteq Stage /\ (state = "RUNNING" => exec'[s] = "skipped")
  BY <1>1, <1>5 DEF Orchestrator, TypeOK
<1>14. RowsKnown'
  BY <1>4, <1>6, <1>7, <1>8, <1>11, <1>12, <1>13 DEF RowsInv, RowsKnown, Settled, Claiming
<1> QED
  BY <1>10, <1>14 DEF RowsInv

LEMMA InvokeStageKeepsRows ==
  ASSUME TypeOK, EngineInv, RowsInv, NEW s \in Stage, InvokeStage(epoch, s)
  PROVE  RowsInv'
<1> DEFINE o == [orch[epoch] EXCEPT !.todo = @ \ {s}, !.spent = @ \cup {s}, !.active = @ \cup {s}]
<1>1. /\ epoch \in Epochs /\ orch[epoch] \in Orchestrator /\ orch[epoch].pc = "schedule"
      /\ s \in orch[epoch].todo /\ Drawn(orch[epoch])
  BY DEF InvokeStage, TypeOK, EngineInv, CopiesDrawn
<1>2. o \in Orchestrator
  BY <1>1 DEF Orchestrator
<1>3. /\ o.pc = "schedule" /\ o.done = orch[epoch].done /\ o.waiting = orch[epoch].waiting
      /\ o.todo = orch[epoch].todo \ {s}
      /\ o.spent = orch[epoch].spent \cup {s} /\ o.active = orch[epoch].active \cup {s}
  BY <1>1 DEF Orchestrator
<1>4. orch'[epoch] = Scheduled(o) /\ UNCHANGED <<state, epoch, exec, wait>>
  BY <1>1 DEF InvokeStage, Step, TypeOK, runRow, work
<1>5. \A t \in Stage : inv'[epoch][t] = IF t = s THEN "requested" ELSE inv[epoch][t]
  BY <1>1 DEF InvokeStage, TypeOK
<1> HIDE DEF o
<1>6. /\ orch'[epoch].done = orch[epoch].done /\ orch'[epoch].waiting = orch[epoch].waiting
      /\ orch'[epoch].todo \subseteq orch[epoch].todo
      /\ orch'[epoch].spent = orch[epoch].spent \cup {s}
      /\ orch'[epoch].active = orch[epoch].active \cup {s}
  BY <1>2, <1>3, <1>4, ScheduledFields
<1>7. Open(orch[epoch]) /\ s \notin orch[epoch].done \cup orch[epoch].waiting \cup orch[epoch].spent
  BY <1>1 DEF Open, Drawn
<1> QED
  BY <1>1, <1>4, <1>5, <1>6, <1>7 DEF RowsInv, RowsKnown, WaitsMatch, Claiming

LEMMA CollectKeepsRows ==
  ASSUME TypeOK, EngineInv, RowsInv, NEW s \in Stage, Collect(epoch, s)
  PROVE  RowsInv'
<1> DEFINE base == [orch[epoch] EXCEPT !.active = @ \ {s}, !.pc = "admit"]
<1>1. /\ epoch \in Epochs /\ orch[epoch] \in Orchestrator /\ orch[epoch].pc = "collect"
      /\ s \in orch[epoch].active /\ Drawn(orch[epoch])
  BY DEF Collect, TypeOK, EngineInv, CopiesDrawn
<1>2. /\ base \in Orchestrator
      /\ base.active = orch[epoch].active \ {s} /\ base.todo = {}
      /\ base.done = orch[epoch].done /\ base.waiting = orch[epoch].waiting
      /\ base.spent = orch[epoch].spent
  BY <1>1 DEF Drawn, Orchestrator
<1>3. \/ inv[epoch][s] = "passed" /\ orch'[epoch] = [base EXCEPT !.done = @ \cup {s}, !.spent = @ \ {s}]
      \/ orch'[epoch] \in {[base EXCEPT !.waiting = @ \cup {s}, !.spent = @ \ {s}],
                           [base EXCEPT !.stopped = "budget"],
                           [base EXCEPT !.stopped = IF @ = "none" THEN "quota" ELSE @],
                           [base EXCEPT !.failed = TRUE],
                           base}
  BY <1>1 DEF Collect, Step, TypeOK
<1>4. /\ UNCHANGED <<state, epoch, wait>>
      /\ \A t \in Stage : inv'[epoch][t] = IF t = s THEN "none" ELSE inv[epoch][t]
      /\ exec' = IF inv[epoch][s] = "crashed" /\ state \in Working
                   THEN [exec EXCEPT ![s] = "failed"] ELSE exec
  BY <1>1 DEF Collect, runRow, Working, TypeOK
<1> HIDE DEF base
<1>5. /\ orch'[epoch].active = orch[epoch].active \ {s} /\ orch'[epoch].todo = {}
      /\ orch[epoch].done \subseteq orch'[epoch].done
      /\ orch'[epoch].done \subseteq orch[epoch].done \cup (IF inv[epoch][s] = "passed" THEN {s} ELSE {})
      /\ orch[epoch].done \cup orch[epoch].waiting \cup orch[epoch].spent
           \subseteq orch'[epoch].done \cup orch'[epoch].waiting \cup orch'[epoch].spent
  <2>1. /\ orch'[epoch].active = base.active /\ orch'[epoch].todo = base.todo
        /\ \/ /\ orch'[epoch].done = base.done
              /\ base.waiting \cup base.spent \subseteq orch'[epoch].waiting \cup orch'[epoch].spent
           \/ /\ inv[epoch][s] = "passed" /\ orch'[epoch].done = base.done \cup {s}
              /\ orch'[epoch].waiting = base.waiting /\ orch'[epoch].spent = base.spent \ {s}
    <3>1. CASE inv[epoch][s] = "passed" /\ orch'[epoch] = [base EXCEPT !.done = @ \cup {s}, !.spent = @ \ {s}]
      BY <1>2, <3>1 DEF Orchestrator
    <3>2. CASE orch'[epoch] = [base EXCEPT !.waiting = @ \cup {s}, !.spent = @ \ {s}]
      BY <1>2, <3>2 DEF Orchestrator
    <3>3. CASE orch'[epoch] \in {[base EXCEPT !.stopped = "budget"],
                                 [base EXCEPT !.stopped = IF @ = "none" THEN "quota" ELSE @],
                                 [base EXCEPT !.failed = TRUE],
                                 base}
      BY <1>2, <3>3 DEF Orchestrator
    <3> QED
      BY <1>3, <3>1, <3>2, <3>3
  <2>2. CASE /\ orch'[epoch].done = base.done
             /\ base.waiting \cup base.spent \subseteq orch'[epoch].waiting \cup orch'[epoch].spent
    BY <1>2, <2>1, <2>2
  <2>3. CASE /\ inv[epoch][s] = "passed" /\ orch'[epoch].done = base.done \cup {s}
             /\ orch'[epoch].waiting = base.waiting /\ orch'[epoch].spent = base.spent \ {s}
    BY <1>2, <2>1, <2>3
  <2> QED
    BY <2>1, <2>2, <2>3
<1>6. \A t \in Stage : exec'[t] = exec[t] \/ (t = s /\ inv[epoch][s] = "crashed" /\ exec'[t] = "failed")
  BY <1>4 DEF TypeOK
<1>7. /\ Open(orch[epoch]) /\ s \notin orch[epoch].done
      /\ \A t \in orch[epoch].active : Deps[t] \subseteq orch[epoch].done
      /\ orch[epoch].done \subseteq Stage
  BY <1>1 DEF Open, Drawn, Orchestrator
<1>8. WaitsMatch'
  BY <1>4 DEF RowsInv, RowsKnown, WaitsMatch, Claiming, Awaiting, TypeOK
<1>9. RowsKnown'
  <2> SUFFICES ASSUME state \in Working PROVE RowsKnown'
    BY <1>4 DEF RowsKnown
  <2>1. \A t \in Stage : exec'[t] \in Settled \cup Awaiting => exec'[t] = exec[t]
    BY <1>6 DEF Settled, Awaiting
  <2>2. \A t \in Stage : t # s => exec'[t] = exec[t]
    BY <1>6
  <2>3. \A t \in orch'[epoch].active \cup orch'[epoch].todo : \A d \in Deps[t] : exec'[d] \in Settled
    BY <1>5, <1>7, <2>2 DEF RowsInv, RowsKnown
  <2>4. ASSUME state = "RUNNING", NEW d \in orch'[epoch].done PROVE exec'[d] \in Settled
    <3>1. CASE d \in orch[epoch].done
      BY <1>7, <2>2, <2>4, <3>1 DEF RowsInv, RowsKnown
    <3>2. CASE d = s /\ inv[epoch][s] = "passed"
      BY <1>6, <3>2 DEF RowsInv, RowsKnown
    <3> QED
      BY <1>5, <2>4, <3>1, <3>2
  <2>5. \A t \in Stage : exec'[t] \in Settled \cup Awaiting
          => t \in orch'[epoch].done \cup orch'[epoch].waiting \cup orch'[epoch].spent
    BY <1>5, <1>7, <2>1 DEF RowsInv, RowsKnown
  <2>6. \A t \in Stage : inv'[epoch][t] = "passed" => exec'[t] \in Settled
    BY <1>4, <2>2 DEF RowsInv, RowsKnown
  <2>7. \A t \in Stage : inv'[epoch][t] \in Claiming => exec'[t] \notin Settled \cup Awaiting
    BY <1>4, <2>2 DEF RowsInv, RowsKnown, Claiming
  <2> QED
    BY <1>4, <2>3, <2>4, <2>5, <2>6, <2>7 DEF RowsKnown
<1> QED
  BY <1>8, <1>9 DEF RowsInv

LEMMA OrchestrateKeepsRows ==
  ASSUME TypeOK, EngineInv, RowsInv, NEW e \in Epochs, Orchestrate(e)
  PROVE  RowsInv'
<1>1. CASE e # epoch
  BY <1>1, RetiredOrchestrate DEF RowsInv, RowsKnown, WaitsMatch
<1>2. CASE End(e) /\ e = epoch /\ orch[e].pc \in {"halt", "finish"}
  <2>1. UNCHANGED <<exec, wait, inv>> /\ orch'[epoch] = Ended
    BY <1>2 DEF End, Step, Ended, TypeOK, work
  <2>2. state' \notin Working \/ epoch' = epoch
    BY <1>2, OrchestrateOnWorkers
  <2>3. \A s \in Stage : inv[epoch][s] = "none"
    BY <1>2 DEF EngineInv, CallsActive, CopiesDrawn, Drawn
  <2> QED
    BY <2>1, <2>2, <2>3 DEF RowsInv, RowsKnown, WaitsMatch, Ended, NoOrchestrator, Open, Claiming
<1>3. \/ Load(e) \/ Admit(e) \/ (End(e) /\ orch[e].pc \in {"halt", "finish"})
      \/ \E s \in Stage : Skip(e, s) \/ InvokeStage(e, s) \/ Collect(e, s)
  BY DEF Orchestrate, Halt, FinishBudget, FinishQuota, FinishFailed, FinishWaits,
     FinishIdle, FinishCompleted, Finishing
<1> QED
  BY <1>1, <1>2, <1>3, LoadKeepsRows, AdmitKeepsRows, SkipKeepsRows, InvokeStageKeepsRows,
     CollectKeepsRows

LEMMA RowsInvAlways == Spec => []RowsInv
<1>1. Init => RowsInv
  BY DEF Init, RowsInv, RowsKnown, WaitsMatch, Working, Awaiting
<1>2. ASSUME TypeOK, TypeOK', QueuedFromRest, EngineInv, RowsInv, [Next]_vars PROVE RowsInv'
  <2>1. CASE Operator
    BY <1>2, <2>1, OperatorKeepsRowsKnown, OperatorKeepsWaitsMatch DEF RowsInv
  <2> QED
    BY <1>2, <2>1, DeliveryKeepsRows, OrchestrateKeepsRows, ExecuteKeepsRows DEF Next, Engine
<1> QED
  BY <1>1, <1>2, TypeCorrect, QueuedFromRestAlways, EngineInvAlways, PTL DEF Spec

-----------------------------------------------------------------------------
(* The invocations of the run's epoch against the rows. *)

LEMMA WorkingIsOpen ==
  ASSUME TypeOK, EngineInv, RowsInv, NEW s \in Stage, inv[epoch][s] = "working"
  PROVE  /\ state \in Working
         /\ exec[s] \notin Settled \cup Awaiting /\ wait[s] = "none"
         /\ \A d \in Deps[s] : exec[d] \in Settled
<1>1. state \in Working /\ epoch \in Epochs
  BY RestHasNoCalls DEF TypeOK
<1>2. s \in orch[epoch].active
  BY <1>1 DEF EngineInv, CallsActive
<1>3. exec[s] \notin Settled \cup Awaiting
  BY <1>1 DEF RowsInv, RowsKnown, Claiming
<1>4. \A d \in Deps[s] : exec[d] \in Settled
  BY <1>1, <1>2 DEF RowsInv, RowsKnown
<1> QED
  BY <1>1, <1>3, <1>4 DEF RowsInv, WaitsMatch

(* No attempt of the run works over an output that was accepted or that       *)
(* waits for a person, and none builds on a stage that is not settled, in     *)
(* whatever order answers, stops, retries and late results arrive             *)
(* (planWave, beginAttempt, completeStageExecution).                          *)
THEOREM BuildsOnSettled ==
  Spec => [](\A s \in Stage : inv[epoch][s] = "working" =>
               /\ exec[s] \notin Settled \cup Awaiting /\ wait[s] = "none"
               /\ \A d \in Deps[s] : exec[d] \in Settled)
<1>1. TypeOK /\ EngineInv /\ RowsInv =>
        \A s \in Stage : inv[epoch][s] = "working" =>
          /\ exec[s] \notin Settled \cup Awaiting /\ wait[s] = "none"
          /\ \A d \in Deps[s] : exec[d] \in Settled
  BY WorkingIsOpen
<1> QED
  BY <1>1, TypeCorrect, EngineInvAlways, RowsInvAlways, PTL

(* Without an output held back for quality control to judge again, a working  *)
(* attempt is one its stage's row says is running.                            *)
JudgedOnce  == "qc_error" \notin Outcomes \/ "retry_qc" \notin Ops
NothingHeld == held = {} /\ ("qc_error" \notin Outcomes => \A s \in Stage : wait[s] # "qc_error")
RunsMarked  == \A s \in Stage : inv[epoch][s] = "working" => exec[s] = "running"

LEMMA NothingHeldNext ==
  ASSUME JudgedOnce, TypeOK, NothingHeld, [Next]_vars
  PROVE  NothingHeld'
<1>1. CASE UNCHANGED <<wait, held>>
  BY <1>1 DEF NothingHeld
<1>2. ASSUME held' = held,
             \A s \in Stage : wait'[s] \in {wait[s], "none", "input", "approval"}
      PROVE  NothingHeld'
  BY <1>2 DEF NothingHeld
<1>3. CASE Operator
  <2>1. \A s \in Stage : ~RetryQc(s)
    BY DEF RetryQc, JudgedOnce, NothingHeld
  <2>2. ASSUME NEW s \in Stage, Approve(s) \/ SubmitInput(s) PROVE NothingHeld'
    BY <1>2, <2>2 DEF Approve, SubmitInput, TypeOK
  <2>3. ASSUME NEW affected, Invalidate(affected) PROVE NothingHeld'
    BY <1>2, <2>3 DEF Invalidate
  <2>4. ASSUME NEW s \in Stage,
               \/ Retry(s) \/ PatchOverrides(s) \/ \E target \in Stage : Reject(s, target)
        PROVE  NothingHeld'
    <3>1. \/ UNCHANGED <<wait, held>> \/ \E affected \in {Readers(s)} \cup {{s} \cup Readers(x) : x \in Stage} : Invalidate(affected)
      BY <2>4 DEF Retry, PatchOverrides, Reject, work
    <3> QED
      BY <1>1, <2>3, <3>1
  <2>5. CASE Start \/ Pause \/ Resume \/ Cancel \/ Plan \/ UpdateExecutionSettings
    <3>1. UNCHANGED <<wait, held>>
      BY <2>5 DEF Start, Pause, Resume, Cancel, Plan, UpdateExecutionSettings, work
    <3> QED
      BY <1>1, <3>1
  <2> QED
    BY <1>3, <2>1, <2>2, <2>4, <2>5 DEF Operator
<1>4. CASE Delivery \/ Reconcile \/ UNCHANGED vars
  <2>1. UNCHANGED <<wait, held>>
    BY <1>4 DEF Delivery, Dispatch, Claim, ClaimThenRestart, IgnoreWakeup, KillEpoch,
       ReconcileOnEvent, Reconcile, vars, work
  <2> QED
    BY <1>1, <2>1
<1>5. ASSUME NEW e \in Epochs, Orchestrate(e) PROVE NothingHeld'
  BY <1>1, <1>5 DEF Orchestrate, Load, Admit, Skip, InvokeStage, Collect, Halt, End,
     FinishBudget, FinishQuota, FinishFailed, FinishWaits, FinishIdle, FinishCompleted,
     Finishing, work
<1>6. ASSUME NEW e \in Epochs, NEW s \in Stage, Execute(e, s) PROVE NothingHeld'
  <2>1. held' = held
    BY <1>6 DEF NothingHeld, Execute, BeginAttempt, JudgeHeld, AdmitInput, NotAdmitted,
       AwaitHumanInput, Finalize, HoldForQc, FailStage, StopStage, CrashStage, work
  <2>2. CASE HoldForQc(e, s)
    BY <2>1, <2>2 DEF HoldForQc, NothingHeld
  <2>3. CASE ~HoldForQc(e, s)
    <3>1. \A x \in Stage : wait'[x] \in {wait[x], "input", "approval"}
      BY <1>6, <2>3 DEF Execute, BeginAttempt, JudgeHeld, AdmitInput, NotAdmitted,
         AwaitHumanInput, Finalize, OpenGate, FailStage, StopStage, CrashStage, work, TypeOK
    <3> QED
      BY <1>2, <2>1, <3>1
  <2> QED
    BY <2>2, <2>3
<1> QED
  BY <1>3, <1>4, <1>5, <1>6 DEF Next, Engine

LEMMA NothingHeldAlways ==
  ASSUME JudgedOnce
  PROVE  Spec => []NothingHeld
<1>1. Init => NothingHeld
  BY DEF Init, NothingHeld
<1>2. TypeOK /\ NothingHeld /\ [Next]_vars => NothingHeld'
  BY NothingHeldNext
<1> QED
  BY <1>1, <1>2, TypeCorrect, PTL DEF Spec

LEMMA RunsMarkedNext ==
  ASSUME TypeOK, TypeOK', QueuedFromRest, EngineInv, EngineInv', RowsInv, NothingHeld,
         RunsMarked, [Next]_vars
  PROVE  RunsMarked'
<1> SUFFICES ASSUME NEW x \in Stage, inv'[epoch'][x] = "working" PROVE exec'[x] = "running"
  BY DEF RunsMarked
<1>1. state' \in Working
  <2>1. epoch' \in Epochs /\ (state' \notin Working => orch'[epoch'] \in {NoOrchestrator, Ended})
    BY DEF EngineInv, RestIsFree, TypeOK
  <2>2. x \in orch'[epoch'].active
    BY <2>1 DEF EngineInv, CallsActive
  <2> QED
    BY <2>1, <2>2 DEF NoOrchestrator, Ended
<1>2. CASE UNCHANGED <<epoch, exec>> /\ inv'[epoch] = inv[epoch]
  BY <1>2 DEF RunsMarked
<1>3. CASE Operator
  <2>1. state \in Working /\ epoch' = epoch /\ UNCHANGED inv
    BY <1>1, <1>3, OperatorOnRun DEF LeavesWorkers, engine
  <2>2. exec[x] = "running"
    BY <2>1 DEF RunsMarked
  <2> QED
    BY <1>3, <2>1, <2>2, OperatorAtWork DEF TypeOK
<1>4. CASE Delivery \/ Reconcile \/ UNCHANGED vars
  <2>1. ASSUME NEW w \in outbox, KillEpoch(w) PROVE UNCHANGED <<epoch, exec>> /\ inv'[epoch] = inv[epoch]
    <3>1. w.epoch \in Epochs /\ w.epoch # epoch
      BY <2>1, BoundsAssumption DEF KillEpoch, EngineInv, CancelsBehind, TypeOK, Wakeup, Epochs
    <3> QED
      BY <2>1, <3>1 DEF KillEpoch, TypeOK, runRow, work
  <2>2. ~Reconcile
    BY <1>1 DEF Reconcile, Working
  <2>3. UNCHANGED <<epoch, exec>> /\ inv'[epoch] = inv[epoch]
    BY <1>4, <2>1, <2>2 DEF Delivery, Dispatch, Claim, ClaimThenRestart, IgnoreWakeup,
       ReconcileOnEvent, vars, runRow, engine, work
  <2> QED
    BY <1>2, <2>3
<1>5. ASSUME NEW e \in Epochs, Orchestrate(e) PROVE exec'[x] = "running"
  <2>1. CASE e # epoch
    BY <1>2, <1>5, <2>1, RetiredOrchestrate
  <2>2. CASE e = epoch /\ (Load(e) \/ Admit(e))
    <3>1. UNCHANGED <<epoch, exec, inv>>
      BY <2>2 DEF Load, Admit, runRow, work
    <3> QED
      BY <1>2, <3>1
  <2>3. ASSUME e = epoch, NEW s \in Stage, Skip(e, s) PROVE exec'[x] = "running"
    <3>1. UNCHANGED <<epoch, inv>> /\ s \in orch[epoch].todo
      BY <2>3 DEF Skip, runRow
    <3>2. x \in orch[epoch].active /\ Drawn(orch[epoch])
      BY <2>3, <3>1 DEF EngineInv, CallsActive, CopiesDrawn
    <3>3. x # s
      BY <3>1, <3>2 DEF Drawn
    <3> QED
      BY <2>3, <3>1, <3>3 DEF Skip, RunsMarked, TypeOK
  <2>4. ASSUME e = epoch, NEW s \in Stage, InvokeStage(e, s) \/ Collect(e, s) PROVE exec'[x] = "running"
    <3>1. epoch' = epoch /\ inv'[epoch][s] \in {"requested", "none"}
          /\ \A t \in Stage : t # s => inv'[epoch][t] = inv[epoch][t] /\ exec'[t] = exec[t]
      BY <2>4 DEF InvokeStage, Collect, runRow, work, TypeOK
    <3> QED
      BY <3>1 DEF RunsMarked
  <2>5. CASE e = epoch /\ End(e) /\ orch[e].pc \in {"halt", "finish"}
    <3>1. UNCHANGED <<epoch, exec, inv>>
      BY <1>1, <1>5, <2>5, OrchestrateOnWorkers DEF End, work
    <3> QED
      BY <1>2, <3>1
  <2> QED
    BY <1>5, <2>1, <2>2, <2>3, <2>4, <2>5 DEF Orchestrate, Halt, FinishBudget, FinishQuota,
       FinishFailed, FinishWaits, FinishIdle, FinishCompleted, Finishing
<1>6. ASSUME NEW e \in Epochs, NEW s \in Stage, Execute(e, s) PROVE exec'[x] = "running"
  <2>1. epoch' = epoch
    BY <1>6, ExecuteOnRun DEF runRow
  <2>2. CASE e # epoch
    <3>1. exec' = exec /\ inv'[epoch] = inv[epoch]
      BY <1>6, <2>2, RetiredExecute, ExecuteCalls DEF TypeOK
    <3> QED
      BY <1>2, <2>1, <3>1
  <2>3. CASE e = epoch /\ x # s
    <3>1. inv'[epoch][x] = inv[epoch][x]
      BY <1>6, <2>3, ExecuteCalls DEF TypeOK
    <3>2. exec'[x] = exec[x]
      BY <1>6, <2>3 DEF Execute, BeginAttempt, JudgeHeld, AdmitInput, NotAdmitted,
         AwaitHumanInput, Finalize, OpenGate, HoldForQc, FailStage, StopStage, CrashStage, work, TypeOK
    <3> QED
      BY <2>1, <3>1, <3>2 DEF RunsMarked
  <2>4. CASE e = epoch /\ x = s
    <3>1. inv[epoch][s] \in Claiming /\ state \in Working
      BY <1>6, <2>4, ExecuteAtWork
    <3>2. exec[s] \in {"pending", "failed", "stale", "running", "cancelled"}
      BY <3>1 DEF RowsInv, RowsKnown, Settled, Awaiting, TypeOK, ExecState
    <3>3. BeginAttempt(e, s)
      BY <1>6, <2>1, <2>4 DEF Execute, JudgeHeld, NothingHeld, AdmitInput, NotAdmitted,
         AwaitHumanInput, Finalize, OpenGate, HoldForQc, FailStage, StopStage, CrashStage,
         Return, TypeOK
    <3> QED
      BY <2>4, <3>2, <3>3 DEF BeginAttempt, TypeOK
  <2> QED
    BY <2>2, <2>3, <2>4
<1> QED
  BY <1>3, <1>4, <1>5, <1>6 DEF Next, Engine

LEMMA RunsMarkedAlways ==
  ASSUME JudgedOnce
  PROVE  Spec => []RunsMarked
<1>1. Init => RunsMarked
  BY BoundsAssumption DEF Init, RunsMarked, Epochs
<1>2. /\ TypeOK /\ TypeOK' /\ QueuedFromRest /\ EngineInv /\ EngineInv' /\ RowsInv /\ NothingHeld
      /\ RunsMarked /\ [Next]_vars
      => RunsMarked'
  BY RunsMarkedNext
<1> QED
  BY <1>1, <1>2, TypeCorrect, QueuedFromRestAlways, EngineInvAlways, RowsInvAlways,
     NothingHeldAlways, PTL DEF Spec

(* An attempt works only on a stage marked running, never behind an open wait *)
(* or over an accepted output, and only on settled stages (beginAttempt), as  *)
(* long as no held output is judged again.                                    *)
THEOREM WorksOnlyOnAccepted ==
  ASSUME JudgedOnce
  PROVE  Spec => []WorksOnAccepted
<1>1. TypeOK /\ EngineInv /\ RowsInv /\ RunsMarked => WorksOnAccepted
  BY WorkingIsOpen DEF WorksOnAccepted, RunsMarked
<1> QED
  BY <1>1, TypeCorrect, EngineInvAlways, RowsInvAlways, RunsMarkedAlways, PTL

(* An output made stale is made again before it counts, under the same        *)
(* condition: nobody can approve or submit a stale stage, and a result that   *)
(* arrives finds its stage running (InvalidationService.apply,                *)
(* completeStageExecution).                                                   *)
THEOREM StaleRegenerated ==
  ASSUME JudgedOnce
  PROVE  Spec => StaleIsRegenerated
<1>1. ASSUME TypeOK, EngineInv, RowsInv, RunsMarked, [Next]_vars,
             NEW x \in Stage, exec[x] = "stale"
      PROVE  exec'[x] \notin {"passed", "awaiting_approval"}
  <2> USE <1>1
  <2>1. wait[x] = "none"
    BY DEF RowsInv, WaitsMatch, Awaiting
  <2>2. CASE Operator
    <3>1. ASSUME NEW s \in Stage, Approve(s) \/ SubmitInput(s) \/ RetryQc(s)
          PROVE  exec'[x] = "stale"
      BY <2>1, <3>1 DEF Approve, SubmitInput, RetryQc, TypeOK
    <3>2. ASSUME NEW affected, Invalidate(affected) PROVE exec'[x] = "stale"
      BY <3>2 DEF Invalidate
    <3>3. ASSUME NEW s \in Stage,
                 \/ Retry(s) \/ PatchOverrides(s) \/ \E target \in Stage : Reject(s, target)
          PROVE  exec'[x] = "stale"
      <4>1. \/ UNCHANGED exec
            \/ \E affected \in {Readers(s)} \cup {{s} \cup Readers(t) : t \in Stage} : Invalidate(affected)
        BY <3>3 DEF Retry, PatchOverrides, Reject, work
      <4> QED
        BY <3>2, <4>1
    <3>4. CASE Start \/ Pause \/ Resume \/ Cancel \/ Plan \/ UpdateExecutionSettings
      BY <3>4 DEF Start, Pause, Resume, Cancel, Plan, UpdateExecutionSettings, work
    <3> QED
      BY <2>2, <3>1, <3>3, <3>4 DEF Operator
  <2>3. CASE Delivery \/ Reconcile \/ UNCHANGED vars
    BY <2>3 DEF Delivery, Dispatch, Claim, ClaimThenRestart, IgnoreWakeup, KillEpoch,
       ReconcileOnEvent, Reconcile, vars, work
  <2>4. ASSUME NEW e \in Epochs, Orchestrate(e) PROVE exec'[x] \in {"stale", "skipped", "failed"}
    <3>1. \/ exec' = exec
          \/ \E s \in Stage : exec' \in {[exec EXCEPT ![s] = "skipped"], [exec EXCEPT ![s] = "failed"]}
      <4>1. ASSUME NEW s \in Stage, Skip(e, s) \/ InvokeStage(e, s) \/ Collect(e, s)
            PROVE  exec' \in {exec, [exec EXCEPT ![s] = "skipped"], [exec EXCEPT ![s] = "failed"]}
        BY <4>1 DEF Skip, InvokeStage, Collect, work
      <4>2. CASE Load(e) \/ Admit(e) \/ End(e)
        BY <4>2 DEF Load, Admit, End, work
      <4> QED
        BY <2>4, <4>1, <4>2 DEF Orchestrate, Halt, FinishBudget, FinishQuota, FinishFailed,
           FinishWaits, FinishIdle, FinishCompleted, Finishing
    <3> QED
      BY <3>1 DEF TypeOK
  <2>5. ASSUME NEW e \in Epochs, NEW s \in Stage, Execute(e, s)
        PROVE  exec'[x] \notin {"passed", "awaiting_approval"}
    <3>1. CASE e # epoch
      BY <2>5, <3>1, RetiredExecute
    <3>2. CASE e = epoch /\ inv[epoch][x] = "working"
      BY <3>2 DEF RunsMarked
    <3>3. CASE e = epoch /\ inv[epoch][x] # "working"
      BY <2>5, <3>3 DEF Execute, BeginAttempt, JudgeHeld, AdmitInput, NotAdmitted,
         AwaitHumanInput, Finalize, OpenGate, HoldForQc, FailStage, StopStage, CrashStage, work, TypeOK
    <3> QED
      BY <3>1, <3>2, <3>3
  <2> QED
    BY <2>2, <2>3, <2>4, <2>5 DEF Next, Engine
<1>2. TypeOK /\ EngineInv /\ RowsInv /\ RunsMarked /\ [Next]_vars =>
        \A s \in Stage : exec[s] = "stale" => exec'[s] \notin {"passed", "awaiting_approval"}
  BY <1>1
<1> QED
  BY <1>2, TypeCorrect, EngineInvAlways, RowsInvAlways, RunsMarkedAlways, PTL
  DEF Spec, StaleIsRegenerated

-----------------------------------------------------------------------------
(* Where a run rests.  Nothing an execution left behind reaches a resting     *)
(* run: its row, its wakeups, its stages and waits change by operators,       *)
(* deliveries and the reconciliation of a cancellation alone.                 *)

LEMMA WakeupInvAlways == Spec => []WakeupInv
<1>1. Init => WakeupInv
  BY DEF Init, WakeupInv, OutboxFollowsRow, StartsComeFirst, ResumesHaveOwnEpoch,
         CreatedIsFresh, ClaimsAreWork
<1> QED
  BY <1>1, WakeupInvNext, TypeCorrect, PTL DEF Spec

LEMMA WaveOnRun ==
  ASSUME NEW e \in Epochs,
         Load(e) \/ Admit(e) \/ \E s \in Stage : Skip(e, s) \/ InvokeStage(e, s) \/ Collect(e, s)
  PROVE  UNCHANGED <<runRow, mail>>
<1>1. Load(e) \/ Admit(e) => UNCHANGED <<runRow, mail>>
  BY Zenon DEF Load, Admit
<1>2. ASSUME NEW s \in Stage, Skip(e, s) \/ InvokeStage(e, s) \/ Collect(e, s)
      PROVE  UNCHANGED <<runRow, mail>>
  BY <1>2 DEF Skip, InvokeStage, Collect
<1> QED
  BY <1>1, <1>2

LEMMA EngineAtRest ==
  ASSUME TypeOK, EngineInv, state \notin Working, Engine
  PROVE  UNCHANGED <<runRow, mail, exec, wait>>
<1>1. ASSUME NEW e \in Epochs, Orchestrate(e) PROVE UNCHANGED <<runRow, mail, exec, wait>>
  <2>1. e # epoch
    BY <1>1, OrchestrateOnWorkers DEF EngineInv, RestIsFree, NoOrchestrator, Ended
  <2>2. UNCHANGED <<exec, wait>>
    BY <1>1, <2>1, RetiredOrchestrate
  <2>3. CASE Load(e) \/ Admit(e) \/ \E s \in Stage : Skip(e, s) \/ InvokeStage(e, s) \/ Collect(e, s)
    BY <2>2, <2>3, WaveOnRun
  <2>4. CASE /\ End(e)
             /\ \/ PauseForQuota(e) \/ ParkOnWaits(e)
                \/ \E target \in RunState : Transition(e, target)
    <3>1. UNCHANGED <<state, revision, epoch, outbox>>
      BY <2>1, <2>4 DEF PauseForQuota, ParkOnWaits, Transition
    <3> QED
      BY <2>2, <2>4, <3>1 DEF End, runRow, mail
  <2> QED
    BY <1>1, <2>3, <2>4 DEF Orchestrate, Halt, FinishBudget, FinishQuota,
       FinishFailed, FinishWaits, FinishIdle, FinishCompleted, Finishing, RunState
<1>2. ASSUME NEW e \in Epochs, NEW s \in Stage, Execute(e, s)
      PROVE  UNCHANGED <<runRow, mail, exec, wait>>
  <2>1. e # epoch
    BY <1>2, ExecuteAtWork
  <2> QED
    BY <1>2, <2>1, ExecuteOnRun, RetiredExecute
<1> QED
  BY <1>1, <1>2 DEF Engine

(* A transaction that resumes the run leaves a wakeup that can be claimed.    *)
LEMMA MutationWakes ==
  ASSUME TypeOK, WakeupInv, NEW action, NEW allowed,
         Mutation(action, allowed, "run/resumed", TRUE), state # "RUNNING", state' = state
  PROVE  \E w \in outbox' : w.event = "run/resumed" /\ Claimable(w)' /\ Queued(w)'
<1>0. PICK w : w = Wake("run/resumed", action, revision + 1, epoch + 1)
  OBVIOUS
<1>1. /\ epoch' = epoch + 1 /\ revision' = revision + 1
      /\ outbox' = outbox \cup {w} /\ claimed' = claimed
      /\ state \in AllowedStates[action]
  BY <1>0 DEF Mutation, NextEpoch
<1>2. /\ w.event = "run/resumed" /\ w.action = action /\ w.source = state
      /\ w.revision = revision + 1 /\ w.epoch = epoch + 1 /\ w.timed = FALSE
  BY <1>0 DEF Wake
<1>3. w \notin claimed
  <2>1. \A c \in claimed : c.epoch <= epoch /\ c.epoch \in Int
    BY BoundsAssumption DEF TypeOK, Wakeup, Epochs, WakeupInv, OutboxFollowsRow
  <2> QED
    BY <1>2, <2>1, BoundsAssumption DEF TypeOK, Epochs
<1>4. Claimable(w)' /\ Queued(w)'
  BY <1>1, <1>2, <1>3 DEF Claimable, Queued
<1> QED
  BY <1>1, <1>2, <1>4

(* COMPLETED means every stage is passed or skipped, or work on it is queued  *)
(* again: the run is completed on the orchestrator's copy, which the rows     *)
(* agree with, and what makes a stage of a completed run unfinished queues a  *)
(* wakeup in the same transaction (finish, RunMutationService).               *)
THEOREM CompletedDone == Spec => []CompletedMeansDone
<1>1. Init => CompletedMeansDone
  BY DEF Init, CompletedMeansDone
<1>2. ASSUME TypeOK, WakeupInv, EngineInv, RowsInv, CompletedMeansDone, [Next]_vars
      PROVE  CompletedMeansDone'
  <2> USE <1>2
  <2> SUFFICES ASSUME state' = "COMPLETED"
               PROVE  SomeQueued' \/ \A s \in Stage : exec'[s] \in Settled
    BY DEF CompletedMeansDone
  <2>1. CASE /\ state = "COMPLETED" /\ UNCHANGED <<revision, epoch, outbox, claimed, exec>>
             /\ sent \subseteq sent'
    BY <2>1 DEF CompletedMeansDone, SomeQueued, Queued
  <2>2. CASE Operator
    <3>1. /\ state = "COMPLETED"
          /\ \A action \in {"approve", "reject", "retry_qc", "submit_input"} : ~Answer(action)
      <4>1. ~Pause /\ ~Cancel
        BY DEF Pause, Cancel
      <4>2. ASSUME NEW action \in {"approve", "reject", "retry_qc", "submit_input"}, Answer(action)
            PROVE  FALSE
        <5>1. state # "COMPLETED"
          BY <4>2 DEF Answer, Mutation, AllowedStates, AnswerStates, ParkedOnWait
        <5> QED
          BY <4>2, <5>1 DEF Answer, PausedStateFor
      <4> QED
        BY <2>2, <4>1, <4>2 DEF Operator, Start, Resume, Plan, UpdateExecutionSettings, Approve,
           SubmitInput, RetryQc, Retry, PatchOverrides, Reject
    <3>2. ASSUME NEW action, NEW allowed, Mutation(action, allowed, "run/resumed", TRUE)
          PROVE  SomeQueued'
      <4>1. \E w \in outbox' : Queued(w)'
        BY <3>1, <3>2, MutationWakes
      <4> QED
        BY <4>1 DEF SomeQueued
    <3>3. CASE UpdateExecutionSettings
      BY <3>1, <3>3 DEF UpdateExecutionSettings, Busy, CompletedMeansDone, SomeQueued, work
    <3>4. CASE Plan
      BY <3>2, <3>4 DEF Plan
    <3>5. ASSUME NEW s \in Stage, Retry(s) PROVE SomeQueued'
      BY <3>2, <3>5 DEF Retry
    <3>6. ~Start /\ ~Pause /\ ~Resume /\ ~Cancel /\ \A s \in Stage : ~PatchOverrides(s)
      BY <3>1 DEF Start, Pause, Resume, Cancel, PatchOverrides, Mutation, AllowedStates, PausedStates
    <3> QED
      BY <2>2, <3>1, <3>3, <3>4, <3>5, <3>6 DEF Operator, Approve, SubmitInput, RetryQc, Reject
  <2>3. CASE Delivery \/ Reconcile \/ UNCHANGED vars
    BY <2>1, <2>3 DEF Delivery, Dispatch, Claim, ClaimThenRestart, IgnoreWakeup, KillEpoch,
       ReconcileOnEvent, Reconcile, vars, runRow, mail, work
  <2>4. CASE Engine /\ state \notin Working
    BY <2>1, <2>4, EngineAtRest DEF runRow, mail
  <2>5. CASE Engine /\ state \in Working
    <3>1. PICK e \in Epochs : Orchestrate(e)
      BY <2>5, ExecuteOnRun DEF Engine, runRow, Working
    <3>2. epoch = e /\ state = "RUNNING" /\ state' # state
      BY <2>5, <3>1, OrchestrateOnRun DEF Working
    <3>3. FinishCompleted(e)
      BY <3>1, <3>2 DEF Orchestrate, Load, Admit, Skip, InvokeStage, Collect, Halt, FinishBudget,
         FinishQuota, FinishFailed, FinishWaits, FinishIdle, PauseForQuota, ParkOnWaits,
         PausedStateFor, Transition, runRow
    <3>4. AllDone(orch[epoch]) /\ exec' = exec
      <4>1. orch[e].stopped \in {"none", "budget", "quota"}
        BY DEF TypeOK, Orchestrator
      <4> QED
        BY <3>2, <3>3, <4>1 DEF FinishCompleted, Finishing, End, work
    <3>5. \A s \in orch[epoch].done : exec[s] \in Settled
      BY <3>2 DEF RowsInv, RowsKnown, Working
    <3> QED
      BY <3>4, <3>5, AllDoneAreDone
  <2> QED
    BY <2>2, <2>3, <2>4, <2>5 DEF Next
<1>3. /\ TypeOK /\ WakeupInv /\ EngineInv /\ RowsInv /\ CompletedMeansDone /\ [Next]_vars
      => CompletedMeansDone'
  BY <1>2
<1> QED
  BY <1>1, <1>3, TypeCorrect, WakeupInvAlways, EngineInvAlways, RowsInvAlways, PTL DEF Spec

(* Only a pause for quota leaves a wakeup that is held back. *)
TimedIsQuota == \A w \in outbox : w.timed => w.source = "PAUSED_QUOTA"

LEMMA TimedIsQuotaAlways == Spec => []TimedIsQuota
<1>1. Init => TimedIsQuota
  BY DEF Init, TimedIsQuota
<1>2. ASSUME TimedIsQuota, [Next]_vars PROVE TimedIsQuota'
  <2> USE <1>2
  <2> SUFFICES \A w \in outbox' \ outbox : w.timed => w.source = "PAUSED_QUOTA"
    BY DEF TimedIsQuota
  <2>1. CASE Operator
    <3>1. ASSUME NEW action, NEW allowed, NEW event, NEW wakes, Mutation(action, allowed, event, wakes)
          PROVE  \A w \in outbox' \ outbox : w.timed = FALSE
      BY <3>1 DEF Mutation, Wake
    <3>2. CASE Cancel
      BY <3>2 DEF Cancel, Wake
    <3>3. ASSUME NEW action, Answer(action) PROVE \A w \in outbox' \ outbox : w.timed = FALSE
      BY <3>1, <3>3 DEF Answer
    <3>4. CASE Start \/ Pause \/ Resume \/ Plan \/ UpdateExecutionSettings
      BY <3>1, <3>4 DEF Start, Pause, Resume, Plan, UpdateExecutionSettings
    <3>5. ASSUME NEW s \in Stage,
                 \/ Approve(s) \/ SubmitInput(s) \/ RetryQc(s) \/ \E target \in Stage : Reject(s, target)
          PROVE  \A w \in outbox' \ outbox : w.timed = FALSE
      BY <3>3, <3>5 DEF Approve, SubmitInput, RetryQc, Reject
    <3>6. ASSUME NEW s \in Stage, Retry(s) \/ PatchOverrides(s)
          PROVE  \A w \in outbox' \ outbox : w.timed = FALSE
      <4>1. CASE Mutation("retry", PausedStates \cup {"FAILED", "COMPLETED"}, "run/resumed", TRUE)
        BY <3>1, <4>1
      <4>2. CASE \/ Mutation("patch_overrides", RunState, "run/resumed", TRUE)
                 \/ Mutation("patch_overrides", RunState, "run/config-updated", FALSE)
        BY <3>1, <4>2
      <4> QED
        BY <3>6, <4>1, <4>2 DEF Retry, PatchOverrides
    <3> QED
      BY <2>1, <3>2, <3>4, <3>5, <3>6 DEF Operator
  <2>2. CASE Delivery \/ Reconcile \/ UNCHANGED vars
    BY <2>2 DEF Delivery, Dispatch, Claim, ClaimThenRestart, IgnoreWakeup, KillEpoch,
       ReconcileOnEvent, Reconcile, vars, mail
  <2>3. ASSUME NEW e \in Epochs, Orchestrate(e)
        PROVE  \A w \in outbox' \ outbox : w.timed => w.source = "PAUSED_QUOTA"
    <3>1. CASE Load(e) \/ Admit(e) \/ \E s \in Stage : Skip(e, s) \/ InvokeStage(e, s) \/ Collect(e, s)
      BY <3>1, WaveOnRun DEF mail
    <3>2. CASE PauseForQuota(e)
      BY <3>2 DEF PauseForQuota
    <3>3. CASE ParkOnWaits(e)
      BY <3>3 DEF ParkOnWaits, Transition
    <3>4. CASE \E target : Transition(e, target)
      BY <3>4 DEF Transition
    <3> QED
      BY <2>3, <3>1, <3>2, <3>3, <3>4 DEF Orchestrate, Halt, FinishBudget, FinishQuota,
         FinishFailed, FinishWaits, FinishIdle, FinishCompleted
  <2>4. ASSUME NEW e \in Epochs, NEW s \in Stage, Execute(e, s) PROVE UNCHANGED outbox
    BY <2>4, ExecuteOnRun DEF mail
  <2> QED
    BY <2>1, <2>2, <2>3, <2>4 DEF Next, Engine
<1>3. TimedIsQuota /\ [Next]_vars => TimedIsQuota'
  BY <1>2
<1> QED
  BY <1>1, <1>3, PTL DEF Spec

WayOut == LiveWaits(exec, wait) # {} \/ \E w \in outbox : w.event = "run/resumed" /\ Claimable(w)

(* An answer to a parked run leaves a wait to answer, or wakes the run. *)
LEMMA AnswerLeavesWayOut ==
  ASSUME TypeOK, WakeupInv, NEW action \in {"approve", "reject", "retry_qc", "submit_input"},
         Answer(action), state' \in ParkedOnWait
  PROVE  WayOut'
<1>1. Mutation(action, RunState, "run/resumed", Wakes(wait'))
      /\ state' = IF state \in ParkedOnWait /\ ~Wakes(wait') THEN PausedStateFor(exec', wait') ELSE state
  BY DEF Answer
<1>2. state \in ParkedOnWait
  BY <1>1
<1>3. CASE LiveWaits(exec', wait') # {}
  BY <1>3 DEF WayOut, LiveWaits
<1>4. CASE LiveWaits(exec', wait') = {}
  <2>1. Wakes(wait') = TRUE
    BY <1>2, <1>4 DEF Wakes
  <2>2. state' = state /\ state # "RUNNING"
    BY <1>1, <1>2, <2>1 DEF ParkedOnWait
  <2>3. Mutation(action, RunState, "run/resumed", TRUE)
    BY <1>1, <2>1
  <2>4. \E w \in outbox' : w.event = "run/resumed" /\ Claimable(w)' /\ Queued(w)'
    BY <2>2, <2>3, MutationWakes
  <2> QED
    BY <2>4 DEF WayOut
<1> QED
  BY <1>3, <1>4

LEMMA OperatorLeavesWayOut ==
  ASSUME "patch_overrides" \notin Ops, TypeOK, WakeupInv, TimedIsQuota, ParkedHasWayOut, Operator,
         state' \in ParkedOnWait
  PROVE  WayOut'
<1>1. ASSUME NEW s \in Stage,
             \/ Approve(s) \/ SubmitInput(s) \/ RetryQc(s) \/ \E target \in Stage : Reject(s, target)
      PROVE  WayOut'
  BY <1>1, AnswerLeavesWayOut DEF Approve, SubmitInput, RetryQc, Reject
<1>2. ~Pause /\ ~Cancel /\ \A s \in Stage : ~PatchOverrides(s)
  BY DEF Pause, Cancel, PatchOverrides, ParkedOnWait
<1>3. ~Start /\ ~Resume
  BY DEF Start, Resume, Mutation, AllowedStates, ParkedOnWait
<1>4. ASSUME NEW action, NEW allowed, Mutation(action, allowed, "run/resumed", TRUE), state' = state
      PROVE  WayOut'
  <2>1. \E w \in outbox' : w.event = "run/resumed" /\ Claimable(w)' /\ Queued(w)'
    BY <1>4, MutationWakes DEF ParkedOnWait
  <2> QED
    BY <2>1 DEF WayOut
<1>5. CASE Plan
  BY <1>4, <1>5 DEF Plan
<1>6. ASSUME NEW s \in Stage, Retry(s) PROVE WayOut'
  BY <1>4, <1>6 DEF Retry
<1>7. CASE UpdateExecutionSettings
  <2>1. state \in ParkedOnWait /\ UNCHANGED <<exec, wait>> /\ ~Busy
    BY <1>7 DEF UpdateExecutionSettings, work
  <2>2. ASSUME NEW w \in outbox, w.event = "run/resumed", Claimable(w) PROVE FALSE
    <3>1. ~w.timed
      BY <2>1, <2>2 DEF Claimable, TimedIsQuota, ParkedOnWait
    <3>2. Queued(w)
      BY <2>2, <3>1 DEF Claimable, Queued
    <3> QED
      BY <2>1, <3>2 DEF Busy
  <2>3. LiveWaits(exec, wait) # {}
    BY <2>1, <2>2 DEF ParkedHasWayOut
  <2> QED
    BY <2>1, <2>3 DEF WayOut, LiveWaits
<1> QED
  BY <1>1, <1>2, <1>3, <1>5, <1>6, <1>7 DEF Operator

LEMMA OrchestrateLeavesWayOut ==
  ASSUME TypeOK, WakeupInv, NEW e \in Epochs, Orchestrate(e), state \in Working,
         state' \in ParkedOnWait
  PROVE  WayOut'
<1>1. epoch = e /\ state = "RUNNING" /\ state' # state
  BY OrchestrateOnRun DEF Working, ParkedOnWait
<1>2. FinishWaits(e)
  <2>1. ~(Load(e) \/ Admit(e) \/ \E s \in Stage : Skip(e, s) \/ InvokeStage(e, s) \/ Collect(e, s))
    BY <1>1, WaveOnRun DEF runRow
  <2>2. ~PauseForQuota(e)
    BY <1>1 DEF PauseForQuota, ParkedOnWait
  <2>3. \A target \in {"PAUSED_MANUAL", "PAUSED_BUDGET", "FAILED", "IDLE", "COMPLETED"} :
          ~Transition(e, target)
    BY <1>1 DEF Transition, ParkedOnWait
  <2> QED
    BY <2>1, <2>2, <2>3 DEF Orchestrate, Halt, FinishBudget, FinishQuota, FinishFailed,
       FinishIdle, FinishCompleted
<1>3. ParkOnWaits(e) /\ UNCHANGED <<exec, wait, claimed>>
  BY <1>2 DEF FinishWaits, Finishing, End, work
<1>4. CASE LiveWaits(exec, wait) # {}
  BY <1>3, <1>4 DEF WayOut, LiveWaits
<1>5. CASE LiveWaits(exec, wait) = {}
  <2>1. PICK w : w = [event |-> "run/resumed", action |-> "approve", source |-> "PAUSED_APPROVAL",
                      revision |-> revision, epoch |-> epoch + 1, timed |-> FALSE]
    OBVIOUS
  <2>2. /\ epoch' = epoch + 1 /\ revision' = revision /\ state' = "PAUSED_APPROVAL" /\ w \in outbox'
    BY <1>1, <1>3, <1>5, <2>1 DEF ParkOnWaits
  <2>3. w \notin claimed
    <3>1. \A c \in claimed : c.epoch <= epoch /\ c.epoch \in Int
      BY BoundsAssumption DEF TypeOK, Wakeup, Epochs, WakeupInv, OutboxFollowsRow
    <3> QED
      BY <2>1, <3>1, BoundsAssumption DEF TypeOK, Epochs
  <2>4. Claimable(w)' /\ w.event = "run/resumed"
    BY <1>3, <2>1, <2>2, <2>3 DEF Claimable, AllowedStates, AnswerStates, ParkedOnWait
  <2> QED
    BY <2>2, <2>4 DEF WayOut
<1> QED
  BY <1>4, <1>5

(* A run parked on a person has a wait to answer or a wakeup on its way, in   *)
(* whatever order answers and the end of the run's work meet                  *)
(* (HumanActionService.settleAnswer, RunStateService.parkOnWaits), as long as *)
(* no overrides are saved, which drop a wakeup without asking whether one is  *)
(* on its way.                                                                *)
THEOREM WayOutKept ==
  ASSUME "patch_overrides" \notin Ops
  PROVE  Spec => []ParkedHasWayOut
<1>1. Init => ParkedHasWayOut
  BY DEF Init, ParkedHasWayOut, ParkedOnWait
<1>2. ASSUME TypeOK, WakeupInv, EngineInv, TimedIsQuota, ParkedHasWayOut, [Next]_vars
      PROVE  ParkedHasWayOut'
  <2> USE <1>2
  <2> SUFFICES ASSUME state' \in ParkedOnWait PROVE WayOut'
    BY DEF ParkedHasWayOut, WayOut
  <2>1. CASE state' = state /\ UNCHANGED <<revision, epoch, outbox, claimed, exec, wait>>
    <3>1. WayOut
      BY <2>1 DEF ParkedHasWayOut, WayOut
    <3> QED
      BY <2>1, <3>1 DEF WayOut, LiveWaits, Claimable
  <2>2. CASE Delivery \/ Reconcile \/ UNCHANGED vars
    BY <2>1, <2>2 DEF Delivery, Dispatch, Claim, ClaimThenRestart, IgnoreWakeup, KillEpoch,
       ReconcileOnEvent, Reconcile, vars, runRow, mail, work, ParkedOnWait
  <2>3. CASE Engine /\ state \notin Working
    BY <2>1, <2>3, EngineAtRest DEF runRow, mail
  <2>4. CASE Engine /\ state \in Working
    <3>1. PICK e \in Epochs : Orchestrate(e)
      BY <2>4, ExecuteOnRun DEF Engine, runRow, Working, ParkedOnWait
    <3> QED
      BY <2>4, <3>1, OrchestrateLeavesWayOut
  <2> QED
    BY <2>2, <2>3, <2>4, OperatorLeavesWayOut DEF Next
<1>3. TypeOK /\ WakeupInv /\ EngineInv /\ TimedIsQuota /\ ParkedHasWayOut /\ [Next]_vars => ParkedHasWayOut'
  BY <1>2
<1> QED
  BY <1>1, <1>3, TypeCorrect, WakeupInvAlways, EngineInvAlways, TimedIsQuotaAlways, PTL DEF Spec
=============================================================================
