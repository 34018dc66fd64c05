------------------------------- MODULE Items -------------------------------
(***************************************************************************)
(* The iterating stages of a run: one `stage_item` row for every element of *)
(* a list, run in batches, each item reviewed, failed, made again or kept   *)
(* on its own.  `source` makes the list, `items` iterates over it, `clips`  *)
(* iterates over it as well and reads, for each element, the item of        *)
(* `items` at the same place (alignWith: item).                             *)
(*                                                                          *)
(* The fences of an execution (epochs, wakeups, late functions) are the     *)
(* subject of RunControl: here a stop takes the functions with it.          *)
(***************************************************************************)
EXTENDS Integers, FiniteSets

CONSTANTS
  MaxItems,     \* bound: the longest list the source makes
  Sizes,        \* the lengths it may have
  Modes,        \* approval of `items`: "none", "item", "stage"
  Concurrency,  \* iterate.concurrency of each iterating stage
  BindsPrev,    \* the iterating stages whose items read the item before
  Results,      \* what an item's function may come to
  Ops,          \* the operations users are offered in this instance
  MaxVersion,   \* bound: outputs of the source
  MaxOps        \* bound: operations of users, approvals not counted

Iter == {"items", "clips"}
ItemResults == {"passed", "failed", "crash", "budget_blocked", "run_not_running"}
Operations  == {"pause", "stop", "approve", "reject", "continue", "keep", "edit_source",
                "rerun_source", "rerun_stage", "rerun_item", "retry_source",
                "retry_failed"}

ASSUME ItemsAssumption ==
  /\ MaxItems \in Nat \ {0}
  /\ Sizes \subseteq 1..MaxItems
  /\ Modes \subseteq {"none", "item", "stage"}
  /\ Concurrency \in [Iter -> Nat \ {0}]
  /\ BindsPrev \subseteq Iter
  /\ Results \subseteq ItemResults
  /\ Ops \subseteq Operations
  /\ MaxVersion \in Nat
  /\ MaxOps \in Nat

VARIABLES
  mode,      \* approval mode of `items`; `clips` has none
  state,     \* run.state
  scope,     \* run.execution_scope
  source,    \* stage_execution.state of the source
  version,   \* its newest output, 0 for none
  size,      \* how many elements that output has
  exec,      \* [Iter -> ExecState], stage_execution.state
  count,     \* [Iter -> Nat], item_count, 0 before there is one
  item,      \* [Iter -> [Slots -> ItemState]], the stage_item rows
  read,      \* provenance of an item's newest attempt: the list it read, 0 if
             \* none is recorded (a clip then has no item recorded either)
  print,     \* input_fingerprint of an item: the list it stands for
  from,      \* ghost: the list its accepted result comes from
  wait,      \* open approval waits on `items`: slots, or Whole
  orch,      \* run.orchestrate
  fn,        \* stage.execute of an iterating stage
  ops        \* operations of users so far

runRow == <<state, scope>>
first  == <<source, version, size>>
rows   == <<exec, count, item, read, print, from, wait>>
vars   == <<mode, runRow, first, rows, orch, fn, ops>>

Slots    == 0..(MaxItems - 1)
Whole    == MaxItems          \* the wait of a stage reviewed as a whole
Versions == 0..MaxVersion
Stages   == {"source"} \cup Iter
RunState == {"RUNNING", "PAUSING", "PAUSED_MANUAL", "PAUSED_APPROVAL",
             "PAUSED_BUDGET", "FAILED", "CANCELLED", "IDLE", "COMPLETED"}
ExecState == {"pending", "running", "passed", "failed", "stale", "cancelled",
              "awaiting_approval"}
ItemState == {"none", "pending", "running", "passed", "failed", "stale",
              "awaiting_approval"}
Live == state \in {"RUNNING", "PAUSING"}
Mode(s) == IF s = "items" THEN mode ELSE "none"

(* InvalidationService.preview: a row at or past the count is an orphan of   *)
(* an earlier, longer list.                                                  *)
LiveSlots(s) == {i \in Slots : i < count[s]}
(* HumanWaitService.liveOpenWaits: the stage or item still waits. *)
LiveWaits(q, x, it) ==
  {w \in q : IF w = Whole THEN x["items"] = "awaiting_approval"
                          ELSE it["items"][w] = "awaiting_approval"}
LiveWait == LiveWaits(wait, exec, item) # {}

NoWork == [at |-> "none", stage |-> "items", start |-> 0, todo |-> {}, busy |-> {},
           got |-> {}, still |-> FALSE, result |-> "none"]
NoPlan == [at |-> "none", row |-> [s \in Stages |-> "pending"], work |-> {},
           open |-> FALSE, why |-> {}]

Init ==
  /\ mode \in Modes
  /\ state = "RUNNING" /\ scope = Stages
  /\ source = "pending" /\ version = 0 /\ size = 0
  /\ exec = [s \in Iter |-> "pending"] /\ count = [s \in Iter |-> 0]
  /\ item = [s \in Iter |-> [i \in Slots |-> "none"]]
  /\ read = [s \in Iter |-> [i \in Slots |-> 0]] /\ print = read /\ from = read
  /\ wait = {}
  /\ orch = [NoPlan EXCEPT !.at = "load"]
  /\ fn = NoWork
  /\ ops = 0

-----------------------------------------------------------------------------
(* run.orchestrate.  Its copy of the rows is as old as the execution.       *)

Copied(s) == IF s \in {"failed", "cancelled", "running"} THEN "pending" ELSE s
Loaded(work) ==
  [at |-> "plan",
   row |-> [s \in Stages |-> Copied(IF s = "source" THEN source ELSE exec[s])],
   work |-> work, open |-> LiveWait, why |-> {}]

(* load-stage-executions: a passed stage may still have items to make.      *)
LoadStagesOnly ==   \* mutant
  /\ orch.at = "load"
  /\ orch' = Loaded({})
  /\ UNCHANGED <<mode, runRow, first, rows, fn, ops>>
Load ==
  /\ orch.at = "load"
  /\ orch' = Loaded({s \in Iter : \E i \in Slots : item[s][i] \notin {"none", "passed"}})
  /\ UNCHANGED <<mode, runRow, first, rows, fn, ops>>

(* planWave over the three stages. *)
Before(s) == CASE s = "source" -> {} [] s = "items" -> {"source"} [] OTHER -> {"source", "items"}
Settled(s) == orch.row[s] = "passed" /\ s \notin orch.work
PlanDone(s) == \A t \in Before(s) \cup {s} : Settled(t)
AllDone == \A s \in Stages : PlanDone(s)
ReadyAgain == {s \in scope :   \* mutant
            /\ ~PlanDone(s) /\ \A t \in Before(s) : PlanDone(t)
            /\ ~(s = "items" /\ orch.open)}
Ready == {s \in scope :
            /\ ~PlanDone(s) /\ \A t \in Before(s) : PlanDone(t)
            /\ ~(s = "items" /\ orch.open)
            /\ orch.row[s] \notin {"failed", "running", "cancelled"}}
MayStart(s) ==
  /\ orch.at = "plan"
  /\ state = "RUNNING"
  /\ "budget_blocked" \notin orch.why
  /\ s \in Ready

(* The source makes its list, of any length, as one step. *)
MakeList ==
  /\ MayStart("source")
  /\ version < MaxVersion
  /\ source' = "passed"
  /\ version' = version + 1
  /\ size' \in Sizes
  /\ orch' = [orch EXCEPT !.row["source"] = "passed"]
  /\ UNCHANGED <<mode, runRow, rows, fn, ops>>

StartStage(s) ==
  /\ MayStart(s)
  /\ fn' = [NoWork EXCEPT !.at = "resolve", !.stage = s]
  /\ orch' = [orch EXCEPT !.at = "collect", !.row[s] = "running"]
  /\ UNCHANGED <<mode, runRow, first, rows, ops>>

(* What stage.execute came to. A crash is written by the orchestrator.      *)
Collect ==
  /\ orch.at = "collect"
  /\ fn.at = "done"
  /\ LET s == fn.stage
         r == fn.result IN
     /\ orch' = [orch EXCEPT
          !.at = "plan",
          !.row[s] = CASE r = "passed" -> "passed"
                       [] r = "approval_required" -> "awaiting_approval"
                       [] r = "run_not_running" -> "cancelled"
                       [] OTHER -> "failed",
          !.work = IF r = "passed" THEN @ \ {s} ELSE @,
          !.open = @ \/ r = "approval_required",
          !.why = @ \cup {IF r = "crash" THEN "failed" ELSE r}]
     /\ exec' = IF r = "crash" /\ Live THEN [exec EXCEPT ![s] = "failed"] ELSE exec
  /\ fn' = NoWork
  /\ UNCHANGED <<mode, runRow, first, count, item, read, print, from, wait, ops>>

Wake == state' = "RUNNING" /\ orch' = [NoPlan EXCEPT !.at = "load"]

(* Nothing is active and nothing can start: the run ends, in this order.    *)
Resting ==
  /\ orch.at = "plan"
  /\ state = "PAUSING" \/ "budget_blocked" \in orch.why \/ Ready = {}
End(s) == state' = s /\ orch' = NoPlan
EndPause    == state = "PAUSING" /\ End("PAUSED_MANUAL") /\ UNCHANGED wait
EndBudget   == /\ state = "RUNNING" /\ "budget_blocked" \in orch.why
               /\ End("PAUSED_BUDGET") /\ UNCHANGED wait
EndFailed   == /\ state = "RUNNING"
               /\ "budget_blocked" \notin orch.why /\ "failed" \in orch.why
               /\ End("FAILED") /\ UNCHANGED wait
(* parkOnWaits closes the waits nobody can answer and reads the others.     *)
EndWaiting  == /\ state = "RUNNING"
               /\ orch.why \cap {"budget_blocked", "failed"} = {}
               /\ "approval_required" \in orch.why \/ orch.open
               /\ wait' = LiveWaits(wait, exec, item)
               /\ \/ wait' # {} /\ End("PAUSED_APPROVAL")
                  \/ wait' = {} /\ Wake
EndDone     == /\ state = "RUNNING"
               /\ orch.why \cap {"budget_blocked", "failed", "approval_required"} = {}
               /\ ~orch.open
               /\ End(IF AllDone THEN "COMPLETED" ELSE "IDLE") /\ UNCHANGED wait
Finish ==
  /\ Resting
  /\ EndPause \/ EndBudget \/ EndFailed \/ EndWaiting \/ EndDone
  /\ UNCHANGED <<mode, scope, first, exec, count, item, read, print, from, fn, ops>>

-----------------------------------------------------------------------------
(* stage.execute, the outer loop of an iterating stage.                     *)

Stage == fn.stage
Return(r) == fn' = [NoWork EXCEPT !.at = "done", !.stage = Stage, !.result = r]

(* Admission, then resolveIterateCount: a stage has as many items as the    *)
(* stage of the same list that it reads item by item, and an accepted item  *)
(* must stand for the same element.  A pause may fall between the two.      *)
Misaligned == Stage = "clips" /\ count["items"] \notin {0, size}
Mismatched == {i \in Slots : item[Stage][i] = "passed" /\ (i >= size \/ print[Stage][i] # version)}
ResolveAnything ==   \* mutant
  /\ fn.at = "resolve"
  /\ fn' = [fn EXCEPT !.at = "ensure"]
  /\ UNCHANGED <<mode, runRow, first, rows, orch, ops>>
Resolve ==
  /\ fn.at = "resolve"
  /\ \/ state # "RUNNING" /\ Return("run_not_running") /\ UNCHANGED exec
     \/ /\ Live /\ (Misaligned \/ Mismatched # {})
        /\ exec' = [exec EXCEPT ![Stage] = "failed"]
        /\ Return("failed")
     \/ /\ Live /\ ~ Misaligned /\ Mismatched = {}
        /\ fn' = [fn EXCEPT !.at = "ensure"]
        /\ UNCHANGED exec
  /\ UNCHANGED <<mode, runRow, first, count, item, read, print, from, wait, orch, ops>>

(* ensureStageItems: another count is refused (thrown) unless every row is  *)
(* stale; rows past the count stay.                                         *)
CountRefused ==
  /\ count[Stage] \notin {0, size}
  /\ \E i \in Slots : item[Stage][i] \notin {"none", "stale"}
Ensure ==
  /\ fn.at = "ensure"
  /\ \/ state # "RUNNING" /\ Return("run_not_running") /\ UNCHANGED <<count, item, print>>
     \/ state = "RUNNING" /\ CountRefused /\ Return("crash") /\ UNCHANGED <<count, item, print>>
     \/ /\ state = "RUNNING" /\ ~CountRefused
        /\ count' = [count EXCEPT ![Stage] = size]
        /\ item' = [item EXCEPT ![Stage] = [i \in Slots |->
                      IF i < size /\ @[i] = "none" THEN "pending" ELSE @[i]]]
        /\ print' = [print EXCEPT ![Stage] = [i \in Slots |-> IF i < size THEN version ELSE @[i]]]
        /\ fn' = [fn EXCEPT !.at = "batch"]
  /\ UNCHANGED <<mode, runRow, first, exec, read, from, wait, orch, ops>>

NextBatch == fn.start + Concurrency[Stage]
Batch == {i \in LiveSlots(Stage) : fn.start <= i /\ i < NextBatch}
DueAgain(it) == it # "awaiting_approval"      \* mutant
Due(it) == it \notin {"passed", "awaiting_approval"}
StartBatch ==
  /\ fn.at = "batch"
  /\ IF state # "RUNNING" THEN Return("run_not_running")
     ELSE fn' = [fn EXCEPT !.at = "run", !.got = {},
                   !.todo = {i \in Batch : Due(item[Stage][i])},
                   !.still = \E i \in Batch : item[Stage][i] = "awaiting_approval"]
  /\ UNCHANGED <<mode, runRow, first, rows, orch, ops>>

(* stage.execute.item up to beginAttempt, which also revives the stage row. *)
BeginItem(i) ==
  /\ fn.at = "run" /\ i \in fn.todo
  /\ IF state = "RUNNING"
       THEN /\ item' = [item EXCEPT ![Stage][i] = "running"]
            /\ read' = [read EXCEPT ![Stage][i] = version]
            /\ exec' = [exec EXCEPT ![Stage] =
                          IF @ \in {"passed", "awaiting_approval"} THEN @ ELSE "running"]
            /\ fn' = [fn EXCEPT !.todo = @ \ {i}, !.busy = @ \cup {i}]
       ELSE /\ fn' = [fn EXCEPT !.todo = @ \ {i}, !.got = @ \cup {"run_not_running"}]
            /\ UNCHANGED <<item, read, exec>>
  /\ UNCHANGED <<mode, runRow, first, count, print, from, wait, orch, ops>>

(* What the item's attempts come to.  An output to be reviewed opens a wait *)
(* of its own and leaves the stage row alone; a crash, a budget stop and a  *)
(* pause leave the item `running`.                                          *)
ItemAfterAny(r, it) == r                      \* mutant
ItemAfter(r, it) == IF r \in {"passed", "failed"} THEN r ELSE it
EndItem(i, r) ==
  /\ fn.at = "run" /\ i \in fn.busy
  /\ r = "run_not_running" => state # "RUNNING"
  /\ LET review == r = "passed" /\ Mode(Stage) = "item" IN
     /\ item' = [item EXCEPT ![Stage][i] = IF review THEN "awaiting_approval" ELSE ItemAfter(r, @)]
     /\ from' = [from EXCEPT ![Stage][i] = IF r = "passed" THEN read[Stage][i] ELSE @]
     /\ wait' = IF review THEN wait \cup {i} ELSE wait
     /\ fn' = [fn EXCEPT !.busy = @ \ {i},
                         !.got = @ \cup {IF review THEN "approval_required" ELSE r}]
  /\ UNCHANGED <<mode, runRow, first, exec, count, read, print, orch, ops>>

(* The batch has ended.  STOP_PRIORITY decides what the stage reports.      *)
Priority == <<"crash", "failed", "budget_blocked", "run_not_running", "approval_required">>
Worst(got) == Priority[CHOOSE k \in DOMAIN Priority :
                 /\ Priority[k] \in got
                 /\ \A j \in DOMAIN Priority : Priority[j] \in got => k <= j]
Advance ==
  \/ fn.got \ {"passed"} # {} /\ Return(Worst(fn.got))
  \/ fn.got \subseteq {"passed"} /\ fn.still /\ Return("approval_required")
  \/ /\ fn.got \subseteq {"passed"} /\ ~fn.still
     /\ fn' = IF NextBatch < count[Stage] THEN [fn EXCEPT !.at = "batch", !.start = NextBatch]
                                          ELSE [fn EXCEPT !.at = "finish", !.start = 0]
EndBatchSilently ==   \* mutant
  /\ fn.at = "run" /\ fn.todo = {} /\ fn.busy = {}
  /\ Advance
  /\ UNCHANGED <<mode, runRow, first, rows, orch, ops>>
EndBatch ==
  /\ fn.at = "run" /\ fn.todo = {} /\ fn.busy = {}
  /\ exec' = IF "failed" \in fn.got /\ "crash" \notin fn.got /\ Live
               THEN [exec EXCEPT ![Stage] = "failed"] ELSE exec
  /\ Advance
  /\ UNCHANGED <<mode, runRow, first, count, item, read, print, from, wait, orch, ops>>

(* finishIteratingStage: passed, or reviewed as a whole.                    *)
FinishStage ==
  /\ fn.at = "finish"
  /\ \/ /\ item[Stage][count[Stage] - 1] # "passed"
        /\ Return("crash")
        /\ UNCHANGED <<exec, wait>>
     \/ /\ item[Stage][count[Stage] - 1] = "passed" /\ Mode(Stage) = "stage"
        /\ exec' = IF Live THEN [exec EXCEPT ![Stage] = "awaiting_approval"] ELSE exec
        /\ wait' = IF Live THEN wait \cup {Whole} ELSE wait
        /\ Return("approval_required")
     \/ /\ item[Stage][count[Stage] - 1] = "passed" /\ Mode(Stage) # "stage"
        /\ exec' = IF Live THEN [exec EXCEPT ![Stage] = "passed"] ELSE exec
        /\ Return("passed")
        /\ UNCHANGED wait
  /\ UNCHANGED <<mode, runRow, first, count, item, read, print, from, orch, ops>>

-----------------------------------------------------------------------------
(* Invalidation. `hit` maps each iterating stage to its invalid items.      *)

Operate(op) == op \in Ops /\ ops < MaxOps /\ ops' = ops + 1

ReaderClipsNone(hit) == {}                    \* mutant
(* computeInvalidationClosure: readers of an accepted item go with it.      *)
ReaderClips(hit) ==
  {i \in LiveSlots("clips") : i \in hit /\ item["items"][i] = "passed" /\ read["clips"][i] # 0}
(* bindsPrevItem: so do the items after an invalid one. *)
Chain(s, hit) ==
  IF s \in BindsPrev THEN {i \in LiveSlots(s) : \E j \in hit : j <= i} ELSE hit
Closure(seed) ==
  LET items == Chain("items", seed["items"])
  IN [s \in Iter |-> IF s = "items" THEN items
                     ELSE Chain("clips", seed["clips"] \cup ReaderClips(items))]
Seed(s, hit) == [t \in Iter |-> IF t = s THEN hit ELSE {}]
(* What is recorded as read from the source's accepted output. *)
ReadersOfSource ==
  [s \in Iter |-> {i \in LiveSlots(s) : source = "passed" /\ read[s][i] = version}]

(* InvalidationService.apply.  A stage loses its own state only when it is  *)
(* asked for as a whole or all its items are invalid, and then its orphans  *)
(* go stale too.                                                            *)
AllOf(hit, whole) ==
  {s \in Iter : s \in whole \/ (hit[s] # {} /\ Cardinality(hit[s]) >= count[s])}
Stale(it) == [i \in Slots |-> IF it[i] = "none" THEN "none" ELSE "stale"]
StaleItems(hit, all) ==
  [s \in Iter |-> IF s \in all THEN Stale(item[s])
                  ELSE [i \in Slots |-> IF i \in hit[s] THEN "stale" ELSE item[s][i]]]
StaleStages(all) == [s \in Iter |-> IF s \in all THEN "stale" ELSE exec[s]]
ApplyLeavingWaits(hit, whole) ==   \* mutant
  /\ item' = StaleItems(hit, AllOf(hit, whole))
  /\ exec' = StaleStages(AllOf(hit, whole))
  /\ UNCHANGED wait
Apply(hit, whole) ==
  /\ item' = StaleItems(hit, AllOf(hit, whole))
  /\ exec' = StaleStages(AllOf(hit, whole))
  /\ wait' = LiveWaits(wait, exec', item')

-----------------------------------------------------------------------------
(* Operators.                                                               *)

Pause ==
  /\ Operate("pause")
  /\ state = "RUNNING"
  /\ state' = "PAUSING"
  /\ UNCHANGED <<mode, scope, first, rows, orch, fn>>

(* A stop kills the functions; reconciliation settles what they left.       *)
Freed(it) == [i \in Slots |-> IF it[i] = "running" THEN "pending" ELSE it[i]]
Stop ==
  /\ Operate("stop")
  /\ state \in RunState \ {"FAILED", "CANCELLED", "COMPLETED"}
  /\ state' = "CANCELLED"
  /\ exec' = [s \in Iter |-> IF exec[s] = "running" THEN "cancelled" ELSE exec[s]]
  /\ item' = [s \in Iter |-> Freed(item[s])]
  /\ orch' = NoPlan /\ fn' = NoWork
  /\ UNCHANGED <<mode, scope, first, count, read, print, from, wait>>

(* settleAnswer: the last answer of a parked run resumes it.                *)
Answered ==
  IF state = "PAUSED_APPROVAL" /\ LiveWaits(wait', exec', item') = {}
    THEN Wake ELSE UNCHANGED <<state, orch>>
AnswerStates == RunState \ {"RUNNING", "PAUSING", "COMPLETED"}
ItemReview == exec["items"] # "awaiting_approval"

ApproveItem(i) ==
  /\ "approve" \in Ops
  /\ state \in AnswerStates \cup {"RUNNING"}
  /\ ItemReview /\ i \in wait /\ item["items"][i] = "awaiting_approval"
  /\ item' = [item EXCEPT !["items"][i] = "passed"]
  /\ wait' = wait \ {i}
  /\ UNCHANGED exec
  /\ Answered
  /\ UNCHANGED <<mode, scope, first, count, read, print, from, fn, ops>>

(* Refused while some item of the stage, an orphan or not, has not passed.  *)
AllPassed == \A i \in Slots : item["items"][i] \in {"none", "passed"}
ApproveAccepted == ~ItemReview /\ Whole \in wait /\ AllPassed
ApproveWhole ==
  /\ "approve" \in Ops
  /\ state \in AnswerStates \cup {"RUNNING"}
  /\ ApproveAccepted
  /\ exec' = [exec EXCEPT !["items"] = "passed"]
  /\ wait' = {}
  /\ UNCHANGED item
  /\ Answered
  /\ UNCHANGED <<mode, scope, first, count, read, print, from, fn, ops>>

RejectItem(i) ==
  /\ Operate("reject")
  /\ state \in AnswerStates
  /\ ItemReview /\ i \in wait /\ item["items"][i] = "awaiting_approval"
  /\ Apply(Closure(Seed("items", {i})), {})
  /\ Answered
  /\ UNCHANGED <<mode, scope, first, count, read, print, from, fn>>

RejectWhole ==
  /\ Operate("reject")
  /\ state \in AnswerStates
  /\ ~ItemReview /\ Whole \in wait
  /\ Apply(Closure(Seed("items", LiveSlots("items"))), {"items"})
  /\ Answered
  /\ UNCHANGED <<mode, scope, first, count, read, print, from, fn>>

-----------------------------------------------------------------------------
(* RunStagePlanService: the plans that continue a run or run some of it     *)
(* again; RunActionService's retries and ArtifactEditService's edit, which  *)
(* leave the stage row alone.                                               *)

(* executionEligibility of one stage: nothing runs, its parents are passed  *)
(* with all their items, and nobody is asked about it.                      *)
ItemsComplete == exec["items"] = "passed" /\ \A i \in LiveSlots("items") : item["items"][i] = "passed"
Eligible(s) ==
  /\ ~Live
  /\ source = "passed"
  /\ s = "clips" => ItemsComplete
  /\ s = "items" => ~LiveWait
Started(s) == exec[s] # "pending" \/ \E i \in Slots : item[s][i] = "passed"

(* Items an earlier change made out of date in a stage that passed.         *)
Outdated(s) == IF exec[s] = "passed" THEN {i \in LiveSlots(s) : item[s][i] = "stale"} ELSE {}
(* Continue works inside the scope while that has unfinished work.          *)
ToRun(stale) ==
  LET passed == {s \in Stages : IF s = "source" THEN source = "passed" ELSE exec[s] = "passed"}
      due    == (Stages \ passed) \cup stale
  IN IF scope \cap due # {} THEN scope \cap due ELSE due
(* The stages of a plan are pending, but for the one that waits for someone.*)
Redone(execute) == (execute \cap Iter) \ (IF LiveWait THEN {"items"} ELSE {})
SetPending(execute, it) ==
  /\ source' = IF "source" \in execute THEN "pending" ELSE source
  /\ exec' = [s \in Iter |-> IF s \in Redone(execute) THEN "pending" ELSE exec[s]]
  /\ item' = [s \in Iter |-> IF s \in Redone(execute) THEN Freed(it[s]) ELSE it[s]]
  /\ scope' = execute

Continue ==
  LET execute == ToRun({s \in Iter : Outdated(s) # {}}) IN
  /\ Operate("continue")
  /\ ~Live
  /\ execute # {}
  /\ SetPending(execute, item)
  /\ Wake
  /\ UNCHANGED <<mode, version, size, count, read, print, from, wait, fn>>

(* keepOutdated: the outdated outputs are recorded again as the current     *)
(* ones, by an attempt whose provenance names only the output it copies.    *)
Keep ==
  LET kept(s, i) == i \in Outdated(s) IN
  /\ Operate("keep")
  /\ ~Live
  /\ \E s \in Iter : Outdated(s) # {}
  /\ SetPending(ToRun({}), [s \in Iter |-> [i \in Slots |-> IF kept(s, i) THEN "passed" ELSE item[s][i]]])
  /\ read' = [s \in Iter |-> [i \in Slots |-> IF kept(s, i) THEN 0 ELSE read[s][i]]]
  /\ Wake
  /\ UNCHANGED <<mode, version, size, count, print, from, wait, fn>>

(* Run from the source to the end: every stage after it is forced stale,    *)
(* then all three are pending.                                              *)
RerunSource ==
  /\ Operate("rerun_source")
  /\ ~Live
  /\ version \in 1..(MaxVersion - 1)
  /\ item' = [s \in Iter |-> Stale(item[s])]
  /\ exec' = [s \in Iter |-> "pending"] /\ wait' = {}
  /\ source' = "pending" /\ scope' = Stages
  /\ Wake
  /\ UNCHANGED <<mode, version, size, count, read, print, from, fn>>

RerunStage(s) ==
  LET forced == {s} \cup (IF s = "items" THEN {"clips"} ELSE {}) IN
  /\ Operate("rerun_stage")
  /\ Eligible(s) /\ Started(s)
  /\ item' = [t \in Iter |-> IF t \in forced THEN Stale(item[t]) ELSE item[t]]
  /\ exec' = [t \in Iter |-> IF t = s THEN "pending" ELSE IF t \in forced THEN "stale" ELSE exec[t]]
  /\ wait' = LiveWaits(wait, exec', item')
  /\ scope' = {s}
  /\ Wake
  /\ UNCHANGED <<mode, first, count, read, print, from, fn>>

(* Re-run item: the item, those that read it in turn, and their readers.    *)
RerunItem(s, i) ==
  LET hit == Closure(Seed(s, {i}))
      it  == StaleItems(hit, AllOf(hit, {})) IN
  /\ Operate("rerun_item")
  /\ Eligible(s) /\ Started(s)
  /\ i \in LiveSlots(s)
  /\ item' = [it EXCEPT ![s] = Freed(@)]
  /\ exec' = [StaleStages(AllOf(hit, {})) EXCEPT ![s] = "pending"]
  /\ wait' = LiveWaits(wait, exec', item')
  /\ scope' = {s}
  /\ Wake
  /\ UNCHANGED <<mode, first, count, read, print, from, fn>>

(* A retry's scope is the stage, or all that it made stale. *)
Affected(hit) == {s \in Iter : hit[s] # {}}
RetryFailed(s) ==
  LET failed == {i \in LiveSlots(s) : item[s][i] = "failed"}
      hit    == Closure(Seed(s, failed)) IN
  /\ Operate("retry_failed")
  /\ Eligible(s)
  /\ failed # {}
  /\ Apply(hit, {})
  /\ scope' \in {{s}, Affected(hit)}
  /\ Wake
  /\ UNCHANGED <<mode, first, count, read, print, from, fn>>

RetrySource ==
  LET hit == Closure(ReadersOfSource) IN
  /\ Operate("retry_source")
  /\ ~Live
  /\ version \in 1..(MaxVersion - 1)
  /\ Apply(hit, {})
  /\ source' = "stale"
  /\ scope' \in {{"source"}, {"source"} \cup Affected(hit)}
  /\ Wake
  /\ UNCHANGED <<mode, version, size, count, read, print, from, fn>>

(* The user writes the source's list; what read the old one goes stale.     *)
EditSource ==
  /\ Operate("edit_source")
  /\ state \in {"PAUSED_BUDGET", "PAUSED_APPROVAL", "FAILED", "COMPLETED"}
  /\ version \in 1..(MaxVersion - 1)
  /\ Apply(Closure(ReadersOfSource), {})
  /\ source' = "passed"
  /\ version' = version + 1
  /\ size' \in Sizes
  /\ Wake
  /\ UNCHANGED <<mode, scope, count, read, print, from, fn>>

-----------------------------------------------------------------------------
Orchestrate == Load \/ MakeList \/ (\E s \in Iter : StartStage(s)) \/ Collect \/ Finish
Execute ==
  \/ Resolve \/ Ensure \/ StartBatch \/ EndBatch \/ FinishStage
  \/ \E i \in Slots : BeginItem(i)
  \/ \E i \in Slots, r \in Results : EndItem(i, r)
Humans ==
  \/ Pause \/ Stop \/ ApproveWhole \/ RejectWhole \/ Continue \/ Keep
  \/ RerunSource \/ RetrySource \/ EditSource
  \/ \E s \in Iter : RerunStage(s) \/ RetryFailed(s)
  \/ \E s \in Iter, i \in Slots : RerunItem(s, i)
  \/ \E i \in Slots : ApproveItem(i) \/ RejectItem(i)
Next == Orchestrate \/ Execute \/ Humans

Spec == Init /\ [][Next]_vars
(* Inngest runs and retries its functions; nobody waits for a person.       *)
FairSpec == Spec /\ WF_vars(Orchestrate) /\ WF_vars(Execute)

-----------------------------------------------------------------------------
TypeOK ==
  /\ mode \in Modes
  /\ state \in RunState /\ scope \subseteq Stages
  /\ source \in ExecState /\ version \in Versions /\ size \in 0..MaxItems
  /\ exec \in [Iter -> ExecState] /\ count \in [Iter -> 0..MaxItems]
  /\ item \in [Iter -> [Slots -> ItemState]]
  /\ read \in [Iter -> [Slots -> Versions]]
  /\ print \in [Iter -> [Slots -> Versions]]
  /\ from \in [Iter -> [Slots -> Versions]]
  /\ wait \subseteq Slots \cup {Whole}
  /\ ops \in 0..MaxOps

(* Accepted outputs of an iterating stage are never a mixture of two lists: *)
(* whatever was retried, kept or re-run, they come from one output of the   *)
(* source (resolveIterateCount, "rather than silently mixing outputs").     *)
OneIdentity ==
  \A s \in Iter : \A i, j \in LiveSlots(s) :
    item[s][i] = "passed" /\ item[s][j] = "passed" => from[s][i] = from[s][j]

(* A completed run has every stage and every item of the current list, and  *)
(* nobody is asked anything: an item made stale inside a stage that stays   *)
(* passed is not stranded.                                                  *)
CompletedHasAll ==
  state = "COMPLETED" =>
    /\ source = "passed" /\ wait = {}
    /\ \A s \in Iter : exec[s] = "passed" /\ \A i \in LiveSlots(s) : item[s][i] = "passed"

(* The open waits are exactly the outputs that wait for someone: nobody is  *)
(* asked about an item that was reset, and no item waits without asking.    *)
WaitsMatch ==
  /\ \A i \in Slots : i \in wait <=> item["items"][i] = "awaiting_approval"
  /\ Whole \in wait <=> exec["items"] = "awaiting_approval"

(* An execution that ends in failure leaves a failed stage to retry: the    *)
(* run's state and the stage's row, written by two functions, agree.        *)
FailureIsShown ==
  [][state # "FAILED" /\ state' = "FAILED" => \E s \in Iter : exec[s] = "failed"]_vars

(* While it runs, the program never makes again an item that was accepted   *)
(* or that waits for a person: only an operator takes that back.            *)
AcceptedIsKept ==
  [][\A s \in Iter, i \in Slots :
       /\ item[s][i] \in {"passed", "awaiting_approval"}
       /\ item'[s][i] \notin {"passed", "awaiting_approval"}
       => ops' = ops + 1]_vars

(* When an item is taken back, an output made of it does not stay accepted. *)
Taken(i) == item["items"][i] = "passed" /\ item'["items"][i] = "stale"
RecordedReadersGoStale ==
  [][\A i \in LiveSlots("clips") :
       Taken(i) /\ read["clips"][i] # 0 => item'["clips"][i] # "passed"]_vars
ReadersGoStale ==
  [][\A i \in LiveSlots("clips") : Taken(i) => item'["clips"][i] # "passed"]_vars

(* A review of the whole stage can be answered once the items of the        *)
(* current list have passed.                                                *)
ReviewIsAnswerable ==
  /\ exec["items"] = "awaiting_approval"
  /\ \A i \in LiveSlots("items") : item["items"][i] = "passed"
  => ApproveAccepted

(* An execution ends, whatever becomes of its items. *)
ExecutionEnds == Live ~> ~Live
=============================================================================
