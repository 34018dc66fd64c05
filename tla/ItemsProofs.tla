---------------------------- MODULE ItemsProofs ----------------------------
(* Theorems about Items for lists of any length, any batches, any outcomes  *)
(* of the items and any number of operations.                               *)
EXTENDS Items, FiniteSetTheorems, TLAPS

-----------------------------------------------------------------------------
(* The inductive invariant, by parts.                                       *)

(* What an item, and a stage with it, may come to. *)
Reports == ItemResults \cup {"approval_required"}
(* The type of what the two functions hold while they work. *)
PlanRecord ==
  [at : {"none", "load", "plan", "collect"}, row : [Stages -> ExecState],
   work : SUBSET Iter, open : BOOLEAN, why : SUBSET Reports]
WorkRecord ==
  [at : {"none", "resolve", "ensure", "batch", "run", "finish", "done"},
   stage : Iter, start : Nat, todo : SUBSET Slots, busy : SUBSET Slots,
   got : SUBSET Reports, still : BOOLEAN, result : Reports \cup {"none"}]
WorkTyped ==
  /\ orch \in PlanRecord
  /\ fn \in WorkRecord
  /\ fn.at = "done" => fn.result \in Reports
Typed == TypeOK /\ WorkTyped

(* A live run has its orchestrator, and an invocation its orchestrator's wait. *)
Idle(s) == fn.at = "none" \/ fn.stage # s
Engaged ==
  /\ Live <=> orch.at # "none"
  /\ fn.at # "none" => orch.at = "collect" /\ orch.row[fn.stage] = "running"

(* The rows there are: those of the current count, and orphans nobody reads. *)
RowsKnown ==
  \A s \in Iter : \A i \in Slots :
    /\ i < count[s] => item[s][i] # "none"
    /\ i >= count[s] => item[s][i] \in {"none", "stale"}

(* What a batch has still to begin may be made again, what it began is running. *)
BatchSound ==
  /\ fn.at \in {"resolve", "ensure", "batch"} => fn.busy = {}
  /\ fn.at = "run" =>
       /\ fn.todo \cup fn.busy \subseteq LiveSlots(fn.stage)
       /\ fn.todo \cap fn.busy = {}
       /\ \A i \in fn.todo : item[fn.stage][i] \notin {"passed", "awaiting_approval"}
       /\ \A i \in fn.busy : item[fn.stage][i] = "running"

(* Whoever is asked about the stage as a whole, no function works on it.    *)
AskedAlone ==
  exec["items"] = "awaiting_approval" =>
    /\ Idle("items") \/ (fn.at = "done" /\ fn.result = "approval_required")
    /\ orch.at \in {"plan", "collect"} /\ Idle("items") => orch.open

(* A failure the orchestrator knows of is on a row it does not start again. *)
FailureKnown ==
  /\ orch.at \in {"plan", "collect"} /\ "failed" \in orch.why =>
       \E s \in Iter : exec[s] = "failed" /\ orch.row[s] = "failed"
  /\ fn.at = "done" /\ fn.result = "failed" => exec[fn.stage] = "failed"

(* The batches behind the loop have all their items. *)
Complete(s) == \A i \in LiveSlots(s) : item[s][i] = "passed"
BatchesDone ==
  /\ fn.at \in {"resolve", "ensure"} => fn.start = 0
  /\ fn.at \in {"batch", "run"} =>
       \A i \in LiveSlots(fn.stage) : i < fn.start => item[fn.stage][i] = "passed"
  /\ fn.at = "run" /\ ~fn.still /\ fn.got \subseteq {"passed"} =>
       \A i \in Batch \ (fn.todo \cup fn.busy) : item[fn.stage][i] = "passed"
  /\ fn.at = "finish" => Complete(fn.stage)
  /\ fn.at = "done" /\ fn.result = "passed" =>
       exec[fn.stage] = "passed" /\ Complete(fn.stage)

(* What the orchestrator takes for settled is. *)
SettledSound ==
  orch.at \in {"plan", "collect"} =>
    /\ orch.row["source"] = "passed" => source = "passed"
    /\ \A s \in Iter : Settled(s) => exec[s] = "passed" /\ Complete(s)

IInv ==
  /\ Typed /\ Engaged /\ RowsKnown /\ BatchSound /\ WaitsMatch /\ AskedAlone
  /\ FailureKnown /\ BatchesDone /\ SettledSound /\ CompletedHasAll

(* What operators do to a run that rests: everything but a pause, a stop    *)
(* and the approvals.                                                       *)
Planned ==
  \/ Continue \/ Keep \/ RerunSource \/ RetrySource \/ EditSource \/ RejectWhole
  \/ \E s \in Iter : RerunStage(s) \/ RetryFailed(s)
  \/ \E s \in Iter, i \in Slots : RerunItem(s, i)
  \/ \E i \in Slots : RejectItem(i)

LEMMA NextCases ==
  Next => \/ Orchestrate \/ Execute \/ Planned
          \/ Pause \/ Stop \/ ApproveWhole \/ \E i \in Slots : ApproveItem(i)
BY DEF Next, Humans, Planned

(* The records of a function that has not begun. *)
LEMMA NoRecords ==
  /\ NoWork \in WorkRecord /\ NoPlan \in PlanRecord
  /\ NoWork.at = "none" /\ NoPlan.at = "none" /\ NoPlan.why = {}
<1>1. NoWork \in WorkRecord /\ NoWork.at = "none"
  BY DEF NoWork, WorkRecord, Reports, Iter
<1>2. [s \in Stages |-> "pending"] \in [Stages -> ExecState]
  BY DEF ExecState
<1>3. NoPlan \in PlanRecord /\ NoPlan.at = "none" /\ NoPlan.why = {}
  BY <1>2 DEF NoPlan, PlanRecord
<1> QED
  BY <1>1, <1>3

LEMMA PlanAt ==
  ASSUME NEW p \in PlanRecord, NEW at \in {"none", "load", "plan", "collect"}
  PROVE  /\ [p EXCEPT !.at = at] \in PlanRecord
         /\ [p EXCEPT !.at = at].at = at /\ [p EXCEPT !.at = at].why = p.why
BY DEF PlanRecord

-----------------------------------------------------------------------------
(* Type correctness.                                                        *)

LEMMA WorstTyped ==
  ASSUME NEW got \in SUBSET Reports, got \ {"passed"} # {}
  PROVE  Worst(got) \in got /\ Worst(got) # "passed"
<1> DEFINE First(k) == /\ Priority[k] \in got
                       /\ \A j \in DOMAIN Priority : Priority[j] \in got => k <= j
<1>1. DOMAIN Priority = 1..5
  BY DEF Priority
<1>2. \E k \in DOMAIN Priority : First(k)
  <2>1. /\ Priority[1] = "crash" /\ Priority[2] = "failed" /\ Priority[3] = "budget_blocked"
        /\ Priority[4] = "run_not_running" /\ Priority[5] = "approval_required"
    BY DEF Priority
  <2>2. \E k \in 1..5 : Priority[k] \in got
    <3>1. PICK r \in got : r # "passed"
      OBVIOUS
    <3>2. r \in {Priority[1], Priority[2], Priority[3], Priority[4], Priority[5]}
      BY <2>1, <3>1 DEF Reports, ItemResults
    <3> QED
      BY <3>1, <3>2
  <2>3. CASE Priority[1] \in got
    BY <1>1, <2>3
  <2>4. CASE Priority[1] \notin got /\ Priority[2] \in got
    BY <1>1, <2>4
  <2>5. CASE Priority[1] \notin got /\ Priority[2] \notin got /\ Priority[3] \in got
    BY <1>1, <2>5
  <2>6. CASE Priority[1] \notin got /\ Priority[2] \notin got /\ Priority[3] \notin got /\ Priority[4] \in got
    BY <1>1, <2>6
  <2>7. CASE Priority[1] \notin got /\ Priority[2] \notin got /\ Priority[3] \notin got /\ Priority[4] \notin got
    BY <1>1, <2>2, <2>7
  <2> QED
    BY <2>3, <2>4, <2>5, <2>6, <2>7
<1>3. \A k \in DOMAIN Priority : Priority[k] # "passed"
  BY <1>1 DEF Priority
<1> QED
  <2> DEFINE k == CHOOSE k \in DOMAIN Priority : First(k)
  <2>1. k \in DOMAIN Priority /\ First(k)
    BY <1>2
  <2>2. Worst(got) = Priority[k]
    BY DEF Worst
  <2> QED
    BY <1>3, <2>1, <2>2

(* Staling rows keeps their type, and changes none but to stale. *)
LEMMA StaleItemsAre ==
  ASSUME item \in [Iter -> [Slots -> ItemState]], NEW hit, NEW all
  PROVE  /\ StaleItems(hit, all) \in [Iter -> [Slots -> ItemState]]
         /\ \A s \in Iter, i \in Slots :
              /\ StaleItems(hit, all)[s][i] \in {item[s][i], "stale"}
              /\ i \in hit[s] => StaleItems(hit, all)[s][i] \in {"none", "stale"}
              /\ s \in all => StaleItems(hit, all)[s][i] \in {"none", "stale"}
BY DEF StaleItems, Stale, ItemState

LEMMA FreedIs ==
  ASSUME NEW row \in [Slots -> ItemState]
  PROVE  /\ Freed(row) \in [Slots -> ItemState]
         /\ \A i \in Slots :
              Freed(row)[i] = row[i] \/ (row[i] = "running" /\ Freed(row)[i] = "pending")
BY DEF Freed, ItemState

LEMMA ApplyTyped ==
  ASSUME TypeOK, NEW hit, NEW whole, Apply(hit, whole)
  PROVE  /\ item' \in [Iter -> [Slots -> ItemState]]
         /\ exec' \in [Iter -> ExecState]
         /\ wait' \subseteq wait
<1>1. item' \in [Iter -> [Slots -> ItemState]]
  BY StaleItemsAre DEF Apply, TypeOK
<1>2. exec' \in [Iter -> ExecState]
  BY DEF Apply, StaleStages, TypeOK, ExecState
<1> QED
  BY <1>1, <1>2 DEF Apply, LiveWaits

LEMMA OperateTyped ==
  ASSUME TypeOK, NEW op, Operate(op)
  PROVE  ops' \in 0..MaxOps /\ ops' = ops + 1 /\ ops' # ops
BY ItemsAssumption DEF Operate, TypeOK

LEMMA WakeTyped ==
  ASSUME WorkTyped, fn' = fn, Wake
  PROVE  /\ WorkTyped' /\ state' = "RUNNING" /\ state' \in RunState
         /\ orch'.at = "load" /\ orch'.why = {}
BY NoRecords, PlanAt DEF Wake, WorkTyped, RunState

LEMMA PendingTyped ==
  ASSUME TypeOK, NEW execute \in SUBSET Stages, NEW it \in [Iter -> [Slots -> ItemState]],
         SetPending(execute, it)
  PROVE  /\ source' \in ExecState
         /\ exec' \in [Iter -> ExecState]
         /\ item' \in [Iter -> [Slots -> ItemState]]
         /\ scope' \subseteq Stages
<1>1. \A s \in Iter : Freed(it[s]) \in [Slots -> ItemState]
  BY FreedIs
<1>2. item' \in [Iter -> [Slots -> ItemState]]
  BY <1>1 DEF SetPending
<1> QED
  BY <1>2 DEF SetPending, TypeOK, ExecState

LEMMA TypedInit == Init => Typed
<1> SUFFICES ASSUME Init PROVE Typed
  OBVIOUS
<1>1. TypeOK
  BY ItemsAssumption DEF Init, TypeOK, RunState, ExecState, ItemState, Versions, Stages, Slots, Iter
<1>2. WorkTyped
  BY NoRecords, PlanAt DEF Init, WorkTyped
<1> QED
  BY <1>1, <1>2 DEF Typed

LEMMA ReturnTyped ==
  ASSUME WorkTyped, NEW r \in Reports, Return(r)
  PROVE  /\ fn' \in WorkRecord
         /\ fn'.at = "done" /\ fn'.result = r /\ fn'.stage = fn.stage /\ fn'.result \in Reports
BY DEF NoWork, Return, Stage, WorkTyped, WorkRecord

(* Every step keeps the types. *)
LEMMA TypedNext == Typed /\ [Next]_vars => Typed'
<1> SUFFICES ASSUME Typed, [Next]_vars PROVE Typed'
  OBVIOUS
<1> USE ItemsAssumption
<1>1. ASSUME Load
      PROVE  Typed'
  <2>0. ops' \in 0..MaxOps
    BY <1>1 DEF Load, Typed, TypeOK
  <2>1. TypeOK'
    BY <1>1, <2>0 DEF Load, Loaded, Copied, LiveWait, Typed, TypeOK, WorkTyped, runRow, first, rows, RunState, ExecState, ItemState, Versions, Iter
  <2>2. WorkTyped'
    <3>1. \A s \in Stages : Copied(IF s = "source" THEN source ELSE exec[s]) \in ExecState
      BY DEF Copied, ExecState, Typed, TypeOK, Stages
    <3>2. orch' \in PlanRecord
      BY <1>1, <3>1 DEF Load, Loaded, LiveWait, PlanRecord
    <3> QED
      BY <1>1, <3>2 DEF Load, Typed, WorkTyped
  <2> QED
    BY <2>1, <2>2 DEF Typed
<1>2. ASSUME MakeList
      PROVE  Typed'
  <2>0. ops' \in 0..MaxOps
    BY <1>2 DEF MakeList, Typed, TypeOK
  <2>1. TypeOK'
    BY <1>2, <2>0 DEF MakeList, MayStart, Typed, TypeOK, WorkTyped, runRow, first, rows, RunState, ExecState, ItemState, Versions, Iter
  <2>2. WorkTyped'
    <3>1. orch' \in PlanRecord
      BY <1>2 DEF MakeList, Typed, WorkTyped, PlanRecord, Stages, ExecState
    <3> QED
      BY <1>2, <3>1 DEF MakeList, Typed, WorkTyped
  <2> QED
    BY <2>1, <2>2 DEF Typed
<1>3. ASSUME NEW s \in Iter, StartStage(s)
      PROVE  Typed'
  <2>0. ops' \in 0..MaxOps
    BY <1>3 DEF StartStage, Typed, TypeOK
  <2>1. TypeOK'
    BY <1>3, <2>0 DEF StartStage, MayStart, Typed, TypeOK, WorkTyped, runRow, first, rows, RunState, ExecState, ItemState, Versions, Iter
  <2>2. WorkTyped'
    <3>1. orch' \in PlanRecord
      BY <1>3 DEF StartStage, Typed, WorkTyped, PlanRecord, Stages, ExecState
    <3>2. fn' \in WorkRecord /\ (fn'.at = "done" => fn'.result \in Reports)
      BY <1>3 DEF StartStage, NoWork, WorkRecord, Reports
    <3> QED
      BY <1>3, <3>1, <3>2 DEF StartStage, Typed, WorkTyped
  <2> QED
    BY <2>1, <2>2 DEF Typed
<1>4. ASSUME Collect
      PROVE  Typed'
  <2>0. ops' \in 0..MaxOps
    BY <1>4 DEF Collect, Typed, TypeOK
  <2>1. TypeOK'
    BY <1>4, <2>0 DEF Collect, Typed, TypeOK, WorkTyped, runRow, first, rows, RunState, ExecState, ItemState, Versions, Iter
  <2>2. WorkTyped'
    <3> DEFINE s == fn.stage
               r == fn.result
               row == CASE r = "passed" -> "passed"
                        [] r = "approval_required" -> "awaiting_approval"
                        [] r = "run_not_running" -> "cancelled"
                        [] OTHER -> "failed"
               work == IF r = "passed" THEN orch.work \ {s} ELSE orch.work
               open == orch.open \/ r = "approval_required"
               why == orch.why \cup {IF r = "crash" THEN "failed" ELSE r}
    <3>1. s \in Iter /\ r \in Reports /\ orch \in PlanRecord
      BY <1>4 DEF Collect, Typed, WorkTyped, WorkRecord
    <3>2. row \in ExecState
      BY DEF ExecState
    <3>3. work \in SUBSET Iter /\ open \in BOOLEAN /\ why \in SUBSET Reports
      BY <3>1 DEF PlanRecord, Reports, ItemResults
    <3>4. orch' = [orch EXCEPT !.at = "plan", !.row[s] = row, !.work = work,
                               !.open = open, !.why = why]
      BY <1>4 DEF Collect
    <3> HIDE DEF s, r, row, work, open, why
    <3>5. orch' \in PlanRecord
      BY <3>1, <3>2, <3>3, <3>4 DEF PlanRecord, Stages
    <3> QED
      BY <1>4, <3>5, NoRecords DEF Collect, WorkTyped
  <2> QED
    BY <2>1, <2>2 DEF Typed
<1>5. ASSUME Finish
      PROVE  Typed'
  <2>0. ops' \in 0..MaxOps
    BY <1>5 DEF Finish, Typed, TypeOK
  <2>1. TypeOK'
    <3>1. state' \in RunState /\ wait' \subseteq wait
      BY <1>5 DEF Finish, EndPause, EndBudget, EndFailed, EndWaiting, EndDone, End, Wake, LiveWaits, RunState
    <3> QED
      BY <1>5, <2>0, <3>1 DEF Finish, Typed, TypeOK, runRow, first, rows
  <2>2. WorkTyped'
    BY <1>5, NoRecords, WakeTyped DEF Finish, EndPause, EndBudget, EndFailed, EndWaiting, EndDone, End, Typed, WorkTyped
  <2> QED
    BY <2>1, <2>2 DEF Typed
<1>6. ASSUME Resolve
      PROVE  Typed'
  <2>0. ops' \in 0..MaxOps
    BY <1>6 DEF Resolve, Typed, TypeOK
  <2>1. TypeOK'
    BY <1>6, <2>0 DEF Resolve, Stage, Typed, TypeOK, WorkTyped, runRow, first, rows, RunState, ExecState, ItemState, Versions, Iter
  <2>2. WorkTyped'
    <3>1. "run_not_running" \in Reports /\ "failed" \in Reports /\ "crash" \in Reports /\ "passed" \in Reports /\ "approval_required" \in Reports
      BY DEF Reports, ItemResults
    <3>2. WorkTyped
      BY DEF Typed
    <3>3. fn' \in WorkRecord /\ (fn'.at = "done" => fn'.result \in Reports)
      BY <1>6, <3>1, <3>2, ReturnTyped DEF Resolve, WorkTyped, WorkRecord
    <3> QED
      BY <1>6, <3>1, <3>2, <3>3 DEF Resolve, Typed, WorkTyped
  <2> QED
    BY <2>1, <2>2 DEF Typed
<1>7. ASSUME Ensure
      PROVE  Typed'
  <2>0. ops' \in 0..MaxOps
    BY <1>7 DEF Ensure, Typed, TypeOK
  <2>1. TypeOK'
    BY <1>7, <2>0 DEF Ensure, Stage, Typed, TypeOK, WorkTyped, runRow, first, rows, RunState, ExecState, ItemState, Versions, Iter
  <2>2. WorkTyped'
    <3>1. "run_not_running" \in Reports /\ "failed" \in Reports /\ "crash" \in Reports /\ "passed" \in Reports /\ "approval_required" \in Reports
      BY DEF Reports, ItemResults
    <3>2. WorkTyped
      BY DEF Typed
    <3>3. fn' \in WorkRecord /\ (fn'.at = "done" => fn'.result \in Reports)
      BY <1>7, <3>1, <3>2, ReturnTyped DEF Ensure, WorkTyped, WorkRecord
    <3> QED
      BY <1>7, <3>1, <3>2, <3>3 DEF Ensure, Typed, WorkTyped
  <2> QED
    BY <2>1, <2>2 DEF Typed
<1>8. ASSUME StartBatch
      PROVE  Typed'
  <2>0. ops' \in 0..MaxOps
    BY <1>8 DEF StartBatch, Typed, TypeOK
  <2>1. TypeOK'
    BY <1>8, <2>0 DEF StartBatch, Stage, Batch, LiveSlots, Typed, TypeOK, WorkTyped, runRow, first, rows, RunState, ExecState, ItemState, Versions, Iter
  <2>2. WorkTyped'
    <3>1. WorkTyped /\ "run_not_running" \in Reports
      BY DEF Typed, Reports, ItemResults
    <3>2. CASE Return("run_not_running")
      BY <1>8, <3>1, <3>2, ReturnTyped DEF StartBatch, WorkTyped
    <3>3. CASE ~Return("run_not_running")
      <4> DEFINE todo == {i \in Batch : Due(item[Stage][i])}
                 still == \E i \in Batch : item[Stage][i] = "awaiting_approval"
      <4>1. todo \in SUBSET Slots /\ still \in BOOLEAN
        BY DEF Batch, LiveSlots
      <4>2. fn' = [fn EXCEPT !.at = "run", !.got = {}, !.todo = todo, !.still = still]
        BY <1>8, <3>3 DEF StartBatch
      <4> HIDE DEF todo, still
      <4>3. fn' \in WorkRecord /\ fn'.at = "run"
        BY <3>1, <4>1, <4>2 DEF WorkTyped, WorkRecord
      <4> QED
        BY <1>8, <3>1, <4>3 DEF StartBatch, WorkTyped
    <3> QED
      BY <3>2, <3>3
  <2> QED
    BY <2>1, <2>2 DEF Typed
<1>9. ASSUME NEW i \in Slots, BeginItem(i)
      PROVE  Typed'
  <2>0. ops' \in 0..MaxOps
    BY <1>9 DEF BeginItem, Typed, TypeOK
  <2>1. TypeOK'
    BY <1>9, <2>0 DEF BeginItem, Stage, Typed, TypeOK, WorkTyped, runRow, first, rows, RunState, ExecState, ItemState, Versions, Iter
  <2>2. WorkTyped'
    <3>1. /\ fn \in WorkRecord /\ fn.todo \in SUBSET Slots /\ fn.busy \in SUBSET Slots
          /\ fn.got \in SUBSET Reports /\ "run_not_running" \in Reports
      BY DEF Typed, WorkTyped, WorkRecord, Reports, ItemResults
    <3>2. fn' \in WorkRecord /\ fn'.at = "run"
      <4>1. CASE fn' = [fn EXCEPT !.todo = @ \ {i}, !.busy = @ \cup {i}]
        BY <1>9, <3>1, <4>1 DEF BeginItem, WorkRecord
      <4>2. CASE fn' = [fn EXCEPT !.todo = @ \ {i}, !.got = @ \cup {"run_not_running"}]
        BY <1>9, <3>1, <4>2 DEF BeginItem, WorkRecord
      <4> QED
        BY <1>9, <4>1, <4>2 DEF BeginItem
    <3> QED
      BY <1>9, <3>2 DEF BeginItem, Typed, WorkTyped
  <2> QED
    BY <2>1, <2>2 DEF Typed
<1>10. ASSUME NEW i \in Slots, NEW r \in Results, EndItem(i, r)
      PROVE  Typed'
  <2>0. ops' \in 0..MaxOps
    BY <1>10 DEF EndItem, Typed, TypeOK
  <2>1. TypeOK'
    <3>1. fn.stage \in Iter /\ r \in ItemResults
      BY DEF Typed, WorkTyped, WorkRecord
    <3>2. \A it \in ItemState : ItemAfter(r, it) \in ItemState
      BY DEF ItemAfter, ItemState
    <3>3. item' \in [Iter -> [Slots -> ItemState]]
      <4> DEFINE new == IF r = "passed" /\ Mode(Stage) = "item" THEN "awaiting_approval"
                        ELSE ItemAfter(r, item[fn.stage][i])
      <4>1. item[fn.stage][i] \in ItemState
        BY <3>1 DEF Typed, TypeOK
      <4>2. new \in ItemState
        BY <3>2, <4>1 DEF ItemState
      <4>3. item' = [item EXCEPT ![fn.stage][i] = new]
        BY <1>10 DEF EndItem, Stage
      <4> HIDE DEF new
      <4> QED
        BY <3>1, <4>2, <4>3 DEF Typed, TypeOK
    <3>4. from' \in [Iter -> [Slots -> Versions]] /\ wait' \subseteq Slots \cup {Whole}
      BY <1>10, <3>1 DEF EndItem, Stage, Typed, TypeOK
    <3> QED
      BY <1>10, <2>0, <3>3, <3>4 DEF EndItem, Typed, TypeOK, runRow, first, rows
  <2>2. WorkTyped'
    <3>1. "run_not_running" \in Reports /\ "failed" \in Reports /\ "crash" \in Reports /\ "passed" \in Reports /\ "approval_required" \in Reports
      BY DEF Reports, ItemResults
    <3>2. r \in Reports
      BY DEF Reports
    <3>3. fn' \in WorkRecord /\ (fn'.at = "done" => fn'.result \in Reports)
      BY <1>10, <3>1, <3>2 DEF EndItem, Typed, WorkTyped, WorkRecord
    <3> QED
      BY <1>10, <3>1, <3>2, <3>3 DEF EndItem, Typed, WorkTyped
  <2> QED
    BY <2>1, <2>2 DEF Typed
<1>11. ASSUME EndBatch
      PROVE  Typed'
  <2>0. ops' \in 0..MaxOps
    BY <1>11 DEF EndBatch, Typed, TypeOK
  <2>1. TypeOK'
    BY <1>11, <2>0 DEF EndBatch, Stage, Advance, Typed, TypeOK, WorkTyped, runRow, first, rows, RunState, ExecState, ItemState, Versions, Iter
  <2>2. WorkTyped'
    <3>1. WorkTyped /\ fn \in WorkRecord /\ fn.got \in SUBSET Reports /\ "approval_required" \in Reports
      BY DEF Typed, WorkTyped, WorkRecord, Reports
    <3>2. CASE fn.got \ {"passed"} # {} /\ Return(Worst(fn.got))
      <4>1. Worst(fn.got) \in Reports
        BY <3>1, <3>2, WorstTyped
      <4> QED
        BY <1>11, <3>1, <3>2, <4>1, ReturnTyped DEF EndBatch, WorkTyped
    <3>3. CASE Return("approval_required")
      BY <1>11, <3>1, <3>3, ReturnTyped DEF EndBatch, WorkTyped
    <3>4. NextBatch \in Nat
      BY <3>1 DEF NextBatch, Stage, WorkRecord, Iter
    <3>5. CASE fn' = [fn EXCEPT !.at = "batch", !.start = NextBatch]
      BY <1>11, <3>1, <3>4, <3>5 DEF EndBatch, WorkTyped, WorkRecord
    <3>6. CASE fn' = [fn EXCEPT !.at = "finish", !.start = 0]
      BY <1>11, <3>1, <3>6 DEF EndBatch, WorkTyped, WorkRecord
    <3> QED
      BY <1>11, <3>2, <3>3, <3>5, <3>6 DEF EndBatch, Advance
  <2> QED
    BY <2>1, <2>2 DEF Typed
<1>12. ASSUME FinishStage
      PROVE  Typed'
  <2>0. ops' \in 0..MaxOps
    BY <1>12 DEF FinishStage, Typed, TypeOK
  <2>1. TypeOK'
    BY <1>12, <2>0 DEF FinishStage, Stage, Typed, TypeOK, WorkTyped, runRow, first, rows, RunState, ExecState, ItemState, Versions, Iter
  <2>2. WorkTyped'
    <3>1. "run_not_running" \in Reports /\ "failed" \in Reports /\ "crash" \in Reports /\ "passed" \in Reports /\ "approval_required" \in Reports
      BY DEF Reports, ItemResults
    <3>2. WorkTyped
      BY DEF Typed
    <3>3. fn' \in WorkRecord /\ (fn'.at = "done" => fn'.result \in Reports)
      BY <1>12, <3>1, <3>2, ReturnTyped DEF FinishStage
    <3> QED
      BY <1>12, <3>1, <3>2, <3>3 DEF FinishStage, Typed, WorkTyped
  <2> QED
    BY <2>1, <2>2 DEF Typed
<1>13. ASSUME Pause
      PROVE  Typed'
  <2>0. ops' \in 0..MaxOps
    BY <1>13, OperateTyped DEF Pause, Typed
  <2>1. TypeOK'
    BY <1>13, <2>0 DEF Pause, Typed, TypeOK, WorkTyped, runRow, first, rows, RunState, ExecState, ItemState, Versions, Iter
  <2>2. WorkTyped'
    BY <1>13 DEF Pause, Typed, WorkTyped, PlanRecord, WorkRecord, TypeOK, Reports, Iter
  <2> QED
    BY <2>1, <2>2 DEF Typed
<1>14. ASSUME Stop
      PROVE  Typed'
  <2>0. ops' \in 0..MaxOps
    BY <1>14, OperateTyped DEF Stop, Typed
  <2>1. TypeOK'
    <3>1. item' \in [Iter -> [Slots -> ItemState]]
      BY <1>14, FreedIs DEF Stop, Typed, TypeOK
    <3>2. exec' \in [Iter -> ExecState]
      BY <1>14 DEF Stop, Typed, TypeOK, ExecState
    <3> QED
      BY <1>14, <2>0, <3>1, <3>2 DEF Stop, Typed, TypeOK, runRow, first, rows, RunState
  <2>2. WorkTyped'
    BY <1>14, NoRecords DEF Stop, WorkTyped
  <2> QED
    BY <2>1, <2>2 DEF Typed
<1>15. ASSUME ApproveWhole
      PROVE  Typed'
  <2>0. ops' \in 0..MaxOps
    BY <1>15 DEF ApproveWhole, Typed, TypeOK
  <2>1. TypeOK'
    <3>1. state' \in RunState
      BY <1>15 DEF ApproveWhole, Answered, Wake, Typed, TypeOK, RunState
    <3>2. exec' \in [Iter -> ExecState]
      BY <1>15 DEF ApproveWhole, Typed, TypeOK, ExecState
    <3> QED
      BY <1>15, <2>0, <3>1, <3>2 DEF ApproveWhole, Typed, TypeOK, runRow, first, rows
  <2>2. WorkTyped'
    BY <1>15, WakeTyped DEF ApproveWhole, Answered, Typed, WorkTyped
  <2> QED
    BY <2>1, <2>2 DEF Typed
<1>16. ASSUME NEW i \in Slots, ApproveItem(i)
      PROVE  Typed'
  <2>0. ops' \in 0..MaxOps
    BY <1>16 DEF ApproveItem, Typed, TypeOK
  <2>1. TypeOK'
    <3>1. state' \in RunState
      BY <1>16 DEF ApproveItem, Answered, Wake, Typed, TypeOK, RunState
    <3>2. item' \in [Iter -> [Slots -> ItemState]]
      BY <1>16 DEF ApproveItem, Typed, TypeOK, ItemState
    <3> QED
      BY <1>16, <2>0, <3>1, <3>2 DEF ApproveItem, Typed, TypeOK, runRow, first, rows
  <2>2. WorkTyped'
    BY <1>16, WakeTyped DEF ApproveItem, Answered, Typed, WorkTyped
  <2> QED
    BY <2>1, <2>2 DEF Typed
<1>17. ASSUME Continue
      PROVE  Typed'
  <2>0. ops' \in 0..MaxOps
    BY <1>17, OperateTyped DEF Continue, Typed
  <2>1. TypeOK'
    <3>1. \A stale : stale \subseteq Stages => ToRun(stale) \in SUBSET Stages
      BY DEF ToRun
    <3>2. ToRun({s \in Iter : Outdated(s) # {}}) \in SUBSET Stages
      BY <3>1 DEF Stages
    <3>3. /\ source' \in ExecState /\ exec' \in [Iter -> ExecState]
          /\ item' \in [Iter -> [Slots -> ItemState]] /\ scope' \subseteq Stages
      BY <1>17, <3>2, PendingTyped DEF Continue, Typed, TypeOK
    <3>4. state' \in RunState
      BY <1>17 DEF Continue, Wake, RunState
    <3> QED
      BY <1>17, <2>0, <3>3, <3>4 DEF Continue, Typed, TypeOK, runRow, first, rows
  <2>2. WorkTyped'
    BY <1>17, WakeTyped DEF Continue, Typed, WorkTyped
  <2> QED
    BY <2>1, <2>2 DEF Typed
<1>18. ASSUME Keep
      PROVE  Typed'
  <2>0. ops' \in 0..MaxOps
    BY <1>18, OperateTyped DEF Keep, Typed
  <2>1. TypeOK'
    <3> DEFINE it == [s \in Iter |-> [i \in Slots |-> IF i \in Outdated(s) THEN "passed" ELSE item[s][i]]]
    <3>1. ToRun({}) \in SUBSET Stages
      BY DEF ToRun
    <3>2. it \in [Iter -> [Slots -> ItemState]]
      BY DEF Typed, TypeOK, ItemState
    <3>3. SetPending(ToRun({}), it)
      BY <1>18 DEF Keep
    <3> HIDE DEF it
    <3>4. /\ source' \in ExecState /\ exec' \in [Iter -> ExecState]
          /\ item' \in [Iter -> [Slots -> ItemState]] /\ scope' \subseteq Stages
      BY <3>1, <3>2, <3>3, PendingTyped DEF Typed
    <3>5. read' \in [Iter -> [Slots -> Versions]]
      BY <1>18 DEF Keep, Typed, TypeOK, Versions
    <3>6. state' \in RunState
      BY <1>18 DEF Keep, Wake, RunState
    <3> QED
      BY <1>18, <2>0, <3>4, <3>5, <3>6 DEF Keep, Typed, TypeOK, runRow, first, rows
  <2>2. WorkTyped'
    BY <1>18, WakeTyped DEF Keep, Typed, WorkTyped
  <2> QED
    BY <2>1, <2>2 DEF Typed
<1>19. ASSUME RerunSource
      PROVE  Typed'
  <2>0. ops' \in 0..MaxOps
    BY <1>19, OperateTyped DEF RerunSource, Typed
  <2>1. TypeOK'
    <3>1. item' \in [Iter -> [Slots -> ItemState]]
      BY <1>19 DEF RerunSource, Stale, Typed, TypeOK, ItemState
    <3>2. /\ state' \in RunState /\ scope' \subseteq Stages /\ source' \in ExecState
          /\ exec' \in [Iter -> ExecState] /\ wait' = {}
      BY <1>19 DEF RerunSource, Wake, RunState, ExecState
    <3> QED
      BY <1>19, <2>0, <3>1, <3>2 DEF RerunSource, Typed, TypeOK, runRow, first, rows
  <2>2. WorkTyped'
    BY <1>19, WakeTyped DEF RerunSource, Typed, WorkTyped
  <2> QED
    BY <2>1, <2>2 DEF Typed
<1>20. ASSUME RetrySource
      PROVE  Typed'
  <2>0. ops' \in 0..MaxOps
    BY <1>20, OperateTyped DEF RetrySource, Typed
  <2>1. TypeOK'
    <3>1. /\ item' \in [Iter -> [Slots -> ItemState]] /\ exec' \in [Iter -> ExecState]
          /\ wait' \subseteq wait
      BY <1>20, ApplyTyped DEF RetrySource, Typed
    <3>2. state' \in RunState /\ scope' \subseteq Stages /\ source' \in ExecState
      BY <1>20 DEF RetrySource, Wake, Affected, Typed, TypeOK, runRow, first, RunState, ExecState, Stages
    <3>3. version' \in Versions /\ size' \in 0..MaxItems
      BY <1>20 DEF RetrySource, Typed, TypeOK, first, Versions
    <3> QED
      BY <1>20, <2>0, <3>1, <3>2, <3>3 DEF RetrySource, Typed, TypeOK, runRow, first, rows
  <2>2. WorkTyped'
    BY <1>20, WakeTyped DEF RetrySource, Typed, WorkTyped
  <2> QED
    BY <2>1, <2>2 DEF Typed
<1>21. ASSUME EditSource
      PROVE  Typed'
  <2>0. ops' \in 0..MaxOps
    BY <1>21, OperateTyped DEF EditSource, Typed
  <2>1. TypeOK'
    <3>1. /\ item' \in [Iter -> [Slots -> ItemState]] /\ exec' \in [Iter -> ExecState]
          /\ wait' \subseteq wait
      BY <1>21, ApplyTyped DEF EditSource, Typed
    <3>2. state' \in RunState /\ scope' \subseteq Stages /\ source' \in ExecState
      BY <1>21 DEF EditSource, Wake, Affected, Typed, TypeOK, runRow, first, RunState, ExecState, Stages
    <3>3. version' \in Versions /\ size' \in 0..MaxItems
      BY <1>21 DEF EditSource, Typed, TypeOK, first, Versions
    <3> QED
      BY <1>21, <2>0, <3>1, <3>2, <3>3 DEF EditSource, Typed, TypeOK, runRow, first, rows
  <2>2. WorkTyped'
    BY <1>21, WakeTyped DEF EditSource, Typed, WorkTyped
  <2> QED
    BY <2>1, <2>2 DEF Typed
<1>22. ASSUME RejectWhole
      PROVE  Typed'
  <2>0. ops' \in 0..MaxOps
    BY <1>22, OperateTyped DEF RejectWhole, Typed
  <2>1. TypeOK'
    <3>1. /\ item' \in [Iter -> [Slots -> ItemState]] /\ exec' \in [Iter -> ExecState]
          /\ wait' \subseteq wait
      BY <1>22, ApplyTyped DEF RejectWhole, Typed
    <3>2. state' \in RunState
      BY <1>22 DEF RejectWhole, Answered, Wake, Typed, TypeOK, RunState
    <3> QED
      BY <1>22, <2>0, <3>1, <3>2 DEF RejectWhole, Typed, TypeOK, runRow, first, rows
  <2>2. WorkTyped'
    BY <1>22, WakeTyped DEF RejectWhole, Answered, Typed, WorkTyped
  <2> QED
    BY <2>1, <2>2 DEF Typed
<1>23. ASSUME NEW s \in Iter, RerunStage(s)
      PROVE  Typed'
  <2>0. ops' \in 0..MaxOps
    BY <1>23, OperateTyped DEF RerunStage, Typed
  <2>1. TypeOK'
    <3>1. item' \in [Iter -> [Slots -> ItemState]]
      BY <1>23 DEF RerunStage, Stale, Typed, TypeOK, ItemState
    <3>2. exec' \in [Iter -> ExecState]
      BY <1>23 DEF RerunStage, Typed, TypeOK, ExecState
    <3>3. state' \in RunState /\ scope' \subseteq Stages /\ wait' \subseteq wait
      BY <1>23 DEF RerunStage, Wake, LiveWaits, RunState, Stages
    <3> QED
      BY <1>23, <2>0, <3>1, <3>2, <3>3 DEF RerunStage, Typed, TypeOK, runRow, first, rows
  <2>2. WorkTyped'
    BY <1>23, WakeTyped DEF RerunStage, Typed, WorkTyped
  <2> QED
    BY <2>1, <2>2 DEF Typed
<1>24. ASSUME NEW s \in Iter, RetryFailed(s)
      PROVE  Typed'
  <2>0. ops' \in 0..MaxOps
    BY <1>24, OperateTyped DEF RetryFailed, Typed
  <2>1. TypeOK'
    <3>1. /\ item' \in [Iter -> [Slots -> ItemState]] /\ exec' \in [Iter -> ExecState]
          /\ wait' \subseteq wait
      BY <1>24, ApplyTyped DEF RetryFailed, Typed
    <3>2. state' \in RunState /\ scope' \subseteq Stages /\ source' \in ExecState
      BY <1>24 DEF RetryFailed, Wake, Affected, Typed, TypeOK, runRow, first, RunState, ExecState, Stages
    <3>3. version' \in Versions /\ size' \in 0..MaxItems
      BY <1>24 DEF RetryFailed, Typed, TypeOK, first, Versions
    <3> QED
      BY <1>24, <2>0, <3>1, <3>2, <3>3 DEF RetryFailed, Typed, TypeOK, runRow, first, rows
  <2>2. WorkTyped'
    BY <1>24, WakeTyped DEF RetryFailed, Typed, WorkTyped
  <2> QED
    BY <2>1, <2>2 DEF Typed
<1>25. ASSUME NEW s \in Iter, NEW i \in Slots, RerunItem(s, i)
      PROVE  Typed'
  <2>0. ops' \in 0..MaxOps
    BY <1>25, OperateTyped DEF RerunItem, Typed
  <2>1. TypeOK'
    <3> DEFINE hit == Closure(Seed(s, {i}))
               it  == StaleItems(hit, AllOf(hit, {}))
    <3>1. it \in [Iter -> [Slots -> ItemState]]
      BY StaleItemsAre DEF Typed, TypeOK
    <3> HIDE DEF hit, it
    <3>2. Freed(it[s]) \in [Slots -> ItemState]
      BY <3>1, FreedIs
    <3>3. item' = [it EXCEPT ![s] = Freed(it[s])]
      BY <1>25 DEF RerunItem, hit, it
    <3>4. item' \in [Iter -> [Slots -> ItemState]]
      BY <3>1, <3>2, <3>3
    <3>5. exec' \in [Iter -> ExecState]
      BY <1>25 DEF RerunItem, StaleStages, Typed, TypeOK, ExecState
    <3>6. state' \in RunState /\ scope' \subseteq Stages /\ wait' \subseteq wait
      BY <1>25 DEF RerunItem, Wake, LiveWaits, RunState, Stages
    <3> QED
      BY <1>25, <2>0, <3>4, <3>5, <3>6 DEF RerunItem, Typed, TypeOK, runRow, first, rows
  <2>2. WorkTyped'
    BY <1>25, WakeTyped DEF RerunItem, Typed, WorkTyped
  <2> QED
    BY <2>1, <2>2 DEF Typed
<1>26. ASSUME NEW i \in Slots, RejectItem(i)
      PROVE  Typed'
  <2>0. ops' \in 0..MaxOps
    BY <1>26, OperateTyped DEF RejectItem, Typed
  <2>1. TypeOK'
    <3>1. /\ item' \in [Iter -> [Slots -> ItemState]] /\ exec' \in [Iter -> ExecState]
          /\ wait' \subseteq wait
      BY <1>26, ApplyTyped DEF RejectItem, Typed
    <3>2. state' \in RunState
      BY <1>26 DEF RejectItem, Answered, Wake, Typed, TypeOK, RunState
    <3> QED
      BY <1>26, <2>0, <3>1, <3>2 DEF RejectItem, Typed, TypeOK, runRow, first, rows
  <2>2. WorkTyped'
    BY <1>26, WakeTyped DEF RejectItem, Answered, Typed, WorkTyped
  <2> QED
    BY <2>1, <2>2 DEF Typed
<1>27. CASE UNCHANGED vars
  BY <1>27 DEF Typed, TypeOK, WorkTyped, vars, runRow, first, rows
<1> QED
  BY <1>1, <1>2, <1>3, <1>4, <1>5, <1>6, <1>7, <1>8, <1>9, <1>10, <1>11, <1>12, <1>13, <1>14, <1>15, <1>16, <1>17, <1>18, <1>19, <1>20, <1>21, <1>22, <1>23, <1>24, <1>25, <1>26, <1>27
  DEF Next, Orchestrate, Execute, Humans

-----------------------------------------------------------------------------
(* The orchestrator and its function against the state of the run.          *)

(* A run that lives has its orchestrator at work, and no other has.         *)
LEMMA EngagedNext == Typed /\ Engaged /\ [Next]_vars => Engaged'
<1> SUFFICES ASSUME Typed /\ Engaged, [Next]_vars PROVE Engaged'
  OBVIOUS
<1>1. ASSUME Load
      PROVE  Engaged'
  BY <1>1 DEF Load, Loaded, Engaged, Live, runRow
<1>2. ASSUME MakeList
      PROVE  Engaged'
  <2>1. orch'.at = "plan" /\ fn.at = "none"
    BY <1>2 DEF MakeList, MayStart, Engaged, Typed, WorkTyped, PlanRecord
  <2> QED
    BY <1>2, <2>1 DEF MakeList, MayStart, Engaged, Live, runRow
<1>3. ASSUME NEW s \in Iter, StartStage(s)
      PROVE  Engaged'
  <2>1. orch'.row[s] = "running" /\ orch'.at = "collect" /\ fn'.stage = s
    BY <1>3 DEF StartStage, NoWork, Typed, WorkTyped, PlanRecord, Stages
  <2> QED
    BY <1>3, <2>1 DEF StartStage, MayStart, Engaged, Live, runRow
<1>4. ASSUME Collect
      PROVE  Engaged'
  <2>1. orch'.at = "plan" /\ fn'.at = "none"
    BY <1>4, NoRecords DEF Collect, Typed, WorkTyped, PlanRecord
  <2> QED
    BY <1>4, <2>1 DEF Collect, Engaged, Live, runRow
<1>5. ASSUME Finish
      PROVE  Engaged'
  BY <1>5, NoRecords, PlanAt DEF Finish, Resting, EndPause, EndBudget, EndFailed, EndWaiting, EndDone, End, Wake, Engaged, Live
<1>6. ASSUME Resolve
      PROVE  Engaged'
  <2>1. fn'.stage = fn.stage /\ fn.at # "none"
    BY <1>6, ReturnTyped DEF Resolve, Return, NoWork, Stage, Typed, WorkTyped, WorkRecord
  <2> QED
    BY <1>6, <2>1 DEF Resolve, Engaged, Live, runRow
<1>7. ASSUME Ensure
      PROVE  Engaged'
  <2>1. fn'.stage = fn.stage /\ fn.at # "none"
    BY <1>7, ReturnTyped DEF Ensure, Return, NoWork, Stage, Typed, WorkTyped, WorkRecord
  <2> QED
    BY <1>7, <2>1 DEF Ensure, Engaged, Live, runRow
<1>8. ASSUME StartBatch
      PROVE  Engaged'
  <2>1. fn'.stage = fn.stage /\ fn.at # "none"
    BY <1>8, ReturnTyped DEF StartBatch, Return, NoWork, Stage, Typed, WorkTyped, WorkRecord
  <2> QED
    BY <1>8, <2>1 DEF StartBatch, Engaged, Live, runRow
<1>9. ASSUME NEW i \in Slots, BeginItem(i)
      PROVE  Engaged'
  <2>1. fn'.stage = fn.stage /\ fn.at # "none"
    BY <1>9, ReturnTyped DEF BeginItem, Return, NoWork, Stage, Typed, WorkTyped, WorkRecord
  <2> QED
    BY <1>9, <2>1 DEF BeginItem, Engaged, Live, runRow
<1>10. ASSUME NEW i \in Slots, NEW r \in Results, EndItem(i, r)
      PROVE  Engaged'
  <2>1. fn'.stage = fn.stage /\ fn.at # "none"
    BY <1>10, ReturnTyped DEF EndItem, Return, NoWork, Stage, Typed, WorkTyped, WorkRecord
  <2> QED
    BY <1>10, <2>1 DEF EndItem, Engaged, Live, runRow
<1>11. ASSUME EndBatch
      PROVE  Engaged'
  <2>1. fn'.stage = fn.stage /\ fn.at # "none"
    BY <1>11, ReturnTyped DEF EndBatch, Advance, Return, NoWork, Stage, Typed, WorkTyped, WorkRecord
  <2> QED
    BY <1>11, <2>1 DEF EndBatch, Engaged, Live, runRow
<1>12. ASSUME FinishStage
      PROVE  Engaged'
  <2>1. fn'.stage = fn.stage /\ fn.at # "none"
    BY <1>12, ReturnTyped DEF FinishStage, Return, NoWork, Stage, Typed, WorkTyped, WorkRecord
  <2> QED
    BY <1>12, <2>1 DEF FinishStage, Engaged, Live, runRow
<1>13. ASSUME Pause
      PROVE  Engaged'
  BY <1>13 DEF Pause, Engaged, Live, runRow
<1>14. ASSUME Stop
      PROVE  Engaged'
  BY <1>14, NoRecords DEF Stop, Engaged, Live
<1>15. ASSUME ApproveWhole
      PROVE  Engaged'
  BY <1>15, NoRecords, PlanAt DEF ApproveWhole, Answered, AnswerStates, Wake, Engaged, Live, RunState, Typed, TypeOK
<1>16. ASSUME NEW i \in Slots, ApproveItem(i)
      PROVE  Engaged'
  BY <1>16, NoRecords, PlanAt DEF ApproveItem, Answered, AnswerStates, Wake, Engaged, Live, RunState, Typed, TypeOK
<1>17. ASSUME Continue
      PROVE  Engaged'
  BY <1>17, NoRecords, PlanAt DEF Continue, Eligible, Wake, Engaged, Live
<1>18. ASSUME Keep
      PROVE  Engaged'
  BY <1>18, NoRecords, PlanAt DEF Keep, Eligible, Wake, Engaged, Live
<1>19. ASSUME RerunSource
      PROVE  Engaged'
  BY <1>19, NoRecords, PlanAt DEF RerunSource, Eligible, Wake, Engaged, Live
<1>20. ASSUME RetrySource
      PROVE  Engaged'
  BY <1>20, NoRecords, PlanAt DEF RetrySource, Eligible, Wake, Engaged, Live
<1>21. ASSUME EditSource
      PROVE  Engaged'
  BY <1>21, NoRecords, PlanAt DEF EditSource, Eligible, Wake, Engaged, Live
<1>22. ASSUME RejectWhole
      PROVE  Engaged'
  BY <1>22, NoRecords, PlanAt DEF RejectWhole, Answered, AnswerStates, Wake, Engaged, Live, RunState, Typed, TypeOK
<1>23. ASSUME NEW s \in Iter, RerunStage(s)
      PROVE  Engaged'
  BY <1>23, NoRecords, PlanAt DEF RerunStage, Eligible, Wake, Engaged, Live
<1>24. ASSUME NEW s \in Iter, RetryFailed(s)
      PROVE  Engaged'
  BY <1>24, NoRecords, PlanAt DEF RetryFailed, Eligible, Wake, Engaged, Live
<1>25. ASSUME NEW s \in Iter, NEW i \in Slots, RerunItem(s, i)
      PROVE  Engaged'
  BY <1>25, NoRecords, PlanAt DEF RerunItem, Eligible, Wake, Engaged, Live
<1>26. ASSUME NEW i \in Slots, RejectItem(i)
      PROVE  Engaged'
  BY <1>26, NoRecords, PlanAt DEF RejectItem, Answered, AnswerStates, Wake, Engaged, Live, RunState, Typed, TypeOK
<1>27. CASE UNCHANGED vars
  BY <1>27 DEF vars, runRow, first, rows, Engaged, Live, runRow
<1> QED
  BY <1>1, <1>2, <1>3, <1>4, <1>5, <1>6, <1>7, <1>8, <1>9, <1>10, <1>11, <1>12, <1>13, <1>14, <1>15, <1>16, <1>17, <1>18, <1>19, <1>20, <1>21, <1>22, <1>23, <1>24, <1>25, <1>26, <1>27
  DEF Next, Orchestrate, Execute, Humans

(* What a person does to a run that rests changes no work: there is none.   *)
Quiet == /\ fn'.at = "none" /\ orch'.at \notin {"plan", "collect"}
         /\ state' # "COMPLETED" /\ ops' = ops + 1
LEMMA PlannedQuiet ==
  ASSUME Typed, Engaged, Planned
  PROVE  Quiet
<1>1. ~Live => fn.at = "none" /\ orch.at = "none"
  BY DEF Engaged
<1>2. ~Live /\ fn' = fn /\ Wake /\ ops' = ops + 1 => Quiet
  BY <1>1, WakeTyped DEF Quiet, Typed
<1>3. /\ state \in AnswerStates => ~Live /\ state # "COMPLETED"
      /\ state \in AnswerStates /\ Answered /\ fn' = fn /\ ops' = ops + 1 => Quiet
  BY <1>1, <1>2 DEF AnswerStates, Live, Answered, Quiet
<1> QED
  BY <1>2, <1>3 DEF Planned, Operate, Eligible, Live, Continue, Keep, RerunSource, RetrySource, EditSource,
     RejectWhole, RerunStage, RetryFailed, RerunItem, RejectItem

-----------------------------------------------------------------------------
(* The rows of the items, and the open waits on them.                       *)

(* An operator makes rows stale, frees what was running and keeps outdated  *)
(* ones; the counts stay.                                                   *)
Redoes(s, i) ==
  \/ item'[s][i] \in {item[s][i], "stale"}
  \/ item[s][i] = "running" /\ item'[s][i] = "pending"
  \/ item[s][i] = "stale" /\ item'[s][i] = "passed" /\ i < count[s]
LEMMA PlannedRows ==
  ASSUME Typed, Planned
  PROVE  /\ count' = count
         /\ \A s \in Iter, i \in Slots : Redoes(s, i)
<1>0. item \in [Iter -> [Slots -> ItemState]] /\ TypeOK
  BY DEF Typed, TypeOK
<1>1. ASSUME NEW hit, NEW whole, Apply(hit, whole)
      PROVE  \A s \in Iter, i \in Slots : Redoes(s, i)
  BY <1>0, <1>1, StaleItemsAre DEF Apply, Redoes
<1>2. ASSUME NEW execute, SetPending(execute, item)
      PROVE  \A s \in Iter, i \in Slots : Redoes(s, i)
  BY <1>0, <1>2, FreedIs DEF SetPending, Redoes
<1>3. CASE Continue
  BY <1>2, <1>3 DEF Continue
<1>4. CASE Keep
  <2> DEFINE it == [s \in Iter |-> [i \in Slots |-> IF i \in Outdated(s) THEN "passed" ELSE item[s][i]]]
  <2>1. it \in [Iter -> [Slots -> ItemState]]
    BY <1>0 DEF ItemState
  <2>2. \A s \in Iter, i \in Slots :
          \/ it[s][i] = item[s][i]
          \/ item[s][i] = "stale" /\ it[s][i] = "passed" /\ i < count[s]
    BY DEF Outdated, LiveSlots
  <2>3. SetPending(ToRun({}), it) /\ count' = count
    BY <1>4 DEF Keep
  <2> HIDE DEF it
  <2>4. ASSUME NEW s \in Iter, NEW i \in Slots
        PROVE  Redoes(s, i)
    <3>1. it[s] \in [Slots -> ItemState]
      BY <2>1
    <3>2. item'[s][i] = it[s][i] \/ (it[s][i] = "running" /\ item'[s][i] = "pending")
      <4>1. item'[s] = it[s] \/ item'[s] = Freed(it[s])
        BY <2>3 DEF SetPending
      <4> QED
        BY <3>1, <4>1 DEF Freed
    <3> QED
      BY <2>2, <3>2 DEF Redoes
  <2> QED
    BY <2>3, <2>4
<1>5. CASE RerunSource
  BY <1>0, <1>5 DEF RerunSource, Stale, Redoes
<1>6. ASSUME NEW s \in Iter, RerunStage(s)
      PROVE  count' = count /\ \A t \in Iter, i \in Slots : Redoes(t, i)
  BY <1>0, <1>6 DEF RerunStage, Stale, Redoes, first
<1>7. ASSUME NEW s \in Iter, NEW i \in Slots, RerunItem(s, i)
      PROVE  count' = count /\ \A t \in Iter, j \in Slots : Redoes(t, j)
  <2> DEFINE hit == Closure(Seed(s, {i}))
             it  == StaleItems(hit, AllOf(hit, {}))
  <2>1. /\ it \in [Iter -> [Slots -> ItemState]]
        /\ \A t \in Iter, j \in Slots : it[t][j] \in {item[t][j], "stale"}
    BY <1>0, StaleItemsAre
  <2>2. item' = [it EXCEPT ![s] = Freed(it[s])] /\ count' = count
    BY <1>7 DEF RerunItem
  <2> HIDE DEF hit, it
  <2>3. it[s] \in [Slots -> ItemState]
    BY <2>1
  <2>4. ASSUME NEW t \in Iter, NEW j \in Slots
        PROVE  Redoes(t, j)
    <3>1. item'[t][j] = it[t][j] \/ (it[t][j] = "running" /\ item'[t][j] = "pending")
      <4>1. item'[t] = it[t] \/ (t = s /\ item'[t] = Freed(it[t]))
        <5>1. DOMAIN it = Iter
          BY <2>1
        <5> QED
          BY <2>2, <5>1
      <4> QED
        BY <2>1, <2>3, <4>1 DEF Freed
    <3> QED
      BY <2>1, <3>1 DEF Redoes
  <2> QED
    BY <2>2, <2>4
<1> QED
  BY <1>1, <1>3, <1>4, <1>5, <1>6, <1>7
  DEF Planned, RetrySource, EditSource, RejectWhole, RetryFailed, RejectItem

(* The rows are those of the current count, and orphans nobody reads.       *)
LEMMA RowsNext == Typed /\ Engaged /\ RowsKnown /\ BatchSound /\ [Next]_vars => RowsKnown'
<1> SUFFICES ASSUME Typed /\ Engaged /\ RowsKnown /\ BatchSound, [Next]_vars PROVE RowsKnown'
  OBVIOUS
<1>1. ASSUME Load
      PROVE  RowsKnown'
  BY <1>1 DEF Load, RowsKnown, rows
<1>2. ASSUME MakeList
      PROVE  RowsKnown'
  BY <1>2 DEF MakeList, RowsKnown, rows
<1>3. ASSUME NEW s \in Iter, StartStage(s)
      PROVE  RowsKnown'
  BY <1>3 DEF StartStage, RowsKnown, rows
<1>4. ASSUME Collect
      PROVE  RowsKnown'
  BY <1>4 DEF Collect, RowsKnown
<1>5. ASSUME Finish
      PROVE  RowsKnown'
  BY <1>5 DEF Finish, RowsKnown
<1>6. ASSUME Resolve
      PROVE  RowsKnown'
  BY <1>6 DEF Resolve, RowsKnown
<1>7. ASSUME Ensure
      PROVE  RowsKnown'
  <2>1. fn.stage \in Iter /\ size \in Nat /\ MaxItems \in Nat
    BY ItemsAssumption DEF Typed, TypeOK, WorkTyped, WorkRecord
  <2>2. CASE UNCHANGED <<count, item>>
    BY <2>2 DEF RowsKnown
  <2>3. CASE ~UNCHANGED <<count, item>>
    <3>1. /\ ~CountRefused
          /\ count' = [count EXCEPT ![fn.stage] = size]
          /\ item' = [item EXCEPT ![fn.stage] = [i \in Slots |->
                        IF i < size /\ item[fn.stage][i] = "none" THEN "pending" ELSE item[fn.stage][i]]]
      BY <1>7, <2>3 DEF Ensure, Stage
    <3>2. count[fn.stage] = size \/ \A i \in Slots : item[fn.stage][i] \in {"none", "stale"}
      BY <2>1, <3>1 DEF CountRefused, Stage, RowsKnown, Slots
    <3> QED
      BY <2>1, <3>1, <3>2 DEF RowsKnown, Typed, TypeOK, Slots
  <2> QED
    BY <2>2, <2>3
<1>8. ASSUME StartBatch
      PROVE  RowsKnown'
  BY <1>8 DEF StartBatch, RowsKnown, rows
<1>9. ASSUME NEW i \in Slots, BeginItem(i)
      PROVE  RowsKnown'
  <2>1. fn.stage \in Iter /\ item \in [Iter -> [Slots -> ItemState]]
    BY DEF Typed, TypeOK, WorkTyped, WorkRecord
  <2>2. i < count[fn.stage]
    BY <1>9 DEF BeginItem, BatchSound, LiveSlots
  <2>3. item' = item \/ item' = [item EXCEPT ![fn.stage][i] = "running"]
    BY <1>9 DEF BeginItem, Stage
  <2>4. i \in Slots /\ count' = count /\ MaxItems \in Nat /\ count[fn.stage] \in Nat
    BY <1>9, <2>1, ItemsAssumption DEF BeginItem, Typed, TypeOK
  <2> QED
    BY <2>1, <2>2, <2>3, <2>4 DEF RowsKnown, Slots
<1>10. ASSUME NEW i \in Slots, NEW r \in Results, EndItem(i, r)
      PROVE  RowsKnown'
  <2>1. fn.stage \in Iter /\ item \in [Iter -> [Slots -> ItemState]]
    BY DEF Typed, TypeOK, WorkTyped, WorkRecord
  <2>2. i < count[fn.stage] /\ item[fn.stage][i] = "running"
    BY <1>10 DEF EndItem, BatchSound, LiveSlots
  <2>3. PICK new \in {"awaiting_approval", "passed", "failed", "running"} : item' = [item EXCEPT ![fn.stage][i] = new]
    BY <1>10, <2>2 DEF EndItem, ItemAfter, Stage
  <2>4. i \in Slots /\ count' = count /\ MaxItems \in Nat /\ count[fn.stage] \in Nat
    BY <1>10, <2>1, ItemsAssumption DEF EndItem, Typed, TypeOK
  <2> QED
    BY <2>1, <2>2, <2>3, <2>4 DEF RowsKnown, Slots
<1>11. ASSUME EndBatch
      PROVE  RowsKnown'
  BY <1>11 DEF EndBatch, RowsKnown
<1>12. ASSUME FinishStage
      PROVE  RowsKnown'
  BY <1>12 DEF FinishStage, RowsKnown
<1>13. ASSUME Pause
      PROVE  RowsKnown'
  BY <1>13 DEF Pause, RowsKnown, rows
<1>14. ASSUME Stop
      PROVE  RowsKnown'
  <2>1. \A s \in Iter : item[s] \in [Slots -> ItemState]
    BY DEF Typed, TypeOK
  <2>2. \A s \in Iter, i \in Slots : item'[s][i] = item[s][i] \/ (item[s][i] = "running" /\ item'[s][i] = "pending")
    <3>1. \A s \in Iter : item'[s] = Freed(item[s])
      BY <1>14 DEF Stop
    <3> QED
      BY <2>1, <3>1 DEF Freed
  <2> QED
    BY <1>14, <2>2 DEF Stop, RowsKnown
<1>15. ASSUME ApproveWhole
      PROVE  RowsKnown'
  BY <1>15 DEF ApproveWhole, RowsKnown, rows
<1>16. ASSUME NEW i \in Slots, ApproveItem(i)
      PROVE  RowsKnown'
  <2>1. item \in [Iter -> [Slots -> ItemState]]
    BY DEF Typed, TypeOK
  <2>2. /\ item["items"][i] = "awaiting_approval" /\ count' = count
        /\ item' = [item EXCEPT !["items"][i] = "passed"]
    BY <1>16 DEF ApproveItem
  <2> QED
    BY <2>1, <2>2 DEF RowsKnown, Iter
<1>17. CASE Planned
  <2>1. ASSUME NEW s \in Iter, NEW i \in Slots
        PROVE  /\ i < count'[s] => item'[s][i] # "none"
               /\ i >= count'[s] => item'[s][i] \in {"none", "stale"}
    <3>1. /\ i < count[s] => item[s][i] # "none"
          /\ i >= count[s] => item[s][i] \in {"none", "stale"}
      BY DEF RowsKnown
    <3>2. Redoes(s, i) /\ count' = count
      BY <1>17, PlannedRows
    <3>3. i \in Nat /\ count[s] \in Nat
      BY ItemsAssumption DEF Slots, Typed, TypeOK
    <3> QED
      BY <3>1, <3>2, <3>3 DEF Redoes
  <2> QED
    BY <2>1 DEF RowsKnown
<1>18. CASE UNCHANGED vars
  BY <1>18 DEF vars, runRow, first, rows, RowsKnown
<1> QED
  BY <1>1, <1>2, <1>3, <1>4, <1>5, <1>6, <1>7, <1>8, <1>9, <1>10, <1>11, <1>12, <1>13, <1>14, <1>15, <1>16, <1>17, <1>18, NextCases
  DEF Orchestrate, Execute

(* A batch begins only what may be made again.                              *)
LEMMA BatchNext == Typed /\ Engaged /\ RowsKnown /\ BatchSound /\ [Next]_vars => BatchSound'
<1> SUFFICES ASSUME Typed /\ Engaged /\ RowsKnown /\ BatchSound, [Next]_vars PROVE BatchSound'
  OBVIOUS
<1>1. ASSUME Load
      PROVE  BatchSound'
  BY <1>1 DEF Load, Engaged, BatchSound
<1>2. ASSUME MakeList
      PROVE  BatchSound'
  BY <1>2 DEF MakeList, MayStart, Engaged, BatchSound
<1>3. ASSUME NEW s \in Iter, StartStage(s)
      PROVE  BatchSound'
  BY <1>3 DEF StartStage, NoWork, BatchSound
<1>4. ASSUME Collect
      PROVE  BatchSound'
  BY <1>4, NoRecords DEF Collect, BatchSound
<1>5. ASSUME Finish
      PROVE  BatchSound'
  BY <1>5 DEF Finish, Resting, Engaged, BatchSound
<1>6. ASSUME Resolve
      PROVE  BatchSound'
  <2>1. fn'.at # "run"
    BY <1>6, ReturnTyped DEF Resolve, Return, NoWork, Typed, WorkTyped, WorkRecord
  <2>2. fn'.at \in {"resolve", "ensure", "batch"} => fn'.busy = fn.busy
    BY <1>6 DEF Resolve, Return, NoWork, Typed, WorkTyped, WorkRecord
  <2> QED
    BY <1>6, <2>1, <2>2 DEF Resolve, BatchSound
<1>7. ASSUME Ensure
      PROVE  BatchSound'
  <2>1. fn'.at # "run"
    BY <1>7, ReturnTyped DEF Ensure, Return, NoWork, Typed, WorkTyped, WorkRecord
  <2>2. fn'.at \in {"resolve", "ensure", "batch"} => fn'.busy = fn.busy
    BY <1>7 DEF Ensure, Return, NoWork, Typed, WorkTyped, WorkRecord
  <2> QED
    BY <1>7, <2>1, <2>2 DEF Ensure, BatchSound
<1>8. ASSUME StartBatch
      PROVE  BatchSound'
  <2>1. CASE Return("run_not_running")
    BY <2>1 DEF Return, NoWork, BatchSound
  <2>2. CASE ~Return("run_not_running")
    <3>1. /\ fn'.stage = fn.stage /\ fn'.busy = fn.busy
          /\ fn'.todo = {i \in Batch : Due(item[Stage][i])}
      BY <1>8, <2>2 DEF StartBatch, Typed, WorkTyped, WorkRecord
    <3>2. fn.busy = {}
      BY <1>8 DEF StartBatch, BatchSound
    <3> QED
      BY <1>8, <3>1, <3>2 DEF StartBatch, BatchSound, Batch, LiveSlots, Due, Stage, rows
  <2> QED
    BY <2>1, <2>2
<1>9. ASSUME NEW i \in Slots, BeginItem(i)
      PROVE  BatchSound'
  <2>1. /\ fn.stage \in Iter /\ fn.at = "run" /\ i \in fn.todo /\ i \notin fn.busy
        /\ fn.todo \in SUBSET Slots /\ fn.busy \in SUBSET Slots
    BY <1>9 DEF BeginItem, Typed, WorkTyped, WorkRecord, BatchSound
  <2>2. /\ fn'.at = "run" /\ fn'.stage = fn.stage /\ fn'.todo = fn.todo \ {i}
        /\ \/ fn'.busy = fn.busy \cup {i} /\ item' = [item EXCEPT ![fn.stage][i] = "running"]
           \/ fn'.busy = fn.busy /\ item' = item
    BY <1>9 DEF BeginItem, Stage, Typed, WorkTyped, WorkRecord
  <2>3. count' = count /\ item \in [Iter -> [Slots -> ItemState]]
    BY <1>9 DEF BeginItem, Typed, TypeOK
  <2> QED
    BY <2>1, <2>2, <2>3 DEF BatchSound, LiveSlots
<1>10. ASSUME NEW i \in Slots, NEW r \in Results, EndItem(i, r)
      PROVE  BatchSound'
  <2>1. /\ fn.stage \in Iter /\ fn.at = "run" /\ i \in fn.busy /\ i \notin fn.todo
        /\ fn.todo \in SUBSET Slots /\ fn.busy \in SUBSET Slots
    BY <1>10 DEF EndItem, Typed, WorkTyped, WorkRecord, BatchSound
  <2>2. /\ fn'.at = "run" /\ fn'.stage = fn.stage /\ fn'.todo = fn.todo
        /\ fn'.busy = fn.busy \ {i}
    BY <1>10 DEF EndItem, Stage, Typed, WorkTyped, WorkRecord
  <2>3. \E new : item' = [item EXCEPT ![fn.stage][i] = new]
    BY <1>10 DEF EndItem, Stage
  <2>4. count' = count /\ item \in [Iter -> [Slots -> ItemState]]
    BY <1>10 DEF EndItem, Typed, TypeOK
  <2> QED
    BY <2>1, <2>2, <2>3, <2>4 DEF BatchSound, LiveSlots
<1>11. ASSUME EndBatch
      PROVE  BatchSound'
  <2>1. fn'.at # "run"
    <3>1. \A r : Return(r) => fn'.at = "done"
      BY DEF Return, NoWork
    <3> QED
      BY <1>11, <3>1 DEF EndBatch, Advance, Typed, WorkTyped, WorkRecord
  <2>2. fn'.at \in {"resolve", "ensure", "batch"} => fn'.busy = fn.busy
    BY <1>11 DEF EndBatch, Advance, Return, NoWork, Typed, WorkTyped, WorkRecord
  <2> QED
    BY <1>11, <2>1, <2>2 DEF EndBatch, BatchSound
<1>12. ASSUME FinishStage
      PROVE  BatchSound'
  <2>1. fn'.at = "done"
    BY <1>12 DEF FinishStage, Return, NoWork
  <2> QED
    BY <2>1 DEF BatchSound
<1>13. ASSUME Pause
      PROVE  BatchSound'
  BY <1>13 DEF Pause, BatchSound, LiveSlots, rows
<1>14. ASSUME Stop
      PROVE  BatchSound'
  BY <1>14, NoRecords DEF Stop, BatchSound
<1>15. ASSUME ApproveWhole
      PROVE  BatchSound'
  BY <1>15 DEF ApproveWhole, BatchSound, LiveSlots
<1>16. ASSUME NEW i \in Slots, ApproveItem(i)
      PROVE  BatchSound'
  <2>1. item \in [Iter -> [Slots -> ItemState]] /\ fn.stage \in Iter
    BY DEF Typed, TypeOK, WorkTyped, WorkRecord
  <2>2. /\ item["items"][i] = "awaiting_approval" /\ count' = count /\ fn' = fn
        /\ item' = [item EXCEPT !["items"][i] = "passed"]
    BY <1>16 DEF ApproveItem
  <2>3. fn.at = "run" => fn.todo \subseteq Slots /\ fn.busy \subseteq Slots
    BY DEF Typed, WorkTyped, WorkRecord
  <2> QED
    BY <2>1, <2>2, <2>3 DEF BatchSound, LiveSlots, Iter
<1>17. CASE Planned
  BY <1>17, PlannedQuiet DEF Quiet, BatchSound
<1>18. CASE UNCHANGED vars
  BY <1>18 DEF vars, runRow, first, rows, BatchSound, LiveSlots
<1> QED
  BY <1>1, <1>2, <1>3, <1>4, <1>5, <1>6, <1>7, <1>8, <1>9, <1>10, <1>11, <1>12, <1>13, <1>14, <1>15, <1>16, <1>17, <1>18, NextCases
  DEF Orchestrate, Execute

-----------------------------------------------------------------------------
(* The open waits.                                                          *)

LEMMA WaitsAreLive ==
  ASSUME Typed, WaitsMatch
  PROVE  /\ LiveWaits(wait, exec, item) = wait
         /\ exec["items"] = "awaiting_approval" => LiveWait
         /\ (\E i \in Slots : item["items"][i] = "awaiting_approval") => LiveWait
<1>1. Whole \notin Slots /\ wait \subseteq Slots \cup {Whole}
  BY ItemsAssumption DEF Whole, Slots, Typed, TypeOK
<1>2. LiveWaits(wait, exec, item) = wait
  BY <1>1 DEF LiveWaits, WaitsMatch
<1> QED
  BY <1>2 DEF LiveWait, WaitsMatch

(* Waits that are read again are those of the new rows, when no row waits   *)
(* that did not wait before.                                                *)
LEMMA WaitsReadAgain ==
  ASSUME Typed, WaitsMatch, wait' = LiveWaits(wait, exec', item'),
         \A i \in Slots : item'["items"][i] = "awaiting_approval" => item["items"][i] = "awaiting_approval",
         exec'["items"] = "awaiting_approval" => exec["items"] = "awaiting_approval"
  PROVE  WaitsMatch'
<1>1. Whole \notin Slots
  BY ItemsAssumption DEF Whole, Slots
<1> QED
  BY <1>1 DEF WaitsMatch, LiveWaits

LEMMA PlannedWaits ==
  ASSUME Typed, WaitsMatch, Planned
  PROVE  WaitsMatch'
<1>1. \A i \in Slots : item'["items"][i] = "awaiting_approval" => item["items"][i] = "awaiting_approval"
  BY PlannedRows DEF Redoes, Iter
<1>2. exec \in [Iter -> ExecState] /\ item \in [Iter -> [Slots -> ItemState]]
  BY DEF Typed, TypeOK
<1>3. \A all : StaleStages(all)["items"] \in {exec["items"], "stale"}
  BY DEF StaleStages, Iter
<1>4. CASE \E hit, whole : Apply(hit, whole)
  BY <1>1, <1>3, <1>4, WaitsReadAgain DEF Apply
<1>5. ASSUME NEW execute \in SUBSET Stages, NEW it \in [Iter -> [Slots -> ItemState]], SetPending(execute, it), wait' = wait,
             \A i \in Slots : it["items"][i] = "awaiting_approval" <=> item["items"][i] = "awaiting_approval"
      PROVE  WaitsMatch'
  <2>1. CASE LiveWait
    <3>1. "items" \notin Redone(execute)
      BY <2>1 DEF Redone
    <3>2. exec'["items"] = exec["items"] /\ item'["items"] = it["items"]
      BY <1>5, <3>1 DEF SetPending, Iter
    <3> QED
      BY <1>5, <3>2 DEF WaitsMatch
  <2>2. CASE ~LiveWait
    <3>1. wait = {}
      BY <2>2, WaitsAreLive DEF LiveWait
    <3>2. exec'["items"] # "awaiting_approval"
      BY <1>5, <2>2, WaitsAreLive DEF SetPending, Iter
    <3>3. \A i \in Slots : item'["items"][i] # "awaiting_approval"
      BY <1>1, <2>2, WaitsAreLive
    <3>4. Whole \notin Slots
      BY ItemsAssumption DEF Whole, Slots
    <3> QED
      BY <1>5, <3>1, <3>2, <3>3 DEF WaitsMatch
  <2> QED
    BY <2>1, <2>2
<1>6. CASE Continue
  <2> DEFINE stale == {s \in Iter : Outdated(s) # {}}
  <2>1. ToRun(stale) \in SUBSET Stages
    BY DEF ToRun, Stages
  <2>2. SetPending(ToRun(stale), item) /\ wait' = wait
    BY <1>6 DEF Continue
  <2> HIDE DEF stale
  <2> QED
    BY <1>2, <1>5, <2>1, <2>2
<1>7. CASE Keep
  <2> DEFINE it == [s \in Iter |-> [i \in Slots |-> IF i \in Outdated(s) THEN "passed" ELSE item[s][i]]]
  <2>1. it \in [Iter -> [Slots -> ItemState]]
    BY <1>2 DEF ItemState
  <2>2. ToRun({}) \in SUBSET Stages
    BY DEF ToRun
  <2>3. SetPending(ToRun({}), it) /\ wait' = wait
    BY <1>7 DEF Keep
  <2>4. \A i \in Slots : it["items"][i] = "awaiting_approval" <=> item["items"][i] = "awaiting_approval"
    BY DEF Outdated, Iter
  <2> HIDE DEF it
  <2> QED
    BY <1>5, <2>1, <2>2, <2>3, <2>4
<1>8. CASE RerunSource
  <2>1. /\ \A i \in Slots : item'["items"][i] \in {"none", "stale"}
        /\ exec'["items"] = "pending" /\ wait' = {}
    BY <1>8 DEF RerunSource, Stale, Iter
  <2>2. Whole \notin Slots
    BY ItemsAssumption DEF Whole, Slots
  <2> QED
    BY <2>1 DEF WaitsMatch
<1>9. ASSUME NEW s \in Iter, RerunStage(s)
      PROVE  WaitsMatch'
  <2>1. exec'["items"] \in {exec["items"], "pending", "stale"}
    BY <1>9 DEF RerunStage, Iter
  <2> QED
    BY <1>1, <1>9, <2>1, WaitsReadAgain DEF RerunStage
<1>10. ASSUME NEW s \in Iter, NEW i \in Slots, RerunItem(s, i)
       PROVE  WaitsMatch'
  <2> DEFINE all == AllOf(Closure(Seed(s, {i})), {})
  <2>1. exec' = [StaleStages(all) EXCEPT ![s] = "pending"] /\ wait' = LiveWaits(wait, exec', item')
    BY <1>10 DEF RerunItem
  <2> HIDE DEF all
  <2>2. DOMAIN StaleStages(all) = Iter
    BY DEF StaleStages
  <2>3. exec'["items"] \in {exec["items"], "pending", "stale"}
    BY <1>3, <2>1, <2>2 DEF Iter
  <2> QED
    BY <1>1, <2>1, <2>3, WaitsReadAgain
<1> QED
  BY <1>4, <1>6, <1>7, <1>8, <1>9, <1>10
  DEF Planned, RetrySource, EditSource, RejectWhole, RetryFailed, RejectItem

(* The open waits stay those of the rows.                                    *)
LEMMA WaitsNext == Typed /\ Engaged /\ BatchSound /\ WaitsMatch /\ AskedAlone /\ [Next]_vars => WaitsMatch'
<1> SUFFICES ASSUME Typed /\ Engaged /\ BatchSound /\ WaitsMatch /\ AskedAlone, [Next]_vars PROVE WaitsMatch'
  OBVIOUS
<1>1. ASSUME Load
      PROVE  WaitsMatch'
  BY <1>1 DEF Load, WaitsMatch, rows
<1>2. ASSUME MakeList
      PROVE  WaitsMatch'
  BY <1>2 DEF MakeList, WaitsMatch, rows
<1>3. ASSUME NEW s \in Iter, StartStage(s)
      PROVE  WaitsMatch'
  BY <1>3 DEF StartStage, WaitsMatch, rows
<1>4. ASSUME Collect
      PROVE  WaitsMatch'
  <2>1. fn.stage \in Iter /\ item \in [Iter -> [Slots -> ItemState]] /\ exec \in [Iter -> ExecState]
    BY DEF Typed, TypeOK, WorkTyped, WorkRecord

  <2>2. exec' = exec \/ (fn.result = "crash" /\ exec' = [exec EXCEPT ![fn.stage] = "failed"])
    BY <1>4 DEF Collect
  <2>3. fn.result = "crash" /\ fn.stage = "items" => exec["items"] # "awaiting_approval"
    BY <1>4 DEF Collect, AskedAlone, Idle
  <2> QED
    BY <1>4, <2>1, <2>2, <2>3 DEF Collect, WaitsMatch
<1>5. ASSUME Finish
      PROVE  WaitsMatch'
  BY <1>5, WaitsAreLive DEF Finish, EndPause, EndBudget, EndFailed, EndWaiting, EndDone, WaitsMatch
<1>6. ASSUME Resolve
      PROVE  WaitsMatch'
  <2>1. fn.stage \in Iter /\ item \in [Iter -> [Slots -> ItemState]] /\ exec \in [Iter -> ExecState]
    BY DEF Typed, TypeOK, WorkTyped, WorkRecord

  <2>2. fn.stage = "items" => exec["items"] # "awaiting_approval"
    BY <1>6 DEF Resolve, AskedAlone, Idle

  <2>3. exec' = exec \/ exec' = [exec EXCEPT ![fn.stage] = "failed"]
    BY <1>6 DEF Resolve, Stage
  <2>4. exec'["items"] = "awaiting_approval" <=> exec["items"] = "awaiting_approval"
    BY <2>1, <2>2, <2>3 DEF Iter
  <2>5. item' = item /\ wait' = wait
    BY <1>6 DEF Resolve
  <2> QED
    BY <2>4, <2>5 DEF WaitsMatch
<1>7. ASSUME Ensure
      PROVE  WaitsMatch'
  <2>1. fn.stage \in Iter /\ item \in [Iter -> [Slots -> ItemState]] /\ exec \in [Iter -> ExecState]
    BY DEF Typed, TypeOK, WorkTyped, WorkRecord

  <2>2. \/ item' = item
        \/ item' = [item EXCEPT ![fn.stage] = [i \in Slots |->
                      IF i < size /\ item[fn.stage][i] = "none" THEN "pending" ELSE item[fn.stage][i]]]
    BY <1>7 DEF Ensure, Stage
  <2>3. \A i \in Slots : item'["items"][i] = "awaiting_approval" <=> item["items"][i] = "awaiting_approval"
    BY <2>1, <2>2 DEF Iter
  <2> QED
    BY <1>7, <2>3 DEF Ensure, WaitsMatch
<1>8. ASSUME StartBatch
      PROVE  WaitsMatch'
  BY <1>8 DEF StartBatch, WaitsMatch, rows
<1>9. ASSUME NEW i \in Slots, BeginItem(i)
      PROVE  WaitsMatch'
  <2>1. fn.stage \in Iter /\ item \in [Iter -> [Slots -> ItemState]] /\ exec \in [Iter -> ExecState]
    BY DEF Typed, TypeOK, WorkTyped, WorkRecord

  <2>2. i \in Slots /\ item[fn.stage][i] # "awaiting_approval"
    BY <1>9 DEF BeginItem, BatchSound
  <2>3. item' = item \/ item' = [item EXCEPT ![fn.stage][i] = "running"]
    BY <1>9 DEF BeginItem, Stage
  <2>4. exec'["items"] = "awaiting_approval" <=> exec["items"] = "awaiting_approval"
    <3>1. \/ exec' = exec
          \/ exec' = [exec EXCEPT ![fn.stage] =
                        IF exec[fn.stage] \in {"passed", "awaiting_approval"} THEN exec[fn.stage] ELSE "running"]
      BY <1>9 DEF BeginItem, Stage
    <3> QED
      BY <2>1, <3>1 DEF Iter
  <2>5. \A j \in Slots : item'["items"][j] = "awaiting_approval" <=> item["items"][j] = "awaiting_approval"
    BY <2>1, <2>2, <2>3 DEF Iter
  <2>6. wait' = wait
    BY <1>9 DEF BeginItem
  <2> QED
    BY <2>4, <2>5, <2>6 DEF WaitsMatch
<1>10. ASSUME NEW i \in Slots, NEW r \in Results, EndItem(i, r)
      PROVE  WaitsMatch'
  <2>1. fn.stage \in Iter /\ item \in [Iter -> [Slots -> ItemState]] /\ exec \in [Iter -> ExecState]
    BY DEF Typed, TypeOK, WorkTyped, WorkRecord

  <2> DEFINE review == r = "passed" /\ Mode(fn.stage) = "item"
             new == IF review THEN "awaiting_approval" ELSE ItemAfter(r, item[fn.stage][i])
  <2>2. /\ i \in Slots /\ item[fn.stage][i] = "running" /\ Whole \notin Slots
        /\ fn.stage # "items" => ~review
    BY <1>10, ItemsAssumption DEF EndItem, BatchSound, Mode, Whole, Slots
  <2>3. /\ item' = [item EXCEPT ![fn.stage][i] = new] /\ exec' = exec
        /\ wait' = IF review THEN wait \cup {i} ELSE wait
    BY <1>10 DEF EndItem, Stage
  <2>4. new = "awaiting_approval" <=> review
    BY <2>2 DEF ItemAfter
  <2> HIDE DEF review, new
  <2> QED
    BY <2>1, <2>2, <2>3, <2>4 DEF WaitsMatch
<1>11. ASSUME EndBatch
      PROVE  WaitsMatch'
  <2>1. fn.stage \in Iter /\ item \in [Iter -> [Slots -> ItemState]] /\ exec \in [Iter -> ExecState]
    BY DEF Typed, TypeOK, WorkTyped, WorkRecord

  <2>2. fn.stage = "items" => exec["items"] # "awaiting_approval"
    BY <1>11 DEF EndBatch, AskedAlone, Idle

  <2>3. exec' = exec \/ exec' = [exec EXCEPT ![fn.stage] = "failed"]
    BY <1>11 DEF EndBatch, Stage
  <2> QED
    BY <1>11, <2>1, <2>2, <2>3 DEF EndBatch, WaitsMatch
<1>12. ASSUME FinishStage
      PROVE  WaitsMatch'
  <2>1. fn.stage \in Iter /\ item \in [Iter -> [Slots -> ItemState]] /\ exec \in [Iter -> ExecState]
    BY DEF Typed, TypeOK, WorkTyped, WorkRecord

  <2>2. fn.stage = "items" => exec["items"] # "awaiting_approval"
    BY <1>12 DEF FinishStage, AskedAlone, Idle

  <2>3. item' = item /\ Whole \notin Slots
    BY <1>12, ItemsAssumption DEF FinishStage, Whole, Slots
  <2>4. CASE UNCHANGED wait /\ (exec' = exec \/ exec' = [exec EXCEPT ![fn.stage] = "passed"])
    <3>1. exec'["items"] = "awaiting_approval" <=> exec["items"] = "awaiting_approval"
      BY <2>1, <2>2, <2>4 DEF Iter
    <3> QED
      BY <2>3, <2>4, <3>1 DEF WaitsMatch
  <2>5. CASE Mode(fn.stage) = "stage" /\ Live /\ exec' = [exec EXCEPT ![fn.stage] = "awaiting_approval"] /\ wait' = wait \cup {Whole}
    <3>1. fn.stage = "items"
      BY <2>1, <2>5 DEF Mode, Iter
    <3> QED
      BY <2>1, <2>2, <2>3, <2>5, <3>1 DEF WaitsMatch
  <2> QED
    BY <1>12, <2>4, <2>5 DEF FinishStage, Stage
<1>13. ASSUME Pause
      PROVE  WaitsMatch'
  BY <1>13 DEF Pause, WaitsMatch, rows
<1>14. ASSUME Stop
      PROVE  WaitsMatch'
  <2>1. fn.stage \in Iter /\ item \in [Iter -> [Slots -> ItemState]] /\ exec \in [Iter -> ExecState]
    BY DEF Typed, TypeOK, WorkTyped, WorkRecord

  <2>2. \A j \in Slots : item'["items"][j] = "awaiting_approval" <=> item["items"][j] = "awaiting_approval"
    BY <1>14, <2>1 DEF Stop, Freed, Iter
  <2>3. exec'["items"] = "awaiting_approval" <=> exec["items"] = "awaiting_approval"
    BY <1>14, <2>1 DEF Stop, Iter
  <2> QED
    BY <1>14, <2>2, <2>3 DEF Stop, WaitsMatch
<1>15. ASSUME ApproveWhole
      PROVE  WaitsMatch'
  <2>1. fn.stage \in Iter /\ item \in [Iter -> [Slots -> ItemState]] /\ exec \in [Iter -> ExecState]
    BY DEF Typed, TypeOK, WorkTyped, WorkRecord

  <2>2. \A j \in Slots : item["items"][j] # "awaiting_approval"
    BY <1>15 DEF ApproveWhole, ApproveAccepted, AllPassed
  <2>3. item' = item /\ exec'["items"] = "passed" /\ wait' = {}
    BY <1>15, <2>1 DEF ApproveWhole, Iter
  <2> QED
    BY <2>2, <2>3 DEF WaitsMatch
<1>16. ASSUME NEW i \in Slots, ApproveItem(i)
      PROVE  WaitsMatch'
  <2>1. fn.stage \in Iter /\ item \in [Iter -> [Slots -> ItemState]] /\ exec \in [Iter -> ExecState]
    BY DEF Typed, TypeOK, WorkTyped, WorkRecord

  <2>2. /\ item' = [item EXCEPT !["items"][i] = "passed"] /\ wait' = wait \ {i}
        /\ exec' = exec /\ i \in Slots /\ i # Whole
    BY <1>16, ItemsAssumption DEF ApproveItem, Whole, Slots
  <2> QED
    BY <2>1, <2>2 DEF WaitsMatch, Iter
<1>17. CASE Planned
  BY <1>17, PlannedWaits
<1>18. CASE UNCHANGED vars
  BY <1>18 DEF vars, runRow, first, rows, WaitsMatch
<1> QED
  BY <1>1, <1>2, <1>3, <1>4, <1>5, <1>6, <1>7, <1>8, <1>9, <1>10, <1>11, <1>12, <1>13, <1>14, <1>15, <1>16, <1>17, <1>18, NextCases
  DEF Orchestrate, Execute

(* Nobody is asked about a stage a function works on.                       *)
LEMMA AskedNext == Typed /\ Engaged /\ BatchSound /\ WaitsMatch /\ AskedAlone /\ [Next]_vars => AskedAlone'
<1> SUFFICES ASSUME Typed /\ Engaged /\ BatchSound /\ WaitsMatch /\ AskedAlone, [Next]_vars PROVE AskedAlone'
  OBVIOUS
<1>1. ASSUME Load
      PROVE  AskedAlone'
  <2>1. exec' = exec /\ fn' = fn /\ fn.at = "none" /\ orch'.open = LiveWait
    BY <1>1 DEF Load, Loaded, Engaged, rows
  <2> QED
    BY <2>1, WaitsAreLive DEF AskedAlone, Idle
<1>2. ASSUME MakeList
      PROVE  AskedAlone'
  <2>1. exec' = exec /\ fn' = fn /\ orch'.open = orch.open /\ orch.at = "plan"
    BY <1>2 DEF MakeList, MayStart, rows, Typed, WorkTyped, PlanRecord
  <2> QED
    BY <2>1 DEF AskedAlone, Idle
<1>3. ASSUME NEW s \in Iter, StartStage(s)
      PROVE  AskedAlone'
  <2>1. /\ exec' = exec /\ fn'.stage = s /\ orch'.open = orch.open /\ orch.at = "plan"
        /\ s = "items" => ~orch.open
    BY <1>3 DEF StartStage, MayStart, Ready, NoWork, rows, Typed, WorkTyped, PlanRecord
  <2>2. fn.at = "none"
    BY <2>1 DEF Engaged
  <2> QED
    BY <2>1, <2>2 DEF AskedAlone, Idle
<1>4. ASSUME Collect
      PROVE  AskedAlone'
  <2>1. fn.stage \in Iter /\ item \in [Iter -> [Slots -> ItemState]] /\ exec \in [Iter -> ExecState]
    BY DEF Typed, TypeOK, WorkTyped, WorkRecord

  <2>2. /\ exec'["items"] = "awaiting_approval" => exec["items"] = "awaiting_approval"
        /\ fn'.at = "none" /\ orch'.open = (orch.open \/ fn.result = "approval_required")
    BY <1>4, <2>1, NoRecords DEF Collect, Typed, WorkTyped, PlanRecord
  <2> QED
    BY <1>4, <2>2 DEF Collect, AskedAlone, Idle
<1>5. ASSUME Finish
      PROVE  AskedAlone'
  <2>1. exec' = exec /\ fn' = fn /\ fn.at = "none"
    BY <1>5 DEF Finish, Resting, Engaged
  <2>2. orch'.at \in {"none", "load"}
    <3>1. \A s : End(s) => orch'.at = "none"
      BY NoRecords DEF End
    <3>2. Wake => orch'.at = "load"
      BY NoRecords, PlanAt DEF Wake
    <3> QED
      BY <1>5, <3>1, <3>2 DEF Finish, EndPause, EndBudget, EndFailed, EndWaiting, EndDone
  <2> QED
    BY <2>1, <2>2 DEF AskedAlone, Idle
<1>6. ASSUME Resolve
      PROVE  AskedAlone'
  <2>1. fn.stage \in Iter /\ item \in [Iter -> [Slots -> ItemState]] /\ exec \in [Iter -> ExecState]
    BY DEF Typed, TypeOK, WorkTyped, WorkRecord

  <2>2. fn.stage = "items" => exec["items"] # "awaiting_approval"
    BY <1>6 DEF Resolve, AskedAlone, Idle

  <2>3. exec'["items"] = "awaiting_approval" => exec["items"] = "awaiting_approval"
    <3>1. exec' = exec \/ exec' = [exec EXCEPT ![fn.stage] = "failed"]
      BY <1>6 DEF Resolve, EndBatch, Stage
    <3> QED
      BY <2>1, <3>1 DEF Iter
  <2>4. fn'.at # "none" /\ fn'.stage = fn.stage /\ orch' = orch
    BY <1>6, <2>1 DEF Resolve, Return, NoWork, Stage, Typed, WorkTyped, WorkRecord
  <2> QED
    BY <1>6, <2>2, <2>3, <2>4 DEF Resolve, AskedAlone, Idle
<1>7. ASSUME Ensure
      PROVE  AskedAlone'
  <2>1. fn.stage \in Iter /\ item \in [Iter -> [Slots -> ItemState]] /\ exec \in [Iter -> ExecState]
    BY DEF Typed, TypeOK, WorkTyped, WorkRecord

  <2>2. fn.stage = "items" => exec["items"] # "awaiting_approval"
    BY <1>7 DEF Ensure, AskedAlone, Idle

  <2>3. exec'["items"] = "awaiting_approval" => exec["items"] = "awaiting_approval"
    BY <1>7 DEF Ensure, rows
  <2>4. fn'.at # "none" /\ fn'.stage = fn.stage /\ orch' = orch
    BY <1>7, <2>1 DEF Ensure, Return, NoWork, Stage, Typed, WorkTyped, WorkRecord
  <2> QED
    BY <1>7, <2>2, <2>3, <2>4 DEF Ensure, AskedAlone, Idle
<1>8. ASSUME StartBatch
      PROVE  AskedAlone'
  <2>1. fn.stage \in Iter /\ item \in [Iter -> [Slots -> ItemState]] /\ exec \in [Iter -> ExecState]
    BY DEF Typed, TypeOK, WorkTyped, WorkRecord

  <2>2. fn.stage = "items" => exec["items"] # "awaiting_approval"
    BY <1>8 DEF StartBatch, AskedAlone, Idle

  <2>3. exec'["items"] = "awaiting_approval" => exec["items"] = "awaiting_approval"
    BY <1>8 DEF StartBatch, rows
  <2>4. fn'.at # "none" /\ fn'.stage = fn.stage /\ orch' = orch
    BY <1>8, <2>1 DEF StartBatch, Return, NoWork, Stage, Typed, WorkTyped, WorkRecord
  <2> QED
    BY <1>8, <2>2, <2>3, <2>4 DEF StartBatch, AskedAlone, Idle
<1>9. ASSUME NEW i \in Slots, BeginItem(i)
      PROVE  AskedAlone'
  <2>1. fn.stage \in Iter /\ item \in [Iter -> [Slots -> ItemState]] /\ exec \in [Iter -> ExecState]
    BY DEF Typed, TypeOK, WorkTyped, WorkRecord

  <2>2. fn.stage = "items" => exec["items"] # "awaiting_approval"
    BY <1>9 DEF BeginItem, AskedAlone, Idle

  <2>3. exec'["items"] = "awaiting_approval" => exec["items"] = "awaiting_approval"
    <3>1. \/ exec' = exec
          \/ exec' = [exec EXCEPT ![fn.stage] =
                        IF exec[fn.stage] \in {"passed", "awaiting_approval"} THEN exec[fn.stage] ELSE "running"]
      BY <1>9 DEF BeginItem, Stage
    <3> QED
      BY <2>1, <3>1 DEF Iter
  <2>4. fn'.at # "none" /\ fn'.stage = fn.stage /\ orch' = orch
    BY <1>9, <2>1 DEF BeginItem, Return, NoWork, Stage, Typed, WorkTyped, WorkRecord
  <2> QED
    BY <1>9, <2>2, <2>3, <2>4 DEF BeginItem, AskedAlone, Idle
<1>10. ASSUME NEW i \in Slots, NEW r \in Results, EndItem(i, r)
      PROVE  AskedAlone'
  <2>1. fn.stage \in Iter /\ item \in [Iter -> [Slots -> ItemState]] /\ exec \in [Iter -> ExecState]
    BY DEF Typed, TypeOK, WorkTyped, WorkRecord

  <2>2. fn.stage = "items" => exec["items"] # "awaiting_approval"
    BY <1>10 DEF EndItem, AskedAlone, Idle

  <2>3. exec'["items"] = "awaiting_approval" => exec["items"] = "awaiting_approval"
    BY <1>10 DEF EndItem, rows
  <2>4. fn'.at # "none" /\ fn'.stage = fn.stage /\ orch' = orch
    BY <1>10, <2>1 DEF EndItem, Return, NoWork, Stage, Typed, WorkTyped, WorkRecord
  <2> QED
    BY <1>10, <2>2, <2>3, <2>4 DEF EndItem, AskedAlone, Idle
<1>11. ASSUME EndBatch
      PROVE  AskedAlone'
  <2>1. fn.stage \in Iter /\ item \in [Iter -> [Slots -> ItemState]] /\ exec \in [Iter -> ExecState]
    BY DEF Typed, TypeOK, WorkTyped, WorkRecord

  <2>2. fn.stage = "items" => exec["items"] # "awaiting_approval"
    BY <1>11 DEF EndBatch, AskedAlone, Idle

  <2>3. exec'["items"] = "awaiting_approval" => exec["items"] = "awaiting_approval"
    <3>1. exec' = exec \/ exec' = [exec EXCEPT ![fn.stage] = "failed"]
      BY <1>11 DEF Resolve, EndBatch, Stage
    <3> QED
      BY <2>1, <3>1 DEF Iter
  <2>4. fn'.at # "none" /\ fn'.stage = fn.stage /\ orch' = orch
    BY <1>11, <2>1 DEF EndBatch, Advance, Return, NoWork, Stage, Typed, WorkTyped, WorkRecord
  <2> QED
    BY <1>11, <2>2, <2>3, <2>4 DEF EndBatch, AskedAlone, Idle
<1>12. ASSUME FinishStage
      PROVE  AskedAlone'
  <2>1. fn.stage \in Iter /\ item \in [Iter -> [Slots -> ItemState]] /\ exec \in [Iter -> ExecState]
    BY DEF Typed, TypeOK, WorkTyped, WorkRecord

  <2>2. fn.stage = "items" => exec["items"] # "awaiting_approval"
    BY <1>12 DEF FinishStage, AskedAlone, Idle

  <2>3. /\ fn'.at = "done" /\ fn'.stage = fn.stage /\ orch' = orch
        /\ exec'["items"] = "awaiting_approval" => exec["items"] = "awaiting_approval" \/ (fn.stage = "items" /\ fn'.result = "approval_required")
    BY <1>12, <2>1 DEF FinishStage, Mode, Iter, Return, NoWork, Stage, Typed, WorkTyped, WorkRecord
  <2> QED
    BY <1>12, <2>2, <2>3 DEF FinishStage, AskedAlone, Idle
<1>13. ASSUME Pause
      PROVE  AskedAlone'
  BY <1>13 DEF Pause, rows, AskedAlone, Idle
<1>14. ASSUME Stop
      PROVE  AskedAlone'
  BY <1>14, NoRecords DEF Stop, AskedAlone, Idle
<1>15. ASSUME ApproveWhole
      PROVE  AskedAlone'
  <2>1. fn.stage \in Iter /\ item \in [Iter -> [Slots -> ItemState]] /\ exec \in [Iter -> ExecState]
    BY DEF Typed, TypeOK, WorkTyped, WorkRecord

  <2>2. exec'["items"] = "passed"
    BY <1>15, <2>1 DEF ApproveWhole, Iter
  <2> QED
    BY <2>2 DEF AskedAlone
<1>16. ASSUME NEW i \in Slots, ApproveItem(i)
      PROVE  AskedAlone'
  <2>1. exec' = exec /\ fn' = fn /\ (orch' = orch \/ orch'.at = "load")
    BY <1>16, WakeTyped DEF ApproveItem, Answered, Typed
  <2> QED
    BY <2>1 DEF AskedAlone, Idle
<1>17. CASE Planned
  BY <1>17, PlannedQuiet DEF Quiet, AskedAlone, Idle
<1>18. CASE UNCHANGED vars
  BY <1>18 DEF vars, runRow, first, rows, AskedAlone, Idle
<1> QED
  BY <1>1, <1>2, <1>3, <1>4, <1>5, <1>6, <1>7, <1>8, <1>9, <1>10, <1>11, <1>12, <1>13, <1>14, <1>15, <1>16, <1>17, <1>18, NextCases
  DEF Orchestrate, Execute

-----------------------------------------------------------------------------
(* A failure the orchestrator knows of.                                     *)

LEMMA WorstFailed ==
  ASSUME NEW got \in SUBSET Reports, got \ {"passed"} # {}, Worst(got) = "failed"
  PROVE  "failed" \in got /\ "crash" \notin got
<1> DEFINE First(k) == /\ Priority[k] \in got
                       /\ \A j \in DOMAIN Priority : Priority[j] \in got => k <= j
<1>1. /\ DOMAIN Priority = 1..5
      /\ Priority[1] = "crash" /\ Priority[2] = "failed" /\ Priority[3] = "budget_blocked"
      /\ Priority[4] = "run_not_running" /\ Priority[5] = "approval_required"
  BY DEF Priority
<1>2. SUFFICES ASSUME "crash" \in got PROVE FALSE
  BY WorstTyped
<1>3. First(1)
  BY <1>1, <1>2
<1>4. \A k \in DOMAIN Priority : First(k) => k = 1
  BY <1>1, <1>2
<1>5. (CHOOSE k \in DOMAIN Priority : First(k)) = 1
  BY <1>1, <1>3, <1>4
<1> QED
  BY <1>1, <1>5 DEF Worst

(* A failure the orchestrator knows of is on a row it does not start again.  *)
LEMMA FailureNext == Typed /\ Engaged /\ WaitsMatch /\ FailureKnown /\ [Next]_vars => FailureKnown'
<1> SUFFICES ASSUME Typed /\ Engaged /\ WaitsMatch /\ FailureKnown, [Next]_vars PROVE FailureKnown'
  OBVIOUS
<1>1. ASSUME Load
      PROVE  FailureKnown'
  <2>1. orch'.why = {} /\ fn' = fn /\ fn.at = "none"
    BY <1>1 DEF Load, Loaded, Engaged
  <2> QED
    BY <2>1 DEF FailureKnown
<1>2. ASSUME MakeList
      PROVE  FailureKnown'
  <2>1. /\ orch'.why = orch.why /\ orch.at = "plan" /\ fn' = fn /\ exec' = exec
        /\ \A s \in Iter : orch'.row[s] = orch.row[s]
    BY <1>2 DEF MakeList, MayStart, rows, Typed, WorkTyped, PlanRecord, Stages, Iter
  <2> QED
    BY <2>1 DEF FailureKnown
<1>3. ASSUME NEW s \in Iter, StartStage(s)
      PROVE  FailureKnown'
  <2>1. /\ orch'.why = orch.why /\ orch.at = "plan" /\ fn'.at = "resolve" /\ exec' = exec
        /\ orch.row[s] # "failed" /\ \A t \in Iter : t # s => orch'.row[t] = orch.row[t]
    BY <1>3 DEF StartStage, MayStart, Ready, NoWork, rows, Typed, WorkTyped, PlanRecord, Stages
  <2> QED
    BY <2>1 DEF FailureKnown
<1>4. ASSUME Collect
      PROVE  FailureKnown'
  <2>1. fn.stage \in Iter /\ exec \in [Iter -> ExecState] /\ orch \in PlanRecord
    BY DEF Typed, TypeOK, WorkTyped, WorkRecord

  <2>2. /\ fn.at = "done" /\ orch.at = "collect" /\ fn'.at = "none" /\ Live
        /\ orch.row[fn.stage] = "running" /\ fn.result \in Reports
    BY <1>4, NoRecords DEF Collect, Engaged, Typed, WorkTyped
  <2>3. /\ fn.result \in {"failed", "crash"} => orch'.row[fn.stage] = "failed"
        /\ \A t \in Iter : t # fn.stage => orch'.row[t] = orch.row[t]
        /\ orch'.why = orch.why \cup {IF fn.result = "crash" THEN "failed" ELSE fn.result}
    BY <1>4, <2>1 DEF Collect, PlanRecord, Stages
  <2>4. /\ fn.result = "crash" => exec' = [exec EXCEPT ![fn.stage] = "failed"]
        /\ fn.result # "crash" => exec' = exec
    BY <1>4, <2>2 DEF Collect
  <2>5. CASE fn.result \in {"failed", "crash"}
    <3>1. exec'[fn.stage] = "failed"
      BY <2>1, <2>2, <2>4, <2>5 DEF FailureKnown
    <3> QED
      BY <2>1, <2>2, <2>3, <2>5, <3>1 DEF FailureKnown
  <2>6. CASE fn.result \notin {"failed", "crash"}
    <3>1. "failed" \in orch'.why => "failed" \in orch.why
      BY <2>3, <2>6
    <3>2. exec' = exec
      BY <2>4, <2>6
    <3> QED
      BY <2>2, <2>3, <3>1, <3>2 DEF FailureKnown
  <2> QED
    BY <2>5, <2>6
<1>5. ASSUME Finish
      PROVE  FailureKnown'
  <2>1. orch'.at \in {"none", "load"}
    <3>1. \A s : End(s) => orch'.at = "none"
      BY NoRecords DEF End
    <3>2. Wake => orch'.at = "load"
      BY NoRecords, PlanAt DEF Wake
    <3> QED
      BY <1>5, <3>1, <3>2 DEF Finish, EndPause, EndBudget, EndFailed, EndWaiting, EndDone
  <2>2. fn' = fn /\ fn.at = "none"
    BY <1>5 DEF Finish, Resting, Engaged
  <2> QED
    BY <2>1, <2>2 DEF FailureKnown
<1>6. ASSUME Resolve
      PROVE  FailureKnown'
  <2>1. fn.stage \in Iter /\ exec \in [Iter -> ExecState] /\ orch \in PlanRecord
    BY DEF Typed, TypeOK, WorkTyped, WorkRecord

  <2>2. orch' = orch /\ orch.at = "collect" /\ orch.row[fn.stage] = "running"
    BY <1>6 DEF Resolve, Engaged
  <2>3. \A t \in Iter : t # fn.stage => exec'[t] = exec[t]
    <3>1. \E x : exec' = [exec EXCEPT ![fn.stage] = x] \/ exec' = exec
      BY <1>6 DEF Resolve, Stage, rows
    <3> QED
      BY <2>1, <3>1
  <2>4. fn'.at = "done" /\ fn'.result = "failed" => exec'[fn'.stage] = "failed"
    <3>1. CASE Return("run_not_running")
      BY <3>1 DEF Return, NoWork
    <3>2. CASE exec' = [exec EXCEPT ![fn.stage] = "failed"] /\ Return("failed")
      BY <2>1, <3>2 DEF Return, NoWork, Stage
    <3>3. CASE fn' = [fn EXCEPT !.at = "ensure"]
      BY <3>3 DEF Typed, WorkTyped, WorkRecord
    <3> QED
      BY <1>6, <3>1, <3>2, <3>3 DEF Resolve, Stage
  <2> QED
    BY <2>2, <2>3, <2>4 DEF FailureKnown
<1>7. ASSUME Ensure
      PROVE  FailureKnown'
  <2>1. fn.stage \in Iter /\ exec \in [Iter -> ExecState] /\ orch \in PlanRecord
    BY DEF Typed, TypeOK, WorkTyped, WorkRecord

  <2>2. orch' = orch /\ orch.at = "collect" /\ orch.row[fn.stage] = "running"
    BY <1>7 DEF Ensure, Engaged
  <2>3. \A t \in Iter : t # fn.stage => exec'[t] = exec[t]
    <3>1. \E x : exec' = [exec EXCEPT ![fn.stage] = x] \/ exec' = exec
      BY <1>7 DEF Ensure, Stage, rows
    <3> QED
      BY <2>1, <3>1
  <2>4. fn'.at = "done" /\ fn'.result = "failed" => exec'[fn'.stage] = "failed"
    BY <1>7, ReturnTyped DEF Ensure, Return, NoWork, Typed, WorkTyped, WorkRecord
  <2> QED
    BY <2>2, <2>3, <2>4 DEF FailureKnown
<1>8. ASSUME StartBatch
      PROVE  FailureKnown'
  <2>1. fn.stage \in Iter /\ exec \in [Iter -> ExecState] /\ orch \in PlanRecord
    BY DEF Typed, TypeOK, WorkTyped, WorkRecord

  <2>2. orch' = orch /\ orch.at = "collect" /\ orch.row[fn.stage] = "running"
    BY <1>8 DEF StartBatch, Engaged
  <2>3. \A t \in Iter : t # fn.stage => exec'[t] = exec[t]
    <3>1. \E x : exec' = [exec EXCEPT ![fn.stage] = x] \/ exec' = exec
      BY <1>8 DEF StartBatch, Stage, rows
    <3> QED
      BY <2>1, <3>1
  <2>4. fn'.at = "done" /\ fn'.result = "failed" => exec'[fn'.stage] = "failed"
    BY <1>8, ReturnTyped DEF StartBatch, Return, NoWork, Typed, WorkTyped, WorkRecord
  <2> QED
    BY <2>2, <2>3, <2>4 DEF FailureKnown
<1>9. ASSUME NEW i \in Slots, BeginItem(i)
      PROVE  FailureKnown'
  <2>1. fn.stage \in Iter /\ exec \in [Iter -> ExecState] /\ orch \in PlanRecord
    BY DEF Typed, TypeOK, WorkTyped, WorkRecord

  <2>2. orch' = orch /\ orch.at = "collect" /\ orch.row[fn.stage] = "running"
    BY <1>9 DEF BeginItem, Engaged
  <2>3. \A t \in Iter : t # fn.stage => exec'[t] = exec[t]
    <3>1. \E x : exec' = [exec EXCEPT ![fn.stage] = x] \/ exec' = exec
      BY <1>9 DEF BeginItem, Stage, rows
    <3> QED
      BY <2>1, <3>1
  <2>4. fn'.at = "done" /\ fn'.result = "failed" => exec'[fn'.stage] = "failed"
    BY <1>9, ReturnTyped DEF BeginItem, Return, NoWork, Typed, WorkTyped, WorkRecord
  <2> QED
    BY <2>2, <2>3, <2>4 DEF FailureKnown
<1>10. ASSUME NEW i \in Slots, NEW r \in Results, EndItem(i, r)
      PROVE  FailureKnown'
  <2>1. fn.stage \in Iter /\ exec \in [Iter -> ExecState] /\ orch \in PlanRecord
    BY DEF Typed, TypeOK, WorkTyped, WorkRecord

  <2>2. orch' = orch /\ orch.at = "collect" /\ orch.row[fn.stage] = "running"
    BY <1>10 DEF EndItem, Engaged
  <2>3. \A t \in Iter : t # fn.stage => exec'[t] = exec[t]
    <3>1. \E x : exec' = [exec EXCEPT ![fn.stage] = x] \/ exec' = exec
      BY <1>10 DEF EndItem, Stage, rows
    <3> QED
      BY <2>1, <3>1
  <2>4. fn'.at = "done" /\ fn'.result = "failed" => exec'[fn'.stage] = "failed"
    BY <1>10, ReturnTyped DEF EndItem, Return, NoWork, Typed, WorkTyped, WorkRecord
  <2> QED
    BY <2>2, <2>3, <2>4 DEF FailureKnown
<1>11. ASSUME EndBatch
      PROVE  FailureKnown'
  <2>1. fn.stage \in Iter /\ exec \in [Iter -> ExecState] /\ orch \in PlanRecord
    BY DEF Typed, TypeOK, WorkTyped, WorkRecord

  <2>2. orch' = orch /\ orch.at = "collect" /\ orch.row[fn.stage] = "running"
    BY <1>11 DEF EndBatch, Engaged
  <2>3. \A t \in Iter : t # fn.stage => exec'[t] = exec[t]
    <3>1. \E x : exec' = [exec EXCEPT ![fn.stage] = x] \/ exec' = exec
      BY <1>11 DEF EndBatch, Stage, rows
    <3> QED
      BY <2>1, <3>1
  <2>4. fn'.at = "done" /\ fn'.result = "failed" => exec'[fn'.stage] = "failed"
    <3>1. Live
      BY <2>2 DEF Engaged
    <3>2. fn.got \in SUBSET Reports
      BY DEF Typed, WorkTyped, WorkRecord
    <3>3. CASE fn.got \ {"passed"} # {} /\ Return(Worst(fn.got))
      <4>1. Worst(fn.got) = "failed" => "failed" \in fn.got /\ "crash" \notin fn.got
        BY <3>2, <3>3, WorstFailed
      <4>2. "failed" \in fn.got /\ "crash" \notin fn.got => exec' = [exec EXCEPT ![fn.stage] = "failed"]
        BY <1>11, <3>1 DEF EndBatch, Stage
      <4>3. fn'.result = Worst(fn.got) /\ fn'.stage = fn.stage
        BY <3>3 DEF Return, NoWork, Stage
      <4> QED
        BY <2>1, <4>1, <4>2, <4>3
    <3>4. CASE Return("approval_required")
      BY <3>4 DEF Return, NoWork
    <3>5. CASE fn'.at \in {"batch", "finish"}
      BY <3>5
    <3>6. \/ Return("approval_required") \/ fn'.at \in {"batch", "finish"}
          \/ (fn.got \ {"passed"} # {} /\ Return(Worst(fn.got)))
      BY <1>11 DEF EndBatch, Advance, Typed, WorkTyped, WorkRecord
    <3> QED
      BY <3>3, <3>4, <3>5, <3>6
  <2> QED
    BY <2>2, <2>3, <2>4 DEF FailureKnown
<1>12. ASSUME FinishStage
      PROVE  FailureKnown'
  <2>1. fn.stage \in Iter /\ exec \in [Iter -> ExecState] /\ orch \in PlanRecord
    BY DEF Typed, TypeOK, WorkTyped, WorkRecord

  <2>2. orch' = orch /\ orch.at = "collect" /\ orch.row[fn.stage] = "running"
    BY <1>12 DEF FinishStage, Engaged
  <2>3. \A t \in Iter : t # fn.stage => exec'[t] = exec[t]
    <3>1. \E x : exec' = [exec EXCEPT ![fn.stage] = x] \/ exec' = exec
      BY <1>12 DEF FinishStage, Stage, rows
    <3> QED
      BY <2>1, <3>1
  <2>4. fn'.at = "done" /\ fn'.result = "failed" => exec'[fn'.stage] = "failed"
    BY <1>12, ReturnTyped DEF FinishStage, Return, NoWork, Typed, WorkTyped, WorkRecord
  <2> QED
    BY <2>2, <2>3, <2>4 DEF FailureKnown
<1>13. ASSUME Pause
      PROVE  FailureKnown'
  BY <1>13 DEF Pause, FailureKnown, rows
<1>14. ASSUME Stop
      PROVE  FailureKnown'
  BY <1>14, NoRecords DEF Stop, FailureKnown
<1>15. ASSUME ApproveWhole
      PROVE  FailureKnown'
  <2>1. fn.stage \in Iter /\ exec \in [Iter -> ExecState] /\ orch \in PlanRecord
    BY DEF Typed, TypeOK, WorkTyped, WorkRecord

  <2>2. exec["items"] = "awaiting_approval" /\ exec' = [exec EXCEPT !["items"] = "passed"] /\ fn' = fn
    BY <1>15 DEF ApproveWhole, ApproveAccepted, ItemReview
  <2>3. orch' = orch \/ orch'.at = "load"
    BY <1>15, WakeTyped DEF ApproveWhole, Answered, Typed
  <2>4. \A s \in Iter : exec[s] = "failed" => exec'[s] = "failed"
    BY <2>1, <2>2 DEF Iter
  <2> QED
    BY <2>1, <2>2, <2>3, <2>4 DEF FailureKnown
<1>16. ASSUME NEW i \in Slots, ApproveItem(i)
      PROVE  FailureKnown'
  <2>1. exec' = exec /\ fn' = fn /\ (orch' = orch \/ orch'.at = "load")
    BY <1>16, WakeTyped DEF ApproveItem, Answered, Typed
  <2> QED
    BY <2>1 DEF FailureKnown
<1>17. CASE Planned
  BY <1>17, PlannedQuiet DEF Quiet, FailureKnown
<1>18. CASE UNCHANGED vars
  BY <1>18 DEF vars, runRow, first, rows, FailureKnown
<1> QED
  BY <1>1, <1>2, <1>3, <1>4, <1>5, <1>6, <1>7, <1>8, <1>9, <1>10, <1>11, <1>12, <1>13, <1>14, <1>15, <1>16, <1>17, <1>18, NextCases
  DEF Orchestrate, Execute

-----------------------------------------------------------------------------
(* What is passed is complete.                                              *)

(* The batches behind the loop have all their items.                         *)
LEMMA BatchesNext == Typed /\ Engaged /\ BatchSound /\ BatchesDone /\ [Next]_vars => BatchesDone'
<1> SUFFICES ASSUME Typed /\ Engaged /\ BatchSound /\ BatchesDone, [Next]_vars PROVE BatchesDone'
  OBVIOUS
<1> USE ItemsAssumption
<1>1. ASSUME Load
      PROVE  BatchesDone'
  BY <1>1 DEF Load, Engaged, BatchesDone
<1>2. ASSUME MakeList
      PROVE  BatchesDone'
  <2>1. fn' = fn /\ fn.at = "none"
    BY <1>2 DEF MakeList, MayStart, Engaged
  <2> QED
    BY <2>1 DEF BatchesDone
<1>3. ASSUME NEW s \in Iter, StartStage(s)
      PROVE  BatchesDone'
  BY <1>3 DEF StartStage, NoWork, BatchesDone
<1>4. ASSUME Collect
      PROVE  BatchesDone'
  BY <1>4, NoRecords DEF Collect, BatchesDone
<1>5. ASSUME Finish
      PROVE  BatchesDone'
  BY <1>5 DEF Finish, Resting, Engaged, BatchesDone
<1>6. ASSUME Resolve
      PROVE  BatchesDone'
  <2>0. \A r : Return(r) => fn'.at = "done" /\ fn'.result = r /\ fn'.stage = fn.stage
    BY DEF Return, NoWork, Stage

  <2>1. \/ fn'.at = "done" /\ fn'.result # "passed"
        \/ fn'.at = "ensure" /\ fn'.start = fn.start
    BY <1>6, <2>0 DEF Resolve, Typed, WorkTyped, WorkRecord
  <2> QED
    BY <1>6, <2>1 DEF Resolve, BatchesDone
<1>7. ASSUME Ensure
      PROVE  BatchesDone'
  <2>0. \A r : Return(r) => fn'.at = "done" /\ fn'.result = r /\ fn'.stage = fn.stage
    BY DEF Return, NoWork, Stage

  <2>1. \/ fn'.at = "done" /\ fn'.result # "passed"
        \/ fn'.at = "batch" /\ fn'.start = 0
    BY <1>7, <2>0 DEF Ensure, BatchesDone, Typed, WorkTyped, WorkRecord
  <2> QED
    BY <1>7, <2>1 DEF BatchesDone, LiveSlots, Slots
<1>8. ASSUME StartBatch
      PROVE  BatchesDone'
  <2>0. \A r : Return(r) => fn'.at = "done" /\ fn'.result = r /\ fn'.stage = fn.stage
    BY DEF Return, NoWork, Stage

  <2>1. item' = item /\ count' = count
    BY <1>8 DEF StartBatch, rows
  <2>2. CASE Return("run_not_running")
    BY <2>0, <2>2 DEF BatchesDone
  <2>3. CASE ~Return("run_not_running")
    <3>1. /\ fn'.at = "run" /\ fn'.stage = fn.stage /\ fn'.start = fn.start
          /\ fn'.todo = {i \in Batch : Due(item[fn.stage][i])}
          /\ fn'.still = (\E i \in Batch : item[fn.stage][i] = "awaiting_approval")
      BY <1>8, <2>3 DEF StartBatch, Stage, Typed, WorkTyped, WorkRecord
    <3>2. Batch' = Batch
      BY <2>1, <3>1 DEF Batch, LiveSlots, NextBatch, Stage
    <3> QED
      BY <1>8, <2>1, <3>1, <3>2 DEF StartBatch, BatchesDone, LiveSlots, Due
  <2> QED
    BY <2>2, <2>3
<1>9. ASSUME NEW i \in Slots, BeginItem(i)
      PROVE  BatchesDone'
  <2>1. /\ fn.stage \in Iter /\ item \in [Iter -> [Slots -> ItemState]] /\ fn.at = "run"
        /\ fn.todo \subseteq Slots /\ fn.busy \subseteq Slots
    BY <1>9 DEF BeginItem, Typed, TypeOK, WorkTyped, WorkRecord
  <2>2. /\ fn'.at = "run" /\ fn'.stage = fn.stage /\ fn'.start = fn.start /\ fn'.still = fn.still
        /\ count' = count
    BY <1>9 DEF BeginItem, Typed, WorkTyped, WorkRecord
  <2>3. Batch' = Batch /\ LiveSlots(fn.stage)' = LiveSlots(fn.stage)
    BY <2>2 DEF Batch, LiveSlots, NextBatch, Stage

  <2>4. i \in fn.todo /\ item[fn.stage][i] # "passed"
    BY <1>9 DEF BeginItem, BatchSound
  <2>5. \/ /\ item' = [item EXCEPT ![fn.stage][i] = "running"] /\ fn'.got = fn.got
           /\ fn'.todo = fn.todo \ {i} /\ fn'.busy = fn.busy \cup {i}
        \/ /\ item' = item /\ "run_not_running" \in fn'.got
    <3>1. fn \in WorkRecord
      BY DEF Typed, WorkTyped
    <3>2. CASE state = "RUNNING"
      BY <1>9, <3>1, <3>2 DEF BeginItem, Stage, WorkRecord
    <3>3. CASE state # "RUNNING"
      <4>1. item' = item /\ fn' = [fn EXCEPT !.todo = @ \ {i}, !.got = @ \cup {"run_not_running"}]
        BY <1>9, <3>3 DEF BeginItem
      <4>2. "run_not_running" \in fn'.got
        BY <3>1, <4>1 DEF WorkRecord
      <4> QED
        BY <4>1, <4>2
    <3> QED
      BY <3>2, <3>3
  <2>6. \A j \in Slots : item[fn.stage][j] = "passed" => item'[fn.stage][j] = "passed"
    BY <2>1, <2>4, <2>5
  <2> QED
    BY <2>1, <2>2, <2>3, <2>4, <2>5, <2>6 DEF BatchesDone, LiveSlots, Batch
<1>10. ASSUME NEW i \in Slots, NEW r \in Results, EndItem(i, r)
      PROVE  BatchesDone'
  <2>1. /\ fn.stage \in Iter /\ item \in [Iter -> [Slots -> ItemState]] /\ fn.at = "run"
        /\ fn.todo \subseteq Slots /\ fn.busy \subseteq Slots
    BY <1>10 DEF EndItem, Typed, TypeOK, WorkTyped, WorkRecord
  <2>2. /\ fn'.at = "run" /\ fn'.stage = fn.stage /\ fn'.start = fn.start /\ fn'.still = fn.still
        /\ count' = count
    BY <1>10 DEF EndItem, Typed, WorkTyped, WorkRecord
  <2>3. Batch' = Batch /\ LiveSlots(fn.stage)' = LiveSlots(fn.stage)
    BY <2>2 DEF Batch, LiveSlots, NextBatch, Stage

  <2> DEFINE review == r = "passed" /\ Mode(fn.stage) = "item"
             new == IF review THEN "awaiting_approval" ELSE ItemAfter(r, item[fn.stage][i])
             told == IF review THEN "approval_required" ELSE r
  <2>4. i \in fn.busy /\ item[fn.stage][i] = "running"
    BY <1>10 DEF EndItem, BatchSound
  <2>5. /\ item' = [item EXCEPT ![fn.stage][i] = new] /\ fn'.got = fn.got \cup {told}
        /\ fn'.todo = fn.todo /\ fn'.busy = fn.busy \ {i}
    BY <1>10 DEF EndItem, Stage, Typed, WorkTyped, WorkRecord
  <2>6. told = "passed" => new = "passed"
    BY DEF ItemAfter
  <2> HIDE DEF review, new, told
  <2>7. \A j \in Slots : item[fn.stage][j] = "passed" => item'[fn.stage][j] = "passed"
    BY <2>1, <2>4, <2>5
  <2>8. told = "passed" => item'[fn.stage][i] = "passed"
    BY <2>1, <2>4, <2>5, <2>6
  <2> QED
    BY <2>1, <2>2, <2>3, <2>4, <2>5, <2>7, <2>8 DEF BatchesDone, LiveSlots, Batch
<1>11. ASSUME EndBatch
      PROVE  BatchesDone'
  <2>0. \A r : Return(r) => fn'.at = "done" /\ fn'.result = r /\ fn'.stage = fn.stage
    BY DEF Return, NoWork, Stage

  <2>1. /\ fn.got \in SUBSET Reports /\ fn.todo = {} /\ fn.busy = {} /\ fn.at = "run"
        /\ item' = item /\ count' = count
    BY <1>11 DEF EndBatch, Typed, WorkTyped, WorkRecord
  <2>2. CASE fn.got \ {"passed"} # {} /\ Return(Worst(fn.got))
    BY <2>0, <2>1, <2>2, WorstTyped DEF BatchesDone
  <2>3. CASE Return("approval_required")
    BY <2>0, <2>3 DEF BatchesDone
  <2>4. CASE fn.got \subseteq {"passed"} /\ ~fn.still
    <3>1. \A i \in Batch : item[fn.stage][i] = "passed"
      BY <2>1, <2>4 DEF BatchesDone
    <3>2. /\ fn.start \in Nat /\ NextBatch \in Nat /\ count[fn.stage] \in Nat /\ Slots \subseteq Nat
      BY ItemsAssumption DEF Typed, TypeOK, WorkTyped, WorkRecord, NextBatch, Stage, Slots
    <3>3. \A i \in LiveSlots(fn.stage) : i < NextBatch => item[fn.stage][i] = "passed"
      <4>1. SUFFICES ASSUME NEW i \in LiveSlots(fn.stage), i < NextBatch
                     PROVE  item[fn.stage][i] = "passed"
        OBVIOUS
      <4>2. i \in Nat /\ (i < fn.start \/ fn.start <= i)
        BY <3>2 DEF LiveSlots
      <4>3. CASE i < fn.start
        BY <2>1, <4>3 DEF BatchesDone
      <4>4. CASE fn.start <= i
        BY <3>1, <4>1, <4>4 DEF Batch, Stage
      <4> QED
        BY <4>2, <4>3, <4>4
    <3>4. CASE NextBatch < count[Stage] /\ fn' = [fn EXCEPT !.at = "batch", !.start = NextBatch]
      <4>1. fn'.at = "batch" /\ fn'.start = NextBatch /\ fn'.stage = fn.stage
        BY <3>4 DEF Typed, WorkTyped, WorkRecord
      <4> QED
        BY <2>1, <3>3, <4>1 DEF BatchesDone, LiveSlots
    <3>5. CASE ~(NextBatch < count[Stage]) /\ fn' = [fn EXCEPT !.at = "finish", !.start = 0]
      <4>1. fn'.at = "finish" /\ fn'.stage = fn.stage
        BY <3>5 DEF Typed, WorkTyped, WorkRecord
      <4>2. \A i \in LiveSlots(fn.stage) : i < NextBatch
        BY <3>2, <3>5 DEF LiveSlots, Stage
      <4> QED
        BY <2>1, <3>3, <4>1, <4>2 DEF BatchesDone, LiveSlots, Complete
    <3>6. \/ NextBatch < count[Stage] /\ fn' = [fn EXCEPT !.at = "batch", !.start = NextBatch]
          \/ ~(NextBatch < count[Stage]) /\ fn' = [fn EXCEPT !.at = "finish", !.start = 0]
      BY <1>11, <2>4 DEF EndBatch, Advance
    <3> QED
      BY <3>4, <3>5, <3>6
  <2> QED
    BY <1>11, <2>2, <2>3, <2>4 DEF EndBatch, Advance
<1>12. ASSUME FinishStage
      PROVE  BatchesDone'
  <2>0. \A r : Return(r) => fn'.at = "done" /\ fn'.result = r /\ fn'.stage = fn.stage
    BY DEF Return, NoWork, Stage

  <2>1. /\ Live /\ Complete(fn.stage) /\ item' = item /\ count' = count
        /\ fn.stage \in Iter /\ exec \in [Iter -> ExecState]
    BY <1>12 DEF FinishStage, Engaged, BatchesDone, Typed, TypeOK, WorkTyped, WorkRecord
  <2>2. fn'.at = "done" /\ fn'.stage = fn.stage /\ (fn'.result = "passed" => exec' = [exec EXCEPT ![fn.stage] = "passed"])
    BY <1>12, <2>0, <2>1 DEF FinishStage, Stage
  <2> QED
    BY <2>1, <2>2 DEF BatchesDone, Complete, LiveSlots
<1>13. ASSUME Pause
      PROVE  BatchesDone'
  BY <1>13 DEF Pause, rows, BatchesDone, LiveSlots, Batch, NextBatch, Stage, Complete
<1>14. ASSUME Stop
      PROVE  BatchesDone'
  BY <1>14, NoRecords DEF Stop, BatchesDone
<1>15. ASSUME ApproveWhole
      PROVE  BatchesDone'
  <2>1. fn' = fn /\ item' = item /\ count' = count
    BY <1>15 DEF ApproveWhole
  <2>2. \A s \in Iter : exec[s] = "passed" => exec'[s] = "passed"
    BY <1>15 DEF ApproveWhole, Typed, TypeOK
  <2>3. fn.stage \in Iter
    BY DEF Typed, WorkTyped, WorkRecord
  <2>4. Batch' = Batch /\ \A s : LiveSlots(s)' = LiveSlots(s)
    BY <2>1 DEF Batch, NextBatch, Stage, LiveSlots
  <2> QED
    BY <2>1, <2>2, <2>3, <2>4 DEF BatchesDone, LiveSlots, Complete
<1>16. ASSUME NEW i \in Slots, ApproveItem(i)
      PROVE  BatchesDone'
  <2>1. fn' = fn /\ exec' = exec /\ count' = count /\ item' = [item EXCEPT !["items"][i] = "passed"]
    BY <1>16 DEF ApproveItem
  <2>2. \A s \in Iter, j \in Slots : item[s][j] = "passed" => item'[s][j] = "passed"
    BY <2>1 DEF Typed, TypeOK
  <2>3. fn.stage \in Iter
    BY DEF Typed, WorkTyped, WorkRecord
  <2>4. Batch' = Batch /\ \A s : LiveSlots(s)' = LiveSlots(s)
    BY <2>1 DEF Batch, NextBatch, Stage, LiveSlots
  <2> QED
    BY <2>1, <2>2, <2>3, <2>4 DEF BatchesDone, Batch, LiveSlots, Complete
<1>17. CASE Planned
  BY <1>17, PlannedQuiet DEF Quiet, BatchesDone
<1>18. CASE UNCHANGED vars
  BY <1>18 DEF vars, runRow, first, rows, BatchesDone, LiveSlots, Batch, NextBatch, Stage, Complete
<1> QED
  BY <1>1, <1>2, <1>3, <1>4, <1>5, <1>6, <1>7, <1>8, <1>9, <1>10, <1>11, <1>12, <1>13, <1>14, <1>15, <1>16, <1>17, <1>18, NextCases
  DEF Orchestrate, Execute

(* What the orchestrator takes for settled is.                               *)
LEMMA SettledNext == Typed /\ Engaged /\ RowsKnown /\ BatchesDone /\ SettledSound /\ [Next]_vars => SettledSound'
<1> SUFFICES ASSUME Typed /\ Engaged /\ RowsKnown /\ BatchesDone /\ SettledSound, [Next]_vars PROVE SettledSound'
  OBVIOUS
<1>1. ASSUME Load
      PROVE  SettledSound'
  <2>1. /\ exec' = exec /\ item' = item /\ count' = count /\ source' = source
        /\ orch'.work = {s \in Iter : \E i \in Slots : item[s][i] \notin {"none", "passed"}}
        /\ orch'.row["source"] = Copied(source)
        /\ \A s \in Iter : orch'.row[s] = Copied(exec[s])
    BY <1>1 DEF Load, Loaded, first, rows, Stages, Iter
  <2>2. \A s \in Iter : Settled(s)' => exec[s] = "passed" /\ \A i \in Slots : item[s][i] \in {"none", "passed"}
    BY <2>1 DEF Settled, Copied
  <2> QED
    BY <2>1, <2>2 DEF SettledSound, Copied, Complete, LiveSlots, RowsKnown
<1>2. ASSUME MakeList
      PROVE  SettledSound'
  <2>1. /\ exec' = exec /\ item' = item /\ count' = count /\ source' = "passed"
        /\ orch'.work = orch.work /\ orch.at = "plan" /\ \A s \in Iter : orch'.row[s] = orch.row[s]
    BY <1>2 DEF MakeList, MayStart, rows, Typed, WorkTyped, PlanRecord, Stages, Iter
  <2> QED
    BY <2>1 DEF SettledSound, Settled, Complete, LiveSlots
<1>3. ASSUME NEW s \in Iter, StartStage(s)
      PROVE  SettledSound'
  <2>1. /\ exec' = exec /\ item' = item /\ count' = count /\ source' = source
        /\ orch'.work = orch.work /\ orch.at = "plan"
        /\ \A t \in Stages : orch'.row[t] = IF t = s THEN "running" ELSE orch.row[t]
    BY <1>3 DEF StartStage, MayStart, first, rows, Typed, WorkTyped, PlanRecord, Stages
  <2> QED
    BY <2>1 DEF SettledSound, Settled, Complete, LiveSlots, Stages
<1>4. ASSUME Collect
      PROVE  SettledSound'
  <2>0. fn.stage \in Iter /\ exec \in [Iter -> ExecState] /\ orch \in PlanRecord
    BY DEF Typed, TypeOK, WorkTyped, WorkRecord
  <2>1. /\ item' = item /\ count' = count /\ source' = source /\ orch.at = "collect" /\ fn.at = "done"
        /\ \A t \in Iter : t # fn.stage => exec'[t] = exec[t]
        /\ fn.result # "crash" => exec' = exec
    <3>1. exec' = exec \/ (fn.result = "crash" /\ exec' = [exec EXCEPT ![fn.stage] = "failed"])
      BY <1>4 DEF Collect
    <3> QED
      BY <1>4, <2>0, <3>1 DEF Collect, first
  <2>2. /\ \A t \in Stages : t # fn.stage => orch'.row[t] = orch.row[t]
        /\ orch'.row[fn.stage] = "passed" => fn.result = "passed"
        /\ \A t \in Iter : t # fn.stage => (t \in orch'.work <=> t \in orch.work)
    BY <1>4, <2>0 DEF Collect, PlanRecord, Stages
  <2>3. fn.result = "passed" => exec[fn.stage] = "passed" /\ Complete(fn.stage)
    BY <2>1 DEF BatchesDone
  <2>4. \A t \in Iter : Complete(t)' <=> Complete(t)
    BY <2>1 DEF Complete, LiveSlots
  <2>5. ASSUME NEW t \in Iter, Settled(t)'
        PROVE  exec'[t] = "passed" /\ Complete(t)'
    <3>1. CASE t = fn.stage
      BY <2>1, <2>2, <2>3, <2>4, <2>5, <3>1 DEF Settled
    <3>2. CASE t # fn.stage
      BY <2>1, <2>2, <2>4, <2>5, <3>2 DEF Settled, SettledSound, Stages
    <3> QED
      BY <3>1, <3>2
  <2>6. "source" \in Stages /\ "source" # fn.stage
    BY <2>0 DEF Stages, Iter
  <2> QED
    BY <2>1, <2>2, <2>5, <2>6 DEF SettledSound
<1>5. ASSUME Finish
      PROVE  SettledSound'
  <2>1. orch'.at \in {"none", "load"}
    <3>1. \A s : End(s) => orch'.at = "none"
      BY NoRecords DEF End
    <3>2. Wake => orch'.at = "load"
      BY NoRecords, PlanAt DEF Wake
    <3> QED
      BY <1>5, <3>1, <3>2 DEF Finish, EndPause, EndBudget, EndFailed, EndWaiting, EndDone
  <2> QED
    BY <2>1 DEF SettledSound
<1>6. ASSUME Resolve
      PROVE  SettledSound'
  <2>1. /\ fn.stage \in Iter /\ exec \in [Iter -> ExecState] /\ item \in [Iter -> [Slots -> ItemState]]
        /\ count \in [Iter -> 0..MaxItems] /\ orch' = orch /\ source' = source
        /\ orch.row[fn.stage] = "running" /\ orch.at = "collect"
    BY <1>6 DEF Resolve, Engaged, Typed, TypeOK, WorkTyped, WorkRecord, first
  <2>2. \A t \in Iter : t # fn.stage => exec'[t] = exec[t]
    <3>1. exec' = exec \/ \E x : exec' = [exec EXCEPT ![fn.stage] = x]
      BY <1>6 DEF Resolve, Stage, rows
    <3> QED
      BY <2>1, <3>1
  <2>3. \A t \in Iter : t # fn.stage => item'[t] = item[t]
    <3>1. item' = item \/ \E x : item' = [item EXCEPT ![fn.stage] = x]
      BY <1>6 DEF Resolve, Stage, rows
    <3> QED
      BY <2>1, <3>1
  <2>4. \A t \in Iter : t # fn.stage => count'[t] = count[t]
    BY <1>6, <2>1 DEF Resolve, Stage, rows
  <2> QED
    BY <2>1, <2>2, <2>3, <2>4 DEF SettledSound, Settled, Complete, LiveSlots
<1>7. ASSUME Ensure
      PROVE  SettledSound'
  <2>1. /\ fn.stage \in Iter /\ exec \in [Iter -> ExecState] /\ item \in [Iter -> [Slots -> ItemState]]
        /\ count \in [Iter -> 0..MaxItems] /\ orch' = orch /\ source' = source
        /\ orch.row[fn.stage] = "running" /\ orch.at = "collect"
    BY <1>7 DEF Ensure, Engaged, Typed, TypeOK, WorkTyped, WorkRecord, first
  <2>2. \A t \in Iter : t # fn.stage => exec'[t] = exec[t]
    <3>1. exec' = exec \/ \E x : exec' = [exec EXCEPT ![fn.stage] = x]
      BY <1>7 DEF Ensure, Stage, rows
    <3> QED
      BY <2>1, <3>1
  <2>3. \A t \in Iter : t # fn.stage => item'[t] = item[t]
    <3>1. item' = item \/ \E x : item' = [item EXCEPT ![fn.stage] = x]
      BY <1>7 DEF Ensure, Stage, rows
    <3> QED
      BY <2>1, <3>1
  <2>4. \A t \in Iter : t # fn.stage => count'[t] = count[t]
    BY <1>7, <2>1 DEF Ensure, Stage, rows
  <2> QED
    BY <2>1, <2>2, <2>3, <2>4 DEF SettledSound, Settled, Complete, LiveSlots
<1>8. ASSUME StartBatch
      PROVE  SettledSound'
  <2>1. /\ fn.stage \in Iter /\ exec \in [Iter -> ExecState] /\ item \in [Iter -> [Slots -> ItemState]]
        /\ count \in [Iter -> 0..MaxItems] /\ orch' = orch /\ source' = source
        /\ orch.row[fn.stage] = "running" /\ orch.at = "collect"
    BY <1>8 DEF StartBatch, Engaged, Typed, TypeOK, WorkTyped, WorkRecord, first
  <2>2. \A t \in Iter : t # fn.stage => exec'[t] = exec[t]
    <3>1. exec' = exec \/ \E x : exec' = [exec EXCEPT ![fn.stage] = x]
      BY <1>8 DEF StartBatch, Stage, rows
    <3> QED
      BY <2>1, <3>1
  <2>3. \A t \in Iter : t # fn.stage => item'[t] = item[t]
    <3>1. item' = item \/ \E x : item' = [item EXCEPT ![fn.stage] = x]
      BY <1>8 DEF StartBatch, Stage, rows
    <3> QED
      BY <2>1, <3>1
  <2>4. \A t \in Iter : t # fn.stage => count'[t] = count[t]
    BY <1>8, <2>1 DEF StartBatch, Stage, rows
  <2> QED
    BY <2>1, <2>2, <2>3, <2>4 DEF SettledSound, Settled, Complete, LiveSlots
<1>9. ASSUME NEW i \in Slots, BeginItem(i)
      PROVE  SettledSound'
  <2>1. /\ fn.stage \in Iter /\ exec \in [Iter -> ExecState] /\ item \in [Iter -> [Slots -> ItemState]]
        /\ count \in [Iter -> 0..MaxItems] /\ orch' = orch /\ source' = source
        /\ orch.row[fn.stage] = "running" /\ orch.at = "collect"
    BY <1>9 DEF BeginItem, Engaged, Typed, TypeOK, WorkTyped, WorkRecord, first
  <2>2. \A t \in Iter : t # fn.stage => exec'[t] = exec[t]
    <3>1. exec' = exec \/ \E x : exec' = [exec EXCEPT ![fn.stage] = x]
      BY <1>9 DEF BeginItem, Stage, rows
    <3> QED
      BY <2>1, <3>1
  <2>3. \A t \in Iter : t # fn.stage => item'[t] = item[t]
    <3>1. item' = item \/ \E x : item' = [item EXCEPT ![fn.stage] = x]
      BY <1>9 DEF BeginItem, Stage, rows
    <3> QED
      BY <2>1, <3>1
  <2>4. \A t \in Iter : t # fn.stage => count'[t] = count[t]
    BY <1>9, <2>1 DEF BeginItem, Stage, rows
  <2> QED
    BY <2>1, <2>2, <2>3, <2>4 DEF SettledSound, Settled, Complete, LiveSlots
<1>10. ASSUME NEW i \in Slots, NEW r \in Results, EndItem(i, r)
      PROVE  SettledSound'
  <2>1. /\ fn.stage \in Iter /\ exec \in [Iter -> ExecState] /\ item \in [Iter -> [Slots -> ItemState]]
        /\ count \in [Iter -> 0..MaxItems] /\ orch' = orch /\ source' = source
        /\ orch.row[fn.stage] = "running" /\ orch.at = "collect"
    BY <1>10 DEF EndItem, Engaged, Typed, TypeOK, WorkTyped, WorkRecord, first
  <2>2. \A t \in Iter : t # fn.stage => exec'[t] = exec[t]
    <3>1. exec' = exec \/ \E x : exec' = [exec EXCEPT ![fn.stage] = x]
      BY <1>10 DEF EndItem, Stage, rows
    <3> QED
      BY <2>1, <3>1
  <2>3. \A t \in Iter : t # fn.stage => item'[t] = item[t]
    <3>1. item' = item \/ \E x : item' = [item EXCEPT ![fn.stage] = x]
      BY <1>10 DEF EndItem, Stage, rows
    <3> QED
      BY <2>1, <3>1
  <2>4. \A t \in Iter : t # fn.stage => count'[t] = count[t]
    BY <1>10, <2>1 DEF EndItem, Stage, rows
  <2> QED
    BY <2>1, <2>2, <2>3, <2>4 DEF SettledSound, Settled, Complete, LiveSlots
<1>11. ASSUME EndBatch
      PROVE  SettledSound'
  <2>1. /\ fn.stage \in Iter /\ exec \in [Iter -> ExecState] /\ item \in [Iter -> [Slots -> ItemState]]
        /\ count \in [Iter -> 0..MaxItems] /\ orch' = orch /\ source' = source
        /\ orch.row[fn.stage] = "running" /\ orch.at = "collect"
    BY <1>11 DEF EndBatch, Engaged, Typed, TypeOK, WorkTyped, WorkRecord, first
  <2>2. \A t \in Iter : t # fn.stage => exec'[t] = exec[t]
    <3>1. exec' = exec \/ \E x : exec' = [exec EXCEPT ![fn.stage] = x]
      BY <1>11 DEF EndBatch, Stage, rows
    <3> QED
      BY <2>1, <3>1
  <2>3. \A t \in Iter : t # fn.stage => item'[t] = item[t]
    <3>1. item' = item \/ \E x : item' = [item EXCEPT ![fn.stage] = x]
      BY <1>11 DEF EndBatch, Stage, rows
    <3> QED
      BY <2>1, <3>1
  <2>4. \A t \in Iter : t # fn.stage => count'[t] = count[t]
    BY <1>11, <2>1 DEF EndBatch, Stage, rows
  <2> QED
    BY <2>1, <2>2, <2>3, <2>4 DEF SettledSound, Settled, Complete, LiveSlots
<1>12. ASSUME FinishStage
      PROVE  SettledSound'
  <2>1. /\ fn.stage \in Iter /\ exec \in [Iter -> ExecState] /\ item \in [Iter -> [Slots -> ItemState]]
        /\ count \in [Iter -> 0..MaxItems] /\ orch' = orch /\ source' = source
        /\ orch.row[fn.stage] = "running" /\ orch.at = "collect"
    BY <1>12 DEF FinishStage, Engaged, Typed, TypeOK, WorkTyped, WorkRecord, first
  <2>2. \A t \in Iter : t # fn.stage => exec'[t] = exec[t]
    <3>1. exec' = exec \/ \E x : exec' = [exec EXCEPT ![fn.stage] = x]
      BY <1>12 DEF FinishStage, Stage, rows
    <3> QED
      BY <2>1, <3>1
  <2>3. \A t \in Iter : t # fn.stage => item'[t] = item[t]
    <3>1. item' = item \/ \E x : item' = [item EXCEPT ![fn.stage] = x]
      BY <1>12 DEF FinishStage, Stage, rows
    <3> QED
      BY <2>1, <3>1
  <2>4. \A t \in Iter : t # fn.stage => count'[t] = count[t]
    BY <1>12, <2>1 DEF FinishStage, Stage, rows
  <2> QED
    BY <2>1, <2>2, <2>3, <2>4 DEF SettledSound, Settled, Complete, LiveSlots
<1>13. ASSUME Pause
      PROVE  SettledSound'
  BY <1>13 DEF Pause, first, rows, SettledSound, Settled, Complete, LiveSlots
<1>14. ASSUME Stop
      PROVE  SettledSound'
  BY <1>14, NoRecords DEF Stop, SettledSound
<1>15. ASSUME ApproveWhole
      PROVE  SettledSound'
  <2>1. item' = item /\ count' = count /\ source' = source /\ (orch' = orch \/ orch'.at = "load")
    BY <1>15, WakeTyped DEF ApproveWhole, Answered, first, Typed
  <2>2. \A s \in Iter : exec[s] = "passed" => exec'[s] = "passed"
    BY <1>15 DEF ApproveWhole, Typed, TypeOK
  <2> QED
    BY <2>1, <2>2 DEF SettledSound, Settled, Complete, LiveSlots
<1>16. ASSUME NEW i \in Slots, ApproveItem(i)
      PROVE  SettledSound'
  <2>1. exec' = exec /\ count' = count /\ source' = source /\ (orch' = orch \/ orch'.at = "load")
    BY <1>16, WakeTyped DEF ApproveItem, Answered, first, Typed
  <2>2. \A s \in Iter, j \in Slots : item[s][j] = "passed" => item'[s][j] = "passed"
    BY <1>16 DEF ApproveItem, Typed, TypeOK
  <2> QED
    BY <2>1, <2>2 DEF SettledSound, Settled, Complete, LiveSlots
<1>17. CASE Planned
  BY <1>17, PlannedQuiet DEF Quiet, SettledSound
<1>18. CASE UNCHANGED vars
  BY <1>18 DEF vars, runRow, first, rows, SettledSound, Settled, Complete, LiveSlots
<1> QED
  BY <1>1, <1>2, <1>3, <1>4, <1>5, <1>6, <1>7, <1>8, <1>9, <1>10, <1>11, <1>12, <1>13, <1>14, <1>15, <1>16, <1>17, <1>18, NextCases
  DEF Orchestrate, Execute

(* Only the orchestrator ends a run as completed, once all is settled.      *)
LEMMA CompletedNext ==
  Typed /\ Engaged /\ RowsKnown /\ WaitsMatch /\ SettledSound /\ CompletedHasAll /\ [Next]_vars
  => CompletedHasAll'
<1> SUFFICES ASSUME Typed, Engaged, RowsKnown, WaitsMatch, SettledSound, CompletedHasAll,
                    [Next]_vars, state' = "COMPLETED"
             PROVE  CompletedHasAll'
  BY DEF CompletedHasAll
<1>1. CASE Finish
  <2>1. \A s : End(s) => state' = s
    BY DEF End
  <2>2. AllDone /\ wait' = wait
    BY <1>1, <2>1 DEF Finish, EndPause, EndBudget, EndFailed, EndWaiting, EndDone, Wake
  <2>3. orch.at = "plan"
    BY <1>1 DEF Finish, Resting
  <2>4. \A s \in Stages : Settled(s)
    BY <2>2 DEF AllDone, PlanDone
  <2>5. source = "passed" /\ \A s \in Iter : exec[s] = "passed" /\ Complete(s)
    BY <2>3, <2>4 DEF SettledSound, Settled, Stages
  <2>6. \A i \in Slots : item["items"][i] # "awaiting_approval"
    <3>1. \A i \in Slots : i < count["items"] \/ i >= count["items"]
      BY ItemsAssumption DEF Slots, Typed, TypeOK, Iter
    <3> QED
      BY <2>5, <3>1 DEF Complete, LiveSlots, RowsKnown, Iter
  <2>7. wait = {}
    BY <2>5, <2>6 DEF WaitsMatch, Typed, TypeOK, Iter
  <2> QED
    BY <1>1, <2>2, <2>5, <2>7 DEF Finish, first, CompletedHasAll, Complete, LiveSlots
<1>2. CASE state = "COMPLETED" /\ UNCHANGED <<source, exec, item, count, wait>>
  BY <1>2 DEF CompletedHasAll, LiveSlots
<1>3. CASE Planned
  BY <1>3, PlannedQuiet DEF Quiet
<1>4. CASE Live /\ state' = state
  BY <1>4 DEF Live
<1>5. orch.at # "none" => Live
  BY DEF Engaged
<1>6. fn.at # "none" => Live
  BY <1>5 DEF Engaged
<1>7. CASE Orchestrate
  BY <1>1, <1>4, <1>5, <1>7
  DEF Orchestrate, Load, MakeList, StartStage, MayStart, Collect, runRow
<1>8. CASE Execute
  BY <1>4, <1>6, <1>8
  DEF Execute, Resolve, Ensure, StartBatch, EndBatch, FinishStage, BeginItem, EndItem, runRow
<1>9. CASE Pause \/ Stop \/ ApproveWhole \/ \E i \in Slots : ApproveItem(i)
  BY <1>9 DEF Pause, Stop, ApproveWhole, ApproveItem, Answered, AnswerStates, Wake
<1>10. CASE UNCHANGED vars
  BY <1>2, <1>10 DEF vars, runRow, first, rows
<1> QED
  BY <1>3, <1>7, <1>8, <1>9, <1>10, NextCases

-----------------------------------------------------------------------------
(* The theorems.                                                            *)

LEMMA Inductive ==
  /\ Init => IInv
  /\ IInv /\ [Next]_vars => IInv'
<1>1. Init => IInv
  <2> SUFFICES ASSUME Init PROVE IInv
    OBVIOUS
  <2>1. orch.at = "load" /\ fn.at = "none"
    BY NoRecords, PlanAt DEF Init
  <2>2. Typed
    BY TypedInit
  <2>3. RowsKnown
    BY ItemsAssumption DEF Init, RowsKnown, Slots
  <2>4. WaitsMatch
    BY DEF Init, WaitsMatch, Iter
  <2> QED
    BY <2>1, <2>2, <2>3, <2>4
    DEF Init, IInv, Engaged, Live, BatchSound, AskedAlone, FailureKnown, BatchesDone, SettledSound,
        CompletedHasAll, Iter
<1>2. IInv /\ [Next]_vars => IInv'
  BY TypedNext, EngagedNext, RowsNext, BatchNext, WaitsNext, AskedNext, FailureNext, BatchesNext,
     SettledNext, CompletedNext
  DEF IInv
<1> QED
  BY <1>1, <1>2

(* Every variable keeps its type, whatever the items come to. *)
THEOREM TypeCorrect == Spec => []TypeOK
<1>1. IInv => TypeOK
  BY DEF IInv, Typed
<1> QED
  BY Inductive, <1>1, PTL DEF Spec

(* The open waits are exactly the outputs that wait for someone, through    *)
(* reviews, retries, re-runs, edits, stops and late results of a batch.     *)
THEOREM WaitsAlwaysMatch == Spec => []WaitsMatch
<1>1. IInv => WaitsMatch
  BY DEF IInv
<1> QED
  BY Inductive, <1>1, PTL DEF Spec

(* A completed run has every stage and every item of the current list, and  *)
(* nobody is asked anything.                                                *)
THEOREM CompletedIsComplete == Spec => []CompletedHasAll
<1>1. IInv => CompletedHasAll
  BY DEF IInv
<1> QED
  BY Inductive, <1>1, PTL DEF Spec

(* An execution that ends in failure leaves a failed stage to retry: the    *)
(* state of the run and the row of the stage, written by two functions.     *)
THEOREM FailureAlwaysShown == Spec => FailureIsShown
<1> DEFINE Fails == state # "FAILED" /\ state' = "FAILED"
<1>1. IInv /\ [Next]_vars => [Fails => \E s \in Iter : exec[s] = "failed"]_vars
  <2> SUFFICES ASSUME IInv, Next, Fails PROVE \E s \in Iter : exec[s] = "failed"
    OBVIOUS
  <2>1. CASE Finish
    <3>1. \A s : End(s) => state' = s
      BY DEF End
    <3>2. orch.at = "plan" /\ "failed" \in orch.why
      BY <2>1, <3>1 DEF Finish, Resting, EndPause, EndBudget, EndFailed, EndWaiting, EndDone, Wake
    <3> QED
      BY <3>2 DEF IInv, FailureKnown
  <2>2. CASE Planned
    <3>1. state' \in {state, "RUNNING"}
      BY <2>2 DEF Planned, Continue, Keep, RerunSource, RetrySource, EditSource, RejectWhole, RerunStage,
         RetryFailed, RerunItem, RejectItem, Answered, Wake
    <3> QED
      BY <3>1
  <2>3. CASE Orchestrate
    BY <2>1, <2>3 DEF Orchestrate, Load, MakeList, StartStage, Collect, runRow
  <2>4. CASE Execute
    BY <2>4 DEF Execute, Resolve, Ensure, StartBatch, EndBatch, FinishStage, BeginItem, EndItem, runRow
  <2>5. CASE Pause \/ Stop \/ ApproveWhole \/ \E i \in Slots : ApproveItem(i)
    BY <2>5 DEF Pause, Stop, ApproveWhole, ApproveItem, Answered, Wake
  <2> QED
    BY <2>2, <2>3, <2>4, <2>5, NextCases
<1> QED
  BY Inductive, <1>1, PTL DEF Spec, FailureIsShown

(* While it runs, the program never makes again an item that was accepted   *)
(* or that waits for a person: only an operator takes that back.            *)
THEOREM AcceptedAlwaysKept == Spec => AcceptedIsKept
<1> DEFINE Kept == \A s \in Iter, i \in Slots :
                     /\ item[s][i] \in {"passed", "awaiting_approval"}
                     /\ item'[s][i] \notin {"passed", "awaiting_approval"}
                     => ops' = ops + 1
<1>1. IInv /\ [Next]_vars => [Kept]_vars
  <2> SUFFICES ASSUME IInv, Next PROVE Kept
    OBVIOUS
  <2>1. /\ Typed /\ Engaged /\ BatchSound /\ fn.stage \in Iter
        /\ item \in [Iter -> [Slots -> ItemState]]
    BY DEF IInv, Typed, TypeOK, WorkTyped, WorkRecord
  <2>2. CASE item' = item
    BY <2>2
  <2>3. CASE Ensure
    <3>1. \/ item' = item
          \/ item' = [item EXCEPT ![fn.stage] = [i \in Slots |->
                        IF i < size /\ item[fn.stage][i] = "none" THEN "pending" ELSE item[fn.stage][i]]]
      BY <2>3 DEF Ensure, Stage
    <3> QED
      BY <2>1, <3>1
  <2>4. ASSUME NEW i \in Slots, BeginItem(i)
        PROVE  Kept
    <3>1. item[fn.stage][i] \notin {"passed", "awaiting_approval"}
      BY <2>1, <2>4 DEF BeginItem, BatchSound
    <3>2. item' = item \/ item' = [item EXCEPT ![fn.stage][i] = "running"]
      BY <2>4 DEF BeginItem, Stage
    <3> QED
      BY <2>1, <3>1, <3>2
  <2>5. ASSUME NEW i \in Slots, NEW r \in Results, EndItem(i, r)
        PROVE  Kept
    <3>1. item[fn.stage][i] = "running"
      BY <2>1, <2>5 DEF EndItem, BatchSound
    <3>2. \E new : item' = [item EXCEPT ![fn.stage][i] = new]
      BY <2>5 DEF EndItem, Stage
    <3> QED
      BY <2>1, <3>1, <3>2
  <2>6. ASSUME NEW i \in Slots, ApproveItem(i)
        PROVE  Kept
    BY <2>1, <2>6 DEF ApproveItem
  <2>7. CASE Planned
    BY <2>1, <2>7, PlannedQuiet DEF Quiet
  <2>8. CASE Stop
    BY <2>8 DEF Stop, Operate
  <2>9. CASE Orchestrate
    BY <2>2, <2>9 DEF Orchestrate, Load, MakeList, StartStage, Collect, Finish, rows
  <2>10. CASE Execute
    BY <2>2, <2>3, <2>4, <2>5, <2>10 DEF Execute, Resolve, StartBatch, EndBatch, FinishStage, rows
  <2>11. CASE Pause \/ ApproveWhole
    BY <2>2, <2>11 DEF Pause, ApproveWhole, rows
  <2> QED
    BY <2>6, <2>7, <2>8, <2>9, <2>10, <2>11, NextCases
<1> QED
  BY Inductive, <1>1, PTL DEF Spec, AcceptedIsKept

(* How many items a list has. *)
LEMMA IntervalOfSlots ==
  ASSUME Typed, NEW s \in Iter
  PROVE  IsFiniteSet(LiveSlots(s)) /\ Cardinality(LiveSlots(s)) = count[s]
<1>1. count[s] \in 0..MaxItems /\ MaxItems \in Nat
  BY ItemsAssumption DEF Typed, TypeOK
<1>2. LiveSlots(s) = 0..(count[s] - 1)
  BY <1>1 DEF LiveSlots, Slots
<1>3. ASSUME NEW m \in Int PROVE IsFiniteSet(0..m) /\ Cardinality(0..m) = IF 0 > m THEN 0 ELSE m - 0 + 1
  BY FS_Interval
<1>4. count[s] - 1 \in Int
  BY <1>1
<1>5. /\ IsFiniteSet(0..(count[s] - 1))
      /\ Cardinality(0..(count[s] - 1)) = IF 0 > count[s] - 1 THEN 0 ELSE count[s] - 1 - 0 + 1
  BY <1>3, <1>4
<1> QED
  BY <1>1, <1>2, <1>5

(* What is invalid is of the current list, and the closure keeps it so.     *)
LEMMA ClosureLive ==
  ASSUME NEW seed, \A s \in Iter : seed[s] \subseteq LiveSlots(s)
  PROVE  \A s \in Iter : Closure(seed)[s] \subseteq LiveSlots(s)
<1>1. \A s \in Iter : \A hit : hit \subseteq LiveSlots(s) => Chain(s, hit) \subseteq LiveSlots(s)
  BY DEF Chain
<1>2. \A hit : ReaderClips(hit) \subseteq LiveSlots("clips")
  BY DEF ReaderClips
<1>3. Chain("items", seed["items"]) \subseteq LiveSlots("items")
  BY <1>1 DEF Iter
<1>4. Chain("clips", seed["clips"] \cup ReaderClips(Chain("items", seed["items"]))) \subseteq LiveSlots("clips")
  BY <1>1, <1>2 DEF Iter
<1> QED
  BY <1>3, <1>4 DEF Closure, Iter

(* A closure that takes an item takes the clips recorded as its readers.    *)
LEMMA ClosureReads ==
  ASSUME NEW seed, NEW i \in LiveSlots("clips"), i \in Closure(seed)["items"],
         item["items"][i] = "passed", read["clips"][i] # 0
  PROVE  i \in Closure(seed)["clips"]
<1> DEFINE items == Chain("items", seed["items"])
<1>1. Closure(seed)["items"] = items /\ Closure(seed)["clips"] = Chain("clips", seed["clips"] \cup ReaderClips(items))
  BY DEF Closure, Iter
<1>2. i \in ReaderClips(items)
  BY <1>1 DEF ReaderClips
<1>3. \A hit : i \in hit => i \in Chain("clips", hit)
  <2>1. i <= i
    BY ItemsAssumption DEF LiveSlots, Slots
  <2> QED
    BY <2>1 DEF Chain
<1> QED
  BY <1>1, <1>2, <1>3

(* A stage is staled as a whole only with all its accepted items.           *)
LEMMA TakenIsHit ==
  ASSUME Typed, RowsKnown, NEW seed, \A s \in Iter : seed[s] \subseteq LiveSlots(s),
         NEW whole, "items" \in whole => LiveSlots("items") \subseteq Closure(seed)["items"],
         NEW i \in Slots, item["items"][i] = "passed",
         StaleItems(Closure(seed), AllOf(Closure(seed), whole))["items"][i] = "stale"
  PROVE  i \in Closure(seed)["items"]
<1> DEFINE hit == Closure(seed)
<1>1. hit["items"] \subseteq LiveSlots("items")
  BY ClosureLive DEF Iter
<1>2. i \in LiveSlots("items")
  <2>1. i < count["items"] \/ i >= count["items"]
    BY ItemsAssumption DEF Slots, Typed, TypeOK, Iter
  <2> QED
    BY <2>1 DEF RowsKnown, LiveSlots, Iter
<1>3. CASE "items" \in AllOf(hit, whole)
  <2>1. CASE "items" \in whole
    BY <1>2, <2>1
  <2>2. CASE Cardinality(hit["items"]) >= count["items"]
    <3>1. IsFiniteSet(LiveSlots("items")) /\ Cardinality(LiveSlots("items")) = count["items"]
      BY IntervalOfSlots DEF Iter
    <3>2. hit["items"] = LiveSlots("items")
      <4>1. Cardinality(hit["items"]) <= Cardinality(LiveSlots("items"))
        BY <1>1, <3>1, FS_Subset
      <4>2. Cardinality(hit["items"]) \in Nat /\ Cardinality(LiveSlots("items")) \in Nat
        BY <1>1, <3>1, FS_Subset, FS_CardinalityType
      <4> HIDE DEF hit
      <4>3. Cardinality(hit["items"]) = Cardinality(LiveSlots("items"))
        BY <2>2, <3>1, <4>1, <4>2
      <4> QED
        BY <1>1, <3>1, <4>3, FS_Subset
    <3> QED
      BY <1>2, <3>2
  <2> QED
    BY <1>3, <2>1, <2>2 DEF AllOf
<1>4. CASE "items" \notin AllOf(hit, whole)
  BY <1>4 DEF StaleItems, Iter
<1> QED
  BY <1>3, <1>4

LEMMA ReadersGo ==
  ASSUME Typed, RowsKnown, NEW seed, \A s \in Iter : seed[s] \subseteq LiveSlots(s),
         NEW whole, "items" \in whole => LiveSlots("items") \subseteq Closure(seed)["items"],
         NEW it, it = StaleItems(Closure(seed), AllOf(Closure(seed), whole)),
         NEW i \in LiveSlots("clips"), item["items"][i] = "passed", it["items"][i] = "stale",
         read["clips"][i] # 0
  PROVE  it["clips"][i] # "passed"
<1>1. i \in Slots
  BY DEF LiveSlots
<1>2. i \in Closure(seed)["items"]
  BY <1>1, TakenIsHit
<1>3. i \in Closure(seed)["clips"]
  BY <1>2, ClosureReads
<1> QED
  BY <1>1, <1>3 DEF StaleItems, Stale, Iter

(* When an item is taken back, an output recorded as made of it does not    *)
(* stay accepted: the closure of what is invalid reaches it, through a      *)
(* retry, a rejection, an edit and a re-run.                                *)
THEOREM RecordedReadersAlwaysGoStale == Spec => RecordedReadersGoStale
<1> DEFINE Gone == \A i \in LiveSlots("clips") :
                     Taken(i) /\ read["clips"][i] # 0 => item'["clips"][i] # "passed"
<1>1. IInv /\ [Next]_vars => [Gone]_vars
  <2> SUFFICES ASSUME IInv, Next,
                      NEW i \in LiveSlots("clips"), item["items"][i] = "passed",
                      item'["items"][i] = "stale", read["clips"][i] # 0
               PROVE  item'["clips"][i] # "passed"
    BY DEF Taken
  <2>1. /\ Typed /\ RowsKnown /\ fn.stage \in Iter /\ i \in Slots
        /\ item \in [Iter -> [Slots -> ItemState]]
    BY DEF IInv, Typed, TypeOK, WorkTyped, WorkRecord, LiveSlots
  <2>2. ASSUME NEW seed, \A s \in Iter : seed[s] \subseteq LiveSlots(s), Apply(Closure(seed), {})
        PROVE  item'["clips"][i] # "passed"
    <3>1. item' = StaleItems(Closure(seed), AllOf(Closure(seed), {}))
      BY <2>2 DEF Apply
    <3> QED
      BY <2>1, <2>2, <3>1, ReadersGo
  <2>3. \A s \in Iter : \A hit : hit \subseteq LiveSlots(s) => \A t \in Iter : Seed(s, hit)[t] \subseteq LiveSlots(t)
    BY DEF Seed
  <2>4. \A s \in Iter : ReadersOfSource[s] \subseteq LiveSlots(s)
    BY DEF ReadersOfSource
  <2>5. CASE RetrySource \/ EditSource
    BY <2>2, <2>4, <2>5 DEF RetrySource, EditSource
  <2>6. ASSUME NEW s \in Iter, RetryFailed(s)
        PROVE  item'["clips"][i] # "passed"
    <3> DEFINE failed == {j \in LiveSlots(s) : item[s][j] = "failed"}
    <3>1. \A t \in Iter : Seed(s, failed)[t] \subseteq LiveSlots(t)
      BY <2>3
    <3>2. Apply(Closure(Seed(s, failed)), {})
      BY <2>6 DEF RetryFailed
    <3> QED
      BY <2>2, <3>1, <3>2
  <2>7. ASSUME NEW j \in Slots, RejectItem(j)
        PROVE  item'["clips"][i] # "passed"
    <3>1. item["items"][j] = "awaiting_approval" /\ Apply(Closure(Seed("items", {j})), {})
      BY <2>7 DEF RejectItem
    <3>2. j < count["items"] \/ j >= count["items"]
      BY ItemsAssumption, <2>1 DEF Slots, Typed, TypeOK, Iter
    <3>3. {j} \subseteq LiveSlots("items")
      BY <2>1, <3>1, <3>2 DEF RowsKnown, LiveSlots, Iter
    <3>4. \A t \in Iter : Seed("items", {j})[t] \subseteq LiveSlots(t)
      BY <2>3, <3>3 DEF Iter
    <3> QED
      BY <2>2, <3>1, <3>4
  <2>8. CASE RejectWhole
    <3> DEFINE seed == Seed("items", LiveSlots("items"))
    <3>1. \A t \in Iter : seed[t] \subseteq LiveSlots(t)
      BY <2>3 DEF Iter
    <3>2. item' = StaleItems(Closure(seed), AllOf(Closure(seed), {"items"}))
      BY <2>8 DEF RejectWhole, Apply
    <3>3. LiveSlots("items") \subseteq Closure(seed)["items"]
      <4>1. seed["items"] = LiveSlots("items")
        BY DEF Seed, Iter
      <4>2. \A j \in LiveSlots("items") : j <= j
        BY ItemsAssumption DEF LiveSlots, Slots
      <4>3. Closure(seed)["items"] = Chain("items", seed["items"])
        BY DEF Closure, Iter
      <4> QED
        BY <4>1, <4>2, <4>3 DEF Chain
    <3> HIDE DEF seed
    <3> QED
      BY <2>1, <3>1, <3>2, <3>3, ReadersGo
  <2>9. CASE RerunSource
    BY <2>1, <2>9 DEF RerunSource, Stale, Iter
  <2>10. ASSUME NEW s \in Iter, RerunStage(s)
         PROVE  item'["clips"][i] # "passed"
    <3>1. s = "items"
      BY <2>1, <2>10 DEF RerunStage, Iter
    <3> QED
      BY <2>1, <2>10, <3>1 DEF RerunStage, Stale, Iter
  <2>11. ASSUME NEW s \in Iter, NEW j \in Slots, RerunItem(s, j)
         PROVE  item'["clips"][i] # "passed"
    <3> DEFINE seed == Seed(s, {j})
               it   == StaleItems(Closure(seed), AllOf(Closure(seed), {}))
    <3>1. \A t \in Iter : seed[t] \subseteq LiveSlots(t)
      BY <2>3, <2>11 DEF RerunItem
    <3>2. item' = [it EXCEPT ![s] = Freed(it[s])]
      BY <2>11 DEF RerunItem
    <3>3. it \in [Iter -> [Slots -> ItemState]]
      BY <2>1, StaleItemsAre
    <3>4. it = StaleItems(Closure(seed), AllOf(Closure(seed), {}))
      OBVIOUS
    <3> HIDE DEF seed, it
    <3>5. \A t \in Iter : item'[t] = it[t] \/ item'[t] = Freed(it[t])
      BY <3>2, <3>3
    <3>6. \A t \in Iter : /\ item'[t][i] = "stale" => it[t][i] = "stale"
                          /\ item'[t][i] = "passed" => it[t][i] = "passed"
      BY <2>1, <3>3, <3>5 DEF Freed
    <3>7. it["items"][i] = "stale"
      BY <3>6 DEF Iter
    <3>8. it["clips"][i] # "passed"
      BY <2>1, <3>1, <3>4, <3>7, ReadersGo
    <3> QED
      BY <3>6, <3>8 DEF Iter
  <2>12. CASE Continue \/ Keep
    <3>1. \A s \in Iter, j \in Slots : item'[s][j] = "stale" => item[s][j] = "stale"
      <4>1. CASE Continue
        <5>1. \A s \in Iter : item'[s] = item[s] \/ item'[s] = Freed(item[s])
          BY <4>1 DEF Continue, SetPending
        <5> QED
          BY <2>1, <5>1 DEF Freed
      <4>2. CASE Keep
        <5> DEFINE it == [s \in Iter |-> [k \in Slots |-> IF k \in Outdated(s) THEN "passed" ELSE item[s][k]]]
        <5>1. SetPending(ToRun({}), it)
          BY <4>2 DEF Keep
        <5>2. \A s \in Iter, j \in Slots : it[s][j] = "stale" => item[s][j] = "stale"
          OBVIOUS
        <5>3. it \in [Iter -> [Slots -> ItemState]]
          BY <2>1 DEF ItemState
        <5> HIDE DEF it
        <5>4. \A s \in Iter : item'[s] = it[s] \/ item'[s] = Freed(it[s])
          BY <5>1 DEF SetPending
        <5>5. \A s \in Iter, j \in Slots : item'[s][j] = "stale" => it[s][j] = "stale"
          BY <5>3, <5>4 DEF Freed
        <5> QED
          BY <5>2, <5>5
      <4> QED
        BY <2>12, <4>1, <4>2
    <3> QED
      BY <2>1, <3>1 DEF Iter
  <2>13. CASE Stop
    <3>1. item'["items"] = Freed(item["items"])
      BY <2>13 DEF Stop, Iter
    <3> QED
      BY <2>1, <3>1 DEF Freed, Iter
  <2>14. CASE item' = item
    BY <2>14
  <2>15. CASE Ensure
    <3>1. \/ item' = item
          \/ item' = [item EXCEPT ![fn.stage] = [j \in Slots |->
                        IF j < size /\ item[fn.stage][j] = "none" THEN "pending" ELSE item[fn.stage][j]]]
      BY <2>15 DEF Ensure, Stage
    <3> QED
      BY <2>1, <3>1 DEF Iter
  <2>16. ASSUME NEW j \in Slots, BeginItem(j)
         PROVE  FALSE
    <3>1. item' = item \/ item' = [item EXCEPT ![fn.stage][j] = "running"]
      BY <2>16 DEF BeginItem, Stage
    <3> QED
      BY <2>1, <3>1 DEF Iter
  <2>17. ASSUME NEW j \in Slots, NEW r \in Results, EndItem(j, r)
         PROVE  FALSE
    <3>1. item[fn.stage][j] = "running"
      BY <2>17 DEF EndItem, IInv, BatchSound
    <3>2. \E new \in {"awaiting_approval", "passed", "failed", "running"} : item' = [item EXCEPT ![fn.stage][j] = new]
      BY <2>17, <3>1 DEF EndItem, ItemAfter, Stage
    <3> QED
      BY <2>1, <3>2 DEF Iter
  <2>18. CASE \E j \in Slots : ApproveItem(j)
    BY <2>1, <2>18 DEF ApproveItem, Iter
  <2>19. CASE Orchestrate
    BY <2>14, <2>19 DEF Orchestrate, Load, MakeList, StartStage, Collect, Finish, rows
  <2>20. CASE Execute
    BY <2>14, <2>15, <2>16, <2>17, <2>20 DEF Execute, Resolve, StartBatch, EndBatch, FinishStage, rows
  <2>21. CASE Pause \/ ApproveWhole
    BY <2>14, <2>21 DEF Pause, ApproveWhole, rows
  <2>22. CASE Planned
    BY <2>5, <2>6, <2>7, <2>8, <2>9, <2>10, <2>11, <2>12, <2>22 DEF Planned
  <2> QED
    BY <2>13, <2>18, <2>19, <2>20, <2>21, <2>22, NextCases
<1> QED
  BY Inductive, <1>1, PTL DEF Spec, RecordedReadersGoStale

-----------------------------------------------------------------------------
(* One list.  Accepted outputs of a stage come from one list although lists *)
(* are replaced, outdated outputs kept and counts changed.  The rows and    *)
(* what is recorded with them carry it: what stands accepted came from the  *)
(* list it stands for, and in a stage that was accepted as a whole this     *)
(* holds of every item, so that an outdated one may be kept.                *)

Made == {"passed", "awaiting_approval"}
OneList ==
  \A s \in Iter : \A i \in LiveSlots(s) : item[s][i] \in Made =>
    /\ from[s][i] = print[s][i] /\ read[s][i] \in {0, print[s][i]}
    /\ \A j \in LiveSlots(s) : item[s][j] \in Made => print[s][j] = print[s][i]

(* Nobody is asked about an output of an earlier list. *)
AskedCurrent ==
  \A s \in Iter : \A i \in LiveSlots(s) : item[s][i] = "awaiting_approval" =>
    source = "passed" /\ read[s][i] = version /\ print[s][i] = version

(* A kept output is no reader any more, and what follows an outdated item   *)
(* goes with it only if it comes later.  So in an accepted stage of an      *)
(* earlier list there is an item no change of the source reaches: it stays  *)
(* accepted, and resolveIterateCount refuses the stage.                     *)
Anchor(s, i) == read[s][i] = 0 /\ (s \in BindsPrev => i = 0)
StageWhole ==
  \A s \in Iter : exec[s] \in Made =>
    /\ count[s] > 0
    /\ \A i \in LiveSlots(s) :
         /\ from[s][i] = print[s][0] /\ print[s][i] = print[s][0]
         /\ read[s][i] \in {0, print[s][0]}
         /\ Anchor(s, i) => item[s][i] = "passed"
    /\ \/ print[s][0] = version /\ source = "passed"
       \/ \E i \in LiveSlots(s) : Anchor(s, i)
    /\ print[s][0] = version => count[s] = size

ListKnown ==
  /\ source = "passed" => version > 0
  /\ version > 0 => size > 0
  /\ \A s \in Iter, i \in Slots : print[s][i] <= version

(* A function at work on a stage works on the newest list. *)
WorkCurrent ==
  /\ orch.at \in {"plan", "collect"} => (orch.row["source"] = "passed" <=> source = "passed")
  /\ fn.at \in {"resolve", "ensure", "batch", "run", "finish"} => source = "passed"
  /\ fn.at \in {"ensure", "batch", "run", "finish"} =>
       \A i \in LiveSlots(fn.stage) : item[fn.stage][i] \in Made => print[fn.stage][i] = version
  /\ fn.at = "ensure" /\ exec[fn.stage] \in Made => print[fn.stage][0] = version
  /\ fn.at \in {"batch", "run", "finish"} =>
       count[fn.stage] = size /\ \A i \in LiveSlots(fn.stage) : print[fn.stage][i] = version
  /\ fn.at = "run" => \A i \in fn.busy : read[fn.stage][i] = version

Identity == OneList /\ AskedCurrent /\ StageWhole /\ ListKnown /\ WorkCurrent

(* What the rows say holds as long as no stage is accepted on the way. *)
LEMMA IdentityFrame ==
  ASSUME Identity, UNCHANGED <<source, version, size, count, item, read, print, from>>,
         \A s \in Iter : exec'[s] \in Made => exec[s] \in Made
  PROVE  OneList' /\ AskedCurrent' /\ StageWhole' /\ ListKnown'
BY DEF Identity, OneList, AskedCurrent, StageWhole, ListKnown, LiveSlots, Anchor

LEMMA OrchestrateIdentity ==
  ASSUME IInv, Identity, Orchestrate
  PROVE  Identity'
<1>0. /\ exec \in [Iter -> ExecState] /\ orch \in PlanRecord /\ fn \in WorkRecord
      /\ fn.stage \in Iter /\ version \in Nat
      /\ \A s \in Iter, i \in Slots : print[s][i] \in Nat
  BY ItemsAssumption DEF IInv, Typed, TypeOK, WorkTyped, WorkRecord, Versions
<1>1. CASE Load
  <2>1. OneList' /\ AskedCurrent' /\ StageWhole' /\ ListKnown'
    BY <1>1, IdentityFrame DEF Load, first, rows
  <2>2. orch'.row["source"] = "passed" <=> source = "passed"
    BY <1>1 DEF Load, Loaded, Copied, Stages
  <2>3. WorkCurrent'
    BY <1>1, <2>2 DEF Load, first, rows, Identity, WorkCurrent, LiveSlots
  <2> QED
    BY <2>1, <2>3 DEF Identity
<1>2. CASE MakeList
  <2>1. orch.at = "plan" /\ fn.at = "none" /\ fn' = fn
    BY <1>2 DEF MakeList, MayStart, IInv, Engaged
  <2>2. source # "passed"
    BY <1>2, <2>1 DEF MakeList, MayStart, Ready, PlanDone, Before, Settled, Identity, WorkCurrent, PlanRecord, Iter, IInv, Typed, WorkTyped
  <2>3. source' = "passed" /\ version' = version + 1 /\ size' > 0 /\ UNCHANGED rows
    BY <1>2, ItemsAssumption DEF MakeList
  <2>4. OneList' /\ AskedCurrent'
    BY <2>2, <2>3 DEF rows, Identity, OneList, AskedCurrent, LiveSlots
  <2>5. ListKnown'
    BY <1>0, <2>3 DEF rows, Identity, ListKnown
  <2>6. StageWhole'
    <3>1. \A s \in Iter : print[s][0] <= version
      BY ItemsAssumption DEF Identity, ListKnown, Slots
    <3>2. \A s \in Iter : print[s][0] # version'
      BY <1>0, <2>3, <3>1, ItemsAssumption DEF Slots
    <3> QED
      BY <2>2, <2>3, <3>2 DEF rows, Identity, StageWhole, Anchor, LiveSlots
  <2>7. orch'.row["source"] = "passed"
    BY <1>0, <1>2 DEF MakeList, PlanRecord, Stages
  <2>8. WorkCurrent'
    BY <2>1, <2>3, <2>7 DEF WorkCurrent
  <2> QED
    BY <2>4, <2>5, <2>6, <2>8 DEF Identity
<1>3. ASSUME NEW s \in Iter, StartStage(s)
      PROVE  Identity'
  <2>1. OneList' /\ AskedCurrent' /\ StageWhole' /\ ListKnown'
    BY <1>3, IdentityFrame DEF StartStage, first, rows
  <2>2. orch.at = "plan" /\ orch.row["source"] = "passed"
    BY <1>3 DEF StartStage, MayStart, Ready, PlanDone, Before, Settled, Iter
  <2>3. source' = "passed" /\ fn'.at = "resolve"
    BY <1>3, <2>2 DEF StartStage, NoWork, first, Identity, WorkCurrent
  <2>4. orch'.row["source"] = "passed"
    BY <1>0, <1>3, <2>2 DEF StartStage, PlanRecord, Stages, Iter
  <2>5. WorkCurrent'
    BY <2>3, <2>4 DEF WorkCurrent
  <2> QED
    BY <2>1, <2>5 DEF Identity
<1>4. CASE Collect
  <2>1. \A s \in Iter : exec'[s] \in Made => exec[s] \in Made
    BY <1>0, <1>4 DEF Collect, Made
  <2>2. OneList' /\ AskedCurrent' /\ StageWhole' /\ ListKnown'
    BY <1>4, <2>1, IdentityFrame DEF Collect, first
  <2>3. fn'.at = "none" /\ source' = source
    BY <1>4, NoRecords DEF Collect, first
  <2>4. orch'.row["source"] = orch.row["source"] /\ orch.at = "collect"
    BY <1>0, <1>4 DEF Collect, PlanRecord, Stages, Iter
  <2>5. WorkCurrent'
    BY <2>3, <2>4 DEF Identity, WorkCurrent
  <2> QED
    BY <2>2, <2>5 DEF Identity
<1>5. CASE Finish
  <2>1. OneList' /\ AskedCurrent' /\ StageWhole' /\ ListKnown'
    BY <1>5, IdentityFrame DEF Finish, first
  <2>2. orch'.at \in {"none", "load"}
    <3>1. [NoPlan EXCEPT !.at = "load"].at = "load" /\ NoPlan.at = "none"
      BY NoRecords, PlanAt
    <3> QED
      BY <1>5, <3>1 DEF Finish, EndPause, EndBudget, EndFailed, EndWaiting, EndDone, End, Wake
  <2>3. WorkCurrent'
    BY <1>5, <2>2 DEF Finish, first, Identity, WorkCurrent, LiveSlots
  <2> QED
    BY <2>1, <2>3 DEF Identity
<1> QED
  BY <1>1, <1>2, <1>3, <1>4, <1>5 DEF Orchestrate

LEMMA ExecuteIdentity ==
  ASSUME IInv, Identity, Execute
  PROVE  Identity'
<1> PICK s \in Iter : s = fn.stage
  BY DEF IInv, Typed, WorkTyped, WorkRecord
<1>0. /\ exec \in [Iter -> ExecState] /\ orch \in PlanRecord /\ fn \in WorkRecord
      /\ item \in [Iter -> [Slots -> ItemState]] /\ read \in [Iter -> [Slots -> Versions]]
      /\ print \in [Iter -> [Slots -> Versions]] /\ from \in [Iter -> [Slots -> Versions]]
      /\ count \in [Iter -> 0..MaxItems] /\ size \in 0..MaxItems /\ MaxItems \in Nat \ {0}
      /\ s \in Iter /\ version \in Nat /\ Versions \subseteq Nat /\ version \in Versions
  BY ItemsAssumption DEF IInv, Typed, TypeOK, WorkTyped, WorkRecord, Versions
<1>1. UNCHANGED <<first, orch>>
  BY DEF Execute, Resolve, Ensure, StartBatch, EndBatch, FinishStage, BeginItem, EndItem
<1>2. ASSUME fn'.at = "done"
      PROVE  WorkCurrent'
  BY <1>1, <1>2 DEF first, Identity, WorkCurrent
<1>3. \A r : Return(r) => fn'.at = "done"
  BY DEF Return, NoWork
<1>4. /\ s \in Iter /\ 0 \in Slots /\ \A i \in Slots : i \in Nat
      /\ \A t \in Iter : LiveSlots(t) \subseteq Slots
      /\ \A t \in Iter : count[t] > 0 => 0 \in LiveSlots(t)
  BY <1>0 DEF Slots, LiveSlots
<1>5. fn.at \in {"resolve", "ensure", "batch", "run", "finish"} =>
        source = "passed" /\ version > 0 /\ size > 0
  BY DEF Identity, WorkCurrent, ListKnown
<1>6. CASE Resolve
  <2>1. OneList' /\ AskedCurrent' /\ StageWhole' /\ ListKnown'
    <3>1. \A t \in Iter : exec'[t] \in Made => exec[t] \in Made
      BY <1>0, <1>6 DEF Resolve, Stage, Made
    <3> QED
      BY <1>6, <3>1, IdentityFrame DEF Resolve, first
  <2>2. ASSUME Mismatched = {}, fn' = [fn EXCEPT !.at = "ensure"], exec' = exec
        PROVE  WorkCurrent'
    <3>1. fn'.at = "ensure" /\ fn'.stage = s
      BY <1>0, <2>2 DEF WorkRecord
    <3>2. \A i \in Slots : item[s][i] = "passed" => print[s][i] = version
      BY <2>2 DEF Mismatched, Stage
    <3>3. \A i \in LiveSlots(s) : item[s][i] \in Made => print[s][i] = version
      BY <1>4, <3>2 DEF Made, Identity, AskedCurrent
    <3>4. exec[s] \in Made => print[s][0] = version
      <4>1. ASSUME exec[s] \in Made, NEW i \in LiveSlots(s), Anchor(s, i)
            PROVE  print[s][0] = version
        <5>1. item[s][i] = "passed" /\ print[s][i] = print[s][0]
          BY <1>4, <4>1 DEF Identity, StageWhole
        <5> QED
          BY <1>4, <3>2, <4>1, <5>1
      <4> QED
        BY <1>4, <4>1 DEF Identity, StageWhole
    <3> QED
      BY <1>1, <1>5, <1>6, <2>2, <3>1, <3>3, <3>4 DEF Resolve, first, Identity, WorkCurrent, LiveSlots
  <2>3. WorkCurrent'
    BY <1>2, <1>3, <1>6, <2>2 DEF Resolve
  <2> QED
    BY <2>1, <2>3 DEF Identity
<1>7. CASE Ensure
  <2>1. CASE UNCHANGED <<count, item, print>> /\ fn'.at = "done"
    BY <1>1, <1>2, <1>7, <2>1, IdentityFrame DEF Ensure, first, Identity
  <2>2. CASE ~(UNCHANGED <<count, item, print>> /\ fn'.at = "done")
    <3>1. /\ ~CountRefused /\ fn.at = "ensure"
          /\ count' = [count EXCEPT ![s] = size]
          /\ item' = [item EXCEPT ![s] = [i \in Slots |->
                        IF i < size /\ item[s][i] = "none" THEN "pending" ELSE item[s][i]]]
          /\ print' = [print EXCEPT ![s] = [i \in Slots |-> IF i < size THEN version ELSE print[s][i]]]
          /\ fn' = [fn EXCEPT !.at = "batch"]
          /\ UNCHANGED <<exec, read, from>>
      BY <1>3, <1>7, <2>2 DEF Ensure, Stage
    <3>2. /\ count'[s] = size /\ LiveSlots(s)' = {i \in Slots : i < size}
          /\ \A i \in LiveSlots(s)' : print'[s][i] = version
          /\ fn'.at = "batch" /\ fn'.stage = s
      BY <1>0, <3>1 DEF LiveSlots, WorkRecord
    <3>3. \A t \in Iter \ {s} : /\ count'[t] = count[t] /\ item'[t] = item[t] /\ print'[t] = print[t]
                                /\ LiveSlots(t)' = LiveSlots(t)
      BY <1>0, <3>1 DEF LiveSlots
    <3>6. ListKnown'
      BY <1>0, <1>1, <3>1 DEF first, Identity, ListKnown
    <3>7. WorkCurrent'
      BY <1>1, <1>5, <3>1, <3>2 DEF first, Identity, WorkCurrent
    <3>4. CASE count[s] = size
      <4>1. /\ LiveSlots(s)' = LiveSlots(s)
            /\ \A i \in LiveSlots(s) : item'[s][i] = item[s][i]
        BY <1>0, <3>1, <3>2, <3>4 DEF LiveSlots, IInv, RowsKnown
      <4>2. \A i \in LiveSlots(s) : item[s][i] \in Made => print'[s][i] = print[s][i]
        BY <1>4, <3>1, <3>2, <4>1 DEF Identity, WorkCurrent
      <4>8. ASSUME NEW t \in Iter
            PROVE  /\ LiveSlots(t)' = LiveSlots(t) /\ count'[t] = count[t]
                   /\ \A i \in LiveSlots(t) :
                        /\ item'[t][i] = item[t][i]
                        /\ item[t][i] \in Made => print'[t][i] = print[t][i]
        BY <3>2, <3>3, <3>4, <4>1, <4>2
      <4>3. OneList'
        <5> SUFFICES ASSUME NEW t \in Iter, NEW i \in LiveSlots(t), item[t][i] \in Made
                     PROVE  /\ from[t][i] = print'[t][i] /\ read[t][i] \in {0, print'[t][i]}
                            /\ \A j \in LiveSlots(t) : item[t][j] \in Made => print'[t][j] = print'[t][i]
          <6>1. read' = read /\ from' = from
            BY <3>1
          <6> QED
            BY <4>8, <6>1 DEF OneList
        <5> QED
          BY <4>8 DEF Identity, OneList
      <4>4. AskedCurrent'
        BY <1>1, <3>1, <4>8 DEF Made, first, Identity, AskedCurrent
      <4>5. exec[s] \in Made => \A i \in LiveSlots(s) : print'[s][i] = print[s][i]
        BY <1>4, <3>1, <3>2, <4>1 DEF Identity, WorkCurrent, StageWhole
      <4>6. exec[s] \in Made => 0 \in LiveSlots(s)
        BY <1>4 DEF Identity, StageWhole
      <4>7. StageWhole'
        <5>1. ASSUME NEW t \in Iter, exec[t] \in Made
              PROVE  /\ \A i \in LiveSlots(t) : print'[t][i] = print[t][i]
                     /\ print'[t][0] = print[t][0]
          BY <3>3, <4>5, <4>6, <5>1
        <5>2. \A t \in Iter : exec'[t] = exec[t] /\ read'[t] = read[t] /\ from'[t] = from[t]
          BY <3>1
        <5>3. source' = source /\ version' = version /\ size' = size
          BY <1>1 DEF first
        <5> QED
          BY <4>8, <5>1, <5>2, <5>3 DEF Identity, StageWhole, Anchor
      <4> QED
        BY <3>6, <3>7, <4>3, <4>4, <4>7 DEF Identity
    <3>5. CASE count[s] # size
      <4>1. \A i \in Slots : item[s][i] \in {"none", "stale"}
        BY <1>0, <1>4, <3>1, <3>5 DEF CountRefused, Stage, IInv, RowsKnown
      <4>2. \A i \in LiveSlots(s)' : item'[s][i] \notin Made
        BY <1>0, <3>1, <4>1 DEF Made, LiveSlots
      <4>3. exec[s] \notin Made
        BY <1>4, <3>1, <3>5 DEF Identity, WorkCurrent, StageWhole
      <4>4. OneList'
        <5> SUFFICES ASSUME NEW t \in Iter, t # s, NEW i \in LiveSlots(t)', item'[t][i] \in Made
                     PROVE  /\ from'[t][i] = print'[t][i] /\ read'[t][i] \in {0, print'[t][i]}
                            /\ \A j \in LiveSlots(t)' : item'[t][j] \in Made => print'[t][j] = print'[t][i]
          BY <4>2 DEF OneList
        <5> QED
          BY <3>1, <3>3 DEF Identity, OneList
      <4>5. AskedCurrent'
        <5> SUFFICES ASSUME NEW t \in Iter, t # s, NEW i \in LiveSlots(t)', item'[t][i] = "awaiting_approval"
                     PROVE  source' = "passed" /\ read'[t][i] = version' /\ print'[t][i] = version'
          BY <4>2 DEF Made, AskedCurrent
        <5> QED
          BY <1>1, <3>1, <3>3 DEF first, Identity, AskedCurrent
      <4>6. StageWhole'
        BY <1>1, <1>4, <3>1, <3>3, <4>3 DEF first, Identity, StageWhole, Anchor
      <4> QED
        BY <3>6, <3>7, <4>4, <4>5, <4>6 DEF Identity
    <3> QED
      BY <3>4, <3>5
  <2> QED
    BY <2>1, <2>2
<1>8. CASE StartBatch
  <2>1. OneList' /\ AskedCurrent' /\ StageWhole' /\ ListKnown'
    BY <1>8, IdentityFrame DEF StartBatch, first, rows
  <2>2. ASSUME fn'.at = "run", fn'.stage = s, fn'.busy = {}, fn.at = "batch", UNCHANGED rows
        PROVE  WorkCurrent'
    BY <1>1, <1>5, <2>2 DEF first, rows, Identity, WorkCurrent, LiveSlots
  <2>3. ASSUME ~(fn'.at = "done")
        PROVE  fn'.at = "run" /\ fn'.stage = s /\ fn'.busy = {}
    <3>1. state = "RUNNING" /\ fn.busy = {}
      BY <1>3, <1>8, <2>3 DEF StartBatch, IInv, BatchSound
    <3>2. \E todo, still : fn' = [fn EXCEPT !.at = "run", !.got = {}, !.todo = todo, !.still = still]
      BY <1>8, <3>1 DEF StartBatch
    <3> QED
      BY <1>0, <3>1, <3>2 DEF WorkRecord
  <2>4. WorkCurrent'
    BY <1>2, <1>8, <2>2, <2>3 DEF StartBatch
  <2> QED
    BY <2>1, <2>4 DEF Identity
<1>9. ASSUME NEW i \in Slots, BeginItem(i)
      PROVE  Identity'
  <2>1. fn.at = "run" /\ i \in LiveSlots(s) /\ i \in fn.todo
    BY <1>9 DEF BeginItem, IInv, BatchSound
  <2>2. CASE state # "RUNNING"
    <3>1. OneList' /\ AskedCurrent' /\ StageWhole' /\ ListKnown'
      BY <1>9, <2>2, IdentityFrame DEF BeginItem, first
    <3>2. fn'.at = "run" /\ fn'.stage = s /\ fn'.busy = fn.busy
      BY <1>0, <1>9, <2>2 DEF BeginItem, WorkRecord
    <3>3. WorkCurrent'
      BY <1>1, <1>5, <1>9, <2>1, <2>2, <3>2 DEF BeginItem, first, Identity, WorkCurrent, LiveSlots
    <3> QED
      BY <3>1, <3>3 DEF Identity
  <2>3. CASE state = "RUNNING"
    <3>1. /\ item' = [item EXCEPT ![s][i] = "running"] /\ read' = [read EXCEPT ![s][i] = version]
          /\ exec' = [exec EXCEPT ![s] = IF @ \in Made THEN @ ELSE "running"]
          /\ fn' = [fn EXCEPT !.todo = @ \ {i}, !.busy = @ \cup {i}]
          /\ UNCHANGED <<count, print, from>>
      BY <1>9, <2>3 DEF BeginItem, Stage, Made
    <3>2. /\ \A t \in Iter : LiveSlots(t)' = LiveSlots(t)
          /\ item'[s][i] = "running" /\ read'[s][i] = version
          /\ \A t \in Iter, j \in Slots : t # s \/ j # i => item'[t][j] = item[t][j] /\ read'[t][j] = read[t][j]
          /\ \A t \in Iter : exec'[t] \in Made => exec[t] \in Made
          /\ fn'.at = "run" /\ fn'.stage = s /\ fn'.busy = fn.busy \cup {i}
      BY <1>0, <2>1, <3>1 DEF Made, LiveSlots, WorkRecord
    <3>3. print[s][i] = version /\ (count[s] > 0 => print[s][0] = version)
      BY <1>4, <2>1 DEF Identity, WorkCurrent
    <3>4. OneList' /\ AskedCurrent'
      BY <1>1, <1>4, <3>1, <3>2 DEF Made, first, Identity, OneList, AskedCurrent
    <3>5. StageWhole'
      BY <1>1, <1>4, <1>5, <2>1, <3>1, <3>2, <3>3 DEF first, Identity, StageWhole, Anchor
    <3>6. ListKnown'
      BY <1>1, <3>1 DEF first, Identity, ListKnown
    <3>7. fn.busy \subseteq LiveSlots(s)
      BY <2>1 DEF IInv, BatchSound
    <3>8. WorkCurrent'
      BY <1>1, <1>4, <1>5, <2>1, <3>1, <3>2, <3>3, <3>7 DEF Made, first, Identity, WorkCurrent
    <3> QED
      BY <3>4, <3>5, <3>6, <3>8 DEF Identity
  <2> QED
    BY <2>2, <2>3
<1>10. ASSUME NEW i \in Slots, NEW r \in Results, EndItem(i, r)
       PROVE  Identity'
  <2>1. /\ fn.at = "run" /\ i \in fn.busy /\ i \in LiveSlots(s) /\ item[s][i] = "running"
        /\ fn.busy \subseteq LiveSlots(s)
    BY <1>10 DEF EndItem, IInv, BatchSound
  <2>2. PICK new \in {"awaiting_approval", "passed", "failed", "running"} :
          /\ item' = [item EXCEPT ![s][i] = new]
          /\ new \in Made <=> r = "passed"
    BY <1>10, <2>1 DEF EndItem, ItemAfter, Stage, Made
  <2>3. /\ from' = [from EXCEPT ![s][i] = IF r = "passed" THEN read[s][i] ELSE @]
        /\ UNCHANGED <<exec, count, read, print>>
    BY <1>10 DEF EndItem, Stage
  <2>4. fn'.at = "run" /\ fn'.stage = s /\ fn'.busy = fn.busy \ {i}
    BY <1>0, <1>10 DEF EndItem, WorkRecord
  <2>5. /\ \A t \in Iter : LiveSlots(t)' = LiveSlots(t)
        /\ item'[s][i] = new /\ (r = "passed" => from'[s][i] = version) /\ (r # "passed" => from'[s][i] = from[s][i])
        /\ \A t \in Iter, j \in Slots : t # s \/ j # i => item'[t][j] = item[t][j] /\ from'[t][j] = from[t][j]
    BY <1>0, <2>1, <2>2, <2>3 DEF LiveSlots, Identity, WorkCurrent
  <2>6. /\ read[s][i] = version /\ \A j \in LiveSlots(s) : print[s][j] = version
        /\ count[s] > 0 => print[s][0] = version
    BY <1>4, <2>1 DEF Identity, WorkCurrent
  <2>7. OneList'
    BY <1>4, <2>1, <2>2, <2>3, <2>5, <2>6 DEF Identity, OneList
  <2>8. AskedCurrent'
    BY <1>1, <1>4, <1>5, <2>1, <2>3, <2>5, <2>6 DEF first, Identity, AskedCurrent
  <2>9. StageWhole'
    BY <1>1, <1>4, <1>5, <2>1, <2>3, <2>5, <2>6 DEF first, Identity, StageWhole, Anchor
  <2>10. ListKnown'
    BY <1>1, <2>3 DEF first, Identity, ListKnown
  <2>11. WorkCurrent'
    <3>1. count'[s] = size' /\ \A j \in LiveSlots(s)' : print'[s][j] = version'
      BY <1>1, <1>4, <2>1, <2>3, <2>5, <2>6 DEF first, Identity, WorkCurrent
    <3>2. \A j \in fn'.busy : read'[s][j] = version'
      BY <1>1, <2>1, <2>3, <2>4 DEF first, Identity, WorkCurrent
    <3> QED
      BY <1>1, <1>5, <2>1, <2>4, <3>1, <3>2 DEF first, Identity, WorkCurrent
  <2> QED
    BY <2>7, <2>8, <2>9, <2>10, <2>11 DEF Identity
<1>11. CASE EndBatch
  <2>1. \A t \in Iter : exec'[t] \in Made => exec[t] \in Made
    BY <1>0, <1>11 DEF EndBatch, Stage, Made
  <2>2. OneList' /\ AskedCurrent' /\ StageWhole' /\ ListKnown'
    BY <1>11, <2>1, IdentityFrame DEF EndBatch, first
  <2>3. fn'.at = "done" \/ (fn'.at \in {"batch", "finish"} /\ fn'.stage = s)
    BY <1>0, <1>3, <1>11 DEF EndBatch, Advance, WorkRecord
  <2>4. WorkCurrent'
    BY <1>1, <1>2, <1>5, <1>11, <2>3 DEF EndBatch, first, Identity, WorkCurrent, LiveSlots
  <2> QED
    BY <2>2, <2>4 DEF Identity
<1>12. CASE FinishStage
  <2>1. /\ fn.at = "finish" /\ fn'.at = "done" /\ Complete(s)
        /\ UNCHANGED <<count, item, read, print, from>>
        /\ \A t \in Iter \ {s} : exec'[t] = exec[t]
    BY <1>0, <1>3, <1>12 DEF FinishStage, Stage, IInv, BatchesDone
  <2>2. OneList' /\ AskedCurrent' /\ ListKnown'
    BY <1>1, <2>1 DEF first, Identity, OneList, AskedCurrent, ListKnown, LiveSlots
  <2>3. /\ count[s] = size /\ count[s] > 0 /\ print[s][0] = version /\ source = "passed"
        /\ \A i \in LiveSlots(s) : /\ item[s][i] = "passed" /\ print[s][i] = version
                                   /\ from[s][i] = version /\ read[s][i] \in {0, version}
    BY <1>4, <1>5, <2>1 DEF Complete, Made, Identity, WorkCurrent, OneList
  <2>4. StageWhole'
    BY <1>1, <2>1, <2>3 DEF first, Identity, StageWhole, Anchor, LiveSlots
  <2> QED
    BY <1>2, <2>1, <2>2, <2>4 DEF Identity
<1> QED
  BY <1>6, <1>7, <1>8, <1>9, <1>10, <1>11, <1>12 DEF Execute

(* What an operator does to a stage: an accepted stage is not made by it,   *)
(* accepted outputs stay as they are or go, but for the outdated ones of an *)
(* accepted stage that are kept, and an anchor goes only with its stage.    *)
RowsRedone(s) ==
  /\ exec'[s] \in Made => exec[s] \in Made
  /\ \A i \in LiveSlots(s) :
       /\ \/ (item'[s][i] \in Made => item'[s][i] = item[s][i]) /\ read'[s][i] = read[s][i]
          \/ exec[s] = "passed" /\ item'[s][i] = "passed" /\ read'[s][i] = 0
       /\ exec'[s] \in Made /\ Anchor(s, i) /\ item[s][i] = "passed" => item'[s][i] = "passed"

(* A source that loses or replaces its list takes the outputs that read it; *)
(* a stage that stays accepted has an item that did not read it.            *)
ListTaken ==
  /\ version' \in Nat /\ version' >= version
  /\ IF version' = version THEN size' = size /\ source' # "passed" ELSE size' > 0
  /\ source = "passed" =>
       \A s \in Iter :
         /\ \A i \in LiveSlots(s) : item'[s][i] \in Made => read[s][i] # version /\ read'[s][i] = read[s][i]
         /\ exec'[s] \in Made => \E i \in LiveSlots(s) : read[s][i] # version /\ (s \in BindsPrev => i = 0)

LEMMA RedoneIdentity ==
  ASSUME IInv, Identity, UNCHANGED <<count, print, from>>, \A s \in Iter : RowsRedone(s),
         (UNCHANGED first) \/ ListTaken, fn'.at = "none", orch'.at \notin {"plan", "collect"}
  PROVE  Identity'
<1>0. /\ version \in Nat /\ \A s \in Iter, i \in Slots : print[s][i] \in Nat
      /\ \A s \in Iter : 0 \in Slots /\ LiveSlots(s)' = LiveSlots(s) /\ LiveSlots(s) \subseteq Slots
      /\ \A s \in Iter : count'[s] = count[s] /\ print'[s] = print[s] /\ from'[s] = from[s]
  BY ItemsAssumption DEF IInv, Typed, TypeOK, Versions, Slots, LiveSlots
<1>1. OneList'
  <2> SUFFICES ASSUME NEW s \in Iter, NEW i \in LiveSlots(s), item'[s][i] \in Made
               PROVE  /\ from[s][i] = print[s][i] /\ read'[s][i] \in {0, print[s][i]}
                      /\ \A j \in LiveSlots(s) : item'[s][j] \in Made => print[s][j] = print[s][i]
    BY <1>0 DEF OneList
  <2>1. CASE exec[s] = "passed"
    <3>1. \A j \in LiveSlots(s) : from[s][j] = print[s][j] /\ print[s][j] = print[s][0] /\ read[s][j] \in {0, print[s][j]}
      BY <2>1 DEF Identity, StageWhole, Made
    <3> QED
      BY <3>1 DEF RowsRedone
  <2>2. CASE exec[s] # "passed"
    <3>1. \A j \in LiveSlots(s) : item'[s][j] \in Made => item[s][j] \in Made /\ read'[s][j] = read[s][j]
      BY <2>2 DEF RowsRedone
    <3> QED
      BY <3>1 DEF Identity, OneList
  <2> QED
    BY <2>1, <2>2
<1>2. AskedCurrent'
  <2> SUFFICES ASSUME NEW s \in Iter, NEW i \in LiveSlots(s), item'[s][i] = "awaiting_approval"
               PROVE  source' = "passed" /\ read'[s][i] = version' /\ print[s][i] = version'
    BY <1>0 DEF AskedCurrent
  <2>1. item[s][i] = "awaiting_approval" /\ read'[s][i] = read[s][i]
    BY DEF RowsRedone, Made
  <2>2. source = "passed" /\ read[s][i] = version /\ print[s][i] = version
    BY <2>1 DEF Identity, AskedCurrent
  <2> QED
    BY <2>1, <2>2 DEF ListTaken, Made, first
<1>3. ListKnown'
  <2>1. UNCHANGED first => ListKnown'
    BY DEF first, Identity, ListKnown
  <2>2. ListTaken => ListKnown'
    BY <1>0 DEF ListTaken, Identity, ListKnown
  <2> QED
    BY <2>1, <2>2
<1>4. StageWhole'
  <2> SUFFICES ASSUME NEW s \in Iter, exec'[s] \in Made
               PROVE  /\ count[s] > 0
                      /\ \A i \in LiveSlots(s) :
                           /\ from[s][i] = print[s][0] /\ print[s][i] = print[s][0]
                           /\ read'[s][i] \in {0, print[s][0]}
                           /\ Anchor(s, i)' => item'[s][i] = "passed"
                      /\ \/ print[s][0] = version' /\ source' = "passed"
                         \/ \E i \in LiveSlots(s) : Anchor(s, i)'
                      /\ print[s][0] = version' => count[s] = size'
    BY <1>0 DEF StageWhole, Anchor
  <2>1. /\ count[s] > 0
        /\ \A i \in LiveSlots(s) :
             /\ from[s][i] = print[s][0] /\ print[s][i] = print[s][0]
             /\ read[s][i] \in {0, print[s][0]}
             /\ Anchor(s, i) => item[s][i] = "passed"
        /\ \/ print[s][0] = version /\ source = "passed"
           \/ \E i \in LiveSlots(s) : Anchor(s, i)
        /\ print[s][0] = version => count[s] = size
    BY DEF RowsRedone, Identity, StageWhole
  <2>2. \A i \in LiveSlots(s) : read'[s][i] \in {0, print[s][0]} /\ (read[s][i] = 0 => read'[s][i] = 0)
    BY <2>1 DEF RowsRedone
  <2>3. \A i \in LiveSlots(s) : Anchor(s, i)' => item'[s][i] = "passed"
    BY <2>1 DEF RowsRedone, Anchor
  <2>4. \A i \in LiveSlots(s) : Anchor(s, i) => Anchor(s, i)'
    BY <2>2 DEF Anchor
  <2>5. CASE UNCHANGED first
    BY <2>1, <2>2, <2>3, <2>4, <2>5 DEF first
  <2>6. CASE ListTaken
    <3>1. print[s][0] <= version /\ print[s][0] \in Nat
      BY <1>0 DEF Identity, ListKnown
    <3>2. print[s][0] = version' => version' = version /\ size' = size
      BY <1>0, <2>6, <3>1 DEF ListTaken
    <3>3. print[s][0] = version /\ source = "passed" => \E i \in LiveSlots(s) : Anchor(s, i)
      BY <2>1, <2>6 DEF ListTaken, Anchor
    <3> QED
      BY <2>1, <2>2, <2>3, <2>4, <3>2, <3>3
  <2> QED
    BY <2>5, <2>6
<1>5. WorkCurrent'
  BY DEF WorkCurrent
<1> QED
  BY <1>1, <1>2, <1>3, <1>4, <1>5 DEF Identity

(* What a closure leaves of a stage it does not take as a whole. *)
LEMMA ClosureLeaves ==
  ASSUME Typed, NEW seed, \A t \in Iter : seed[t] \subseteq LiveSlots(t), NEW s \in Iter,
         \A i \in seed[s] : ~(read[s][i] = 0 /\ item[s][i] = "passed")
  PROVE  /\ \A i \in LiveSlots(s) : Anchor(s, i) /\ item[s][i] = "passed" => i \notin Closure(seed)[s]
         /\ ~(Closure(seed)[s] # {} /\ Cardinality(Closure(seed)[s]) >= count[s]) /\ count[s] > 0 =>
              \E i \in LiveSlots(s) : i \notin Closure(seed)[s] /\ (s \in BindsPrev => i = 0)
<1>1. PICK hit \in SUBSET LiveSlots(s) :
        /\ Closure(seed)[s] = Chain(s, hit)
        /\ \A i \in hit : ~(read[s][i] = 0 /\ item[s][i] = "passed")
  <2>1. CASE s = "items"
    BY <2>1 DEF Closure
  <2>2. CASE s = "clips"
    <3> DEFINE readers == ReaderClips(Chain("items", seed["items"]))
    <3>1. Closure(seed)[s] = Chain(s, seed[s] \cup readers)
      BY <2>2 DEF Closure, Iter
    <3>2. readers \subseteq LiveSlots(s) /\ \A i \in readers : read[s][i] # 0
      BY <2>2 DEF ReaderClips
    <3> HIDE DEF readers
    <3> QED
      BY <3>1, <3>2
  <2> QED
    BY <2>1, <2>2 DEF Iter
<1>2. /\ LiveSlots(s) \subseteq Nat /\ (count[s] > 0 => 0 \in LiveSlots(s))
      /\ count[s] \in Nat
  BY ItemsAssumption DEF Typed, TypeOK, LiveSlots, Slots
<1>3. IsFiniteSet(LiveSlots(s)) /\ Cardinality(LiveSlots(s)) = count[s]
  BY IntervalOfSlots
<1>4. CASE s \in BindsPrev
  <2>1. Closure(seed)[s] = {i \in LiveSlots(s) : \E j \in hit : j <= i}
    BY <1>1, <1>4 DEF Chain
  <2>2. 0 \in Closure(seed)[s] => 0 \in hit /\ Closure(seed)[s] = LiveSlots(s)
    BY <1>2, <2>1
  <2> QED
    BY <1>1, <1>2, <1>3, <1>4, <2>2 DEF Anchor
<1>5. CASE s \notin BindsPrev
  <2>1. Closure(seed)[s] = hit
    BY <1>1, <1>5 DEF Chain
  <2>2. hit = LiveSlots(s) /\ count[s] > 0 => hit # {} /\ Cardinality(hit) >= count[s]
    BY <1>2, <1>3
  <2> QED
    BY <1>1, <1>5, <2>1, <2>2 DEF Anchor
<1> QED
  BY <1>4, <1>5

LEMMA StaledRedone ==
  ASSUME IInv, Identity, NEW seed, \A t \in Iter : seed[t] \subseteq LiveSlots(t), NEW s \in Iter,
         NEW whole, NEW all, all = AllOf(Closure(seed), whole),
         exec'[s] \in {"pending", StaleStages(all)[s]}, read' = read,
         exec'[s] \in Made => \A i \in seed[s] : ~(read[s][i] = 0 /\ item[s][i] = "passed"),
         \A i \in LiveSlots(s) :
           \/ item'[s][i] = StaleItems(Closure(seed), all)[s][i]
           \/ exec'[s] = "pending" /\ item'[s][i] = "pending"
  PROVE  /\ RowsRedone(s)
         /\ \A i \in LiveSlots(s) : i \in seed[s] => item'[s][i] \notin Made
         /\ exec'[s] \in Made => \E i \in LiveSlots(s) : i \notin seed[s] /\ (s \in BindsPrev => i = 0)
<1>0. /\ Typed /\ item \in [Iter -> [Slots -> ItemState]] /\ LiveSlots(s) \subseteq Slots
      /\ LiveSlots(s) \subseteq Nat
  BY ItemsAssumption DEF IInv, Typed, TypeOK, LiveSlots, Slots
<1>1. \A i \in LiveSlots(s) :
        /\ StaleItems(Closure(seed), all)[s][i] \in {item[s][i], "stale"}
        /\ i \in Closure(seed)[s] => StaleItems(Closure(seed), all)[s][i] \in {"none", "stale"}
  BY <1>0, StaleItemsAre
<1>2. seed[s] \subseteq Closure(seed)[s]
  <2>1. \A hit : hit \subseteq LiveSlots(s) => hit \subseteq Chain(s, hit)
    BY <1>0 DEF Chain
  <2>2. ReaderClips(Chain("items", seed["items"])) \subseteq LiveSlots("clips")
    BY DEF ReaderClips
  <2>3. CASE s = "items"
    BY <2>1, <2>3 DEF Closure
  <2>4. CASE s = "clips"
    <3>1. Closure(seed)[s] = Chain(s, seed[s] \cup ReaderClips(Chain("items", seed["items"])))
      BY <2>4 DEF Closure, Iter
    <3> QED
      BY <2>1, <2>2, <2>4, <3>1
  <2> QED
    BY <2>3, <2>4 DEF Iter
<1>3. ASSUME exec'[s] \in Made
      PROVE  /\ exec[s] \in Made /\ s \notin all
             /\ \A i \in LiveSlots(s) : Anchor(s, i) /\ item[s][i] = "passed" => item'[s][i] = "passed"
             /\ \E i \in LiveSlots(s) : i \notin seed[s] /\ (s \in BindsPrev => i = 0)
  <2>1. exec[s] \in Made /\ s \notin all /\ exec'[s] # "pending"
    BY <1>3 DEF StaleStages, Made
  <2>2. count[s] > 0
    BY <2>1 DEF Identity, StageWhole
  <2>3. ~(Closure(seed)[s] # {} /\ Cardinality(Closure(seed)[s]) >= count[s])
    BY <2>1 DEF AllOf
  <2>4. /\ \A i \in LiveSlots(s) : Anchor(s, i) /\ item[s][i] = "passed" => i \notin Closure(seed)[s]
        /\ \E i \in LiveSlots(s) : i \notin Closure(seed)[s] /\ (s \in BindsPrev => i = 0)
    BY <1>0, <1>3, <2>2, <2>3, ClosureLeaves
  <2>5. \A i \in LiveSlots(s) : i \notin Closure(seed)[s] => item'[s][i] = item[s][i]
    BY <1>0, <2>1 DEF StaleItems
  <2> QED
    BY <1>2, <2>1, <2>4, <2>5
<1>4. \A i \in LiveSlots(s) : (item'[s][i] \in Made => item'[s][i] = item[s][i]) /\ read'[s][i] = read[s][i]
  BY <1>1 DEF Made
<1>5. \A i \in LiveSlots(s) : i \in seed[s] => item'[s][i] \notin Made
  BY <1>1, <1>2 DEF Made
<1> QED
  BY <1>3, <1>4, <1>5 DEF RowsRedone

LEMMA PlannedIdentity ==
  ASSUME IInv, Identity, Planned
  PROVE  Identity'
<1>0. /\ Typed /\ fn'.at = "none" /\ orch'.at \notin {"plan", "collect"}
      /\ exec \in [Iter -> ExecState] /\ item \in [Iter -> [Slots -> ItemState]]
      /\ read \in [Iter -> [Slots -> Versions]] /\ version \in Nat
      /\ \A s \in Iter : LiveSlots(s) \subseteq Slots /\ LiveSlots(s) \subseteq Nat
  <2>1. fn'.at = "none" /\ orch'.at \notin {"plan", "collect"}
    BY PlannedQuiet DEF IInv, Quiet
  <2> QED
    BY <2>1, ItemsAssumption DEF IInv, Typed, TypeOK, LiveSlots, Slots, Versions
<1>1. \A s \in Iter : \A hit : hit \subseteq LiveSlots(s) => \A t \in Iter : Seed(s, hit)[t] \subseteq LiveSlots(t)
  BY DEF Seed
(* An operation that stales the closure of rows none of which was kept. *)
<1>2. ASSUME NEW seed, \A s \in Iter : seed[s] \subseteq LiveSlots(s), NEW whole,
             Apply(Closure(seed), whole), read' = read,
             \A s \in Iter : s \in whole \/ \A i \in seed[s] : ~(read[s][i] = 0 /\ item[s][i] = "passed")
      PROVE  \A s \in Iter :
               /\ RowsRedone(s)
               /\ \A i \in LiveSlots(s) : i \in seed[s] => item'[s][i] \notin Made
               /\ exec'[s] \in Made => \E i \in LiveSlots(s) : i \notin seed[s] /\ (s \in BindsPrev => i = 0)
  <2> TAKE s \in Iter
  <2>1. PICK all : all = AllOf(Closure(seed), whole)
    OBVIOUS
  <2>2. item' = StaleItems(Closure(seed), all) /\ exec' = StaleStages(all)
    BY <1>2, <2>1 DEF Apply
  <2>3. exec'[s] \in Made => \A i \in seed[s] : ~(read[s][i] = 0 /\ item[s][i] = "passed")
    BY <1>2, <2>1, <2>2 DEF StaleStages, AllOf, Made
  <2> QED
    BY <1>2, <2>1, <2>2, <2>3, StaledRedone
<1>3. CASE RetrySource \/ EditSource
  <2>1. \A s \in Iter : ReadersOfSource[s] = {i \in LiveSlots(s) : source = "passed" /\ read[s][i] = version}
    BY DEF ReadersOfSource
  <2>2. \A s \in Iter : ReadersOfSource[s] \subseteq LiveSlots(s) /\ \A i \in ReadersOfSource[s] : read[s][i] # 0
    BY <2>1 DEF Identity, ListKnown
  <2>3. Apply(Closure(ReadersOfSource), {}) /\ UNCHANGED <<count, read, print, from>>
    BY <1>3 DEF RetrySource, EditSource
  <2>4. \A s \in Iter :
          /\ RowsRedone(s)
          /\ \A i \in LiveSlots(s) : i \in ReadersOfSource[s] => item'[s][i] \notin Made
          /\ exec'[s] \in Made => \E i \in LiveSlots(s) : i \notin ReadersOfSource[s] /\ (s \in BindsPrev => i = 0)
    BY <1>2, <2>2, <2>3
  <2>5. /\ version' \in Nat /\ version' >= version
        /\ IF version' = version THEN size' = size /\ source' # "passed" ELSE size' > 0
    <3>1. CASE RetrySource
      BY <1>0, <3>1 DEF RetrySource
    <3>2. CASE EditSource
      <4>1. version' = version + 1 /\ size' > 0
        BY <3>2, ItemsAssumption DEF EditSource
      <4> QED
        BY <1>0, <4>1
    <3> QED
      BY <1>3, <3>1, <3>2
  <2>6. ListTaken
    BY <2>1, <2>3, <2>4, <2>5 DEF ListTaken
  <2> QED
    BY <1>0, <2>3, <2>4, <2>6, RedoneIdentity
<1>4. ASSUME NEW s \in Iter, RetryFailed(s)
      PROVE  Identity'
  <2>1. PICK failed \in SUBSET LiveSlots(s) :
          /\ Apply(Closure(Seed(s, failed)), {})
          /\ \A i \in failed : item[s][i] = "failed"
    BY <1>4 DEF RetryFailed
  <2>2. UNCHANGED <<first, count, read, print, from>>
    BY <1>4 DEF RetryFailed
  <2>3. \A t \in Iter : \A i \in Seed(s, failed)[t] : item[t][i] = "failed"
    BY <2>1 DEF Seed
  <2>4. \A t \in Iter : RowsRedone(t)
    BY <1>1, <1>2, <2>1, <2>2, <2>3
  <2> QED
    BY <1>0, <2>2, <2>4, RedoneIdentity
<1>5. ASSUME NEW i \in Slots, RejectItem(i)
      PROVE  Identity'
  <2>1. /\ Apply(Closure(Seed("items", {i})), {}) /\ item["items"][i] = "awaiting_approval"
        /\ UNCHANGED <<first, count, read, print, from>>
    BY <1>5 DEF RejectItem
  <2>2. i < count["items"] \/ i >= count["items"]
    BY ItemsAssumption DEF Slots, IInv, Typed, TypeOK, Iter
  <2>3. {i} \subseteq LiveSlots("items")
    BY <2>1, <2>2 DEF IInv, RowsKnown, LiveSlots, Iter
  <2>4. \A t \in Iter : \A j \in Seed("items", {i})[t] : item[t][j] = "awaiting_approval"
    BY <2>1 DEF Seed
  <2>5. \A t \in Iter : Seed("items", {i})[t] \subseteq LiveSlots(t)
    BY <1>1, <2>3 DEF Iter
  <2>6. \A t \in Iter : RowsRedone(t)
    BY <1>2, <2>1, <2>4, <2>5
  <2> QED
    BY <1>0, <2>1, <2>6, RedoneIdentity
<1>6. CASE RejectWhole
  <2>1. /\ Apply(Closure(Seed("items", LiveSlots("items"))), {"items"})
        /\ UNCHANGED <<first, count, read, print, from>>
    BY <1>6 DEF RejectWhole
  <2>2. \A t \in Iter : Seed("items", LiveSlots("items"))[t] \subseteq LiveSlots(t)
    BY <1>1 DEF Iter
  <2>3. \A t \in Iter : t \in {"items"} \/ Seed("items", LiveSlots("items"))[t] = {}
    BY DEF Seed
  <2>4. \A t \in Iter : RowsRedone(t)
    BY <1>2, <2>1, <2>2, <2>3
  <2> QED
    BY <1>0, <2>1, <2>4, RedoneIdentity
<1>7. ASSUME NEW s \in Iter, NEW i \in Slots, RerunItem(s, i)
      PROVE  Identity'
  <2>0. PICK seed : seed = Seed(s, {i})
    OBVIOUS
  <2>1. PICK all : all = AllOf(Closure(seed), {})
    OBVIOUS
  <2>2. PICK it : it = StaleItems(Closure(seed), all)
    OBVIOUS
  <2>3. /\ item' = [it EXCEPT ![s] = Freed(it[s])] /\ i \in LiveSlots(s)
        /\ exec' = [StaleStages(all) EXCEPT ![s] = "pending"]
        /\ UNCHANGED <<first, count, read, print, from>>
    BY <1>7, <2>0, <2>1, <2>2 DEF RerunItem
  <2>4. it \in [Iter -> [Slots -> ItemState]]
    BY <1>0, <2>2, StaleItemsAre
  <2>5. \A t \in Iter : \A j \in Slots : item'[t][j] = it[t][j] \/ (t = s /\ item'[t][j] = "pending")
    BY <2>3, <2>4 DEF Freed
  <2>6. /\ exec'[s] = "pending"
        /\ \A t \in Iter : exec'[t] \in {"pending", StaleStages(all)[t]}
    BY <2>3 DEF StaleStages
  <2>7. \A t \in Iter : seed[t] \subseteq LiveSlots(t) /\ (t # s => seed[t] = {})
    BY <1>1, <2>0, <2>3 DEF Seed
  <2>8. \A t \in Iter : RowsRedone(t)
    <3> TAKE t \in Iter
    <3>1. exec'[t] \in Made => \A j \in seed[t] : ~(read[t][j] = 0 /\ item[t][j] = "passed")
      BY <2>6, <2>7 DEF Made
    <3>2. \A j \in LiveSlots(t) : \/ item'[t][j] = StaleItems(Closure(seed), all)[t][j]
                                  \/ exec'[t] = "pending" /\ item'[t][j] = "pending"
      BY <1>0, <2>2, <2>5, <2>6
    <3> QED
      <4>1. read' = read /\ exec'[t] \in {"pending", StaleStages(all)[t]}
        BY <2>3, <2>6
      <4>2. \A u \in Iter : seed[u] \subseteq LiveSlots(u)
        BY <2>7
      <4> QED
        BY <2>1, <3>1, <3>2, <4>1, <4>2, StaledRedone
  <2> QED
    BY <1>0, <2>3, <2>8, RedoneIdentity
<1>8. ASSUME NEW s \in Iter, RerunStage(s)
      PROVE  Identity'
  <2>1. UNCHANGED <<first, count, read, print, from>>
    BY <1>8 DEF RerunStage
  <2>2. \A t \in Iter :
          \/ exec'[t] \in {"pending", "stale"} /\ item'[t] = Stale(item[t])
          \/ exec'[t] = exec[t] /\ item'[t] = item[t]
    BY <1>8 DEF RerunStage
  <2>3. \A t \in Iter : RowsRedone(t)
    BY <1>0, <2>1, <2>2 DEF RowsRedone, Stale, Made
  <2> QED
    BY <1>0, <2>1, <2>3, RedoneIdentity
<1>9. CASE RerunSource
  <2>1. /\ UNCHANGED <<version, size, count, read, print, from>> /\ source' = "pending"
        /\ \A t \in Iter : exec'[t] = "pending" /\ \A i \in Slots : item'[t][i] \in {"none", "stale"}
    BY <1>9 DEF RerunSource, Stale
  <2>2. \A t \in Iter : RowsRedone(t)
    BY <1>0, <2>1 DEF RowsRedone, Made
  <2>3. ListTaken
    BY <1>0, <2>1 DEF ListTaken, Made
  <2> QED
    BY <1>0, <2>1, <2>2, <2>3, RedoneIdentity
<1>10. CASE Continue \/ Keep
  <2>1. PICK execute, it :
          /\ SetPending(execute, it) /\ it \in [Iter -> [Slots -> ItemState]]
          /\ \A s \in Iter, i \in Slots :
               \/ it[s][i] = item[s][i] /\ read'[s][i] = read[s][i]
               \/ exec[s] = "passed" /\ it[s][i] = "passed" /\ read'[s][i] = 0
          /\ source = "passed" => "source" \notin execute
          /\ UNCHANGED <<version, size, count, print, from>>
    <3>1. \A stale : stale \subseteq Iter /\ source = "passed" => "source" \notin ToRun(stale)
      BY DEF ToRun, Iter
    <3>2. CASE Continue
      <4>1. PICK stale \in SUBSET Iter : SetPending(ToRun(stale), item)
        BY <3>2 DEF Continue
      <4>2. UNCHANGED <<version, size, count, read, print, from>>
        BY <3>2 DEF Continue
      <4> QED
        BY <1>0, <3>1, <4>1, <4>2
    <3>3. CASE Keep
      <4>1. PICK it : it = [s \in Iter |-> [i \in Slots |-> IF i \in Outdated(s) THEN "passed" ELSE item[s][i]]]
        OBVIOUS
      <4>2. /\ SetPending(ToRun({}), it) /\ UNCHANGED <<version, size, count, print, from>>
            /\ read' = [s \in Iter |-> [i \in Slots |-> IF i \in Outdated(s) THEN 0 ELSE read[s][i]]]
        BY <3>3, <4>1 DEF Keep
      <4>3. it \in [Iter -> [Slots -> ItemState]]
        BY <1>0, <4>1 DEF ItemState
      <4>4. \A s \in Iter : exec[s] # "passed" => Outdated(s) = {}
        BY DEF Outdated
      <4>5. \A s \in Iter, i \in Slots :
               \/ it[s][i] = item[s][i] /\ read'[s][i] = read[s][i]
               \/ exec[s] = "passed" /\ it[s][i] = "passed" /\ read'[s][i] = 0
        BY <4>1, <4>2, <4>4
      <4> QED
        BY <3>1, <4>2, <4>3, <4>5
    <3> QED
      BY <1>10, <3>2, <3>3
  <2>2. \A s \in Iter : \/ exec'[s] = "pending" /\ item'[s] = Freed(it[s])
                        \/ exec'[s] = exec[s] /\ item'[s] = it[s]
    BY <2>1 DEF SetPending
  <2>3. \A s \in Iter, i \in Slots : item'[s][i] = it[s][i] \/ (exec'[s] = "pending" /\ it[s][i] = "running" /\ item'[s][i] = "pending")
    <3> TAKE s \in Iter, i \in Slots
    <3>1. it[s] \in [Slots -> ItemState]
      BY <2>1
    <3> QED
      BY <2>2, <3>1 DEF Freed
  <2>4. \A s \in Iter : RowsRedone(s)
    <3> TAKE s \in Iter
    <3>1. exec'[s] \in Made => exec[s] \in Made
      BY <2>2 DEF Made
    <3>2. \A i \in LiveSlots(s) :
            \/ (item'[s][i] \in Made => item'[s][i] = item[s][i]) /\ read'[s][i] = read[s][i]
            \/ exec[s] = "passed" /\ item'[s][i] = "passed" /\ read'[s][i] = 0
      BY <1>0, <2>1, <2>3 DEF Made
    <3>3. \A i \in LiveSlots(s) : item[s][i] = "passed" => item'[s][i] = "passed"
      BY <1>0, <2>1, <2>3
    <3> QED
      BY <3>1, <3>2, <3>3 DEF RowsRedone
  <2>5. UNCHANGED first \/ ListTaken
    <3>1. source' = source \/ (source # "passed" /\ source' = "pending")
      BY <2>1 DEF SetPending
    <3> QED
      BY <1>0, <2>1, <3>1 DEF first, ListTaken
  <2> QED
    BY <1>0, <2>1, <2>4, <2>5, RedoneIdentity
<1> QED
  BY <1>3, <1>4, <1>5, <1>6, <1>7, <1>8, <1>9, <1>10 DEF Planned

LEMMA IdentityNext == IInv /\ Identity /\ [Next]_vars => Identity'
<1> SUFFICES ASSUME IInv, Identity, [Next]_vars PROVE Identity'
  OBVIOUS
<1>0. exec \in [Iter -> ExecState] /\ item \in [Iter -> [Slots -> ItemState]] /\ \A s \in Iter : LiveSlots(s) \subseteq Slots
  BY DEF IInv, Typed, TypeOK, LiveSlots
<1>1. CASE Pause
  BY <1>1, IdentityFrame DEF Pause, first, rows, Identity, WorkCurrent, LiveSlots
<1>2. CASE Stop
  <2>1. \A s \in Iter : exec'[s] \in Made => exec'[s] = exec[s]
    BY <1>2 DEF Stop, Made
  <2>2. \A s \in Iter, i \in Slots : item'[s][i] = item[s][i] \/ (item[s][i] = "running" /\ item'[s][i] = "pending")
    BY <1>0, <1>2 DEF Stop, Freed
  <2>3. \A s \in Iter : RowsRedone(s)
    BY <1>0, <1>2, <2>1, <2>2 DEF Stop, RowsRedone, Made
  <2>4. fn'.at = "none" /\ orch'.at = "none" /\ UNCHANGED <<first, count, print, from>>
    BY <1>2, NoRecords DEF Stop
  <2> QED
    BY <2>3, <2>4, RedoneIdentity
<1>3. ASSUME NEW i \in Slots, ApproveItem(i)
      PROVE  Identity'
  <2>1. /\ item' = [item EXCEPT !["items"][i] = "passed"] /\ item["items"][i] = "awaiting_approval"
        /\ UNCHANGED <<exec, first, count, read, print, from, fn>>
    BY <1>3 DEF ApproveItem
  <2>2. \A s \in Iter, j \in Slots :
          /\ item'[s][j] \in Made => item[s][j] \in Made
          /\ item'[s][j] = "awaiting_approval" => item[s][j] = "awaiting_approval"
          /\ item[s][j] = "passed" => item'[s][j] = "passed"
    BY <1>0, <2>1 DEF Made
  <2>3. OneList' /\ AskedCurrent' /\ StageWhole' /\ ListKnown'
    BY <1>0, <2>1, <2>2 DEF first, Identity, OneList, AskedCurrent, StageWhole, ListKnown, LiveSlots, Anchor
  <2>4. orch' = orch \/ orch'.at = "load"
    BY <1>3, NoRecords, PlanAt DEF ApproveItem, Answered, Wake
  <2>5. WorkCurrent'
    <3>1. fn.at # "none" => fn.stage \in Iter
      BY DEF IInv, Typed, WorkTyped, WorkRecord
    <3> QED
      BY <1>0, <2>1, <2>2, <2>4, <3>1 DEF first, Identity, WorkCurrent, LiveSlots
  <2> QED
    BY <2>3, <2>5 DEF Identity
<1>4. CASE ApproveWhole
  <2>1. /\ exec' = [exec EXCEPT !["items"] = "passed"] /\ exec["items"] = "awaiting_approval"
        /\ UNCHANGED <<item, first, count, read, print, from, fn>>
    BY <1>4 DEF ApproveWhole, ApproveAccepted, ItemReview
  <2>2. \A s \in Iter : exec'[s] \in Made => exec[s] \in Made
    BY <1>0, <2>1 DEF Made
  <2>3. OneList' /\ AskedCurrent' /\ StageWhole' /\ ListKnown'
    BY <2>1, <2>2, IdentityFrame DEF first
  <2>4. orch' = orch \/ orch'.at = "load"
    BY <1>4, NoRecords, PlanAt DEF ApproveWhole, Answered, Wake
  <2>5. WorkCurrent'
    <3>1. fn.stage \in Iter
      BY DEF IInv, Typed, WorkTyped, WorkRecord
    <3> QED
      BY <2>1, <2>2, <2>4, <3>1 DEF first, Identity, WorkCurrent, LiveSlots
  <2> QED
    BY <2>3, <2>5 DEF Identity
<1>5. CASE UNCHANGED vars
  BY <1>5, IdentityFrame DEF vars, first, rows, Identity, WorkCurrent, LiveSlots
<1> QED
  BY <1>1, <1>2, <1>3, <1>4, <1>5, NextCases, OrchestrateIdentity, ExecuteIdentity, PlannedIdentity

(* Accepted outputs of an iterating stage are never a mixture of two lists, *)
(* though lists are replaced, outdated outputs kept as they are, items      *)
(* re-run one by one and executions stopped anywhere: resolveIterateCount   *)
(* looks at what is accepted, and what it does not look at is of its list.  *)
THEOREM OneIdentityAlways == Spec => []OneIdentity
<1>1. Init => Identity
  <2> SUFFICES ASSUME Init PROVE Identity
    OBVIOUS
  <2>1. orch.at = "load" /\ fn.at = "none"
    BY NoRecords, PlanAt DEF Init
  <2> QED
    BY <2>1, ItemsAssumption
    DEF Init, Identity, OneList, AskedCurrent, StageWhole, ListKnown, WorkCurrent, LiveSlots, Made, Slots
<1>2. Identity => OneIdentity
  <2> SUFFICES ASSUME Identity, NEW s \in Iter, NEW i \in LiveSlots(s), NEW j \in LiveSlots(s),
                      item[s][i] = "passed", item[s][j] = "passed"
               PROVE  from[s][i] = from[s][j]
    BY DEF OneIdentity
  <2> QED
    BY DEF Identity, OneList, Made
<1> QED
  BY Inductive, IdentityNext, <1>1, <1>2, PTL DEF Spec

=============================================================================
