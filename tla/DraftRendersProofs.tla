------------------------- MODULE DraftRendersProofs -------------------------
(* Theorems about DraftRenders: any number of renders, requests, cancels and *)
(* restarts, in any order.                                                   *)
EXTENDS DraftRenders, TLAPS

-----------------------------------------------------------------------------
(* Type correctness, with the requests that work on a render. *)

Spawning  == {"claim", "inputs", "spec", "spawn", "handle", "save"}
Finishing == {"poll", "answer", "collect", "persist", "done", "failed", "tidy"}
Placed    == Spawning \cup {"settle"} \cup Finishing
Works(r)  == req[r].pc \in Placed \cup {"clean", "mark"}

Typed == TypeOK /\ \A r \in Req : Works(r) => req[r].job \in Job

LEMMA NoJobIsNone == NoJob \notin Job
BY RendersAssumption DEF NoJob

LEMMA IdleTyped == Idle \in Request /\ \A j \in Job : [Idle EXCEPT !.job = j] \in Request
BY DEF Idle, Request, Kinds, Place, Status

LEMMA TypedInit == Init => Typed
<1> SUFFICES ASSUME Init PROVE Typed
  OBVIOUS
<1>1. JobsTypeOK
  BY DEF Init, JobsInit, JobsTypeOK, Status, Supervisor, Command
<1>2. budget \in Budget /\ restarts \in 0..budget.restarts
  BY RendersAssumption DEF Init, Budget
<1> QED
  BY <1>1, <1>2, IdleTyped
     DEF Init, Typed, TypeOK, Works, Placed, Spawning, Finishing, Idle, RowState

(* What the service's methods and the processes do keeps the jobs' types. *)
LEMMA JobsTyped ==
  ASSUME JobsTypeOK, NEW j \in Job,
         \/ ClaimSpawn(j) \/ CopyInputs(j) \/ WriteSpec(j) \/ StartSupervisor(j)
         \/ WriteHandle(j) \/ Terminate(j) \/ Remove(j) \/ Reap(j)
         \/ Supervise(j) \/ CommandEnds(j) \/ ProcessesDie \/ UNCHANGED jobs
  PROVE  JobsTypeOK'
<1>1. CASE ClaimSpawn(j) \/ CopyInputs(j) \/ WriteSpec(j) \/ WriteHandle(j)
  BY <1>1 DEF ClaimSpawn, CopyInputs, WriteSpec, WriteHandle, Put, JobsTypeOK, File
<1>2. CASE StartSupervisor(j) \/ Terminate(j)
  BY <1>2 DEF StartSupervisor, Becomes, Terminate, JobsTypeOK, Supervisor
<1>3. CASE Remove(j) \/ Reap(j)
  BY <1>3 DEF Remove, Reap, JobsTypeOK, Status
<1>4. CASE Supervise(j)
  <2>1. CASE SupervisorReports(j) \/ SupervisorWrites(j)
    BY <2>1 DEF SupervisorReports, SupervisorWrites, Becomes, JobsTypeOK, Supervisor, Status
  <2>2. CASE SupervisorRuns(j) \/ SupervisorSees(j)
    BY <2>2 DEF SupervisorRuns, SupervisorSees, Becomes, JobsTypeOK, Supervisor, Command
  <2>3. CASE SupervisorTimesOut(j) \/ SupervisorExits(j)
    BY <2>3 DEF SupervisorTimesOut, SupervisorExits, Becomes, JobsTypeOK, Supervisor, Command
  <2> QED
    BY <1>4, <2>1, <2>2, <2>3 DEF Supervise
<1>5. CASE CommandEnds(j)
  BY <1>5 DEF CommandEnds, Put, JobsTypeOK, File, Command
<1>6. CASE ProcessesDie
  BY <1>6 DEF ProcessesDie, JobsTypeOK, Supervisor, Command
<1>7. CASE UNCHANGED jobs
  BY <1>7 DEF jobs, JobsTypeOK
<1> QED
  BY <1>1, <1>2, <1>3, <1>4, <1>5, <1>6, <1>7

LEMMA NewTyped ==
  ASSUME NEW kind \in Kinds, NEW pc \in Place
  PROVE  /\ [Idle EXCEPT !.kind = kind, !.pc = pc] \in Request
         /\ [Idle EXCEPT !.pc = pc] \in Request
         /\ \A j \in Job : /\ [Idle EXCEPT !.kind = kind, !.job = j, !.pc = pc] \in Request
                           /\ [Idle EXCEPT !.job = j, !.pc = pc] \in Request
BY IdleTyped DEF Request

LEMMA RowsTyped == ASSUME Typed PROVE Rows \subseteq Copy
<1>1. ASSUME NEW j \in Job PROVE CopyOf(j) \in Copy
  BY <1>1 DEF Typed, TypeOK, CopyOf, Copy
<1> QED
  BY <1>1 DEF Rows

(* The row of one render is updated. *)
LEMMA UpdateTyped ==
  ASSUME Typed, NEW j \in Job, NEW s \in RowState, Update(j, s)
  PROVE  row' \in [Job -> RowState]
BY DEF Update, Typed, TypeOK

(* A step of one request changes its record alone. *)
LEMMA RequestTyped ==
  ASSUME Typed, NEW r \in Req, NEW q \in Request, req' = [req EXCEPT ![r] = q],
         q.pc \in Placed \cup {"clean", "mark"} => q.job \in Job
  PROVE  /\ req' \in [Req -> Request]
         /\ \A p \in Req : Works(p)' => req'[p].job \in Job
BY DEF Typed, TypeOK, Works

LEMMA RequestsSame ==
  ASSUME Typed, UNCHANGED req
  PROVE  req' \in [Req -> Request] /\ \A p \in Req : Works(p)' => req'[p].job \in Job
BY DEF Typed, TypeOK, Works

LEMMA ReqRecord ==
  ASSUME Typed, NEW r \in Req
  PROVE  /\ req[r] \in Request
         /\ req[r].pc \in Place /\ req[r].rows \subseteq Copy /\ req[r].todo \subseteq Job
         /\ req[r].video \in Nat /\ req[r].read \in Status
         /\ Works(r) => req[r].job \in Job
BY DEF Typed, TypeOK, Request

LEMMA GoTyped ==
  ASSUME Typed, NEW r \in Req, NEW pc \in Place, Go(r, pc),
         pc \in Placed \cup {"clean", "mark"} => Works(r)
  PROVE  req' \in [Req -> Request] /\ \A p \in Req : Works(p)' => req'[p].job \in Job
<1> DEFINE q == [req[r] EXCEPT !.pc = pc]
<1>1. q \in Request /\ q.pc = pc /\ q.job = req[r].job
  BY ReqRecord DEF Request
<1>2. req' = [req EXCEPT ![r] = q]
  BY DEF Go
<1> QED
  BY <1>1, <1>2, RequestTyped, ReqRecord

LEMMA EndsTyped ==
  ASSUME Typed, NEW r \in Req, Ends(r)
  PROVE  req' \in [Req -> Request] /\ \A p \in Req : Works(p)' => req'[p].job \in Job
<1>1. Idle \in Request /\ Idle.pc = "idle"
  BY IdleTyped DEF Idle
<1> QED
  BY <1>1, RequestTyped DEF Ends, Placed, Spawning, Finishing

(* What is left of TypeOK. *)
TableType == row \in [Job -> RowState] /\ handled \subseteq Job /\ video \in [Job -> Nat]
StoreType == blobs \subseteq Job \X Nat /\ made \in [Job -> Nat]
WorldType == restarts \in 0..budget.restarts /\ budget \in Budget
ReqType   == req \in [Req -> Request] /\ \A r \in Req : Works(r) => req[r].job \in Job

LEMMA TypedAfter ==
  JobsTypeOK' /\ TableType' /\ StoreType' /\ WorldType' /\ settling' \subseteq Job /\ ReqType'
    => Typed'
BY DEF Typed, TypeOK, TableType, StoreType, WorldType, ReqType

LEMMA Unchanged ==
  ASSUME Typed
  PROVE  /\ UNCHANGED jobs   => JobsTypeOK'
         /\ UNCHANGED table  => TableType'
         /\ UNCHANGED stored => StoreType'
         /\ UNCHANGED world  => WorldType'
         /\ UNCHANGED req    => ReqType'
<1>1. UNCHANGED jobs => JobsTypeOK'
  BY DEF Typed, TypeOK, jobs, JobsTypeOK
<1>2. UNCHANGED table => TableType'
  BY DEF Typed, TypeOK, table, TableType
<1>3. UNCHANGED stored => StoreType'
  BY DEF Typed, TypeOK, stored, StoreType
<1>4. UNCHANGED world => WorldType'
  BY DEF Typed, TypeOK, world, WorldType
<1>5. UNCHANGED req => ReqType'
  BY RequestsSame DEF ReqType
<1> QED
  BY <1>1, <1>2, <1>3, <1>4, <1>5

LEMMA TypedBegin ==
  ASSUME Typed, NEW r \in Req, NEW kind \in Kinds, Begin(r, kind)
  PROVE  Typed'
<1> DEFINE pc == CASE kind = "start" -> "discard" [] kind = "cancel" -> "scan" [] OTHER -> "look"
           q  == [Idle EXCEPT !.kind = kind, !.pc = pc]
<1>1. pc \in {"discard", "scan", "look"}
  OBVIOUS
<1>2. q \in Request /\ q.pc = pc
  BY <1>1, NewTyped DEF Place, Idle
<1>3. ReqType'
  BY <1>1, <1>2, RequestTyped DEF Begin, ReqType, Placed, Spawning, Finishing
<1>4. WorldType'
  BY DEF Begin, Typed, TypeOK, WorldType, Budget
<1>5. UNCHANGED <<jobs, table, stored, settling>>
  BY DEF Begin
<1> QED
  BY <1>3, <1>4, <1>5, Unchanged, TypedAfter DEF Typed, TypeOK

LEMMA TypedSelect ==
  ASSUME Typed, NEW r \in Req, Select(r)
  PROVE  Typed'
<1>1. PICK rows, todo, pc :
        /\ rows \subseteq Rows /\ todo = {c.id : c \in {d \in rows : d.state = "rendering"}}
        /\ pc \in {"stop", "look", "insert", "delete"}
        /\ req' = [req EXCEPT ![r].rows = rows, ![r].todo = todo, ![r].pc = pc]
  BY DEF Select, NextStop
<1> DEFINE q == [req[r] EXCEPT !.rows = rows, !.todo = todo, !.pc = pc]
<1>2. rows \subseteq Copy /\ todo \subseteq Job
  BY <1>1, RowsTyped DEF Copy
<1>0. req[r] \in Request /\ pc \in Place
  BY <1>1, ReqRecord DEF Place
<1>3. q \in Request /\ q.pc = pc
  BY <1>0, <1>2 DEF Request
<1>4. req' = [req EXCEPT ![r] = q]
  BY <1>1
<1>5. ReqType'
  BY <1>1, <1>3, <1>4, RequestTyped DEF ReqType, Placed, Spawning, Finishing
<1>6. UNCHANGED <<jobs, table, stored, settling, world>>
  BY DEF Select
<1> QED
  BY <1>5, <1>6, Unchanged, TypedAfter DEF Typed, TypeOK

LEMMA TypedStopJob ==
  ASSUME Typed, NEW r \in Req, StopJob(r)
  PROVE  Typed'
<1>1. PICK c \in req[r].rows :
        /\ IF c.handled THEN Terminate(c.id) ELSE UNCHANGED jobs
        /\ req' = [req EXCEPT ![r].job = c.id, ![r].pc = "clean"]
  BY DEF StopJob
<1>2. c.id \in Job
  BY <1>1, ReqRecord DEF Copy
<1> DEFINE q == [req[r] EXCEPT !.job = c.id, !.pc = "clean"]
<1>0. req[r] \in Request /\ "clean" \in Place
  BY ReqRecord DEF Place
<1>3. q \in Request /\ q.job = c.id
  BY <1>0, <1>2 DEF Request
<1>4. ReqType'
  BY <1>1, <1>2, <1>3, RequestTyped DEF ReqType
<1>5. JobsTypeOK'
  BY <1>1, <1>2, JobsTyped DEF Typed, TypeOK
<1>6. UNCHANGED <<table, stored, settling, world>>
  BY DEF StopJob
<1> QED
  BY <1>4, <1>5, <1>6, Unchanged, TypedAfter DEF Typed, TypeOK

LEMMA TypedCleanStopped ==
  ASSUME Typed, NEW r \in Req, CleanStopped(r)
  PROVE  Typed'
<1>1. req[r].job \in Job
  BY ReqRecord DEF CleanStopped, At, Works
<1>2. PICK todo \in SUBSET Job, pc \in {"mark", "stop", "delete"} :
        req' = [req EXCEPT ![r].todo = todo, ![r].pc = pc]
  BY ReqRecord DEF CleanStopped, NextStop
<1> DEFINE q == [req[r] EXCEPT !.todo = todo, !.pc = pc]
<1>0. req[r] \in Request /\ pc \in Place
  BY <1>2, ReqRecord DEF Place
<1>3. q \in Request /\ q.job = req[r].job
  BY <1>0, <1>2 DEF Request
<1>4. ReqType'
  BY <1>1, <1>2, <1>3, RequestTyped DEF ReqType
<1>5. JobsTypeOK'
  BY <1>1, JobsTyped DEF CleanStopped, Typed, TypeOK
<1>6. UNCHANGED <<table, stored, settling, world>>
  BY DEF CleanStopped
<1> QED
  BY <1>4, <1>5, <1>6, Unchanged, TypedAfter DEF Typed, TypeOK

LEMMA TypedMarkCancelled ==
  ASSUME Typed, NEW r \in Req, MarkCancelled(r)
  PROVE  Typed'
<1>1. req[r].job \in Job
  BY ReqRecord DEF MarkCancelled, At, Works
<1> DEFINE q == IF req[r].todo = {} THEN [Idle EXCEPT !.pc = "look"] ELSE [req[r] EXCEPT !.pc = "stop"]
<1>0. req[r] \in Request /\ "stop" \in Place /\ "look" \in Place
  BY ReqRecord DEF Place
<1>2. q \in Request /\ q.pc \in {"look", "stop"}
  <2>1. CASE req[r].todo = {}
    BY <2>1, <1>0, IdleTyped DEF Request
  <2>2. CASE req[r].todo # {}
    BY <2>2, <1>0 DEF Request
  <2> QED
    BY <2>1, <2>2
<1>3. ReqType'
  BY <1>2, RequestTyped DEF MarkCancelled, ReqType, Placed, Spawning, Finishing
<1>4. TableType'
  BY <1>1, UpdateTyped DEF MarkCancelled, TableType, Typed, TypeOK, RowState
<1>5. UNCHANGED <<jobs, stored, settling, world>>
  BY DEF MarkCancelled
<1> QED
  BY <1>3, <1>4, <1>5, Unchanged, TypedAfter DEF Typed, TypeOK

LEMMA TypedDeleteRows ==
  ASSUME Typed, NEW r \in Req, DeleteRows(r)
  PROVE  Typed'
<1>1. ReqType'
  BY GoTyped DEF DeleteRows, ReqType, Place, Placed, Spawning, Finishing
<1>2. TableType'
  BY DEF DeleteRows, TableType, Typed, TypeOK, RowState
<1>3. StoreType'
  BY DEF DeleteRows, StoreType, Typed, TypeOK
<1>4. UNCHANGED <<jobs, settling, world>>
  BY DEF DeleteRows
<1> QED
  BY <1>1, <1>2, <1>3, <1>4, Unchanged, TypedAfter DEF Typed, TypeOK

LEMMA TypedInsert ==
  ASSUME Typed, NEW r \in Req, Insert(r)
  PROVE  Typed'
<1>1. PICK j \in Fresh :
        /\ row' = [row EXCEPT ![j] = "rendering"]
        /\ req' = [req EXCEPT ![r] = [Idle EXCEPT !.kind = "start", !.job = j, !.pc = "claim"]]
  BY DEF Insert
<1>2. j \in Job
  BY DEF Fresh
<1> DEFINE q == [Idle EXCEPT !.kind = "start", !.job = j, !.pc = "claim"]
<1>3. q \in Request /\ q.job = j
  BY <1>2, NewTyped DEF Place, Kinds, Idle
<1>4. ReqType'
  BY <1>1, <1>2, <1>3, RequestTyped DEF ReqType
<1>5. TableType'
  BY <1>1, <1>2 DEF Insert, TableType, Typed, TypeOK, RowState
<1>6. UNCHANGED <<jobs, stored, settling, world>>
  BY DEF Insert
<1> QED
  BY <1>4, <1>5, <1>6, Unchanged, TypedAfter DEF Typed, TypeOK

LEMMA TypedSpawn ==
  ASSUME Typed, NEW r \in Req, Spawn(r) \/ SaveHandle(r)
  PROVE  Typed'
<1>1. ASSUME NEW from \in {"claim", "inputs", "spec", "spawn", "handle"},
             NEW to \in {"inputs", "spec", "spawn", "handle", "save"}, NEW j \in Job,
             NEW step \in BOOLEAN, SpawnStep(r, from, to, step),
             step => \/ ClaimSpawn(j) \/ CopyInputs(j) \/ WriteSpec(j) \/ StartSupervisor(j)
                     \/ WriteHandle(j)
      PROVE  Typed'
  <2>1. ReqType'
    BY <1>1, GoTyped DEF SpawnStep, ReqType, At, Works, Place, Placed, Spawning
  <2>2. JobsTypeOK'
    BY <1>1, JobsTyped DEF SpawnStep, Typed, TypeOK
  <2>3. UNCHANGED <<table, stored, settling, world>>
    BY <1>1 DEF SpawnStep
  <2> QED
    BY <2>1, <2>2, <2>3, Unchanged, TypedAfter DEF Typed, TypeOK
<1>2. ASSUME SpawnFails(r), Works(r) PROVE Typed'
  <2>1. ReqType'
    BY <1>2, EndsTyped DEF SpawnFails, ReqType
  <2>2. TableType'
    BY <1>2, UpdateTyped, ReqRecord DEF SpawnFails, TableType, Typed, TypeOK, RowState
  <2>3. UNCHANGED <<jobs, stored, settling, world>>
    BY <1>2 DEF SpawnFails
  <2> QED
    BY <2>1, <2>2, <2>3, Unchanged, TypedAfter DEF Typed, TypeOK
<1>3. CASE SaveHandle(r)
  <2>1. req[r].job \in Job
    BY <1>3, ReqRecord DEF SaveHandle, At, Works, Placed, Spawning
  <2>2. ReqType'
    BY <1>3, EndsTyped DEF SaveHandle, ReqType
  <2>3. TableType'
    BY <1>3, <2>1 DEF SaveHandle, TableType, Typed, TypeOK
  <2>4. UNCHANGED <<jobs, stored, settling, world>>
    BY <1>3 DEF SaveHandle
  <2> QED
    BY <2>2, <2>3, <2>4, Unchanged, TypedAfter DEF Typed, TypeOK
<1>4. CASE Spawn(r)
  <2> DEFINE j == req[r].job
  <2>1. Works(r) /\ j \in Job
    BY <1>4, ReqRecord DEF Spawn, SpawnStep, At, Works, Placed, Spawning
  <2>2. CASE SpawnStep(r, "claim", "inputs", ClaimSpawn(j))
    BY <2>1, <2>2, <1>1 DEF ClaimSpawn
  <2>3. CASE SpawnStep(r, "inputs", "spec", CopyInputs(j))
    BY <2>1, <2>3, <1>1 DEF CopyInputs
  <2>4. CASE SpawnStep(r, "spec", "spawn", WriteSpec(j))
    BY <2>1, <2>4, <1>1 DEF WriteSpec
  <2>5. CASE SpawnStep(r, "spawn", "handle", StartSupervisor(j))
    BY <2>1, <2>5, <1>1 DEF StartSupervisor
  <2>6. CASE SpawnStep(r, "handle", "save", WriteHandle(j))
    BY <2>1, <2>6, <1>1 DEF WriteHandle
  <2> QED
    BY <1>2, <1>4, <2>1, <2>2, <2>3, <2>4, <2>5, <2>6 DEF Spawn
<1> QED
  BY <1>3, <1>4

LEMMA TypedAsk ==
  ASSUME Typed, NEW r \in Req, Look(r) \/ Settle(r) \/ PollReads(r) \/ PollAnswers(r) \/ Collect(r)
  PROVE  Typed'
<1>1. UNCHANGED <<jobs, table, stored, world>>
  BY DEF Look, Settle, PollReads, PollAnswers, Collect
<1>2. req[r].pc \in Placed => req[r].job \in Job
  BY ReqRecord DEF Works
<1>3. CASE Ends(r)
  <2>1. settling' \subseteq settling \cup Job
    <3>1. CASE Settle(r) \/ PollAnswers(r)
      BY <1>2, <3>1 DEF Settle, PollAnswers, At, Placed, Finishing
    <3>2. CASE Look(r) \/ PollReads(r) \/ Collect(r)
      BY <3>2 DEF Look, PollReads, Collect
    <3> QED
      BY <3>1, <3>2
  <2> QED
    BY <1>1, <1>3, <2>1, EndsTyped, Unchanged, TypedAfter DEF ReqType, Typed, TypeOK
<1>4. CASE Look(r) /\ ~Ends(r)
  <2>1. Latest \in Job /\ req' = [req EXCEPT ![r] = [Idle EXCEPT !.job = Latest, !.pc = "settle"]]
    BY <1>4 DEF Look, Typed, TypeOK
  <2> DEFINE q == [Idle EXCEPT !.job = Latest, !.pc = "settle"]
  <2>2. Idle \in Request /\ "settle" \in Place
    BY IdleTyped DEF Place
  <2>4. q \in Request /\ q.job = Latest
    BY <2>1, <2>2 DEF Request
  <2>3. ReqType'
    BY <2>1, <2>4, RequestTyped DEF ReqType
  <2> QED
    BY <1>1, <1>4, <2>3, Unchanged, TypedAfter DEF Look, Typed, TypeOK
<1>5. ASSUME NEW pc \in Finishing, Go(r, pc), settling' \subseteq Job, Works(r) PROVE Typed'
  <2>1. ReqType'
    BY <1>5, GoTyped DEF ReqType, Finishing, Place
  <2> QED
    BY <1>1, <1>5, <2>1, Unchanged, TypedAfter
<1>6. CASE Settle(r) /\ ~Ends(r)
  BY <1>6, <1>5, <1>2 DEF Settle, At, Works, Placed, Finishing, Typed, TypeOK
<1>7. CASE Collect(r)
  BY <1>7, <1>5, <1>2 DEF Collect, At, Works, Placed, Finishing, Typed, TypeOK
<1>8. CASE PollReads(r)
  <2> DEFINE q == [req[r] EXCEPT !.read = status[req[r].job], !.pc = "answer"]
  <2>1. req[r].job \in Job /\ req[r] \in Request
    BY <1>8, <1>2, ReqRecord DEF PollReads, At, Placed, Finishing
  <2>2. status[req[r].job] \in Status /\ "answer" \in Place
    BY <2>1 DEF Typed, TypeOK, JobsTypeOK, Place
  <2>3. q \in Request /\ q.job = req[r].job
    BY <2>1, <2>2 DEF Request
  <2>4. ReqType'
    BY <1>8, <2>1, <2>3, RequestTyped DEF PollReads, ReqType
  <2> QED
    BY <1>1, <1>8, <2>4, Unchanged, TypedAfter DEF PollReads, Typed, TypeOK
<1>9. CASE PollAnswers(r) /\ ~Ends(r)
  <2>1. req[r].job \in Job /\ req[r] \in Request
    BY <1>9, <1>2, ReqRecord DEF PollAnswers, At, Placed, Finishing
  <2>2. PICK pc \in {"collect", "failed"} : req' = [req EXCEPT ![r].read = "none", ![r].pc = pc]
    BY <1>9 DEF PollAnswers
  <2> DEFINE q == [req[r] EXCEPT !.read = "none", !.pc = pc]
  <2>3. pc \in Place /\ "none" \in Status
    BY <2>2 DEF Place, Status
  <2>4. q \in Request /\ q.job = req[r].job
    BY <2>1, <2>3 DEF Request
  <2>5. ReqType'
    BY <2>1, <2>2, <2>4, RequestTyped DEF ReqType
  <2> QED
    BY <1>1, <1>9, <2>5, Unchanged, TypedAfter DEF PollAnswers, Typed, TypeOK
<1> QED
  BY <1>3, <1>4, <1>6, <1>7, <1>8, <1>9

LEMMA TypedFinish ==
  ASSUME Typed, NEW r \in Req, Persist(r) \/ MarkDone(r) \/ MarkFailed(r) \/ Tidy(r)
  PROVE  Typed'
<1>1. Works(r) /\ req[r].job \in Job /\ req[r] \in Request
  BY ReqRecord DEF Persist, MarkDone, MarkFailed, Tidy, At, Works, Placed, Finishing
<1>2. ASSUME Go(r, "failed") \/ Go(r, "tidy") PROVE ReqType'
  BY <1>1, <1>2, GoTyped DEF ReqType, Place, Placed, Finishing
<1>3. CASE Persist(r)
  <2> DEFINE n == made[req[r].job] + 1
             q == [req[r] EXCEPT !.video = n, !.pc = "done"]
  <2>1. n \in Nat
    BY <1>1 DEF Typed, TypeOK
  <2>2. q \in Request /\ q.job = req[r].job
    BY <1>1, <2>1 DEF Request, Place
  <2>3. ReqType'
    <3>1. CASE req' = [req EXCEPT ![r] = q]
      BY <1>1, <2>2, <3>1, RequestTyped DEF ReqType
    <3> QED
      BY <1>2, <1>3, <3>1 DEF Persist
  <2>4. StoreType'
    BY <1>1, <1>3, <2>1 DEF Persist, StoreType, Typed, TypeOK, stored
  <2> QED
    BY <1>3, <2>3, <2>4, Unchanged, TypedAfter DEF Persist, Typed, TypeOK
<1>4. CASE MarkDone(r)
  <2>1. ReqType'
    BY <1>1, <1>4, GoTyped DEF MarkDone, ReqType, Place
  <2>2. TableType'
    BY <1>1, <1>4, ReqRecord DEF MarkDone, TableType, Typed, TypeOK, RowState, table
  <2> QED
    BY <1>4, <2>1, <2>2, Unchanged, TypedAfter DEF MarkDone, Typed, TypeOK
<1>5. CASE MarkFailed(r)
  <2>1. ReqType'
    BY <1>1, <1>5, GoTyped DEF MarkFailed, ReqType, Place
  <2>2. TableType'
    BY <1>1, <1>5, UpdateTyped DEF MarkFailed, TableType, Typed, TypeOK, RowState
  <2> QED
    BY <1>5, <2>1, <2>2, Unchanged, TypedAfter DEF MarkFailed, Typed, TypeOK
<1>6. CASE Tidy(r)
  <2>1. ReqType'
    BY <1>6, EndsTyped DEF Tidy, ReqType
  <2>2. JobsTypeOK'
    BY <1>1, <1>6, JobsTyped DEF Tidy, Typed, TypeOK
  <2> QED
    BY <1>6, <2>1, <2>2, Unchanged, TypedAfter DEF Tidy, Typed, TypeOK
<1> QED
  BY <1>3, <1>4, <1>5, <1>6

LEMMA TypedWorld ==
  ASSUME Typed, Restart \/ (\E j \in Job : Process(j) \/ Sweep(j)) \/ UNCHANGED vars
  PROVE  Typed'
<1>1. CASE Restart
  <2>1. ReqType'
    BY <1>1, IdleTyped DEF Restart, ReqType, Works, Placed, Spawning, Finishing, Idle
  <2>2. JobsTypeOK'
    <3>1. CASE ProcessesDie
      BY <3>1 DEF ProcessesDie, Typed, TypeOK, JobsTypeOK, Supervisor, Command
    <3> QED
      BY <1>1, <3>1, Unchanged DEF Restart
  <2>3. WorldType'
    BY <1>1 DEF Restart, WorldType, Typed, TypeOK, Budget
  <2> QED
    BY <1>1, <2>1, <2>2, <2>3, Unchanged, TypedAfter DEF Restart
<1>2. ASSUME NEW j \in Job, Process(j) \/ Sweep(j) PROVE Typed'
  <2>1. JobsTypeOK'
    BY <1>2, JobsTyped DEF Process, Sweep, Typed, TypeOK
  <2> QED
    BY <1>2, <2>1, Unchanged, TypedAfter DEF Process, Sweep, Typed, TypeOK
<1>3. CASE UNCHANGED vars
  BY <1>3, Unchanged, TypedAfter DEF vars, Typed, TypeOK
<1> QED
  BY <1>1, <1>2, <1>3

LEMMA TypedNext == Typed /\ [Next]_vars => Typed'
<1> SUFFICES ASSUME Typed, [Next]_vars PROVE Typed'
  OBVIOUS
<1>1. ASSUME NEW r \in Req, Step(r) PROVE Typed'
  BY <1>1, TypedSelect, TypedStopJob, TypedCleanStopped, TypedMarkCancelled, TypedDeleteRows,
     TypedInsert, TypedSpawn, TypedAsk, TypedFinish DEF Step
<1> QED
  BY <1>1, TypedBegin, TypedWorld DEF Next

LEMMA Typing == Spec => []Typed
BY TypedInit, TypedNext, PTL DEF Spec

(* Every variable has its type (TypeOK). *)
THEOREM TypeCorrect == Spec => []TypeOK
<1>1. Typed => TypeOK
  BY DEF Typed
<1> QED
  BY <1>1, Typing, PTL

-----------------------------------------------------------------------------
(* The inductive invariant.  Alone: a render is started by one request and    *)
(* finished by one at a time, and by none while it is started.  Once: when    *)
(* its video was stored since the last restart, the request that stored it is *)
(* about to mark it, or nothing is left of its files.  Kept: a video that a   *)
(* row names, or is about to name, is stored.                                 *)

OnlyNew == \A j \in Job : row[j] = "none" =>
  /\ j \notin handled
  /\ made[j] = 0
  /\ \A r \in Req : req[r].pc \in Placed => req[r].job # j
OneFinishes ==
  /\ \A r \in Req : req[r].pc \in Finishing => req[r].job \in settling
  /\ \A r, q \in Req : req[r].pc \in Finishing /\ req[q].pc \in Finishing
                         /\ req[r].job = req[q].job => r = q
OneStarts == \A r \in Req : req[r].pc \in Spawning =>
  /\ req[r].job \notin handled
  /\ made[req[r].job] = 0
  /\ \A q \in Req : req[q].pc \in Placed /\ req[q].job = req[r].job => r = q
Alone == OnlyNew /\ OneFinishes /\ OneStarts

Storing(j) == \E r \in Req : req[r].pc \in {"done", "tidy"} /\ req[r].job = j
NoFiles(j) == ~Has(j, "dir") /\ ~Has(j, "output")
Once == \A j \in Job :
  /\ made[j] <= restarts + 1
  /\ made[j] = restarts + 1 => Storing(j) \/ NoFiles(j)

Kept ==
  /\ \A j \in Job : row[j] = "done" => <<j, video[j]>> \in blobs
  /\ \A r \in Req : req[r].pc = "done" /\ row[req[r].job] = "rendering" =>
       <<req[r].job, req[r].video>> \in blobs

Orderly == Alone /\ Once /\ Kept

LEMMA OrderlyInit == Init => Orderly
<1> SUFFICES ASSUME Init PROVE Orderly
  OBVIOUS
<1>1. \A r \in Req : req[r].pc \notin Placed
  BY DEF Init, Idle, Placed, Spawning, Finishing
<1>2. Alone
  BY <1>1 DEF Init, Alone, OnlyNew, OneFinishes, OneStarts, Placed
<1>3. Once /\ Kept
  BY <1>1 DEF Init, Once, Kept, Placed, Finishing
<1> QED
  BY <1>2, <1>3 DEF Orderly

(* Most steps begin no start, no finishing and no video. *)
Moves(r, q) ==
  /\ req' = [req EXCEPT ![r] = q]
  /\ q.pc \in Placed => q.job = req[r].job
  /\ q.pc \in Spawning => req[r].pc \in Spawning
  /\ q.pc \in Finishing => req[r].pc \in Finishing
  /\ q.pc \notin {"settle", "done"}
  /\ req[r].pc \in {"done", "tidy"} => q.pc = "tidy"
RowsCalm == \A j \in Job :
  /\ row'[j] = "none" => row[j] = "none"
  /\ row'[j] = "done" => row[j] = "done" /\ video'[j] = video[j]
  /\ row'[j] = "rendering" => row[j] = "rendering"
FilesCalm == \A j \in Job : made[j] > 0 /\ NoFiles(j) => NoFiles(j)'

LEMMA CalmStep ==
  ASSUME Typed, Orderly, NEW r \in Req, NEW q \in Request, Moves(r, q),
         RowsCalm, handled' \subseteq handled, FilesCalm, UNCHANGED <<stored, settling, restarts>>
  PROVE  Orderly'
<1>1. \A p \in Req : req'[p] = IF p = r THEN q ELSE req[p]
  BY DEF Typed, TypeOK, Moves
<1>2. \A p \in Req : /\ req'[p].pc \in Placed => req[p].pc \in Placed /\ req'[p].job = req[p].job
                     /\ req'[p].pc \in Finishing => req[p].pc \in Finishing
                     /\ req'[p].pc \in Spawning => req[p].pc \in Spawning
  BY <1>1 DEF Moves, Placed
<1>3. made' = made /\ blobs' = blobs /\ settling' = settling /\ restarts' = restarts
  BY DEF stored
<1>4. \A p \in Req : (req[p].pc \in Placed => req[p].job \in Job)
  BY ReqRecord DEF Works
<1>5. OnlyNew'
  BY <1>2, <1>3 DEF Orderly, Alone, OnlyNew, RowsCalm
<1>6. OneFinishes'
  BY <1>2, <1>3 DEF Orderly, Alone, OneFinishes, Placed
<1>7. OneStarts'
  BY <1>2, <1>3 DEF Orderly, Alone, OneStarts, Placed
<1>8. Once'
  <2> SUFFICES ASSUME NEW j \in Job
               PROVE  /\ made[j] <= restarts + 1
                      /\ made[j] = restarts + 1 => Storing(j)' \/ NoFiles(j)'
    BY <1>3 DEF Once
  <2>1. restarts \in Nat /\ made[j] \in Nat
    BY DEF Typed, TypeOK, Budget
  <2>2. Storing(j) => Storing(j)'
    <3> SUFFICES ASSUME NEW p \in Req, req[p].pc \in {"done", "tidy"}, req[p].job = j
                 PROVE  Storing(j)'
      BY DEF Storing
    <3>1. req'[p].pc \in {"done", "tidy"} /\ req'[p].job = j
      BY <1>1 DEF Moves, Placed, Finishing
    <3> QED
      BY <3>1 DEF Storing
  <2> QED
    BY <2>1, <2>2 DEF Orderly, Once, FilesCalm
<1>9. Kept'
  <2>1. \A p \in Req : req'[p].pc = "done" => req'[p] = req[p] /\ req[p].job \in Job
    BY <1>1, <1>4 DEF Moves, Placed, Finishing
  <2> QED
    BY <1>3, <2>1 DEF Orderly, Kept, RowsCalm
<1> QED
  BY <1>5, <1>6, <1>7, <1>8, <1>9 DEF Orderly, Alone

(* No request moves, and no row. *)
LEMMA CalmWorld ==
  ASSUME Typed, Orderly, UNCHANGED <<table, stored, req, settling, restarts>>, FilesCalm
  PROVE  Orderly'
<1>1. UNCHANGED <<row, handled, video, blobs, made, req, settling, restarts>>
  BY DEF table, stored
<1>2. Alone' /\ Kept'
  BY <1>1 DEF Orderly, Alone, OnlyNew, OneFinishes, OneStarts, Kept
<1>3. \A j \in Job : Storing(j) => Storing(j)'
  BY <1>1 DEF Storing
<1>4. restarts \in Nat /\ \A j \in Job : made[j] \in Nat
  BY DEF Typed, TypeOK, Budget
<1>5. Once'
  BY <1>1, <1>3, <1>4 DEF Orderly, Once, FilesCalm
<1> QED
  BY <1>2, <1>5 DEF Orderly

LEMMA JobsCalm ==
  ASSUME Typed, NEW j \in Job,
         \/ WriteSpec(j) \/ StartSupervisor(j) \/ WriteHandle(j) \/ Terminate(j) \/ Remove(j)
         \/ Reap(j) \/ Supervise(j) \/ CommandEnds(j) \/ ProcessesDie \/ UNCHANGED jobs
  PROVE  FilesCalm
<1>0. files \in [Job -> SUBSET File]
  BY DEF Typed, TypeOK, JobsTypeOK
<1>1. CASE WriteSpec(j) \/ WriteHandle(j)
  BY <1>0, <1>1 DEF WriteSpec, WriteHandle, Put, FilesCalm, NoFiles, Has
<1>2. CASE StartSupervisor(j) \/ Terminate(j) \/ ProcessesDie \/ UNCHANGED jobs
  BY <1>2 DEF StartSupervisor, Terminate, ProcessesDie, jobs, FilesCalm, NoFiles, Has
<1>3. CASE Remove(j) \/ Reap(j)
  BY <1>0, <1>3 DEF Remove, Reap, FilesCalm, NoFiles, Has
<1>4. CASE Supervise(j)
  <2>1. files' = files
    BY <1>4 DEF Supervise, SupervisorReports, SupervisorRuns, SupervisorSees, SupervisorTimesOut,
                SupervisorWrites, SupervisorExits
  <2> QED
    BY <2>1 DEF FilesCalm, NoFiles, Has
<1>5. CASE CommandEnds(j)
  BY <1>0, <1>5 DEF CommandEnds, Put, FilesCalm, NoFiles, Has
<1> QED
  BY <1>1, <1>2, <1>3, <1>4, <1>5

LEMMA RowsSame == ASSUME UNCHANGED table PROVE RowsCalm /\ handled' \subseteq handled
BY DEF table, RowsCalm

LEMMA UpdateCalm ==
  ASSUME Typed, NEW j \in Job, NEW s \in {"failed", "cancelled"}, Update(j, s), video' = video
  PROVE  RowsCalm
BY DEF Update, RowsCalm, Typed, TypeOK

LEMMA FilesSame == ASSUME UNCHANGED jobs PROVE FilesCalm
BY DEF jobs, FilesCalm, NoFiles, Has

Aside == {"idle", "discard", "scan", "stop", "clean", "delete", "mark", "insert", "look"}

LEMMA AsideMoves ==
  ASSUME NEW r \in Req, NEW q, req' = [req EXCEPT ![r] = q], q.pc \in Aside,
         req[r].pc \notin {"done", "tidy"}
  PROVE  Moves(r, q)
BY DEF Moves, Aside, Placed, Spawning, Finishing

LEMMA OrderlyBegin ==
  ASSUME Typed, Orderly, NEW r \in Req, NEW kind \in Kinds, Begin(r, kind)
  PROVE  Orderly'
<1> DEFINE pc == CASE kind = "start" -> "discard" [] kind = "cancel" -> "scan" [] OTHER -> "look"
           q  == [Idle EXCEPT !.kind = kind, !.pc = pc]
<1>1. pc \in Place /\ pc \in Aside
  BY DEF Place, Aside
<1>2. q \in Request /\ q.pc \in Aside /\ req' = [req EXCEPT ![r] = q]
  BY <1>1, NewTyped DEF Idle, Begin
<1>3. Moves(r, q)
  BY <1>2, AsideMoves DEF Begin, At
<1> QED
  BY <1>2, <1>3, CalmStep, RowsSame, FilesSame DEF Begin

LEMMA OrderlySelect ==
  ASSUME Typed, Orderly, NEW r \in Req, Select(r)
  PROVE  Orderly'
<1>1. PICK rows, todo, pc :
        /\ rows \subseteq Rows /\ todo = {c.id : c \in {d \in rows : d.state = "rendering"}}
        /\ pc \in {"stop", "look", "insert", "delete"}
        /\ req' = [req EXCEPT ![r].rows = rows, ![r].todo = todo, ![r].pc = pc]
  BY DEF Select, NextStop
<1> DEFINE q == [req[r] EXCEPT !.rows = rows, !.todo = todo, !.pc = pc]
<1>2. rows \subseteq Copy /\ todo \subseteq Job
  BY <1>1, RowsTyped DEF Copy
<1>3. req[r] \in Request /\ pc \in Place
  BY <1>1, ReqRecord DEF Place
<1>4. q \in Request /\ q.pc \in Aside
  BY <1>1, <1>2, <1>3 DEF Request, Aside
<1>5. req' = [req EXCEPT ![r] = q]
  BY <1>1
<1>6. req[r].pc \notin {"done", "tidy"}
  BY DEF Select, At
<1> HIDE DEF q
<1>7. Moves(r, q)
  BY <1>4, <1>5, <1>6, AsideMoves
<1> QED
  BY <1>4, <1>7, CalmStep, RowsSame, FilesSame DEF Select, world

LEMMA OrderlyStop ==
  ASSUME Typed, Orderly, NEW r \in Req, StopJob(r) \/ CleanStopped(r)
  PROVE  Orderly'
<1>1. req[r] \in Request /\ req[r].pc \notin {"done", "tidy"}
  BY ReqRecord DEF StopJob, CleanStopped, At
<1>2. RowsCalm /\ handled' \subseteq handled /\ UNCHANGED <<stored, settling, restarts>>
  BY RowsSame DEF StopJob, CleanStopped, world
<1>3. CASE StopJob(r)
  <2>1. PICK c \in req[r].rows :
          /\ IF c.handled THEN Terminate(c.id) ELSE UNCHANGED jobs
          /\ req' = [req EXCEPT ![r].job = c.id, ![r].pc = "clean"]
    BY <1>3 DEF StopJob
  <2> DEFINE q == [req[r] EXCEPT !.job = c.id, !.pc = "clean"]
  <2>2. c.id \in Job
    BY <2>1, ReqRecord DEF Copy
  <2>3. q \in Request /\ q.pc \in Aside /\ req' = [req EXCEPT ![r] = q]
    BY <1>1, <2>1, <2>2 DEF Request, Place, Aside
  <2>4. FilesCalm
    BY <2>1, <2>2, JobsCalm
  <2> QED
    BY <1>1, <1>2, <2>3, <2>4, AsideMoves, CalmStep
<1>4. CASE CleanStopped(r)
  <2>1. PICK todo \in SUBSET Job, pc \in {"mark", "stop", "delete"} :
          req' = [req EXCEPT ![r].todo = todo, ![r].pc = pc]
    BY <1>4, ReqRecord DEF CleanStopped, NextStop
  <2> DEFINE q == [req[r] EXCEPT !.todo = todo, !.pc = pc]
  <2>2. q \in Request /\ q.pc \in Aside /\ req' = [req EXCEPT ![r] = q]
    BY <1>1, <2>1 DEF Request, Place, Aside
  <2>3. req[r].job \in Job
    BY <1>4, ReqRecord DEF CleanStopped, At, Works
  <2>4. FilesCalm
    BY <1>4, <2>3, JobsCalm DEF CleanStopped
  <2> QED
    BY <1>1, <1>2, <2>2, <2>4, AsideMoves, CalmStep
<1> QED
  BY <1>3, <1>4

LEMMA OrderlyMarkCancelled ==
  ASSUME Typed, Orderly, NEW r \in Req, MarkCancelled(r)
  PROVE  Orderly'
<1> DEFINE q == IF req[r].todo = {} THEN [Idle EXCEPT !.pc = "look"] ELSE [req[r] EXCEPT !.pc = "stop"]
<1>1. req[r].job \in Job /\ req[r] \in Request
  BY ReqRecord DEF MarkCancelled, At, Works
<1>2. q \in Request /\ q.pc \in Aside
  <2>1. "look" \in Place /\ "stop" \in Place /\ "look" \in Aside /\ "stop" \in Aside
    BY DEF Place, Aside
  <2>2. CASE req[r].todo = {}
    BY <2>1, <2>2, IdleTyped DEF Request
  <2>3. CASE req[r].todo # {}
    BY <1>1, <2>1, <2>3 DEF Request
  <2> QED
    BY <2>2, <2>3
<1>3. Moves(r, q)
  BY <1>2, AsideMoves DEF MarkCancelled, At
<1>4. RowsCalm
  BY <1>1, UpdateCalm DEF MarkCancelled
<1> QED
  BY <1>2, <1>3, <1>4, CalmStep, FilesSame DEF MarkCancelled, world

LEMMA OrderlyEnds ==
  ASSUME Typed, Orderly, NEW r \in Req, Ends(r), req[r].pc \notin {"done", "tidy"},
         RowsCalm, handled' \subseteq handled, FilesCalm, UNCHANGED <<stored, settling, restarts>>
  PROVE  Orderly'
<1>1. Idle \in Request /\ Idle.pc \in Aside
  BY IdleTyped DEF Idle, Aside
<1> QED
  BY <1>1, AsideMoves, CalmStep DEF Ends

LEMMA OrderlyGo ==
  ASSUME Typed, Orderly, NEW r \in Req, NEW pc \in (Spawning \cup Finishing) \ {"done"}, Go(r, pc),
         pc \in Spawning => req[r].pc \in Spawning,
         pc \in Finishing => req[r].pc \in Finishing,
         req[r].pc \in {"done", "tidy"} => pc = "tidy",
         RowsCalm, handled' \subseteq handled, FilesCalm, UNCHANGED <<stored, settling, restarts>>
  PROVE  Orderly'
<1> DEFINE q == [req[r] EXCEPT !.pc = pc]
<1>1. req[r] \in Request /\ pc \in Place
  BY ReqRecord DEF Place, Spawning, Finishing
<1>2. q \in Request /\ q.pc = pc /\ q.job = req[r].job
  BY <1>1 DEF Request
<1>3. Moves(r, q)
  <2>1. req' = [req EXCEPT ![r] = q]
    BY DEF Go
  <2>2. pc \notin {"settle", "done"}
    BY DEF Spawning, Finishing
  <2> HIDE DEF q
  <2> QED
    BY <1>2, <2>1, <2>2 DEF Moves
<1> QED
  BY <1>2, <1>3, CalmStep

LEMMA OrderlySpawn ==
  ASSUME Typed, Orderly, NEW r \in Req, Spawn(r)
  PROVE  Orderly'
<1> DEFINE j == req[r].job
<1>1. req[r].pc \in Spawning /\ j \in Job
  BY ReqRecord DEF Spawn, SpawnStep, At, Works, Placed, Spawning
<1>2. made[j] = 0
  BY <1>1 DEF Orderly, Alone, OneStarts
<1>3. ASSUME ClaimSpawn(j) \/ CopyInputs(j) PROVE FilesCalm
  <2>1. \A k \in Job \ {j} : files'[k] = files[k]
    BY <1>1, <1>3 DEF ClaimSpawn, CopyInputs, Put, Typed, TypeOK, JobsTypeOK
  <2> QED
    BY <1>2, <2>1 DEF FilesCalm, NoFiles, Has
<1>4. ASSUME NEW from \in Spawning, NEW to \in Spawning, NEW step \in BOOLEAN,
             SpawnStep(r, from, to, step), step => FilesCalm
      PROVE  Orderly'
  <2>1. FilesCalm /\ RowsCalm /\ handled' \subseteq handled /\ UNCHANGED <<stored, settling, restarts>>
    BY <1>4, RowsSame DEF SpawnStep, world
  <2>2. Go(r, to) /\ to \notin Finishing /\ req[r].pc \notin {"done", "tidy"}
    BY <1>1, <1>4 DEF SpawnStep, Spawning, Finishing
  <2> QED
    BY <1>1, <1>4, <2>1, <2>2, OrderlyGo DEF Finishing
<1>5. ASSUME SpawnFails(r) PROVE Orderly'
  <2>1. RowsCalm /\ FilesCalm
    BY <1>1, <1>5, UpdateCalm, FilesSame DEF SpawnFails
  <2>2. req[r].pc \notin {"done", "tidy"}
    BY <1>1 DEF Spawning
  <2> QED
    BY <1>5, <2>1, <2>2, OrderlyEnds DEF SpawnFails, world
<1>6. {"claim", "inputs", "spec", "spawn", "handle", "save"} \subseteq Spawning
  BY DEF Spawning
<1>7. CASE SpawnStep(r, "claim", "inputs", ClaimSpawn(j))
  BY <1>3, <1>4, <1>6, <1>7 DEF ClaimSpawn
<1>8. CASE SpawnStep(r, "inputs", "spec", CopyInputs(j))
  BY <1>3, <1>4, <1>6, <1>8 DEF CopyInputs
<1>9. CASE SpawnStep(r, "spec", "spawn", WriteSpec(j))
  <2>1. WriteSpec(j) => FilesCalm
    BY <1>1, JobsCalm
  <2> QED
    BY <2>1, <1>4, <1>6, <1>9 DEF WriteSpec
<1>10. CASE SpawnStep(r, "spawn", "handle", StartSupervisor(j))
  <2>1. StartSupervisor(j) => FilesCalm
    BY <1>1, JobsCalm
  <2> QED
    BY <2>1, <1>4, <1>6, <1>10 DEF StartSupervisor
<1>11. CASE SpawnStep(r, "handle", "save", WriteHandle(j))
  <2>1. WriteHandle(j) => FilesCalm
    BY <1>1, JobsCalm
  <2> QED
    BY <2>1, <1>4, <1>6, <1>11 DEF WriteHandle
<1> QED
  BY <1>5, <1>7, <1>8, <1>9, <1>10, <1>11 DEF Spawn

LEMMA OrderlyDeleteRows ==
  ASSUME Typed, Orderly, NEW r \in Req, DeleteRows(r)
  PROVE  Orderly'
<1> DEFINE ids == {c.id : c \in req[r].rows}
           q   == [req[r] EXCEPT !.pc = "insert"]
<1>1. req[r] \in Request /\ req[r].pc = "delete" /\ req' = [req EXCEPT ![r] = q]
  BY ReqRecord DEF DeleteRows, At, Go
<1>2. q.pc = "insert" /\ \A p \in Req : req'[p] = IF p = r THEN q ELSE req[p]
  BY <1>1 DEF Request, Typed, TypeOK
<1> HIDE DEF q
<1>3. \A p \in Req : req'[p].pc \in Placed \/ req[p].pc \in Placed => req'[p] = req[p]
  BY <1>1, <1>2 DEF Placed, Spawning, Finishing
<1>4. /\ row' = [j \in Job |-> IF j \in ids THEN "deleted" ELSE row[j]]
      /\ handled' = handled \ ids
      /\ video' = [j \in Job |-> IF j \in ids THEN 0 ELSE video[j]]
      /\ blobs' = blobs \ {<<c.id, c.video>> : c \in req[r].rows}
      /\ UNCHANGED <<jobs, made, settling, restarts>>
  BY DEF DeleteRows, world
<1>5. \A j \in Job, n \in Nat : j \notin ids /\ <<j, n>> \in blobs => <<j, n>> \in blobs'
  BY <1>4
<1> HIDE DEF ids
<1>6. \A j \in Job : /\ row'[j] \notin {"deleted"} => j \notin ids /\ row'[j] = row[j]
                     /\ j \notin ids => video'[j] = video[j] /\ row'[j] = row[j]
  BY <1>4
<1>7. OnlyNew'
  BY <1>3, <1>4, <1>6 DEF Orderly, Alone, OnlyNew
<1>8. OneFinishes'
  BY <1>3, <1>4 DEF Orderly, Alone, OneFinishes, Placed
<1>9. OneStarts'
  BY <1>3, <1>4 DEF Orderly, Alone, OneStarts, Placed
<1>10. Once'
  <2>1. \A j \in Job : Storing(j) => Storing(j)'
    BY <1>3 DEF Storing, Placed, Finishing
  <2>2. UNCHANGED files
    BY <1>4 DEF jobs
  <2> QED
    BY <1>4, <2>1, <2>2 DEF Orderly, Once, NoFiles, Has
<1>11. Kept'
  <2>1. ASSUME NEW j \in Job, row'[j] = "done" PROVE <<j, video'[j]>> \in blobs'
    <3>1. j \notin ids /\ row[j] = "done" /\ video'[j] = video[j] /\ video[j] \in Nat
      BY <1>6, <2>1 DEF Typed, TypeOK
    <3> QED
      BY <1>5, <3>1 DEF Orderly, Kept
  <2>2. ASSUME NEW p \in Req, req'[p].pc = "done", row'[req'[p].job] = "rendering"
        PROVE  <<req'[p].job, req'[p].video>> \in blobs'
    <3>1. req'[p] = req[p]
      BY <1>3, <2>2 DEF Placed, Finishing
    <3>2. req[p].job \in Job /\ req[p].video \in Nat
      BY <2>2, <3>1, ReqRecord DEF Works, Placed, Finishing
    <3>3. req[p].job \notin ids /\ row[req[p].job] = "rendering"
      BY <1>6, <2>2, <3>1, <3>2
    <3> QED
      BY <1>5, <2>2, <3>1, <3>2, <3>3 DEF Orderly, Kept
  <2> QED
    BY <2>1, <2>2 DEF Kept
<1> QED
  BY <1>7, <1>8, <1>9, <1>10, <1>11 DEF Orderly, Alone

LEMMA OrderlyInsert ==
  ASSUME Typed, Orderly, NEW r \in Req, Insert(r)
  PROVE  Orderly'
<1>1. PICK j \in Fresh :
        /\ row' = [row EXCEPT ![j] = "rendering"]
        /\ req' = [req EXCEPT ![r] = [Idle EXCEPT !.kind = "start", !.job = j, !.pc = "claim"]]
  BY DEF Insert
<1> DEFINE q == [Idle EXCEPT !.kind = "start", !.job = j, !.pc = "claim"]
<1>2. q.pc = "claim" /\ q.job = j
  BY DEF Idle
<1>3. \A p \in Req : req'[p] = IF p = r THEN q ELSE req[p]
  BY <1>1 DEF Typed, TypeOK
<1> HIDE DEF q
<1>4. j \in Job /\ row[j] = "none" /\ req[r].pc = "insert"
  BY DEF Fresh, Insert, At
<1>5. /\ j \notin handled /\ made[j] = 0
      /\ \A p \in Req : req[p].pc \in Placed => req[p].job # j
  BY <1>4 DEF Orderly, Alone, OnlyNew
<1>6. UNCHANGED <<handled, video, blobs, made, settling, restarts, files>>
  BY DEF Insert, stored, jobs, world
<1>7. \A k \in Job : row'[k] = IF k = j THEN "rendering" ELSE row[k]
  BY <1>1, <1>4 DEF Typed, TypeOK
<1>8. "claim" \notin Finishing /\ "insert" \notin Placed /\ "claim" \in Placed
  BY DEF Placed, Spawning, Finishing
<1>9. OnlyNew'
  BY <1>2, <1>3, <1>4, <1>6, <1>7 DEF Orderly, Alone, OnlyNew
<1>10. OneFinishes'
  BY <1>2, <1>3, <1>6, <1>8 DEF Orderly, Alone, OneFinishes
<1>11. OneStarts'
  <2> SUFFICES ASSUME NEW p \in Req, req'[p].pc \in Spawning
               PROVE  /\ req'[p].job \notin handled
                      /\ made[req'[p].job] = 0
                      /\ \A o \in Req : req'[o].pc \in Placed /\ req'[o].job = req'[p].job => p = o
    BY <1>6 DEF OneStarts
  <2>1. CASE p = r
    BY <1>2, <1>3, <1>5, <2>1
  <2>2. CASE p # r
    <3>1. req'[p] = req[p] /\ req[p].pc \in Placed
      BY <1>3, <2>2 DEF Placed
    <3> QED
      BY <1>2, <1>3, <1>5, <3>1 DEF Orderly, Alone, OneStarts
  <2> QED
    BY <2>1, <2>2
<1>12. Once'
  <2>1. \A k \in Job : Storing(k) => Storing(k)'
    BY <1>3, <1>4 DEF Storing
  <2> QED
    BY <1>6, <2>1 DEF Orderly, Once, NoFiles, Has
<1>13. Kept'
  <2>1. \A k \in Job : row'[k] = "done" => row[k] = "done"
    BY <1>7
  <2>2. ASSUME NEW p \in Req, req'[p].pc = "done", row'[req'[p].job] = "rendering"
        PROVE  <<req'[p].job, req'[p].video>> \in blobs
    <3>1. req'[p] = req[p] /\ req[p].pc \in Placed
      BY <1>2, <1>3, <2>2 DEF Placed, Finishing
    <3>2. req[p].job \in Job /\ req[p].job # j
      BY <1>5, <3>1, ReqRecord DEF Works
    <3> QED
      BY <1>7, <2>2, <3>1, <3>2 DEF Orderly, Kept
  <2> QED
    BY <1>6, <2>1, <2>2 DEF Orderly, Kept
<1> QED
  BY <1>9, <1>10, <1>11, <1>12, <1>13 DEF Orderly, Alone

LEMMA OrderlySaveHandle ==
  ASSUME Typed, Orderly, NEW r \in Req, SaveHandle(r)
  PROVE  Orderly'
<1> DEFINE j == req[r].job
<1>1. req[r].pc = "save" /\ j \in Job /\ req[r].pc \in Spawning /\ req[r].pc \in Placed
  BY ReqRecord DEF SaveHandle, At, Works, Placed, Spawning
<1>2. \A p \in Req : req'[p] = IF p = r THEN Idle ELSE req[p]
  BY DEF SaveHandle, Ends, Typed, TypeOK
<1>3. Idle.pc \notin Placed
  BY DEF Idle, Placed, Spawning, Finishing
<1>4. UNCHANGED <<row, video, blobs, made, settling, restarts, files>>
  BY DEF SaveHandle, stored, jobs, world
<1>5. handled' \subseteq handled \cup {j} /\ \A p \in Req \ {r} : req[p].pc \in Placed => req[p].job # j
  BY <1>1 DEF SaveHandle, Orderly, Alone, OneStarts
<1>6. OnlyNew'
  BY <1>1, <1>2, <1>3, <1>4, <1>5 DEF Orderly, Alone, OnlyNew
<1>7. OneFinishes'
  BY <1>2, <1>3, <1>4 DEF Orderly, Alone, OneFinishes, Placed
<1>8. OneStarts'
  BY <1>2, <1>3, <1>4, <1>5 DEF Orderly, Alone, OneStarts, Placed
<1>9. Once'
  <2>1. \A k \in Job : Storing(k) => Storing(k)'
    BY <1>1, <1>2 DEF Storing
  <2> QED
    BY <1>4, <2>1 DEF Orderly, Once, NoFiles, Has
<1>10. Kept'
  <2>1. \A p \in Req : req'[p].pc = "done" => req'[p] = req[p]
    BY <1>2, <1>3 DEF Placed, Finishing
  <2> QED
    BY <1>4, <2>1 DEF Orderly, Kept
<1> QED
  BY <1>6, <1>7, <1>8, <1>9, <1>10 DEF Orderly, Alone

LEMMA OrderlyLook ==
  ASSUME Typed, Orderly, NEW r \in Req, Look(r)
  PROVE  Orderly'
<1>1. CASE Ends(r)
  BY <1>1, OrderlyEnds, RowsSame, FilesSame DEF Look, At, world
<1>2. CASE ~Ends(r)
  <2>1. /\ Latest \in handled /\ row[Latest] = "rendering" /\ Latest \in Job
        /\ req' = [req EXCEPT ![r] = [Idle EXCEPT !.job = Latest, !.pc = "settle"]]
    BY <1>2 DEF Look, Typed, TypeOK
  <2> DEFINE q == [Idle EXCEPT !.job = Latest, !.pc = "settle"]
  <2>2. q.pc = "settle" /\ q.job = Latest
    BY DEF Idle
  <2>3. \A p \in Req : req'[p] = IF p = r THEN q ELSE req[p]
    BY <2>1 DEF Typed, TypeOK
  <2> HIDE DEF q
  <2>4. UNCHANGED <<row, handled, video, blobs, made, settling, restarts, files>>
    BY DEF Look, table, stored, jobs, world
  <2>5. "settle" \notin Finishing /\ "settle" \notin Spawning /\ req[r].pc = "look"
    BY DEF Finishing, Spawning, Look, At
  <2>6. OnlyNew'
    BY <2>1, <2>2, <2>3, <2>4 DEF Orderly, Alone, OnlyNew
  <2>7. OneFinishes'
    BY <2>2, <2>3, <2>4, <2>5 DEF Orderly, Alone, OneFinishes
  <2>8. OneStarts'
    <3>1. \A p \in Req : req[p].pc \in Spawning => req[p].job # Latest
      BY <2>1 DEF Orderly, Alone, OneStarts
    <3> QED
      BY <2>2, <2>3, <2>4, <2>5, <3>1 DEF Orderly, Alone, OneStarts
  <2>9. Once'
    <3>1. \A k \in Job : Storing(k) => Storing(k)'
      BY <2>3, <2>5 DEF Storing
    <3> QED
      BY <2>4, <3>1 DEF Orderly, Once, NoFiles, Has
  <2>10. Kept'
    <3>1. \A p \in Req : req'[p].pc = "done" => req'[p] = req[p]
      BY <2>2, <2>3
    <3> QED
      BY <2>4, <3>1 DEF Orderly, Kept
  <2> QED
    BY <2>6, <2>7, <2>8, <2>9, <2>10 DEF Orderly, Alone
<1> QED
  BY <1>1, <1>2

LEMMA OrderlySettle ==
  ASSUME Typed, Orderly, NEW r \in Req, Settle(r)
  PROVE  Orderly'
<1> DEFINE j == req[r].job
<1>1. CASE j \in settling
  BY <1>1, OrderlyEnds, RowsSame, FilesSame DEF Settle, At, world
<1>2. CASE j \notin settling
  <2> DEFINE q == [req[r] EXCEPT !.pc = "poll"]
  <2>1. settling' = settling \cup {j} /\ req[r].pc = "settle" /\ req' = [req EXCEPT ![r] = q]
    BY <1>2 DEF Settle, Go, At
  <2>2. q.pc = "poll" /\ q.job = j
    BY ReqRecord DEF Request
  <2>3. \A p \in Req : req'[p] = IF p = r THEN q ELSE req[p]
    BY <2>1 DEF Typed, TypeOK
  <2> HIDE DEF q
  <2>4. UNCHANGED <<row, handled, video, blobs, made, restarts, files>>
    BY DEF Settle, table, stored, jobs, world
  <2>5. "poll" \in Finishing /\ "poll" \notin Spawning /\ "poll" \in Placed /\ "settle" \in Placed
    BY DEF Finishing, Spawning, Placed
  <2>6. OnlyNew'
    BY <2>1, <2>2, <2>3, <2>4, <2>5 DEF Orderly, Alone, OnlyNew
  <2>7. OneFinishes'
    <3>1. \A p \in Req : req[p].pc \in Finishing => req[p].job # j
      BY <1>2 DEF Orderly, Alone, OneFinishes
    <3> QED
      BY <2>1, <2>2, <2>3, <3>1 DEF Orderly, Alone, OneFinishes
  <2>8. OneStarts'
    BY <2>1, <2>2, <2>3, <2>4, <2>5 DEF Orderly, Alone, OneStarts
  <2>9. Once'
    <3>1. \A k \in Job : Storing(k) => Storing(k)'
      BY <2>1, <2>3 DEF Storing
    <3> QED
      BY <2>4, <3>1 DEF Orderly, Once, NoFiles, Has
  <2>10. Kept'
    <3>1. \A p \in Req : req'[p].pc = "done" => req'[p] = req[p]
      BY <2>2, <2>3
    <3> QED
      BY <2>4, <3>1 DEF Orderly, Kept
  <2> QED
    BY <2>6, <2>7, <2>8, <2>9, <2>10 DEF Orderly, Alone
<1> QED
  BY <1>1, <1>2

(* A request that finishes no more leaves the map. *)
LEMMA OrderlyLeaves ==
  ASSUME Typed, Orderly, NEW r \in Req, Ends(r), req[r].pc \in Finishing,
         NEW j \in Job, j = req[r].job,
         settling' = settling \ {j}, UNCHANGED <<table, stored, restarts>>,
         FilesCalm, req[r].pc \in {"done", "tidy"} => NoFiles(j)'
  PROVE  Orderly'
<1>1. \A p \in Req : req'[p] = IF p = r THEN Idle ELSE req[p]
  BY DEF Ends, Typed, TypeOK
<1>2. Idle.pc \notin Placed
  BY DEF Idle, Placed, Spawning, Finishing
<1>3. UNCHANGED <<row, handled, video, blobs, made, restarts>>
  BY DEF table, stored
<1>4. OnlyNew'
  BY <1>1, <1>2, <1>3 DEF Orderly, Alone, OnlyNew
<1>5. OneFinishes'
  BY <1>1, <1>2, <1>3 DEF Orderly, Alone, OneFinishes, Placed
<1>6. OneStarts'
  BY <1>1, <1>2, <1>3 DEF Orderly, Alone, OneStarts, Placed
<1>7. Once'
  <2>1. ASSUME NEW k \in Job, Storing(k) PROVE Storing(k)' \/ NoFiles(k)'
    <3>1. PICK p \in Req : req[p].pc \in {"done", "tidy"} /\ req[p].job = k
      BY <2>1 DEF Storing
    <3>2. CASE p = r
      BY <3>1, <3>2
    <3>3. CASE p # r
      BY <1>1, <3>1, <3>3 DEF Storing
    <3> QED
      BY <3>2, <3>3
  <2>2. restarts \in Nat /\ \A k \in Job : made[k] \in Nat
    BY DEF Typed, TypeOK, Budget
  <2>3. \A k \in Job : made[k] = restarts + 1 => Storing(k)' \/ NoFiles(k)'
    BY <2>1, <2>2 DEF Orderly, Once, FilesCalm
  <2> QED
    BY <1>3, <2>3 DEF Orderly, Once
<1>8. Kept'
  <2>1. \A p \in Req : req'[p].pc = "done" => req'[p] = req[p]
    BY <1>1, <1>2 DEF Placed, Finishing
  <2> QED
    BY <1>3, <2>1 DEF Orderly, Kept
<1> QED
  BY <1>4, <1>5, <1>6, <1>7, <1>8 DEF Orderly, Alone

LEMMA OrderlyPoll ==
  ASSUME Typed, Orderly, NEW r \in Req, PollReads(r) \/ PollAnswers(r) \/ Collect(r)
  PROVE  Orderly'
<1>1. req[r] \in Request /\ req[r].job \in Job /\ req[r].pc \in {"poll", "answer", "collect"}
  BY ReqRecord DEF PollReads, PollAnswers, Collect, At, Works, Placed, Finishing
<1>2. req[r].pc \in Finishing /\ req[r].pc \notin {"done", "tidy"}
  BY <1>1 DEF Finishing
<1>3. RowsCalm /\ handled' \subseteq handled /\ FilesCalm /\ UNCHANGED <<table, stored, restarts>>
  BY RowsSame, FilesSame DEF PollReads, PollAnswers, Collect, world
<1>4. ASSUME NEW q \in Request, req' = [req EXCEPT ![r] = q], UNCHANGED settling,
             q.pc \in {"answer", "collect", "failed"}, q.job = req[r].job
      PROVE  Orderly'
  <2>1. Moves(r, q)
    BY <1>2, <1>4 DEF Moves, Spawning
  <2> QED
    BY <1>3, <1>4, <2>1, CalmStep
<1>5. CASE PollReads(r)
  <2> DEFINE s == status[req[r].job]
             q == [req[r] EXCEPT !.read = s, !.pc = "answer"]
  <2>1. s \in Status /\ "answer" \in Place
    BY <1>1 DEF Typed, TypeOK, JobsTypeOK, Place
  <2>2. req' = [req EXCEPT ![r] = q] /\ UNCHANGED settling
    BY <1>5 DEF PollReads
  <2> HIDE DEF s
  <2>3. q \in Request /\ q.pc = "answer" /\ q.job = req[r].job
    BY <1>1, <2>1 DEF Request
  <2> HIDE DEF q
  <2> QED
    BY <1>4, <2>2, <2>3
<1>6. CASE PollAnswers(r) /\ Ends(r)
  <2>1. settling' = settling \ {req[r].job}
    <3>1. ~StillRunning(req[r].job, req[r].read) =>
            req'[r].pc \in {"collect", "failed"} /\ r \in Req
      BY <1>1, <1>6 DEF PollAnswers, Typed, TypeOK, Request
    <3>2. req'[r].pc = "idle"
      BY <1>6 DEF Ends, Idle, Typed, TypeOK
    <3> QED
      BY <1>6, <3>1, <3>2 DEF PollAnswers
  <2>2. PICK j \in Job : j = req[r].job
    BY <1>1
  <2> QED
    BY <1>2, <1>3, <1>6, <2>1, <2>2, OrderlyLeaves
<1>7. CASE PollAnswers(r) /\ ~Ends(r)
  <2>1. PICK pc \in {"collect", "failed"} : req' = [req EXCEPT ![r].read = "none", ![r].pc = pc]
    BY <1>7 DEF PollAnswers
  <2> DEFINE q == [req[r] EXCEPT !.read = "none", !.pc = pc]
  <2>2. pc \in Place /\ "none" \in Status
    BY <2>1 DEF Place, Status
  <2>3. q \in Request /\ q.pc = pc /\ q.job = req[r].job
    BY <1>1, <2>2 DEF Request
  <2>4. req' = [req EXCEPT ![r] = q] /\ UNCHANGED settling
    BY <1>7, <2>1 DEF PollAnswers
  <2> HIDE DEF q
  <2> QED
    BY <1>4, <2>1, <2>3, <2>4
<1>8. CASE Collect(r)
  <2>1. PICK pc \in {"persist", "failed"} : Go(r, pc)
    BY <1>8 DEF Collect
  <2>2. pc \in (Spawning \cup Finishing) \ {"done"} /\ pc \notin Spawning /\ UNCHANGED settling
    BY <1>8, <2>1 DEF Collect, Spawning, Finishing
  <2> QED
    BY <1>2, <1>3, <2>1, <2>2, OrderlyGo
<1> QED
  BY <1>5, <1>6, <1>7, <1>8

LEMMA OrderlyPersist ==
  ASSUME Typed, Orderly, NEW r \in Req, Persist(r)
  PROVE  Orderly'
<1>0. req[r] \in Request /\ req[r].job \in Job /\ req[r].pc = "persist"
  BY ReqRecord DEF Persist, At, Works, Placed, Finishing
<1>1. PICK j \in Job, n \in Nat : j = req[r].job /\ n = made[j] + 1
  BY <1>0 DEF Typed, TypeOK
<1>2. UNCHANGED <<jobs, table, settling, restarts>>
  BY DEF Persist, world
<1>3. CASE Go(r, "failed") /\ UNCHANGED stored
  <2>1. "failed" \in (Spawning \cup Finishing) \ {"done"} /\ "failed" \notin Spawning
        /\ req[r].pc \in Finishing
    BY <1>0 DEF Spawning, Finishing
  <2> QED
    BY <1>0, <1>2, <1>3, <2>1, RowsSame, FilesSame, OrderlyGo
<1>4. CASE /\ Has(j, "output")
           /\ blobs' = blobs \cup {<<j, n>>}
           /\ made' = [made EXCEPT ![j] = n]
           /\ req' = [req EXCEPT ![r].video = n, ![r].pc = "done"]
  <2> DEFINE q == [req[r] EXCEPT !.video = n, !.pc = "done"]
  <2>1. q.pc = "done" /\ q.job = j /\ q.video = n
    BY <1>0, <1>1 DEF Request
  <2>2. \A p \in Req : req'[p] = IF p = r THEN q ELSE req[p]
    BY <1>4 DEF Typed, TypeOK
  <2> HIDE DEF q
  <2>3. UNCHANGED <<row, handled, video, settling, restarts, files>>
    BY <1>2 DEF table, jobs
  <2>4. \A k \in Job : made'[k] = IF k = j THEN n ELSE made[k]
    BY <1>1, <1>4 DEF Typed, TypeOK
  <2>5. restarts \in Nat /\ \A k \in Job : made[k] \in Nat
    BY DEF Typed, TypeOK, Budget
  <2>6. req[r].pc \in Finishing /\ req[r].pc \in Placed /\ "done" \in Finishing
        /\ "done" \notin Spawning /\ "done" \in Placed
    BY <1>0 DEF Finishing, Spawning, Placed
  <2>7. row[j] # "none"
    BY <1>1, <2>6 DEF Orderly, Alone, OnlyNew
  <2>8. OnlyNew'
    BY <2>1, <2>2, <2>3, <2>4, <2>6, <2>7, <1>1 DEF Orderly, Alone, OnlyNew
  <2>9. OneFinishes'
    BY <1>1, <2>1, <2>2, <2>3, <2>6 DEF Orderly, Alone, OneFinishes
  <2>10. OneStarts'
    <3> SUFFICES ASSUME NEW p \in Req, req'[p].pc \in Spawning
                 PROVE  /\ req'[p].job \notin handled
                        /\ made'[req'[p].job] = 0
                        /\ \A o \in Req : req'[o].pc \in Placed /\ req'[o].job = req'[p].job => p = o
      BY <2>3 DEF OneStarts
    <3>1. p # r /\ req'[p] = req[p]
      BY <2>1, <2>2, <2>6
    <3>2. req[p].job # j /\ req[p].job \in Job
      BY <1>1, <2>6, <3>1, ReqRecord DEF Orderly, Alone, OneStarts, Works, Placed
    <3>3. \A o \in Req : req'[o].pc \in Placed => req[o].pc \in Placed /\ req'[o].job = req[o].job
      BY <1>1, <2>1, <2>2, <2>6
    <3> QED
      BY <2>4, <3>1, <3>2, <3>3 DEF Orderly, Alone, OneStarts
  <2>11. Once'
    <3>1. made[j] <= restarts
      <4>1. ASSUME made[j] = restarts + 1 PROVE FALSE
        <5>1. Storing(j)
          BY <1>1, <1>4, <4>1 DEF Orderly, Once, NoFiles
        <5>2. PICK p \in Req : req[p].pc \in {"done", "tidy"} /\ req[p].job = j
          BY <5>1 DEF Storing
        <5>3. p = r
          BY <1>1, <2>6, <5>2 DEF Orderly, Alone, OneFinishes, Finishing
        <5> QED
          BY <1>0, <5>2, <5>3
      <4> QED
        BY <1>1, <2>5, <4>1 DEF Orderly, Once
    <3>2. \A k \in Job : Storing(k) => Storing(k)'
      BY <1>0, <2>2 DEF Storing
    <3>3. Storing(j)'
      BY <2>1, <2>2 DEF Storing
    <3>4. made'[j] <= restarts + 1
      BY <1>1, <2>4, <2>5, <3>1
    <3>5. ASSUME NEW k \in Job, k # j
          PROVE  /\ made'[k] <= restarts + 1
                 /\ made'[k] = restarts + 1 => Storing(k)' \/ NoFiles(k)'
      BY <2>3, <2>4, <3>2, <3>5 DEF Orderly, Once, NoFiles, Has
    <3> QED
      BY <2>3, <3>3, <3>4, <3>5 DEF Once
  <2>12. Kept'
    <3>1. <<j, n>> \in blobs' /\ blobs \subseteq blobs'
      BY <1>4
    <3>2. \A k \in Job : row'[k] = "done" => <<k, video'[k]>> \in blobs'
      BY <2>3, <3>1 DEF Orderly, Kept
    <3>3. ASSUME NEW p \in Req, req'[p].pc = "done", row'[req'[p].job] = "rendering"
          PROVE  <<req'[p].job, req'[p].video>> \in blobs'
      <4>1. CASE p = r
        BY <2>1, <2>2, <3>1, <4>1
      <4>2. CASE p # r
        BY <2>2, <2>3, <3>1, <3>3, <4>2 DEF Orderly, Kept
      <4> QED
        BY <4>1, <4>2
    <3> QED
      BY <3>2, <3>3 DEF Kept
  <2> QED
    BY <2>8, <2>9, <2>10, <2>11, <2>12 DEF Orderly, Alone
<1> QED
  BY <1>1, <1>3, <1>4 DEF Persist

LEMMA OrderlyMark ==
  ASSUME Typed, Orderly, NEW r \in Req, MarkDone(r) \/ MarkFailed(r)
  PROVE  Orderly'
<1> DEFINE j == req[r].job
           q == [req[r] EXCEPT !.pc = "tidy"]
<1>1. req[r] \in Request /\ j \in Job /\ req[r].pc \in {"done", "failed"}
  BY ReqRecord DEF MarkDone, MarkFailed, At, Works, Placed, Finishing
<1>2. /\ "tidy" \in (Spawning \cup Finishing) \ {"done"} /\ "tidy" \notin Spawning
      /\ req[r].pc \in Finishing
  BY <1>1 DEF Spawning, Finishing
<1>3. Go(r, "tidy") /\ FilesCalm /\ UNCHANGED <<stored, settling, restarts>>
  BY FilesSame DEF MarkDone, MarkFailed, world
<1>4. CASE MarkFailed(r) \/ row[j] # "rendering"
  <2>1. RowsCalm /\ handled' \subseteq handled
    BY <1>1, <1>4, UpdateCalm, RowsSame DEF MarkFailed, MarkDone
  <2> QED
    BY <1>2, <1>3, <2>1, OrderlyGo
<1>5. CASE MarkDone(r) /\ row[j] = "rendering"
  <2>1. /\ row' = [row EXCEPT ![j] = "done"]
        /\ video' = [video EXCEPT ![j] = req[r].video]
        /\ handled' = handled \ {j} /\ req[r].pc = "done"
    BY <1>5 DEF MarkDone, At
  <2>2. q.pc = "tidy" /\ q.job = j /\ \A p \in Req : req'[p] = IF p = r THEN q ELSE req[p]
    BY <1>1, <1>3 DEF Go, Request, Typed, TypeOK
  <2> HIDE DEF q
  <2>3. UNCHANGED <<blobs, made, settling, restarts, files>>
    BY <1>3, <1>5 DEF stored, MarkDone, jobs
  <2>4. \A k \in Job : /\ row'[k] = IF k = j THEN "done" ELSE row[k]
                       /\ video'[k] = IF k = j THEN req[r].video ELSE video[k]
    BY <1>1, <2>1 DEF Typed, TypeOK
  <2>5. \A p \in Req : /\ req'[p].pc \in Placed => req[p].pc \in Placed /\ req'[p].job = req[p].job
                       /\ req'[p].pc \in Finishing => req[p].pc \in Finishing
                       /\ req'[p].pc \in Spawning => req[p].pc \in Spawning
    BY <1>2, <2>2 DEF Placed
  <2>6. OnlyNew'
    BY <2>1, <2>3, <2>4, <2>5 DEF Orderly, Alone, OnlyNew
  <2>7. OneFinishes'
    BY <2>3, <2>5 DEF Orderly, Alone, OneFinishes, Placed
  <2>8. OneStarts'
    BY <2>1, <2>3, <2>5 DEF Orderly, Alone, OneStarts, Placed
  <2>9. Once'
    <3>1. ASSUME NEW k \in Job, Storing(k) PROVE Storing(k)'
      <4>1. PICK p \in Req : req[p].pc \in {"done", "tidy"} /\ req[p].job = k
        BY <3>1 DEF Storing
      <4>2. req'[p].pc \in {"done", "tidy"} /\ req'[p].job = k
        BY <2>2, <4>1
      <4> QED
        BY <4>2 DEF Storing
    <3> QED
      BY <2>3, <3>1 DEF Orderly, Once, NoFiles, Has
  <2>10. Kept'
    <3>1. <<j, req[r].video>> \in blobs
      BY <1>5, <2>1 DEF Orderly, Kept
    <3>2. \A p \in Req : req'[p].pc = "done" => req'[p] = req[p] /\ req[p].job \in Job
      BY <2>2, ReqRecord DEF Works, Placed, Finishing
    <3>3. \A k \in Job : row'[k] = "done" => <<k, video'[k]>> \in blobs
      BY <2>4, <3>1 DEF Orderly, Kept
    <3>4. \A p \in Req : req'[p].pc = "done" /\ row'[req'[p].job] = "rendering" =>
            <<req'[p].job, req'[p].video>> \in blobs
      BY <2>4, <3>2 DEF Orderly, Kept
    <3> QED
      BY <2>3, <3>3, <3>4 DEF Kept
  <2> QED
    BY <2>6, <2>7, <2>8, <2>9, <2>10 DEF Orderly, Alone
<1> QED
  BY <1>4, <1>5

LEMMA OrderlyTidy ==
  ASSUME Typed, Orderly, NEW r \in Req, Tidy(r)
  PROVE  Orderly'
<1>0. req[r].job \in Job /\ req[r].pc \in Finishing
  BY ReqRecord DEF Tidy, At, Works, Placed, Finishing
<1>1. PICK j \in Job : j = req[r].job
  BY <1>0
<1>2. /\ Ends(r) /\ Remove(j) /\ settling' = settling \ {j}
      /\ UNCHANGED <<table, stored, restarts>>
  BY <1>1 DEF Tidy, world
<1>3. FilesCalm
  BY <1>1, <1>2, JobsCalm
<1>4. NoFiles(j)'
  BY <1>1, <1>2 DEF Remove, NoFiles, Has, Typed, TypeOK, JobsTypeOK
<1> QED
  BY <1>0, <1>1, <1>2, <1>3, <1>4, OrderlyLeaves

LEMMA OrderlyRestart ==
  ASSUME Typed, Orderly, Restart
  PROVE  Orderly'
<1>1. /\ UNCHANGED <<row, handled, video, blobs, made>>
      /\ settling' = {} /\ restarts' = restarts + 1
      /\ \A r \in Req : req'[r] = Idle
  BY DEF Restart, table, stored
<1>2. Idle.pc \notin Placed
  BY DEF Idle, Placed, Spawning, Finishing
<1>3. restarts \in Nat /\ \A j \in Job : made[j] \in Nat
  BY DEF Typed, TypeOK, Budget
<1>4. Alone'
  BY <1>1, <1>2 DEF Orderly, Alone, OnlyNew, OneFinishes, OneStarts, Placed
<1>5. Once'
  BY <1>1, <1>3 DEF Orderly, Once
<1>6. Kept'
  BY <1>1, <1>2 DEF Orderly, Kept, Placed, Finishing
<1> QED
  BY <1>4, <1>5, <1>6 DEF Orderly

LEMMA OrderlyWorld ==
  ASSUME Typed, Orderly, (\E j \in Job : Process(j) \/ Sweep(j)) \/ UNCHANGED vars
  PROVE  Orderly'
<1>1. ASSUME NEW j \in Job, Process(j) \/ Sweep(j) PROVE Orderly'
  <2>1. FilesCalm
    BY <1>1, JobsCalm DEF Process, Sweep
  <2> QED
    BY <1>1, <2>1, CalmWorld DEF Process, Sweep, world
<1>2. CASE UNCHANGED vars
  BY <1>2, FilesSame, CalmWorld DEF vars, world
<1> QED
  BY <1>1, <1>2

LEMMA OrderlyNext == Typed /\ Orderly /\ [Next]_vars => Orderly'
<1> SUFFICES ASSUME Typed, Orderly, [Next]_vars PROVE Orderly'
  OBVIOUS
<1>1. ASSUME NEW r \in Req, Step(r) PROVE Orderly'
  BY <1>1, OrderlySelect, OrderlyStop, OrderlyMarkCancelled, OrderlyDeleteRows, OrderlyInsert,
     OrderlySpawn, OrderlySaveHandle, OrderlyLook, OrderlySettle, OrderlyPoll, OrderlyPersist,
     OrderlyMark, OrderlyTidy DEF Step
<1> QED
  BY <1>1, OrderlyBegin, OrderlyRestart, OrderlyWorld DEF Next

LEMMA Order == Spec => [](Typed /\ Orderly)
<1>1. Init => Typed /\ Orderly
  BY TypedInit, OrderlyInit
<1>2. Typed /\ Orderly /\ [Next]_vars => (Typed /\ Orderly)'
  BY TypedNext, OrderlyNext
<1> QED
  BY <1>1, <1>2, PTL DEF Spec

(* A render's video is stored once, and once more for each restart at the    *)
(* most, however many requests finish it (StoredOnce).                       *)
THEOREM OneVideo == Spec => []StoredOnce
<1>1. Typed /\ Orderly => StoredOnce
  <2> SUFFICES ASSUME Typed, Orderly, NEW j \in Job PROVE made[j] <= 1 + restarts
    BY DEF StoredOnce
  <2>1. restarts \in Nat /\ made[j] \in Nat
    BY DEF Typed, TypeOK, Budget
  <2>2. made[j] <= restarts + 1
    BY DEF Orderly, Once
  <2> QED
    BY <2>1, <2>2
<1> QED
  BY <1>1, Order, PTL

-----------------------------------------------------------------------------
(* What was shown stays. *)

KeptShown == \A j \in Job : row[j] \in Shown =>
  /\ row'[j] \in {row[j], "deleted"}
  /\ row'[j] = "done" => video'[j] = video[j] /\ <<j, video[j]>> \in blobs'

(* No row changes but one that was rendering or new, and no video goes. *)
LEMMA RowsKept ==
  ASSUME Typed, Orderly, blobs \subseteq blobs',
         \A j \in Job : row[j] \in Shown => row'[j] = row[j] /\ video'[j] = video[j]
  PROVE  KeptShown
BY DEF KeptShown, Orderly, Kept, Shown

LEMMA UpdateKept ==
  ASSUME Typed, NEW j \in Job, NEW s \in RowState, Update(j, s)
  PROVE  \A k \in Job : row[k] \in Shown => row'[k] = row[k]
BY DEF Update, Typed, TypeOK, Shown

LEMMA StepKeeps ==
  ASSUME Typed, Orderly, NEW r \in Req, Step(r)
  PROVE  KeptShown
<1>1. ASSUME UNCHANGED table, blobs \subseteq blobs' PROVE KeptShown
  BY <1>1, RowsKept DEF table
<1>2. ASSUME UNCHANGED <<table, stored>> PROVE KeptShown
  BY <1>1, <1>2 DEF stored
<1>3. ASSUME NEW s \in RowState, Update(req[r].job, s), Works(r), UNCHANGED <<video, stored>>
      PROVE  KeptShown
  <2>1. PICK j \in Job : j = req[r].job
    BY <1>3, ReqRecord
  <2> QED
    BY <1>3, <2>1, UpdateKept, RowsKept DEF stored
<1>4. CASE \/ Select(r) \/ StopJob(r) \/ CleanStopped(r) \/ Look(r) \/ Settle(r) \/ PollReads(r)
           \/ PollAnswers(r) \/ Collect(r) \/ Tidy(r)
  BY <1>2, <1>4 DEF Select, StopJob, CleanStopped, Look, Settle, PollReads, PollAnswers, Collect, Tidy
<1>5. CASE MarkCancelled(r) \/ MarkFailed(r) \/ Spawn(r)
  <2>1. "failed" \in RowState /\ "cancelled" \in RowState /\ Works(r)
    BY <1>5 DEF RowState, Works, MarkCancelled, MarkFailed, Spawn, SpawnStep, At, Placed,
                Spawning, Finishing
  <2> QED
    BY <1>2, <1>3, <1>5, <2>1 DEF MarkCancelled, MarkFailed, Spawn, SpawnStep, SpawnFails
<1>6. CASE DeleteRows(r)
  <2> DEFINE ids == {c.id : c \in req[r].rows}
  <2>1. \A j \in Job : j \in ids => row'[j] = "deleted"
    BY <1>6 DEF DeleteRows
  <2>2. \A j \in Job \ ids : row'[j] = row[j] /\ video'[j] = video[j]
    BY <1>6 DEF DeleteRows
  <2>3. \A j \in Job \ ids : <<j, video[j]>> \in blobs => <<j, video[j]>> \in blobs'
    BY <1>6 DEF DeleteRows
  <2> HIDE DEF ids
  <2> QED
    BY <2>1, <2>2, <2>3 DEF KeptShown, Shown, Orderly, Kept
<1>7. CASE Insert(r)
  <2>1. \A j \in Job : row[j] \in Shown => row'[j] = row[j]
    BY <1>7 DEF Insert, Fresh, Shown, Typed, TypeOK
  <2> QED
    BY <1>7, <2>1, RowsKept DEF Insert, stored
<1>8. CASE SaveHandle(r)
  BY <1>8, RowsKept DEF SaveHandle, stored
<1>9. CASE Persist(r)
  BY <1>1, <1>9 DEF Persist, stored
<1>10. CASE MarkDone(r)
  <2>1. req[r].job \in Job
    BY <1>10, ReqRecord DEF MarkDone, At, Works, Placed, Finishing
  <2>2. \A j \in Job : row[j] \in Shown => row'[j] = row[j] /\ video'[j] = video[j]
    BY <1>10, <2>1 DEF MarkDone, Shown, Typed, TypeOK, table
  <2> QED
    BY <1>10, <2>2, RowsKept DEF MarkDone, stored
<1> QED
  BY <1>4, <1>5, <1>6, <1>7, <1>8, <1>9, <1>10 DEF Step

LEMMA NextKeeps == Typed /\ Orderly /\ [Next]_vars => KeptShown
<1> SUFFICES ASSUME Typed, Orderly, [Next]_vars PROVE KeptShown
  OBVIOUS
<1>1. ASSUME UNCHANGED <<table, stored>> PROVE KeptShown
  BY <1>1, RowsKept DEF table, stored
<1>2. ASSUME NEW r \in Req, NEW kind \in Kinds, Begin(r, kind) PROVE KeptShown
  BY <1>1, <1>2 DEF Begin
<1>3. ASSUME NEW j \in Job, Process(j) \/ Sweep(j) PROVE KeptShown
  BY <1>1, <1>3 DEF Process, Sweep
<1>4. CASE Restart \/ UNCHANGED vars
  BY <1>1, <1>4 DEF Restart, vars
<1> QED
  BY <1>2, <1>3, <1>4, StepKeeps DEF Next

(* What a person was shown is never turned into something else, and its      *)
(* video stays as long as its row (ShownIsKept).                             *)
THEOREM ShownStays == Spec => ShownIsKept
<1>1. Typed /\ Orderly /\ [Next]_vars => [KeptShown]_vars
  BY NextKeeps
<1> QED
  BY <1>1, Order, PTL DEF Spec, ShownIsKept, KeptShown

=============================================================================
