---------------------------- MODULE DraftRenders ----------------------------
(***************************************************************************)
(* The draft renders of one timeline editor stage: TimelinePreviewService   *)
(* over its rows and its compute jobs.  Nothing works in the background: a  *)
(* render is finished by the requests that ask about it.  Requests of the   *)
(* editor's tabs and of the assistant run side by side; an action is what   *)
(* one of them does up to its next await.  A restart forgets them all, and  *)
(* the processes of the jobs may survive it.                                *)
(***************************************************************************)
EXTENDS ComputeJobs, Integers, FiniteSetsExt

CONSTANTS
  Req,         \* requests that may be under way at once
  Budgets      \* bounds: renders, cancels and restarts of the API, in several mixes

Kinds == {"start", "ask", "cancel"}

Budget   == [renders : 0..Cardinality(Job), cancels : Nat, restarts : Nat]

ASSUME RendersAssumption ==
  /\ Job \subseteq Nat \ {0}   \* renders, in the order they are inserted
  /\ IsFiniteSet(Job)
  /\ Budgets \subseteq Budget

VARIABLES
  row,       \* [Job -> RowState], timeline_preview_render, with no row as "none" or "deleted"
  handled,   \* renders whose row has a job_handle
  video,     \* [Job -> Nat], which of the render's videos blob_id names, 0 for none
  blobs,     \* stored videos: <<render, number>>
  made,      \* [Job -> Nat], how many videos of a render were ever stored
  req,       \* [Req -> Request]
  settling,  \* renders being finished right now, the service's map
  restarts,  \* restarts so far
  budget     \* the mix of this behaviour, with the cancels that are left

table  == <<row, handled, video>>
stored == <<blobs, made>>
world  == <<restarts, budget>>
vars   == <<jobs, table, stored, req, settling, world>>

RowState == {"none", "rendering", "done", "failed", "cancelled", "deleted"}
Shown    == {"done", "failed", "cancelled"}
Place    == {"idle",
             "discard", "scan", "stop", "clean", "delete", "mark",           \* replace, cancel
             "insert", "claim", "inputs", "spec", "spawn", "handle", "save", \* start
             "look", "settle",                                               \* current
             "poll", "answer", "collect", "persist", "done", "failed", "tidy"} \* finish
Copy     == [id : Job, state : RowState, handled : BOOLEAN, video : Nat]
NoJob    == 0
Request  == [kind : Kinds, pc : Place, rows : SUBSET Copy, todo : SUBSET Job,
             job : Job \cup {NoJob}, read : Status, video : Nat]
Idle     == [kind |-> "ask", pc |-> "idle", rows |-> {}, todo |-> {}, job |-> NoJob,
             read |-> "none", video |-> 0]

Init ==
  /\ JobsInit
  /\ row = [j \in Job |-> "none"]
  /\ handled = {}
  /\ video = [j \in Job |-> 0]
  /\ blobs = {}
  /\ made = [j \in Job |-> 0]
  /\ req = [r \in Req |-> Idle]
  /\ settling = {}
  /\ restarts = 0
  /\ budget \in Budgets

-----------------------------------------------------------------------------
Exists(j)  == row[j] \notin {"none", "deleted"}
CopyOf(j)  == [id |-> j, state |-> row[j], handled |-> j \in handled, video |-> video[j]]
Rows       == {CopyOf(j) : j \in {k \in Job : Exists(k)}}
Latest     == Max({j \in Job : Exists(j)} \cup {NoJob})

At(r, pc)  == req[r].pc = pc
Go(r, pc)  == req' = [req EXCEPT ![r].pc = pc]
Ends(r)    == req' = [req EXCEPT ![r] = Idle]

\* UPDATE .. WHERE state = 'rendering'
UpdateAny(j, s) == row' = [row EXCEPT ![j] = IF Exists(j) THEN s ELSE row[j]]   \* mutant
Update(j, s) == row' = [row EXCEPT ![j] = IF row[j] = "rendering" THEN s ELSE row[j]]

Fresh  == {j \in Job : row[j] = "none"}
Starts == {r \in Req : /\ req[r].kind = "start"
                      /\ req[r].pc \in {"discard", "stop", "clean", "delete", "insert"}}

Begin(r, kind) ==
  /\ At(r, "idle")
  /\ kind = "cancel" => budget.cancels > 0
  /\ kind = "start" => Cardinality(Starts) + Cardinality(Job \ Fresh) < budget.renders
  /\ req' = [req EXCEPT ![r] = [Idle EXCEPT !.kind = kind,
       !.pc = CASE kind = "start" -> "discard" [] kind = "cancel" -> "scan" [] OTHER -> "look"]]
  /\ budget' = IF kind = "cancel" THEN [budget EXCEPT !.cancels = budget.cancels - 1] ELSE budget
  /\ UNCHANGED <<jobs, table, stored, settling, restarts>>

-----------------------------------------------------------------------------
(* start (with discardAll), and the loop of cancel. *)

NextStop(todo, otherwise) == IF todo = {} THEN otherwise ELSE "stop"

Select(r) ==
  /\ At(r, "discard") \/ At(r, "scan")
  /\ LET found == IF At(r, "scan") THEN {c \in Rows : c.state = "rendering"} ELSE Rows
         todo  == {c.id : c \in {d \in found : d.state = "rendering"}}
         rest  == IF At(r, "scan") THEN "look" ELSE IF found = {} THEN "insert" ELSE "delete"
     IN  req' = [req EXCEPT ![r].rows = found, ![r].todo = todo, ![r].pc = NextStop(todo, rest)]
  /\ UNCHANGED <<jobs, table, stored, settling, world>>

\* stopJob: cancel, by the handle that was read, then cleanup
StopJob(r) ==
  /\ At(r, "stop")
  /\ \E c \in req[r].rows :
       /\ c.id \in req[r].todo
       /\ IF c.handled THEN Terminate(c.id) ELSE UNCHANGED jobs
       /\ req' = [req EXCEPT ![r].job = c.id, ![r].pc = "clean"]
  /\ UNCHANGED <<table, stored, settling, world>>

CleanStopped(r) ==
  /\ At(r, "clean")
  /\ Remove(req[r].job)
  /\ LET todo == req[r].todo \ {req[r].job}
     IN  req' = [req EXCEPT ![r].todo = todo,
           ![r].pc = IF req[r].kind = "cancel" THEN "mark" ELSE NextStop(todo, "delete")]
  /\ UNCHANGED <<table, stored, settling, world>>

MarkCancelled(r) ==
  /\ At(r, "mark")
  /\ Update(req[r].job, "cancelled")
  /\ req' = [req EXCEPT ![r] =
       IF req[r].todo = {} THEN [Idle EXCEPT !.pc = "look"] ELSE [req[r] EXCEPT !.pc = "stop"]]
  /\ UNCHANGED <<jobs, handled, video, stored, settling, world>>

\* the rows and the videos that were read, in one transaction
DeleteRows(r) ==
  /\ At(r, "delete")
  /\ LET ids == {c.id : c \in req[r].rows}
     IN  /\ row'     = [j \in Job |-> IF j \in ids THEN "deleted" ELSE row[j]]
         /\ handled' = handled \ ids
         /\ video'   = [j \in Job |-> IF j \in ids THEN 0 ELSE video[j]]
  /\ blobs' = blobs \ {<<c.id, c.video>> : c \in req[r].rows}
  /\ Go(r, "insert")
  /\ UNCHANGED <<jobs, made, settling, world>>

Insert(r) ==
  /\ At(r, "insert")
  /\ \E j \in Fresh :
       /\ \A k \in Fresh : j <= k
       /\ row' = [row EXCEPT ![j] = "rendering"]
       /\ req' = [req EXCEPT ![r] = [Idle EXCEPT !.kind = "start", !.job = j, !.pc = "claim"]]
  /\ UNCHANGED <<jobs, handled, video, stored, settling, world>>

\* An exception of spawn marks the render failed.
SpawnFails(r) ==
  /\ Update(req[r].job, "failed")
  /\ Ends(r)
  /\ UNCHANGED <<jobs, handled, video, stored, settling, world>>

SpawnStep(r, from, to, step) ==
  /\ At(r, from)
  /\ step
  /\ Go(r, to)
  /\ UNCHANGED <<table, stored, settling, world>>

Spawn(r) ==
  LET j == req[r].job IN
  \/ SpawnStep(r, "claim", "inputs", ClaimSpawn(j))
  \/ SpawnStep(r, "inputs", "spec", CopyInputs(j))
  \/ SpawnStep(r, "spec", "spawn", WriteSpec(j))
  \/ SpawnStep(r, "spawn", "handle", StartSupervisor(j))
  \/ SpawnStep(r, "handle", "save", WriteHandle(j))
  \/ At(r, "inputs") /\ SpawnFails(r)                        \* no space, no such input
  \/ At(r, "spec") /\ ~Has(j, "inputs") /\ SpawnFails(r)     \* the directory is gone
  \/ At(r, "handle") /\ ~Has(j, "dir") /\ SpawnFails(r)
  \/ At(r, "save") /\ ~Has(j, "handle") /\ SpawnFails(r)     \* it is read back

SaveHandle(r) ==
  /\ At(r, "save")
  /\ handled' = IF Exists(req[r].job) THEN handled \cup {req[r].job} ELSE handled
  /\ Ends(r)
  /\ UNCHANGED <<jobs, row, video, stored, settling, world>>

-----------------------------------------------------------------------------
(* current, and settle with finish. *)

LookAnyway(r) ==   \* mutant
  /\ At(r, "look")
  /\ req' = [req EXCEPT ![r] = [Idle EXCEPT !.job = Latest, !.pc = "settle"]]
  /\ UNCHANGED <<jobs, table, stored, settling, world>>
Look(r) ==
  /\ At(r, "look")
  /\ IF Latest # NoJob /\ row[Latest] = "rendering" /\ Latest \in handled
       THEN req' = [req EXCEPT ![r] = [Idle EXCEPT !.job = Latest, !.pc = "settle"]]
       ELSE Ends(r)
  /\ UNCHANGED <<jobs, table, stored, settling, world>>

\* A request that finds the render in the map waits for the other to finish it.
SettleAnyway(r) ==   \* mutant
  /\ At(r, "settle")
  /\ settling' = settling \cup {req[r].job}
  /\ Go(r, "poll")
  /\ UNCHANGED <<jobs, table, stored, world>>
Settle(r) ==
  /\ At(r, "settle")
  /\ IF req[r].job \in settling
       THEN Ends(r) /\ UNCHANGED settling
       ELSE settling' = settling \cup {req[r].job} /\ Go(r, "poll")
  /\ UNCHANGED <<jobs, table, stored, world>>

\* poll reads status.json, then looks for the process.
PollReads(r) ==
  /\ At(r, "poll")
  /\ req' = [req EXCEPT ![r].read = status[req[r].job], ![r].pc = "answer"]
  /\ UNCHANGED <<jobs, table, stored, settling, world>>

StillRunningByStatus(j, read) == ~Ended(read)   \* mutant
StillRunning(j, read) == Running(j, read)

PollAnswers(r) ==
  /\ At(r, "answer")
  /\ LET j == req[r].job  read == req[r].read IN
     IF StillRunning(j, read)
       THEN Ends(r) /\ settling' = settling \ {j}
       ELSE /\ req' = [req EXCEPT ![r].read = "none",
                 ![r].pc = IF read = "succeeded" THEN "collect" ELSE "failed"]
            /\ UNCHANGED settling
  /\ UNCHANGED <<jobs, table, stored, world>>

Collect(r) ==
  /\ At(r, "collect")
  /\ Go(r, IF Collectable(req[r].job) THEN "persist" ELSE "failed")
  /\ UNCHANGED <<jobs, table, stored, settling, world>>

\* MediaArtifactService.persist reads the file, probes it and stores it.
Persist(r) ==
  /\ At(r, "persist")
  /\ LET j == req[r].job  n == made[j] + 1 IN
     \/ /\ Has(j, "output")
        /\ blobs' = blobs \cup {<<j, n>>}
        /\ made' = [made EXCEPT ![j] = n]
        /\ req' = [req EXCEPT ![r].video = n, ![r].pc = "done"]
     \/ Go(r, "failed") /\ UNCHANGED stored
  /\ UNCHANGED <<jobs, table, settling, world>>

MarkDone(r) ==
  /\ At(r, "done")
  /\ LET j == req[r].job IN
       IF row[j] = "rendering"
         THEN /\ row' = [row EXCEPT ![j] = "done"]
              /\ video' = [video EXCEPT ![j] = req[r].video]
              /\ handled' = handled \ {j}
         ELSE UNCHANGED table
  /\ Go(r, "tidy")
  /\ UNCHANGED <<jobs, stored, settling, world>>

MarkFailed(r) ==
  /\ At(r, "failed")
  /\ Update(req[r].job, "failed")
  /\ Go(r, "tidy")
  /\ UNCHANGED <<jobs, handled, video, stored, settling, world>>

Tidy(r) ==
  /\ At(r, "tidy")
  /\ Remove(req[r].job)
  /\ settling' = settling \ {req[r].job}
  /\ Ends(r)
  /\ UNCHANGED <<table, stored, world>>

-----------------------------------------------------------------------------
(* The rest of the world. *)

Step(r) ==
  \/ Select(r) \/ StopJob(r) \/ CleanStopped(r) \/ MarkCancelled(r) \/ DeleteRows(r)
  \/ Insert(r) \/ Spawn(r) \/ SaveHandle(r)
  \/ Look(r) \/ Settle(r) \/ PollReads(r) \/ PollAnswers(r) \/ Collect(r) \/ Persist(r)
  \/ MarkDone(r) \/ MarkFailed(r) \/ Tidy(r)

Process(j) ==
  /\ Supervise(j) \/ CommandEnds(j)
  /\ UNCHANGED <<table, stored, req, settling, world>>

\* A directory a day old is one that no request is at work in.
Sweep(j) ==
  /\ \A r \in Req : req[r].job # j
  /\ Reap(j)
  /\ UNCHANGED <<table, stored, req, settling, world>>

Restart ==
  /\ restarts < budget.restarts
  /\ restarts' = restarts + 1
  /\ req' = [r \in Req |-> Idle]
  /\ settling' = {}
  /\ ProcessesDie \/ UNCHANGED jobs
  /\ UNCHANGED <<table, stored, budget>>

Next ==
  \/ \E r \in Req : (\E kind \in Kinds : Begin(r, kind)) \/ Step(r)
  \/ \E j \in Job : Process(j) \/ Sweep(j)
  \/ Restart

Spec == Init /\ [][Next]_vars

(* A request that runs goes on, the supervisor ends its command in time, and *)
(* the editor asks every moment or two while it shows a render.              *)
Asked == \E r \in Req : Begin(r, "ask")
Fairness ==
  /\ \A r \in Req : WF_vars(Step(r))
  /\ \A j \in Job : WF_vars(Supervise(j) /\ UNCHANGED <<table, stored, req, settling, world>>)
  /\ WF_vars(Asked)
FairSpec == Spec /\ Fairness

-----------------------------------------------------------------------------
(* Properties. *)

TypeOK ==
  /\ JobsTypeOK
  /\ row \in [Job -> RowState]
  /\ handled \subseteq Job
  /\ video \in [Job -> Nat]
  /\ blobs \subseteq Job \X Nat
  /\ made \in [Job -> Nat]
  /\ req \in [Req -> Request]
  /\ settling \subseteq Job
  /\ restarts \in 0..budget.restarts
  /\ budget \in Budget

(* However many requests finish a render, its video is stored once; only a   *)
(* restart between the storing and the row makes another (the map settling,  *)
(* "so two requests don't store the same video twice").                      *)
StoredOnce == \A j \in Job : made[j] <= 1 + restarts

(* What the person was shown stays: a render that is done, failed or         *)
(* cancelled is not turned into another by a request that read it earlier,   *)
(* and a video stays while its row names it.                                 *)
ShownIsKept ==
  [][\A j \in Job : row[j] \in Shown =>
       /\ row'[j] \in {row[j], "deleted"}
       /\ row'[j] = "done" => video'[j] = video[j] /\ <<j, video[j]>> \in blobs']_vars

(* The latest render, once its job is known, comes to an end by being asked  *)
(* about, whatever becomes of its process or of the API.                     *)
RenderSettles ==
  \A j \in Job : row[j] = "rendering" /\ j \in handled /\ Latest = j
                   ~> row[j] # "rendering" \/ Latest # j

(* Cancel render stops it (docs/video/timeline-editor.md): the command of a *)
(* render that is marked cancelled does not run.                             *)
CancelStops == \A j \in Job : row[j] = "cancelled" => command[j] # "running"
=============================================================================
