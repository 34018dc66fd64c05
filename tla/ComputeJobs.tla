----------------------------- MODULE ComputeJobs -----------------------------
(***************************************************************************)
(* Compute jobs: a directory per job under the workspace, a supervisor that *)
(* outlives the API (ComputeJobService.spawn starts it detached) and the    *)
(* command it starts in turn, detached as well.  The operators with a prime *)
(* are what the service's methods do between two awaits; the actions are    *)
(* those of the processes, which go on whatever becomes of the API.         *)
(* A pid given to another process is left out, and so is spawn.lock, which  *)
(* matters only when one job is submitted twice.                            *)
(***************************************************************************)
CONSTANT Job

VARIABLES
  files,   \* [Job -> SUBSET File], what is in the job's directory
  status,  \* [Job -> Status], status.json in it
  sup,     \* [Job -> Supervisor], the process of the handle's pid
  command  \* [Job -> Command], the process it started

jobs == <<files, status, sup, command>>

File    == {"dir", "inputs", "spec", "handle", "output"}
Status  == {"none", "running", "succeeded", "failed"}
Command == {"none", "running", "zero", "other"}
\* "succeeded" and "failed": it knows how the command ended, and will write so
Supervisor == {"none", "started", "reported", "waiting", "succeeded", "failed",
               "exiting", "gone"}

JobsInit ==
  /\ files   = [j \in Job |-> {}]
  /\ status  = [j \in Job |-> "none"]
  /\ sup     = [j \in Job |-> "none"]
  /\ command = [j \in Job |-> "none"]

Has(j, f)   == f \in files[j]
Alive(j)    == sup[j] \notin {"none", "gone"}
Put(j, fs)  == files' = [files EXCEPT ![j] = files[j] \cup fs]
Becomes(j, s) == sup' = [sup EXCEPT ![j] = s]

-----------------------------------------------------------------------------
(* The methods of ComputeJobService. *)

\* spawn.  Making the inputs' directory makes the job's own again if it is gone.
ClaimSpawn(j)      == Put(j, {"dir"}) /\ UNCHANGED <<status, sup, command>>
CopyInputs(j)      == Put(j, {"dir", "inputs"}) /\ UNCHANGED <<status, sup, command>>
WriteSpec(j)       == Has(j, "inputs") /\ Put(j, {"spec"}) /\ UNCHANGED <<status, sup, command>>
StartSupervisor(j) == Becomes(j, "started") /\ UNCHANGED <<files, status, command>>
WriteHandle(j)     == Has(j, "dir") /\ Put(j, {"handle"}) /\ UNCHANGED <<status, sup, command>>

\* poll, of a status read earlier
Ended(read)      == read \in {"succeeded", "failed"}
Running(j, read) == ~Ended(read) /\ Alive(j)

Collectable(j) == status[j] = "succeeded" /\ Has(j, "spec") /\ Has(j, "output")

\* cancel.  The signal goes to the supervisor's process group; the command
\* leads a group of its own.
TerminateAll(j) ==   \* mutant
  /\ sup'     = [sup EXCEPT ![j] = IF Alive(j) THEN "gone" ELSE sup[j]]
  /\ command' = [command EXCEPT ![j] = IF command[j] = "running" THEN "other" ELSE command[j]]
  /\ UNCHANGED <<files, status>>
Terminate(j) ==
  /\ sup' = [sup EXCEPT ![j] = IF Alive(j) THEN "gone" ELSE sup[j]]
  /\ UNCHANGED <<files, status, command>>

\* cleanup
Remove(j) ==
  /\ files'  = [files EXCEPT ![j] = {}]
  /\ status' = [status EXCEPT ![j] = "none"]
  /\ UNCHANGED <<sup, command>>

\* reap, of a directory that is a day old: a command may run a quarter of an
\* hour, so the supervisor of such a directory is long gone.
Reap(j) ==
  /\ Has(j, "dir")
  /\ ~Alive(j)
  /\ Remove(j)

-----------------------------------------------------------------------------
(* compute-supervisor.ts.  What it cannot write, because the directory is    *)
(* gone, ends it.                                                            *)

SupervisorReports(j) ==
  /\ sup[j] = "started"
  /\ IF Has(j, "spec") THEN /\ status' = [status EXCEPT ![j] = "running"]
                            /\ Becomes(j, "reported")
                       ELSE Becomes(j, "gone") /\ UNCHANGED status
  /\ UNCHANGED <<files, command>>

SupervisorRuns(j) ==
  /\ sup[j] = "reported"
  /\ \/ /\ Has(j, "dir")
        /\ command' = [command EXCEPT ![j] = "running"]
        /\ Becomes(j, "waiting")
     \/ /\ Has(j, "dir")
        /\ Becomes(j, "failed")
        /\ UNCHANGED command
     \/ /\ ~Has(j, "dir")
        /\ Becomes(j, "gone")
        /\ UNCHANGED command
  /\ UNCHANGED <<files, status>>

CommandEnds(j) ==
  /\ command[j] = "running"
  /\ \/ /\ Has(j, "dir")
        /\ command' = [command EXCEPT ![j] = "zero"]
        /\ Put(j, {"output"})
     \/ /\ command' = [command EXCEPT ![j] = "other"]
        /\ UNCHANGED files
  /\ UNCHANGED <<status, sup>>

SupervisorSees(j) ==
  /\ sup[j] = "waiting"
  /\ command[j] # "running"
  /\ Becomes(j, IF command[j] = "zero" THEN "succeeded" ELSE "failed")
  /\ UNCHANGED <<files, status, command>>

\* the job's maxWaitSec
SupervisorTimesOut(j) ==
  /\ sup[j] = "waiting"
  /\ command[j] = "running"
  /\ command' = [command EXCEPT ![j] = "other"]
  /\ Becomes(j, "failed")
  /\ UNCHANGED <<files, status>>

SupervisorWrites(j) ==
  /\ sup[j] \in {"succeeded", "failed"}
  /\ IF Has(j, "dir") THEN /\ status' = [status EXCEPT ![j] = sup[j]]
                           /\ Becomes(j, "exiting")
                      ELSE Becomes(j, "gone") /\ UNCHANGED status
  /\ UNCHANGED <<files, command>>

SupervisorExits(j) ==
  /\ sup[j] = "exiting"
  /\ Becomes(j, "gone")
  /\ UNCHANGED <<files, status, command>>

Supervise(j) ==
  \/ SupervisorReports(j) \/ SupervisorRuns(j) \/ SupervisorSees(j)
  \/ SupervisorTimesOut(j) \/ SupervisorWrites(j) \/ SupervisorExits(j)

\* The machine, or the container, stops: every process ends with it.
ProcessesDie ==
  /\ sup'     = [j \in Job |-> IF Alive(j) THEN "gone" ELSE sup[j]]
  /\ command' = [j \in Job |-> IF command[j] = "running" THEN "other" ELSE command[j]]
  /\ UNCHANGED <<files, status>>

JobsTypeOK ==
  /\ files   \in [Job -> SUBSET File]
  /\ status  \in [Job -> Status]
  /\ sup     \in [Job -> Supervisor]
  /\ command \in [Job -> Command]
=============================================================================
