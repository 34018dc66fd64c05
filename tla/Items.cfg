SPECIFICATION FairSpec
CONSTANTS
  MaxItems = 2
  Sizes = {1, 2}
  Modes = {"none", "item", "stage"}
  Concurrency <- Two2One
  BindsPrev = {}
  Results = {"passed", "failed", "crash", "budget_blocked", "run_not_running"}
  Ops = {"pause", "stop", "approve", "reject", "continue", "keep", "edit_source", "rerun_source", "rerun_stage", "rerun_item", "retry_source", "retry_failed"}
  MaxVersion = 2
  MaxOps = 3
INVARIANTS
  TypeOK
  OneIdentity
  CompletedHasAll
  WaitsMatch
PROPERTIES
  AcceptedIsKept
  RecordedReadersGoStale
  FailureIsShown
  ExecutionEnds
CHECK_DEADLOCK FALSE
