SPECIFICATION FairSpec
CONSTANTS
  script = script
  voice = voice
  video = video
  Stage <- Two
  Deps <- Branches
  Approval = {script}
  Input = {voice}
  Disabled = {}
  Concurrency = 2
  Outcomes = {"success", "failure", "budget", "qc_error"}
  Ops = {"start", "pause", "resume", "cancel", "approve", "submit_input", "reject", "retry_qc"}
  Restarts = FALSE
  MaxRevision = 5
  MaxEpoch = 5
INVARIANTS
  ParkedHasWayOut
  WorkMatchesState
PROPERTIES
  PauseIsKept
  WorkSettles
CHECK_DEADLOCK FALSE
