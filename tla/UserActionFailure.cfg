SPECIFICATION Spec
CONSTANTS
  script = script
  voice = voice
  video = video
  Stage <- Two
  Deps <- Chain
  Approval = {}
  Input = {}
  Disabled = {}
  Concurrency = 1
  Outcomes = {"success", "user_action"}
  Ops = {"start", "resume"}
  Restarts = FALSE
  MaxRevision = 3
  MaxEpoch = 4
INVARIANTS
  StoppedCanContinue
CHECK_DEADLOCK FALSE
