SPECIFICATION Spec
CONSTANTS
  script = script
  voice = voice
  video = video
  Stage <- Two
  Deps <- Chain
  Approval = {script}
  Input = {}
  Disabled = {}
  Concurrency = 1
  Outcomes = {"success", "failure", "user_action", "crash"}
  Ops = {"start", "pause", "resume", "cancel", "approve", "reject", "retry", "plan", "patch_overrides", "settings"}
  Restarts = TRUE
  MaxRevision = 5
  MaxEpoch = 5
INVARIANTS
  TypeOK
  OneClaimPerEpoch
  WorksOnAccepted
  CompletedMeansDone
  CancelledIsSettled
PROPERTIES
  StaleIsRegenerated
  RetiredWritesNothing
CHECK_DEADLOCK FALSE
