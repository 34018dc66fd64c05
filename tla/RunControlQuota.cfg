SPECIFICATION FairSpec
CONSTANTS
  script = script
  voice = voice
  video = video
  Stage <- Three
  Deps <- Fork
  Approval = {}
  Input = {}
  Disabled = {voice}
  Concurrency = 2
  Outcomes = {"success", "deferred"}
  Ops = {"start", "pause", "resume", "cancel"}
  Restarts = FALSE
  MaxRevision = 4
  MaxEpoch = 5
PROPERTIES
  QuotaResumes
CHECK_DEADLOCK FALSE
