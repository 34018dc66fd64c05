SPECIFICATION Spec
CONSTANTS
  a1 = a1
  a2 = a2
  voice = voice
  Attempt = {a1, a2}
  Stage = {voice}
  StageOf <- OfOneStage
  Ceiling <- TwoDollars
  InitialCap = 3
  InitialStageCap <- CapOfTwo
  ItemOf <- TwoItems
  After <- Together
  Adapter <- FirstQueue
  Costs <- OneDollar
  Results = {"normal", "timeout", "user_action", "failed", "invalid", "check_failed", "throws", "rejected", "qc_failed"}
  QcCosts = {1}
  NewCaps = {5}
  NewStageCaps = {5}
  Ops = {"pause", "cancel"}
  Reconciler = {"request"}
  Late = FALSE
  MaxReplays = 0
  MaxEpoch = 2
INVARIANTS
  WithinCaps
  ReleasedIsUnbilled
  CancelledIsBooked
PROPERTIES
  RetiredDeliversNothing
CHECK_DEADLOCK FALSE
