SPECIFICATION Spec
CONSTANTS
  a1 = a1
  a2 = a2
  voice = voice
  Attempt = {a1, a2}
  Stage = {voice}
  StageOf <- OfOneStage
  Ceiling <- TwoDollars
  InitialCap = 3
  InitialStageCap <- CapOfThree
  ItemOf <- WholeStages
  After <- OneByOne
  Adapter <- DirectQueue
  Costs <- SecondFree
  Results = {"normal", "rejected", "timeout", "throws", "qc_failed"}
  QcCosts = {1}
  NewCaps = {}
  NewStageCaps = {}
  Ops = {"cancel"}
  Reconciler = {"request", "event"}
  Late = FALSE
  MaxReplays = 1
  MaxEpoch = 2
INVARIANTS
  TypeOK
  BilledIsBooked
  Balanced
PROPERTIES
  OutcomeStays
CHECK_DEADLOCK FALSE
