SPECIFICATION FairSpec
CONSTANTS
  a1 = a1
  a2 = a2
  voice = voice
  Attempt = {a1, a2}
  Stage = {voice}
  StageOf <- OfOneStage
  Ceiling <- TwoDollars
  InitialCap = 5
  InitialStageCap <- CapOfThree
  ItemOf <- WholeStages
  After <- OneByOne
  Adapter <- QueueMemory
  Costs <- Free
  Results = {"normal", "throws", "stall", "deferred"}
  QcCosts = {1}
  NewCaps = {}
  NewStageCaps = {5}
  Ops = {}
  Reconciler = {"request"}
  Late = TRUE
  MaxReplays = 0
  MaxEpoch = 2
PROPERTIES
  SettledOnce
  ReservationsSettle
CHECK_DEADLOCK FALSE
