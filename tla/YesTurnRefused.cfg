SPECIFICATION Spec
CONSTANTS
  MaxTurns = 1
  MaxCalls = 1
  MaxNotes = 0
  Budgets <- OneCard
  WakeLimit = 2
  Modes = {"manual"}
  Kinds = {"change"}
  Answers = {"yes_turn"}
  Ops = {}
INVARIANT YesTurnIsYes
CHECK_DEADLOCK FALSE
