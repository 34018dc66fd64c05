SPECIFICATION FairSpec
CONSTANTS
  MaxTurns = 5
  MaxCalls = 2
  MaxNotes = 2
  Budgets <- CardsAndWakes
  WakeLimit = 2
  Modes = {"manual", "plan"}
  Kinds = {"change", "destroy", "uncertain"}
  Answers = {"yes", "yes_auto", "yes_turn"}
  Ops = {"refused", "interrupt", "mode", "plan", "watch", "unwatch", "delete"}
INVARIANTS
  TypeOK
  OneTurn
  NothingIsStranded
  ToldOnce
PROPERTIES
  ConsentFirst
  TurnsEnd
CHECK_DEADLOCK FALSE
