SPECIFICATION Spec
CONSTANTS
  r1 = r1
  r2 = r2
  Req = {r1}
  Job <- TwoRenders
  Budgets <- OneCancel
INVARIANT CancelStops
CHECK_DEADLOCK FALSE
