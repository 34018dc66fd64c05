SPECIFICATION FairSpec
CONSTANTS
  r1 = r1
  r2 = r2
  Req = {r1, r2}
  Job <- TwoRenders
  Budgets <- Mixed
INVARIANTS
  TypeOK
  StoredOnce
PROPERTIES
  ShownIsKept
  RenderSettles
CHECK_DEADLOCK FALSE
