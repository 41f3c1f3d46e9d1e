CONSTANTS
  o1 = o1
  o2 = o2
  Output = {o1, o2}
  LateSuspend = TRUE
  MaxChanges = 2
  MaxFinish = 2
SPECIFICATION Spec
INVARIANTS
  SuspendHasLock
