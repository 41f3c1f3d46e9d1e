CONSTANTS
  o1 = o1
  o2 = o2
  Output = {o1, o2}
  LateSuspend = FALSE
  MaxChanges = 2
  MaxFinish = 2
SPECIFICATION FairSpec
INVARIANTS
  SuspendHasLock
  WaitersHaveDeadline
PROPERTIES
  SafePowerOff
  Settles
