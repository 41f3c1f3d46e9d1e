CONSTANTS
  h1 = h1
  h2 = h2
  h3 = h3
  h4 = h4
  Hook <- MCHook
  GenOf <- MCGenOf
  MaxGen = 2
  MaxConcurrent = 2
  Worker = Worker
  NoHook = NoHook
SPECIFICATION FairSpec
INVARIANTS
  NoLostWakeup
PROPERTIES
  ImplementsPool
  WaitersReturn
CHECK_DEADLOCK FALSE
