SPECIFICATION Spec
CONSTANTS
  Worker = {w1}
  Subscriber = {s1}
  All = All
  Kinds = {"Call"}
  Script <- ResultScripts
  Handlers = {TRUE}
  MaxQueue = 2
  MaxConsecutive = 2
  MaxTimeouts = 2
  MaxErrors = 2
  MaxGen = 2
  MaxCalls = 3
  MaxConfig = 1
INVARIANTS ResultOfItsHost FreshBudget SubscriberServed StoppedIsSilent
PROPERTY ViewsAdvance
CHECK_DEADLOCK FALSE
