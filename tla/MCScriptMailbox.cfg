SPECIFICATION FairSpec
CONSTANTS
  Worker = {w1, w2}
  Subscriber = {}
  All = All
  Kinds = {"Update", "Call", "Hover", "Stream"}
  Script <- MailboxScripts
  Handlers = {FALSE}
  MaxQueue = 2
  MaxConsecutive = 2
  MaxTimeouts = 2
  MaxErrors = 2
  MaxGen = 2
  MaxCalls = 4
  MaxConfig = 0
INVARIANTS UpdateFlagExact
PROPERTIES ImplementsMailbox StopReturns LoadTakesEffect
CHECK_DEADLOCK FALSE
