CONSTANTS
  gtk = gtk
  kde = kde
  dark = dark
  light = light
  None = None
  Template <- OneTemplate
  Inline <- NoTemplate
  Look <- TwoLooks
  Paced = FALSE
  MaxGen = 2
  MaxRestarts = 0
  MaxDeferred = 2
  MaxChanges = 2
  MaxConcurrent = 4
SPECIFICATION FairSpec
INVARIANTS
  ReportsInOrder
PROPERTIES
  ChangeReported
  ShutdownCompletes
CHECK_DEADLOCK FALSE
