CONSTANTS
  gtk = gtk
  kde = kde
  dark = dark
  light = light
  None = None
  Template <- TwoTemplates
  Inline <- InlineKde
  Look <- OneLook
  Paced = TRUE
  MaxGen = 3
  MaxRestarts = 1
  MaxDeferred = 1
  MaxChanges = 1
  MaxConcurrent = 4
SPECIFICATION Spec
INVARIANTS
  OnlyOwnHooks
  InlineHookAlone
  ChangeNeverLost
  WarningsOfOwnRun
  OutputAccounted
CHECK_DEADLOCK FALSE
