CONSTANTS
  gtk = gtk
  kde = kde
  dark = dark
  light = light
  None = None
  Template <- TwoTemplates
  Inline <- InlineKde
  Look <- OneLook
  Paced = FALSE
  MaxGen = 2
  MaxRestarts = 1
  MaxDeferred = 1
  MaxChanges = 1
  MaxConcurrent = 4
SPECIFICATION Spec
INVARIANTS
  OutputAccounted
CHECK_DEADLOCK FALSE
