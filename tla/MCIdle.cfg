SPECIFICATION FairSpec
CONSTANTS
  Behavior = {"lock", "screen_off", "command"}
  Locks = {"lock"}
  Undone = {"screen_off", "command"}
  Free <- FreeTimeouts
  Locked <- LockedTimeouts
  Configs <- AllConfigs
  Paced = TRUE
INVARIANTS OverlayOwned ActionRemembered WatchesOn
PROPERTIES InhibitedActsNot ActsAfterItsFade FadeEnds UndoneOnReturn
CHECK_DEADLOCK FALSE
