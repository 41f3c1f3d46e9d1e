---------------------------- MODULE MCIdleManager ----------------------------
(* An instance of IdleManager for TLC: a lock, monitors that are switched  *)
(* off, later in a locked session, and a command that only runs there.     *)
EXTENDS IdleManager

FreeTimeouts ==
  [b \in Behavior |-> CASE b = "lock" -> 2 [] b = "screen_off" -> 1 [] OTHER -> 0]
LockedTimeouts ==
  [b \in Behavior |-> CASE b = "lock" -> 0 [] b = "screen_off" -> 3 [] OTHER -> 1]

AllConfigs == [on : {Behavior}, fade : BOOLEAN] \cup [on : {Locks}, fade : {TRUE}]
=============================================================================
