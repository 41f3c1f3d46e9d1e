--------------------------- MODULE MCScriptRuntime ---------------------------
(* Behaviours of the scripts that the runs of ScriptRuntime model.         *)
EXTENDS ScriptRuntime

Does(verdict, patch, watch, ask, read, sound) ==
  [outcome |-> verdict, patches |-> patch, watches |-> watch, asks |-> ask, reads |-> read,
   sounds |-> sound]

Asks == Does("ok", FALSE, FALSE, TRUE, FALSE, TRUE)
Busy == Does("ok", TRUE, TRUE, FALSE, TRUE, FALSE)
Slow == Does("timeout", FALSE, FALSE, FALSE, FALSE, FALSE)
Fails == Does("error", TRUE, FALSE, FALSE, FALSE, FALSE)

\* Mailbox: every script call leaves an operation behind and loads a sound.
MailboxScripts == {Asks}

\* Results: calls that patch, watch and read, fail, or use up their budget.
ResultScripts == {Busy, Slow, Fails}
=============================================================================
