---------------------------- MODULE MCHookRunner ----------------------------
(* A small instance: two hooks of generation 1 and two of generation 2.    *)
EXTENDS HookRunner, TLC

CONSTANTS h1, h2, h3, h4

MCHook == {h1, h2, h3, h4}
MCGenOf == (h1 :> 1) @@ (h2 :> 1) @@ (h3 :> 2) @@ (h4 :> 2)
=============================================================================
