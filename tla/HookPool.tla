------------------------------ MODULE HookPool ------------------------------
(***************************************************************************)
(* What theme::HookRunner promises to the thread that feeds it: a pool of  *)
(* hooks, each belonging to a generation.  A hook waits in `queued' until  *)
(* the pool starts it, and is then `live' until its process is gone.       *)
(*                                                                         *)
(*   - at most MaxConcurrent hooks are live;                               *)
(*   - once the floor is raised, no hook of an older generation starts;    *)
(*   - waitIdle returns only when nothing is queued or live, or when the   *)
(*     pool has been closed;                                               *)
(*   - the destructor returns only when nothing is live, and nothing       *)
(*     starts afterwards.                                                  *)
(*                                                                         *)
(* HookRunner.tla implements this module; TemplateApplyService.tla uses it *)
(* in place of the runner.                                                 *)
(***************************************************************************)
EXTENDS Naturals, FiniteSets

CONSTANTS
  Hook,           \* one element per call of HookRunner::enqueue
  GenOf,          \* the generation each hook is enqueued with
  MaxGen,         \* bound: the largest generation
  MaxConcurrent   \* HookRunner's maxConcurrent

VARIABLES
  queued,    \* hooks accepted and not started
  live,      \* hooks started whose end the pool has not yet noted
  floor,     \* currentGeneration: older hooks are discarded
  closed,    \* requestShutdown() was called
  waiting,   \* the feeding thread is inside waitIdle()
  gone       \* the destructor has returned

vars == <<queued, live, floor, closed, waiting, gone>>

TypeOK ==
  /\ queued \subseteq Hook
  /\ live \subseteq Hook
  /\ floor \in 0..MaxGen
  /\ closed \in BOOLEAN
  /\ waiting \in BOOLEAN
  /\ gone \in BOOLEAN

Init ==
  /\ queued = {}
  /\ live = {}
  /\ floor = 0
  /\ closed = FALSE
  /\ waiting = FALSE
  /\ gone = FALSE

Idle == queued = {} /\ live = {}

(* A hook of the current generation joins the pool; one that is too old,   *)
(* or comes after the close, is dropped.                                   *)
Accepts(h) == ~closed /\ GenOf[h] >= floor

Submit(h) ==
  /\ ~waiting
  /\ h \notin queued \cup live
  /\ queued' = IF Accepts(h) THEN queued \cup {h} ELSE queued
  /\ UNCHANGED <<live, floor, closed, waiting, gone>>

Start(h) ==
  /\ ~closed
  /\ h \in queued
  /\ GenOf[h] >= floor
  /\ Cardinality(live) < MaxConcurrent
  /\ queued' = queued \ {h}
  /\ live' = live \cup {h}
  /\ UNCHANGED <<floor, closed, waiting, gone>>

Finish(h) ==
  /\ h \in live
  /\ live' = live \ {h}
  /\ UNCHANGED <<queued, floor, closed, waiting, gone>>

InvalidateBefore(g) ==
  /\ ~waiting
  /\ g > floor
  /\ floor' = g
  /\ queued' = {h \in queued : GenOf[h] >= g}
  /\ UNCHANGED <<live, closed, waiting, gone>>

BeginWait ==
  /\ ~waiting
  /\ waiting' = TRUE
  /\ UNCHANGED <<queued, live, floor, closed, gone>>

EndWait ==
  /\ waiting
  /\ closed \/ Idle
  /\ waiting' = FALSE
  /\ UNCHANGED <<queued, live, floor, closed, gone>>

Close ==
  /\ closed' = TRUE
  /\ queued' = {}
  /\ UNCHANGED <<live, floor, waiting, gone>>

Destroy ==
  /\ closed
  /\ ~waiting
  /\ live = {}
  /\ gone' = TRUE
  /\ UNCHANGED <<queued, live, floor, closed, waiting>>

Next ==
  \/ \E h \in Hook : Submit(h) \/ Start(h) \/ Finish(h)
  \/ \E g \in 1..MaxGen : InvalidateBefore(g)
  \/ BeginWait \/ EndWait
  \/ Close \/ Destroy

Spec == Init /\ [][Next]_vars
=============================================================================
