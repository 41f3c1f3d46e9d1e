----------------------------- MODULE HookRunner -----------------------------
(***************************************************************************)
(* theme::HookRunner (src/src/theme/hook_runner.cpp).                      *)
(*                                                                         *)
(* The runner has no thread of its own.  pump() runs on whichever thread   *)
(* calls enqueue() and on the completion thread of every hook process, so  *)
(* several pumps interleave; all of them touch State only under its mutex. *)
(* One action here is one critical section, or one call made between two   *)
(* of them (runAsync, the failure report).  The condition variable idleCv  *)
(* is modelled with its sleepers: a notify wakes them, and a predicate     *)
(* that becomes true without a notify leaves them asleep.  State::queue is *)
(* the set of hooks whose status is "queued", in the order of `arrival'.   *)
(*                                                                         *)
(* Two client threads, as in TemplateApplyService: Worker enqueues,        *)
(* invalidates and waits; the main thread calls requestShutdown(), joins   *)
(* the worker and then destroys the runner.                                *)
(***************************************************************************)
EXTENDS Naturals, FiniteSets

CONSTANTS
  Hook,           \* one element per enqueue() call
  GenOf,          \* generation passed with it
  MaxGen,         \* bound: the largest generation
  MaxConcurrent,  \* State::maxConcurrent
  Worker,         \* the thread that calls enqueue()
  NoHook

ASSUME HookRunnerAssumption ==
  /\ IsFiniteSet(Hook)
  /\ MaxGen \in Nat
  /\ GenOf \in [Hook -> 0..MaxGen]
  /\ MaxConcurrent \in Nat \ {0}
  /\ Worker \notin Hook
  /\ NoHook \notin Hook

\* Threads that can be inside pump(): a hook stands for its completion thread.
Thread == Hook \cup {Worker}

VARIABLES
  arrival,            \* order of the queue: hooks are numbered as they join it
  arrivals,           \* hooks that have joined it
  running,            \* State::running
  currentGeneration,  \* State::currentGeneration
  shutdown,           \* State::shutdown
  status,             \* where each hook is in its life
  pump,               \* where each thread is inside pump()
  held,               \* the hook a pumping thread is launching
  wk,                 \* the worker thread
  mn                  \* the main thread

queueOrder == <<arrival, arrivals>>
vars == <<queueOrder, running, currentGeneration, shutdown, status, pump, held, wk, mn>>

\* A hook that State::running counts.
CountedStatus == {"launching", "alive", "failed", "exited"}
Status == {"new", "queued", "done"} \cup CountedStatus
Counted == {h \in Hook : status[h] \in CountedStatus}
Queued == {h \in Hook : status[h] = "queued"}

TypeOK ==
  /\ arrival \in [Hook -> Nat] /\ arrivals \in Nat
  /\ running \in Nat
  /\ currentGeneration \in 0..MaxGen
  /\ shutdown \in BOOLEAN
  /\ status \in [Hook -> Status]
  /\ pump \in [Thread -> {"off", "scan", "launch"}]
  /\ held \in [Thread -> Hook \cup {NoHook}]
  /\ wk \in {"ready", "pumping", "waitIdle", "asleep", "left"}
  /\ mn \in {"up", "closed", "dtor", "asleep", "gone"}

Init ==
  /\ arrival = [h \in Hook |-> 0] /\ arrivals = 0
  /\ running = 0
  /\ currentGeneration = 0
  /\ shutdown = FALSE
  /\ status = [h \in Hook |-> "new"]
  /\ pump = [t \in Thread |-> "off"]
  /\ held = [t \in Thread |-> NoHook]
  /\ wk = "ready"
  /\ mn = "up"

-----------------------------------------------------------------------------
IdleState == Queued = {} /\ running = 0

\* idleCv.notify_all(): every sleeper re-evaluates its predicate.
NotifyAll ==
  /\ wk' = IF wk = "asleep" THEN "waitIdle" ELSE wk
  /\ mn' = IF mn = "asleep" THEN "dtor" ELSE mn

-----------------------------------------------------------------------------
(* The worker thread.                                                      *)

\* enqueue(): refused after shutdown or for an old generation, else queued
\* and pumped by the caller.
Enqueue(h) ==
  /\ wk = "ready"
  /\ status[h] = "new"
  /\ IF shutdown \/ GenOf[h] < currentGeneration
     THEN /\ status' = [status EXCEPT ![h] = "done"]
          /\ UNCHANGED <<queueOrder, pump, wk>>
     ELSE /\ status' = [status EXCEPT ![h] = "queued"]
          /\ arrivals' = arrivals + 1
          /\ arrival' = [arrival EXCEPT ![h] = arrivals']
          /\ pump' = [pump EXCEPT ![Worker] = "scan"]
          /\ wk' = "pumping"
  /\ UNCHANGED <<running, currentGeneration, shutdown, held, mn>>

\* Only queued hooks have a place in the queue.
KeepOrder == arrival' = [h \in Hook |-> IF status'[h] = "queued" THEN arrival[h] ELSE 0]

\* Hooks in S leave the queue unstarted.
Drop(S) ==
  /\ status' = [h \in Hook |-> IF h \in S THEN "done" ELSE status[h]]
  /\ KeepOrder
  /\ UNCHANGED arrivals

\* invalidateBefore(): queued hooks of older generations are erased.
InvalidateBefore(g) ==
  /\ wk = "ready"
  /\ g > currentGeneration
  /\ currentGeneration' = g
  /\ Drop({h \in Queued : GenOf[h] < g})
  /\ IF Queued' = {} /\ running = 0 THEN NotifyAll ELSE UNCHANGED <<wk, mn>>
  /\ UNCHANGED <<running, shutdown, pump, held>>

CallWaitIdle ==
  /\ wk = "ready"
  /\ wk' = "waitIdle"
  /\ UNCHANGED <<queueOrder, running, currentGeneration, shutdown, status, pump, held, mn>>

\* One evaluation of waitIdle()'s predicate under the mutex.
WaitIdle ==
  /\ wk = "waitIdle"
  /\ wk' = IF shutdown \/ IdleState THEN "ready" ELSE "asleep"
  /\ UNCHANGED <<queueOrder, running, currentGeneration, shutdown, status, pump, held, mn>>

\* The worker's loop returns once the service is shutting down.
WorkerLeaves ==
  /\ wk = "ready"
  /\ shutdown
  /\ wk' = "left"
  /\ UNCHANGED <<queueOrder, running, currentGeneration, shutdown, status, pump, held, mn>>

-----------------------------------------------------------------------------
(* pump(), on thread t.                                                    *)

CanStart == ~shutdown /\ running < MaxConcurrent
Stale(h) == GenOf[h] < currentGeneration
Ahead(h) == {k \in Queued : arrival[k] < arrival[h]}

\* The first hook of the queue that is not stale; those before it are popped too.
IsNext(h) == h \in Queued /\ ~Stale(h) /\ \A k \in Ahead(h) : Stale(k)

\* A hook is popped and counted before it is launched.
PumpStart(t, h) ==
  /\ pump[t] = "scan"
  /\ CanStart
  /\ IsNext(h)
  /\ status' = [k \in Hook |-> IF k = h THEN "launching"
                               ELSE IF k \in Ahead(h) THEN "done" ELSE status[k]]
  /\ running' = running + 1
  /\ pump' = [pump EXCEPT ![t] = "launch"]
  /\ held' = [held EXCEPT ![t] = h]
  /\ KeepOrder
  /\ UNCHANGED <<arrivals, currentGeneration, shutdown, wk, mn>>

\* Nothing (more) to start: notify if the runner is idle, and return.
PumpReturn(t) ==
  /\ pump[t] = "scan"
  /\ ~(CanStart /\ \E h \in Hook : IsNext(h))
  /\ Drop(IF CanStart THEN Queued ELSE {})
  /\ pump' = [pump EXCEPT ![t] = "off"]
  /\ LET notify == Queued' = {} /\ running = 0
     IN /\ wk' = IF t = Worker THEN "ready"
                 ELSE IF notify /\ wk = "asleep" THEN "waitIdle" ELSE wk
        /\ mn' = IF notify /\ mn = "asleep" THEN "dtor" ELSE mn
  /\ UNCHANGED <<running, currentGeneration, shutdown, held>>

\* process::runAsync() starts the hook, or cannot.
Launch(t) ==
  /\ pump[t] = "launch"
  /\ status[held[t]] = "launching"
  /\ \E outcome \in {"alive", "failed"} :
       status' = [status EXCEPT ![held[t]] = outcome]
  /\ UNCHANGED <<queueOrder, running, currentGeneration, shutdown, pump, held, wk, mn>>

\* runAsync() returned true; the hook may already be over by then.
LaunchReturns(t) ==
  /\ pump[t] = "launch"
  /\ status[held[t]] \in {"alive", "exited", "done"}
  /\ pump' = [pump EXCEPT ![t] = "scan"]
  /\ held' = [held EXCEPT ![t] = NoHook]
  /\ UNCHANGED <<queueOrder, running, currentGeneration, shutdown, status, wk, mn>>

\* It returned false: uncount the hook, then scan again.
LaunchFailed(t) ==
  /\ pump[t] = "launch"
  /\ status[held[t]] = "failed"
  /\ status' = [status EXCEPT ![held[t]] = "done"]
  /\ running' = running - 1
  /\ pump' = [pump EXCEPT ![t] = "scan"]
  /\ held' = [held EXCEPT ![t] = NoHook]
  /\ UNCHANGED <<queueOrder, currentGeneration, shutdown, wk, mn>>

-----------------------------------------------------------------------------
(* The hook's completion thread.                                           *)

\* The process ends, by itself or by the cancel flag; onExit reports.
Exit(h) ==
  /\ status[h] = "alive"
  /\ status' = [status EXCEPT ![h] = "exited"]
  /\ UNCHANGED <<queueOrder, running, currentGeneration, shutdown, pump, held, wk, mn>>

\* Mutant: onExit does not pump.
OnExitSilent(h) ==
  /\ status[h] = "exited"
  /\ status' = [status EXCEPT ![h] = "done"]
  /\ running' = running - 1
  /\ UNCHANGED <<pump, queueOrder, currentGeneration, shutdown, held, wk, mn>>

\* onExit uncounts the hook and then pumps in a second critical section.
OnExit(h) ==
  /\ status[h] = "exited"
  /\ status' = [status EXCEPT ![h] = "done"]
  /\ running' = running - 1
  /\ pump' = [pump EXCEPT ![h] = "scan"]
  /\ UNCHANGED <<queueOrder, currentGeneration, shutdown, held, wk, mn>>

-----------------------------------------------------------------------------
(* The main thread.                                                        *)

\* Mutant: requestShutdown() does not notify.
RequestShutdownSilent ==
  /\ mn = "up"
  /\ shutdown' = TRUE
  /\ Drop(Queued)
  /\ mn' = "closed"
  /\ UNCHANGED <<wk, running, currentGeneration, pump, held>>

RequestShutdown ==
  /\ mn = "up"
  /\ shutdown' = TRUE
  /\ Drop(Queued)
  /\ wk' = IF wk = "asleep" THEN "waitIdle" ELSE wk
  /\ mn' = "closed"
  /\ UNCHANGED <<running, currentGeneration, pump, held>>

\* ~HookRunner() once the worker is joined.  Its own requestShutdown() finds
\* the flag set and the queue empty.
Destroy ==
  /\ mn = "closed"
  /\ wk = "left"
  /\ mn' = "dtor"
  /\ UNCHANGED <<queueOrder, running, currentGeneration, shutdown, status, pump, held, wk>>

\* Mutant: the destructor waits for the queue only.
AwaitQueue ==
  /\ mn = "dtor"
  /\ mn' = IF Queued = {} THEN "gone" ELSE "asleep"
  /\ UNCHANGED <<queueOrder, running, currentGeneration, shutdown, status, pump, held, wk>>

AwaitHooks ==
  /\ mn = "dtor"
  /\ mn' = IF running = 0 THEN "gone" ELSE "asleep"
  /\ UNCHANGED <<queueOrder, running, currentGeneration, shutdown, status, pump, held, wk>>

-----------------------------------------------------------------------------
Pumping(t) == (\E h \in Hook : PumpStart(t, h)) \/ PumpReturn(t) \/ Launch(t) \/ LaunchReturns(t) \/ LaunchFailed(t)

Next ==
  \/ \E h \in Hook : Enqueue(h) \/ Exit(h) \/ OnExit(h)
  \/ \E g \in 1..MaxGen : InvalidateBefore(g)
  \/ \E t \in Thread : Pumping(t)
  \/ CallWaitIdle \/ WaitIdle \/ WorkerLeaves
  \/ RequestShutdown \/ Destroy \/ AwaitHooks

(***************************************************************************)
(* Threads run, and every hook process ends: by itself, or because the     *)
(* owner raises the cancel flag.  Nobody has to enqueue, wait or shut down.*)
(***************************************************************************)
Fairness ==
  /\ \A t \in Thread : WF_vars(Pumping(t))
  /\ \A h \in Hook : WF_vars(Exit(h)) /\ WF_vars(OnExit(h))
  /\ WF_vars(WaitIdle) /\ WF_vars(WorkerLeaves)
  /\ WF_vars(Destroy) /\ WF_vars(AwaitHooks)

Spec == Init /\ [][Next]_vars
FairSpec == Spec /\ Fairness

-----------------------------------------------------------------------------
(* Properties.                                                             *)

\* State::running is exactly the number of hooks popped and not yet over, and
\* never exceeds maxConcurrent: every ++running is paired with one --running
\* whichever way the hook ends (hook_runner.cpp:106, 120, 139).
RunningIsExact ==
  /\ running = Cardinality(Counted)
  /\ running <= MaxConcurrent

\* Nobody sleeps on idleCv over a predicate that is already true unless a
\* pump() that will notify is on its way: --running (line 120 and 139) does not
\* notify, the next scan of the same pump does.
NoLostWakeup ==
  LET notifierComing == \E t \in Thread : pump[t] # "off"
  IN /\ wk = "asleep" /\ (shutdown \/ IdleState) => notifierComing
     /\ mn = "asleep" /\ running = 0 => notifierComing

\* waitIdle() and the destructor return (hook_runner.cpp:36, 80) once the hooks
\* end: no interleaving of pumps, launch failures and exits strands a waiter.
WaitersReturn ==
  /\ wk = "waitIdle" ~> wk \in {"ready", "left"}
  /\ mn = "dtor" ~> mn = "gone"

\* The runner implements the promise the template service relies on.
Pool == INSTANCE HookPool WITH
  queued <- Queued,
  live <- Counted,
  floor <- currentGeneration,
  closed <- shutdown,
  waiting <- wk \in {"waitIdle", "asleep"},
  gone <- mn = "gone"

\* Every step of the runner is a step of HookPool or changes nothing it shows.
ImplementsPool == Pool!Spec
=============================================================================
