-------------------------- MODULE HookRunner_proofs --------------------------
(***************************************************************************)
(* Proofs about HookRunner, for every set of hooks and every bound:        *)
(* the count of running hooks is exact and bounded, no waiter is stranded  *)
(* on idleCv, and the runner implements HookPool.                          *)
(***************************************************************************)
EXTENDS HookRunner, FiniteSetTheorems, WellFoundedInduction, TLAPS

(***************************************************************************)
(* The inductive invariant.  RunningIsExact and NoLostWakeup are not       *)
(* inductive alone: the first needs to know what a pumping thread holds,   *)
(* the second that a queue closed by requestShutdown() stays empty and     *)
(* that stale hooks never stay in it.                                      *)
(***************************************************************************)
QueueIsFresh == \A h \in Queued : GenOf[h] >= currentGeneration

ClosedQueueIsEmpty ==
  /\ shutdown <=> mn # "up"
  /\ shutdown => Queued = {}

HoldsLaunched ==
  \A t \in Thread : pump[t] = "launch" =>
    held[t] \in Hook /\ status[held[t]] \in CountedStatus \cup {"done"}

CompletionPumpsLast == \A h \in Hook : pump[h] # "off" => status[h] = "done"

WorkerPumpsItself == wk = "pumping" <=> pump[Worker] # "off"

WorkerLeftBeforeDtor == mn \in {"dtor", "asleep", "gone"} => wk = "left"

NoSleepAfterShutdown == shutdown => wk # "asleep"

IInv ==
  /\ TypeOK
  /\ RunningIsExact
  /\ QueueIsFresh
  /\ ClosedQueueIsEmpty
  /\ HoldsLaunched
  /\ CompletionPumpsLast
  /\ WorkerPumpsItself
  /\ WorkerLeftBeforeDtor
  /\ NoSleepAfterShutdown
  /\ NoLostWakeup

-----------------------------------------------------------------------------
(* Facts about the queue and the count.                                    *)

\* Counted is finite, and one hook more or less changes its size by one.
LEMMA CountedFinite == IsFiniteSet(Counted) /\ Cardinality(Counted) \in Nat
  BY HookRunnerAssumption, FS_Subset, FS_CardinalityType DEF Counted

\* A set that is not empty has an earliest hook.
LEMMA FirstInQueue ==
  ASSUME TypeOK, NEW S \in SUBSET Hook, S # {}
  PROVE  \E h \in S : \A k \in S : ~(arrival[k] < arrival[h])
<1> DEFINE R == OpToRel(<, Nat)
           T == {arrival[h] : h \in S}
<1>1. T \subseteq Nat /\ T # {}
  BY DEF TypeOK
<1>2. PICK x \in T : \A y \in T : ~(<<y, x>> \in R)
  <2> HIDE DEF T, R
  <2>1. IsWellFoundedOn(R, Nat)
    BY NatLessThanWellFounded DEF R
  <2> QED
    BY <1>1, <2>1, WFMin
<1>3. PICK h \in S : x = arrival[h]
  BY <1>2
<1>4. \A k \in S : ~(arrival[k] < arrival[h])
  BY <1>1, <1>2, <1>3 DEF OpToRel
<1> QED BY <1>4

\* A fresh queue is popped from its front, and a pump that finds nothing to
\* start although it could has found the queue empty.
LEMMA FreshFront ==
  ASSUME TypeOK, QueueIsFresh
  PROVE  /\ \A h \in Hook : IsNext(h) => Ahead(h) = {}
         /\ (\A h \in Hook : ~IsNext(h)) => Queued = {}
<1>1. ASSUME NEW h \in Hook, IsNext(h) PROVE Ahead(h) = {}
  <2>1. \A k \in Ahead(h) : k \in Queued /\ Stale(k)
    BY <1>1 DEF IsNext, Ahead
  <2>2. \A k \in Queued : ~Stale(k)
    BY HookRunnerAssumption DEF QueueIsFresh, Stale, TypeOK, Queued
  <2> QED BY <2>1, <2>2
<1>2. ASSUME Queued # {} PROVE \E h \in Hook : IsNext(h)
  <2>1. PICK h \in Queued : \A k \in Queued : ~(arrival[k] < arrival[h])
    BY <1>2, FirstInQueue DEF Queued
  <2>2. Ahead(h) = {}
    BY <2>1 DEF Ahead
  <2>3. ~Stale(h)
    BY HookRunnerAssumption DEF QueueIsFresh, Stale, TypeOK, Queued
  <2> QED BY <2>1, <2>2, <2>3 DEF IsNext, Queued
<1> QED BY <1>1, <1>2

-----------------------------------------------------------------------------
(* Type correctness.                                                       *)

LEMMA InitType == Init => TypeOK
<1> SUFFICES ASSUME Init PROVE TypeOK
  OBVIOUS
<1> USE DEF Init
<1>1. status \in [Hook -> Status]
  BY DEF Status
<1>2. pump \in [Thread -> {"off", "scan", "launch"}] /\ held \in [Thread -> Hook \cup {NoHook}]
  OBVIOUS
<1>3. currentGeneration \in 0..MaxGen
  BY HookRunnerAssumption
<1> QED BY <1>1, <1>2, <1>3 DEF TypeOK

LEMMA NextType == IInv /\ [Next]_vars => TypeOK'
<1> SUFFICES ASSUME IInv, [Next]_vars PROVE TypeOK'
  OBVIOUS
<1> USE HookRunnerAssumption DEF TypeOK, Status, CountedStatus
<1> Worker \in Thread /\ Hook \subseteq Thread
  BY DEF Thread
<1> TypeOK
  BY DEF IInv
<1>1. ASSUME NEW h \in Hook, Enqueue(h) PROVE TypeOK'
  BY <1>1 DEF Enqueue, queueOrder
<1>2. ASSUME NEW h \in Hook, Exit(h) PROVE TypeOK'
  BY <1>2 DEF Exit, queueOrder
<1>3. ASSUME NEW h \in Hook, OnExit(h) PROVE TypeOK'
  <2>1. running > 0
    <3>1. h \in Counted
      BY <1>3 DEF OnExit, Counted
    <3> QED BY <3>1, CountedFinite, FS_EmptySet DEF IInv, RunningIsExact
  <2> QED BY <1>3, <2>1 DEF OnExit, queueOrder
<1>4. ASSUME NEW g \in 1..MaxGen, InvalidateBefore(g) PROVE TypeOK'
  <2>1. status' \in [Hook -> Status] /\ arrival' \in [Hook -> Nat] /\ arrivals' \in Nat
    BY <1>4 DEF InvalidateBefore, Drop, KeepOrder
  <2>2. /\ wk' \in {"ready", "pumping", "waitIdle", "asleep", "left"}
        /\ mn' \in {"up", "closed", "dtor", "asleep", "gone"}
    BY <1>4 DEF InvalidateBefore, NotifyAll
  <2> QED BY <1>4, <2>1, <2>2 DEF InvalidateBefore
<1>5. ASSUME NEW t \in Thread, NEW h \in Hook, PumpStart(t, h) PROVE TypeOK'
  <2>1. status' \in [Hook -> Status]
    BY <1>5 DEF PumpStart
  <2>2. arrival' \in [Hook -> Nat]
    BY <1>5 DEF PumpStart, KeepOrder
  <2>3. pump' \in [Thread -> {"off", "scan", "launch"}] /\ held' \in [Thread -> Hook \cup {NoHook}]
    BY <1>5 DEF PumpStart
  <2> QED BY <1>5, <2>1, <2>2, <2>3 DEF PumpStart
<1>6. ASSUME NEW t \in Thread, PumpReturn(t) PROVE TypeOK'
  <2>1. status' \in [Hook -> Status] /\ arrival' \in [Hook -> Nat] /\ arrivals' \in Nat
    BY <1>6 DEF PumpReturn, Drop, KeepOrder
  <2>2. /\ wk' \in {"ready", "pumping", "waitIdle", "asleep", "left"}
        /\ mn' \in {"up", "closed", "dtor", "asleep", "gone"}
    BY <1>6 DEF PumpReturn
  <2> QED BY <1>6, <2>1, <2>2 DEF PumpReturn
<1>7. ASSUME NEW t \in Thread, Launch(t) PROVE TypeOK'
  <2>1. status' \in [Hook -> Status]
    BY <1>7 DEF Launch
  <2> QED BY <1>7, <2>1 DEF Launch, queueOrder
<1>8. ASSUME NEW t \in Thread, LaunchReturns(t) PROVE TypeOK'
  BY <1>8 DEF LaunchReturns, queueOrder
<1>9. ASSUME NEW t \in Thread, LaunchFailed(t) PROVE TypeOK'
  <2>1. held[t] \in Counted
    BY <1>9 DEF LaunchFailed, Counted, IInv, HoldsLaunched
  <2>2. running > 0
    BY <2>1, CountedFinite, FS_EmptySet DEF IInv, RunningIsExact
  <2>3. running' \in Nat
    BY <1>9, <2>2 DEF LaunchFailed
  <2>4. status' \in [Hook -> Status]
    BY <1>9 DEF LaunchFailed
  <2>5. pump' \in [Thread -> {"off", "scan", "launch"}] /\ held' \in [Thread -> Hook \cup {NoHook}]
    BY <1>9 DEF LaunchFailed
  <2> QED BY <1>9, <2>3, <2>4, <2>5 DEF LaunchFailed, queueOrder
<1>10. CASE CallWaitIdle \/ WaitIdle \/ WorkerLeaves
  BY <1>10 DEF CallWaitIdle, WaitIdle, WorkerLeaves, queueOrder
<1>11. CASE RequestShutdown
  <2>1. status' \in [Hook -> Status] /\ arrival' \in [Hook -> Nat] /\ arrivals' \in Nat
    BY <1>11 DEF RequestShutdown, Drop, KeepOrder
  <2> QED BY <1>11, <2>1 DEF RequestShutdown
<1>12. CASE Destroy \/ AwaitHooks
  BY <1>12 DEF Destroy, AwaitHooks, queueOrder
<1>13. CASE UNCHANGED vars
  BY <1>13 DEF vars, queueOrder
<1> QED BY <1>1, <1>2, <1>3, <1>4, <1>5, <1>6, <1>7, <1>8, <1>9, <1>10, <1>11, <1>12, <1>13
        DEF Next, Pumping

-----------------------------------------------------------------------------
(* The count of running hooks.                                             *)

LEMMA NextCount == IInv /\ [Next]_vars => RunningIsExact'
<1> SUFFICES ASSUME IInv, [Next]_vars PROVE RunningIsExact'
  OBVIOUS
<1> USE HookRunnerAssumption
<1> TypeOK /\ RunningIsExact
  BY DEF IInv
<1> IsFiniteSet(Counted) /\ Cardinality(Counted) \in Nat
  BY CountedFinite
<1>a. ASSUME Counted' = Counted, running' = running PROVE RunningIsExact'
  BY <1>a DEF RunningIsExact
<1>b. ASSUME NEW h \in Counted, Counted' = Counted \ {h}, running' = running - 1
      PROVE  RunningIsExact'
  <2>1. Cardinality(Counted \ {h}) = Cardinality(Counted) - 1
    BY FS_RemoveElement
  <2> QED BY <1>b, <2>1 DEF RunningIsExact
<1> USE DEF CountedStatus
<1>1. ASSUME NEW h \in Hook, Enqueue(h) PROVE RunningIsExact'
  <2>1. Counted' = Counted
    BY <1>1 DEF Enqueue, Counted, TypeOK
  <2> QED BY <1>1, <1>a, <2>1 DEF Enqueue
<1>2. ASSUME NEW h \in Hook, Exit(h) PROVE RunningIsExact'
  <2>1. Counted' = Counted
    BY <1>2 DEF Exit, Counted, TypeOK
  <2> QED BY <1>2, <1>a, <2>1 DEF Exit
<1>3. ASSUME NEW h \in Hook, OnExit(h) PROVE RunningIsExact'
  <2>1. h \in Counted /\ Counted' = Counted \ {h}
    BY <1>3 DEF OnExit, Counted, TypeOK
  <2> QED BY <1>3, <1>b, <2>1 DEF OnExit
<1>4. ASSUME NEW g \in 1..MaxGen, InvalidateBefore(g) PROVE RunningIsExact'
  <2>1. Counted' = Counted
    BY <1>4 DEF InvalidateBefore, Drop, Counted, Queued, TypeOK
  <2> QED BY <1>4, <1>a, <2>1 DEF InvalidateBefore
<1>5. ASSUME NEW t \in Thread, NEW h \in Hook, PumpStart(t, h) PROVE RunningIsExact'
  <2>1. h \notin Counted /\ Counted' = Counted \cup {h}
    BY <1>5 DEF PumpStart, IsNext, Ahead, Queued, Counted, TypeOK
  <2>2. Cardinality(Counted') = Cardinality(Counted) + 1
    BY <2>1, FS_AddElement
  <2>3. running + 1 <= MaxConcurrent
    BY <1>5 DEF PumpStart, CanStart, TypeOK
  <2> QED BY <1>5, <2>2, <2>3 DEF PumpStart, RunningIsExact
<1>6. ASSUME NEW t \in Thread, PumpReturn(t) PROVE RunningIsExact'
  <2>1. Counted' = Counted
    BY <1>6 DEF PumpReturn, Drop, Counted, Queued, TypeOK
  <2> QED BY <1>6, <1>a, <2>1 DEF PumpReturn
<1>7. ASSUME NEW t \in Thread, Launch(t) PROVE RunningIsExact'
  <2>1. Counted' = Counted
    BY <1>7 DEF Launch, Counted, TypeOK
  <2> QED BY <1>7, <1>a, <2>1 DEF Launch
<1>8. ASSUME NEW t \in Thread, LaunchReturns(t) PROVE RunningIsExact'
  <2>1. Counted' = Counted
    BY <1>8 DEF LaunchReturns, Counted
  <2> QED BY <1>8, <1>a, <2>1 DEF LaunchReturns
<1>9. ASSUME NEW t \in Thread, LaunchFailed(t) PROVE RunningIsExact'
  <2>1. held[t] \in Counted /\ Counted' = Counted \ {held[t]}
    BY <1>9 DEF LaunchFailed, Counted, TypeOK, IInv, HoldsLaunched
  <2> QED BY <1>9, <1>b, <2>1 DEF LaunchFailed
<1>10. CASE CallWaitIdle \/ WaitIdle \/ WorkerLeaves \/ Destroy \/ AwaitHooks \/ UNCHANGED vars
  <2>1. Counted' = Counted /\ running' = running
    BY <1>10 DEF CallWaitIdle, WaitIdle, WorkerLeaves, Destroy, AwaitHooks, vars, Counted
  <2> QED BY <1>a, <2>1
<1>11. CASE RequestShutdown
  <2>1. Counted' = Counted
    BY <1>11 DEF RequestShutdown, Drop, Counted, Queued, TypeOK
  <2> QED BY <1>11, <1>a, <2>1 DEF RequestShutdown
<1> QED BY <1>1, <1>2, <1>3, <1>4, <1>5, <1>6, <1>7, <1>8, <1>9, <1>10, <1>11 DEF Next, Pumping

-----------------------------------------------------------------------------
(* The queue.                                                              *)

LEMMA NextQueue == IInv /\ [Next]_vars => (QueueIsFresh /\ ClosedQueueIsEmpty)'
<1> SUFFICES ASSUME IInv, [Next]_vars PROVE (QueueIsFresh /\ ClosedQueueIsEmpty)'
  OBVIOUS
<1> USE HookRunnerAssumption
<1> TypeOK /\ QueueIsFresh /\ ClosedQueueIsEmpty
  BY DEF IInv
<1>a. ASSUME Queued' \subseteq Queued, currentGeneration' = currentGeneration,
             shutdown' = shutdown, mn' # "up" <=> mn # "up"
      PROVE  (QueueIsFresh /\ ClosedQueueIsEmpty)'
  BY <1>a DEF QueueIsFresh, ClosedQueueIsEmpty
<1> USE DEF CountedStatus
<1>1. ASSUME NEW h \in Hook, Enqueue(h) PROVE (QueueIsFresh /\ ClosedQueueIsEmpty)'
  <2>1. CASE shutdown \/ GenOf[h] < currentGeneration
    <3>1. Queued' \subseteq Queued
      BY <1>1, <2>1 DEF Enqueue, Queued, TypeOK
    <3> QED BY <1>1, <1>a, <3>1 DEF Enqueue
  <2>2. CASE ~(shutdown \/ GenOf[h] < currentGeneration)
    <3>1. Queued' = Queued \cup {h}
      BY <1>1, <2>2 DEF Enqueue, Queued, TypeOK
    <3>2. GenOf[h] >= currentGeneration
      BY <2>2 DEF TypeOK
    <3> QED BY <1>1, <2>2, <3>1, <3>2 DEF Enqueue, QueueIsFresh, ClosedQueueIsEmpty
  <2> QED BY <2>1, <2>2
<1>2. ASSUME NEW h \in Hook, Exit(h) \/ OnExit(h) PROVE (QueueIsFresh /\ ClosedQueueIsEmpty)'
  <2>1. Queued' \subseteq Queued
    BY <1>2 DEF Exit, OnExit, Queued, TypeOK
  <2> QED BY <1>2, <1>a, <2>1 DEF Exit, OnExit
<1>3. ASSUME NEW g \in 1..MaxGen, InvalidateBefore(g) PROVE (QueueIsFresh /\ ClosedQueueIsEmpty)'
  <2>1. Queued' = {h \in Queued : ~(GenOf[h] < g)}
    BY <1>3 DEF InvalidateBefore, Drop, Queued, TypeOK
  <2>2. \A h \in Queued' : GenOf[h] >= g
    BY <2>1 DEF Queued
  <2>3. mn' # "up" <=> mn # "up"
    BY <1>3 DEF InvalidateBefore, NotifyAll
  <2> QED BY <1>3, <2>1, <2>2, <2>3 DEF InvalidateBefore, QueueIsFresh, ClosedQueueIsEmpty
<1>4. ASSUME NEW t \in Thread, NEW h \in Hook, PumpStart(t, h)
      PROVE  (QueueIsFresh /\ ClosedQueueIsEmpty)'
  <2>1. Queued' \subseteq Queued
    BY <1>4 DEF PumpStart, Queued, TypeOK
  <2> QED BY <1>4, <1>a, <2>1 DEF PumpStart
<1>5. ASSUME NEW t \in Thread, PumpReturn(t) PROVE (QueueIsFresh /\ ClosedQueueIsEmpty)'
  <2>1. Queued' \subseteq Queued
    BY <1>5 DEF PumpReturn, Drop, Queued, TypeOK
  <2> QED BY <1>5, <1>a, <2>1 DEF PumpReturn
<1>6. ASSUME NEW t \in Thread, Launch(t) \/ LaunchReturns(t) \/ LaunchFailed(t)
      PROVE  (QueueIsFresh /\ ClosedQueueIsEmpty)'
  <2>1. Queued' \subseteq Queued
    BY <1>6 DEF Launch, LaunchReturns, LaunchFailed, Queued, TypeOK
  <2> QED BY <1>6, <1>a, <2>1 DEF Launch, LaunchReturns, LaunchFailed
<1>7. CASE CallWaitIdle \/ WaitIdle \/ WorkerLeaves \/ Destroy \/ AwaitHooks \/ UNCHANGED vars
  <2>1. Queued' = Queued
    BY <1>7 DEF CallWaitIdle, WaitIdle, WorkerLeaves, Destroy, AwaitHooks, vars, Queued
  <2> QED BY <1>7, <1>a, <2>1 DEF CallWaitIdle, WaitIdle, WorkerLeaves, Destroy, AwaitHooks, vars
<1>8. CASE RequestShutdown
  <2>1. Queued' = {}
    BY <1>8 DEF RequestShutdown, Drop, Queued, TypeOK
  <2> QED BY <1>8, <2>1 DEF RequestShutdown, QueueIsFresh, ClosedQueueIsEmpty
<1> QED BY <1>1, <1>2, <1>3, <1>4, <1>5, <1>6, <1>7, <1>8 DEF Next, Pumping

-----------------------------------------------------------------------------
(* What the threads hold, and where they are.                              *)

LEMMA NextHolds == IInv /\ [Next]_vars => (HoldsLaunched /\ CompletionPumpsLast)'
<1> SUFFICES ASSUME IInv, [Next]_vars PROVE (HoldsLaunched /\ CompletionPumpsLast)'
  OBVIOUS
<1> USE HookRunnerAssumption DEF CountedStatus
<1> TypeOK /\ HoldsLaunched /\ CompletionPumpsLast
  BY DEF IInv
<1> Worker \in Thread /\ Hook \subseteq Thread
  BY DEF Thread
<1>a. ASSUME pump' = pump, held' = held,
             \A h \in Hook : status[h] = "done" => status'[h] = "done",
             \A h \in Hook : status[h] \in CountedStatus \cup {"done"}
                               => status'[h] \in CountedStatus \cup {"done"}
      PROVE  (HoldsLaunched /\ CompletionPumpsLast)'
  BY <1>a DEF HoldsLaunched, CompletionPumpsLast
<1>1. ASSUME NEW h \in Hook, Enqueue(h) PROVE (HoldsLaunched /\ CompletionPumpsLast)'
  BY <1>1 DEF Enqueue, HoldsLaunched, CompletionPumpsLast, TypeOK
<1>2. ASSUME NEW h \in Hook, Exit(h) PROVE (HoldsLaunched /\ CompletionPumpsLast)'
  BY <1>2, <1>a DEF Exit, TypeOK
<1>3. ASSUME NEW h \in Hook, OnExit(h) PROVE (HoldsLaunched /\ CompletionPumpsLast)'
  BY <1>3 DEF OnExit, HoldsLaunched, CompletionPumpsLast, TypeOK
<1>4. ASSUME NEW g \in 1..MaxGen, InvalidateBefore(g)
      PROVE  (HoldsLaunched /\ CompletionPumpsLast)'
  BY <1>4, <1>a DEF InvalidateBefore, Drop, Queued, TypeOK
<1>5. ASSUME NEW t \in Thread, NEW h \in Hook, PumpStart(t, h)
      PROVE  (HoldsLaunched /\ CompletionPumpsLast)'
  <2>1. \A k \in Hook : status[k] # "queued" => status'[k] = status[k]
    BY <1>5 DEF PumpStart, IsNext, Ahead, Queued
  <2>2. status'[h] = "launching"
    BY <1>5 DEF PumpStart
  <2>3. pump' = [pump EXCEPT ![t] = "launch"] /\ held' = [held EXCEPT ![t] = h]
    BY <1>5 DEF PumpStart
  <2>4. pump[t] = "scan"
    BY <1>5 DEF PumpStart
  <2>5. HoldsLaunched'
    BY <2>1, <2>2, <2>3 DEF HoldsLaunched, TypeOK
  <2>6. CompletionPumpsLast'
    BY <2>1, <2>3, <2>4 DEF CompletionPumpsLast, TypeOK
  <2> QED BY <2>5, <2>6
<1>6. ASSUME NEW t \in Thread, PumpReturn(t) PROVE (HoldsLaunched /\ CompletionPumpsLast)'
  <2>1. \A k \in Hook : status[k] # "queued" => status'[k] = status[k]
    BY <1>6 DEF PumpReturn, Drop, Queued
  <2>2. pump' = [pump EXCEPT ![t] = "off"] /\ held' = held
    BY <1>6 DEF PumpReturn
  <2> QED BY <2>1, <2>2 DEF HoldsLaunched, CompletionPumpsLast, TypeOK
<1>7. ASSUME NEW t \in Thread, Launch(t) PROVE (HoldsLaunched /\ CompletionPumpsLast)'
  BY <1>7, <1>a DEF Launch, TypeOK
<1>8. ASSUME NEW t \in Thread, LaunchReturns(t) \/ LaunchFailed(t)
      PROVE  (HoldsLaunched /\ CompletionPumpsLast)'
  BY <1>8 DEF LaunchReturns, LaunchFailed, HoldsLaunched, CompletionPumpsLast, TypeOK
<1>9. CASE CallWaitIdle \/ WaitIdle \/ WorkerLeaves \/ Destroy \/ AwaitHooks \/ UNCHANGED vars
  BY <1>9, <1>a DEF CallWaitIdle, WaitIdle, WorkerLeaves, Destroy, AwaitHooks, vars
<1>10. CASE RequestShutdown
  BY <1>10, <1>a DEF RequestShutdown, Drop, Queued, TypeOK
<1> QED BY <1>1, <1>2, <1>3, <1>4, <1>5, <1>6, <1>7, <1>8, <1>9, <1>10 DEF Next, Pumping

LEMMA NextThreads == IInv /\ [Next]_vars => (WorkerPumpsItself /\ WorkerLeftBeforeDtor /\ NoSleepAfterShutdown)'
<1> SUFFICES ASSUME IInv, [Next]_vars PROVE (WorkerPumpsItself /\ WorkerLeftBeforeDtor /\ NoSleepAfterShutdown)'
  OBVIOUS
<1> USE HookRunnerAssumption DEF WorkerPumpsItself, WorkerLeftBeforeDtor, NoSleepAfterShutdown
<1> /\ TypeOK /\ WorkerPumpsItself /\ WorkerLeftBeforeDtor /\ NoSleepAfterShutdown
    /\ ClosedQueueIsEmpty
  BY DEF IInv
<1> Worker \in Thread /\ Hook \subseteq Thread
  BY DEF Thread
<1>1. ASSUME NEW h \in Hook, Enqueue(h) \/ Exit(h) \/ OnExit(h)
      PROVE  (WorkerPumpsItself /\ WorkerLeftBeforeDtor /\ NoSleepAfterShutdown)'
  BY <1>1 DEF Enqueue, Exit, OnExit, TypeOK
<1>2. ASSUME NEW g \in 1..MaxGen, InvalidateBefore(g)
      PROVE  (WorkerPumpsItself /\ WorkerLeftBeforeDtor /\ NoSleepAfterShutdown)'
  BY <1>2 DEF InvalidateBefore, NotifyAll, TypeOK
<1>3. ASSUME NEW t \in Thread, NEW h \in Hook, PumpStart(t, h)
      PROVE  (WorkerPumpsItself /\ WorkerLeftBeforeDtor /\ NoSleepAfterShutdown)'
  BY <1>3 DEF PumpStart, TypeOK
<1>4. ASSUME NEW t \in Thread, PumpReturn(t) PROVE (WorkerPumpsItself /\ WorkerLeftBeforeDtor /\ NoSleepAfterShutdown)'
  <2>1. t = Worker => wk = "pumping"
    BY <1>4 DEF PumpReturn
  <2> QED BY <1>4, <2>1 DEF PumpReturn, TypeOK
<1>5. ASSUME NEW t \in Thread, Launch(t) \/ LaunchReturns(t) \/ LaunchFailed(t)
      PROVE  (WorkerPumpsItself /\ WorkerLeftBeforeDtor /\ NoSleepAfterShutdown)'
  BY <1>5 DEF Launch, LaunchReturns, LaunchFailed, TypeOK
<1>6. CASE CallWaitIdle \/ WaitIdle \/ WorkerLeaves \/ Destroy \/ AwaitHooks \/ UNCHANGED vars
  BY <1>6 DEF CallWaitIdle, WaitIdle, WorkerLeaves, Destroy, AwaitHooks, vars
<1>7. CASE RequestShutdown
  BY <1>7 DEF RequestShutdown
<1> QED BY <1>1, <1>2, <1>3, <1>4, <1>5, <1>6, <1>7 DEF Next, Pumping

-----------------------------------------------------------------------------
(* Wakeups.  A sleeper's predicate becomes true only by a step that either *)
(* notifies or leaves the stepping thread inside pump(), and the last      *)
(* thread to leave pump() notifies.                                        *)

LEMMA NextWakeup == IInv /\ [Next]_vars => NoLostWakeup'
<1> SUFFICES ASSUME IInv, [Next]_vars PROVE NoLostWakeup'
  OBVIOUS
<1> USE HookRunnerAssumption DEF NoLostWakeup, IdleState
<1> TypeOK /\ NoLostWakeup /\ ClosedQueueIsEmpty /\ WorkerPumpsItself /\ WorkerLeftBeforeDtor
  BY DEF IInv
<1> Worker \in Thread /\ Hook \subseteq Thread
  BY DEF Thread
<1>a. ASSUME NEW t \in Thread, pump'[t] # "off" PROVE NoLostWakeup'
  BY <1>a
<1>1. ASSUME NEW h \in Hook, Enqueue(h) PROVE NoLostWakeup'
  <2>1. wk' # "asleep"
    BY <1>1 DEF Enqueue
  <2>2. mn' = mn /\ running' = running /\ (mn = "asleep" => wk = "left")
    BY <1>1 DEF Enqueue, WorkerLeftBeforeDtor
  <2>3. mn # "asleep"
    BY <1>1, <2>2 DEF Enqueue
  <2> QED BY <2>1, <2>2, <2>3
<1>2. ASSUME NEW h \in Hook, Exit(h) PROVE NoLostWakeup'
  <2>1. Queued' = Queued
    BY <1>2 DEF Exit, Queued, TypeOK
  <2> QED BY <1>2, <2>1 DEF Exit
<1>3. ASSUME NEW h \in Hook, OnExit(h) PROVE NoLostWakeup'
  BY <1>3, <1>a DEF OnExit, TypeOK
<1>4. ASSUME NEW g \in 1..MaxGen, InvalidateBefore(g) PROVE NoLostWakeup'
  BY <1>4 DEF InvalidateBefore, NotifyAll, WorkerLeftBeforeDtor
<1>5. ASSUME NEW t \in Thread, NEW h \in Hook, PumpStart(t, h) PROVE NoLostWakeup'
  <2>1. pump'[t] = "launch"
    BY <1>5 DEF PumpStart, TypeOK
  <2> QED BY <2>1, <1>a
<1>6. ASSUME NEW t \in Thread, PumpReturn(t) PROVE NoLostWakeup'
  <2>1. CASE Queued' = {} /\ running = 0
    <3>1. wk' # "asleep" /\ mn' # "asleep"
      BY <1>6, <2>1 DEF PumpReturn
    <3> QED BY <3>1
  <2>2. CASE ~(Queued' = {} /\ running = 0)
    <3>1. running' = running /\ shutdown' = shutdown
      BY <1>6 DEF PumpReturn
    <3>2. shutdown => Queued' = {}
      BY <1>6 DEF PumpReturn, Drop, ClosedQueueIsEmpty, Queued, TypeOK
    <3>3. CASE running # 0 /\ ~shutdown
      BY <3>1, <3>3
    <3>4. CASE running # 0 /\ shutdown
      <4>1. wk' = "asleep" => wk = "asleep"
        BY <1>6 DEF PumpReturn
      <4>2. wk = "asleep" => FALSE
        BY <3>4 DEF IInv, NoSleepAfterShutdown
      <4> QED BY <3>1, <3>4, <4>1, <4>2
    <3>5. CASE running = 0
      BY <1>6, <2>2, <3>1, <3>2, <3>5 DEF PumpReturn, ClosedQueueIsEmpty
    <3> QED BY <3>3, <3>4, <3>5
  <2> QED BY <2>1, <2>2
<1>7. ASSUME NEW t \in Thread, Launch(t) PROVE NoLostWakeup'
  <2>1. pump'[t] = "launch"
    BY <1>7 DEF Launch
  <2> QED BY <2>1, <1>a
<1>8. ASSUME NEW t \in Thread, LaunchReturns(t) \/ LaunchFailed(t) PROVE NoLostWakeup'
  <2>1. pump'[t] = "scan"
    BY <1>8 DEF LaunchReturns, LaunchFailed, TypeOK
  <2> QED BY <2>1, <1>a
<1>9. CASE CallWaitIdle \/ WaitIdle \/ WorkerLeaves \/ Destroy \/ AwaitHooks \/ UNCHANGED vars
  <2>1. Queued' = Queued
    BY <1>9 DEF CallWaitIdle, WaitIdle, WorkerLeaves, Destroy, AwaitHooks, vars, Queued
  <2> QED BY <1>9, <2>1 DEF CallWaitIdle, WaitIdle, WorkerLeaves, Destroy, AwaitHooks, vars
<1>10. CASE RequestShutdown
  BY <1>10 DEF RequestShutdown
<1> QED BY <1>1, <1>2, <1>3, <1>4, <1>5, <1>6, <1>7, <1>8, <1>9, <1>10 DEF Next, Pumping

-----------------------------------------------------------------------------
(* The theorems.                                                           *)

LEMMA InitInv == Init => IInv
<1> SUFFICES ASSUME Init PROVE IInv
  OBVIOUS
<1>1. TypeOK
  BY InitType
<1>2. Counted = {} /\ Queued = {}
  BY DEF Init, Counted, Queued, CountedStatus
<1>3. RunningIsExact
  BY <1>2, FS_EmptySet, HookRunnerAssumption DEF RunningIsExact, Init
<1>4. QueueIsFresh /\ ClosedQueueIsEmpty
  BY <1>2 DEF QueueIsFresh, ClosedQueueIsEmpty, Init
<1>5. \A t \in Thread : pump[t] = "off"
  BY DEF Init
<1>6. HoldsLaunched /\ CompletionPumpsLast
  BY <1>5 DEF HoldsLaunched, CompletionPumpsLast, Thread
<1>7. WorkerPumpsItself
  BY <1>5 DEF WorkerPumpsItself, Thread, Init
<1>8. WorkerLeftBeforeDtor /\ NoSleepAfterShutdown /\ NoLostWakeup
  BY DEF WorkerLeftBeforeDtor, NoSleepAfterShutdown, NoLostWakeup, Init
<1> QED BY <1>1, <1>3, <1>4, <1>6, <1>7, <1>8 DEF IInv

LEMMA NextInv == IInv /\ [Next]_vars => IInv'
  BY NextType, NextCount, NextQueue, NextHolds, NextThreads, NextWakeup DEF IInv

\* The inductive invariant holds in every behaviour of the runner.
THEOREM Invariance == Spec => []IInv
  BY InitInv, NextInv, PTL DEF Spec

\* Type correctness of the runner.
THEOREM TypeCorrect == Spec => []TypeOK
<1>1. IInv => TypeOK
  BY DEF IInv
<1> QED BY <1>1, Invariance, PTL

\* State::running counts exactly the hooks popped and not over, and stays
\* within maxConcurrent, whatever the hooks, the generations and the limit.
THEOREM RunningExact == Spec => []RunningIsExact
<1>1. IInv => RunningIsExact
  BY DEF IInv
<1> QED BY <1>1, Invariance, PTL

\* No wakeup of waitIdle() or of the destructor is ever lost.
THEOREM WakeupsNotLost == Spec => []NoLostWakeup
<1>1. IInv => NoLostWakeup
  BY DEF IInv
<1> QED BY <1>1, Invariance, PTL

-----------------------------------------------------------------------------
(* Refinement: what the runner shows of itself is a HookPool.              *)

LEMMA PoolInit == Init => Pool!Init
<1> SUFFICES ASSUME Init PROVE Pool!Init
  OBVIOUS
<1>1. Counted = {} /\ Queued = {}
  BY DEF Init, Counted, Queued, CountedStatus
<1> QED BY <1>1 DEF Init, Pool!Init

PoolView == <<Queued, Counted, currentGeneration, shutdown, wk \in {"waitIdle", "asleep"}, mn = "gone">>

LEMMA PoolStep == IInv /\ [Next]_vars => [Pool!Next]_(Pool!vars)
<1> SUFFICES ASSUME IInv, [Next]_vars PROVE Pool!Next \/ UNCHANGED PoolView
  BY DEF Pool!vars, PoolView
<1> USE HookRunnerAssumption DEF CountedStatus
<1> TypeOK /\ RunningIsExact /\ QueueIsFresh /\ ClosedQueueIsEmpty
  BY DEF IInv
<1> DEFINE waits == wk \in {"waitIdle", "asleep"}
           isGone == mn = "gone"
<1>idle. running = 0 => Counted = {}
  BY CountedFinite, FS_EmptySet DEF RunningIsExact
<1>1. ASSUME NEW h \in Hook, Enqueue(h) PROVE Pool!Next
  <2>1. Counted' = Counted /\ h \notin Queued \cup Counted
    BY <1>1 DEF Enqueue, Counted, Queued, TypeOK
  <2>2. Queued' = IF ~shutdown /\ GenOf[h] >= currentGeneration THEN Queued \cup {h} ELSE Queued
    BY <1>1 DEF Enqueue, Queued, TypeOK
  <2>3. ~waits /\ ~waits' /\ mn' = mn /\ currentGeneration' = currentGeneration /\ shutdown' = shutdown
    BY <1>1 DEF Enqueue
  <2>4. Pool!Submit(h)
    BY <2>1, <2>2, <2>3 DEF Pool!Submit, Pool!Accepts
  <2> QED BY <2>4 DEF Pool!Next
<1>2. ASSUME NEW h \in Hook, Exit(h) PROVE UNCHANGED PoolView
  <2>1. Counted' = Counted /\ Queued' = Queued
    BY <1>2 DEF Exit, Counted, Queued, TypeOK
  <2> QED BY <1>2, <2>1 DEF Exit, PoolView
<1>3. ASSUME NEW h \in Hook, OnExit(h) PROVE Pool!Next
  <2>1. h \in Counted /\ Counted' = Counted \ {h} /\ Queued' = Queued
    BY <1>3 DEF OnExit, Counted, Queued, TypeOK
  <2>2. Pool!Finish(h)
    BY <1>3, <2>1 DEF OnExit, Pool!Finish
  <2> QED BY <2>2 DEF Pool!Next
<1>4. ASSUME NEW g \in 1..MaxGen, InvalidateBefore(g) PROVE Pool!Next
  <2>1. Counted' = Counted /\ Queued' = {h \in Queued : GenOf[h] >= g}
    BY <1>4 DEF InvalidateBefore, Drop, Counted, Queued, TypeOK
  <2>2. ~waits /\ ~waits' /\ isGone' = isGone
    BY <1>4 DEF InvalidateBefore, NotifyAll
  <2>3. Pool!InvalidateBefore(g)
    BY <1>4, <2>1, <2>2 DEF InvalidateBefore, Pool!InvalidateBefore
  <2> QED BY <2>3 DEF Pool!Next
<1>5. ASSUME NEW t \in Thread, NEW h \in Hook, PumpStart(t, h) PROVE Pool!Next
  <2>1. Ahead(h) = {} /\ h \in Queued /\ ~Stale(h)
    BY <1>5, FreshFront DEF PumpStart, IsNext
  <2>2. Queued' = Queued \ {h} /\ Counted' = Counted \cup {h}
    BY <1>5, <2>1 DEF PumpStart, Queued, Counted, TypeOK
  <2>3. ~shutdown /\ Cardinality(Counted) < MaxConcurrent
    BY <1>5 DEF PumpStart, CanStart, RunningIsExact
  <2>4. GenOf[h] >= currentGeneration
    BY <2>1 DEF Stale, TypeOK
  <2>5. Pool!Cardinality(Counted) = Cardinality(Counted)
    BY DEF Pool!Cardinality, Cardinality
  <2>6. Pool!Start(h)
    BY <1>5, <2>1, <2>2, <2>3, <2>4, <2>5 DEF PumpStart, Pool!Start
  <2> QED BY <2>6 DEF Pool!Next
<1>6. ASSUME NEW t \in Thread, PumpReturn(t) PROVE UNCHANGED PoolView
  <2>1. CanStart => Queued = {}
    BY <1>6, FreshFront DEF PumpReturn
  <2>2. Counted' = Counted /\ Queued' = Queued
    BY <1>6, <2>1 DEF PumpReturn, Drop, Counted, Queued, TypeOK
  <2>3. t = Worker => wk = "pumping"
    BY <1>6 DEF PumpReturn, IInv, WorkerPumpsItself
  <2>4. waits' = waits /\ isGone' = isGone
    BY <1>6, <2>3 DEF PumpReturn
  <2> QED BY <1>6, <2>2, <2>4 DEF PumpReturn, PoolView
<1>7. ASSUME NEW t \in Thread, Launch(t) \/ LaunchReturns(t) PROVE UNCHANGED PoolView
  <2>1. Counted' = Counted /\ Queued' = Queued
    BY <1>7 DEF Launch, LaunchReturns, Counted, Queued, TypeOK, IInv, HoldsLaunched
  <2> QED BY <1>7, <2>1 DEF Launch, LaunchReturns, PoolView
<1>8. ASSUME NEW t \in Thread, LaunchFailed(t) PROVE Pool!Next
  <2>1. held[t] \in Hook
    BY <1>8 DEF LaunchFailed, IInv, HoldsLaunched
  <2>2. held[t] \in Counted /\ Counted' = Counted \ {held[t]} /\ Queued' = Queued
    BY <1>8, <2>1 DEF LaunchFailed, Counted, Queued, TypeOK
  <2>3. Pool!Finish(held[t])
    BY <1>8, <2>2 DEF LaunchFailed, Pool!Finish
  <2> QED BY <2>1, <2>3 DEF Pool!Next
<1>9. CASE CallWaitIdle
  <2>1. Counted' = Counted /\ Queued' = Queued
    BY <1>9 DEF CallWaitIdle, Counted, Queued
  <2>2. Pool!BeginWait
    BY <1>9, <2>1 DEF CallWaitIdle, Pool!BeginWait
  <2> QED BY <2>2 DEF Pool!Next
<1>10. CASE WaitIdle
  <2>1. Counted' = Counted /\ Queued' = Queued
    BY <1>10 DEF WaitIdle, Counted, Queued
  <2>2. CASE shutdown \/ IdleState
    <3>1. Pool!EndWait
      BY <1>10, <1>idle, <2>1, <2>2 DEF WaitIdle, IdleState, Pool!EndWait, Pool!Idle
    <3> QED BY <3>1 DEF Pool!Next
  <2>3. CASE ~(shutdown \/ IdleState)
    BY <1>10, <2>1, <2>3 DEF WaitIdle, PoolView
  <2> QED BY <2>2, <2>3
<1>11. CASE WorkerLeaves \/ Destroy \/ UNCHANGED vars
  <2>1. Counted' = Counted /\ Queued' = Queued
    BY <1>11 DEF WorkerLeaves, Destroy, vars, Counted, Queued
  <2> QED BY <1>11, <2>1 DEF WorkerLeaves, Destroy, vars, PoolView
<1>12. CASE RequestShutdown
  <2>1. Counted' = Counted /\ Queued' = {}
    BY <1>12 DEF RequestShutdown, Drop, Counted, Queued, TypeOK
  <2>2. waits' = waits /\ isGone' = isGone
    BY <1>12 DEF RequestShutdown
  <2>3. Pool!Close
    BY <1>12, <2>1, <2>2 DEF RequestShutdown, Pool!Close
  <2> QED BY <2>3 DEF Pool!Next
<1>13. CASE AwaitHooks
  <2>1. Counted' = Counted /\ Queued' = Queued
    BY <1>13 DEF AwaitHooks, Counted, Queued
  <2>2. CASE running = 0
    <3>1. shutdown /\ ~waits
      BY <1>13 DEF AwaitHooks, ClosedQueueIsEmpty, IInv, WorkerLeftBeforeDtor
    <3>2. Pool!Destroy
      BY <1>13, <1>idle, <2>1, <2>2, <3>1 DEF AwaitHooks, Pool!Destroy
    <3> QED BY <3>2 DEF Pool!Next
  <2>3. CASE running # 0
    BY <1>13, <2>1, <2>3 DEF AwaitHooks, PoolView
  <2> QED BY <2>2, <2>3
<1> QED BY <1>1, <1>2, <1>3, <1>4, <1>5, <1>6, <1>7, <1>8, <1>9, <1>10, <1>11, <1>12, <1>13
        DEF Next, Pumping

\* HookRunner implements HookPool: the template service may rely on the pool's
\* promise wherever it uses the runner.
THEOREM Implementation == Spec => ImplementsPool
<1>1. Init => Pool!Init
  BY PoolInit
<1>2. IInv /\ [Next]_vars => [Pool!Next]_(Pool!vars)
  BY PoolStep
<1> QED BY <1>1, <1>2, Invariance, PTL DEF Spec, ImplementsPool, Pool!Spec
=============================================================================
