------------------------- MODULE LockScreen_proofs -------------------------
(***************************************************************************)
(* The safety of the lock screen, for any number of monitors and any       *)
(* bounds.  One invariant: types, SessionShape, WaitersHaveDeadline; and   *)
(* SuspendHasLock on top of it, for systems in which nobody asks for a     *)
(* suspend during the exit transition.                                     *)
(***************************************************************************)
EXTENDS LockScreen, TLAPS

USE LockAssumption

\* The pieces that handlers are made of.
LEMMA FlushPowerEffect ==
    ASSUME FlushPower
    PROVE  /\ offQueued' \in BOOLEAN
           /\ UNCHANGED <<powerOff, offTimer, offPending, off>>
  BY DEF FlushPower, Ready, Engaged, Active, Idle

LEMMA SleepReadyEffect ==
    ASSUME NEW timer \in BOOLEAN, TypeOK, SessionShape, SleepReady(timer)
    PROVE  /\ {suspend', sleepTimer', delaying', offQueued'} \subseteq BOOLEAN
           /\ suspendCall' \in {"none", "asked", "late"}
           /\ UNCHANGED <<powerOff, offTimer, offPending, off>>
           /\ ~Ready' => /\ sleepTimer' = timer
                         /\ UNCHANGED <<suspend, suspendCall, delaying>>
           /\ Ready' => ~suspend' /\ ~delaying'
           /\ suspend' => suspend /\ suspendCall' = suspendCall
           /\ suspendCall' # suspendCall => locked' /\ ~unlocking'
  <1>1. CASE Ready'
    BY <1>1, FlushPowerEffect DEF SleepReady, TypeOK, Ready
  <1>2. CASE ~Ready'
    BY <1>2 DEF SleepReady, TypeOK, power
  <1>3. QED BY <1>1, <1>2

LEMMA StartExitType ==
    ASSUME NEW shown \in SUBSET Output, StartExit(shown)
    PROVE  surface' \in [Output -> {"none", "covered", "revealed", "exiting", "gone"}]
  <1>1. PICK done \in SUBSET {o \in shown : surface[o] \notin {"exiting", "gone"}} :
          surface' = [o \in Output |->
              IF o \notin shown THEN "none"
              ELSE IF o \in done THEN "gone"
              ELSE IF surface[o] = "gone" THEN "gone" ELSE "exiting"]
    BY Zenon DEF StartExit
  <1>2. QED BY <1>1

LEMMA TryFinishEffect ==
    ASSUME TypeOK, SessionShape, TryFinish
    PROVE  /\ finishQueued' \in BOOLEAN
           /\ finishCalls' \in 0..MaxFinish
           /\ finishQueued' => finishQueued \/ unlocking'
  <1>1. CASE unlocking' /\ ~finishQueued /\ AllGone'
    <2>1. /\ finishCalls < MaxFinish /\ finishQueued' = TRUE
          /\ finishCalls' = finishCalls + 1
      BY <1>1 DEF TryFinish
    <2>2. finishCalls' \in 0..MaxFinish
      BY <2>1 DEF TypeOK
    <2>3. QED BY <1>1, <2>1, <2>2, Zenon
  <1>2. CASE ~(unlocking' /\ ~finishQueued /\ AllGone')
    <2>1. UNCHANGED <<finishQueued, finishCalls>>
      BY <1>2 DEF TryFinish
    <2>2. QED BY <2>1 DEF TypeOK
  <1>3. QED BY <1>1, <1>2

-----------------------------------------------------------------------------
(* Types and the shape of the session.                                     *)

Shape == TypeOK /\ SessionShape

LEMMA InitShape == Init => Shape
  <1> SUFFICES ASSUME Init PROVE Shape
    OBVIOUS
  <1>1. TypeOK
    <2>1. /\ outputs \subseteq Output /\ changes \in 0..MaxChanges
          /\ finishCalls \in 0..MaxFinish
      BY DEF Init
    <2>2. surface \in [Output -> {"none", "covered", "revealed", "exiting", "gone"}]
      BY DEF Init, NoSurface
    <2>3. /\ starting \in {"no", "lock", "sleep"} /\ suspendCall \in {"none", "asked", "late"}
          /\ {pending, locked, unlocking, deferred, finishQueued, exitTimer} \subseteq BOOLEAN
          /\ {suspend, sleepTimer, sleeping, skipLock, delaying} \subseteq BOOLEAN
          /\ {powerOff, offQueued, offTimer, offPending, off} \subseteq BOOLEAN
      BY DEF Init
    <2>4. QED BY <2>1, <2>2, <2>3 DEF TypeOK
  <1>2. SessionShape
    BY DEF Init, SessionShape, Idle, Active, Engaged
  <1>3. QED BY <1>1, <1>2 DEF Shape

LEMMA StutterShape == ASSUME Shape, UNCHANGED vars PROVE Shape'
  BY DEF Shape, TypeOK, SessionShape, vars, screens, session, exit, after, power,
         logind, NoSurface, Idle, Active, Engaged

LEMMA LockShape ==
    ASSUME Shape, Lock \/ LockDeferredLate \/ LockFailed \/ LockRequested
    PROVE  Shape'
  <1> USE DEF Shape, TypeOK, SessionShape, screens, session, exit, after, power,
              logind, NoSurface, Idle, Active, Engaged
  <1>1. CASE Lock
    <2>1. CASE Refusable /\ NotifyAborted /\ UNCHANGED <<session, after>>
      BY <1>1, <2>1 DEF Lock, NotifyAborted, CancelPower
    <2>2. CASE BeginLock("lock") /\ UNCHANGED <<after, power, delaying>>
      BY <1>1, <2>2 DEF Lock, BeginLock
    <2>3. CASE DeferLock /\ UNCHANGED delaying
      BY <1>1, <2>3, FlushPowerEffect DEF Lock, DeferLock, DispatchSuspend
    <2>4. QED BY <1>1, <2>1, <2>2, <2>3 DEF Lock
  <1>2. CASE LockDeferredLate
    BY <1>2, FlushPowerEffect DEF LockDeferredLate, DispatchSuspend
  <1>3. CASE LockFailed
    BY <1>3 DEF LockFailed, Teardown, CancelSuspend, NotifyAborted, CancelPower
  <1>4. CASE LockRequested
    BY <1>4 DEF LockRequested
  <1>5. QED BY <1>1, <1>2, <1>3, <1>4

LEMMA CompositorShape ==
    ASSUME Shape, HandleLocked \/ HandleFinished
    PROVE  Shape'
  <1> USE DEF Shape, screens, logind, NoSurface, Idle, Active, Engaged
  <1>1. CASE HandleLocked
    <2>1. (~unlocking) \in BOOLEAN
      BY DEF TypeOK
    <2>2. /\ {suspend', sleepTimer', delaying', offQueued'} \subseteq BOOLEAN
          /\ suspendCall' \in {"none", "asked", "late"}
          /\ UNCHANGED <<powerOff, offTimer, offPending, off>>
          /\ suspend' => suspend /\ suspendCall' = suspendCall
      BY <1>1, <2>1, SleepReadyEffect DEF HandleLocked
    <2>3. QED BY <1>1, <2>2 DEF HandleLocked, TypeOK, SessionShape, exit
  <1>2. CASE HandleFinished
    BY <1>2 DEF HandleFinished, Teardown, CancelSuspend, CancelPower, TypeOK, SessionShape
  <1>3. QED BY <1>1, <1>2

LEMMA UnlockShape ==
    ASSUME Shape, Unlock \/ RunFinish \/ ExitTimeout
    PROVE  Shape'
  <1> USE DEF Shape, screens, session, exit, after, power, logind, NoSurface,
              Idle, Active, Engaged
  <1>1. CASE Unlock
    <2>0. /\ deferred' = FALSE /\ suspend' = FALSE /\ suspendCall' = "none"
          /\ sleepTimer' = FALSE /\ powerOff' = FALSE /\ offQueued' = FALSE
          /\ offTimer' = FALSE /\ offPending' \in BOOLEAN
          /\ UNCHANGED <<off, outputs, changes, sleeping, skipLock>>
      BY <1>1 DEF Unlock, CancelSuspend, CancelPower, TypeOK
    <2>1. CASE UnlockConfirmed
      <3>1. surface' \in [Output -> {"none", "covered", "revealed", "exiting", "gone"}]
        BY <2>1, StartExitType DEF UnlockConfirmed
      <3>2. /\ finishQueued' \in BOOLEAN /\ finishCalls' \in 0..MaxFinish
        BY <2>1, TryFinishEffect DEF UnlockConfirmed
      <3>3. QED BY <2>0, <2>1, <3>1, <3>2 DEF UnlockConfirmed, TypeOK, SessionShape
    <2>2. CASE UnlockUnconfirmed
      BY <2>0, <2>2 DEF UnlockUnconfirmed, Teardown, TypeOK, SessionShape
    <2>3. CASE UnlockAgain
      BY <2>0, <2>3 DEF UnlockAgain, TypeOK, SessionShape
    <2>4. QED BY <1>1, <2>1, <2>2, <2>3 DEF Unlock
  <1>2. CASE RunFinish
    <2>1. finishCalls' \in 0..MaxFinish
      BY <1>2 DEF RunFinish, TypeOK
    <2>2. CASE unlocking
      BY <1>2, <2>1, <2>2 DEF RunFinish, FinishUnlock, Teardown, TypeOK, SessionShape
    <2>3. CASE ~unlocking
      BY <1>2, <2>1, <2>3 DEF RunFinish, TypeOK, SessionShape
    <2>4. QED BY <2>2, <2>3
  <1>3. CASE ExitTimeout
    BY <1>3 DEF ExitTimeout, FinishUnlock, Teardown, TypeOK, SessionShape
  <1>4. QED BY <1>1, <1>2, <1>3

LEMMA OutputsShape == ASSUME Shape, OutputsChange PROVE Shape'
  <1> USE DEF Shape, session, exit, after, power, logind, NoSurface, Idle, Active, Engaged
  <1>1. PICK new \in (SUBSET Output) \ {outputs} :
          /\ outputs' = new
          /\ \/ RetryLock
             \/ SyncLocked(new)
             \/ SyncUnlocking(new)
             \/ /\ ~deferred /\ ~Active
                /\ UNCHANGED <<session, surface, exit, after, power, delaying>>
    BY Zenon DEF OutputsChange
  <1>2. /\ outputs' \subseteq Output /\ changes' \in 0..MaxChanges
        /\ UNCHANGED <<sleeping, skipLock>>
    BY <1>1 DEF OutputsChange, TypeOK
  <1>3. CASE RetryLock
    <2>1. outputs' # {}
      BY <1>1, <1>3 DEF RetryLock, TypeOK, SessionShape
    <2>2. CASE starting' = "lock" /\ UNCHANGED <<power, delaying>>
      BY <1>2, <1>3, <2>1, <2>2 DEF RetryLock, TypeOK, SessionShape
    <2>3. CASE starting' = "no" /\ NotifyAborted
      BY <1>2, <1>3, <2>1, <2>3 DEF RetryLock, NotifyAborted, CancelPower, TypeOK, SessionShape
    <2>4. QED BY <1>3, <2>2, <2>3 DEF RetryLock
  <1>4. CASE SyncLocked(new)
    <2>1. (sleepTimer \/ locked) \in BOOLEAN
      OBVIOUS
    <2>2. /\ {suspend', sleepTimer', delaying', offQueued'} \subseteq BOOLEAN
          /\ suspendCall' \in {"none", "asked", "late"}
          /\ UNCHANGED <<powerOff, offTimer, offPending, off>>
          /\ suspend' => suspend /\ suspendCall' = suspendCall
      BY <1>4, <2>1, SleepReadyEffect DEF SyncLocked
    <2>3. surface' \in [Output -> {"none", "covered", "revealed", "exiting", "gone"}]
      BY <1>4 DEF SyncLocked, TypeOK
    <2>4. QED BY <1>2, <1>4, <2>2, <2>3 DEF SyncLocked, TypeOK, SessionShape
  <1>5. CASE SyncUnlocking(new)
    <2>1. surface' \in [Output -> {"none", "covered", "revealed", "exiting", "gone"}]
      BY <1>1, <1>5, StartExitType DEF SyncUnlocking
    <2>2. /\ finishQueued' \in BOOLEAN /\ finishCalls' \in 0..MaxFinish
      BY <1>5, TryFinishEffect DEF SyncUnlocking
    <2>3. QED BY <1>2, <1>5, <2>1, <2>2 DEF SyncUnlocking, TypeOK, SessionShape
  <1>6. CASE ~deferred /\ ~Active /\ UNCHANGED <<session, surface, exit, after, power, delaying>>
    BY <1>2, <1>6 DEF TypeOK, SessionShape
  <1>7. QED BY <1>1, <1>3, <1>4, <1>5, <1>6

LEMMA SurfaceShape ==
    ASSUME Shape, NEW o \in Output,
           SurfaceRevealed(o) \/ SurfaceInvalidated(o) \/ SurfaceGone(o)
    PROVE  Shape'
  <1> USE DEF Shape, screens, session, exit, after, power, logind, NoSurface,
              Idle, Active, Engaged
  <1>1. CASE SurfaceRevealed(o)
    <2>1. sleepTimer \in BOOLEAN
      BY DEF TypeOK
    <2>2. /\ {suspend', sleepTimer', delaying', offQueued'} \subseteq BOOLEAN
          /\ suspendCall' \in {"none", "asked", "late"}
          /\ UNCHANGED <<powerOff, offTimer, offPending, off>>
          /\ suspend' => suspend /\ suspendCall' = suspendCall
      BY <1>1, <2>1, SleepReadyEffect DEF SurfaceRevealed
    <2>3. QED BY <1>1, <2>2 DEF SurfaceRevealed, TypeOK, SessionShape
  <1>2. CASE SurfaceInvalidated(o)
    <2>1. changes' \in 0..MaxChanges
      BY <1>2 DEF SurfaceInvalidated, TypeOK
    <2>2. QED BY <1>2, <2>1 DEF SurfaceInvalidated, TypeOK, SessionShape
  <1>3. CASE SurfaceGone(o)
    <2>1. /\ finishQueued' \in BOOLEAN /\ finishCalls' \in 0..MaxFinish
          /\ finishQueued' => finishQueued \/ unlocking'
      BY <1>3, TryFinishEffect DEF SurfaceGone
    <2>2. QED BY <1>3, <2>1 DEF SurfaceGone, TypeOK, SessionShape
  <1>4. QED BY <1>1, <1>2, <1>3

LEMMA SuspendShape ==
    ASSUME Shape, PlainSuspend \/ LockThenSuspend \/ RunSuspendCall \/ SleepTimeout
    PROVE  Shape'
  <1> USE DEF Shape, screens, session, exit, after, power, logind, NoSurface,
              Idle, Active, Engaged
  <1>1. CASE PlainSuspend
    BY <1>1 DEF PlainSuspend, RequestSuspend, TypeOK, SessionShape
  <1>2. CASE LockThenSuspend
    <2> USE DEF TypeOK, SessionShape
    <2>0. UNCHANGED <<outputs, changes, surface, finishQueued, finishCalls, exitTimer, sleeping, skipLock>>
      BY <1>2 DEF LockThenSuspend
    <2>1. CASE /\ Ready /\ UNCHANGED session
               /\ suspend' = FALSE /\ suspendCall' = "asked" /\ sleepTimer' = FALSE
               /\ delaying' = FALSE /\ FlushPower
      BY <2>0, <2>1, FlushPowerEffect
    <2>2. CASE Engaged /\ ~Ready /\ HoldSuspend /\ UNCHANGED <<session, power, delaying>>
      BY <2>0, <2>2 DEF HoldSuspend
    <2>3. CASE Refusable /\ ~unlocking /\ CancelSuspend /\ NotifyAborted /\ UNCHANGED session
      BY <2>0, <2>3 DEF CancelSuspend, NotifyAborted, CancelPower
    <2>4. CASE BeginLock("lock") /\ HoldSuspend /\ UNCHANGED <<power, delaying>>
      BY <2>0, <2>4 DEF BeginLock, HoldSuspend
    <2>5. CASE /\ outputs = {} /\ ~Engaged /\ deferred' = TRUE
               /\ suspend' = FALSE /\ suspendCall' = "asked" /\ sleepTimer' = FALSE
               /\ FlushPower
               /\ UNCHANGED <<starting, pending, locked, unlocking, delaying>>
      BY <2>0, <2>5, FlushPowerEffect
    <2>6. QED BY <1>2, <2>1, <2>2, <2>3, <2>4, <2>5 DEF LockThenSuspend
  <1>3. CASE RunSuspendCall
    BY <1>3 DEF RunSuspendCall, RequestSuspend, TypeOK, SessionShape
  <1>4. CASE SleepTimeout
    <2>1. CASE ~locked \/ unlocking
      BY <1>4, <2>1 DEF SleepTimeout, TypeOK, SessionShape
    <2>2. CASE locked /\ ~unlocking /\ Ready
      <3>1. SleepReady(FALSE)
        BY <1>4, <2>2 DEF SleepTimeout
      <3>2. /\ {suspend', sleepTimer', delaying', offQueued'} \subseteq BOOLEAN
            /\ suspendCall' \in {"none", "asked", "late"}
            /\ UNCHANGED <<powerOff, offTimer, offPending, off>>
            /\ suspend' => suspend /\ suspendCall' = suspendCall
        BY <3>1, SleepReadyEffect
      <3>3. QED BY <1>4, <2>2, <3>2 DEF SleepTimeout, TypeOK, SessionShape
    <2>3. CASE locked /\ ~unlocking /\ ~Ready
      BY <1>4, <2>3 DEF SleepTimeout, TypeOK, SessionShape
    <2>4. QED BY <2>1, <2>2, <2>3
  <1>5. QED BY <1>1, <1>2, <1>3, <1>4

LEMMA PowerShape ==
    ASSUME Shape, SetOutputPower \/ RunPowerCall \/ OffTimeout
    PROVE  Shape'
  <1> USE DEF Shape, screens, session, exit, after, logind, NoSurface,
              Idle, Active, Engaged, TypeOK, SessionShape
  <1>1. CASE SetOutputPower
    BY <1>1 DEF SetOutputPower, SwitchOn, SwitchOff, Ready
  <1>2. CASE RunPowerCall
    BY <1>2 DEF RunPowerCall
  <1>3. CASE OffTimeout
    BY <1>3 DEF OffTimeout, CancelPower
  <1>4. QED BY <1>1, <1>2, <1>3

LEMMA LogindShape == ASSUME Shape, SleepSignal \/ ResumeSignal PROVE Shape'
  <1> USE DEF Shape, screens, session, exit, after, power, NoSurface,
              Idle, Active, Engaged
  <1>1. CASE SleepSignal
    <2> USE DEF TypeOK, SessionShape
    <2>0. UNCHANGED <<outputs, changes, surface, finishQueued, finishCalls, exitTimer>> /\ sleeping' = TRUE
      BY <1>1 DEF SleepSignal
    <2>1. CASE SleepUnlocked
      BY <2>0, <2>1 DEF SleepUnlocked
    <2>2. CASE SleepLocks
      <3>1. CASE /\ Active /\ delaying' = TRUE
                 /\ sleepTimer' = (sleepTimer \/ (locked /\ ~unlocking))
                 /\ UNCHANGED <<session, suspend, suspendCall, power>>
        BY <2>0, <2>2, <3>1 DEF SleepLocks
      <3>2. CASE ~Active /\ NotifyAborted /\ UNCHANGED <<session, after>>
        BY <2>0, <2>2, <3>2 DEF SleepLocks, NotifyAborted, CancelPower
      <3>3. CASE BeginLock("sleep") /\ delaying' = TRUE /\ UNCHANGED <<after, power>>
        BY <2>0, <2>2, <3>3 DEF SleepLocks, BeginLock
      <3>4. CASE DeferLock /\ delaying' = FALSE
        BY <2>0, <2>2, <3>4, FlushPowerEffect DEF SleepLocks, DeferLock, DispatchSuspend
      <3>5. QED BY <2>2, <3>1, <3>2, <3>3, <3>4 DEF SleepLocks
    <2>3. QED BY <1>1, <2>1, <2>2 DEF SleepSignal
  <1>2. CASE ResumeSignal
    <2>1. CASE ResumeLocked
      <3>1. surface' \in [Output -> {"none", "covered", "revealed", "exiting", "gone"}]
        BY <2>1 DEF ResumeLocked, TypeOK
      <3>2. /\ finishQueued' \in BOOLEAN /\ finishCalls' \in 0..MaxFinish
            /\ finishQueued' => finishQueued \/ unlocking'
        BY <2>1, TryFinishEffect DEF ResumeLocked
      <3>3. QED BY <1>2, <2>1, <3>1, <3>2
               DEF ResumeSignal, ResumeLocked, CancelSuspend, CancelPower, TypeOK, SessionShape
    <2>2. CASE ~Active /\ UNCHANGED <<session, surface, exit, after, power>>
      BY <1>2, <2>2 DEF ResumeSignal, TypeOK, SessionShape
    <2>3. QED BY <1>2, <2>1, <2>2 DEF ResumeSignal
  <1>3. QED BY <1>1, <1>2

\* The shape of the session is inductive.
THEOREM ShapeInvariant == Spec => []Shape
  <1>1. Init => Shape
    BY InitShape
  <1>2. Shape /\ [Next]_vars => Shape'
    <2> SUFFICES ASSUME Shape, [Next]_vars PROVE Shape'
      OBVIOUS
    <2>1. CASE UNCHANGED vars
      BY <2>1, StutterShape
    <2>2. CASE Next
      BY <2>2, LockShape, CompositorShape, UnlockShape, OutputsShape, SurfaceShape,
         SuspendShape, PowerShape, LogindShape DEF Next
    <2>3. QED BY <2>1, <2>2
  <1>3. QED BY <1>1, <1>2, PTL DEF Spec

\* The variables of a lock screen keep their types, for any number of monitors.
THEOREM LockTypes == Spec => []TypeOK
  <1>1. Shape => TypeOK
    BY DEF Shape
  <1>2. QED BY <1>1, ShapeInvariant, PTL

-----------------------------------------------------------------------------
(* Whoever waits has a deadline.                                           *)

LEMMA DeadlineKept ==
    ASSUME Shape, WaitersHaveDeadline, UNCHANGED vars
    PROVE  WaitersHaveDeadline'
  BY DEF WaitersHaveDeadline, vars, screens, session, after, power

\* A handler that leaves the waiters alone, or cancels them.
LEMMA PowerAnswered ==
    ASSUME Shape, WaitersHaveDeadline, CancelPower
    PROVE  (powerOff' => offTimer') /\ offPending' = powerOff'
  BY DEF CancelPower, WaitersHaveDeadline, Shape, TypeOK

LEMMA SleepReadyDeadline ==
    ASSUME NEW timer \in BOOLEAN, Shape, WaitersHaveDeadline, SleepReady(timer),
           suspend \/ delaying => timer \/ ~locked' \/ unlocking'
    PROVE  WaitersHaveDeadline'
  <1>1. UNCHANGED <<powerOff, offTimer, offPending>>
    BY SleepReadyEffect DEF Shape
  <1>2. (suspend' \/ delaying') /\ locked' /\ ~unlocking' => sleepTimer'
    BY SleepReadyEffect DEF Shape
  <1>3. QED BY <1>1, <1>2 DEF WaitersHaveDeadline

LEMMA LockDeadline ==
    ASSUME Shape, WaitersHaveDeadline,
           Lock \/ LockDeferredLate \/ LockFailed \/ LockRequested
    PROVE  WaitersHaveDeadline'
  <1> USE DEF Shape, WaitersHaveDeadline, session, after, power, Idle, Active, Engaged
  <1>1. CASE Lock
    <2>1. CASE Refusable /\ NotifyAborted /\ UNCHANGED <<session, after>>
      BY <2>1, PowerAnswered DEF NotifyAborted
    <2>2. CASE BeginLock("lock") /\ UNCHANGED <<after, power, delaying>>
      BY <2>2 DEF BeginLock
    <2>3. CASE DeferLock /\ UNCHANGED delaying
      BY <2>3, FlushPowerEffect DEF DeferLock
    <2>4. QED BY <1>1, <2>1, <2>2, <2>3 DEF Lock
  <1>2. CASE LockDeferredLate
    BY <1>2, FlushPowerEffect DEF LockDeferredLate, SessionShape
  <1>3. CASE LockFailed
    BY <1>3, PowerAnswered DEF LockFailed, Teardown, NotifyAborted
  <1>4. CASE LockRequested
    BY <1>4 DEF LockRequested
  <1>5. QED BY <1>1, <1>2, <1>3, <1>4

LEMMA SessionDeadline ==
    ASSUME Shape, WaitersHaveDeadline,
           HandleLocked \/ HandleFinished \/ Unlock \/ RunFinish \/ ExitTimeout
    PROVE  WaitersHaveDeadline'
  <1> USE DEF session, after, power
  <1>1. CASE HandleLocked
    <2>1. (~unlocking) \in BOOLEAN
      BY DEF Shape, TypeOK
    <2>2. ~unlocking /\ SleepReady(~unlocking)
      BY <1>1 DEF HandleLocked, Shape, SessionShape
    <2>3. QED BY <2>1, <2>2, SleepReadyDeadline
  <1>2. CASE HandleFinished
    BY <1>2, PowerAnswered DEF HandleFinished, Teardown, WaitersHaveDeadline
  <1>3. CASE Unlock
    <2>1. ~locked' \/ unlocking'
      BY <1>3 DEF Unlock, UnlockConfirmed, UnlockUnconfirmed, UnlockAgain, Teardown
    <2>2. CancelPower
      BY <1>3 DEF Unlock
    <2>3. QED BY <2>1, <2>2, PowerAnswered DEF WaitersHaveDeadline
  <1>4. CASE RunFinish
    BY <1>4 DEF RunFinish, FinishUnlock, Teardown, WaitersHaveDeadline
  <1>5. CASE ExitTimeout
    BY <1>5 DEF ExitTimeout, FinishUnlock, Teardown, WaitersHaveDeadline
  <1>6. QED BY <1>1, <1>2, <1>3, <1>4, <1>5

LEMMA ScreenDeadline ==
    ASSUME Shape, WaitersHaveDeadline,
           \/ OutputsChange
           \/ \E o \in Output : SurfaceRevealed(o) \/ SurfaceInvalidated(o) \/ SurfaceGone(o)
    PROVE  WaitersHaveDeadline'
  <1> USE DEF session, after, power
  <1>1. CASE OutputsChange
    <2>1. PICK new \in (SUBSET Output) \ {outputs} :
            \/ RetryLock
            \/ SyncLocked(new)
            \/ SyncUnlocking(new)
            \/ UNCHANGED <<session, surface, exit, after, power, delaying>>
      BY <1>1, Zenon DEF OutputsChange
    <2>2. CASE RetryLock
      <3>1. ~locked'
        BY <2>2 DEF RetryLock, Shape, SessionShape, Engaged, Active
      <3>2. CASE UNCHANGED power
        BY <3>1, <3>2 DEF WaitersHaveDeadline
      <3>3. CASE NotifyAborted
        BY <3>1, <3>3, PowerAnswered DEF NotifyAborted, WaitersHaveDeadline
      <3>4. QED BY <2>2, <3>2, <3>3 DEF RetryLock
    <2>3. CASE SyncLocked(new)
      <3>1. (sleepTimer \/ locked) \in BOOLEAN
        OBVIOUS
      <3>2. SleepReady(sleepTimer \/ locked) /\ (sleepTimer \/ locked \/ ~locked')
        BY <2>3 DEF SyncLocked
      <3>3. QED BY <3>1, <3>2, SleepReadyDeadline
    <2>4. CASE SyncUnlocking(new)
      BY <2>4 DEF SyncUnlocking, WaitersHaveDeadline
    <2>5. CASE UNCHANGED <<session, surface, exit, after, power, delaying>>
      BY <2>5 DEF WaitersHaveDeadline
    <2>6. QED BY <2>1, <2>2, <2>3, <2>4, <2>5
  <1>2. ASSUME NEW o \in Output, SurfaceRevealed(o) PROVE WaitersHaveDeadline'
    <2>1. sleepTimer \in BOOLEAN
      BY DEF Shape, TypeOK
    <2>2. SleepReady(sleepTimer) /\ UNCHANGED <<locked, unlocking>>
      BY <1>2 DEF SurfaceRevealed
    <2>3. suspend \/ delaying => sleepTimer \/ ~locked' \/ unlocking'
      BY <2>2 DEF WaitersHaveDeadline
    <2>4. QED BY <2>1, <2>2, <2>3, SleepReadyDeadline
  <1>3. ASSUME NEW o \in Output, SurfaceInvalidated(o) \/ SurfaceGone(o)
        PROVE  WaitersHaveDeadline'
    BY <1>3 DEF SurfaceInvalidated, SurfaceGone, WaitersHaveDeadline
  <1>4. QED BY <1>1, <1>2, <1>3

LEMMA SuspendDeadline ==
    ASSUME Shape, WaitersHaveDeadline,
           PlainSuspend \/ LockThenSuspend \/ RunSuspendCall \/ SleepTimeout
    PROVE  WaitersHaveDeadline'
  <1> USE DEF Shape, WaitersHaveDeadline, session, after, power, Idle, Active, Engaged
  <1>1. CASE PlainSuspend
    BY <1>1 DEF PlainSuspend
  <1>2. CASE LockThenSuspend
    <2>1. CASE /\ Ready /\ UNCHANGED session
               /\ suspend' = FALSE /\ suspendCall' = "asked" /\ sleepTimer' = FALSE
               /\ delaying' = FALSE /\ FlushPower
      BY <2>1, FlushPowerEffect
    <2>2. CASE Engaged /\ ~Ready /\ HoldSuspend /\ UNCHANGED <<session, power, delaying>>
      BY <2>2 DEF HoldSuspend
    <2>3. CASE Refusable /\ ~unlocking /\ CancelSuspend /\ NotifyAborted /\ UNCHANGED session
      BY <2>3, PowerAnswered DEF CancelSuspend, NotifyAborted
    <2>4. CASE BeginLock("lock") /\ HoldSuspend /\ UNCHANGED <<power, delaying>>
      BY <2>4 DEF BeginLock
    <2>5. CASE /\ outputs = {} /\ ~Engaged /\ deferred' = TRUE
               /\ suspend' = FALSE /\ suspendCall' = "asked" /\ sleepTimer' = FALSE
               /\ FlushPower
               /\ UNCHANGED <<starting, pending, locked, unlocking, delaying>>
      BY <2>5, FlushPowerEffect
    <2>6. QED BY <1>2, <2>1, <2>2, <2>3, <2>4, <2>5 DEF LockThenSuspend
  <1>3. CASE RunSuspendCall
    <2>0. UNCHANGED <<locked, unlocking, powerOff, offTimer, offPending, delaying>>
      BY <1>3 DEF RunSuspendCall
    <2>1. CASE UNCHANGED <<suspend, sleepTimer>>
      BY <2>0, <2>1
    <2>2. CASE sleepTimer' = (sleepTimer \/ locked)
      BY <2>0, <2>2
    <2>3. QED BY <1>3, <2>1, <2>2 DEF RunSuspendCall
  <1>4. CASE SleepTimeout
    <2>1. CASE ~locked \/ unlocking
      BY <1>4, <2>1 DEF SleepTimeout
    <2>2. CASE locked /\ ~unlocking /\ Ready
      <3>1. Ready' /\ SleepReady(FALSE)
        BY <1>4, <2>2 DEF SleepTimeout, Ready
      <3>2. ~suspend' /\ ~delaying' /\ UNCHANGED <<powerOff, offTimer, offPending>>
        BY <3>1, SleepReadyEffect
      <3>3. QED BY <3>2
    <2>3. CASE locked /\ ~unlocking /\ ~Ready
      BY <1>4, <2>3 DEF SleepTimeout
    <2>4. QED BY <2>1, <2>2, <2>3
  <1>5. QED BY <1>1, <1>2, <1>3, <1>4

LEMMA PowerDeadline ==
    ASSUME Shape, WaitersHaveDeadline, SetOutputPower \/ RunPowerCall \/ OffTimeout
    PROVE  WaitersHaveDeadline'
  <1> USE DEF WaitersHaveDeadline, session, after
  <1>1. CASE SetOutputPower
    <2>0. UNCHANGED <<locked, unlocking, suspend, delaying, sleepTimer>>
      BY <1>1 DEF SetOutputPower
    <2>1. CASE SwitchOn
      BY <2>0, <2>1 DEF SwitchOn
    <2>2. CASE SwitchOff
      <3> DEFINE kept == Engaged /\ ~unlocking
      <3>1. powerOff' = kept /\ offTimer' = kept /\ offPending' = kept
        BY <2>2 DEF SwitchOff
      <3>2. HIDE DEF kept
      <3>3. offTimer' = powerOff' /\ offPending' = powerOff'
        BY <3>1
      <3>4. QED BY <2>0, <3>3
    <2>3. QED BY <1>1, <2>1, <2>2 DEF SetOutputPower
  <1>2. CASE RunPowerCall
    <2>0. UNCHANGED <<locked, unlocking, suspend, delaying, sleepTimer>>
      BY <1>2 DEF RunPowerCall
    <2>1. CASE UNCHANGED <<powerOff, offTimer, offPending>>
      BY <2>0, <2>1
    <2>2. CASE powerOff' = FALSE /\ offPending' = FALSE
      BY <2>0, <2>2
    <2>3. QED BY <1>2, <2>1, <2>2 DEF RunPowerCall
  <1>3. CASE OffTimeout
    BY <1>3, PowerAnswered DEF OffTimeout
  <1>4. QED BY <1>1, <1>2, <1>3

LEMMA LogindDeadline ==
    ASSUME Shape, WaitersHaveDeadline, SleepSignal \/ ResumeSignal
    PROVE  WaitersHaveDeadline'
  <1> USE DEF WaitersHaveDeadline, session, after, power
  <1>1. CASE SleepSignal
    <2>1. CASE SleepUnlocked
      BY <2>1 DEF SleepUnlocked
    <2>2. CASE SleepLocks
      <3>1. CASE /\ Active /\ delaying' = TRUE
                 /\ sleepTimer' = (sleepTimer \/ (locked /\ ~unlocking))
                 /\ UNCHANGED <<session, suspend, suspendCall, power>>
        BY <3>1
      <3>2. CASE ~Active /\ NotifyAborted /\ UNCHANGED <<session, after>>
        BY <3>2, PowerAnswered DEF NotifyAborted
      <3>3. CASE BeginLock("sleep") /\ delaying' = TRUE /\ UNCHANGED <<after, power>>
        BY <3>3 DEF BeginLock, Engaged, Active
      <3>4. CASE DeferLock /\ delaying' = FALSE
        BY <3>4, FlushPowerEffect DEF DeferLock, Engaged, Active
      <3>5. QED BY <2>2, <3>1, <3>2, <3>3, <3>4 DEF SleepLocks
    <2>3. QED BY <1>1, <2>1, <2>2 DEF SleepSignal
  <1>2. CASE ResumeSignal
    <2>1. CASE ResumeLocked
      BY <1>2, <2>1, PowerAnswered DEF ResumeSignal, ResumeLocked, CancelSuspend
    <2>2. CASE ~Active /\ UNCHANGED <<session, surface, exit, after, power>>
      BY <1>2, <2>2 DEF ResumeSignal
    <2>3. QED BY <1>2, <2>1, <2>2 DEF ResumeSignal
  <1>3. QED BY <1>1, <1>2

\* A suspend that is held, a sleep that is delayed and outputs that are to go
\* off always have a running timer (lock_screen.cpp:727-779), for any number
\* of monitors and of changes.
THEOREM DeadlinesRun == Spec => []WaitersHaveDeadline
  <1>1. Init => WaitersHaveDeadline
    BY DEF Init, WaitersHaveDeadline
  <1>2. Shape /\ WaitersHaveDeadline /\ [Next]_vars => WaitersHaveDeadline'
    <2> SUFFICES ASSUME Shape, WaitersHaveDeadline, [Next]_vars PROVE WaitersHaveDeadline'
      OBVIOUS
    <2>1. CASE UNCHANGED vars
      BY <2>1, DeadlineKept
    <2>2. CASE Next
      BY <2>2, LockDeadline, SessionDeadline, ScreenDeadline, SuspendDeadline,
         PowerDeadline, LogindDeadline DEF Next
    <2>3. QED BY <2>1, <2>2
  <1>3. QED BY <1>1, <1>2, ShapeInvariant, PTL DEF Spec

-----------------------------------------------------------------------------
(* A suspend never outlives its lock, if it is not asked for too late.     *)

\* SuspendHasLock is not inductive: the end of the exit transition leaves a
\* suspend alone, so none may be held while it runs.
SuspendInv ==
    /\ suspend => Engaged /\ ~unlocking
    /\ suspendCall # "none" => ~unlocking

LEMMA SuspendHeldByLock ==
    ASSUME Shape, SuspendInv, UNCHANGED after,
           Engaged => Engaged', unlocking' => unlocking
    PROVE  SuspendInv'
  BY DEF SuspendInv, after

LEMMA SuspendGone ==
    ASSUME ~suspend', suspendCall' = "none" PROVE SuspendInv'
  BY DEF SuspendInv

LEMMA SleepReadySuspend ==
    ASSUME NEW timer \in BOOLEAN, Shape, SuspendInv, SleepReady(timer),
           Engaged', unlocking' => unlocking
    PROVE  SuspendInv'
  <1>1. suspendCall' # suspendCall => ~unlocking'
    BY SleepReadyEffect DEF Shape
  <1>2. suspend' => suspend
    BY SleepReadyEffect DEF Shape
  <1>3. QED BY <1>1, <1>2 DEF SuspendInv

LEMMA LockSuspend ==
    ASSUME Shape, SuspendInv,
           Lock \/ LockDeferredLate \/ LockFailed \/ LockRequested
    PROVE  SuspendInv'
  <1> USE DEF Shape, SessionShape, session, after, Idle, Active, Engaged
  <1>1. CASE Lock
    <2>1. CASE Refusable /\ NotifyAborted /\ UNCHANGED <<session, after>>
      BY <2>1, SuspendHeldByLock
    <2>2. CASE BeginLock("lock") /\ UNCHANGED <<after, power, delaying>>
      BY <2>2, SuspendHeldByLock DEF BeginLock
    <2>3. CASE DeferLock /\ UNCHANGED delaying
      BY <2>3 DEF DeferLock, DispatchSuspend, SuspendInv
    <2>4. QED BY <1>1, <2>1, <2>2, <2>3 DEF Lock
  <1>2. CASE LockDeferredLate
    BY <1>2 DEF LockDeferredLate, DispatchSuspend, SuspendInv
  <1>3. CASE LockFailed
    BY <1>3, SuspendGone DEF LockFailed, CancelSuspend
  <1>4. CASE LockRequested
    BY <1>4, SuspendHeldByLock DEF LockRequested
  <1>5. QED BY <1>1, <1>2, <1>3, <1>4

LEMMA SessionSuspend ==
    ASSUME Shape, SuspendInv,
           HandleLocked \/ HandleFinished \/ Unlock \/ RunFinish \/ ExitTimeout
    PROVE  SuspendInv'
  <1> USE DEF session, after
  <1>1. CASE HandleLocked
    <2>1. (~unlocking) \in BOOLEAN
      BY DEF Shape, TypeOK
    <2>2. SleepReady(~unlocking) /\ Engaged' /\ (unlocking' => unlocking)
      BY <1>1 DEF HandleLocked, Engaged, Active
    <2>3. QED BY <2>1, <2>2, SleepReadySuspend
  <1>2. CASE HandleFinished
    BY <1>2, SuspendGone DEF HandleFinished, CancelSuspend
  <1>3. CASE Unlock
    BY <1>3, SuspendGone DEF Unlock, CancelSuspend
  <1>4. CASE RunFinish
    <2>1. CASE unlocking
      BY <1>4, <2>1 DEF RunFinish, FinishUnlock, Teardown, SuspendInv
    <2>2. CASE ~unlocking
      BY <1>4, <2>2, SuspendHeldByLock DEF RunFinish, Engaged, Active, Idle
    <2>3. QED BY <2>1, <2>2
  <1>5. CASE ExitTimeout
    <2>1. unlocking
      BY <1>5 DEF ExitTimeout, Shape, SessionShape
    <2>2. QED BY <1>5, <2>1 DEF ExitTimeout, FinishUnlock, Teardown, SuspendInv
  <1>6. QED BY <1>1, <1>2, <1>3, <1>4, <1>5

LEMMA ScreenSuspend ==
    ASSUME Shape, SuspendInv,
           \/ OutputsChange
           \/ \E o \in Output : SurfaceRevealed(o) \/ SurfaceInvalidated(o) \/ SurfaceGone(o)
    PROVE  SuspendInv'
  <1> USE DEF session, after, Engaged, Active, Idle
  <1>1. CASE OutputsChange
    <2>1. PICK new \in (SUBSET Output) \ {outputs} :
            \/ RetryLock
            \/ SyncLocked(new)
            \/ SyncUnlocking(new)
            \/ UNCHANGED <<session, surface, exit, after, power, delaying>>
      BY <1>1, Zenon DEF OutputsChange
    <2>2. CASE RetryLock
      <3>1. UNCHANGED <<after, pending, locked, unlocking>> /\ ~Engaged
        BY <2>2 DEF RetryLock, Shape, SessionShape
      <3>2. QED BY <3>1, SuspendHeldByLock
    <2>3. CASE SyncLocked(new)
      <3>1. (sleepTimer \/ locked) \in BOOLEAN
        OBVIOUS
      <3>2. SleepReady(sleepTimer \/ locked) /\ Engaged' /\ (unlocking' => unlocking)
        BY <2>3 DEF SyncLocked
      <3>3. QED BY <3>1, <3>2, SleepReadySuspend
    <2>4. CASE SyncUnlocking(new)
      BY <2>4, SuspendHeldByLock DEF SyncUnlocking
    <2>5. CASE UNCHANGED <<session, surface, exit, after, power, delaying>>
      BY <2>5, SuspendHeldByLock
    <2>6. QED BY <2>1, <2>2, <2>3, <2>4, <2>5
  <1>2. ASSUME NEW o \in Output, SurfaceRevealed(o) PROVE SuspendInv'
    <2>1. sleepTimer \in BOOLEAN
      BY DEF Shape, TypeOK
    <2>2. SleepReady(sleepTimer) /\ Engaged' /\ (unlocking' => unlocking)
      BY <1>2 DEF SurfaceRevealed
    <2>3. QED BY <2>1, <2>2, SleepReadySuspend
  <1>3. ASSUME NEW o \in Output, SurfaceInvalidated(o) \/ SurfaceGone(o)
        PROVE  SuspendInv'
    BY <1>3, SuspendHeldByLock DEF SurfaceInvalidated, SurfaceGone
  <1>4. QED BY <1>1, <1>2, <1>3

LEMMA RequestSuspendKept ==
    ASSUME ~LateSuspend, Shape, SuspendInv,
           PlainSuspend \/ LockThenSuspend \/ RunSuspendCall \/ SleepTimeout
    PROVE  SuspendInv'
  <1> USE DEF session, after, Engaged, Active, Idle
  <1>1. CASE PlainSuspend
    BY <1>1, SuspendHeldByLock DEF PlainSuspend
  <1>2. CASE LockThenSuspend
    <2>0. ~unlocking
      BY <1>2 DEF LockThenSuspend
    <2>1. UNCHANGED unlocking
      BY <1>2 DEF LockThenSuspend, BeginLock
    <2>2. CASE suspend' = FALSE
      BY <2>0, <2>1, <2>2 DEF SuspendInv
    <2>3. CASE HoldSuspend /\ Engaged'
      BY <2>0, <2>1, <2>3 DEF HoldSuspend, SuspendInv
    <2>4. (HoldSuspend /\ Engaged') \/ suspend' = FALSE
      BY <1>2 DEF LockThenSuspend, BeginLock, CancelSuspend
    <2>5. QED BY <2>2, <2>3, <2>4
  <1>3. CASE RunSuspendCall
    BY <1>3 DEF RunSuspendCall, SuspendInv
  <1>4. CASE SleepTimeout
    <2>1. CASE ~locked \/ unlocking
      BY <1>4, <2>1 DEF SleepTimeout, SuspendInv
    <2>2. CASE locked /\ ~unlocking
      BY <1>4, <2>2 DEF SleepTimeout, SleepReady, SuspendInv
    <2>3. QED BY <2>1, <2>2
  <1>5. QED BY <1>1, <1>2, <1>3, <1>4

LEMMA RestSuspend ==
    ASSUME Shape, SuspendInv,
           SetOutputPower \/ RunPowerCall \/ OffTimeout \/ SleepSignal \/ ResumeSignal
    PROVE  SuspendInv'
  <1> USE DEF session, Engaged, Active, Idle
  <1>1. CASE SetOutputPower \/ RunPowerCall \/ OffTimeout
    BY <1>1, SuspendHeldByLock DEF SetOutputPower, RunPowerCall, OffTimeout
  <1>2. CASE SleepSignal
    <2>1. CASE SleepUnlocked
      BY <2>1, SuspendHeldByLock DEF SleepUnlocked
    <2>2. CASE SleepLocks
      <3>1. CASE UNCHANGED <<session, suspend, suspendCall>>
        BY <3>1 DEF SuspendInv
      <3>2. CASE ~Active /\ NotifyAborted /\ UNCHANGED <<session, after>>
        BY <3>2, SuspendHeldByLock
      <3>3. CASE BeginLock("sleep") /\ delaying' = TRUE /\ UNCHANGED <<after, power>>
        BY <3>3, SuspendHeldByLock DEF BeginLock
      <3>4. CASE DeferLock /\ delaying' = FALSE
        BY <3>4 DEF DeferLock, DispatchSuspend, SuspendInv, Shape, SessionShape
      <3>5. QED BY <2>2, <3>1, <3>2, <3>3, <3>4 DEF SleepLocks
    <2>3. QED BY <1>2, <2>1, <2>2 DEF SleepSignal
  <1>3. CASE ResumeSignal
    <2>1. CASE ResumeLocked
      BY <2>1, SuspendGone DEF ResumeLocked, CancelSuspend
    <2>2. CASE ~Active /\ UNCHANGED <<session, surface, exit, after, power>>
      BY <2>2, SuspendHeldByLock
    <2>3. QED BY <1>3, <2>1, <2>2 DEF ResumeSignal
  <1>4. QED BY <1>1, <1>2, <1>3

\* If nobody asks for a suspend during an exit transition, a held suspend has
\* its lock and none is on its way while the session unlocks: unlock(),
\* handleFinished() and a failed lock() leave none behind.
THEOREM SuspendsWithItsLock == ASSUME ~LateSuspend PROVE Spec => []SuspendHasLock
  <1>1. Init => SuspendInv
    BY DEF Init, SuspendInv
  <1>2. Shape /\ SuspendInv /\ [Next]_vars => SuspendInv'
    <2> SUFFICES ASSUME Shape, SuspendInv, [Next]_vars PROVE SuspendInv'
      OBVIOUS
    <2>1. CASE UNCHANGED vars
      BY <2>1, SuspendHeldByLock DEF vars, session, Engaged, Active, Idle
    <2>2. CASE Next
      BY <2>2, LockSuspend, SessionSuspend, ScreenSuspend, RequestSuspendKept, RestSuspend DEF Next
    <2>3. QED BY <2>1, <2>2
  <1>3. SuspendInv => SuspendHasLock
    BY DEF SuspendInv, SuspendHasLock
  <1>4. QED BY <1>1, <1>2, <1>3, ShapeInvariant, PTL DEF Spec

-----------------------------------------------------------------------------
\* handleSleepReady() switches nothing off itself: it queues a call.
LEMMA SleepReadyOff ==
    ASSUME NEW timer, SleepReady(timer) PROVE UNCHANGED off
  BY FlushPowerEffect DEF SleepReady, power

\* The outputs go off only with no lock in the making or behind a lock whose
\* frame is on every surface, for any number of outputs.
THEOREM OutputsOffSafely == Spec => SafePowerOff
  <1>1. [Next]_vars => [~off /\ off' => ~Engaged \/ Ready]_vars
    <2> SUFFICES ASSUME Next, ~off, off' PROVE ~Engaged \/ Ready
      BY DEF vars
    <2>1. CASE SetOutputPower
      BY <2>1 DEF SetOutputPower, SwitchOn, SwitchOff
    <2>2. CASE RunPowerCall
      BY <2>2 DEF RunPowerCall
    <2>3. CASE ~SetOutputPower /\ ~RunPowerCall
      <3>1. CASE Lock \/ LockDeferredLate \/ LockFailed \/ LockRequested
        BY <3>1, FlushPowerEffect DEF Lock, LockDeferredLate, LockFailed, LockRequested,
           DeferLock, NotifyAborted, CancelPower, power
      <3>2. CASE OutputsChange \/ SleepSignal
        BY <3>2, FlushPowerEffect, SleepReadyOff DEF OutputsChange, RetryLock, SyncLocked,
           SyncUnlocking, SleepSignal, SleepUnlocked, SleepLocks, DeferLock, NotifyAborted,
           CancelPower, power
      <3>3. CASE HandleLocked \/ HandleFinished \/ Unlock \/ RunFinish \/ ExitTimeout
        BY <3>3, SleepReadyOff DEF HandleLocked, HandleFinished, Unlock, RunFinish,
           ExitTimeout, CancelPower, power
      <3>4. CASE \E o \in Output : SurfaceRevealed(o) \/ SurfaceInvalidated(o) \/ SurfaceGone(o)
        BY <3>4, SleepReadyOff DEF SurfaceRevealed, SurfaceInvalidated, SurfaceGone, power
      <3>5. CASE PlainSuspend \/ LockThenSuspend \/ RunSuspendCall \/ SleepTimeout
        BY <3>5, FlushPowerEffect, SleepReadyOff DEF PlainSuspend, LockThenSuspend,
           RunSuspendCall, SleepTimeout, NotifyAborted, CancelPower, power
      <3>6. CASE OffTimeout \/ ResumeSignal
        BY <3>6 DEF OffTimeout, ResumeSignal, ResumeLocked, CancelPower, power
      <3>7. QED BY <2>3, <3>1, <3>2, <3>3, <3>4, <3>5, <3>6 DEF Next
    <2>4. QED BY <2>1, <2>2, <2>3
  <1>2. QED BY <1>1, PTL DEF Spec, SafePowerOff
=============================================================================
