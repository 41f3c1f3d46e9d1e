----------------------------- MODULE LockScreen -----------------------------
(***************************************************************************)
(* The session lock (shell/lockscreen/lock_screen.cpp) with its three      *)
(* clients: the action that locks and then suspends, the output power      *)
(* switch, and logind's announcement of a sleep (app/*.cpp).               *)
(*                                                                         *)
(* All code runs on the main thread.  Handlers interleave because the      *)
(* desktop is captured while lock() is running, with Wayland events served *)
(* in the middle (`starting`), and because closures and timers come later. *)
(* A cancelled closure finds another generation number and does nothing:   *)
(* the model drops it at once.  Closures of different kinds run here in    *)
(* any order, the queue keeps theirs.                                      *)
(***************************************************************************)
EXTENDS Naturals

CONSTANTS
    Output,      \* the monitors there may be
    LateSuspend, \* may "lock and suspend" be asked for in the exit transition?
    MaxChanges,  \* bound on outputs changing and frames being invalidated
    MaxFinish    \* bound on closures that finish an unlock

ASSUME LockAssumption ==
    /\ LateSuspend \in BOOLEAN
    /\ MaxChanges \in Nat
    /\ MaxFinish \in Nat

VARIABLES
    outputs,      \* monitors with usable geometry
    changes,      \* how often they, or the frames, have changed
    starting,     \* m_lockStarting, and for whom: "no", "lock", "sleep"
    pending,      \* m_lockPending: asked of the compositor
    locked,       \* m_locked: confirmed by the compositor
    unlocking,    \* m_unlocking: the exit transition runs
    deferred,     \* m_lockDeferred: no output to lock
    surface,      \* the lock surface of each output, and what it shows
    finishQueued, \* m_unlockFinishQueued
    finishCalls,  \* closures of tryFinishAnimatedUnlock() in the queue
    exitTimer,    \* m_unlockTransitionTimer is active
    suspend,      \* m_pendingAfterLocked holds the suspend
    suspendCall,  \* the closure that runs it: "none", "asked", "late"
    sleepTimer,   \* m_suspendTimeoutTimer is active
    powerOff,     \* m_pendingOutputPowerOff is set
    offQueued,    \* m_outputPowerOffQueued: its closure is in the queue
    offTimer,     \* m_outputPowerOffTimer is active
    offPending,   \* the platform was told that the outputs are going off
    off,          \* the outputs are off
    sleeping,     \* logind has announced a sleep and no resume
    skipLock,     \* m_skipLockOnNextSleep
    delaying      \* m_releaseSleepDelayWhenLocked: the inhibitor is held

screens == <<outputs, changes>>
session == <<starting, pending, locked, unlocking, deferred>>
exit    == <<finishQueued, finishCalls, exitTimer>>
after   == <<suspend, suspendCall, sleepTimer>>
power   == <<powerOff, offQueued, offTimer, offPending, off>>
logind  == <<sleeping, skipLock>>
vars    == <<screens, session, surface, exit, after, power, logind, delaying>>

TypeOK ==
    /\ outputs \subseteq Output
    /\ changes \in 0..MaxChanges
    /\ starting \in {"no", "lock", "sleep"}
    /\ surface \in [Output -> {"none", "covered", "revealed", "exiting", "gone"}]
    /\ finishCalls \in 0..MaxFinish
    /\ suspendCall \in {"none", "asked", "late"}
    /\ {pending, locked, unlocking, deferred, finishQueued, exitTimer} \subseteq BOOLEAN
    /\ {suspend, sleepTimer, sleeping, skipLock, delaying} \subseteq BOOLEAN
    /\ {powerOff, offQueued, offTimer, offPending, off} \subseteq BOOLEAN

NoSurface == [o \in Output |-> "none"]

Init ==
    /\ outputs \in SUBSET Output
    /\ changes = 0
    /\ starting = "no"
    /\ surface = NoSurface
    /\ finishCalls = 0
    /\ suspendCall = "none"
    /\ pending = FALSE /\ locked = FALSE /\ unlocking = FALSE /\ deferred = FALSE
    /\ finishQueued = FALSE /\ exitTimer = FALSE
    /\ suspend = FALSE /\ sleepTimer = FALSE
    /\ powerOff = FALSE /\ offQueued = FALSE /\ offTimer = FALSE
    /\ offPending = FALSE /\ off = FALSE
    /\ sleeping = FALSE /\ skipLock = FALSE /\ delaying = FALSE

-----------------------------------------------------------------------------
(* What the parts of lock_screen.cpp ask each other.                       *)

Idle   == starting = "no"       \* no handler is in the middle of lock()
Active == pending \/ locked     \* isActive()
Engaged == Active \/ ~Idle

\* isReadyForSleep(): every surface there is shows its revealed frame.
Ready == /\ locked /\ ~unlocking
         /\ \A o \in Output : surface[o] \in {"none", "revealed"}

\* What every surface there is has come to the end of its exit transition.
AllGone == \A o \in Output : surface[o] \in {"none", "gone"}

-----------------------------------------------------------------------------
(* Pieces of handlers.  Those that depend on the session read its next     *)
(* state: in the code they come after the assignments.                     *)

CancelSuspend ==
    /\ suspend' = FALSE
    /\ suspendCall' = "none"
    /\ sleepTimer' = FALSE

\* The callback resets the platform's flag, unless setOutputPower() has
\* made a newer request.
CancelPower ==
    /\ powerOff' = FALSE
    /\ offQueued' = FALSE
    /\ offTimer' = FALSE
    /\ offPending' = (offPending /\ ~powerOff)
    /\ UNCHANGED off

FlushPower ==
    /\ offQueued' = (powerOff /\ (offQueued \/ Ready' \/ ~Engaged'))
    /\ UNCHANGED <<powerOff, offTimer, offPending, off>>

DispatchSuspend(kind) ==
    /\ suspend' = FALSE
    /\ suspendCall' = IF suspend THEN kind ELSE suspendCall
    /\ sleepTimer' = (sleepTimer /\ ~suspend)

\* handleSleepReady(), when the timer would otherwise be as `timer` says.
SleepReady(timer) ==
    IF Ready'
    THEN /\ sleepTimer' = FALSE
         /\ suspend' = FALSE
         /\ suspendCall' = IF suspend THEN "asked" ELSE suspendCall
         /\ delaying' = FALSE
         /\ FlushPower
    ELSE /\ sleepTimer' = timer
         /\ UNCHANGED <<suspend, suspendCall, delaying, power>>

\* notifyLockAborted() with the hook of Application.
NotifyAborted == CancelPower /\ delaying' = FALSE

\* tryFinishAnimatedUnlock()
TryFinish ==
    IF unlocking' /\ ~finishQueued /\ AllGone'
    THEN /\ finishCalls < MaxFinish
         /\ finishQueued' = TRUE
         /\ finishCalls' = finishCalls + 1
    ELSE UNCHANGED <<finishQueued, finishCalls>>

\* startExitTransition() on the surfaces of `shown`: one without a picture
\* to fade to is done at once.
StartExit(shown) ==
    \E done \in SUBSET {o \in shown : surface[o] \notin {"exiting", "gone"}} :
        surface' = [o \in Output |->
            IF o \notin shown THEN "none"
            ELSE IF o \in done THEN "gone"
            ELSE IF surface[o] = "gone" THEN "gone" ELSE "exiting"]

\* What finishUnlock() and handleFinished() leave of the session.
Teardown ==
    /\ pending' = FALSE /\ locked' = FALSE /\ unlocking' = FALSE
    /\ finishQueued' = FALSE /\ exitTimer' = FALSE
    /\ surface' = NoSurface

-----------------------------------------------------------------------------
(* lock().  It is refused when the lock screen is disabled (which a unlock *)
(* in progress may be the consequence of) or the protocol is missing.      *)

Refusable == ~Engaged \/ unlocking

BeginLock(caller) ==
    /\ outputs # {} /\ ~Engaged
    /\ starting' = caller
    /\ UNCHANGED <<pending, locked, unlocking, deferred>>

DeferLock ==
    /\ outputs = {} /\ ~Engaged
    /\ deferred' = TRUE
    /\ UNCHANGED <<starting, pending, locked, unlocking>>
    /\ DispatchSuspend("asked")
    /\ FlushPower

Lock ==
    /\ Idle
    /\ UNCHANGED <<screens, surface, exit, logind>>
    /\ \/ Refusable /\ NotifyAborted /\ UNCHANGED <<session, after>>
       \/ BeginLock("lock") /\ UNCHANGED <<after, power, delaying>>
       \/ DeferLock /\ UNCHANGED delaying

\* The rest of lock(), after the capture.  The handler of the sleep signal
\* goes on after lock() and does not wait for a lock that was deferred.
LockDeferredLate ==
    /\ ~Idle /\ outputs = {}
    /\ starting' = "no" /\ deferred' = TRUE
    /\ delaying' = (delaying /\ starting # "sleep")
    /\ UNCHANGED <<screens, pending, locked, unlocking, surface, exit, logind>>
    /\ DispatchSuspend("asked")
    /\ FlushPower

LockFailed ==
    /\ ~Idle /\ outputs # {}
    /\ starting' = "no" /\ deferred' = FALSE
    /\ Teardown
    /\ CancelSuspend
    /\ NotifyAborted
    /\ UNCHANGED <<screens, finishCalls, logind>>

LockRequested ==
    /\ ~Idle /\ outputs # {}
    /\ starting' = "no" /\ pending' = TRUE /\ locked' = FALSE
    /\ surface' = [o \in Output |-> IF o \in outputs THEN "covered" ELSE "none"]
    /\ UNCHANGED <<screens, unlocking, deferred, exit, after, power, logind, delaying>>

HandleLocked ==
    /\ pending
    /\ pending' = FALSE /\ locked' = TRUE
    /\ UNCHANGED <<screens, starting, unlocking, deferred, surface, exit, logind>>
    /\ SleepReady(~unlocking)

\* Mutant: the end of the lock leaves what was to run once it is there.
MutHandleFinished ==
    /\ Active
    /\ starting' = "no"
    /\ Teardown
    /\ CancelPower
    /\ delaying' = FALSE
    /\ UNCHANGED <<screens, deferred, finishCalls, after, logind>>

\* The compositor ends the lock: the unlocked or the aborted hook runs.
HandleFinished ==
    /\ Active
    /\ starting' = "no"
    /\ Teardown
    /\ CancelSuspend
    /\ CancelPower
    /\ delaying' = FALSE
    /\ UNCHANGED <<screens, deferred, finishCalls, logind>>

-----------------------------------------------------------------------------
(* unlock() and its exit transition.                                       *)

\* Mutant: the exit transition has no deadline.
MutUnlockConfirmed ==
    /\ locked /\ ~unlocking
    /\ unlocking' = TRUE
    /\ UNCHANGED <<starting, pending, locked, exitTimer, delaying>>
    /\ StartExit({o \in Output : surface[o] # "none"})
    /\ TryFinish

UnlockConfirmed ==
    /\ locked /\ ~unlocking
    /\ unlocking' = TRUE
    /\ UNCHANGED <<starting, pending, locked, delaying>>
    /\ StartExit({o \in Output : surface[o] # "none"})
    /\ TryFinish
    /\ exitTimer' = TRUE

\* finishUnlock() at once; neither session hook runs.
UnlockUnconfirmed ==
    /\ pending
    /\ Teardown
    /\ UNCHANGED <<starting, finishCalls, delaying>>

UnlockAgain ==
    /\ unlocking
    /\ UNCHANGED <<starting, pending, locked, unlocking, surface, exit, delaying>>

Unlock ==
    /\ deferred' = FALSE
    /\ CancelSuspend
    /\ CancelPower
    /\ UNCHANGED <<screens, logind>>
    /\ UnlockConfirmed \/ UnlockUnconfirmed \/ UnlockAgain

\* finishUnlock() of a confirmed lock, with the unlocked hook.
FinishUnlock == Teardown /\ delaying' = FALSE /\ UNCHANGED <<starting, deferred>>

\* The closure asks only whether an unlock is running, not whether its own.
RunFinish ==
    /\ Idle /\ finishCalls > 0
    /\ finishCalls' = finishCalls - 1
    /\ IF unlocking THEN FinishUnlock
       ELSE UNCHANGED <<session, surface, finishQueued, exitTimer, delaying>>
    /\ UNCHANGED <<screens, after, power, logind>>

ExitTimeout ==
    /\ Idle /\ exitTimer
    /\ FinishUnlock
    /\ UNCHANGED <<screens, finishCalls, after, power, logind>>

-----------------------------------------------------------------------------
(* Outputs and surfaces.                                                   *)

\* syncInstances(), and what onOutputChange() does then.
SyncLocked(new) ==
    /\ Active /\ ~unlocking
    /\ surface' = [o \in Output |->
            IF o \notin new THEN "none"
            ELSE IF surface[o] = "none" THEN "covered" ELSE surface[o]]
    /\ UNCHANGED <<session, exit>>
    /\ SleepReady(sleepTimer \/ locked)

SyncUnlocking(new) ==
    /\ unlocking
    /\ UNCHANGED <<session, exitTimer, after, power, delaying>>
    /\ StartExit(new)
    /\ TryFinish

\* An output came for the deferred lock.
RetryLock ==
    /\ deferred
    /\ deferred' = FALSE
    /\ UNCHANGED <<pending, locked, unlocking, surface, exit, after>>
    /\ \/ starting' = "lock" /\ UNCHANGED <<power, delaying>>
       \/ starting' = "no" /\ NotifyAborted

OutputsChange ==
    /\ changes < MaxChanges
    /\ changes' = changes + 1
    /\ \E new \in (SUBSET Output) \ {outputs} :
        /\ outputs' = new
        /\ \/ RetryLock
           \/ SyncLocked(new)
           \/ SyncUnlocking(new)
           \/ /\ ~deferred /\ ~Active
              /\ UNCHANGED <<session, surface, exit, after, power, delaying>>
    /\ UNCHANGED logind

SurfaceRevealed(o) ==
    /\ Idle /\ locked /\ surface[o] = "covered"
    /\ surface' = [surface EXCEPT ![o] = "revealed"]
    /\ UNCHANGED <<screens, session, exit, logind>>
    /\ SleepReady(sleepTimer)

\* invalidateSleepFrame(): the surface was resized, rescaled or redrawn.
SurfaceInvalidated(o) ==
    /\ Idle /\ surface[o] = "revealed"
    /\ changes < MaxChanges
    /\ changes' = changes + 1
    /\ surface' = [surface EXCEPT ![o] = "covered"]
    /\ UNCHANGED <<outputs, session, exit, after, power, logind, delaying>>

SurfaceGone(o) ==
    /\ Idle /\ surface[o] = "exiting"
    /\ surface' = [surface EXCEPT ![o] = "gone"]
    /\ UNCHANGED <<screens, session, exitTimer, after, power, logind, delaying>>
    /\ TryFinish

-----------------------------------------------------------------------------
(* Lock and suspend.                                                       *)

\* requestSuspendDetached(): the next sleep is not to lock, unless the
\* command cannot be started.
RequestSuspend == skipLock' \in BOOLEAN

PlainSuspend ==
    /\ RequestSuspend
    /\ UNCHANGED <<screens, session, surface, exit, after, power, sleeping, delaying>>

\* runAfterSessionLocked() cancels what it held before, then ...
HoldSuspend ==
    /\ suspend' = TRUE
    /\ suspendCall' = "none"
    /\ sleepTimer' = (locked /\ ~unlocking)

LockThenSuspend ==
    /\ unlocking => LateSuspend
    /\ UNCHANGED <<screens, surface, exit, logind>>
    /\ \/ /\ Ready        \* dispatched, and prepareForSleep() flushes the rest
          /\ UNCHANGED session
          /\ suspend' = FALSE /\ suspendCall' = "asked" /\ sleepTimer' = FALSE
          /\ delaying' = FALSE
          /\ FlushPower
       \/ /\ Engaged /\ ~Ready
          /\ HoldSuspend
          /\ UNCHANGED <<session, power, delaying>>
       \/ /\ Refusable /\ ~unlocking
          /\ CancelSuspend
          /\ NotifyAborted
          /\ UNCHANGED session
       \/ /\ BeginLock("lock")
          /\ HoldSuspend
          /\ UNCHANGED <<power, delaying>>
       \/ /\ outputs = {} /\ ~Engaged
          /\ deferred' = TRUE
          /\ suspend' = FALSE /\ suspendCall' = "asked" /\ sleepTimer' = FALSE
          /\ FlushPower
          /\ UNCHANGED <<starting, pending, locked, unlocking, delaying>>

\* Mutant: a suspend that finds a frame invalidated is held without a deadline.
MutRunSuspendCall ==
    /\ Idle /\ suspendCall # "none"
    /\ suspendCall' = "none"
    /\ \/ /\ unlocking \/ (~Active /\ ~deferred)
          /\ UNCHANGED <<suspend, skipLock>>
       \/ /\ suspendCall = "asked" /\ Active /\ ~unlocking /\ ~Ready
          /\ suspend' = TRUE
          /\ UNCHANGED skipLock
       \/ /\ ~unlocking /\ (Active \/ deferred)
          /\ suspendCall = "asked" => (~Active \/ Ready)
          /\ RequestSuspend
          /\ UNCHANGED suspend
    /\ UNCHANGED <<screens, session, surface, exit, sleepTimer, power, sleeping, delaying>>

\* The closure of dispatchPendingAfterLocked().
RunSuspendCall ==
    /\ Idle /\ suspendCall # "none"
    /\ suspendCall' = "none"
    /\ \/ /\ unlocking \/ (~Active /\ ~deferred)
          /\ UNCHANGED <<suspend, sleepTimer, skipLock>>
       \/ /\ suspendCall = "asked" /\ Active /\ ~unlocking /\ ~Ready
          /\ suspend' = TRUE
          /\ sleepTimer' = (sleepTimer \/ locked)
          /\ UNCHANGED skipLock
       \/ /\ ~unlocking /\ (Active \/ deferred)
          /\ suspendCall = "asked" => (~Active \/ Ready)
          /\ RequestSuspend
          /\ UNCHANGED <<suspend, sleepTimer>>
    /\ UNCHANGED <<screens, session, surface, exit, power, sleeping, delaying>>

\* The deadline of armSleepReadyTimeout().
SleepTimeout ==
    /\ Idle /\ sleepTimer
    /\ UNCHANGED <<screens, session, surface, exit, logind>>
    /\ IF ~locked \/ unlocking
       THEN sleepTimer' = FALSE /\ UNCHANGED <<suspend, suspendCall, power, delaying>>
       ELSE IF Ready THEN SleepReady(FALSE)
       ELSE /\ suspend' = FALSE
            /\ suspendCall' = IF suspend THEN "late" ELSE suspendCall
            /\ sleepTimer' = FALSE
            /\ delaying' = FALSE
            /\ UNCHANGED power

-----------------------------------------------------------------------------
(* Output power.                                                           *)

SwitchOn ==
    /\ powerOff' = FALSE /\ offQueued' = FALSE /\ offTimer' = FALSE
    /\ offPending' = FALSE
    /\ off' = FALSE

\* prepareForOutputPowerOff(): refused, done at once, or kept.
SwitchOff ==
    /\ offPending' = (Engaged /\ ~unlocking)
    /\ powerOff' = (Engaged /\ ~unlocking)
    /\ offTimer' = (Engaged /\ ~unlocking)
    /\ offQueued' = Ready
    /\ off' = (off \/ ~Engaged)

SetOutputPower ==
    /\ SwitchOn \/ SwitchOff
    /\ UNCHANGED <<screens, session, surface, exit, after, logind, delaying>>

\* Mutant: the closure does not look at the lock again.
MutRunPowerCall ==
    /\ Idle /\ offQueued
    /\ offQueued' = FALSE
    /\ powerOff' = FALSE /\ offTimer' = FALSE /\ offPending' = FALSE
    /\ off' = TRUE
    /\ UNCHANGED <<screens, session, surface, exit, after, logind, delaying>>

\* The closure of flushPendingOutputPowerOff().
RunPowerCall ==
    /\ Idle /\ offQueued
    /\ offQueued' = FALSE
    /\ IF Engaged /\ ~Ready THEN UNCHANGED <<powerOff, offTimer, offPending, off>>
       ELSE powerOff' = FALSE /\ offTimer' = FALSE /\ offPending' = FALSE /\ off' = TRUE
    /\ UNCHANGED <<screens, session, surface, exit, after, logind, delaying>>

OffTimeout ==
    /\ Idle /\ offTimer
    /\ CancelPower
    /\ UNCHANGED <<screens, session, surface, exit, after, logind, delaying>>

-----------------------------------------------------------------------------
(* logind's PrepareForSleep.                                               *)

\* A suspend asked for here, a configuration that does not lock, or a lock
\* that already shows: the inhibitor is released.
SleepUnlocked ==
    /\ skipLock' = FALSE
    /\ delaying' = FALSE
    /\ UNCHANGED <<session, after, power>>

SleepLocks ==
    /\ ~skipLock /\ ~Ready
    /\ UNCHANGED skipLock
    /\ \/ /\ Active
          /\ delaying' = TRUE
          /\ sleepTimer' = (sleepTimer \/ (locked /\ ~unlocking))
          /\ UNCHANGED <<session, suspend, suspendCall, power>>
       \/ /\ ~Active
          /\ NotifyAborted
          /\ UNCHANGED <<session, after>>
       \/ /\ BeginLock("sleep")
          /\ delaying' = TRUE
          /\ UNCHANGED <<after, power>>
       \/ /\ DeferLock
          /\ delaying' = FALSE

SleepSignal ==
    /\ Idle /\ ~sleeping
    /\ sleeping' = TRUE
    /\ SleepUnlocked \/ SleepLocks
    /\ UNCHANGED <<screens, surface, exit>>

\* forceRepaintAfterResume() and onSystemResumed().
ResumeLocked ==
    /\ Active
    /\ surface' = [o \in Output |->
            CASE surface[o] = "revealed" -> "covered"
              [] surface[o] = "exiting"  -> "gone"
              [] OTHER -> surface[o]]
    /\ UNCHANGED <<session, exitTimer>>
    /\ TryFinish
    /\ CancelSuspend
    /\ CancelPower

ResumeSignal ==
    /\ Idle /\ sleeping
    /\ sleeping' = FALSE
    /\ skipLock' = FALSE
    /\ delaying' = FALSE
    /\ ResumeLocked \/ (~Active /\ UNCHANGED <<session, surface, exit, after, power>>)
    /\ UNCHANGED screens

-----------------------------------------------------------------------------
Next ==
    \/ Lock \/ LockDeferredLate \/ LockFailed \/ LockRequested
    \/ HandleLocked \/ HandleFinished
    \/ Unlock \/ RunFinish \/ ExitTimeout
    \/ OutputsChange
    \/ \E o \in Output : SurfaceRevealed(o) \/ SurfaceInvalidated(o) \/ SurfaceGone(o)
    \/ PlainSuspend \/ LockThenSuspend \/ RunSuspendCall \/ SleepTimeout
    \/ SetOutputPower \/ RunPowerCall \/ OffTimeout
    \/ SleepSignal \/ ResumeSignal

Spec == Init /\ [][Next]_vars

\* lock() returns, the compositor answers what is pending, closures run and timers
\* fire.  A confirmed lock may last for ever, and no frame need ever be shown.
Fairness ==
    /\ WF_vars(LockDeferredLate \/ LockFailed \/ LockRequested)
    /\ WF_vars(HandleLocked \/ (pending /\ HandleFinished))
    /\ WF_vars(RunFinish) /\ WF_vars(RunSuspendCall) /\ WF_vars(RunPowerCall)
    /\ WF_vars(ExitTimeout) /\ WF_vars(SleepTimeout) /\ WF_vars(OffTimeout)

FairSpec == Spec /\ Fairness

-----------------------------------------------------------------------------
\* How the flags of the session go together: what the invariants below rest on.
SessionShape ==
    /\ ~(pending /\ locked)
    /\ ~Idle => ~Active
    /\ unlocking => locked
    /\ exitTimer = unlocking
    /\ finishQueued => unlocking
    /\ deferred => outputs = {} /\ ~Engaged
    /\ surface = NoSurface \/ Active
    /\ suspend => suspendCall = "none"

\* runAfterSessionLocked(): "Cleared if lock fails, unlocks, aborts, or the
\* system resumes before dispatch".  A suspend is held only for a lock that
\* is there or on its way, so an unlocked session never carries one into its
\* next lock; and none is on its way to run while the session unlocks.
SuspendHasLock ==
    /\ suspend => Engaged
    /\ suspendCall # "none" => ~unlocking

\* Whoever waits for the frame of the lock has a deadline: the suspend that
\* is held and the sleep that is delayed, once the compositor has confirmed
\* the lock, and the outputs that are to go off.  The platform's flag says
\* exactly whether they are.
WaitersHaveDeadline ==
    /\ (suspend \/ delaying) /\ locked /\ ~unlocking => sleepTimer
    /\ powerOff => offTimer
    /\ offPending = powerOff

\* The outputs go off with no lock in the making or with the revealed frame
\* of the lock on every surface, never with a desktop still to be covered.
SafePowerOff == [][~off /\ off' => ~Engaged \/ Ready]_vars

\* A session that unlocks ends unlocked; a suspend, a sleep and an output
\* power switch that wait for the lock are answered, whether or not a frame
\* is ever shown.  (A delayed sleep may see the lock cancelled before it is
\* confirmed: the inhibitor is then left to logind.)
Settles ==
    /\ unlocking ~> ~unlocking
    /\ suspend ~> ~suspend
    /\ powerOff ~> ~powerOff
    /\ delaying ~> (~delaying \/ ~Engaged)
=============================================================================
