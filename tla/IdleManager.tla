------------------------------ MODULE IdleManager ------------------------------
(***************************************************************************)
(* IdleManager (src/src/idle/idle_manager.cpp), the overlay of its         *)
(* pre-action fade (idle_grace_overlay.cpp) and the wiring of both with the*)
(* lock screen (src/src/app/application_ui.cpp).                           *)
(*                                                                         *)
(* A behaviour has an idle notification at the compositor.  When the       *)
(* notification reports idle, the screen fades to black and then the       *)
(* action of the behaviour runs; activity cancels the fade, or undoes the  *)
(* action.  Several behaviours share one fade.  Three deferred calls and   *)
(* two timers stand between these steps, and a media inhibitor, a reload,  *)
(* a lock, an unlock, an output change or a suspend may come at any time.  *)
(*                                                                         *)
(* A generation counter is modelled by what its checks can tell: a deferred*)
(* call was made under the "current" generation or under a "stale" one.    *)
(* LockScreen models the lock itself; here it is what its hooks show of it.*)
(* The lock screen is taken to be enabled in the configuration.            *)
(***************************************************************************)
EXTENDS Naturals

CONSTANTS
  Behavior,     \* the named behaviours
  Locks,        \* those whose action locks the session
  Undone,       \* those whose action is undone by a resume action
  Free, Locked, \* their timeouts: 0 for none, and 0 for "the same when locked"
  Configs,      \* the [idle] sections the user switches between
  Paced         \* TRUE: no reload that drops a lock fade or an action in force,
                \* and no unlock before the compositor has confirmed the lock

ASSUME IdleAssumption ==
  /\ Locks \subseteq Behavior
  /\ Undone \subseteq Behavior
  /\ Free \in [Behavior -> Nat]
  /\ Locked \in [Behavior -> Nat]
  /\ Configs \subseteq [on : SUBSET Behavior, fade : BOOLEAN]
  /\ Paced \in BOOLEAN

VARIABLES
  config,         \* m_idleConfig: the behaviours that exist, and whether to fade
  phase,          \* BehaviorState::phase
  note,           \* the notification of each behaviour and its side of the compositor
  locks,          \* m_screenSaverInhibitLocks > 0
  releasePending, \* m_inhibitReleasePending, with its timer
  fade,           \* the overlay, its deferred calls, and m_graceFallbackTimer
  effect,         \* behaviours whose action is in force and waits to be undone
  session,        \* the lock screen, as its hooks show it
  outputs         \* there is an output the overlay and a lock can be shown on

vars == <<config, phase, note, locks, releasePending, fade, effect, session, outputs>>

Age == {"current", "stale"}

\* timeout is notificationTimeoutMs, 0 without a notification; idle is what the
\* compositor has last reported; unread are the reports still in the socket.  One
\* activity of the user, and one report of each kind to a notification, may be unread:
\* then idle tells their order, since the last one made idle what it is.
Note == [timeout : Nat, idle : BOOLEAN, unread : SUBSET {"idled", "resumed"}]

\* shown: the overlay has surfaces; callback: m_onAllFadesComplete, by the generation
\* it was made under; shows and dones: the deferred calls of the two callbacks.
Fade == [shown : BOOLEAN, callback : Age \cup {"none"}, shows : SUBSET Age,
         dones : SUBSET Age, timer : BOOLEAN]

TypeOK ==
  /\ config \in Configs
  /\ phase \in [Behavior -> {"Waiting", "Fading", "Idled"}]
  /\ note \in [Behavior -> Note]
  /\ locks \in BOOLEAN
  /\ releasePending \in BOOLEAN
  /\ fade \in Fade
  /\ effect \in SUBSET Behavior
  /\ session \in {"off", "pending", "deferred", "on"}
  /\ outputs \in BOOLEAN

\* m_graceBehaviors; m_activeGraceWillLock says whether it meets Locks.
Grace == {b \in Behavior : phase[b] = "Fading"}

\* screenSaverInhibited()
Inhibited == locks \/ releasePending

-----------------------------------------------------------------------------
(* Notifications.                                                          *)

\* effectiveTimeoutMilliseconds() under configuration cf.
Effective(cf, b, locked) ==
  IF b \notin cf.on THEN 0
  ELSE IF locked /\ Locked[b] > 0 THEN Locked[b] ELSE Free[b]

\* recreateBehaviorNotification(): reports to the old notification are dropped.
Armed(cf, b, locked) ==
  [timeout |-> Effective(cf, b, locked), idle |-> FALSE, unread |-> {}]

\* syncBehaviorNotification() of one behaviour in phase p with notification n.
Synced(b, p, n, locked) ==
  IF p = "Waiting" /\ n.timeout # Effective(config, b, locked)
    THEN Armed(config, b, locked) ELSE n

Received(b, report) == [note[b] EXCEPT !.unread = @ \ {report}]

\* The socket keeps the order: a report of idleness that is unread was made before
\* the unread activity exactly when the activity has ended that idleness.
ReportedBefore == {b \in Behavior : "idled" \in note[b].unread /\ ~note[b].idle}
ResumesUnread == {b \in Behavior : "resumed" \in note[b].unread}

-----------------------------------------------------------------------------
(* The fade: the callbacks application_ui.cpp gives to initialize().        *)

\* What a call made under the generation of now is after the next ++.
Superseded(calls) == IF calls = {} THEN {} ELSE {"stale"}
SupersededCallback(c) == IF c = "none" THEN c ELSE "stale"

\* IdleGraceOverlay::hide(), and destroySurfaces() after an output has gone.
Hide(f) == [f EXCEPT !.shown = FALSE, !.callback = "none"]

\* Mutant: the overlay alone is trusted to end the fade.
MutBegun(f) ==
  [f EXCEPT !.shows = Superseded(@) \cup {"current"},
            !.dones = Superseded(@), !.callback = SupersededCallback(@)]

\* handleIdled() begins a fade: both generations move on.
Begun(f) ==
  [f EXCEPT !.timer = TRUE, !.shows = Superseded(@) \cup {"current"},
            !.dones = Superseded(@), !.callback = SupersededCallback(@)]

\* m_onGraceEnd: the overlay stays only for the lock screen to take over.
Ended(f, userCancelled, willLock) ==
  LET g == [f EXCEPT !.timer = FALSE, !.shows = Superseded(@)]
  IN  IF ~userCancelled /\ willLock THEN g ELSE Hide(g)

\* cancelActiveGrace(), and what it does to the phases.
Cancelled(f, userCancelled) ==
  IF Grace = {} THEN f
  ELSE Ended([f EXCEPT !.dones = Superseded(@), !.callback = SupersededCallback(@)],
             userCancelled, Grace \cap Locks # {})

CancelledPhase == [b \in Behavior |-> IF phase[b] = "Fading" THEN "Waiting" ELSE phase[b]]

\* LockScreen::lock(), with fade f: already active, requested, deferred until there
\* is an output, or refused - then the aborted hook hides the overlay.
Lock(f) ==
  \/ /\ session \in {"pending", "on"}
     /\ fade' = f
     /\ UNCHANGED session
  \/ /\ session \in {"off", "deferred"}
     /\ \/ session' = (IF outputs THEN "pending" ELSE "deferred") /\ fade' = f
        \/ session' = session /\ fade' = Hide(f)

\* The actions of the behaviours B run, with fade f.
Run(B, f) ==
  /\ effect' = effect \cup (B \cap Undone)
  /\ \/ B \cap Locks # {} /\ Lock(f)
     \/ B \cap Locks = {} /\ fade' = f /\ UNCHANGED session

\* graceFadeComplete(): the fade ends before the actions run.
Complete(f) ==
  /\ phase' = [b \in Behavior |-> IF phase[b] = "Fading" THEN "Idled" ELSE phase[b]]
  /\ Run(Grace, Ended(f, FALSE, Grace \cap Locks # {}))

-----------------------------------------------------------------------------
(* The compositor.                                                         *)

\* A timeout has passed without activity.
ReportIdle(b) ==
  /\ note[b].timeout > 0 /\ ~note[b].idle
  /\ "idled" \notin note[b].unread
  /\ note' = [note EXCEPT ![b].idle = TRUE, ![b].unread = @ \cup {"idled"}]
  /\ UNCHANGED <<config, phase, locks, releasePending, fade, effect, session, outputs>>

\* The user is active: every notification that is idle resumes.
UserActive ==
  /\ \E b \in Behavior : note[b].idle
  /\ ResumesUnread = {}
  /\ note' = [b \in Behavior |->
                IF note[b].idle
                  THEN [note[b] EXCEPT !.idle = FALSE, !.unread = @ \cup {"resumed"}]
                  ELSE note[b]]
  /\ UNCHANGED <<config, phase, locks, releasePending, fade, effect, session, outputs>>

\* handleIdled()
HandleIdled(b) ==
  /\ "idled" \in note[b].unread
  /\ b \in ReportedBefore \/ ResumesUnread = {}
  /\ note' = [note EXCEPT ![b] = Received(b, "idled")]
  /\ \/ /\ phase[b] # "Waiting" \/ Inhibited
        /\ UNCHANGED <<phase, fade, effect, session>>
     \/ /\ phase[b] = "Waiting" /\ ~Inhibited /\ config.fade
        /\ phase' = [phase EXCEPT ![b] = "Fading"]
        /\ fade' = IF Grace = {} THEN Begun(fade) ELSE fade
        /\ UNCHANGED <<effect, session>>
     \/ /\ phase[b] = "Waiting" /\ ~Inhibited /\ ~config.fade
        /\ phase' = [phase EXCEPT ![b] = "Idled"]
        /\ Run({b}, fade)
  /\ UNCHANGED <<config, locks, releasePending, outputs>>

\* Mutant: only the behaviour that was resumed takes the timeout of the session.
MutResumeFading(b) ==
  /\ phase[b] = "Fading"
  /\ phase' = CancelledPhase
  /\ fade' = Cancelled(fade, TRUE)
  /\ note' = [note EXCEPT ![b] = Synced(b, "Waiting", Received(b, "resumed"), session = "on")]
  /\ UNCHANGED effect

ResumeFading(b) ==
  /\ phase[b] = "Fading"
  /\ phase' = CancelledPhase
  /\ fade' = Cancelled(fade, TRUE)
  /\ note' = [x \in Behavior |->
                Synced(x, phase'[x], IF x = b THEN Received(b, "resumed") ELSE note[x],
                       session = "on")]
  /\ UNCHANGED effect

\* Mutant: like a report of idleness, activity waits for the end of an inhibition.
MutResumeIdled(b) ==
  /\ phase[b] = "Idled" /\ ~Inhibited
  /\ phase' = [phase EXCEPT ![b] = "Waiting"]
  /\ effect' = effect \ {b}
  /\ note' = [note EXCEPT ![b] = Synced(b, "Waiting", Received(b, "resumed"), session = "on")]
  /\ UNCHANGED fade

ResumeIdled(b) ==
  /\ phase[b] = "Idled"
  /\ phase' = [phase EXCEPT ![b] = "Waiting"]
  /\ effect' = effect \ {b}
  /\ note' = [note EXCEPT ![b] = Synced(b, "Waiting", Received(b, "resumed"), session = "on")]
  /\ UNCHANGED fade

ResumeWaiting(b) ==
  /\ phase[b] = "Waiting"
  /\ note' = [note EXCEPT ![b] = Received(b, "resumed")]
  /\ UNCHANGED <<phase, fade, effect>>

\* handleResumed()
HandleResumed(b) ==
  /\ "resumed" \in note[b].unread
  /\ ReportedBefore = {}
  /\ ResumeFading(b) \/ ResumeIdled(b) \/ ResumeWaiting(b)
  /\ UNCHANGED <<config, locks, releasePending, session, outputs>>

-----------------------------------------------------------------------------
(* The fade: deferred calls, the animation and the fallback timer.         *)

\* Mutant: the deferred show() does not look at the generation.
MutShowOverlay(age) ==
  /\ age \in fade.shows
  /\ LET f == [fade EXCEPT !.shows = @ \ {age}]
     IN  fade' = IF outputs THEN [f EXCEPT !.shown = TRUE, !.callback = age]
                 ELSE [f EXCEPT !.dones = @ \cup {age}]
  /\ UNCHANGED <<config, phase, note, locks, releasePending, effect, session, outputs>>

\* The deferred show(): without an output the fade is over at once.
ShowOverlay(age) ==
  /\ age \in fade.shows
  /\ LET f == [fade EXCEPT !.shows = @ \ {age}]
     IN  fade' = IF age = "stale" THEN f
                 ELSE IF outputs THEN [f EXCEPT !.shown = TRUE, !.callback = "current"]
                 ELSE [f EXCEPT !.dones = @ \cup {"current"}]
  /\ UNCHANGED <<config, phase, note, locks, releasePending, effect, session, outputs>>

\* Every output has finished fading.
OverlayFaded ==
  /\ fade.callback # "none"
  /\ fade' = [fade EXCEPT !.callback = "none", !.dones = @ \cup {fade.callback}]
  /\ UNCHANGED <<config, phase, note, locks, releasePending, effect, session, outputs>>

\* Mutant: the deferred completion only checks that there is a fade.
MutFadeDone(age) ==
  /\ age \in fade.dones
  /\ LET f == [fade EXCEPT !.dones = @ \ {age}]
     IN  \/ /\ Grace # {}
            /\ Complete(f)
         \/ /\ Grace = {}
            /\ fade' = f
            /\ UNCHANGED <<phase, effect, session>>
  /\ UNCHANGED <<config, note, locks, releasePending, outputs>>

\* The deferred completion of a fade.
FadeDone(age) ==
  /\ age \in fade.dones
  /\ LET f == [fade EXCEPT !.dones = @ \ {age}]
     IN  \/ /\ age = "current" /\ Grace # {}
            /\ Complete(f)
         \/ /\ age = "stale" \/ Grace = {}
            /\ fade' = f
            /\ UNCHANGED <<phase, effect, session>>
  /\ UNCHANGED <<config, note, locks, releasePending, outputs>>

\* m_graceFallbackTimer, 250 ms after the fade should have ended.
FallbackFires ==
  /\ fade.timer
  /\ Complete(fade)
  /\ UNCHANGED <<config, note, locks, releasePending, outputs>>

-----------------------------------------------------------------------------
(* The media inhibitor: setScreenSaverInhibitLocks() and its debounce.      *)

\* Mutant: the fade under way goes on.
MutInhibitTaken ==
  /\ ~locks
  /\ locks' = TRUE
  /\ releasePending' = FALSE
  /\ UNCHANGED <<config, phase, note, fade, effect, session, outputs>>

InhibitTaken ==
  /\ ~locks
  /\ locks' = TRUE
  /\ releasePending' = FALSE
  /\ IF Inhibited
       THEN UNCHANGED <<phase, fade>>
       ELSE phase' = CancelledPhase /\ fade' = Cancelled(fade, TRUE)
  /\ UNCHANGED <<config, note, effect, session, outputs>>

InhibitReleased ==
  /\ locks
  /\ locks' = FALSE
  /\ releasePending' = TRUE
  /\ UNCHANGED <<config, phase, note, fade, effect, session, outputs>>

\* applyScreenSaverInhibitRelease()
ReleaseApplied ==
  /\ releasePending
  /\ releasePending' = FALSE
  /\ note' = [b \in Behavior |->
                IF phase[b] = "Waiting" THEN Armed(config, b, session = "on") ELSE note[b]]
  /\ UNCHANGED <<config, phase, locks, fade, effect, session, outputs>>

-----------------------------------------------------------------------------
(* Reloads, the lock screen, outputs and suspend.                          *)

\* reload(): clearBehaviors() runs no resume action.
Reload(cf) ==
  /\ Paced => Grace \cap Locks = {} /\ effect = {}
  /\ config' = cf
  /\ phase' = [b \in Behavior |-> "Waiting"]
  /\ fade' = Cancelled(fade, FALSE)
  /\ note' = [b \in Behavior |-> Armed(cf, b, session = "on")]
  /\ UNCHANGED <<locks, releasePending, effect, session, outputs>>

\* The user locks the session.
LockRequested ==
  /\ session \in {"off", "deferred"}
  /\ Lock(fade)
  /\ UNCHANGED <<config, phase, note, locks, releasePending, effect, outputs>>

\* The locked hook: the overlay is hidden, then setSessionLocked(true).
LockConfirmed ==
  /\ session = "pending"
  /\ session' = "on"
  /\ fade' = Hide(fade)
  /\ note' = [b \in Behavior |-> Synced(b, phase[b], note[b], TRUE)]
  /\ UNCHANGED <<config, phase, locks, releasePending, effect, outputs>>

\* The compositor refuses the lock: the aborted hook.
LockAborted ==
  /\ session = "pending"
  /\ session' = "off"
  /\ fade' = Hide(fade)
  /\ UNCHANGED <<config, phase, note, locks, releasePending, effect, outputs>>

\* Mutant: behaviours are re-armed without their resume action.
MutUnlocked ==
  /\ session = "on"
  /\ session' = "off"
  /\ fade' = Cancelled(Hide(fade), FALSE)
  /\ phase' = [b \in Behavior |-> "Waiting"]
  /\ note' = [b \in Behavior |-> Armed(config, b, FALSE)]
  /\ UNCHANGED <<config, locks, releasePending, effect, outputs>>

\* The unlocked hook: the overlay is hidden, then setSessionLocked(false) cancels the
\* fade and re-arms every behaviour, running the resume action of one that has idled.
Unlocked ==
  /\ session = "on"
  /\ session' = "off"
  /\ fade' = Cancelled(Hide(fade), FALSE)
  /\ effect' = effect \ {b \in Behavior : phase[b] = "Idled"}
  /\ phase' = [b \in Behavior |-> "Waiting"]
  /\ note' = [b \in Behavior |-> Armed(config, b, FALSE)]
  /\ UNCHANGED <<config, locks, releasePending, outputs>>

\* unlock() before the lock is confirmed runs no hook.
UnlockedEarly ==
  /\ session \in {"pending", "deferred"}
  /\ Paced => session = "deferred"
  /\ session' = "off"
  /\ UNCHANGED <<config, phase, note, locks, releasePending, fade, effect, outputs>>

\* The outputs change: surfaces that no longer match are destroyed.
OutputsChange(some) ==
  /\ outputs
  /\ outputs' = some
  /\ fade' = Hide(fade)
  /\ UNCHANGED <<config, phase, note, locks, releasePending, effect, session>>

\* The first output comes back: a deferred lock is tried again.
OutputsReturn ==
  /\ ~outputs
  /\ outputs' = TRUE
  /\ \/ session # "deferred" /\ UNCHANGED <<session, fade>>
     \/ session = "deferred" /\ session' = "pending" /\ UNCHANGED fade
     \/ session = "deferred" /\ session' = "off" /\ fade' = Hide(fade)
  /\ UNCHANGED <<config, phase, note, locks, releasePending, effect>>

\* PrepareForSleep, on both edges.
SleepChanges ==
  /\ fade' = Hide(fade)
  /\ UNCHANGED <<config, phase, note, locks, releasePending, effect, session, outputs>>

-----------------------------------------------------------------------------
Init ==
  /\ config \in Configs
  /\ phase = [b \in Behavior |-> "Waiting"]
  /\ note = [b \in Behavior |-> Armed(config, b, FALSE)]
  /\ locks = FALSE
  /\ releasePending = FALSE
  /\ fade = [shown |-> FALSE, callback |-> "none", shows |-> {}, dones |-> {}, timer |-> FALSE]
  /\ effect = {}
  /\ session = "off"
  /\ outputs = TRUE

Handle(b) == HandleIdled(b) \/ HandleResumed(b)

Next ==
  \/ UserActive
  \/ \E b \in Behavior : ReportIdle(b) \/ Handle(b)
  \/ \E age \in Age : ShowOverlay(age) \/ FadeDone(age)
  \/ OverlayFaded \/ FallbackFires
  \/ InhibitTaken \/ InhibitReleased \/ ReleaseApplied
  \/ \E cf \in Configs : Reload(cf)
  \/ LockRequested \/ LockConfirmed \/ LockAborted \/ Unlocked \/ UnlockedEarly
  \/ \E some \in BOOLEAN : OutputsChange(some)
  \/ OutputsReturn \/ SleepChanges

Spec == Init /\ [][Next]_vars

\* Events that have arrived are read, and the timer fires unless it is stopped.
Fairness ==
  /\ \A b \in Behavior : WF_vars(Handle(b))
  /\ WF_vars(FallbackFires)

FairSpec == Spec /\ Fairness

-----------------------------------------------------------------------------
(* Properties.                                                             *)

\* The black overlay is on the screen, or about to be, only while a fade runs or the
\* lock screen is to take it over: no order of inhibitors, locks that are refused,
\* output changes and suspends leaves it behind on a desktop in use.
OverlayOwned ==
  fade.shown \/ "current" \in fade.shows => Grace # {} \/ session \in {"pending", "on"}

\* An action in force belongs to a behaviour that knows it, and that the compositor
\* will wake or has already woken: handleResumed() or an unlock will undo it.
ActionRemembered ==
  \A b \in effect :
    /\ phase[b] = "Idled"
    /\ note[b].idle \/ "resumed" \in note[b].unread

\* A behaviour that waits has the timeout that belongs to the session as it is,
\* locked or not, and the compositor will still report to it: it is not idle there
\* already, or its report is on the way.  During an inhibition this may be behind.
WatchesOn ==
  ~Inhibited => \A b \in Behavior : phase[b] = "Waiting" =>
    /\ note[b].timeout = Effective(config, b, session = "on")
    /\ note[b].idle => "idled" \in note[b].unread

\* No idle action runs while media inhibits it, nor in the second after it has let go
\* - however the taking of the inhibitor races with a fade that is about to end.
InhibitedActsNot ==
  [][Inhibited => \A b \in Behavior : phase'[b] = "Idled" => phase[b] = "Idled"]_vars

\* A fade only ends in its actions when it is over: its own overlay has finished, or
\* its own timer has expired.  The completion of a fade that was cancelled does not
\* cut the next one short.
ActsAfterItsFade ==
  [][\A b \in Behavior : phase[b] = "Fading" /\ phase'[b] = "Idled"
        => "current" \in fade.dones \/ (fade.timer /\ fade'.dones = fade.dones)]_vars

\* Every fade ends, in its actions or cancelled, also when the overlay has been taken
\* away or has lost the callback that was to complete it.
FadeEnds == Grace # {} ~> Grace = {}

\* "turns the monitors off on idle and back on automatically when you return"
\* (docs/user/services/idle.mdx): an action in force is undone after activity.
UndoneOnReturn == \A b \in Behavior : b \in effect /\ ~note[b].idle ~> b \notin effect
=============================================================================
