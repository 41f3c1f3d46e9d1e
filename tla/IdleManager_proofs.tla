-------------------------- MODULE IdleManager_proofs --------------------------
(***************************************************************************)
(* The safety of idle management, for any behaviours, timeouts and         *)
(* configurations.  The types first, then one invariant in named parts:    *)
(* what is unread in the socket (SocketOrder), what the phases say about   *)
(* the compositor (Awake), that no fade runs under an inhibitor            *)
(* (InhibitedIsQuiet), what the overlay and its deferred call show of the  *)
(* fade (OverlayFollows), and the properties that rest on them.            *)
(***************************************************************************)
EXTENDS IdleManager, TLAPS

USE IdleAssumption

-----------------------------------------------------------------------------
(* Types.                                                                  *)

\* What the overlay's operations return is a fade.
LEMMA FadeTypes ==
    ASSUME NEW f \in Fade, NEW u \in BOOLEAN, NEW w \in BOOLEAN
    PROVE  /\ Hide(f) \in Fade
           /\ Begun(f) \in Fade
           /\ Ended(f, u, w) \in Fade
           /\ Cancelled(f, u) \in Fade
  <1>1. \A g \in Fade : Hide(g) \in Fade
    BY DEF Hide, Fade
  <1>2. \A c \in SUBSET Age : Superseded(c) \in SUBSET Age
    BY DEF Superseded, Age
  <1>3. SupersededCallback(f.callback) \in Age \cup {"none"}
    BY DEF SupersededCallback, Age, Fade
  <1>4. Begun(f) \in Fade
    BY <1>2, <1>3 DEF Begun, Fade, Age
  <1>5. \A g \in Fade, x \in BOOLEAN, y \in BOOLEAN : Ended(g, x, y) \in Fade
    <2> SUFFICES ASSUME NEW g \in Fade, NEW x \in BOOLEAN, NEW y \in BOOLEAN
                 PROVE  Ended(g, x, y) \in Fade
      OBVIOUS
    <2>1. [g EXCEPT !.timer = FALSE, !.shows = Superseded(@)] \in Fade
      BY <1>2 DEF Fade
    <2>2. QED BY <2>1, <1>1 DEF Ended
  <1>6. [f EXCEPT !.dones = Superseded(@), !.callback = SupersededCallback(@)] \in Fade
    BY <1>2, <1>3 DEF Fade
  <1>7. Cancelled(f, u) \in Fade
    BY <1>5, <1>6 DEF Cancelled
  <1>8. QED BY <1>1, <1>4, <1>5, <1>7

\* A notification that is armed, synchronised or read from is a notification.
LEMMA NoteTypes ==
    ASSUME NEW cf \in Configs, NEW b \in Behavior, NEW locked \in BOOLEAN, TypeOK
    PROVE  /\ Armed(cf, b, locked) \in Note
           /\ \A p : \A n \in Note : Synced(b, p, n, locked) \in Note
           /\ \A r : Received(b, r) \in Note
  <1>1. \A g \in Configs : Effective(g, b, locked) \in Nat
    BY DEF Effective
  <1>2. \A g \in Configs : Armed(g, b, locked) \in Note
    BY <1>1 DEF Armed, Note
  <1>3. \A p : \A n \in Note : Synced(b, p, n, locked) \in Note
    BY <1>2 DEF Synced, TypeOK
  <1>4. \A r : Received(b, r) \in Note
    BY DEF Received, Note, TypeOK
  <1>5. QED BY <1>2, <1>3, <1>4

\* So is one the compositor has just reported to.
LEMMA ReportTypes ==
    ASSUME NEW n \in Note
    PROVE  /\ [n EXCEPT !.idle = TRUE, !.unread = @ \cup {"idled"}] \in Note
           /\ [n EXCEPT !.idle = FALSE, !.unread = @ \cup {"resumed"}] \in Note
  <1>1. /\ n.unread \cup {"idled"} \in SUBSET {"idled", "resumed"}
        /\ n.unread \cup {"resumed"} \in SUBSET {"idled", "resumed"}
        /\ n.timeout \in Nat
    BY DEF Note
  <1>2. [n EXCEPT !.idle = TRUE, !.unread = @ \cup {"idled"}] \in Note
    BY <1>1 DEF Note
  <1>3. [n EXCEPT !.idle = FALSE, !.unread = @ \cup {"resumed"}] \in Note
    BY <1>1 DEF Note
  <1>4. QED BY <1>2, <1>3

\* What running actions leaves behind.
LEMMA RunTypes ==
    ASSUME TypeOK, NEW B \in SUBSET Behavior, NEW f \in Fade, Run(B, f)
    PROVE  /\ effect' \in SUBSET Behavior
           /\ fade' \in Fade
           /\ session' \in {"off", "pending", "deferred", "on"}
  <1>1. Hide(f) \in Fade
    BY FadeTypes
  <1>2. QED BY <1>1 DEF Run, Lock, TypeOK

LEMMA CompleteTypes ==
    ASSUME TypeOK, NEW f \in Fade, Complete(f)
    PROVE  /\ phase' \in [Behavior -> {"Waiting", "Fading", "Idled"}]
           /\ effect' \in SUBSET Behavior
           /\ fade' \in Fade
           /\ session' \in {"off", "pending", "deferred", "on"}
  <1>1. Grace \in SUBSET Behavior
    BY DEF Grace
  <1>2. Ended(f, FALSE, Grace \cap Locks # {}) \in Fade
    BY FadeTypes
  <1>3. Run(Grace, Ended(f, FALSE, Grace \cap Locks # {}))
    BY DEF Complete
  <1>4. phase' \in [Behavior -> {"Waiting", "Fading", "Idled"}]
    BY DEF Complete, TypeOK
  <1>5. QED BY <1>1, <1>2, <1>3, <1>4, RunTypes

\* The types hold at the start and are kept by every step.
LEMMA InitTypes == Init => TypeOK
  <1> SUFFICES ASSUME Init PROVE TypeOK
    OBVIOUS
  <1>1. note \in [Behavior -> Note]
    <2>1. \A b \in Behavior : Effective(config, b, FALSE) \in Nat
      BY DEF Init, Effective
    <2>2. QED BY <2>1 DEF Init, Armed, Note
  <1>2. fade \in Fade
    BY DEF Init, Fade, Age
  <1>3. QED BY <1>1, <1>2 DEF Init, TypeOK

LEMMA StepTypes == TypeOK /\ [Next]_vars => TypeOK'
  <1> SUFFICES ASSUME TypeOK, [Next]_vars PROVE TypeOK'
    OBVIOUS
  <1> USE DEF TypeOK
  <1>0. /\ (session = "on") \in BOOLEAN /\ (Grace \cap Locks # {}) \in BOOLEAN
        /\ CancelledPhase \in [Behavior -> {"Waiting", "Fading", "Idled"}]
    BY DEF CancelledPhase
  <1>1. CASE UserActive
    <2>1. \A b \in Behavior : note[b] \in Note
      OBVIOUS
    <2>2. note' \in [Behavior -> Note]
      BY <1>1, <2>1, ReportTypes DEF UserActive
    <2>3. QED BY <1>1, <2>2 DEF UserActive
  <1>2. ASSUME NEW b \in Behavior, ReportIdle(b) PROVE TypeOK'
    <2>1. [note[b] EXCEPT !.idle = TRUE, !.unread = @ \cup {"idled"}] \in Note
      BY ReportTypes
    <2>2. note' = [note EXCEPT ![b] = [note[b] EXCEPT !.idle = TRUE, !.unread = @ \cup {"idled"}]]
      BY <1>2 DEF ReportIdle
    <2>3. note' \in [Behavior -> Note]
      BY <2>1, <2>2
    <2>4. QED BY <1>2, <2>3 DEF ReportIdle
  <1>3. ASSUME NEW b \in Behavior, HandleIdled(b) PROVE TypeOK'
    <2>1. note' \in [Behavior -> Note]
      BY <1>3, <1>0, NoteTypes DEF HandleIdled
    <2>2. CASE phase[b] # "Waiting" \/ Inhibited
      BY <1>3, <2>1, <2>2 DEF HandleIdled
    <2>3. CASE phase[b] = "Waiting" /\ ~Inhibited /\ config.fade
      BY <1>3, <2>1, <2>3, FadeTypes DEF HandleIdled
    <2>4. CASE phase[b] = "Waiting" /\ ~Inhibited /\ ~config.fade
      <3>1. Run({b}, fade) /\ phase' = [phase EXCEPT ![b] = "Idled"]
        BY <1>3, <2>4 DEF HandleIdled
      <3>2. QED BY <1>3, <2>1, <3>1, RunTypes DEF HandleIdled
    <2>5. config.fade \in BOOLEAN
      OBVIOUS
    <2>6. QED BY <2>2, <2>3, <2>4, <2>5
  <1>4. ASSUME NEW b \in Behavior, HandleResumed(b) PROVE TypeOK'
    <2>1. CASE ResumeFading(b)
      <3>1. \A x \in Behavior :
              Synced(x, phase'[x], IF x = b THEN Received(b, "resumed") ELSE note[x],
                     session = "on") \in Note
        BY <1>0, NoteTypes
      <3>2. note' \in [Behavior -> Note]
        BY <2>1, <3>1 DEF ResumeFading
      <3>3. QED BY <1>0, <1>4, <2>1, <3>2, FadeTypes DEF ResumeFading, HandleResumed
    <2>2. CASE ResumeIdled(b)
      <3>1. Synced(b, "Waiting", Received(b, "resumed"), session = "on") \in Note
        BY <1>0, NoteTypes
      <3>2. QED BY <1>4, <2>2, <3>1 DEF ResumeIdled, HandleResumed
    <2>3. CASE ResumeWaiting(b)
      BY <1>0, <1>4, <2>3, NoteTypes DEF ResumeWaiting, HandleResumed
    <2>4. QED BY <1>4, <2>1, <2>2, <2>3 DEF HandleResumed
  <1>5. ASSUME NEW age \in Age, ShowOverlay(age) PROVE TypeOK'
    <2>1. fade' \in Fade
      BY <1>5 DEF ShowOverlay, Fade, Age
    <2>2. QED BY <1>5, <2>1 DEF ShowOverlay
  <1>6. ASSUME NEW age \in Age, FadeDone(age) PROVE TypeOK'
    <2>1. [fade EXCEPT !.dones = @ \ {age}] \in Fade
      BY DEF Fade
    <2>2. QED BY <1>6, <2>1, CompleteTypes DEF FadeDone
  <1>7. CASE OverlayFaded
    <2>1. fade' \in Fade
      BY <1>7 DEF OverlayFaded, Fade, Age
    <2>2. QED BY <1>7, <2>1 DEF OverlayFaded
  <1>8. CASE FallbackFires
    BY <1>8, CompleteTypes DEF FallbackFires
  <1>9. CASE InhibitTaken
    BY <1>0, <1>9, FadeTypes DEF InhibitTaken
  <1>10. CASE InhibitReleased
    BY <1>10 DEF InhibitReleased
  <1>11. CASE ReleaseApplied
    <2>1. \A b \in Behavior : Armed(config, b, session = "on") \in Note
      BY <1>0, NoteTypes
    <2>2. QED BY <1>11, <2>1 DEF ReleaseApplied
  <1>12. ASSUME NEW cf \in Configs, Reload(cf) PROVE TypeOK'
    <2>1. \A b \in Behavior : Armed(cf, b, session = "on") \in Note
      BY <1>0, NoteTypes
    <2>2. QED BY <1>12, <2>1, FadeTypes DEF Reload
  <1>13. CASE LockRequested
    <2>1. Hide(fade) \in Fade
      BY FadeTypes
    <2>2. QED BY <1>13, <2>1 DEF LockRequested, Lock
  <1>14. CASE LockConfirmed
    <2>1. \A b \in Behavior : Synced(b, phase[b], note[b], TRUE) \in Note
      BY NoteTypes
    <2>2. QED BY <1>14, <2>1, FadeTypes DEF LockConfirmed
  <1>15. CASE LockAborted
    BY <1>15, FadeTypes DEF LockAborted
  <1>16. CASE Unlocked
    <2>1. \A b \in Behavior : Armed(config, b, FALSE) \in Note
      BY NoteTypes
    <2>2. Hide(fade) \in Fade
      BY FadeTypes
    <2>3. Cancelled(Hide(fade), FALSE) \in Fade
      BY <2>2, FadeTypes
    <2>4. effect' \in SUBSET Behavior
      BY <1>16 DEF Unlocked
    <2>5. QED BY <1>16, <2>1, <2>3, <2>4 DEF Unlocked
  <1>17. CASE UnlockedEarly
    BY <1>17 DEF UnlockedEarly
  <1>18. ASSUME NEW some \in BOOLEAN, OutputsChange(some) PROVE TypeOK'
    BY <1>18, FadeTypes DEF OutputsChange
  <1>19. CASE OutputsReturn
    BY <1>19, FadeTypes DEF OutputsReturn
  <1>20. CASE SleepChanges
    BY <1>20, FadeTypes DEF SleepChanges
  <1>21. CASE UNCHANGED vars
    BY <1>21 DEF vars
  <1>22. QED
    BY <1>1, <1>2, <1>3, <1>4, <1>5, <1>6, <1>7, <1>8, <1>9, <1>10, <1>11, <1>12, <1>13,
       <1>14, <1>15, <1>16, <1>17, <1>18, <1>19, <1>20, <1>21 DEF Next, Handle

\* Every variable keeps its type: in particular the phases of the behaviours and the
\* ages of the deferred calls stay what the handlers can tell apart.
THEOREM TypeCorrect == Spec => []TypeOK
  <1>1. QED BY InitTypes, StepTypes, PTL DEF Spec

-----------------------------------------------------------------------------
(* What is unread in the socket, and what the phases say about it.         *)

\* While an activity is unread, whatever is idle has become so after it, and that
\* report cannot have been read before.
SocketOrder ==
  \A b, x \in Behavior :
    "resumed" \in note[b].unread /\ note[x].idle => "idled" \in note[x].unread

\* A behaviour that fades or has idled, or is about to, has a notification that is
\* idle, or whose activity is unread.
Awake ==
  \A b \in Behavior :
    phase[b] # "Waiting" \/ "idled" \in note[b].unread
      => note[b].idle \/ "resumed" \in note[b].unread

InhibitedIsQuiet == Inhibited => Grace = {}

\* The steps that leave the notifications alone.
QuietStep ==
  \/ \E age \in Age : ShowOverlay(age) \/ FadeDone(age)
  \/ OverlayFaded \/ FallbackFires
  \/ InhibitTaken \/ InhibitReleased
  \/ LockRequested \/ LockAborted \/ UnlockedEarly
  \/ \E some \in BOOLEAN : OutputsChange(some)
  \/ OutputsReturn \/ SleepChanges
  \/ UNCHANGED vars

LEMMA LockKeepsOn ==
    ASSUME TypeOK, NEW f, Lock(f)
    PROVE  session' = "on" <=> session = "on"
  BY DEF Lock, TypeOK

LEMMA CompleteEffect ==
    ASSUME TypeOK, NEW f, Complete(f)
    PROVE  /\ \A b \in Behavior : phase'[b] = IF phase[b] = "Fading" THEN "Idled" ELSE phase[b]
           /\ session' = "on" <=> session = "on"
  BY LockKeepsOn DEF Complete, Run, TypeOK

\* A quiet step ends a fade in its actions or, when an inhibitor is taken, without;
\* no other phase changes, and no inhibition ends.
LEMMA QuietEffect ==
    ASSUME TypeOK, QuietStep
    PROVE  /\ UNCHANGED <<note, config>>
           /\ session' = "on" <=> session = "on"
           /\ Inhibited => Inhibited'
           /\ Inhibited' => Inhibited \/ InhibitTaken
           /\ \A b \in Behavior : phase'[b] # phase[b] =>
                /\ phase[b] = "Fading"
                /\ phase'[b] = "Idled" \/ (phase'[b] = "Waiting" /\ Inhibited')
  <1> DEFINE Kept == /\ UNCHANGED <<note, config>>
                     /\ session' = "on" <=> session = "on"
                     /\ Inhibited => Inhibited'
                     /\ Inhibited' => Inhibited \/ InhibitTaken
                     /\ \A b \in Behavior : phase'[b] # phase[b] =>
                          /\ phase[b] = "Fading"
                          /\ phase'[b] = "Idled" \/ (phase'[b] = "Waiting" /\ Inhibited')
  <1>1. ASSUME NEW age \in Age, ShowOverlay(age) PROVE Kept
    BY <1>1 DEF ShowOverlay, Inhibited
  <1>2. ASSUME NEW age \in Age, FadeDone(age) PROVE Kept
    BY <1>2, CompleteEffect DEF FadeDone, Inhibited
  <1>3. CASE OverlayFaded
    BY <1>3 DEF OverlayFaded, Inhibited
  <1>4. CASE FallbackFires
    BY <1>4, CompleteEffect DEF FallbackFires, Inhibited
  <1>5. CASE InhibitTaken
    BY <1>5 DEF InhibitTaken, Inhibited, CancelledPhase, TypeOK
  <1>6. CASE InhibitReleased
    BY <1>6 DEF InhibitReleased, Inhibited
  <1>7. CASE LockRequested
    BY <1>7, LockKeepsOn DEF LockRequested, Inhibited
  <1>8. CASE LockAborted
    BY <1>8 DEF LockAborted, Inhibited
  <1>9. CASE UnlockedEarly
    BY <1>9 DEF UnlockedEarly, Inhibited
  <1>10. ASSUME NEW some \in BOOLEAN, OutputsChange(some) PROVE Kept
    BY <1>10 DEF OutputsChange, Inhibited
  <1>11. CASE OutputsReturn
    BY <1>11 DEF OutputsReturn, Inhibited
  <1>12. CASE SleepChanges
    BY <1>12 DEF SleepChanges, Inhibited
  <1>13. CASE UNCHANGED vars
    BY <1>13 DEF vars, Inhibited
  <1>14. QED
    BY <1>1, <1>2, <1>3, <1>4, <1>5, <1>6, <1>7, <1>8, <1>9, <1>10, <1>11, <1>12, <1>13
       DEF QuietStep

\* The other steps.
LEMMA StepCases ==
    ASSUME [Next]_vars
    PROVE  \/ QuietStep
           \/ UserActive
           \/ \E b \in Behavior : ReportIdle(b) \/ HandleIdled(b) \/ HandleResumed(b)
           \/ ReleaseApplied
           \/ \E cf \in Configs : Reload(cf)
           \/ LockConfirmed \/ Unlocked
  BY DEF Next, Handle, QuietStep

\* What the handlers do to the notifications.
LEMMA NoteEffects ==
    ASSUME TypeOK, NEW b \in Behavior, NEW r \in {"idled", "resumed"}
    PROVE  /\ Received(b, r).timeout = note[b].timeout
           /\ Received(b, r).idle = note[b].idle
           /\ Received(b, r).unread = note[b].unread \ {r}
           /\ \A cf, locked : /\ Armed(cf, b, locked).timeout = Effective(cf, b, locked)
                              /\ ~Armed(cf, b, locked).idle
                              /\ Armed(cf, b, locked).unread = {}
  BY DEF Received, Armed, TypeOK, Note

\* A handled report of idleness changes its own notification and phase only.
LEMMA HandleIdledEffect ==
    ASSUME TypeOK, NEW b \in Behavior, HandleIdled(b)
    PROVE  /\ note' = [note EXCEPT ![b] = Received(b, "idled")]
           /\ UNCHANGED <<config, locks, releasePending>>
           /\ session' = "on" <=> session = "on"
           /\ \A x \in Behavior : phase'[x] # phase[x] =>
                x = b /\ phase[x] = "Waiting" /\ phase'[x] \in {"Fading", "Idled"} /\ ~Inhibited
           /\ ~Inhibited => phase'[b] # "Waiting"
  <1>1. CASE phase[b] # "Waiting" \/ Inhibited
    BY <1>1 DEF HandleIdled
  <1>2. CASE phase[b] = "Waiting" /\ ~Inhibited
    <2>1. \/ phase' = [phase EXCEPT ![b] = "Fading"] /\ UNCHANGED session
          \/ phase' = [phase EXCEPT ![b] = "Idled"] /\ Run({b}, fade)
      BY <1>2 DEF HandleIdled
    <2>2. session' = "on" <=> session = "on"
      BY <2>1, LockKeepsOn DEF Run
    <2>3. QED BY <1>2, <2>1, <2>2 DEF HandleIdled, TypeOK
  <1>3. QED BY <1>1, <1>2 DEF HandleIdled

\* A handled activity leaves every other notification as it was, or arms it again.
LEMMA HandleResumedEffect ==
    ASSUME TypeOK, NEW b \in Behavior, HandleResumed(b)
    PROVE  /\ UNCHANGED <<config, locks, releasePending, session>>
           /\ \A x \in Behavior : phase'[x] # phase[x] => phase'[x] = "Waiting"
           /\ phase'[b] = "Waiting"
           /\ \A x \in Behavior :
                \/ note'[x] = IF x = b THEN Received(b, "resumed") ELSE note[x]
                \/ phase'[x] = "Waiting" /\ note'[x] = Armed(config, x, session = "on")
           /\ \A x \in Behavior : phase'[x] # phase[x] =>
                note'[x].timeout = Effective(config, x, session = "on")
  <1>1. CASE ResumeFading(b)
    <2>1. phase' = CancelledPhase /\ UNCHANGED session
      BY <1>1 DEF ResumeFading, HandleResumed
    <2>2. \A x \in Behavior :
            note'[x] = Synced(x, phase'[x], IF x = b THEN Received(b, "resumed") ELSE note[x],
                              session = "on")
      BY <1>1 DEF ResumeFading
    <2>3. \A x \in Behavior : phase'[x] = IF phase[x] = "Fading" THEN "Waiting" ELSE phase[x]
      BY <2>1 DEF CancelledPhase
    <2>4. \A x \in Behavior :
                \/ note'[x] = IF x = b THEN Received(b, "resumed") ELSE note[x]
                \/ phase'[x] = "Waiting" /\ note'[x] = Armed(config, x, session = "on")
      BY <2>2 DEF Synced
    <2>5. \A x \in Behavior : phase'[x] = "Waiting" =>
            note'[x].timeout = Effective(config, x, session = "on")
      BY <2>2, NoteEffects DEF Synced
    <2>6. QED BY <1>1, <2>3, <2>4, <2>5 DEF ResumeFading, HandleResumed
  <1>2. CASE ResumeIdled(b)
    <2>1. /\ phase' = [phase EXCEPT ![b] = "Waiting"]
          /\ note' = [note EXCEPT ![b] = Synced(b, "Waiting", Received(b, "resumed"), session = "on")]
      BY <1>2 DEF ResumeIdled
    <2>2. Synced(b, "Waiting", Received(b, "resumed"), session = "on").timeout
            = Effective(config, b, session = "on")
      BY NoteEffects DEF Synced
    <2>3. /\ phase'[b] = "Waiting"
          /\ note'[b] = Synced(b, "Waiting", Received(b, "resumed"), session = "on")
          /\ \A x \in Behavior : x # b => phase'[x] = phase[x] /\ note'[x] = note[x]
      BY <2>1 DEF TypeOK
    <2>4. note'[b] = Received(b, "resumed") \/ note'[b] = Armed(config, b, session = "on")
      BY <2>3 DEF Synced
    <2>5. QED BY <1>2, <2>2, <2>3, <2>4 DEF ResumeIdled, HandleResumed
  <1>3. CASE ResumeWaiting(b)
    BY <1>3 DEF ResumeWaiting, HandleResumed, TypeOK
  <1>4. QED BY <1>1, <1>2, <1>3 DEF HandleResumed

-----------------------------------------------------------------------------
(* SocketOrder and Awake.                                                  *)

LEMMA StepSocketOrder == TypeOK /\ SocketOrder /\ [Next]_vars => SocketOrder'
  <1> SUFFICES ASSUME TypeOK, SocketOrder, [Next]_vars,
                      NEW c \in Behavior, NEW x \in Behavior,
                      "resumed" \in note'[c].unread, note'[x].idle
               PROVE  "idled" \in note'[x].unread
    BY DEF SocketOrder
  <1>0. \A y \in Behavior : note[y] \in Note
    BY DEF TypeOK
  <1>1. CASE QuietStep
    BY <1>1, QuietEffect DEF SocketOrder
  <1>2. CASE UserActive
    BY <1>0, <1>2 DEF UserActive, Note
  <1>3. ASSUME NEW b \in Behavior, ReportIdle(b) PROVE "idled" \in note'[x].unread
    <2>1. /\ note'[b].unread = note[b].unread \cup {"idled"}
          /\ \A y \in Behavior : y # b => note'[y] = note[y]
      BY <1>0, <1>3 DEF ReportIdle, TypeOK, Note
    <2>2. QED BY <2>1 DEF SocketOrder
  <1>4. ASSUME NEW b \in Behavior, HandleIdled(b) PROVE "idled" \in note'[x].unread
    <2>1. /\ note'[b] = Received(b, "idled")
          /\ \A y \in Behavior : y # b => note'[y] = note[y]
      BY <1>4, HandleIdledEffect DEF TypeOK
    <2>2. "resumed" \in note[c].unread /\ note[x].idle
      BY <2>1, NoteEffects
    <2>3. b \in ReportedBefore
      BY <1>4, <2>2 DEF HandleIdled, ResumesUnread
    <2>4. x # b
      BY <2>2, <2>3 DEF ReportedBefore
    <2>5. QED BY <2>1, <2>2, <2>4 DEF SocketOrder
  <1>5. ASSUME NEW b \in Behavior, HandleResumed(b) PROVE "idled" \in note'[x].unread
    <2>1. \A y \in Behavior :
                \/ note'[y] = IF y = b THEN Received(b, "resumed") ELSE note[y]
                \/ note'[y] = Armed(config, y, session = "on")
      BY <1>5, HandleResumedEffect
    <2>2. "resumed" \in note[c].unread
      BY <2>1, NoteEffects
    <2>3. /\ note[x].idle
          /\ "idled" \in note[x].unread => "idled" \in note'[x].unread
      BY <2>1, NoteEffects
    <2>4. QED BY <2>2, <2>3 DEF SocketOrder
  <1>6. CASE ReleaseApplied
    <2>1. /\ note'[x] = note[x] \/ note'[x] = Armed(config, x, session = "on")
          /\ note'[c] = note[c] \/ note'[c] = Armed(config, c, session = "on")
      BY <1>6 DEF ReleaseApplied
    <2>2. note'[x] = note[x] /\ note'[c] = note[c]
      BY <2>1 DEF Armed
    <2>3. QED BY <2>2 DEF SocketOrder
  <1>7. ASSUME NEW cf \in Configs, Reload(cf) PROVE "idled" \in note'[x].unread
    <2>1. note'[x] = Armed(cf, x, session = "on")
      BY <1>7 DEF Reload
    <2>2. QED BY <2>1 DEF Armed
  <1>8. CASE LockConfirmed
    <2>1. /\ note'[x] = note[x] \/ note'[x] = Armed(config, x, TRUE)
          /\ note'[c] = note[c] \/ note'[c] = Armed(config, c, TRUE)
      BY <1>8 DEF LockConfirmed, Synced
    <2>2. note'[x] = note[x] /\ note'[c] = note[c]
      BY <2>1 DEF Armed
    <2>3. QED BY <2>2 DEF SocketOrder
  <1>9. CASE Unlocked
    <2>1. note'[x] = Armed(config, x, FALSE)
      BY <1>9 DEF Unlocked
    <2>2. QED BY <2>1 DEF Armed
  <1>10. QED BY <1>1, <1>2, <1>3, <1>4, <1>5, <1>6, <1>7, <1>8, <1>9, StepCases

LEMMA StepAwake == TypeOK /\ Awake /\ [Next]_vars => Awake'
  <1> SUFFICES ASSUME TypeOK, Awake, [Next]_vars, NEW x \in Behavior,
                      phase'[x] # "Waiting" \/ "idled" \in note'[x].unread
               PROVE  note'[x].idle \/ "resumed" \in note'[x].unread
    BY DEF Awake
  <1>0. \A y \in Behavior : note[y] \in Note
    BY DEF TypeOK
  <1>1. CASE QuietStep
    <2>1. note' = note /\ (phase'[x] # "Waiting" => phase[x] # "Waiting")
      BY <1>1, QuietEffect
    <2>2. QED BY <2>1 DEF Awake
  <1>2. CASE UserActive
    BY <1>0, <1>2 DEF UserActive, Note, Awake
  <1>3. ASSUME NEW b \in Behavior, ReportIdle(b)
        PROVE  note'[x].idle \/ "resumed" \in note'[x].unread
    <2>1. /\ note'[b].idle
          /\ \A y \in Behavior : y # b => note'[y] = note[y]
          /\ phase' = phase
      BY <1>0, <1>3 DEF ReportIdle, TypeOK, Note
    <2>2. QED BY <2>1 DEF Awake
  <1>4. ASSUME NEW b \in Behavior, HandleIdled(b)
        PROVE  note'[x].idle \/ "resumed" \in note'[x].unread
    <2>1. /\ note'[b] = Received(b, "idled")
          /\ \A y \in Behavior : y # b => note'[y] = note[y] /\ phase'[y] = phase[y]
      BY <1>4, HandleIdledEffect DEF TypeOK
    <2>2. "idled" \in note[b].unread
      BY <1>4 DEF HandleIdled
    <2>3. note[b].idle \/ "resumed" \in note[b].unread
      BY <2>2 DEF Awake
    <2>4. note'[b].idle \/ "resumed" \in note'[b].unread
      BY <2>1, <2>3, NoteEffects
    <2>5. QED BY <2>1, <2>4 DEF Awake
  <1>5. ASSUME NEW b \in Behavior, HandleResumed(b)
        PROVE  note'[x].idle \/ "resumed" \in note'[x].unread
    <2>1. /\ \/ note'[x] = IF x = b THEN Received(b, "resumed") ELSE note[x]
             \/ phase'[x] = "Waiting" /\ note'[x] = Armed(config, x, session = "on")
          /\ phase'[b] = "Waiting"
          /\ phase'[x] # phase[x] => phase'[x] = "Waiting"
      BY <1>5, HandleResumedEffect
    <2>2. note'[x] # Armed(config, x, session = "on") \/ phase'[x] # "Waiting"
      BY NoteEffects
    <2>3. CASE x = b
      <3>1. note'[b] = Received(b, "resumed") /\ "idled" \in note'[b].unread
        BY <2>1, <2>2, <2>3
      <3>2. "idled" \in note[b].unread
        BY <3>1, NoteEffects
      <3>3. note[b].idle
        BY <1>5, <3>2 DEF HandleResumed, ReportedBefore
      <3>4. QED BY <2>3, <3>1, <3>3, NoteEffects
    <2>4. CASE x # b
      BY <2>1, <2>2, <2>4 DEF Awake
    <2>5. QED BY <2>3, <2>4
  <1>6. CASE ReleaseApplied
    <2>1. /\ phase' = phase
          /\ note'[x] = IF phase[x] = "Waiting" THEN Armed(config, x, session = "on") ELSE note[x]
      BY <1>6 DEF ReleaseApplied
    <2>2. QED BY <2>1 DEF Armed, Awake
  <1>7. ASSUME NEW cf \in Configs, Reload(cf)
        PROVE  note'[x].idle \/ "resumed" \in note'[x].unread
    <2>1. phase'[x] = "Waiting" /\ note'[x] = Armed(cf, x, session = "on")
      BY <1>7 DEF Reload
    <2>2. QED BY <2>1 DEF Armed
  <1>8. CASE LockConfirmed
    <2>1. /\ phase' = phase
          /\ \/ note'[x] = note[x]
             \/ phase[x] = "Waiting" /\ note'[x] = Armed(config, x, TRUE)
      BY <1>8 DEF LockConfirmed, Synced
    <2>2. QED BY <2>1 DEF Armed, Awake
  <1>9. CASE Unlocked
    <2>1. phase'[x] = "Waiting" /\ note'[x] = Armed(config, x, FALSE)
      BY <1>9 DEF Unlocked
    <2>2. QED BY <2>1 DEF Armed
  <1>10. QED BY <1>1, <1>2, <1>3, <1>4, <1>5, <1>6, <1>7, <1>8, <1>9, StepCases

-----------------------------------------------------------------------------
(* No fade under an inhibitor, and no action.                              *)

LEMMA StepInhibitedIsQuiet ==
    TypeOK /\ InhibitedIsQuiet /\ [Next]_vars => InhibitedIsQuiet'
  <1> SUFFICES ASSUME TypeOK, InhibitedIsQuiet, [Next]_vars, Inhibited', NEW x \in Behavior
               PROVE  phase'[x] # "Fading"
    BY DEF InhibitedIsQuiet, Grace
  <1>0. Inhibited => phase[x] # "Fading"
    BY DEF InhibitedIsQuiet, Grace
  <1>1. CASE QuietStep
    <2>1. CASE InhibitTaken
      BY <1>0, <2>1 DEF InhibitTaken, CancelledPhase
    <2>2. CASE ~InhibitTaken
      <3>1. Inhibited' => Inhibited
        BY <1>1, <2>2, QuietEffect
      <3>2. QED BY <1>0, <1>1, <3>1, QuietEffect
    <2>3. QED BY <2>1, <2>2
  <1>2. CASE UserActive
    BY <1>0, <1>2 DEF UserActive, Inhibited
  <1>3. ASSUME NEW b \in Behavior, ReportIdle(b) PROVE phase'[x] # "Fading"
    BY <1>0, <1>3 DEF ReportIdle, Inhibited
  <1>4. ASSUME NEW b \in Behavior, HandleIdled(b) PROVE phase'[x] # "Fading"
    <2>1. Inhibited
      BY <1>4, HandleIdledEffect DEF Inhibited
    <2>2. QED BY <1>0, <1>4, <2>1, HandleIdledEffect
  <1>5. ASSUME NEW b \in Behavior, HandleResumed(b) PROVE phase'[x] # "Fading"
    <2>1. Inhibited
      BY <1>5, HandleResumedEffect DEF Inhibited
    <2>2. QED BY <1>0, <1>5, <2>1, HandleResumedEffect
  <1>6. CASE ReleaseApplied
    BY <1>0, <1>6 DEF ReleaseApplied, Inhibited
  <1>7. ASSUME NEW cf \in Configs, Reload(cf) PROVE phase'[x] # "Fading"
    BY <1>7 DEF Reload
  <1>8. CASE LockConfirmed
    BY <1>0, <1>8 DEF LockConfirmed, Inhibited
  <1>9. CASE Unlocked
    BY <1>9 DEF Unlocked
  <1>10. QED BY <1>1, <1>2, <1>3, <1>4, <1>5, <1>6, <1>7, <1>8, <1>9, StepCases

-----------------------------------------------------------------------------
(* Whoever waits, watches.                                                 *)

LEMMA SameEffective ==
    ASSUME UNCHANGED config, session' = "on" <=> session = "on", NEW x \in Behavior
    PROVE  Effective(config', x, session' = "on") = Effective(config, x, session = "on")
  <1>1. CASE session = "on"
    BY <1>1 DEF Effective
  <1>2. CASE session # "on"
    BY <1>2 DEF Effective
  <1>3. QED BY <1>1, <1>2

LEMMA StepWatchesOn ==
    TypeOK /\ SocketOrder /\ WatchesOn /\ [Next]_vars => WatchesOn'
  <1> SUFFICES ASSUME TypeOK, SocketOrder, WatchesOn, [Next]_vars, ~Inhibited',
                      NEW x \in Behavior, phase'[x] = "Waiting"
               PROVE  /\ note'[x].timeout = Effective(config', x, session' = "on")
                      /\ note'[x].idle => "idled" \in note'[x].unread
    BY DEF WatchesOn
  <1> DEFINE Watches == /\ note'[x].timeout = Effective(config', x, session' = "on")
                        /\ note'[x].idle => "idled" \in note'[x].unread
  <1>0. /\ \A y \in Behavior : note[y] \in Note
        /\ ~Inhibited /\ phase[x] = "Waiting" =>
             /\ note[x].timeout = Effective(config, x, session = "on")
             /\ note[x].idle => "idled" \in note[x].unread
    BY DEF TypeOK, WatchesOn
  <1>1. CASE QuietStep
    <2>1. /\ note' = note /\ config' = config /\ (session' = "on" <=> session = "on")
          /\ ~Inhibited /\ phase[x] = "Waiting"
      BY <1>1, QuietEffect
    <2>2. Effective(config', x, session' = "on") = Effective(config, x, session = "on")
      BY <2>1, SameEffective
    <2>3. QED BY <1>0, <2>1, <2>2
  <1>2. CASE UserActive
    <2>1. UNCHANGED <<config, session, phase>> /\ ~Inhibited
      BY <1>2 DEF UserActive, Inhibited
    <2>2. /\ note'[x].timeout = note[x].timeout
          /\ note'[x].idle => note'[x] = note[x]
      BY <1>0, <1>2 DEF UserActive, Note
    <2>3. QED BY <1>0, <2>1, <2>2
  <1>3. ASSUME NEW b \in Behavior, ReportIdle(b) PROVE Watches
    <2>1. UNCHANGED <<config, session, phase>> /\ ~Inhibited
      BY <1>3 DEF ReportIdle, Inhibited
    <2>2. /\ note'[b].timeout = note[b].timeout
          /\ note'[b].unread = note[b].unread \cup {"idled"}
          /\ \A y \in Behavior : y # b => note'[y] = note[y]
      BY <1>0, <1>3 DEF ReportIdle, TypeOK, Note
    <2>3. QED BY <1>0, <2>1, <2>2
  <1>4. ASSUME NEW b \in Behavior, HandleIdled(b) PROVE Watches
    <2>1. ~Inhibited /\ UNCHANGED config /\ (session' = "on" <=> session = "on")
      BY <1>4, HandleIdledEffect DEF Inhibited
    <2>2. x # b /\ phase[x] = "Waiting"
      BY <1>4, <2>1, HandleIdledEffect
    <2>3. note'[x] = note[x]
      BY <1>4, <2>2, HandleIdledEffect DEF TypeOK
    <2>4. Effective(config', x, session' = "on") = Effective(config, x, session = "on")
      BY <2>1, SameEffective
    <2>5. QED BY <1>0, <2>1, <2>2, <2>3, <2>4
  <1>5. ASSUME NEW b \in Behavior, HandleResumed(b) PROVE Watches
    <2>1. ~Inhibited /\ UNCHANGED <<config, session>>
      BY <1>5, HandleResumedEffect DEF Inhibited
    <2>2. note[x].idle => "idled" \in note[x].unread
      BY <1>5 DEF HandleResumed, SocketOrder
    <2>3. CASE note'[x] = Armed(config, x, session = "on")
      BY <2>1, <2>3 DEF Armed
    <2>4. CASE note'[x] = IF x = b THEN Received(b, "resumed") ELSE note[x]
      <3>1. /\ note'[x].timeout = note[x].timeout
            /\ note'[x].idle = note[x].idle
            /\ "idled" \in note[x].unread => "idled" \in note'[x].unread
        BY <2>4, NoteEffects
      <3>2. CASE phase[x] = "Waiting"
        BY <1>0, <2>1, <2>2, <3>1, <3>2
      <3>3. CASE phase[x] # "Waiting"
        BY <1>5, <2>1, <2>2, <3>1, <3>3, HandleResumedEffect
      <3>4. QED BY <3>2, <3>3
    <2>5. QED BY <1>5, <2>3, <2>4, HandleResumedEffect
  <1>6. CASE ReleaseApplied
    <2>1. note'[x] = Armed(config, x, session = "on") /\ UNCHANGED <<config, session>>
      BY <1>6 DEF ReleaseApplied
    <2>2. QED BY <2>1 DEF Armed
  <1>7. ASSUME NEW cf \in Configs, Reload(cf) PROVE Watches
    <2>1. note'[x] = Armed(cf, x, session = "on") /\ config' = cf /\ UNCHANGED session
      BY <1>7 DEF Reload
    <2>2. QED BY <2>1 DEF Armed
  <1>8. CASE LockConfirmed
    <2>1. /\ note'[x] = Synced(x, phase[x], note[x], TRUE)
          /\ UNCHANGED <<config, phase>> /\ session' = "on" /\ ~Inhibited
      BY <1>8 DEF LockConfirmed, Inhibited
    <2>2. CASE note[x].timeout = Effective(config, x, TRUE)
      <3>1. note'[x] = note[x]
        BY <2>1, <2>2 DEF Synced
      <3>2. QED BY <1>0, <2>1, <2>2, <3>1
    <2>3. CASE note[x].timeout # Effective(config, x, TRUE)
      <3>1. note'[x] = Armed(config, x, TRUE)
        BY <2>1, <2>3 DEF Synced
      <3>2. Effective(config', x, session' = "on") = Effective(config, x, TRUE)
        BY <2>1 DEF Effective
      <3>3. /\ note'[x].timeout = Effective(config, x, TRUE)
            /\ note'[x].idle = FALSE
        BY <3>1 DEF Armed
      <3>4. QED BY <3>2, <3>3
    <2>4. QED BY <2>2, <2>3
  <1>9. CASE Unlocked
    <2>1. note'[x] = Armed(config, x, FALSE) /\ UNCHANGED config /\ session' = "off"
      BY <1>9 DEF Unlocked
    <2>2. QED BY <2>1 DEF Armed, Effective
  <1>10. QED BY <1>1, <1>2, <1>3, <1>4, <1>5, <1>6, <1>7, <1>8, <1>9, StepCases

-----------------------------------------------------------------------------
(* Actions in force, and the overlay.                                      *)

EffectIdled == \A b \in effect : phase[b] = "Idled"

LEMMA StepEffectIdled ==
    Paced /\ TypeOK /\ EffectIdled /\ [Next]_vars => EffectIdled'
  <1> SUFFICES ASSUME Paced, TypeOK, EffectIdled, [Next]_vars, NEW x \in effect'
               PROVE  phase'[x] = "Idled"
    BY DEF EffectIdled
  <1>0. \A b \in effect : phase[b] = "Idled"
    BY DEF EffectIdled
  <1>1. ASSUME NEW f, Complete(f) PROVE phase'[x] = "Idled"
    <2>1. x \in effect \/ x \in Grace
      BY <1>1 DEF Complete, Run
    <2>2. x \in Behavior /\ phase[x] \in {"Fading", "Idled"}
      BY <1>0, <2>1 DEF Grace, TypeOK
    <2>3. QED BY <1>1, <2>2, CompleteEffect
  <1>2. CASE QuietStep
    <2>1. ASSUME NEW age \in Age, ShowOverlay(age) PROVE phase'[x] = "Idled"
      BY <1>0, <2>1 DEF ShowOverlay
    <2>2. ASSUME NEW age \in Age, FadeDone(age) PROVE phase'[x] = "Idled"
      BY <1>0, <1>1, <2>2 DEF FadeDone
    <2>3. CASE FallbackFires
      BY <1>1, <2>3 DEF FallbackFires
    <2>4. CASE InhibitTaken
      BY <1>0, <2>4 DEF InhibitTaken, CancelledPhase, TypeOK
    <2>5. CASE \/ OverlayFaded \/ InhibitReleased \/ LockRequested \/ LockAborted
               \/ UnlockedEarly \/ OutputsReturn \/ SleepChanges \/ UNCHANGED vars
      BY <1>0, <2>5 DEF OverlayFaded, InhibitReleased, LockRequested, LockAborted,
           UnlockedEarly, OutputsReturn, SleepChanges, vars
    <2>6. ASSUME NEW some \in BOOLEAN, OutputsChange(some) PROVE phase'[x] = "Idled"
      BY <1>0, <2>6 DEF OutputsChange
    <2>7. QED BY <1>2, <2>1, <2>2, <2>3, <2>4, <2>5, <2>6 DEF QuietStep
  <1>3. CASE UserActive
    BY <1>0, <1>3 DEF UserActive
  <1>4. ASSUME NEW b \in Behavior, ReportIdle(b) PROVE phase'[x] = "Idled"
    BY <1>0, <1>4 DEF ReportIdle
  <1>5. ASSUME NEW b \in Behavior, HandleIdled(b) PROVE phase'[x] = "Idled"
    <2>1. CASE phase[b] = "Waiting" /\ ~Inhibited /\ ~config.fade
      <3>1. phase' = [phase EXCEPT ![b] = "Idled"] /\ Run({b}, fade)
        BY <1>5, <2>1 DEF HandleIdled
      <3>2. x \in effect \/ x = b
        BY <3>1 DEF Run
      <3>3. QED BY <1>0, <3>1, <3>2 DEF TypeOK
    <2>2. CASE phase[b] = "Waiting" /\ ~Inhibited /\ config.fade
      <3>1. phase' = [phase EXCEPT ![b] = "Fading"] /\ effect' = effect
        BY <1>5, <2>2 DEF HandleIdled
      <3>2. QED BY <1>0, <2>2, <3>1 DEF TypeOK
    <2>3. CASE phase[b] # "Waiting" \/ Inhibited
      BY <1>0, <1>5, <2>3 DEF HandleIdled
    <2>4. QED BY <1>5, <2>1, <2>2, <2>3 DEF HandleIdled
  <1>6. ASSUME NEW b \in Behavior, HandleResumed(b) PROVE phase'[x] = "Idled"
    <2>1. CASE ResumeFading(b)
      BY <1>0, <2>1 DEF ResumeFading, CancelledPhase, TypeOK
    <2>2. CASE ResumeIdled(b)
      BY <1>0, <2>2 DEF ResumeIdled, TypeOK
    <2>3. CASE ResumeWaiting(b)
      BY <1>0, <2>3 DEF ResumeWaiting
    <2>4. QED BY <1>6, <2>1, <2>2, <2>3 DEF HandleResumed
  <1>7. CASE ReleaseApplied
    BY <1>0, <1>7 DEF ReleaseApplied
  <1>8. ASSUME NEW cf \in Configs, Reload(cf) PROVE phase'[x] = "Idled"
    BY <1>8 DEF Reload
  <1>9. CASE LockConfirmed
    BY <1>0, <1>9 DEF LockConfirmed
  <1>10. CASE Unlocked
    BY <1>0, <1>10 DEF Unlocked, TypeOK
  <1>11. QED BY <1>2, <1>3, <1>4, <1>5, <1>6, <1>7, <1>8, <1>9, <1>10, StepCases

\* The deferred show() that will be obeyed belongs to a fade; surfaces are on an
\* output, and belong to a fade or to a lock that is on its way or there.
OverlayFollows ==
  /\ "current" \in fade.shows => Grace # {}
  /\ fade.shown => outputs /\ (Grace # {} \/ session \in {"pending", "on"})

LEMMA FadeEffects ==
    ASSUME NEW f \in Fade, NEW u \in BOOLEAN, NEW w \in BOOLEAN
    PROVE  /\ Hide(f).shown = FALSE
           /\ Hide(f).shows = f.shows
           /\ Begun(f).shown = f.shown
           /\ "current" \notin Ended(f, u, w).shows
           /\ Ended(f, u, w).shown => f.shown /\ ~u /\ w
           /\ Grace # {} => "current" \notin Cancelled(f, u).shows
           /\ Cancelled(f, u).shown => f.shown
           /\ Cancelled(f, u).shown => Grace = {} \/ (~u /\ Grace \cap Locks # {})
  <1>1. \A g \in Fade : Hide(g).shown = FALSE /\ Hide(g).shows = g.shows
    BY DEF Hide, Fade
  <1>2. \A c : "current" \notin Superseded(c)
    BY DEF Superseded
  <1>3. \A g \in Fade, x \in BOOLEAN, y \in BOOLEAN :
          /\ "current" \notin Ended(g, x, y).shows
          /\ Ended(g, x, y).shown => g.shown /\ ~x /\ y
    <2> SUFFICES ASSUME NEW g \in Fade, NEW x \in BOOLEAN, NEW y \in BOOLEAN
                 PROVE  /\ "current" \notin Ended(g, x, y).shows
                        /\ Ended(g, x, y).shown => g.shown /\ ~x /\ y
      OBVIOUS
    <2> DEFINE h == [g EXCEPT !.timer = FALSE, !.shows = Superseded(@)]
    <2>1. h.shows = Superseded(g.shows) /\ h.shown = g.shown
      BY DEF Fade
    <2>2. Superseded(g.shows) \in SUBSET Age
      BY DEF Superseded, Age
    <2>3. h \in Fade
      BY <2>2 DEF Fade
    <2>4. CASE ~x /\ y
      <3>1. Ended(g, x, y) = h
        BY <2>4 DEF Ended
      <3>2. QED BY <1>2, <2>1, <2>4, <3>1
    <2>5. CASE ~(~x /\ y)
      <3>1. Ended(g, x, y) = Hide(h)
        BY <2>5 DEF Ended
      <3>2. QED BY <1>1, <1>2, <2>1, <2>3, <3>1
    <2>6. QED BY <2>4, <2>5
  <1>4. Begun(f).shown = f.shown
    BY DEF Begun, Fade
  <1>5. CASE Grace = {}
    BY <1>1, <1>3, <1>4, <1>5 DEF Cancelled
  <1>6. CASE Grace # {}
    <2> DEFINE g == [f EXCEPT !.dones = Superseded(@), !.callback = SupersededCallback(@)]
    <2>1. /\ Superseded(f.dones) \in SUBSET Age
          /\ SupersededCallback(f.callback) \in Age \cup {"none"}
      BY DEF Superseded, SupersededCallback, Age, Fade
    <2>2. g \in Fade /\ g.shown = f.shown
      BY <2>1 DEF Fade
    <2>3. Cancelled(f, u) = Ended(g, u, Grace \cap Locks # {})
      BY <1>6 DEF Cancelled
    <2>4. (Grace \cap Locks # {}) \in BOOLEAN
      OBVIOUS
    <2>5. /\ "current" \notin Cancelled(f, u).shows
          /\ Cancelled(f, u).shown => f.shown /\ ~u /\ Grace \cap Locks # {}
      <3>1. /\ "current" \notin Ended(g, u, Grace \cap Locks # {}).shows
            /\ Ended(g, u, Grace \cap Locks # {}).shown => g.shown /\ ~u /\ Grace \cap Locks # {}
        BY <1>3, <2>2, <2>4
      <3>2. QED BY <2>2, <2>3, <3>1
    <2>6. QED BY <1>1, <1>3, <1>4, <1>6, <2>5
  <1>7. QED BY <1>5, <1>6

\* A fade that ends in its actions leaves the overlay to nobody but the lock screen.
LEMMA CompleteOverlay ==
    ASSUME TypeOK, OverlayFollows, NEW f \in Fade, f.shown => fade.shown,
           Complete(f), UNCHANGED outputs
    PROVE  OverlayFollows'
  <1> DEFINE w == Grace \cap Locks # {}
             g == Ended(f, FALSE, w)
  <1>1. w \in BOOLEAN /\ g \in Fade
    BY FadeTypes
  <1>2. /\ "current" \notin g.shows
        /\ g.shown => fade.shown /\ w
        /\ ~Hide(g).shown
        /\ "current" \notin Hide(g).shows
    BY <1>1, FadeEffects
  <1>3. Run(Grace, g)
    BY DEF Complete
  <1>4. g.shown => outputs
    BY <1>2 DEF OverlayFollows
  <1>5. CASE w
    <2>1. Lock(g)
      BY <1>3, <1>5 DEF Run
    <2>2. CASE fade' = Hide(g)
      BY <1>2, <2>2 DEF OverlayFollows
    <2>3. CASE fade' = g /\ (session' \in {"pending", "on"} \/ ~outputs)
      BY <1>2, <1>4, <2>3 DEF OverlayFollows
    <2>4. QED BY <2>1, <2>2, <2>3 DEF Lock
  <1>6. CASE ~w
    <2>1. fade' = g
      BY <1>3, <1>6 DEF Run
    <2>2. QED BY <1>2, <1>6, <2>1 DEF OverlayFollows
  <1>7. QED BY <1>5, <1>6

LEMMA StepOverlayFollows ==
    Paced /\ TypeOK /\ OverlayFollows /\ [Next]_vars => OverlayFollows'
  <1> SUFFICES ASSUME Paced, TypeOK, OverlayFollows, [Next]_vars PROVE OverlayFollows'
    OBVIOUS
  <1>0. /\ fade \in Fade /\ Hide(fade).shown = FALSE /\ Hide(fade).shows = fade.shows
        /\ phase \in [Behavior -> {"Waiting", "Fading", "Idled"}]
    BY FadeEffects DEF TypeOK
  <1>a. ASSUME UNCHANGED <<phase, outputs>>, fade' = fade \/ fade' = Hide(fade),
               session' = session \/ session' \in {"pending", "on"} \/ fade' = Hide(fade)
        PROVE  OverlayFollows'
    BY <1>0, <1>a DEF OverlayFollows, Grace
  <1>1. ASSUME NEW age \in Age, ShowOverlay(age) PROVE OverlayFollows'
    <2>1. age \in fade.shows /\ UNCHANGED <<phase, outputs, session>>
      BY <1>1 DEF ShowOverlay
    <2>2. CASE age = "stale"
      <3>1. fade'.shows \subseteq fade.shows /\ fade'.shown = fade.shown
        BY <1>0, <1>1, <2>2 DEF ShowOverlay, Fade
      <3>2. QED BY <2>1, <3>1 DEF OverlayFollows, Grace
    <2>3. CASE age = "current"
      <3>1. Grace # {}
        BY <2>1, <2>3 DEF OverlayFollows
      <3>2. fade'.shown => fade.shown \/ outputs
        BY <1>0, <1>1, <2>3 DEF ShowOverlay, Fade
      <3>3. QED BY <2>1, <3>1, <3>2 DEF OverlayFollows, Grace
    <2>4. QED BY <2>2, <2>3 DEF Age
  <1>2. ASSUME NEW age \in Age, FadeDone(age) PROVE OverlayFollows'
    <2> DEFINE f == [fade EXCEPT !.dones = @ \ {age}]
    <2>1. f \in Fade /\ f.shown = fade.shown /\ f.shows = fade.shows
      BY <1>0 DEF Fade
    <2>2. CASE Complete(f)
      BY <1>2, <2>1, <2>2, CompleteOverlay DEF FadeDone
    <2>3. CASE fade' = f /\ UNCHANGED <<phase, effect, session>>
      BY <1>2, <2>1, <2>3 DEF FadeDone, OverlayFollows, Grace
    <2>4. QED BY <1>2, <2>2, <2>3 DEF FadeDone
  <1>3. CASE OverlayFaded
    <2>1. fade'.shown = fade.shown /\ fade'.shows = fade.shows
      BY <1>0, <1>3 DEF OverlayFaded, Fade
    <2>2. QED BY <1>3, <2>1 DEF OverlayFaded, OverlayFollows, Grace
  <1>4. CASE FallbackFires
    BY <1>0, <1>4, CompleteOverlay DEF FallbackFires
  <1>5. CASE InhibitTaken
    <2>1. CASE Inhibited \/ Grace = {}
      <3>1. UNCHANGED <<phase, fade, outputs, session>>
        BY <1>0, <1>5, <2>1 DEF InhibitTaken, Cancelled, CancelledPhase, Grace
      <3>2. QED BY <3>1 DEF OverlayFollows, Grace
    <2>2. CASE ~Inhibited /\ Grace # {}
      <3>1. fade' = Cancelled(fade, TRUE)
        BY <1>5, <2>2 DEF InhibitTaken
      <3>2. "current" \notin fade'.shows /\ ~fade'.shown
        BY <1>0, <2>2, <3>1, FadeEffects
      <3>3. QED BY <3>2 DEF OverlayFollows
    <2>3. QED BY <2>1, <2>2
  <1>6. CASE UserActive \/ InhibitReleased \/ ReleaseApplied \/ UNCHANGED vars
    BY <1>a, <1>6 DEF UserActive, InhibitReleased, ReleaseApplied, vars
  <1>7. ASSUME NEW b \in Behavior, ReportIdle(b) PROVE OverlayFollows'
    BY <1>a, <1>7 DEF ReportIdle
  <1>8. ASSUME NEW f, f = fade, Lock(f), UNCHANGED <<phase, outputs>> PROVE OverlayFollows'
    BY <1>a, <1>8 DEF Lock, OverlayFollows, Grace
  <1>9. CASE LockRequested
    BY <1>8, <1>9 DEF LockRequested
  <1>10. CASE LockConfirmed \/ LockAborted
    BY <1>a, <1>10 DEF LockConfirmed, LockAborted
  <1>11. CASE Unlocked
    <2>1. fade' = Cancelled(Hide(fade), FALSE) /\ session = "on"
      BY <1>11 DEF Unlocked
    <2>2. Hide(fade) \in Fade
      BY <1>0, FadeTypes
    <2>3. ~fade'.shown
      BY <1>0, <2>1, <2>2, FadeEffects
    <2>4. "current" \notin fade'.shows
      <3>1. CASE Grace = {}
        <4>1. fade'.shows = fade.shows
          BY <1>0, <2>1, <3>1 DEF Cancelled
        <4>2. QED BY <3>1, <4>1 DEF OverlayFollows
      <3>2. CASE Grace # {}
        BY <2>1, <2>2, <3>2, FadeEffects
      <3>3. QED BY <3>1, <3>2
    <2>5. QED BY <2>3, <2>4 DEF OverlayFollows
  <1>12. CASE UnlockedEarly
    <2>1. UNCHANGED <<phase, fade, outputs>> /\ session = "deferred"
      BY <1>12 DEF UnlockedEarly
    <2>2. QED BY <2>1 DEF OverlayFollows, Grace
  <1>13. ASSUME NEW some \in BOOLEAN, OutputsChange(some) PROVE OverlayFollows'
    <2>1. fade' = Hide(fade) /\ UNCHANGED <<phase, session>>
      BY <1>13 DEF OutputsChange
    <2>2. QED BY <1>0, <2>1 DEF OverlayFollows, Grace
  <1>14. CASE OutputsReturn
    <2>1. ~outputs /\ UNCHANGED phase /\ (fade' = fade \/ fade' = Hide(fade))
      BY <1>14 DEF OutputsReturn
    <2>2. QED BY <1>0, <2>1 DEF OverlayFollows, Grace
  <1>15. CASE SleepChanges
    BY <1>a, <1>15 DEF SleepChanges
  <1>16. ASSUME NEW cf \in Configs, Reload(cf) PROVE OverlayFollows'
    <2>1. fade' = Cancelled(fade, FALSE) /\ UNCHANGED <<outputs, session>> /\ Grace \cap Locks = {}
      BY <1>16 DEF Reload
    <2>2. CASE Grace = {}
      <3>1. fade' = fade
        BY <2>1, <2>2 DEF Cancelled
      <3>2. QED BY <2>1, <2>2, <3>1 DEF OverlayFollows
    <2>3. CASE Grace # {}
      <3>1. "current" \notin fade'.shows /\ ~fade'.shown
        BY <1>0, <2>1, <2>3, FadeEffects
      <3>2. QED BY <3>1 DEF OverlayFollows
    <2>4. QED BY <2>2, <2>3
  <1>17. ASSUME NEW b \in Behavior, HandleIdled(b) PROVE OverlayFollows'
    <2>1. CASE phase[b] # "Waiting" \/ Inhibited
      BY <1>a, <1>17, <2>1 DEF HandleIdled
    <2>2. CASE phase[b] = "Waiting" /\ ~Inhibited /\ config.fade
      <3>1. /\ phase' = [phase EXCEPT ![b] = "Fading"]
            /\ fade' = IF Grace = {} THEN Begun(fade) ELSE fade
            /\ UNCHANGED <<outputs, session>>
        BY <1>17, <2>2 DEF HandleIdled
      <3>2. Begun(fade).shown = fade.shown
        BY <1>0, FadeEffects
      <3>3. fade'.shown = fade.shown
        BY <3>1, <3>2
      <3>4. phase'[b] = "Fading"
        BY <1>0, <3>1
      <3>5. b \in Grace'
        BY <3>4 DEF Grace
      <3>6. QED BY <3>1, <3>3, <3>5 DEF OverlayFollows
    <2>3. CASE phase[b] = "Waiting" /\ ~Inhibited /\ ~config.fade
      <3>1. phase' = [phase EXCEPT ![b] = "Idled"] /\ Run({b}, fade) /\ UNCHANGED outputs
        BY <1>17, <2>3 DEF HandleIdled
      <3>2. Grace' = Grace
        BY <1>0, <2>3, <3>1 DEF Grace
      <3>3. CASE fade' = fade /\ UNCHANGED session
        BY <3>1, <3>2, <3>3 DEF OverlayFollows
      <3>4. CASE Lock(fade)
        <4>1. \/ fade' = Hide(fade)
              \/ fade' = fade /\ session' \in {session, "pending"}
              \/ fade' = fade /\ ~outputs
          BY <3>4 DEF Lock
        <4>2. session' = session \/ session' = "pending" \/ fade' = Hide(fade) \/ ~outputs
          BY <4>1
        <4>3. QED BY <1>0, <3>1, <3>2, <4>1, <4>2 DEF OverlayFollows
      <3>5. QED BY <3>1, <3>3, <3>4 DEF Run
    <2>4. QED BY <1>17, <2>1, <2>2, <2>3 DEF HandleIdled
  <1>18. ASSUME NEW b \in Behavior, HandleResumed(b) PROVE OverlayFollows'
    <2>1. UNCHANGED <<outputs, session>>
      BY <1>18 DEF HandleResumed
    <2>2. CASE ResumeFading(b)
      <3>1. Grace # {} /\ fade' = Cancelled(fade, TRUE)
        BY <2>2 DEF ResumeFading, Grace
      <3>2. "current" \notin fade'.shows /\ ~fade'.shown
        BY <1>0, <3>1, FadeEffects
      <3>3. QED BY <3>2 DEF OverlayFollows
    <2>3. CASE ResumeIdled(b)
      <3>1. Grace' = Grace /\ fade' = fade
        BY <1>0, <2>3 DEF ResumeIdled, Grace
      <3>2. QED BY <2>1, <3>1 DEF OverlayFollows
    <2>4. CASE ResumeWaiting(b)
      BY <1>a, <2>1, <2>4 DEF ResumeWaiting
    <2>5. QED BY <1>18, <2>2, <2>3, <2>4 DEF HandleResumed
  <1>19. QED
    BY <1>1, <1>2, <1>3, <1>4, <1>5, <1>6, <1>7, <1>9, <1>10, <1>11, <1>12, <1>13, <1>14,
       <1>15, <1>16, <1>17, <1>18 DEF Next, Handle

-----------------------------------------------------------------------------
(* The theorems.                                                           *)

LEMMA InitNotes ==
    ASSUME Init
    PROVE  SocketOrder /\ Awake /\ WatchesOn /\ InhibitedIsQuiet /\ EffectIdled /\ OverlayFollows
  <1>1. \A b \in Behavior :
          /\ phase[b] = "Waiting"
          /\ note[b].timeout = Effective(config, b, FALSE)
          /\ note[b].idle = FALSE
          /\ note[b].unread = {}
    BY DEF Init, Armed
  <1>2. SocketOrder /\ Awake
    BY <1>1 DEF SocketOrder, Awake
  <1>3. WatchesOn
    <2>1. session = "off"
      BY DEF Init
    <2>2. QED BY <1>1, <2>1 DEF WatchesOn, Effective
  <1>4. InhibitedIsQuiet /\ EffectIdled /\ OverlayFollows
    BY DEF Init, InhibitedIsQuiet, Inhibited, EffectIdled, OverlayFollows
  <1>5. QED BY <1>2, <1>3, <1>4

\* A behaviour that waits has the timeout that belongs to the session, and the
\* compositor will still report to it, whatever cancels, locks, reloads and debounces
\* came in between: idle_manager.cpp loses no countdown.
THEOREM BehavioursWatchOn == Spec => []WatchesOn
  <1>1. Init => TypeOK /\ SocketOrder /\ WatchesOn
    BY InitTypes, InitNotes
  <1>2. TypeOK /\ SocketOrder /\ WatchesOn /\ [Next]_vars => (TypeOK /\ SocketOrder /\ WatchesOn)'
    BY StepTypes, StepSocketOrder, StepWatchesOn
  <1>3. QED BY <1>1, <1>2, PTL DEF Spec

\* An action in force belongs to a behaviour in phase Idled whose notification is idle
\* or whose activity is unread, as long as no reload drops one in force.
THEOREM ActionsAreRemembered == Paced /\ Spec => []ActionRemembered
  <1>1. Init => TypeOK /\ Awake /\ EffectIdled
    BY InitTypes, InitNotes
  <1>2. Paced /\ (TypeOK /\ Awake /\ EffectIdled) /\ [Next]_vars => (TypeOK /\ Awake /\ EffectIdled)'
    BY StepTypes, StepAwake, StepEffectIdled
  <1>3. TypeOK /\ Awake /\ EffectIdled => ActionRemembered
    BY DEF TypeOK, Awake, EffectIdled, ActionRemembered
  <1>4. Paced /\ Spec => [](TypeOK /\ Awake /\ EffectIdled)
    <2>1. CASE Paced
      <3>1. (TypeOK /\ Awake /\ EffectIdled) /\ [Next]_vars => (TypeOK /\ Awake /\ EffectIdled)'
        BY <1>2, <2>1
      <3>2. QED BY <1>1, <3>1, PTL DEF Spec
    <2>2. QED BY <2>1
  <1>5. QED BY <1>3, <1>4, PTL

\* The overlay is on the screen, or about to be, only for a fade or for the lock screen
\* to take over: application_ui.cpp leaves none behind, as long as no reload cancels a
\* fade that was going to lock and nobody unlocks before the lock is confirmed.
THEOREM OverlayIsOwned == Paced /\ Spec => []OverlayOwned
  <1>1. Init => TypeOK /\ OverlayFollows
    BY InitTypes, InitNotes
  <1>2. Paced /\ (TypeOK /\ OverlayFollows) /\ [Next]_vars => (TypeOK /\ OverlayFollows)'
    BY StepTypes, StepOverlayFollows
  <1>3. OverlayFollows => OverlayOwned
    BY DEF OverlayFollows, OverlayOwned
  <1>4. Paced /\ Spec => [](TypeOK /\ OverlayFollows)
    <2>1. CASE Paced
      <3>1. (TypeOK /\ OverlayFollows) /\ [Next]_vars => (TypeOK /\ OverlayFollows)'
        BY <1>2, <2>1
      <3>2. QED BY <1>1, <3>1, PTL DEF Spec
    <2>2. QED BY <2>1
  <1>5. QED BY <1>3, <1>4, PTL

\* While media inhibits, and for the second after it has let go, no idle action runs:
\* a fade cannot survive the taking of an inhibitor.
THEOREM InhibitionHolds == Spec => InhibitedActsNot
  <1>1. Init => TypeOK /\ InhibitedIsQuiet
    BY InitTypes, InitNotes
  <1>2. TypeOK /\ InhibitedIsQuiet /\ [Next]_vars => (TypeOK /\ InhibitedIsQuiet)'
    BY StepTypes, StepInhibitedIsQuiet
  <1>3. TypeOK /\ InhibitedIsQuiet /\ [Next]_vars =>
          [Inhibited => \A b \in Behavior : phase'[b] = "Idled" => phase[b] = "Idled"]_vars
    <2> SUFFICES ASSUME TypeOK, InhibitedIsQuiet, [Next]_vars, Inhibited, NEW x \in Behavior,
                        phase'[x] = "Idled"
                 PROVE  phase[x] = "Idled"
      OBVIOUS
    <2>1. phase[x] # "Fading"
      BY DEF InhibitedIsQuiet, Grace
    <2>2. CASE QuietStep
      BY <2>1, <2>2, QuietEffect
    <2>3. CASE UserActive \/ ReleaseApplied \/ LockConfirmed
      BY <2>3 DEF UserActive, ReleaseApplied, LockConfirmed
    <2>4. ASSUME NEW b \in Behavior, ReportIdle(b) PROVE phase[x] = "Idled"
      BY <2>4 DEF ReportIdle
    <2>5. ASSUME NEW b \in Behavior, HandleIdled(b) PROVE phase[x] = "Idled"
      BY <2>5, HandleIdledEffect
    <2>6. ASSUME NEW b \in Behavior, HandleResumed(b) PROVE phase[x] = "Idled"
      BY <2>6, HandleResumedEffect
    <2>7. ASSUME NEW cf \in Configs, Reload(cf) PROVE phase[x] = "Idled"
      BY <2>7 DEF Reload
    <2>8. CASE Unlocked
      BY <2>8 DEF Unlocked
    <2>9. QED BY <2>2, <2>3, <2>4, <2>5, <2>6, <2>7, <2>8, StepCases
  <1>4. QED BY <1>1, <1>2, <1>3, PTL DEF Spec, InhibitedActsNot

-----------------------------------------------------------------------------
(* What ends a fade.                                                       *)

\* A fade that completes is ended, and perhaps hidden: no completion is made or lost.
LEMMA CompleteKeepsDones ==
    ASSUME NEW f \in Fade, Complete(f)
    PROVE  fade'.dones = f.dones
  <1> DEFINE g == Ended(f, FALSE, Grace \cap Locks # {})
  <1>1. \A h \in Fade : Hide(h) \in Fade /\ Hide(h).dones = h.dones
    BY DEF Hide, Fade
  <1>2. g \in Fade /\ g.dones = f.dones
    <2> DEFINE h == [f EXCEPT !.timer = FALSE, !.shows = Superseded(@)]
    <2>1. h \in Fade /\ h.dones = f.dones
      <3>1. Superseded(f.shows) \in SUBSET Age
        BY DEF Superseded, Age
      <3>2. QED BY <3>1 DEF Fade
    <2>2. g = h \/ g = Hide(h)
      BY DEF Ended
    <2> HIDE DEF g, h
    <2>3. QED BY <1>1, <2>1, <2>2
  <1>3. fade' = g \/ fade' = Hide(g)
    BY DEF Complete, Run, Lock
  <1> HIDE DEF g
  <1>4. QED BY <1>1, <1>2, <1>3

\* Only a completion of the fade of now, or the fallback timer of that fade, makes a
\* behaviour that fades run its action; the completion of a cancelled fade does not.
THEOREM ActsOnlyAfterItsFade == Spec => ActsAfterItsFade
  <1>1. TypeOK /\ [Next]_vars =>
          [\A b \in Behavior : phase[b] = "Fading" /\ phase'[b] = "Idled"
             => "current" \in fade.dones \/ (fade.timer /\ fade'.dones = fade.dones)]_vars
    <2> DEFINE Over == "current" \in fade.dones \/ (fade.timer /\ fade'.dones = fade.dones)
    <2> SUFFICES ASSUME TypeOK, [Next]_vars, NEW x \in Behavior,
                        phase[x] = "Fading", phase'[x] = "Idled"
                 PROVE  Over
      OBVIOUS
    <2>1. ASSUME NEW age \in Age, ShowOverlay(age) PROVE Over
      BY <2>1 DEF ShowOverlay
    <2>2. ASSUME NEW age \in Age, FadeDone(age) PROVE Over
      BY <2>2 DEF FadeDone
    <2>3. CASE FallbackFires
      BY <2>3, CompleteKeepsDones DEF FallbackFires, TypeOK
    <2>4. CASE InhibitTaken
      BY <2>4 DEF InhibitTaken, CancelledPhase
    <2>5. CASE OverlayFaded \/ InhibitReleased \/ OutputsReturn \/ SleepChanges \/ UNCHANGED vars
      BY <2>5 DEF OverlayFaded, InhibitReleased, OutputsReturn, SleepChanges, vars
    <2>6. CASE LockRequested \/ LockAborted \/ UnlockedEarly \/ \E some \in BOOLEAN : OutputsChange(some)
      BY <2>6 DEF LockRequested, LockAborted, UnlockedEarly, OutputsChange
    <2>7. CASE QuietStep
      BY <2>1, <2>2, <2>3, <2>4, <2>5, <2>6, <2>7 DEF QuietStep
    <2>8. CASE UserActive \/ ReleaseApplied \/ LockConfirmed
      <3>1. phase' = phase
        BY <2>8 DEF UserActive, ReleaseApplied, LockConfirmed
      <3>2. QED BY <3>1
    <2>9. ASSUME NEW b \in Behavior, ReportIdle(b) PROVE Over
      BY <2>9 DEF ReportIdle
    <2>10. ASSUME NEW b \in Behavior, HandleIdled(b) PROVE Over
      BY <2>10, HandleIdledEffect
    <2>11. ASSUME NEW b \in Behavior, HandleResumed(b) PROVE Over
      BY <2>11, HandleResumedEffect
    <2>12. CASE Unlocked \/ \E cf \in Configs : Reload(cf)
      BY <2>12 DEF Unlocked, Reload
    <2>13. QED BY <2>7, <2>8, <2>9, <2>10, <2>11, <2>12, StepCases
  <1>2. QED BY <1>1, TypeCorrect, PTL DEF Spec, ActsAfterItsFade
=============================================================================
