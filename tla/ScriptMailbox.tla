--------------------------- MODULE ScriptMailbox ---------------------------
(***************************************************************************)
(* What scripting::ScriptRuntime promises to the threads that feed it: a   *)
(* mailbox in front of a VM that handles one event at a time.              *)
(*                                                                         *)
(*   - events are handled in the order in which they were accepted, each   *)
(*     at most once, and the next one begins when the last one has ended;  *)
(*   - an accepted event is lost only to a newer event of its stream, to a *)
(*     full mailbox (the oldest one that may be lost), to a load or to the *)
(*     close;                                                              *)
(*   - a call runs from its first to its last step in the VM of the        *)
(*     generation it was accepted in;                                      *)
(*   - only a load replaces the VM and only the close ends it, at their    *)
(*     turn; nothing is accepted after the close.                          *)
(*                                                                         *)
(* Threads, drains, locks and health do not appear.  ScriptRuntime.tla     *)
(* implements this module.                                                 *)
(***************************************************************************)
EXTENDS Naturals, Sequences, SequencesExt

CONSTANTS
  Kind,         \* the kinds of event
  Source,       \* what an event answers or belongs to
  Coalescing,   \* kinds of which the mailbox holds the newest only
  Evictable,    \* kinds that a full mailbox may lose
  Unlimited,    \* kinds that a full mailbox accepts
  Load, Close,  \* the two kinds that change the VM
  Capacity,     \* kMaxQueuedEvents
  Nothing       \* no event is handled

VARIABLES
  waiting,      \* the events accepted and not begun
  running,      \* the event that is handled
  generation,   \* loads accepted so far
  vm,           \* the generation of the VM, 0 without one
  phase         \* open, closing (the close was accepted), closed

vars == <<waiting, running, generation, vm, phase>>

Init ==
  /\ waiting = <<>>
  /\ running = Nothing
  /\ generation = 0
  /\ vm = 0
  /\ phase = "open"

Event(kind, src) == [kind |-> kind, gen |-> generation, src |-> src]
Call == Kind \ {Load, Close}
First(i, kinds) ==
  /\ i \in DOMAIN waiting /\ waiting[i].kind \in kinds
  /\ \A j \in 1..(i - 1) : waiting[j].kind \notin kinds

Accept(kind, src) ==
  /\ phase = "open"
  /\ Len(waiting) < Capacity \/ kind \in Unlimited
  /\ waiting' = Append(waiting, Event(kind, src))
  /\ UNCHANGED <<running, generation, vm, phase>>

Evict(kind, src) ==
  /\ phase = "open"
  /\ Len(waiting) >= Capacity /\ kind \notin Evictable
  /\ \E i \in DOMAIN waiting :
       /\ First(i, Evictable)
       /\ waiting' = Append(RemoveAt(waiting, i), Event(kind, src))
  /\ UNCHANGED <<running, generation, vm, phase>>

Replace(kind, src) ==
  /\ phase = "open"
  /\ kind \in Coalescing
  /\ \E i \in DOMAIN waiting :
       /\ First(i, {kind})
       /\ waiting' = [waiting EXCEPT ![i] = Event(kind, src)]
  /\ UNCHANGED <<running, generation, vm, phase>>

AcceptLoad ==
  /\ phase = "open"
  /\ generation' = generation + 1
  /\ waiting' = <<[kind |-> Load, gen |-> generation + 1, src |-> 0]>>
  /\ UNCHANGED <<running, vm, phase>>

AcceptClose ==
  /\ phase = "open"
  /\ phase' = "closing"
  /\ waiting' = <<Event(Close, 0)>>
  /\ UNCHANGED <<running, generation, vm>>

(* The VM or the script has nothing to handle the event with.              *)
Discard ==
  /\ running = Nothing /\ waiting # <<>>
  /\ Head(waiting).kind \in Call
  /\ waiting' = Tail(waiting)
  /\ UNCHANGED <<running, generation, vm, phase>>

Begin ==
  /\ running = Nothing /\ waiting # <<>>
  /\ Head(waiting).kind \in Call => vm # 0 /\ Head(waiting).gen = vm
  /\ running' = Head(waiting)
  /\ waiting' = Tail(waiting)
  /\ UNCHANGED <<generation, vm, phase>>

ReplaceVm ==
  /\ running # Nothing /\ running.kind \in {Load, Close}
  /\ vm' = IF running.kind = Load THEN running.gen ELSE 0
  /\ UNCHANGED <<waiting, running, generation, phase>>

End ==
  /\ running # Nothing /\ running.kind # Close
  /\ running.gen = vm
  /\ running' = Nothing
  /\ UNCHANGED <<waiting, generation, vm, phase>>

Closed ==
  /\ running # Nothing /\ running.kind = Close
  /\ vm = 0 /\ waiting = <<>>
  /\ running' = Nothing
  /\ phase' = "closed"
  /\ UNCHANGED <<waiting, generation, vm>>

Next ==
  \/ \E kind \in Call, src \in Source :
       Accept(kind, src) \/ Evict(kind, src) \/ Replace(kind, src)
  \/ AcceptLoad \/ AcceptClose
  \/ Discard \/ Begin \/ ReplaceVm \/ End \/ Closed

Spec == Init /\ [][Next]_vars
=============================================================================
