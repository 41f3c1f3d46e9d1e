------------------------- MODULE ScriptRuntime_proofs -------------------------
(***************************************************************************)
(* Proofs about ScriptRuntime, for every number of threads, subscribers    *)
(* and calls, every limit of the mailbox and of the health budgets, and    *)
(* every set of scripts.                                                   *)
(*                                                                         *)
(* What every thread may do to the mailbox is stated once, for enqueue()   *)
(* (Accepted); the invariants are then checked for five classes of steps:  *)
(* an offer to the mailbox, a load, stop(), the post of a drain, and a     *)
(* step of a drain.                                                        *)
(***************************************************************************)
EXTENDS ScriptRuntime, SequenceTheorems, FiniteSetTheorems, WellFoundedInduction, TLAPS

Item == [kind : EventKind, gen : Nat, src : Nat]
Task == [sub : Subscriber \cup {All}, res : Result]

-----------------------------------------------------------------------------
(* The mailbox.                                                            *)

\* A nonempty set of places of the queue has an oldest one.
LEMMA OldestIsIn ==
    ASSUME NEW S \in SUBSET Nat, S # {}
    PROVE  Oldest(S) \in S /\ \A j \in S : Oldest(S) <= j
<1> DEFINE R == OpToRel(<, Nat)
<1>1. IsWellFoundedOn(R, Nat)
  BY NatLessThanWellFounded
<1>2. \A i, j \in Nat : i < j => <<i, j>> \in R
  BY DEF OpToRel
<1> HIDE DEF R
<1>3. PICK i \in S : \A j \in S : ~(<<j, i>> \in R)
  BY <1>1, WFMin, Zenon
<1>4. ASSUME NEW j \in S PROVE i <= j
  <2>1. i \in Nat /\ j \in Nat /\ ~(j < i)
    BY <1>2, <1>3
  <2> QED BY <2>1
<1> QED BY <1>3, <1>4 DEF Oldest

\* What is left of a sequence without one of its elements.
LEMMA RemoveAtElements ==
    ASSUME NEW S, NEW s \in Seq(S), NEW x \in 1..Len(s)
    PROVE  /\ RemoveAt(s, x) \in Seq(S)
           /\ Len(RemoveAt(s, x)) = Len(s) - 1
           /\ \A j \in 1..(Len(s) - 1) :
                RemoveAt(s, x)[j] = IF j < x THEN s[j] ELSE s[j + 1]
<1> DEFINE a == SubSeq(s, 1, x - 1)
           b == SubSeq(s, x + 1, Len(s))
<1>1. Len(s) \in Nat /\ \A i \in 1..Len(s) : s[i] \in S
  BY LenProperties, ElementOfSeq
<1>2. /\ a \in Seq(S)
      /\ Len(a) = x - 1
      /\ \A i \in 1..(x - 1) : a[i] = s[i]
  <2>1. \A i \in 1..(x - 1) : s[i] \in S
    BY <1>1
  <2>2. 1 \in Int /\ x - 1 \in Int /\ (x - 1) - 1 + 1 = x - 1
    BY <1>1
  <2>3. /\ a \in Seq(S)
        /\ Len(a) = IF 1 <= x - 1 THEN (x - 1) - 1 + 1 ELSE 0
        /\ \A i \in 1..((x - 1) - 1 + 1) : a[i] = s[1 + i - 1]
    <3> HIDE DEF a
    <3> QED BY <2>1, <2>2, SubSeqProperties DEF a
  <2> QED BY <1>1, <2>3
<1>3. /\ b \in Seq(S)
      /\ Len(b) = Len(s) - x
      /\ \A i \in 1..(Len(s) - x) : b[i] = s[x + i]
  <2>1. \A i \in (x + 1)..Len(s) : s[i] \in S
    BY <1>1
  <2>2. x + 1 \in Int /\ Len(s) \in Int
    BY <1>1
  <2>3. /\ b \in Seq(S)
        /\ Len(b) = IF x + 1 <= Len(s) THEN Len(s) - (x + 1) + 1 ELSE 0
        /\ \A i \in 1..(Len(s) - (x + 1) + 1) : b[i] = s[(x + 1) + i - 1]
    BY <2>1, <2>2, SubSeqProperties
  <2> QED BY <1>1, <2>3
<1>4. RemoveAt(s, x) = a \o b
  BY DEF RemoveAt
<1> HIDE DEF a, b
<1>5. /\ a \o b \in Seq(S)
      /\ Len(a \o b) = Len(a) + Len(b)
      /\ \A i \in 1..(Len(a) + Len(b)) : (a \o b)[i] = IF i <= Len(a) THEN a[i]
                                                       ELSE b[i - Len(a)]
  BY <1>2, <1>3, ConcatProperties
<1>6. Len(a) + Len(b) = Len(s) - 1
  BY <1>1, <1>2, <1>3
<1>7. ASSUME NEW j \in 1..(Len(s) - 1)
      PROVE  (a \o b)[j] = IF j < x THEN s[j] ELSE s[j + 1]
  <2>1. CASE j < x
    BY <2>1, <1>1, <1>2, <1>5, <1>6
  <2>2. CASE ~(j < x)
    <3>1. j - (x - 1) \in 1..(Len(s) - x) /\ ~(j <= x - 1) /\ x + (j - (x - 1)) = j + 1
      BY <2>2, <1>1
    <3>2. (a \o b)[j] = b[j - (x - 1)]
      BY <3>1, <1>2, <1>5, <1>6
    <3> QED BY <3>1, <3>2, <2>2, <1>3
  <2> QED BY <2>1, <2>2
<1> QED BY <1>4, <1>5, <1>6, <1>7

\* The queue after an eviction: every event of it was there before, in the same
\* order, and only a droppable one is gone.
LEMMA RoomElements ==
    ASSUME queue \in Seq(Item), NEW kind, ~NoRoom(kind), Full(kind),
           NEW x, x = Oldest(Droppable)
    PROVE  /\ x \in 1..Len(queue) /\ queue[x].kind \in {"Update", "Hover"}
           /\ Room(kind) \in Seq(Item)
           /\ Len(Room(kind)) = Len(queue) - 1
           /\ \A j \in 1..(Len(queue) - 1) :
                Room(kind)[j] = IF j < x THEN queue[j] ELSE queue[j + 1]
<1>1. Len(queue) \in Nat /\ DOMAIN queue = 1..Len(queue)
  BY LenProperties
<1>2. Droppable # {} /\ Droppable \in SUBSET Nat
  BY <1>1 DEF NoRoom, Droppable
<1>3. x \in Droppable
  BY <1>2, OldestIsIn
<1>4. x \in 1..Len(queue) /\ queue[x].kind \in {"Update", "Hover"}
  BY <1>1, <1>3 DEF Droppable
<1> QED BY <1>4, RemoveAtElements DEF Room

\* f tells whether q holds an Update, and it holds at most one.
Flags(q, f) ==
  /\ f <=> (\E i \in 1..Len(q) : q[i].kind = "Update")
  /\ \A i, j \in 1..Len(q) : q[i].kind = "Update" /\ q[j].kind = "Update" => i = j

\* The event at the front replaces the VM or ends it.
Led(q) == Len(q) > 0 /\ q[1].kind \in {"Reload", "Stop"}

\* Every event of q is of generation g.
Aged(q, g) == \A i \in 1..Len(q) : q[i].gen = g

MailTypes ==
  /\ queue \in Seq(Item)
  /\ generation \in Nat
  /\ scheduled \in BOOLEAN /\ updateQueued \in BOOLEAN
  /\ updateRunning \in BOOLEAN /\ throttle \in BOOLEAN
  /\ unposted \in Nat

\* What enqueue() leaves of the queue before it appends.
LEMMA RoomLeft ==
    ASSUME MailTypes, NEW kind, ~NoRoom(kind)
    PROVE  /\ Room(kind) \in Seq(Item)
           /\ Len(Room(kind)) \in Nat
           /\ Led(queue) => Led(Room(kind))
           /\ Aged(queue, generation) => Aged(Room(kind), generation)
           /\ \A j \in 1..Len(Room(kind)) : \E i \in 1..Len(queue) : Room(kind)[j] = queue[i]
           /\ Flags(queue, updateQueued) =>
                Flags(Room(kind), updateQueued /\ ~UpdateEvicted(kind))
<1>1. CASE ~Full(kind)
  <2>1. Room(kind) = queue /\ ~UpdateEvicted(kind)
    BY <1>1 DEF Room, UpdateEvicted
  <2>2. queue \in Seq(Item) /\ Len(queue) \in Nat /\ updateQueued \in BOOLEAN
    BY LenProperties DEF MailTypes
  <2>3. Flags(queue, updateQueued) => Flags(queue, updateQueued /\ TRUE)
    BY <2>2 DEF Flags
  <2> QED BY <2>1, <2>2, <2>3
<1>2. CASE Full(kind)
  <2> DEFINE x == Oldest(Droppable)
             r == Room(kind)
             n == Len(queue)
  <2>1. n \in Nat /\ queue \in Seq(Item)
    BY LenProperties DEF MailTypes
  <2>2. /\ x \in 1..n /\ queue[x].kind \in {"Update", "Hover"}
        /\ r \in Seq(Item)
        /\ Len(r) = n - 1
        /\ \A j \in 1..(n - 1) : r[j] = IF j < x THEN queue[j] ELSE queue[j + 1]
    BY <1>2, <2>1, RoomElements
  <2>3. UpdateEvicted(kind) <=> queue[x].kind = "Update"
    BY <1>2 DEF UpdateEvicted
  <2> HIDE DEF x, r, n
  <2>4. Led(queue) => Led(r)
    <3> SUFFICES ASSUME Led(queue) PROVE Led(r)
      OBVIOUS
    <3>1. n > 0 /\ queue[1].kind \in {"Reload", "Stop"}
      BY DEF Led, n
    <3>2. x # 1
      BY <2>2, <3>1
    <3>3. 1 \in 1..(n - 1) /\ 1 < x
      BY <2>1, <2>2, <3>2
    <3>4. r[1] = queue[1]
      BY <2>2, <3>3
    <3> QED BY <2>2, <3>1, <3>3, <3>4, <2>1 DEF Led
  <2>5. ASSUME NEW j \in 1..Len(r)
        PROVE  /\ j < x => j \in 1..n /\ r[j] = queue[j]
               /\ ~(j < x) => j + 1 \in 1..n /\ r[j] = queue[j + 1]
    BY <2>1, <2>2
  <2>6. \A j \in 1..Len(r) : \E i \in 1..n : r[j] = queue[i]
    BY <2>5
  <2>7. Aged(queue, generation) => Aged(r, generation)
    BY <2>6 DEF Aged, n
  <2>8. Flags(queue, updateQueued) => Flags(r, updateQueued /\ ~UpdateEvicted(kind))
    <3> SUFFICES ASSUME Flags(queue, updateQueued)
                 PROVE  Flags(r, updateQueued /\ ~UpdateEvicted(kind))
      OBVIOUS
    <3>1. /\ updateQueued <=> (\E i \in 1..n : queue[i].kind = "Update")
          /\ \A i, j \in 1..n : queue[i].kind = "Update" /\ queue[j].kind = "Update" => i = j
      BY DEF Flags, n
    <3>2. ASSUME NEW j \in 1..Len(r), r[j].kind = "Update"
          PROVE  updateQueued /\ queue[x].kind # "Update"
      <4>1. PICK i \in 1..n : r[j] = queue[i] /\ i # x
        <5>1. CASE j < x
          BY <5>1, <2>5, <2>2
        <5>2. CASE ~(j < x)
          <6>1. j + 1 # x /\ j + 1 \in 1..n /\ r[j] = queue[j + 1]
            BY <5>2, <2>5, <2>2
          <6> QED BY <6>1
        <5> QED BY <5>1, <5>2
      <4> QED BY <3>1, <3>2, <4>1, <2>2
    <3>3. ASSUME updateQueued, queue[x].kind # "Update"
          PROVE  \E j \in 1..Len(r) : r[j].kind = "Update"
      <4>1. PICK i \in 1..n : queue[i].kind = "Update"
        BY <3>1, <3>3
      <4>2. i # x
        BY <3>3, <4>1
      <4>3. CASE i < x
        <5>1. i \in 1..(n - 1) /\ r[i] = queue[i]
          BY <4>3, <2>1, <2>2
        <5> QED BY <5>1, <4>1, <2>2
      <4>4. CASE x < i
        <5>1. i - 1 \in 1..(n - 1) /\ ~(i - 1 < x) /\ (i - 1) + 1 = i
          BY <4>4, <2>1, <2>2
        <5>2. r[i - 1] = queue[i]
          BY <5>1, <2>2
        <5> QED BY <5>1, <5>2, <4>1, <2>2
      <4> QED BY <4>2, <4>3, <4>4, <2>1, <2>2
    <3>4. ASSUME NEW i \in 1..Len(r), NEW j \in 1..Len(r),
                 r[i].kind = "Update", r[j].kind = "Update"
          PROVE  i = j
      <4> DEFINE up(k) == IF k < x THEN k ELSE k + 1
      <4>1. up(i) \in 1..n /\ r[i] = queue[up(i)]
        BY <2>5
      <4>2. up(j) \in 1..n /\ r[j] = queue[up(j)]
        BY <2>5
      <4>3. up(i) = up(j)
        <5> HIDE DEF up
        <5> QED BY <4>1, <4>2, <3>1, <3>4
      <4> QED BY <4>3, <2>1, <2>2
    <3>5. (updateQueued /\ ~UpdateEvicted(kind)) <=> (\E j \in 1..Len(r) : r[j].kind = "Update")
      BY <2>3, <3>2, <3>3
    <3> QED BY <3>4, <3>5 DEF Flags
  <2>9. Len(r) \in Nat
    BY <2>1, <2>2
  <2> QED BY <2>2, <2>4, <2>6, <2>7, <2>8, <2>9 DEF r, n
<1> QED BY <1>1, <1>2

NoStop(q) == \A i \in 1..Len(q) : q[i].kind # "Stop"

\* What enqueue() does for every thread, whatever becomes of the event.
MailStep ==
  /\ MailTypes'
  /\ generation' = generation /\ updateRunning' = updateRunning
  /\ stopping => UNCHANGED mailbox
  /\ \/ /\ scheduled'
        /\ unposted' = IF scheduled THEN unposted ELSE unposted + 1
     \/ /\ scheduled' = scheduled /\ unposted' = unposted
        /\ queue = <<>> => queue' = <<>>
  /\ Led(queue) => Led(queue')
  /\ Aged(queue, generation) => Aged(queue', generation)
  /\ NoStop(queue) => NoStop(queue')
  /\ Flags(queue, updateQueued) => Flags(queue', updateQueued')

\* A mailbox that is left alone is one outcome of an offer.
LEMMA QuietMail == MailTypes /\ UNCHANGED mailbox => MailStep
  BY DEF MailStep, MailTypes, mailbox

\* An event that replaces the oldest one of its stream.
LEMMA SupersedeStep ==
    ASSUME MailTypes, NEW src \in Nat, NEW kind \in EventKind, Supersede(kind, src)
    PROVE  MailStep
<1> DEFINE x == Oldest(StreamSlots)
           e == [kind |-> "Stream", gen |-> generation, src |-> src]
           n == Len(queue)
<1>1. queue \in Seq(Item) /\ n \in Nat /\ DOMAIN queue = 1..n /\ generation \in Nat
  BY LenProperties DEF MailTypes
<1>2. e \in Item /\ kind = "Stream"
  BY <1>1 DEF Item, EventKind, ClientKind, Supersede, Superseding
<1>3. x \in 1..n /\ queue[x].kind = "Stream"
  <2>1. StreamSlots # {} /\ StreamSlots \in SUBSET Nat
    BY <1>1 DEF StreamSlots, Supersede, Superseding
  <2>2. x \in StreamSlots
    BY <2>1, OldestIsIn
  <2> QED BY <2>2, <1>1 DEF StreamSlots
<1>4. queue' = [queue EXCEPT ![x] = e]
  BY <1>2 DEF Supersede
<1>5. /\ queue' \in Seq(Item) /\ Len(queue') = n
      /\ \A j \in 1..n : queue'[j] = IF j = x THEN e ELSE queue[j]
  <2> HIDE DEF x, e
  <2> QED BY <1>1, <1>2, <1>3, <1>4, ExceptSeq
<1>6. /\ UNCHANGED <<generation, scheduled, updateQueued, updateRunning, throttle, unposted>>
      /\ ~stopping
  BY DEF Supersede, Refused
<1> HIDE DEF x
<1>7. MailTypes'
  BY <1>5, <1>6 DEF MailTypes
<1>8. Led(queue) => Led(queue')
  BY <1>1, <1>3, <1>5 DEF Led
<1>9. Aged(queue, generation) => Aged(queue', generation)
  BY <1>5 DEF Aged
<1>10. NoStop(queue) => NoStop(queue')
  BY <1>5 DEF NoStop
<1>11. Flags(queue, updateQueued) => Flags(queue', updateQueued')
  <2>1. \A j \in 1..n : queue'[j].kind = queue[j].kind
    BY <1>3, <1>5
  <2>2. Len(queue') = Len(queue) /\ updateQueued' = updateQueued
    BY <1>5, <1>6
  <2> QED BY <2>1, <2>2 DEF Flags
<1>12. queue # <<>>
  BY <1>1, <1>3
<1> QED BY <1>6, <1>7, <1>8, <1>9, <1>10, <1>11, <1>12 DEF MailStep

\* An event that joins the queue.
LEMMA PushStep ==
    ASSUME MailTypes, NEW src \in Nat, NEW kind \in EventKind \ {"Reload", "Stop"},
           Push(kind, src)
    PROVE  MailStep
<1> DEFINE r == Room(kind)
           e == [kind |-> kind, gen |-> generation, src |-> src]
           f == updateQueued /\ ~UpdateEvicted(kind)
           n == Len(r)
<1>1. /\ r \in Seq(Item) /\ n \in Nat
      /\ Led(queue) => Led(r)
      /\ Aged(queue, generation) => Aged(r, generation)
      /\ \A j \in 1..n : \E i \in 1..Len(queue) : r[j] = queue[i]
      /\ Flags(queue, updateQueued) => Flags(r, f)
  BY RoomLeft DEF Push
<1>2. e \in Item
  BY DEF MailTypes, Item
<1>3. queue' = Append(r, e) /\ updateQueued' = (kind = "Update" \/ f)
  BY DEF Push
<1>4. /\ UNCHANGED <<generation, updateRunning>> /\ ~stopping
      /\ throttle' = (throttle \/ kind = "Update")
      /\ scheduled' = TRUE
      /\ unposted' = IF scheduled THEN unposted ELSE unposted + 1
      /\ kind = "Update" => ~updateQueued
  BY DEF Push, Refused, Schedule, UpdatePending
<1> HIDE DEF r, f
<1>5. /\ queue' \in Seq(Item) /\ Len(queue') = n + 1
      /\ \A j \in 1..n : queue'[j] = r[j]
      /\ queue'[n + 1] = e
  <2> HIDE DEF e
  <2> QED BY <1>1, <1>2, <1>3, AppendProperties
<1>6. MailTypes'
  <2>1. updateQueued' \in BOOLEAN /\ throttle' \in BOOLEAN
    BY <1>3, <1>4
  <2>2. unposted' \in Nat
    BY <1>4 DEF MailTypes
  <2> QED BY <1>4, <1>5, <2>1, <2>2 DEF MailTypes
<1>7. \A j \in 1..Len(queue') : j \in 1..n \/ j = n + 1
  BY <1>1, <1>5
<1>8. Led(queue) => Led(queue')
  BY <1>1, <1>5 DEF Led
<1>9. Aged(queue, generation) => Aged(queue', generation)
  <2>1. e.gen = generation
    OBVIOUS
  <2> QED BY <1>1, <1>5, <1>7, <2>1 DEF Aged
<1>10. NoStop(queue) => NoStop(queue')
  <2>1. e.kind # "Stop"
    OBVIOUS
  <2> QED BY <1>1, <1>5, <1>7, <2>1 DEF NoStop
<1>11. Flags(queue, updateQueued) => Flags(queue', updateQueued')
  <2> SUFFICES ASSUME Flags(queue, updateQueued) PROVE Flags(queue', updateQueued')
    OBVIOUS
  <2>1. e.kind = kind
    OBVIOUS
  <2> HIDE DEF e
  <2>2. /\ f <=> (\E i \in 1..n : r[i].kind = "Update")
        /\ \A i, j \in 1..n : r[i].kind = "Update" /\ r[j].kind = "Update" => i = j
    BY <1>1 DEF Flags, n
  <2>3. kind = "Update" => ~f
    BY <1>4 DEF f
  <2>4. n + 1 \in 1..Len(queue') /\ 1..n \subseteq 1..Len(queue')
    BY <1>1, <1>5
  <2>5. updateQueued' <=> (\E i \in 1..Len(queue') : queue'[i].kind = "Update")
    <3>1. ASSUME NEW i \in 1..Len(queue'), queue'[i].kind = "Update" PROVE kind = "Update" \/ f
      BY <1>5, <1>7, <2>1, <2>2, <3>1
    <3>2. kind = "Update" => \E i \in 1..Len(queue') : queue'[i].kind = "Update"
      BY <1>5, <2>1, <2>4
    <3>3. f => \E i \in 1..Len(queue') : queue'[i].kind = "Update"
      BY <1>5, <2>2, <2>4
    <3> QED BY <1>3, <3>1, <3>2, <3>3
  <2>6. ASSUME NEW i \in 1..Len(queue'), NEW j \in 1..Len(queue'),
               queue'[i].kind = "Update", queue'[j].kind = "Update"
        PROVE  i = j
    <3>1. CASE i \in 1..n /\ j \in 1..n
      BY <1>5, <2>2, <2>6, <3>1
    <3>2. CASE i = n + 1 /\ j \in 1..n
      BY <1>5, <2>1, <2>2, <2>3, <2>6, <3>2
    <3>3. CASE i \in 1..n /\ j = n + 1
      BY <1>5, <2>1, <2>2, <2>3, <2>6, <3>3
    <3> QED BY <1>7, <3>1, <3>2, <3>3
  <2> QED BY <2>5, <2>6 DEF Flags
<1> QED BY <1>4, <1>6, <1>8, <1>9, <1>10, <1>11 DEF MailStep

\* An offered event, whatever becomes of it, and no change to the health verdict.
LEMMA Accepted ==
    ASSUME MailTypes, NEW src \in Nat, NEW kind \in EventKind \ {"Reload", "Stop"},
           Enqueue(kind, src)
    PROVE  MailStep /\ UNCHANGED health
<1>1. CASE Refuse(kind)
  BY <1>1, QuietMail DEF Refuse
<1>2. CASE Supersede(kind, src)
  BY <1>2, SupersedeStep DEF Supersede
<1>3. CASE SkipUpdate(kind)
  BY <1>3, QuietMail DEF SkipUpdate
<1>4. CASE Drop(kind)
  <2>1. /\ UNCHANGED <<queue, generation, scheduled, updateQueued, updateRunning, unposted,
                       health>>
        /\ throttle' \in BOOLEAN /\ ~stopping
    BY <1>4 DEF Drop, Refused
  <2> QED BY <2>1 DEF MailStep, MailTypes
<1>5. CASE Push(kind, src)
  BY <1>5, PushStep DEF Push
<1> QED BY <1>1, <1>2, <1>3, <1>4, <1>5 DEF Enqueue

-----------------------------------------------------------------------------
(* Types.  TypeOK in five parts, each of which most steps leave alone.     *)

HealthTypes ==
  /\ unhealthy \in BOOLEAN
  /\ consecutiveTimeouts \in Nat /\ timeoutHistory \in Nat
  /\ errorHistory \in Nat /\ blamed \in Nat

VmTypes ==
  /\ host \in [id : Nat, gen : Nat, watching : BOOLEAN, handler : BOOLEAN]
  /\ hosts \in Nat /\ marks \in Nat
  /\ watchers \in SUBSET Nat /\ asked \in SUBSET Nat
  /\ settingDependencies \in BOOLEAN /\ hasOnConfigChanged \in BOOLEAN

Places == {"idle", "top", "teardown", "reset", "load", "call", "update",
           "loaded", "health", "publish", "finish", "post", "halt"}
PoolTypes ==
  /\ tasks \in Nat
  /\ pc \in [Worker -> Places]
  /\ event \in [Worker -> [kind : EventKind \cup {"none"}, gen : Nat, src : Nat]]
  /\ outcome \in [Worker -> Outcome]
  /\ result \in [Worker -> Result]

UiTypes ==
  /\ deferred \in Seq(Task)
  /\ replayState \in [ready : BOOLEAN, gen : Nat, mark : Nat]
  /\ subscription \in [Subscriber -> {"new", "live", "gone"}]
  /\ view \in [Subscriber -> [gen : Nat, mark : Nat]]

ClientTypes ==
  /\ stopping \in BOOLEAN /\ stopped \in BOOLEAN
  /\ copied \in SUBSET Nat /\ calls \in Nat /\ changes \in Nat
  /\ main \in {"run", "stopping", "stopped"}
  /\ wish \in {"none", "Settings", "Reload"}

\* A load that has been decided upon is within the bound on the loads.
Bounds ==
  /\ generation \in 0..MaxGen
  /\ wish = "Reload" => generation < MaxGen

Types == MailTypes /\ HealthTypes /\ VmTypes /\ PoolTypes /\ UiTypes /\ ClientTypes /\ Bounds

LEMMA TypesAreTypeOK == Types => TypeOK
<1> SUFFICES ASSUME Types PROVE TypeOK
  OBVIOUS
<1>1. /\ queue \in Seq([kind : EventKind, gen : Nat, src : Nat])
      /\ {scheduled, updateQueued, updateRunning, throttle} \subseteq BOOLEAN
      /\ unposted \in Nat
  BY DEF Types, MailTypes, Item
<1>2. /\ unhealthy \in BOOLEAN
      /\ {consecutiveTimeouts, timeoutHistory, errorHistory, blamed} \subseteq Nat
  BY DEF Types, HealthTypes
<1>3. /\ host \in [id : Nat, gen : Nat, watching : BOOLEAN, handler : BOOLEAN]
      /\ {settingDependencies, hasOnConfigChanged} \subseteq BOOLEAN
      /\ {hosts, marks} \subseteq Nat
      /\ {watchers, asked} \subseteq SUBSET Nat
  BY DEF Types, VmTypes
<1>4. /\ {stopping, stopped} \subseteq BOOLEAN
      /\ {calls, changes} \subseteq Nat /\ copied \in SUBSET Nat
      /\ main \in {"run", "stopping", "stopped"}
      /\ wish \in {"none", "Settings", "Reload"}
  BY DEF Types, ClientTypes
<1>5. /\ tasks \in Nat
      /\ pc \in [Worker -> {"idle", "top", "teardown", "reset", "load", "call", "update",
                        "loaded", "health", "publish", "finish", "post", "halt"}]
      /\ event \in [Worker -> [kind : EventKind \cup {"none"}, gen : Nat, src : Nat]]
      /\ outcome \in [Worker -> Outcome]
      /\ result \in [Worker -> Result]
  BY DEF Types, PoolTypes, Places
<1>6. /\ deferred \in Seq([sub : Subscriber \cup {All}, res : Result])
      /\ replayState \in [ready : BOOLEAN, gen : Nat, mark : Nat]
      /\ subscription \in [Subscriber -> {"new", "live", "gone"}]
      /\ view \in [Subscriber -> [gen : Nat, mark : Nat]]
  BY DEF Types, UiTypes, Task
<1>7. generation \in 0..MaxGen
  BY DEF Types, Bounds
<1> QED BY <1>1, <1>2, <1>3, <1>4, <1>5, <1>6, <1>7 DEF TypeOK

LEMMA InitTypes == Init => Types
<1> SUFFICES ASSUME Init PROVE Types
  OBVIOUS
<1>1. MailTypes /\ HealthTypes
  BY EmptySeq DEF Init, MailTypes, HealthTypes
<1>2. VmTypes
  BY DEF Init, VmTypes, NoHost
<1>3. PoolTypes
  BY DEF Init, PoolTypes, Places, NoEvent, NoResult, Result, Outcome
<1>4. UiTypes
  BY EmptySeq DEF Init, UiTypes, NoReplay
<1>5. ClientTypes
  BY DEF Init, ClientTypes
<1>6. Bounds
  <2>1. MaxGen \in Nat
    BY ScriptRuntimeAssumption
  <2> QED BY <2>1 DEF Init, Bounds
<1> QED BY <1>1, <1>2, <1>3, <1>4, <1>5, <1>6 DEF Types

\* What a step leaves alone keeps its type.
LEMMA SameTypes ==
    ASSUME Types
    PROVE  /\ UNCHANGED mailbox => MailTypes'
           /\ UNCHANGED health => HealthTypes'
           /\ UNCHANGED vm => VmTypes'
           /\ UNCHANGED pool => PoolTypes'
           /\ UNCHANGED ui /\ UNCHANGED replayState => UiTypes'
           /\ UNCHANGED <<stopping, stopped, clients>> => ClientTypes'
           /\ UNCHANGED <<wish, generation>> => Bounds'
<1>1. UNCHANGED mailbox => MailTypes'
  BY DEF Types, MailTypes, mailbox
<1>2. UNCHANGED health => HealthTypes'
  BY DEF Types, HealthTypes, health
<1>3. UNCHANGED vm => VmTypes'
  BY DEF Types, VmTypes, vm
<1>4. UNCHANGED pool => PoolTypes'
  BY DEF Types, PoolTypes, pool
<1>5. UNCHANGED ui /\ UNCHANGED replayState => UiTypes'
  BY DEF Types, UiTypes, ui
<1>6. UNCHANGED <<stopping, stopped, clients>> => ClientTypes'
  BY DEF Types, ClientTypes, clients
<1>7. UNCHANGED <<wish, generation>> => Bounds'
  BY DEF Types, Bounds
<1> QED BY <1>1, <1>2, <1>3, <1>4, <1>5, <1>6, <1>7

\* An offer to the mailbox, or no use of it at all: what the pool and the VM hold
\* stays, and once stop() was called so do the subscriptions.
OfferStep ==
  /\ MailStep
  /\ UNCHANGED <<health, stopping, stopped, host, hosts, watchers, marks, pool>>
  /\ main' = main \/ (main = "stopping" /\ main' = "stopped")
  /\ main # "run" => UNCHANGED subscription

\* A load that is accepted.
LoadStep ==
  /\ PushReload
  /\ UNCHANGED <<stopping, stopped, host, hosts, watchers, marks, pool, deferred, subscription,
                 view, main>>

\* A load is well typed while it is within the bound.
LEMMA LoadTypes ==
    ASSUME Types, PushReload, generation < MaxGen
    PROVE  MailTypes' /\ HealthTypes' /\ generation' \in 0..MaxGen
           /\ replayState' \in [ready : BOOLEAN, gen : Nat, mark : Nat]
<1>1. generation + 1 \in Nat /\ generation + 1 \in 0..MaxGen
  BY ScriptRuntimeAssumption DEF Types, Bounds
<1>2. [kind |-> "Reload", gen |-> generation + 1, src |-> 0] \in Item
  BY <1>1 DEF Item, EventKind
<1>3. queue' \in Seq(Item)
  <2> DEFINE e == [kind |-> "Reload", gen |-> generation + 1, src |-> 0]
  <2>1. queue' = <<e>> /\ e \in Item
    BY <1>2 DEF PushReload
  <2> HIDE DEF e
  <2> QED BY <2>1
<1>4. unposted' \in Nat /\ scheduled' \in BOOLEAN
  BY DEF PushReload, Schedule, Types, MailTypes
<1>5. MailTypes'
  BY <1>1, <1>3, <1>4 DEF PushReload, MailTypes
<1>6. HealthTypes'
  BY DEF PushReload, ForgetHealth, HealthTypes
<1> QED BY <1>1, <1>5, <1>6 DEF PushReload, NoReplay

\* A load that is refused or finds no room leaves everything alone.
LEMMA EnqueueReloadStep ==
    ASSUME Types, EnqueueReload
    PROVE  PushReload \/ UNCHANGED <<mailbox, health, replayState>>
<1>1. CASE Drop("Reload")
  BY <1>1 DEF Drop, EnqueueReload, Types, MailTypes, mailbox, PushReload
<1>2. CASE ~Drop("Reload")
  BY <1>2 DEF EnqueueReload, Refuse
<1> QED BY <1>1, <1>2

\* The steps of the environment and of the main loop are offers or loads, and keep
\* the types.
LEMMA ClientStep ==
    ASSUME Types, NEW kind \in Kinds, Client(kind)
    PROVE  Types' /\ OfferStep
<1>1. kind \in EventKind \ {"Reload", "Stop"}
  BY ScriptRuntimeAssumption DEF EventKind, ClientKind
<1>2. MailStep /\ UNCHANGED health
  BY <1>1, Accepted DEF Client, Types
<1>3. /\ UNCHANGED <<stopping, stopped, vm, pool, ui, replayState, copied, main, wish, changes>>
      /\ calls' = calls + 1
  BY DEF Client, Offering
<1>4. MailTypes' /\ generation' = generation
  BY <1>2 DEF MailStep
<1>5. ClientTypes'
  BY <1>3 DEF Types, ClientTypes
<1>6. HealthTypes' /\ VmTypes' /\ PoolTypes' /\ UiTypes' /\ Bounds'
  BY <1>2, <1>3, <1>4, SameTypes
<1>7. OfferStep
  BY <1>2, <1>3 DEF OfferStep, vm, ui
<1> QED BY <1>4, <1>5, <1>6, <1>7 DEF Types

LEMMA ReloadStep ==
    ASSUME Types, Reload
    PROVE  Types' /\ (OfferStep \/ LoadStep)
<1>1. /\ UNCHANGED <<stopping, stopped, vm, pool, ui, copied, main, wish, changes>>
      /\ calls' = calls + 1 /\ EnqueueReload /\ generation < MaxGen /\ wish = "none"
  BY DEF Reload, Offering
<1>2. ClientTypes'
  BY <1>1 DEF Types, ClientTypes
<1>3. VmTypes' /\ PoolTypes'
  BY <1>1, SameTypes
<1>4. CASE PushReload
  <2>1. MailTypes' /\ HealthTypes' /\ generation' \in 0..MaxGen
        /\ replayState' \in [ready : BOOLEAN, gen : Nat, mark : Nat]
    BY <1>1, <1>4, LoadTypes
  <2>2. UiTypes'
    BY <1>1, <2>1 DEF Types, UiTypes, ui
  <2>3. Bounds'
    BY <1>1, <2>1 DEF Bounds
  <2>4. LoadStep
    BY <1>1, <1>4 DEF LoadStep, vm, ui
  <2> QED BY <1>2, <1>3, <2>1, <2>2, <2>3, <2>4 DEF Types
<1>5. CASE UNCHANGED <<mailbox, health, replayState>>
  <2>1. MailTypes' /\ HealthTypes' /\ UiTypes'
    BY <1>1, <1>5, SameTypes
  <2>2. Bounds'
    BY <1>1, <1>5, SameTypes DEF mailbox
  <2>3. MailStep
    BY <1>5, QuietMail DEF Types
  <2>4. OfferStep
    BY <1>1, <1>5, <2>3 DEF OfferStep, vm, ui
  <2> QED BY <1>2, <1>3, <2>1, <2>2, <2>4 DEF Types
<1> QED BY <1>1, <1>4, <1>5, EnqueueReloadStep

LEMMA AsyncDoneStep ==
    ASSUME Types, NEW h \in asked, AsyncDone(h)
    PROVE  Types' /\ OfferStep
<1>1. h \in Nat /\ "Async" \in EventKind \ {"Reload", "Stop"}
  BY DEF Types, VmTypes, EventKind
<1>2. MailStep /\ UNCHANGED health
  BY <1>1, Accepted DEF AsyncDone, Types
<1>3. /\ UNCHANGED <<stopping, stopped, host, hosts, watchers, settingDependencies,
                     hasOnConfigChanged, marks, pool, ui, replayState, copied, main, wish, changes>>
      /\ calls' = calls + 1 /\ asked' = asked \ {h}
  BY DEF AsyncDone, Offering
<1>4. MailTypes' /\ generation' = generation
  BY <1>2 DEF MailStep
<1>5. ClientTypes'
  BY <1>3 DEF Types, ClientTypes
<1>6. VmTypes'
  BY <1>3 DEF Types, VmTypes
<1>7. HealthTypes' /\ PoolTypes' /\ UiTypes' /\ Bounds'
  BY <1>2, <1>3, <1>4, SameTypes
<1>8. OfferStep
  BY <1>2, <1>3 DEF OfferStep, ui
<1> QED BY <1>4, <1>5, <1>6, <1>7, <1>8 DEF Types

LEMMA StateSetStep ==
    ASSUME Types, StateSet
    PROVE  Types' /\ OfferStep
<1>1. /\ UNCHANGED <<mailbox, health, stopping, stopped, vm, pool, ui, replayState, main, wish,
                     changes>>
      /\ calls' = calls + 1 /\ copied' = watchers
  BY DEF StateSet, Offering
<1>2. ClientTypes'
  BY <1>1 DEF Types, ClientTypes, VmTypes
<1>3. MailTypes' /\ HealthTypes' /\ VmTypes' /\ PoolTypes' /\ UiTypes'
  BY <1>1, SameTypes
<1>4. Bounds'
  BY <1>1, SameTypes DEF mailbox
<1>5. MailStep
  BY <1>1, QuietMail DEF Types
<1>6. OfferStep
  BY <1>1, <1>5 DEF OfferStep, vm, ui
<1> QED BY <1>2, <1>3, <1>4, <1>6 DEF Types

LEMMA NotifyStep ==
    ASSUME Types, NEW h \in copied, Notify(h)
    PROVE  Types' /\ OfferStep
<1>1. h \in Nat /\ "Watch" \in EventKind \ {"Reload", "Stop"}
  BY DEF Types, ClientTypes, EventKind
<1>2. MailStep /\ UNCHANGED health
  BY <1>1, Accepted DEF Notify, Types
<1>3. /\ UNCHANGED <<stopping, stopped, vm, pool, ui, replayState, main, wish, calls, changes>>
      /\ copied' = copied \ {h}
  BY DEF Notify
<1>4. MailTypes' /\ generation' = generation
  BY <1>2 DEF MailStep
<1>5. ClientTypes'
  BY <1>3 DEF Types, ClientTypes
<1>6. HealthTypes' /\ VmTypes' /\ PoolTypes' /\ UiTypes' /\ Bounds'
  BY <1>2, <1>3, <1>4, SameTypes
<1>7. OfferStep
  BY <1>2, <1>3 DEF OfferStep, vm, ui
<1> QED BY <1>4, <1>5, <1>6, <1>7 DEF Types

LEMMA ConfigChangeStep ==
    ASSUME Types, ConfigChange
    PROVE  Types' /\ OfferStep
<1>1. /\ UNCHANGED <<mailbox, health, stopping, stopped, vm, pool, ui, replayState, copied, main,
                     calls>>
      /\ changes' = changes + 1
      /\ wish' \in {"none", "Settings", "Reload"}
      /\ wish' = "Reload" => generation < MaxGen
  BY DEF ConfigChange, vm, ui
<1>2. ClientTypes'
  BY <1>1 DEF Types, ClientTypes
<1>3. MailTypes' /\ HealthTypes' /\ VmTypes' /\ PoolTypes' /\ UiTypes'
  BY <1>1, SameTypes
<1>4. Bounds'
  BY <1>1 DEF mailbox, Types, Bounds
<1>5. MailStep
  BY <1>1, QuietMail DEF Types
<1>6. OfferStep
  BY <1>1, <1>5 DEF OfferStep, vm, ui
<1> QED BY <1>2, <1>3, <1>4, <1>6 DEF Types

LEMMA GrantWishStep ==
    ASSUME Types, GrantWish
    PROVE  Types' /\ (OfferStep \/ LoadStep)
<1>1. /\ UNCHANGED <<stopping, stopped, vm, pool, ui, copied, main, calls, changes>>
      /\ wish' = "none"
  BY DEF GrantWish
<1>2. ClientTypes'
  BY <1>1 DEF Types, ClientTypes
<1>3. VmTypes' /\ PoolTypes'
  BY <1>1, SameTypes
<1>4. CASE PushReload /\ wish = "Reload"
  <2>1. generation < MaxGen
    BY <1>4 DEF Types, Bounds
  <2>2. MailTypes' /\ HealthTypes' /\ generation' \in 0..MaxGen
        /\ replayState' \in [ready : BOOLEAN, gen : Nat, mark : Nat]
    BY <1>4, <2>1, LoadTypes
  <2>3. UiTypes'
    BY <1>1, <2>2 DEF Types, UiTypes, ui
  <2>4. Bounds'
    BY <1>1, <2>2 DEF Bounds
  <2>5. LoadStep
    BY <1>1, <1>4 DEF LoadStep, vm, ui
  <2> QED BY <1>2, <1>3, <2>2, <2>3, <2>4, <2>5 DEF Types
<1>5. CASE MailStep /\ UNCHANGED <<health, replayState>>
  <2>1. MailTypes' /\ generation' = generation
    BY <1>5 DEF MailStep
  <2>2. HealthTypes' /\ UiTypes'
    BY <1>1, <1>5, SameTypes
  <2>3. Bounds'
    BY <1>1, <2>1 DEF Types, Bounds
  <2>4. OfferStep
    BY <1>1, <1>5 DEF OfferStep, vm, ui
  <2> QED BY <1>2, <1>3, <2>1, <2>2, <2>3, <2>4 DEF Types
<1>6. CASE EnqueueReload /\ wish = "Reload"
  <2>1. PushReload \/ UNCHANGED <<mailbox, health, replayState>>
    BY <1>6, EnqueueReloadStep
  <2>2. UNCHANGED <<mailbox, health, replayState>> =>
          MailStep /\ UNCHANGED <<health, replayState>>
    BY QuietMail DEF Types
  <2> QED BY <1>4, <1>5, <1>6, <2>1, <2>2
<1>7. CASE Enqueue("Settings", 0) /\ UNCHANGED replayState
  <2>1. "Settings" \in EventKind \ {"Reload", "Stop"} /\ 0 \in Nat
    BY DEF EventKind
  <2>2. MailStep /\ UNCHANGED health
    BY <1>7, <2>1, Accepted DEF Types
  <2> QED BY <1>5, <1>7, <2>2
<1> QED BY <1>6, <1>7 DEF GrantWish

\* What subscribe() sends to a late subscriber.
ReplayTask(s) ==
  [sub |-> s, res |-> [gen |-> replayState.gen, by |-> 0, mark |-> replayState.mark,
                       load |-> FALSE, sound |-> 0]]

LEMMA ReplayTasksForm ==
    ASSUME Types, NEW s \in Subscriber, Subscribe(s)
    PROVE  /\ ReplayTask(s) \in Task
           /\ \/ replayState.ready /\ deferred' = Append(deferred, ReplayTask(s))
              \/ ~replayState.ready /\ deferred' = deferred
<1>1. replayState.gen \in Nat /\ replayState.mark \in Nat
  BY DEF Types, UiTypes
<1>2. ReplayTask(s) \in Task
  BY <1>1 DEF ReplayTask, Task, Result
<1>3. deferred \in Seq(Task)
  BY DEF Types, UiTypes
<1>4. CASE replayState.ready
  <2>1. deferred' = deferred \o <<ReplayTask(s)>>
    BY <1>4 DEF Subscribe, ReplayTasks, ReplayTask
  <2>2. Append(deferred, ReplayTask(s)) = deferred \o <<ReplayTask(s)>>
    BY <1>2, <1>3, AppendIsConcat
  <2> QED BY <1>2, <1>4, <2>1, <2>2
<1>5. CASE ~replayState.ready
  <2>1. deferred' = deferred \o <<>>
    BY <1>5 DEF Subscribe, ReplayTasks
  <2>2. deferred \o <<>> = deferred
    BY <1>3, ConcatEmptySeq
  <2> QED BY <1>2, <1>5, <2>1, <2>2
<1> QED BY <1>4, <1>5

LEMMA SubscribeStep ==
    ASSUME Types, NEW s \in Subscriber, Subscribe(s) \/ Unsubscribe(s)
    PROVE  Types' /\ OfferStep
<1>1. /\ UNCHANGED <<mailbox, health, stopping, stopped, vm, pool, view, replayState, clients>>
      /\ main = "run"
      /\ subscription' \in [Subscriber -> {"new", "live", "gone"}]
  BY DEF Subscribe, Unsubscribe, Types, UiTypes
<1>2. deferred' \in Seq(Task)
  <2>1. CASE Unsubscribe(s)
    BY <2>1 DEF Unsubscribe, Types, UiTypes
  <2>2. CASE Subscribe(s)
    <3>1. deferred \in Seq(Task)
      BY DEF Types, UiTypes
    <3>2. /\ ReplayTask(s) \in Task
          /\ deferred' = Append(deferred, ReplayTask(s)) \/ deferred' = deferred
      BY <2>2, ReplayTasksForm
    <3>3. Append(deferred, ReplayTask(s)) \in Seq(Task)
      BY <3>1, <3>2, AppendProperties
    <3> QED BY <3>1, <3>2, <3>3
  <2> QED BY <2>1, <2>2
<1>3. UiTypes'
  BY <1>1, <1>2 DEF Types, UiTypes
<1>4. MailTypes' /\ HealthTypes' /\ VmTypes' /\ PoolTypes' /\ ClientTypes'
  BY <1>1, SameTypes
<1>5. Bounds'
  BY <1>1, SameTypes DEF mailbox, clients
<1>6. MailStep
  BY <1>1, QuietMail DEF Types
<1>7. OfferStep
  BY <1>1, <1>6 DEF OfferStep, vm, clients
<1> QED BY <1>3, <1>4, <1>5, <1>7 DEF Types

\* The event loop takes the first of its deferred calls.
LEMMA DeferredHead ==
    ASSUME Types, deferred # <<>>
    PROVE  /\ Head(deferred) \in Task /\ Head(deferred).res \in Result
           /\ Tail(deferred) \in Seq(Task)
           /\ Len(deferred) \in Nat /\ Len(deferred) > 0
           /\ Head(deferred) = deferred[1]
           /\ Len(Tail(deferred)) = Len(deferred) - 1
           /\ \A i \in 1..Len(Tail(deferred)) : Tail(deferred)[i] = deferred[i + 1]
<1>1. deferred \in Seq(Task)
  BY DEF Types, UiTypes
<1>2. /\ Head(deferred) \in Task
      /\ Tail(deferred) \in Seq(Task)
      /\ Len(Tail(deferred)) = Len(deferred) - 1
      /\ \A i \in 1..Len(Tail(deferred)) : Tail(deferred)[i] = deferred[i + 1]
  BY <1>1, HeadTailProperties
<1>3. Len(deferred) \in Nat /\ Len(deferred) > 0
  BY <1>1, EmptySeq, LenProperties
<1>4. Head(deferred).res \in Result
  BY <1>2 DEF Task
<1> QED BY <1>1, <1>2, <1>3, <1>4

LEMMA ShownType ==
    ASSUME NEW old \in [gen : Nat, mark : Nat], NEW res \in Result
    PROVE  Shown(old, res) \in [gen : Nat, mark : Nat]
  BY DEF Shown, Result

LEMMA ReplayStep ==
    ASSUME Types, Replay
    PROVE  Types' /\ OfferStep
<1> DEFINE task == Head(deferred)
<1>1. /\ UNCHANGED <<mailbox, health, stopping, stopped, vm, pool, subscription, replayState,
                     clients>>
      /\ deferred # <<>> /\ deferred' = Tail(deferred)
      /\ view' = IF Outdated(task.res) \/ task.sub \notin Live THEN view
                 ELSE [view EXCEPT ![task.sub] = Shown(@, task.res)]
  BY DEF Replay
<1>2. deferred' \in Seq(Task) /\ task.res \in Result
  BY <1>1, DeferredHead
<1> HIDE DEF task
<1>3. view' \in [Subscriber -> [gen : Nat, mark : Nat]]
  <2>1. view \in [Subscriber -> [gen : Nat, mark : Nat]]
    BY DEF Types, UiTypes
  <2>2. task.sub \in Live => Shown(view[task.sub], task.res) \in [gen : Nat, mark : Nat]
    BY <1>2, <2>1, ShownType DEF Live
  <2> QED BY <1>1, <2>1, <2>2
<1>4. UiTypes'
  BY <1>1, <1>2, <1>3 DEF Types, UiTypes
<1>5. MailTypes' /\ HealthTypes' /\ VmTypes' /\ PoolTypes' /\ ClientTypes'
  BY <1>1, SameTypes
<1>6. Bounds'
  BY <1>1, SameTypes DEF mailbox, clients
<1>7. MailStep
  BY <1>1, QuietMail DEF Types
<1>8. OfferStep
  BY <1>1, <1>7 DEF OfferStep, vm, clients
<1> QED BY <1>4, <1>5, <1>6, <1>8 DEF Types

LEMMA DeliverStep ==
    ASSUME Types, Deliver
    PROVE  Types' /\ OfferStep
<1> DEFINE res == Head(deferred).res
<1>1. /\ UNCHANGED <<stopping, stopped, vm, pool, subscription, clients>>
      /\ deferred # <<>> /\ deferred' = Tail(deferred)
  BY DEF Deliver
<1>2. deferred' \in Seq(Task) /\ res \in Result
  BY <1>1, DeferredHead
<1>3. CASE Outdated(res)
  <2>1. UNCHANGED <<mailbox, health, replayState, view>>
    BY <1>3 DEF Deliver
  <2>2. MailStep
    BY <2>1, QuietMail DEF Types
  <2>3. UiTypes'
    BY <1>1, <1>2, <2>1 DEF Types, UiTypes
  <2> QED BY <1>1, <2>1, <2>2, <2>3, SameTypes DEF Types, OfferStep, vm, clients, mailbox
<1>4. CASE ~Outdated(res)
  <2>1. /\ replayState' = [ready |-> replayState.ready \/ res.load \/ res.mark # 0,
                           gen |-> generation,
                           mark |-> IF res.mark # 0 THEN res.mark ELSE replayState.mark]
        /\ \/ res.sound # 0 /\ Enqueue("Sound", res.sound)
           \/ res.sound = 0 /\ UNCHANGED <<mailbox, health>>
        /\ view' = [s \in Subscriber |-> IF s \in Live THEN Shown(view[s], res) ELSE view[s]]
    BY <1>4 DEF Deliver
  <2> HIDE DEF res
  <2>2. res.load \in BOOLEAN /\ res.mark \in Nat /\ res.sound \in Nat
    BY <1>2 DEF Result
  <2>3. "Sound" \in EventKind \ {"Reload", "Stop"}
    BY DEF EventKind
  <2>4. MailStep /\ UNCHANGED health
    BY <2>1, <2>2, <2>3, Accepted, QuietMail DEF Types
  <2>5. MailTypes' /\ generation' = generation
    BY <2>4 DEF MailStep
  <2>6. view' \in [Subscriber -> [gen : Nat, mark : Nat]]
    <3>1. \A s \in Subscriber : view[s] \in [gen : Nat, mark : Nat]
      BY DEF Types, UiTypes
    <3>2. \A s \in Subscriber : Shown(view[s], res) \in [gen : Nat, mark : Nat]
      BY <1>2, <3>1, ShownType
    <3> QED BY <2>1, <3>1, <3>2
  <2>7. replayState' \in [ready : BOOLEAN, gen : Nat, mark : Nat]
    <3>1. /\ replayState.ready \in BOOLEAN /\ replayState.mark \in Nat
          /\ generation \in Nat
      BY DEF Types, UiTypes, MailTypes
    <3> QED BY <2>1, <2>2, <3>1
  <2>8. UiTypes'
    BY <1>1, <1>2, <2>6, <2>7 DEF Types, UiTypes
  <2>9. HealthTypes' /\ VmTypes' /\ PoolTypes' /\ ClientTypes'
    BY <1>1, <2>4, SameTypes
  <2>10. Bounds'
    BY <1>1, <2>5, SameTypes DEF clients
  <2>11. OfferStep
    BY <1>1, <2>4 DEF OfferStep, vm, clients
  <2> QED BY <2>5, <2>8, <2>9, <2>10, <2>11 DEF Types
<1> QED BY <1>3, <1>4

LEMMA StopReturnStep ==
    ASSUME Types, StopReturn
    PROVE  Types' /\ OfferStep
<1>1. /\ UNCHANGED <<mailbox, health, stopping, stopped, vm, pool, ui, replayState, copied, wish,
                     calls, changes>>
      /\ main = "stopping" /\ main' = "stopped"
  BY DEF StopReturn
<1>2. ClientTypes'
  BY <1>1 DEF Types, ClientTypes
<1>3. MailTypes' /\ HealthTypes' /\ VmTypes' /\ PoolTypes' /\ UiTypes'
  BY <1>1, SameTypes
<1>4. Bounds'
  BY <1>1, SameTypes DEF mailbox
<1>5. MailStep
  BY <1>1, QuietMail DEF Types
<1>6. OfferStep
  BY <1>1, <1>5 DEF OfferStep, vm, ui
<1> QED BY <1>2, <1>3, <1>4, <1>6 DEF Types

\* stop() keeps the types.
LEMMA StopTypes ==
    ASSUME Types, Stop
    PROVE  Types'
<1> DEFINE e == [kind |-> "Stop", gen |-> generation, src |-> 0]
<1>1. /\ main' = "stopping" /\ stopping' = TRUE /\ queue' = <<e>>
      /\ updateQueued' = FALSE /\ scheduled' = TRUE
      /\ unposted' = IF scheduled THEN unposted ELSE unposted + 1
      /\ subscription' = [s \in Subscriber |-> "gone"]
      /\ UNCHANGED <<generation, updateRunning, throttle, health, stopped, vm, pool, deferred, view,
                     replayState, copied, wish, calls, changes>>
  BY DEF Stop, Schedule
<1>2. e \in Item
  BY DEF Item, EventKind, Types, MailTypes
<1> HIDE DEF e
<1>3. MailTypes'
  <2>1. queue' \in Seq(Item)
    BY <1>1, <1>2
  <2>2. unposted' \in Nat
    BY <1>1 DEF Types, MailTypes
  <2>3. scheduled' \in BOOLEAN /\ updateQueued' \in BOOLEAN
    BY <1>1
  <2>4. generation' \in Nat /\ updateRunning' \in BOOLEAN /\ throttle' \in BOOLEAN
    BY <1>1 DEF Types, MailTypes
  <2> QED BY <2>1, <2>2, <2>3, <2>4 DEF MailTypes
<1>4. UiTypes'
  BY <1>1 DEF Types, UiTypes
<1>5. ClientTypes'
  BY <1>1 DEF Types, ClientTypes
<1>6. HealthTypes' /\ VmTypes' /\ PoolTypes' /\ Bounds'
  BY <1>1, SameTypes
<1> QED BY <1>3, <1>4, <1>5, <1>6 DEF Types

\* The post of a drain keeps the types.
LEMMA PostTypes ==
    ASSUME Types, Post
    PROVE  Types'
<1>1. /\ unposted > 0 /\ unposted' = unposted - 1 /\ tasks' = tasks + 1
      /\ UNCHANGED <<queue, generation, scheduled, updateQueued, updateRunning, throttle, health,
                     stopping, stopped, vm, pc, event, outcome, result, ui, replayState, clients>>
  BY DEF Post
<1>2. MailTypes'
  BY <1>1 DEF Types, MailTypes
<1>3. PoolTypes'
  BY <1>1 DEF Types, PoolTypes
<1>4. HealthTypes' /\ VmTypes' /\ UiTypes' /\ ClientTypes'
  BY <1>1, SameTypes
<1>5. Bounds'
  BY <1>1, SameTypes DEF clients
<1> QED BY <1>2, <1>3, <1>4, <1>5 DEF Types

\* A drain goes from place to place.
LEMMA GotoType ==
    ASSUME Types, NEW w \in Worker, NEW next \in Places, Goto(w, next)
    PROVE  pc' \in [Worker -> Places]
  BY DEF Goto, Types, PoolTypes

LEMMA TakeTypes == \A w \in Worker : Types /\ Take(w) => Types'
<1> SUFFICES ASSUME NEW w \in Worker, Types, Take(w) PROVE Types'
  OBVIOUS
<1>1. /\ tasks' \in Nat /\ Goto(w, "top")
      /\ UNCHANGED <<mailbox, health, stopping, stopped, vm, event, outcome, result, ui,
                     replayState, clients>>
  BY DEF Take, Types, PoolTypes
<1>2. pc' \in [Worker -> Places]
  BY <1>1, GotoType DEF Places
<1>3. PoolTypes'
  BY <1>1, <1>2 DEF Types, PoolTypes
<1>4. MailTypes' /\ HealthTypes' /\ VmTypes' /\ UiTypes' /\ ClientTypes'
  BY <1>1, SameTypes
<1>5. Bounds'
  BY <1>1, SameTypes DEF mailbox, clients
<1> QED BY <1>3, <1>4, <1>5 DEF Types

LEMMA DrainEndTypes == \A w \in Worker : Types /\ DrainEnd(w) => Types'
<1> SUFFICES ASSUME NEW w \in Worker, Types, DrainEnd(w) PROVE Types'
  OBVIOUS
<1>1. /\ scheduled' = FALSE /\ Goto(w, "idle")
      /\ event' = [event EXCEPT ![w] = NoEvent]
      /\ UNCHANGED <<queue, generation, updateQueued, updateRunning, throttle, unposted, health,
                     stopping, stopped, vm, tasks, outcome, result, ui, replayState, clients>>
  BY DEF DrainEnd
<1>2. pc' \in [Worker -> Places]
  BY <1>1, GotoType DEF Places
<1>3. event' \in [Worker -> [kind : EventKind \cup {"none"}, gen : Nat, src : Nat]]
  BY <1>1 DEF Types, PoolTypes, NoEvent
<1>4. PoolTypes'
  BY <1>1, <1>2, <1>3 DEF Types, PoolTypes
<1>5. MailTypes'
  BY <1>1 DEF Types, MailTypes
<1>6. HealthTypes' /\ VmTypes' /\ UiTypes' /\ ClientTypes'
  BY <1>1, SameTypes
<1>7. Bounds'
  BY <1>1, SameTypes DEF clients
<1> QED BY <1>4, <1>5, <1>6, <1>7 DEF Types

\* The events of the queue and of a step of drain().
LEMMA QueueHead ==
    ASSUME Types, queue # <<>>
    PROVE  /\ Head(queue) = queue[1] /\ Head(queue) \in Item
           /\ Tail(queue) \in Seq(Item)
           /\ Len(queue) \in Nat /\ Len(queue) > 0
           /\ Len(Tail(queue)) = Len(queue) - 1
           /\ \A i \in 1..Len(Tail(queue)) : Tail(queue)[i] = queue[i + 1]
<1>1. queue \in Seq(Item)
  BY DEF Types, MailTypes
<1>2. /\ Head(queue) \in Item
      /\ Tail(queue) \in Seq(Item)
      /\ Len(Tail(queue)) = Len(queue) - 1
      /\ \A i \in 1..Len(Tail(queue)) : Tail(queue)[i] = queue[i + 1]
  BY <1>1, HeadTailProperties
<1>3. Len(queue) \in Nat /\ Len(queue) > 0
  BY <1>1, EmptySeq, LenProperties
<1> QED BY <1>1, <1>2, <1>3

\* What Pop does, with the event it takes.
LEMMA PopStep ==
    ASSUME Types, NEW w \in Worker, Pop(w), NEW e, e = queue[1]
    PROVE  /\ e \in Item /\ queue # <<>> /\ ~stopped
           /\ queue' \in Seq(Item) /\ Len(queue) \in Nat /\ Len(queue) > 0
           /\ Len(queue') = Len(queue) - 1
           /\ \A i \in 1..Len(queue') : queue'[i] = queue[i + 1]
           /\ event' = [event EXCEPT ![w] = e]
           /\ event'[w] = e /\ \A v \in Worker \ {w} : event'[v] = event[v]
           /\ result' = [result EXCEPT ![w] = NoResult]
           /\ updateQueued' = (updateQueued /\ e.kind # "Update")
           /\ updateRunning' = (updateRunning \/ e.kind = "Update")
           /\ \E step \in FirstSteps(e) : step \in Places /\ Goto(w, step)
<1>1. /\ queue # <<>> /\ ~stopped /\ queue' = Tail(queue)
      /\ event' = [event EXCEPT ![w] = Head(queue)]
      /\ result' = [result EXCEPT ![w] = NoResult]
      /\ updateQueued' = (updateQueued /\ Head(queue).kind # "Update")
      /\ updateRunning' = (updateRunning \/ Head(queue).kind = "Update")
      /\ \E step \in FirstSteps(Head(queue)) : Goto(w, step)
  BY DEF Pop
<1>2. Head(queue) = e
  BY <1>1, QueueHead
<1>3. FirstSteps(e) \subseteq Places
  BY DEF FirstSteps, Places
<1>4. /\ e \in Item /\ queue' \in Seq(Item) /\ Len(queue) \in Nat /\ Len(queue) > 0
      /\ Len(queue') = Len(queue) - 1
      /\ \A i \in 1..Len(queue') : queue'[i] = queue[i + 1]
  BY <1>1, <1>2, QueueHead
<1>5. event'[w] = e /\ \A v \in Worker \ {w} : event'[v] = event[v]
  BY <1>1, <1>2 DEF Types, PoolTypes
<1> QED BY <1>1, <1>2, <1>3, <1>4, <1>5

LEMMA PopTypes == \A w \in Worker : Types /\ Pop(w) => Types'
<1> SUFFICES ASSUME NEW w \in Worker, Types, Pop(w) PROVE Types'
  OBVIOUS
<1> DEFINE e == queue[1]
<1>1. /\ e \in Item /\ queue' \in Seq(Item)
      /\ event' = [event EXCEPT ![w] = e]
      /\ result' = [result EXCEPT ![w] = NoResult]
      /\ updateQueued' = (updateQueued /\ e.kind # "Update")
      /\ updateRunning' = (updateRunning \/ e.kind = "Update")
      /\ \E step \in FirstSteps(e) : step \in Places /\ Goto(w, step)
  BY PopStep
<1>2. UNCHANGED <<generation, scheduled, throttle, unposted, health, stopping, stopped, vm, tasks,
                  outcome, ui, replayState, clients>>
  BY DEF Pop
<1> HIDE DEF e
<1>3. pc' \in [Worker -> Places]
  BY <1>1, GotoType
<1>4. event' \in [Worker -> [kind : EventKind \cup {"none"}, gen : Nat, src : Nat]]
  <2>1. e \in [kind : EventKind \cup {"none"}, gen : Nat, src : Nat]
    BY <1>1 DEF Item
  <2> QED BY <1>1, <2>1 DEF Types, PoolTypes
<1>5. result' \in [Worker -> Result]
  BY <1>1 DEF Types, PoolTypes, NoResult, Result
<1>6. PoolTypes'
  BY <1>2, <1>3, <1>4, <1>5 DEF Types, PoolTypes
<1>7. MailTypes'
  <2>1. updateQueued' \in BOOLEAN /\ updateRunning' \in BOOLEAN
    BY <1>1
  <2> QED BY <1>1, <1>2, <2>1 DEF Types, MailTypes
<1>8. HealthTypes' /\ VmTypes' /\ UiTypes' /\ ClientTypes'
  BY <1>2, SameTypes
<1>9. Bounds'
  BY <1>2, SameTypes DEF clients
<1> QED BY <1>6, <1>7, <1>8, <1>9 DEF Types

LEMMA TearDownTypes == \A w \in Worker : Types /\ TearDown(w) => Types'
<1> SUFFICES ASSUME NEW w \in Worker, Types, TearDown(w) PROVE Types'
  OBVIOUS
<1>1. /\ Goto(w, "reset") /\ (watchers' = {} \/ watchers' = {host.id})
      /\ UNCHANGED <<mailbox, health, stopping, stopped, host, hosts, settingDependencies,
                     hasOnConfigChanged, asked, marks, tasks, event, outcome, result, ui,
                     replayState, clients>>
  BY DEF TearDown
<1>2. pc' \in [Worker -> Places]
  BY <1>1, GotoType DEF Places
<1>3. PoolTypes'
  BY <1>1, <1>2 DEF Types, PoolTypes
<1>4. VmTypes'
  <2>1. host.id \in Nat
    BY DEF Types, VmTypes
  <2> QED BY <1>1, <2>1 DEF Types, VmTypes
<1>5. MailTypes' /\ HealthTypes' /\ UiTypes' /\ ClientTypes'
  BY <1>1, SameTypes
<1>6. Bounds'
  BY <1>1, SameTypes DEF mailbox, clients
<1> QED BY <1>3, <1>4, <1>5, <1>6 DEF Types

\* What ResetHost does for the two events that end a VM.
LEMMA ResetHostStep ==
    ASSUME Types, NEW w \in Worker, ResetHost(w)
    PROVE  /\ watchers' = {} /\ hosts' \in Nat
           /\ settingDependencies' \in BOOLEAN
           /\ host' \in [id : Nat, gen : Nat, watching : BOOLEAN, handler : BOOLEAN]
           /\ \/ event[w].kind = "Stop" /\ host' = NoHost /\ Goto(w, "halt")
              \/ /\ event[w].kind # "Stop" /\ Goto(w, "load")
                 /\ host'.gen = event[w].gen
<1>1. event[w].gen \in Nat /\ hosts \in Nat /\ hosts + 1 \in Nat
  BY DEF Types, VmTypes, PoolTypes
<1>2. watchers' = {}
  BY DEF ResetHost, RemoveWatchers
<1>3. CASE event[w].kind = "Stop"
  <2>1. host' = NoHost /\ Goto(w, "halt") /\ UNCHANGED <<hosts, settingDependencies>>
    BY <1>3 DEF ResetHost
  <2> QED BY <1>1, <1>2, <1>3, <2>1 DEF NoHost, Types, VmTypes
<1>4. CASE event[w].kind # "Stop"
  <2>1. /\ hosts' = hosts + 1 /\ settingDependencies' = FALSE /\ Goto(w, "load")
        /\ \E handler \in Handlers :
               host' = [id |-> hosts + 1, gen |-> event[w].gen, watching |-> FALSE,
                        handler |-> handler]
    BY <1>4 DEF ResetHost
  <2>2. Handlers \subseteq BOOLEAN
    BY ScriptRuntimeAssumption
  <2>3. PICK handler \in BOOLEAN :
               host' = [id |-> hosts + 1, gen |-> event[w].gen, watching |-> FALSE,
                        handler |-> handler]
    BY <2>1, <2>2
  <2> QED BY <1>1, <1>2, <1>4, <2>1, <2>3
<1> QED BY <1>3, <1>4

LEMMA ResetHostTypes == \A w \in Worker : Types /\ ResetHost(w) => Types'
<1> SUFFICES ASSUME NEW w \in Worker, Types, ResetHost(w) PROVE Types'
  OBVIOUS
<1>1. /\ watchers' = {} /\ hosts' \in Nat
      /\ settingDependencies' \in BOOLEAN
      /\ host' \in [id : Nat, gen : Nat, watching : BOOLEAN, handler : BOOLEAN]
      /\ Goto(w, "halt") \/ Goto(w, "load")
  BY ResetHostStep
<1>2. UNCHANGED <<mailbox, health, stopping, stopped, hasOnConfigChanged, asked, marks, tasks,
                  event, outcome, result, ui, replayState, clients>>
  BY DEF ResetHost
<1>3. pc' \in [Worker -> Places]
  BY <1>1, GotoType DEF Places
<1>4. PoolTypes'
  BY <1>2, <1>3 DEF Types, PoolTypes
<1>5. VmTypes'
  BY <1>1, <1>2 DEF Types, VmTypes
<1>6. MailTypes' /\ HealthTypes' /\ UiTypes' /\ ClientTypes'
  BY <1>2, SameTypes
<1>7. Bounds'
  BY <1>2, SameTypes DEF mailbox, clients
<1> QED BY <1>4, <1>5, <1>6, <1>7 DEF Types

\* What one call into a script leaves in the result of its step of drain().
LEMMA RunScriptStep ==
    ASSUME Types, NEW w \in Worker, RunScript(w)
    PROVE  \E o \in Outcome, r \in Result :
             /\ outcome' = [outcome EXCEPT ![w] = o]
             /\ result' = [result EXCEPT ![w] = r]
             /\ r.gen = event[w].gen /\ r.by = host.gen
             /\ \/ marks' = marks + 1 /\ r.mark = marks + 1
                \/ marks' = marks /\ r.mark = result[w].mark
             /\ host' \in [id : Nat, gen : Nat, watching : BOOLEAN, handler : BOOLEAN]
             /\ host'.id = host.id /\ host'.gen = host.gen
             /\ watchers' \in SUBSET Nat /\ asked' \in SUBSET Nat
             /\ settingDependencies' \in BOOLEAN
<1>1. PICK s \in Script :
        /\ outcome' = [outcome EXCEPT ![w] = s.outcome]
        /\ watchers' = IF s.watches THEN watchers \cup {host.id} ELSE watchers
        /\ host' = [host EXCEPT !.watching = @ \/ s.watches]
        /\ asked' = IF s.asks THEN asked \cup {host.id} ELSE asked
        /\ settingDependencies' = (settingDependencies \/ s.reads)
        /\ marks' = IF s.patches THEN marks + 1 ELSE marks
        /\ result' = [result EXCEPT ![w] =
             [gen |-> Label(w), by |-> host.gen, load |-> event[w].kind = "Reload",
              mark |-> IF s.patches THEN marks + 1 ELSE @.mark,
              sound |-> IF s.sounds /\ event[w].kind # "Sound" THEN host.id ELSE @.sound]]
  BY DEF RunScript
<1>2. s \in Behaviour
  BY ScriptRuntimeAssumption
<1>3. s.outcome \in Outcome /\ s.watches \in BOOLEAN /\ s.reads \in BOOLEAN
  BY <1>2 DEF Behaviour
<1>4. /\ host \in [id : Nat, gen : Nat, watching : BOOLEAN, handler : BOOLEAN]
      /\ host.id \in Nat /\ host.gen \in Nat /\ host.watching \in BOOLEAN
      /\ marks \in Nat /\ watchers \in SUBSET Nat /\ asked \in SUBSET Nat
      /\ settingDependencies \in BOOLEAN
  BY DEF Types, VmTypes
<1>5. /\ result \in [Worker -> Result] /\ result[w].mark \in Nat /\ result[w].sound \in Nat
      /\ event[w].gen \in Nat
  BY DEF Types, PoolTypes, Result
<1> DEFINE r == [gen |-> event[w].gen, by |-> host.gen, load |-> event[w].kind = "Reload",
                 mark |-> IF s.patches THEN marks + 1 ELSE result[w].mark,
                 sound |-> IF s.sounds /\ event[w].kind # "Sound" THEN host.id
                           ELSE result[w].sound]
<1>6. r \in Result
  BY <1>4, <1>5 DEF Result
<1>7. result' = [result EXCEPT ![w] = r]
  BY <1>1, <1>5 DEF Label
<1>8. /\ host' \in [id : Nat, gen : Nat, watching : BOOLEAN, handler : BOOLEAN]
      /\ host'.id = host.id /\ host'.gen = host.gen
  BY <1>1, <1>3, <1>4
<1>9. /\ watchers' \in SUBSET Nat /\ asked' \in SUBSET Nat
      /\ settingDependencies' \in BOOLEAN
  BY <1>1, <1>3, <1>4
<1>10. \/ marks' = marks + 1 /\ r.mark = marks + 1
       \/ marks' = marks /\ r.mark = result[w].mark
  BY <1>1
<1>11. r.gen = event[w].gen /\ r.by = host.gen
  OBVIOUS
<1> HIDE DEF r
<1> QED BY <1>1, <1>3, <1>6, <1>7, <1>8, <1>9, <1>10, <1>11

LEMMA RunScriptTypes == \A w \in Worker : Types /\ RunScript(w) => Types'
<1> SUFFICES ASSUME NEW w \in Worker, Types, RunScript(w) PROVE Types'
  OBVIOUS
<1>1. PICK o \in Outcome, r \in Result :
             /\ outcome' = [outcome EXCEPT ![w] = o]
             /\ result' = [result EXCEPT ![w] = r]
             /\ marks' = marks + 1 \/ marks' = marks
             /\ host' \in [id : Nat, gen : Nat, watching : BOOLEAN, handler : BOOLEAN]
             /\ watchers' \in SUBSET Nat /\ asked' \in SUBSET Nat
             /\ settingDependencies' \in BOOLEAN
  BY RunScriptStep
<1>2. /\ UNCHANGED <<mailbox, health, stopping, stopped, hosts, hasOnConfigChanged, tasks, event,
                     ui, replayState, clients>>
      /\ Goto(w, "loaded") \/ Goto(w, "health")
  BY DEF RunScript
<1>3. pc' \in [Worker -> Places]
  BY <1>2, GotoType DEF Places
<1>4. outcome' \in [Worker -> Outcome] /\ result' \in [Worker -> Result]
  BY <1>1 DEF Types, PoolTypes
<1>5. PoolTypes'
  BY <1>2, <1>3, <1>4 DEF Types, PoolTypes
<1>6. VmTypes'
  BY <1>1, <1>2 DEF Types, VmTypes
<1>7. MailTypes' /\ HealthTypes' /\ UiTypes' /\ ClientTypes'
  BY <1>2, SameTypes
<1>8. Bounds'
  BY <1>2, SameTypes DEF mailbox, clients
<1> QED BY <1>5, <1>6, <1>7, <1>8 DEF Types

\* The histories grow by one entry at most.
LEMMA RememberedType ==
    ASSUME NEW n \in Nat, NEW m \in Remembered(n)
    PROVE  m \in Nat /\ m <= n + 1
  BY DEF Remembered

\* What updateHealth() does to the counters.
LEMMA HealthStep ==
    ASSUME Types, NEW w \in Worker, Health(w)
    PROVE  /\ consecutiveTimeouts' \in Nat /\ timeoutHistory' \in Nat /\ errorHistory' \in Nat
           /\ consecutiveTimeouts' <= consecutiveTimeouts + 1
           /\ timeoutHistory' <= timeoutHistory + 1
           /\ errorHistory' <= errorHistory + 1
           /\ outcome[w] = "ok" => /\ consecutiveTimeouts' <= consecutiveTimeouts
                                   /\ timeoutHistory' = timeoutHistory
                                   /\ errorHistory' = errorHistory
           /\ unhealthy' \in BOOLEAN
           /\ unhealthy' => \/ unhealthy
                            \/ consecutiveTimeouts' >= MaxConsecutive
                            \/ timeoutHistory' >= MaxTimeouts
                            \/ errorHistory' >= MaxErrors
<1>1. /\ consecutiveTimeouts \in Nat /\ timeoutHistory \in Nat /\ errorHistory \in Nat
      /\ unhealthy \in BOOLEAN
  BY DEF Types, HealthTypes
<1>2. CASE outcome[w] = "timeout"
  <2>1. /\ consecutiveTimeouts' = consecutiveTimeouts + 1
        /\ timeoutHistory' \in Remembered(timeoutHistory)
        /\ unhealthy' = (\/ unhealthy
                         \/ consecutiveTimeouts' >= MaxConsecutive
                         \/ timeoutHistory' >= MaxTimeouts)
        /\ UNCHANGED errorHistory
    BY <1>2 DEF Health
  <2>2. timeoutHistory' \in Nat /\ timeoutHistory' <= timeoutHistory + 1
    BY <1>1, <2>1, RememberedType
  <2> QED BY <1>1, <1>2, <2>1, <2>2
<1>3. CASE outcome[w] # "timeout"
  <2>1. /\ consecutiveTimeouts' = 0
        /\ IF outcome[w] = "error"
           THEN errorHistory' \in Remembered(errorHistory)
           ELSE UNCHANGED errorHistory
        /\ unhealthy' = (unhealthy \/ (outcome[w] = "error" /\ errorHistory' >= MaxErrors))
        /\ UNCHANGED timeoutHistory
    BY <1>3 DEF Health
  <2>2. errorHistory' \in Nat /\ errorHistory' <= errorHistory + 1
    <3>1. CASE outcome[w] = "error"
      BY <1>1, <2>1, <3>1, RememberedType
    <3>2. CASE outcome[w] # "error"
      BY <1>1, <2>1, <3>2
    <3> QED BY <3>1, <3>2
  <2>3. outcome[w] = "ok" => errorHistory' = errorHistory
    BY <2>1
  <2>4. unhealthy' \in BOOLEAN
    BY <2>1
  <2>5. unhealthy' => unhealthy \/ errorHistory' >= MaxErrors
    BY <2>1
  <2> QED BY <1>1, <2>1, <2>2, <2>3, <2>4, <2>5
<1> QED BY <1>2, <1>3

LEMMA HealthStepTypes == \A w \in Worker : Types /\ Health(w) => Types'
<1> SUFFICES ASSUME NEW w \in Worker, Types, Health(w) PROVE Types'
  OBVIOUS
<1>1. /\ UNCHANGED <<mailbox, stopping, stopped, vm, tasks, event, outcome, result, ui,
                     replayState, clients>>
      /\ Goto(w, "update") \/ Goto(w, "publish") \/ Goto(w, "finish")
      /\ blamed' = IF outcome[w] # "ok" /\ result[w].gen = generation THEN blamed + 1 ELSE blamed
  BY DEF Health
<1>2. pc' \in [Worker -> Places]
  BY <1>1, GotoType DEF Places
<1>3. PoolTypes'
  BY <1>1, <1>2 DEF Types, PoolTypes
<1>4. HealthTypes'
  <2>1. blamed' \in Nat
    BY <1>1 DEF Types, HealthTypes
  <2> QED BY <2>1, HealthStep DEF HealthTypes
<1>5. MailTypes' /\ VmTypes' /\ UiTypes' /\ ClientTypes'
  BY <1>1, SameTypes
<1>6. Bounds'
  BY <1>1, SameTypes DEF mailbox, clients
<1> QED BY <1>3, <1>4, <1>5, <1>6 DEF Types

LEMMA PublishTypes == \A w \in Worker : Types /\ Publish(w) => Types'
<1> SUFFICES ASSUME NEW w \in Worker, Types, Publish(w) PROVE Types'
  OBVIOUS
<1>1. /\ hasOnConfigChanged' = host.handler /\ Goto(w, "finish")
      /\ UNCHANGED <<mailbox, health, stopping, stopped, host, hosts, watchers,
                     settingDependencies, asked, marks, tasks, event, outcome, result, ui,
                     replayState, clients>>
  BY DEF Publish
<1>2. pc' \in [Worker -> Places]
  BY <1>1, GotoType DEF Places
<1>3. PoolTypes'
  BY <1>1, <1>2 DEF Types, PoolTypes
<1>4. VmTypes'
  BY <1>1 DEF Types, VmTypes
<1>5. MailTypes' /\ HealthTypes' /\ UiTypes' /\ ClientTypes'
  BY <1>1, SameTypes
<1>6. Bounds'
  BY <1>1, SameTypes DEF mailbox, clients
<1> QED BY <1>3, <1>4, <1>5, <1>6 DEF Types

LEMMA FinishTypes == \A w \in Worker : Types /\ Finish(w) => Types'
<1> SUFFICES ASSUME NEW w \in Worker, Types, Finish(w) PROVE Types'
  OBVIOUS
<1>1. /\ updateRunning' \in BOOLEAN /\ (Goto(w, "top") \/ Goto(w, "post"))
      /\ UNCHANGED <<queue, generation, scheduled, updateQueued, throttle, unposted, health,
                     stopping, stopped, vm, tasks, event, outcome, result, ui, replayState,
                     clients>>
  BY DEF Finish
<1>2. pc' \in [Worker -> Places]
  BY <1>1, GotoType DEF Places
<1>3. PoolTypes'
  BY <1>1, <1>2 DEF Types, PoolTypes
<1>4. MailTypes'
  BY <1>1 DEF Types, MailTypes
<1>5. HealthTypes' /\ VmTypes' /\ UiTypes' /\ ClientTypes'
  BY <1>1, SameTypes
<1>6. Bounds'
  BY <1>1, SameTypes DEF clients
<1> QED BY <1>3, <1>4, <1>5, <1>6 DEF Types

\* The result on its way to the main thread.
LEMMA PostResultStep ==
    ASSUME Types, NEW w \in Worker, PostResult(w)
    PROVE  /\ [sub |-> All, res |-> result[w]] \in Task
           /\ deferred \in Seq(Task)
           /\ deferred' = Append(deferred, [sub |-> All, res |-> result[w]])
  BY DEF PostResult, Types, PoolTypes, UiTypes, Task

LEMMA PostResultTypes == \A w \in Worker : Types /\ PostResult(w) => Types'
<1> SUFFICES ASSUME NEW w \in Worker, Types, PostResult(w) PROVE Types'
  OBVIOUS
<1>1. /\ result' = [result EXCEPT ![w] = NoResult] /\ outcome' = [outcome EXCEPT ![w] = "ok"]
      /\ Goto(w, "top")
      /\ UNCHANGED <<mailbox, health, stopping, stopped, vm, tasks, event, subscription, view,
                     replayState, clients>>
  BY DEF PostResult
<1>2. pc' \in [Worker -> Places]
  BY <1>1, GotoType DEF Places
<1>3. PoolTypes'
  BY <1>1, <1>2 DEF Types, PoolTypes, NoResult, Result, Outcome
<1>4. deferred' \in Seq(Task)
  BY PostResultStep, AppendProperties
<1>5. UiTypes'
  BY <1>1, <1>4 DEF Types, UiTypes
<1>6. MailTypes' /\ HealthTypes' /\ VmTypes' /\ ClientTypes'
  BY <1>1, SameTypes
<1>7. Bounds'
  BY <1>1, SameTypes DEF mailbox, clients
<1> QED BY <1>3, <1>5, <1>6, <1>7 DEF Types

LEMMA HaltTypes == \A w \in Worker : Types /\ Halt(w) => Types'
<1> SUFFICES ASSUME NEW w \in Worker, Types, Halt(w) PROVE Types'
  OBVIOUS
<1>1. /\ queue' = <<>> /\ stopped' = TRUE /\ scheduled' = FALSE /\ Goto(w, "idle")
      /\ event' = [event EXCEPT ![w] = NoEvent]
      /\ UNCHANGED <<generation, updateQueued, updateRunning, throttle, unposted, health, stopping,
                     vm, tasks, outcome, result, ui, replayState, clients>>
  BY DEF Halt
<1>2. pc' \in [Worker -> Places]
  BY <1>1, GotoType DEF Places
<1>3. event' \in [Worker -> [kind : EventKind \cup {"none"}, gen : Nat, src : Nat]]
  BY <1>1 DEF Types, PoolTypes, NoEvent
<1>4. PoolTypes'
  BY <1>1, <1>2, <1>3 DEF Types, PoolTypes
<1>5. MailTypes'
  BY <1>1, EmptySeq DEF Types, MailTypes
<1>6. ClientTypes'
  BY <1>1 DEF Types, ClientTypes, clients
<1>7. HealthTypes' /\ VmTypes' /\ UiTypes'
  BY <1>1, SameTypes
<1>8. Bounds'
  BY <1>1, SameTypes DEF clients
<1> QED BY <1>4, <1>5, <1>6, <1>7, <1>8 DEF Types

\* Every step is of one of five classes, and keeps the types.
StepClass == OfferStep \/ LoadStep \/ Stop \/ Post \/ \E w \in Worker : Drain(w)

LEMMA NextClass == Types /\ Next => Types' /\ StepClass
<1> SUFFICES ASSUME Types, Next PROVE Types' /\ StepClass
  OBVIOUS
<1>1. ASSUME NEW kind \in Kinds, Client(kind) PROVE Types' /\ StepClass
  BY <1>1, ClientStep DEF StepClass
<1>2. ASSUME NEW h \in asked, AsyncDone(h) PROVE Types' /\ StepClass
  BY <1>2, AsyncDoneStep DEF StepClass
<1>3. ASSUME NEW h \in copied, Notify(h) PROVE Types' /\ StepClass
  BY <1>3, NotifyStep DEF StepClass
<1>4. ASSUME NEW s \in Subscriber, Subscribe(s) \/ Unsubscribe(s) PROVE Types' /\ StepClass
  BY <1>4, SubscribeStep DEF StepClass
<1>5. CASE Reload
  BY <1>5, ReloadStep DEF StepClass
<1>6. CASE StateSet
  BY <1>6, StateSetStep DEF StepClass
<1>7. CASE ConfigChange
  BY <1>7, ConfigChangeStep DEF StepClass
<1>8. CASE Stop
  BY <1>8, StopTypes DEF StepClass
<1>9. Environment => Types' /\ StepClass
  BY <1>1, <1>2, <1>3, <1>4, <1>5, <1>6, <1>7, <1>8 DEF Environment
<1>10. MainLoop => Types' /\ StepClass
  BY GrantWishStep, ReplayStep, DeliverStep, StopReturnStep DEF MainLoop, StepClass
<1>11. Post => Types' /\ StepClass
  BY PostTypes DEF StepClass
<1>12. ASSUME NEW w \in Worker, Drain(w) PROVE Types' /\ StepClass
  <2>1. Types'
    BY <1>12, TakeTypes, DrainEndTypes, PopTypes, TearDownTypes, ResetHostTypes, RunScriptTypes,
       HealthStepTypes, PublishTypes, FinishTypes, PostResultTypes, HaltTypes DEF Drain
  <2> QED BY <1>12, <2>1 DEF StepClass
<1> QED BY <1>9, <1>10, <1>11, <1>12 DEF Next

LEMMA StutterTypes == Types /\ UNCHANGED vars => Types'
<1> SUFFICES ASSUME Types, UNCHANGED vars PROVE Types'
  OBVIOUS
<1>1. /\ UNCHANGED mailbox /\ UNCHANGED health /\ UNCHANGED vm /\ UNCHANGED pool
      /\ UNCHANGED ui /\ UNCHANGED replayState
      /\ UNCHANGED <<stopping, stopped, clients>>
  BY DEF vars
<1>2. UNCHANGED <<wish, generation>>
  BY <1>1 DEF clients, mailbox
<1> QED BY <1>1, <1>2, SameTypes DEF Types

LEMMA TypesAlways == Spec => []Types
<1>1. Types /\ [Next]_vars => Types'
  BY NextClass, StutterTypes
<1> QED BY <1>1, InitTypes, PTL DEF Spec

\* Every variable keeps its type, whatever is offered, loaded or stopped in the middle
\* of a drain: enqueue(), drain() and the deferred calls work on the same fields.
THEOREM TypeCorrect == Spec => []TypeOK
<1>1. Types => TypeOK
  BY TypesAreTypeOK
<1> QED BY <1>1, TypesAlways, PTL

-----------------------------------------------------------------------------
(* One drain, and the end of the runtime.                                  *)

AllIdle == \A w \in Worker : pc[w] = "idle"
Sole(w) == pc[w] # "idle" /\ \A v \in Worker \ {w} : pc[v] = "idle"

\* OneDrain without a cardinality: where the one drain is.
OneDrainAt ==
  /\ \/ ~scheduled /\ unposted = 0 /\ tasks = 0 /\ AllIdle
     \/ scheduled /\ unposted = 1 /\ tasks = 0 /\ AllIdle
     \/ scheduled /\ unposted = 0 /\ tasks = 1 /\ AllIdle
     \/ scheduled /\ unposted = 0 /\ tasks = 0 /\ \E w \in Worker : Sole(w)
  /\ queue # <<>> => scheduled

\* What stop() leaves for the drain, and what the drain leaves behind.
Ending ==
  /\ stopping <=> main # "run"
  /\ stopped => stopping /\ ~scheduled /\ queue = <<>>
  /\ ~stopping => NoStop(queue) /\ \A w \in Worker : event[w].kind # "Stop"
  /\ stopping => Live = {}
  /\ stopping => Len(queue) = 0 \/ (Len(queue) = 1 /\ queue[1].kind = "Stop")
  /\ \A w \in Worker : event[w].kind = "Stop" => queue = <<>>
  /\ \A w \in Worker : pc[w] = "halt" => event[w].kind = "Stop"
  /\ stopped \/ (\E w \in Worker : pc[w] = "halt") => host = NoHost /\ watchers = {}

Core == Types /\ OneDrainAt /\ Ending /\ Flags(queue, updateQueued)

LEMMA EmptyQueue ==
    ASSUME Types
    PROVE  Len(queue) \in Nat /\ (queue = <<>> <=> Len(queue) = 0)
<1>1. queue \in Seq(Item)
  BY DEF Types, MailTypes
<1> QED BY <1>1, EmptySeq, LenProperties

\* A thread that drains is the only one, and no other drain is on its way.
LEMMA Alone ==
    ASSUME Types, OneDrainAt, NEW w \in Worker, pc[w] # "idle"
    PROVE  /\ scheduled /\ unposted = 0 /\ tasks = 0
           /\ \A v \in Worker \ {w} : pc[v] = "idle"
  BY DEF OneDrainAt, AllIdle, Sole

LEMMA OneDrainAtIsOneDrain == Types /\ OneDrainAt => OneDrain
<1> SUFFICES ASSUME Types, OneDrainAt PROVE OneDrain
  OBVIOUS
<1>1. unposted \in Nat /\ tasks \in Nat /\ scheduled \in BOOLEAN
  BY DEF Types, MailTypes, PoolTypes
<1>2. AllIdle => Cardinality(Draining) = 0
  <2>1. AllIdle => Draining = {}
    BY DEF AllIdle, Draining
  <2> QED BY <2>1, FS_EmptySet
<1>3. ASSUME NEW w \in Worker, Sole(w) PROVE Cardinality(Draining) = 1
  <2>1. Draining = {w}
    BY <1>3 DEF Sole, Draining
  <2> QED BY <2>1, FS_Singleton
<1> HIDE DEF Draining
<1>4. unposted + tasks + Cardinality(Draining) = IF scheduled THEN 1 ELSE 0
  <2>1. CASE ~scheduled /\ unposted = 0 /\ tasks = 0 /\ AllIdle
    BY <2>1, <1>2
  <2>2. CASE scheduled /\ unposted = 1 /\ tasks = 0 /\ AllIdle
    BY <2>2, <1>2
  <2>3. CASE scheduled /\ unposted = 0 /\ tasks = 1 /\ AllIdle
    BY <2>3, <1>2
  <2>4. CASE scheduled /\ unposted = 0 /\ tasks = 0 /\ \E w \in Worker : Sole(w)
    BY <2>4, <1>3
  <2> QED BY <2>1, <2>2, <2>3, <2>4 DEF OneDrainAt
<1> QED BY <1>4 DEF OneDrain, OneDrainAt

LEMMA FlagsAreExact == Types /\ Flags(queue, updateQueued) => UpdateFlagExact
<1> SUFFICES ASSUME Types, Flags(queue, updateQueued) PROVE UpdateFlagExact
  OBVIOUS
<1> DEFINE U == {i \in DOMAIN queue : queue[i].kind = "Update"}
<1>1. DOMAIN queue = 1..Len(queue) /\ updateQueued \in BOOLEAN
  BY LenProperties DEF Types, MailTypes
<1>2. updateQueued = (\E i \in DOMAIN queue : queue[i].kind = "Update")
  <2>1. updateQueued <=> (\E i \in DOMAIN queue : queue[i].kind = "Update")
    BY <1>1 DEF Flags
  <2> QED BY <1>1, <2>1
<1>3. \A i, j \in U : i = j
  BY <1>1 DEF Flags
<1> HIDE DEF U
<1>4. Cardinality(U) <= 1
  <2>1. CASE U = {}
    BY <2>1, FS_EmptySet
  <2>2. CASE U # {}
    <3>1. PICK i \in U : U = {i}
      BY <2>2, <1>3
    <3>2. Cardinality(U) = 1
      BY <3>1, FS_Singleton
    <3> QED BY <3>2
  <2> QED BY <2>1, <2>2
<1> QED BY <1>2, <1>4 DEF UpdateFlagExact, U

LEMMA EndingIsSilent == Core => StoppedIsSilent
<1> SUFFICES ASSUME Core, stopped PROVE StoppedIsSilent
  BY DEF StoppedIsSilent
<1>1. queue = <<>> /\ host = NoHost /\ watchers = {} /\ Live = {} /\ ~scheduled
  BY DEF Core, Ending
<1>2. \A w \in Worker : pc[w] = "idle"
  BY <1>1 DEF Core, OneDrainAt, AllIdle
<1> QED BY <1>1, <1>2 DEF StoppedIsSilent

LEMMA InitCore == Init => Core
<1> SUFFICES ASSUME Init PROVE Core
  OBVIOUS
<1>1. Types
  BY InitTypes
<1>2. queue = <<>> /\ Len(queue) = 0
  BY <1>1, EmptyQueue DEF Init
<1>3. OneDrainAt
  BY <1>2 DEF Init, OneDrainAt, AllIdle
<1>4. Ending
  BY <1>2 DEF Init, Ending, NoStop, NoEvent
<1>5. Flags(queue, updateQueued)
  BY <1>2 DEF Init, Flags
<1> QED BY <1>1, <1>3, <1>4, <1>5 DEF Core

\* The subscriptions of a stopping runtime are left alone, so none comes to life.
LEMMA OfferCore == Core /\ OfferStep /\ Types' => Core'
<1> SUFFICES ASSUME Core, OfferStep, Types' PROVE Core'
  OBVIOUS
<1>1. /\ MailStep
      /\ UNCHANGED <<health, stopping, stopped, host, hosts, watchers, marks>>
      /\ UNCHANGED <<tasks, pc, event, outcome, result>>
      /\ main' = main \/ (main = "stopping" /\ main' = "stopped")
      /\ main # "run" => UNCHANGED subscription
  BY DEF OfferStep, pool
<1>2. Types /\ OneDrainAt /\ Ending /\ Flags(queue, updateQueued)
  BY DEF Core
<1>3. /\ \/ /\ scheduled'
            /\ unposted' = IF scheduled THEN unposted ELSE unposted + 1
         \/ /\ scheduled' = scheduled /\ unposted' = unposted
            /\ queue = <<>> => queue' = <<>>
      /\ NoStop(queue) => NoStop(queue')
      /\ Flags(queue, updateQueued) => Flags(queue', updateQueued')
      /\ stopping => UNCHANGED mailbox
  BY <1>1 DEF MailStep
<1>4. OneDrainAt'
  <2>1. AllIdle' = AllIdle /\ \A w \in Worker : Sole(w)' = Sole(w)
    BY <1>1 DEF AllIdle, Sole
  <2>2. CASE /\ scheduled'
             /\ unposted' = IF scheduled THEN unposted ELSE unposted + 1
    BY <2>1, <2>2, <1>1, <1>2 DEF OneDrainAt
  <2>3. CASE /\ scheduled' = scheduled /\ unposted' = unposted
             /\ queue = <<>> => queue' = <<>>
    BY <2>1, <2>3, <1>1, <1>2 DEF OneDrainAt
  <2> QED BY <1>3, <2>2, <2>3
<1>5. Ending'
  <2>1. CASE stopping
    <3>1. UNCHANGED <<queue, scheduled, subscription>>
      BY <2>1, <1>1, <1>2, <1>3 DEF Ending, mailbox
    <3>2. Live' = Live
      BY <3>1 DEF Live
    <3> QED BY <2>1, <3>1, <3>2, <1>1, <1>2 DEF Ending
  <2>2. CASE ~stopping
    BY <2>2, <1>1, <1>2, <1>3 DEF Ending
  <2> QED BY <2>1, <2>2
<1>6. Flags(queue, updateQueued)'
  BY <1>2, <1>3
<1> QED BY <1>4, <1>5, <1>6 DEF Core

LEMMA LoadCore == Core /\ LoadStep /\ Types' => Core'
<1> SUFFICES ASSUME Core, LoadStep, Types' PROVE Core'
  OBVIOUS
<1>1. /\ queue' = <<[kind |-> "Reload", gen |-> generation + 1, src |-> 0]>>
      /\ updateQueued' = FALSE /\ scheduled' = TRUE /\ ~stopping
      /\ unposted' = IF scheduled THEN unposted ELSE unposted + 1
      /\ UNCHANGED <<stopping, stopped, host, watchers, main>>
      /\ UNCHANGED <<tasks, pc, event, outcome, result>>
  BY DEF LoadStep, PushReload, Schedule, Refused, pool
<1>2. Types /\ OneDrainAt /\ Ending
  BY DEF Core
<1>3. Len(queue') = 1 /\ queue'[1].kind = "Reload"
  BY <1>1
<1>4. OneDrainAt'
  <2>1. AllIdle' = AllIdle /\ \A w \in Worker : Sole(w)' = Sole(w)
    BY <1>1 DEF AllIdle, Sole
  <2> QED BY <2>1, <1>1, <1>2 DEF OneDrainAt
<1>5. Flags(queue', updateQueued')
  BY <1>1, <1>3 DEF Flags
<1>6. Ending'
  BY <1>1, <1>2, <1>3 DEF Ending, NoStop
<1> QED BY <1>4, <1>5, <1>6 DEF Core

LEMMA StopCore == Core /\ Stop /\ Types' => Core'
<1> SUFFICES ASSUME Core, Stop, Types' PROVE Core'
  OBVIOUS
<1>1. /\ queue' = <<[kind |-> "Stop", gen |-> generation, src |-> 0]>>
      /\ updateQueued' = FALSE /\ scheduled' = TRUE /\ stopping' = TRUE
      /\ main = "run" /\ main' = "stopping"
      /\ subscription' = [s \in Subscriber |-> "gone"]
      /\ unposted' = IF scheduled THEN unposted ELSE unposted + 1
      /\ UNCHANGED <<stopped, host, watchers, tasks, pc, event>>
  BY DEF Stop, Schedule, pool, vm
<1>2. Types /\ OneDrainAt /\ Ending
  BY DEF Core
<1>3. Len(queue') = 1 /\ queue'[1].kind = "Stop"
  BY <1>1
<1>4. OneDrainAt'
  <2>1. AllIdle' = AllIdle /\ \A w \in Worker : Sole(w)' = Sole(w)
    BY <1>1 DEF AllIdle, Sole
  <2> QED BY <2>1, <1>1, <1>2 DEF OneDrainAt
<1>5. Flags(queue', updateQueued')
  BY <1>1, <1>3 DEF Flags
<1>6. Ending'
  <2>1. Live' = {}
    BY <1>1 DEF Live
  <2>2. ~stopping /\ ~stopped /\ \A w \in Worker : event[w].kind # "Stop" /\ pc[w] # "halt"
    BY <1>1, <1>2 DEF Ending
  <2> QED BY <2>1, <2>2, <1>1, <1>3 DEF Ending
<1> QED BY <1>4, <1>5, <1>6 DEF Core

LEMMA PostCore == Core /\ Post /\ Types' => Core'
<1> SUFFICES ASSUME Core, Post, Types' PROVE Core'
  OBVIOUS
<1>1. /\ unposted > 0 /\ unposted' = unposted - 1 /\ tasks' = tasks + 1
      /\ UNCHANGED <<queue, scheduled, updateQueued, pc, event, stopping, stopped, host, watchers,
                     main, subscription>>
  BY DEF Post, vm, ui, clients
<1>2. Types /\ OneDrainAt /\ Ending /\ Flags(queue, updateQueued)
  BY DEF Core
<1>3. OneDrainAt'
  BY <1>1, <1>2 DEF OneDrainAt, AllIdle, Sole
<1>4. Ending'
  BY <1>1, <1>2 DEF Ending, Live
<1>5. Flags(queue, updateQueued)'
  BY <1>1, <1>2
<1> QED BY <1>3, <1>4, <1>5 DEF Core

\* The work between two pops.
Work(w) ==
  TearDown(w) \/ ResetHost(w) \/ RunScript(w) \/ Health(w) \/ Publish(w) \/ Finish(w)
  \/ PostResult(w)

\* pc changes for the drain alone.
LEMMA GotoPlace ==
    ASSUME Types, NEW w \in Worker, NEW next, Goto(w, next)
    PROVE  pc'[w] = next /\ \A v \in Worker \ {w} : pc'[v] = pc[v]
  BY DEF Goto, Types, PoolTypes

LEMMA WorkStep ==
    ASSUME Types, NEW w \in Worker, Work(w)
    PROVE  /\ UNCHANGED <<queue, generation, scheduled, updateQueued, unposted, stopping, stopped,
                          main, subscription, tasks, event, view, replayState>>
           /\ pc[w] # "idle" /\ pc[w] # "halt"
           /\ pc'[w] # "idle" /\ \A v \in Worker \ {w} : pc'[v] = pc[v]
           /\ pc'[w] = "halt" => event[w].kind = "Stop" /\ host' = NoHost /\ watchers' = {}
<1> DEFINE Goal ==
           /\ UNCHANGED <<queue, generation, scheduled, updateQueued, unposted, stopping, stopped,
                          main, subscription, tasks, event, view, replayState>>
           /\ pc[w] # "idle" /\ pc[w] # "halt"
           /\ pc'[w] # "idle" /\ \A v \in Worker \ {w} : pc'[v] = pc[v]
           /\ pc'[w] = "halt" => event[w].kind = "Stop" /\ host' = NoHost /\ watchers' = {}
<1> SUFFICES Goal
  OBVIOUS
<1>1. CASE TearDown(w)
  <2>1. pc[w] = "teardown" /\ Goto(w, "reset")
    BY <1>1 DEF TearDown
  <2> QED BY <1>1, <2>1, GotoPlace DEF TearDown, mailbox, ui, clients
<1>2. CASE ResetHost(w)
  <2>1. UNCHANGED <<mailbox, stopping, stopped, tasks, event, ui, replayState, clients>>
        /\ pc[w] = "reset"
    BY <1>2 DEF ResetHost
  <2>2. watchers' = {}
        /\ \/ event[w].kind = "Stop" /\ host' = NoHost /\ Goto(w, "halt")
           \/ Goto(w, "load")
    BY <1>2, ResetHostStep
  <2>3. /\ pc'[w] # "idle" /\ \A v \in Worker \ {w} : pc'[v] = pc[v]
        /\ pc'[w] = "halt" => event[w].kind = "Stop" /\ host' = NoHost
    BY <2>2, GotoPlace
  <2> QED BY <2>1, <2>2, <2>3 DEF mailbox, ui, clients
<1>3. CASE RunScript(w)
  <2>1. /\ UNCHANGED <<mailbox, stopping, stopped, tasks, event, ui, replayState, clients>>
        /\ pc[w] \in {"load", "update", "call"}
        /\ Goto(w, "loaded") \/ Goto(w, "health")
    BY <1>3 DEF RunScript
  <2> QED BY <2>1, GotoPlace DEF mailbox, ui, clients
<1>4. CASE Health(w)
  <2>1. /\ UNCHANGED <<mailbox, stopping, stopped, tasks, event, ui, replayState, clients>>
        /\ pc[w] \in {"loaded", "health"}
        /\ Goto(w, "update") \/ Goto(w, "publish") \/ Goto(w, "finish")
    BY <1>4 DEF Health
  <2> QED BY <2>1, GotoPlace DEF mailbox, ui, clients
<1>5. CASE Publish(w)
  <2>1. /\ UNCHANGED <<mailbox, stopping, stopped, tasks, event, ui, replayState, clients>>
        /\ pc[w] = "publish" /\ Goto(w, "finish")
    BY <1>5 DEF Publish
  <2> QED BY <2>1, GotoPlace DEF mailbox, ui, clients
<1>6. CASE Finish(w)
  <2>1. /\ UNCHANGED <<queue, generation, scheduled, updateQueued, unposted, stopping, stopped,
                       tasks, event, ui, replayState, clients>>
        /\ pc[w] = "finish"
        /\ Goto(w, "top") \/ Goto(w, "post")
    BY <1>6 DEF Finish
  <2> QED BY <2>1, GotoPlace DEF ui, clients
<1>7. CASE PostResult(w)
  <2>1. /\ UNCHANGED <<mailbox, stopping, stopped, tasks, event, subscription, view, replayState,
                       clients>>
        /\ pc[w] = "post" /\ Goto(w, "top")
    BY <1>7 DEF PostResult
  <2> QED BY <2>1, GotoPlace DEF mailbox, clients
<1> HIDE DEF Goal
<1> QED BY <1>1, <1>2, <1>3, <1>4, <1>5, <1>6, <1>7 DEF Work

LEMMA WorkCore == \A w \in Worker : Core /\ Work(w) /\ Types' => Core'
<1> SUFFICES ASSUME NEW w \in Worker, Core, Work(w), Types' PROVE Core'
  OBVIOUS
<1>1. Types /\ OneDrainAt /\ Ending /\ Flags(queue, updateQueued)
  BY DEF Core
<1>2. /\ UNCHANGED <<queue, generation, scheduled, updateQueued, unposted, stopping, stopped,
                     main, subscription, tasks, event>>
      /\ pc[w] # "idle" /\ pc[w] # "halt"
      /\ pc'[w] # "idle" /\ \A v \in Worker \ {w} : pc'[v] = pc[v]
      /\ pc'[w] = "halt" => event[w].kind = "Stop" /\ host' = NoHost /\ watchers' = {}
  BY <1>1, WorkStep
<1>3. /\ scheduled /\ unposted = 0 /\ tasks = 0
      /\ \A v \in Worker \ {w} : pc[v] = "idle"
  BY <1>1, <1>2, Alone
<1>4. OneDrainAt'
  <2>1. Sole(w)'
    BY <1>2, <1>3 DEF Sole
  <2> QED BY <2>1, <1>1, <1>2, <1>3 DEF OneDrainAt
<1>5. Ending'
  <2>1. ~stopped /\ Live' = Live
    BY <1>1, <1>2, <1>3 DEF Ending, Live
  <2>2. \A v \in Worker : pc'[v] = "halt" => v = w
    BY <1>2, <1>3
  <2> QED BY <2>1, <2>2, <1>1, <1>2 DEF Ending
<1>6. Flags(queue, updateQueued)'
  BY <1>1, <1>2
<1> QED BY <1>4, <1>5, <1>6 DEF Core

LEMMA TakeCore == \A w \in Worker : Core /\ Take(w) => Core'
<1> SUFFICES ASSUME NEW w \in Worker, Core, Take(w) PROVE Core'
  OBVIOUS
<1>1. Types /\ OneDrainAt /\ Ending /\ Flags(queue, updateQueued) /\ Types'
  BY TakeTypes DEF Core
<1>2. /\ pc[w] = "idle" /\ tasks > 0 /\ tasks' = tasks - 1 /\ Goto(w, "top")
      /\ UNCHANGED <<queue, scheduled, updateQueued, unposted, stopping, stopped, host, watchers,
                     main, subscription, event>>
  BY DEF Take, mailbox, vm, ui, clients
<1>3. pc'[w] = "top" /\ \A v \in Worker \ {w} : pc'[v] = pc[v]
  BY <1>1, <1>2, GotoPlace
<1>4. scheduled /\ unposted = 0 /\ tasks = 1 /\ AllIdle
  BY <1>1, <1>2 DEF OneDrainAt
<1>5. OneDrainAt'
  <2>1. Sole(w)'
    BY <1>3, <1>4 DEF Sole, AllIdle
  <2> QED BY <2>1, <1>1, <1>2, <1>4 DEF OneDrainAt
<1>6. Ending'
  <2>1. ~stopped /\ Live' = Live /\ \A v \in Worker : pc'[v] # "halt"
    BY <1>1, <1>2, <1>3, <1>4 DEF Ending, Live, AllIdle
  <2> QED BY <2>1, <1>1, <1>2 DEF Ending
<1> QED BY <1>1, <1>2, <1>5, <1>6 DEF Core

LEMMA DrainEndCore == \A w \in Worker : Core /\ DrainEnd(w) => Core'
<1> SUFFICES ASSUME NEW w \in Worker, Core, DrainEnd(w) PROVE Core'
  OBVIOUS
<1>1. Types /\ OneDrainAt /\ Ending /\ Flags(queue, updateQueued) /\ Types'
  BY DrainEndTypes DEF Core
<1>2. /\ pc[w] = "top" /\ (queue = <<>> \/ stopped) /\ Goto(w, "idle") /\ scheduled' = FALSE
      /\ event' = [event EXCEPT ![w] = NoEvent]
      /\ UNCHANGED <<queue, updateQueued, unposted, tasks, stopping, stopped, host, watchers, main,
                     subscription>>
  BY DEF DrainEnd, vm, ui, clients
<1>3. pc'[w] = "idle" /\ \A v \in Worker \ {w} : pc'[v] = pc[v]
  BY <1>1, <1>2, GotoPlace
<1>4. /\ scheduled /\ unposted = 0 /\ tasks = 0
      /\ \A v \in Worker \ {w} : pc[v] = "idle"
  BY <1>1, <1>2, Alone
<1>5. queue = <<>> /\ ~stopped
  BY <1>1, <1>2, <1>4 DEF Ending
<1>6. OneDrainAt'
  <2>1. AllIdle'
    BY <1>3, <1>4 DEF AllIdle
  <2> QED BY <2>1, <1>2, <1>4, <1>5 DEF OneDrainAt
<1>7. Ending'
  <2>1. Live' = Live /\ \A v \in Worker : pc'[v] # "halt"
    BY <1>2, <1>3, <1>4 DEF Live
  <2>2. \A v \in Worker : event'[v].kind = "none" \/ event'[v] = event[v]
    BY <1>1, <1>2 DEF NoEvent, Types, PoolTypes
  <2> QED BY <2>1, <2>2, <1>1, <1>2, <1>5 DEF Ending
<1> QED BY <1>1, <1>2, <1>6, <1>7 DEF Core

LEMMA PopCore == \A w \in Worker : Core /\ Pop(w) => Core'
<1> SUFFICES ASSUME NEW w \in Worker, Core, Pop(w) PROVE Core'
  OBVIOUS
<1> DEFINE e == queue[1]
<1>1. Types /\ OneDrainAt /\ Ending /\ Flags(queue, updateQueued) /\ Types'
  BY PopTypes DEF Core
<1>2. /\ e \in Item /\ queue # <<>> /\ ~stopped
      /\ queue' \in Seq(Item) /\ Len(queue) \in Nat /\ Len(queue) > 0
      /\ Len(queue') = Len(queue) - 1
      /\ \A i \in 1..Len(queue') : queue'[i] = queue[i + 1]
      /\ event'[w] = e /\ \A v \in Worker \ {w} : event'[v] = event[v]
      /\ updateQueued' = (updateQueued /\ e.kind # "Update")
      /\ \E step \in FirstSteps(e) : step \in Places /\ Goto(w, step)
  BY <1>1, PopStep
<1>3. /\ pc[w] = "top"
      /\ UNCHANGED <<scheduled, unposted, tasks, stopping, stopped, host, watchers, main,
                     subscription>>
  BY DEF Pop, vm, ui, clients
<1>4. PICK step \in {"teardown", "finish", "call"} :
        Goto(w, step)
  BY <1>2 DEF FirstSteps
<1>5. pc'[w] \in {"teardown", "finish", "call"} /\ \A v \in Worker \ {w} : pc'[v] = pc[v]
  BY <1>1, <1>4, GotoPlace
<1>6. /\ scheduled /\ unposted = 0 /\ tasks = 0
      /\ \A v \in Worker \ {w} : pc[v] = "idle"
  BY <1>1, <1>3, Alone
<1>7. \A i \in 1..Len(queue') : i + 1 \in 1..Len(queue) /\ queue'[i] = queue[i + 1]
  BY <1>2
<1>8. 1 \in 1..Len(queue) /\ e = queue[1]
  BY <1>2
<1> HIDE DEF e
<1>9. OneDrainAt'
  <2>1. Sole(w)'
    BY <1>5, <1>6 DEF Sole
  <2> QED BY <2>1, <1>3, <1>6 DEF OneDrainAt
<1>10. Ending'
  <2>1. Live' = Live /\ \A v \in Worker : pc'[v] # "halt"
    BY <1>3, <1>5, <1>6 DEF Live
  <2>2. ~stopping => NoStop(queue') /\ e.kind # "Stop"
    BY <1>1, <1>7, <1>8 DEF Ending, NoStop
  <2>3. stopping => queue' = <<>> /\ Len(queue') = 0
    BY <1>1, <1>2, EmptyQueue DEF Ending
  <2>4. \A v \in Worker : event'[v].kind = "Stop" => queue' = <<>>
    <3>1. \A v \in Worker : event[v].kind # "Stop"
      BY <1>1, <1>2 DEF Ending
    <3>2. e.kind = "Stop" => stopping
      BY <2>2, <1>1 DEF Types, ClientTypes
    <3> QED BY <3>1, <3>2, <2>3, <1>2
  <2>5. ~stopping => \A v \in Worker : event'[v].kind # "Stop"
    BY <2>2, <1>1, <1>2 DEF Ending
  <2> QED BY <2>1, <2>2, <2>3, <2>4, <2>5, <1>1, <1>2, <1>3 DEF Ending
<1>11. Flags(queue', updateQueued')
  <2>1. /\ updateQueued <=> (\E i \in 1..Len(queue) : queue[i].kind = "Update")
        /\ \A i, j \in 1..Len(queue) :
             queue[i].kind = "Update" /\ queue[j].kind = "Update" => i = j
    BY <1>1 DEF Flags
  <2>2. \A i, j \in 1..Len(queue') :
          queue'[i].kind = "Update" /\ queue'[j].kind = "Update" => i = j
    <3> SUFFICES ASSUME NEW i \in 1..Len(queue'), NEW j \in 1..Len(queue'),
                        queue'[i].kind = "Update", queue'[j].kind = "Update"
                 PROVE  i = j
      OBVIOUS
    <3>1. i + 1 = j + 1
      BY <1>7, <2>1
    <3>2. i \in Int /\ j \in Int
      OBVIOUS
    <3> QED BY <3>1, <3>2
  <2>3. ASSUME NEW i \in 1..Len(queue'), queue'[i].kind = "Update"
        PROVE  updateQueued /\ e.kind # "Update"
    <3>1. i + 1 \in 1..Len(queue) /\ queue[i + 1].kind = "Update" /\ i + 1 # 1
      BY <1>7, <2>3
    <3> QED BY <3>1, <2>1, <1>8
  <2>4. ASSUME updateQueued, e.kind # "Update"
        PROVE  \E i \in 1..Len(queue') : queue'[i].kind = "Update"
    <3>1. PICK i \in 1..Len(queue) : queue[i].kind = "Update"
      BY <2>1, <2>4
    <3>2. i # 1
      BY <3>1, <2>4, <1>8
    <3>3. i - 1 \in 1..Len(queue') /\ (i - 1) + 1 = i
      BY <3>2, <1>2
    <3>4. queue'[i - 1] = queue[i]
      BY <3>3, <1>7
    <3> QED BY <3>1, <3>3, <3>4
  <2>5. updateQueued' <=> (\E i \in 1..Len(queue') : queue'[i].kind = "Update")
    BY <1>2, <2>3, <2>4
  <2> QED BY <2>2, <2>5 DEF Flags
<1> QED BY <1>1, <1>9, <1>10, <1>11 DEF Core

LEMMA HaltCore == \A w \in Worker : Core /\ Halt(w) => Core'
<1> SUFFICES ASSUME NEW w \in Worker, Core, Halt(w) PROVE Core'
  OBVIOUS
<1>1. Types /\ OneDrainAt /\ Ending /\ Flags(queue, updateQueued) /\ Types'
  BY HaltTypes DEF Core
<1>2. /\ pc[w] = "halt" /\ queue' = <<>> /\ stopped' = TRUE /\ scheduled' = FALSE
      /\ Goto(w, "idle")
      /\ event' = [event EXCEPT ![w] = NoEvent]
      /\ UNCHANGED <<updateQueued, unposted, tasks, stopping, host, watchers, main, subscription>>
  BY DEF Halt, vm, ui, clients
<1>3. pc'[w] = "idle" /\ \A v \in Worker \ {w} : pc'[v] = pc[v]
  BY <1>1, <1>2, GotoPlace
<1>4. /\ scheduled /\ unposted = 0 /\ tasks = 0
      /\ \A v \in Worker \ {w} : pc[v] = "idle"
  BY <1>1, <1>2, Alone
<1>5. queue = <<>> /\ stopping /\ host = NoHost /\ watchers = {} /\ Live = {}
  BY <1>1, <1>2 DEF Ending
<1>6. OneDrainAt'
  <2>1. AllIdle'
    BY <1>3, <1>4 DEF AllIdle
  <2> QED BY <2>1, <1>2, <1>4 DEF OneDrainAt
<1>7. Ending'
  <2>1. Live' = Live /\ \A v \in Worker : pc'[v] # "halt"
    BY <1>2, <1>3, <1>4 DEF Live
  <2>2. \A v \in Worker : event'[v].kind = "none" \/ event'[v] = event[v]
    BY <1>1, <1>2 DEF NoEvent, Types, PoolTypes
  <2>3. Len(queue') = 0
    BY <1>2
  <2> QED BY <2>1, <2>2, <2>3, <1>1, <1>2, <1>5 DEF Ending
<1>8. Flags(queue', updateQueued')
  <2>1. Len(queue) = 0 /\ Len(queue') = 0
    BY <1>2, <1>5
  <2> QED BY <2>1, <1>1, <1>2 DEF Flags
<1> QED BY <1>1, <1>6, <1>7, <1>8 DEF Core

LEMMA StutterCore == Core /\ UNCHANGED vars => Core'
<1> SUFFICES ASSUME Core, UNCHANGED vars PROVE Core'
  OBVIOUS
<1>1. Types'
  BY StutterTypes DEF Core
<1>2. UNCHANGED <<queue, updateQueued, scheduled, unposted, tasks, pc, event, stopping, stopped,
                  main, host, watchers, subscription>>
  BY DEF vars, mailbox, pool, vm, ui, clients
<1>3. OneDrainAt'
  BY <1>2 DEF Core, OneDrainAt, AllIdle, Sole
<1>4. Ending'
  BY <1>2 DEF Core, Ending, Live
<1> QED BY <1>1, <1>2, <1>3, <1>4 DEF Core

LEMMA DrainCore == \A w \in Worker : Core /\ Drain(w) /\ Types' => Core'
  BY TakeCore, DrainEndCore, PopCore, WorkCore, HaltCore DEF Drain, Work

LEMMA NextCore == Core /\ Next => Core' /\ StepClass
<1> SUFFICES ASSUME Core, Next PROVE Core' /\ StepClass
  OBVIOUS
<1>1. Types' /\ StepClass
  BY NextClass DEF Core
<1>2. Core'
  BY <1>1, OfferCore, LoadCore, StopCore, PostCore, DrainCore DEF StepClass
<1> QED BY <1>1, <1>2

LEMMA CoreAlways == Spec => []Core
<1>1. Core /\ [Next]_vars => Core'
  BY NextCore, StutterCore
<1> QED BY <1>1, InitCore, PTL DEF Spec

\* The VM is touched by one drain at a time, and a queued event always has a drain on
\* its way, however many threads the pool has.
THEOREM OneDrainAlways == Spec => []OneDrain
<1>1. Core => OneDrain
  BY OneDrainAtIsOneDrain DEF Core
<1> QED BY <1>1, CoreAlways, PTL

\* updateQueued tells whether an Update is queued, after every eviction, reload, stop
\* and pop, for every size of the queue.
THEOREM UpdateFlagAlways == Spec => []UpdateFlagExact
<1>1. Core => UpdateFlagExact
  BY FlagsAreExact DEF Core
<1> QED BY <1>1, CoreAlways, PTL

\* A stopped runtime has no VM, no watcher and no subscriber, and no thread in a script.
THEOREM StoppedStaysSilent == Spec => []StoppedIsSilent
  BY EndingIsSilent, CoreAlways, PTL

-----------------------------------------------------------------------------
(* Generations: which VM a result is of.                                   *)

\* g is the generation of the day, or what the mailbox does next is to replace or
\* end the VM.
Current(g) == g = generation \/ Led(queue)

\* An event is handled by the VM of its own generation.
Ages ==
  /\ Aged(queue, generation)
  /\ \A w \in Worker : pc[w] \in {"teardown", "reset"} =>
       /\ event[w].kind \in {"Reload", "Stop"}
       /\ event[w].kind = "Reload" => Current(event[w].gen)
  /\ host.id # 0 /\ (\A w \in Worker : pc[w] \notin {"teardown", "reset"}) => Current(host.gen)
  /\ \A w \in Worker : pc[w] \in {"load", "loaded", "call", "update"} => event[w].gen = host.gen
  /\ \A w \in Worker : result[w].gen = result[w].by

LEMMA InitAges == Init => Ages
<1> SUFFICES ASSUME Init PROVE Ages
  OBVIOUS
<1>1. Len(queue) = 0
  BY InitTypes, EmptyQueue DEF Init
<1> QED BY <1>1 DEF Init, Ages, Aged, NoHost, NoResult

LEMMA OfferAges == Ages /\ OfferStep => Ages'
<1> SUFFICES ASSUME Ages, OfferStep PROVE Ages'
  OBVIOUS
<1>1. /\ UNCHANGED <<host, pc, event, result, generation>>
      /\ Led(queue) => Led(queue')
      /\ Aged(queue, generation) => Aged(queue', generation)
  BY DEF OfferStep, MailStep, pool
<1>2. \A g : Current(g) => Current(g)'
  BY <1>1 DEF Current
<1> QED BY <1>1, <1>2 DEF Ages

LEMMA LoadAges == Ages /\ LoadStep => Ages'
<1> SUFFICES ASSUME Ages, LoadStep PROVE Ages'
  OBVIOUS
<1>1. /\ UNCHANGED <<host, pc, event, result>>
      /\ generation' = generation + 1
      /\ queue' = <<[kind |-> "Reload", gen |-> generation + 1, src |-> 0]>>
  BY DEF LoadStep, PushReload, pool
<1>2. Len(queue') = 1 /\ queue'[1].kind = "Reload" /\ queue'[1].gen = generation'
  BY <1>1
<1>3. Led(queue') /\ Aged(queue', generation')
  BY <1>2 DEF Led, Aged
<1>4. \A g : Current(g)'
  BY <1>3 DEF Current
<1> QED BY <1>1, <1>3, <1>4 DEF Ages

LEMMA StopAges == Ages /\ Stop => Ages'
<1> SUFFICES ASSUME Ages, Stop PROVE Ages'
  OBVIOUS
<1>1. /\ UNCHANGED <<host, pc, event, result, generation>>
      /\ queue' = <<[kind |-> "Stop", gen |-> generation, src |-> 0]>>
  BY DEF Stop, pool, vm
<1>2. Len(queue') = 1 /\ queue'[1].kind = "Stop" /\ queue'[1].gen = generation'
  BY <1>1
<1>3. Led(queue') /\ Aged(queue', generation')
  BY <1>2 DEF Led, Aged
<1>4. \A g : Current(g)'
  BY <1>3 DEF Current
<1> QED BY <1>1, <1>3, <1>4 DEF Ages

LEMMA QuietAges ==
  Ages /\ UNCHANGED <<host, pc, event, result, generation, queue>> => Ages'
  BY DEF Ages, Current

LEMMA PostAges == Ages /\ Post => Ages'
  BY QuietAges DEF Post, vm

LEMMA TakeAges == \A w \in Worker : Core /\ Ages /\ Take(w) => Ages'
<1> SUFFICES ASSUME NEW w \in Worker, Core, Ages, Take(w) PROVE Ages'
  OBVIOUS
<1>1. /\ pc[w] = "idle" /\ Goto(w, "top")
      /\ UNCHANGED <<host, event, result, generation, queue>>
  BY DEF Take, mailbox, vm
<1>2. pc'[w] = "top" /\ \A v \in Worker \ {w} : pc'[v] = pc[v]
  BY <1>1, GotoPlace DEF Core
<1> QED BY <1>1, <1>2 DEF Ages, Current

LEMMA DrainEndAges == \A w \in Worker : Core /\ Ages /\ DrainEnd(w) => Ages'
<1> SUFFICES ASSUME NEW w \in Worker, Core, Ages, DrainEnd(w) PROVE Ages'
  OBVIOUS
<1>1. /\ pc[w] = "top" /\ Goto(w, "idle") /\ event' = [event EXCEPT ![w] = NoEvent]
      /\ UNCHANGED <<host, result, generation, queue>>
  BY DEF DrainEnd, vm
<1>2. pc'[w] = "idle" /\ \A v \in Worker \ {w} : pc'[v] = pc[v]
  BY <1>1, GotoPlace DEF Core
<1>3. \A v \in Worker \ {w} : event'[v] = event[v]
  BY <1>1 DEF Core, Types, PoolTypes
<1> QED BY <1>1, <1>2, <1>3 DEF Ages, Current

LEMMA HaltAges == \A w \in Worker : Core /\ Ages /\ Halt(w) => Ages'
<1> SUFFICES ASSUME NEW w \in Worker, Core, Ages, Halt(w) PROVE Ages'
  OBVIOUS
<1>1. /\ pc[w] = "halt" /\ Goto(w, "idle") /\ queue' = <<>>
      /\ UNCHANGED <<host, result, generation>>
  BY DEF Halt, vm
<1>2. pc'[w] = "idle" /\ \A v \in Worker \ {w} : pc'[v] = pc[v]
  BY <1>1, GotoPlace DEF Core
<1>3. \A v \in Worker \ {w} : pc[v] = "idle"
  BY <1>1, Alone DEF Core
<1>4. host.id = 0
  BY <1>1 DEF Core, Ending, NoHost
<1>5. Aged(queue', generation')
  BY <1>1 DEF Aged
<1> QED BY <1>1, <1>2, <1>3, <1>4, <1>5 DEF Ages

LEMMA PopAges == \A w \in Worker : Core /\ Ages /\ Pop(w) => Ages'
<1> SUFFICES ASSUME NEW w \in Worker, Core, Ages, Pop(w) PROVE Ages'
  OBVIOUS
<1> DEFINE e == queue[1]
<1>1. Types /\ OneDrainAt
  BY DEF Core
<1>2. /\ Len(queue) \in Nat /\ Len(queue) > 0
      /\ Len(queue') = Len(queue) - 1
      /\ \A i \in 1..Len(queue') : queue'[i] = queue[i + 1]
      /\ event'[w] = e
      /\ result' = [result EXCEPT ![w] = NoResult]
      /\ \E step \in FirstSteps(e) : step \in Places /\ Goto(w, step)
  BY <1>1, PopStep
<1>3. /\ pc[w] = "top" /\ UNCHANGED <<generation, host>>
  BY DEF Pop, vm
<1>4. \A v \in Worker \ {w} : pc[v] = "idle"
  BY <1>1, <1>3, Alone
<1>5. e.gen = generation
  BY <1>2 DEF Ages, Aged
<1>6. Aged(queue', generation')
  <2>1. \A i \in 1..Len(queue') : i + 1 \in 1..Len(queue) /\ queue'[i] = queue[i + 1]
    BY <1>2
  <2> QED BY <2>1, <1>3 DEF Ages, Aged
<1>7. \A v \in Worker : result'[v].gen = result'[v].by
  BY <1>1, <1>2 DEF Ages, NoResult, Types, PoolTypes
<1>8. e.kind \notin {"Reload", "Stop"} => ~Led(queue)
  BY DEF Led
<1>9. Led(queue) <=> e.kind \in {"Reload", "Stop"}
  BY <1>2 DEF Led
<1>10. host.id # 0 => Current(host.gen)
  BY <1>3, <1>4 DEF Ages
<1> HIDE DEF e
<1>11. CASE e.kind \in {"Reload", "Stop"}
  <2>1. Goto(w, "teardown")
    BY <1>2, <1>11 DEF FirstSteps
  <2>2. pc'[w] = "teardown" /\ \A v \in Worker \ {w} : pc'[v] = "idle"
    BY <1>1, <1>4, <2>1, GotoPlace
  <2>3. Current(event[w].gen)'
    BY <1>2, <1>3, <1>5 DEF Current
  <2> QED BY <1>2, <1>6, <1>7, <1>11, <2>2, <2>3 DEF Ages
<1>12. CASE e.kind \notin {"Reload", "Stop"}
  <2>1. PICK step \in FirstSteps(e) : Goto(w, step)
    BY <1>2
  <2>2. step = "finish" \/ (step = "call" /\ host.id # 0)
    BY <1>12, <2>1 DEF FirstSteps, Stale
  <2>3. pc'[w] = step /\ \A v \in Worker \ {w} : pc'[v] = "idle"
    BY <1>1, <1>4, <2>1, GotoPlace
  <2>4. host.id # 0 => host.gen = generation
    BY <1>9, <1>10, <1>12 DEF Current
  <2>5. host.id # 0 => Current(host.gen)'
    BY <1>3, <2>4 DEF Current
  <2> QED BY <1>2, <1>3, <1>5, <1>6, <1>7, <2>2, <2>3, <2>4, <2>5 DEF Ages
<1> QED BY <1>11, <1>12

LEMMA WorkAges == \A w \in Worker : Core /\ Ages /\ Work(w) => Ages'
<1> SUFFICES ASSUME NEW w \in Worker, Core, Ages, Work(w) PROVE Ages'
  OBVIOUS
<1>1. Types /\ OneDrainAt
  BY DEF Core
<1>2. /\ UNCHANGED <<queue, generation, event>> /\ pc[w] # "idle"
      /\ \A v \in Worker \ {w} : pc'[v] = pc[v]
  BY <1>1, WorkStep
<1>3. \A v \in Worker \ {w} : pc[v] = "idle" /\ pc'[v] = "idle"
  BY <1>1, <1>2, Alone
<1>4. \A g : Current(g)' <=> Current(g)
  BY <1>2 DEF Current
<1>5. Aged(queue, generation)'
  BY <1>2 DEF Ages
<1> DEFINE Goal == Ages'
<1> SUFFICES Goal
  OBVIOUS
<1>6. CASE TearDown(w)
  <2>1. pc[w] = "teardown" /\ Goto(w, "reset") /\ UNCHANGED <<host, result>>
    BY <1>6 DEF TearDown
  <2>2. pc'[w] = "reset"
    BY <1>1, <2>1, GotoPlace
  <2> QED BY <1>2, <1>3, <1>4, <1>5, <2>1, <2>2 DEF Ages
<1>7. CASE ResetHost(w)
  <2>1. pc[w] = "reset" /\ UNCHANGED result
    BY <1>7 DEF ResetHost
  <2>2. \/ event[w].kind = "Stop" /\ host' = NoHost /\ Goto(w, "halt")
        \/ event[w].kind # "Stop" /\ Goto(w, "load") /\ host'.gen = event[w].gen
    BY <1>1, <1>7, ResetHostStep
  <2>3. CASE event[w].kind = "Stop"
    <3>1. pc'[w] = "halt" /\ host'.id = 0
      BY <1>1, <2>2, <2>3, GotoPlace DEF NoHost
    <3> QED BY <1>2, <1>3, <1>5, <2>1, <3>1 DEF Ages
  <2>4. CASE event[w].kind # "Stop"
    <3>1. pc'[w] = "load" /\ host'.gen = event[w].gen
      BY <1>1, <2>2, <2>4, GotoPlace
    <3>2. Current(event[w].gen)
      BY <2>1, <2>4 DEF Ages
    <3>3. Current(host.gen)'
      BY <1>2, <3>1, <3>2 DEF Current
    <3> QED BY <1>2, <1>3, <1>5, <2>1, <3>1, <3>3 DEF Ages
  <2> QED BY <2>3, <2>4
<1>8. CASE RunScript(w)
  <2>1. PICK r \in Result :
          /\ result' = [result EXCEPT ![w] = r]
          /\ r.gen = event[w].gen /\ r.by = host.gen
          /\ host'.id = host.id /\ host'.gen = host.gen
    BY <1>1, <1>8, RunScriptStep
  <2>2. pc[w] \in {"load", "update", "call"} /\ pc'[w] \in {"loaded", "health"}
    <3>1. pc[w] \in {"load", "update", "call"} /\ (Goto(w, "loaded") \/ Goto(w, "health"))
      BY <1>8 DEF RunScript
    <3> QED BY <1>1, <3>1, GotoPlace
  <2>3. event[w].gen = host.gen
    BY <2>2 DEF Ages
  <2>4. \A v \in Worker : result'[v].gen = result'[v].by
    BY <1>1, <2>1, <2>3 DEF Ages, Types, PoolTypes
  <2>5. host.id # 0 => Current(host.gen)
    BY <1>3, <2>2 DEF Ages
  <2>6. host'.id # 0 => Current(host.gen)'
    BY <1>2, <2>1, <2>5 DEF Current
  <2> QED BY <1>2, <1>3, <1>5, <2>1, <2>2, <2>3, <2>4, <2>6 DEF Ages
<1>9. CASE Health(w)
  <2>1. /\ UNCHANGED <<host, result>>
        /\ \/ pc[w] = "loaded" /\ Goto(w, "update")
           \/ pc[w] \in {"loaded", "health"} /\ (Goto(w, "publish") \/ Goto(w, "finish"))
    BY <1>9 DEF Health, vm
  <2>2. /\ pc[w] \in {"loaded", "health"} /\ pc'[w] \in {"update", "publish", "finish"}
        /\ pc'[w] = "update" => pc[w] = "loaded"
    BY <1>1, <2>1, GotoPlace
  <2> QED BY <1>2, <1>3, <1>4, <1>5, <2>1, <2>2 DEF Ages
<1>10. CASE Publish(w)
  <2>1. pc[w] = "publish" /\ Goto(w, "finish") /\ UNCHANGED <<host, result>>
    BY <1>10 DEF Publish
  <2>2. pc'[w] = "finish"
    BY <1>1, <2>1, GotoPlace
  <2> QED BY <1>2, <1>3, <1>4, <1>5, <2>1, <2>2 DEF Ages
<1>11. CASE Finish(w)
  <2>1. pc[w] = "finish" /\ (Goto(w, "top") \/ Goto(w, "post")) /\ UNCHANGED <<host, result>>
    BY <1>11 DEF Finish, vm
  <2>2. pc'[w] \in {"top", "post"}
    BY <1>1, <2>1, GotoPlace
  <2> QED BY <1>2, <1>3, <1>4, <1>5, <2>1, <2>2 DEF Ages
<1>12. CASE PostResult(w)
  <2>1. pc[w] = "post" /\ Goto(w, "top") /\ UNCHANGED host
        /\ result' = [result EXCEPT ![w] = NoResult]
    BY <1>12 DEF PostResult, vm
  <2>2. pc'[w] = "top"
    BY <1>1, <2>1, GotoPlace
  <2>3. \A v \in Worker : result'[v].gen = result'[v].by
    BY <1>1, <2>1 DEF Ages, NoResult, Types, PoolTypes
  <2> QED BY <1>2, <1>3, <1>4, <1>5, <2>1, <2>2, <2>3 DEF Ages
<1> HIDE DEF Goal
<1> QED BY <1>6, <1>7, <1>8, <1>9, <1>10, <1>11, <1>12 DEF Work

LEMMA NextAges == Core /\ Ages /\ [Next]_vars => Ages'
<1> SUFFICES ASSUME Core, Ages, [Next]_vars PROVE Ages'
  OBVIOUS
<1>1. CASE Next
  <2>1. StepClass
    BY <1>1, NextCore
  <2>2. ASSUME NEW w \in Worker, Drain(w) PROVE Ages'
    BY <2>2, TakeAges, DrainEndAges, PopAges, HaltAges, WorkAges DEF Drain, Work
  <2> QED BY <2>1, <2>2, OfferAges, LoadAges, StopAges, PostAges DEF StepClass
<1>2. CASE UNCHANGED vars
  BY <1>2, QuietAges DEF vars, mailbox, pool, vm
<1> QED BY <1>1, <1>2

LEMMA AgesAlways == Spec => []Ages
  BY InitAges, NextAges, CoreAlways, PTL DEF Spec

-----------------------------------------------------------------------------
(* The health budget.                                                      *)

\* The counters hold n at most.
Charged(n) == consecutiveTimeouts <= n /\ timeoutHistory <= n /\ errorHistory <= n

\* A call of an earlier generation that has still to be judged takes up the one
\* failure by which the counters may exceed what this generation is blamed for.
BeforeVerdict == {"teardown", "reset", "load", "call", "update", "loaded", "health"}

Limit == CHOOSE n \in {MaxConsecutive, MaxTimeouts, MaxErrors} :
           \A m \in {MaxConsecutive, MaxTimeouts, MaxErrors} : n <= m

Budget ==
  /\ Charged(blamed + 1)
  /\ \A w \in Worker : pc[w] \in BeforeVerdict /\ event[w].gen # generation => Charged(blamed)
  /\ \A w \in Worker : pc[w] \in {"loaded", "health"} => result[w].gen = event[w].gen
  /\ unhealthy => blamed + 1 >= Limit

\* The smallest of the three limits.
LEMMA LimitIsLeast ==
  /\ Limit \in Nat
  /\ Limit <= MaxConsecutive /\ Limit <= MaxTimeouts /\ Limit <= MaxErrors
<1>1. MaxConsecutive \in Nat /\ MaxTimeouts \in Nat /\ MaxErrors \in Nat
  BY ScriptRuntimeAssumption
<1>2. \E n \in {MaxConsecutive, MaxTimeouts, MaxErrors} :
        \A m \in {MaxConsecutive, MaxTimeouts, MaxErrors} : n <= m
  <2>1. CASE MaxConsecutive <= MaxTimeouts /\ MaxConsecutive <= MaxErrors
    BY <1>1, <2>1
  <2>2. CASE MaxTimeouts <= MaxConsecutive /\ MaxTimeouts <= MaxErrors
    BY <1>1, <2>2
  <2>3. CASE MaxErrors <= MaxConsecutive /\ MaxErrors <= MaxTimeouts
    BY <1>1, <2>3
  <2> QED BY <1>1, <2>1, <2>2, <2>3
<1>3. Limit \in {MaxConsecutive, MaxTimeouts, MaxErrors}
      /\ \A m \in {MaxConsecutive, MaxTimeouts, MaxErrors} : Limit <= m
  BY <1>2 DEF Limit
<1> QED BY <1>1, <1>3

\* A count that reaches a limit reaches any smaller one.
LEMMA AtLeast ==
  /\ \A b, n, m, l \in Nat : n <= b + 1 /\ n >= m /\ l <= m => b + 1 >= l
  /\ \A b, a, l \in Nat : b >= a /\ a + 1 >= l => b + 1 >= l
  OBVIOUS

LEMMA InitBudget == Init => Budget
  BY DEF Init, Budget, Charged, BeforeVerdict

LEMMA QuietBudget ==
    ASSUME Budget, UNCHANGED <<health, generation, pc, event, result>>
    PROVE  Budget'
<1>1. UNCHANGED <<consecutiveTimeouts, timeoutHistory, errorHistory, blamed, unhealthy>>
  BY DEF health
<1> QED BY <1>1 DEF Budget, Charged

LEMMA LoadBudget == Budget /\ LoadStep => Budget'
<1> SUFFICES ASSUME Budget, LoadStep PROVE Budget'
  OBVIOUS
<1>1. /\ ~unhealthy' /\ blamed' = 0
      /\ consecutiveTimeouts' = 0 /\ timeoutHistory' = 0 /\ errorHistory' = 0
      /\ UNCHANGED <<pc, event, result>>
  BY DEF LoadStep, PushReload, ForgetHealth, pool
<1>2. Charged(blamed)' /\ Charged(blamed + 1)'
  BY <1>1 DEF Charged
<1> QED BY <1>1, <1>2 DEF Budget

\* A drain that is not in a script and has no verdict to give.
LEMMA DrainBudget ==
    ASSUME Core, Budget, NEW w \in Worker, pc[w] \notin BeforeVerdict \/ event'[w].gen = event[w].gen,
           UNCHANGED <<health, generation>>,
           \A v \in Worker \ {w} : pc'[v] = pc[v] /\ event'[v] = event[v] /\ result'[v] = result[v],
           pc'[w] \in BeforeVerdict => pc[w] \in BeforeVerdict \/ event'[w].gen = generation,
           pc'[w] \in {"loaded", "health"} => result'[w].gen = event'[w].gen
    PROVE  Budget'
<1>1. UNCHANGED <<consecutiveTimeouts, timeoutHistory, errorHistory, blamed, unhealthy, generation>>
  BY DEF health
<1>2. Charged(blamed + 1)' /\ (unhealthy' => blamed' + 1 >= Limit)
  BY <1>1 DEF Budget, Charged
<1>3. ASSUME NEW v \in Worker, pc'[v] \in BeforeVerdict, event'[v].gen # generation'
      PROVE  Charged(blamed)'
  <2>1. pc[v] \in BeforeVerdict /\ event[v].gen # generation
    BY <1>1, <1>3
  <2>2. Charged(blamed)
    BY <2>1 DEF Budget
  <2> QED BY <1>1, <2>2 DEF Charged
<1>4. ASSUME NEW v \in Worker, pc'[v] \in {"loaded", "health"}
      PROVE  result'[v].gen = event'[v].gen
  BY <1>4 DEF Budget
<1> QED BY <1>2, <1>3, <1>4 DEF Budget

LEMMA HealthBudget == \A w \in Worker : Core /\ Budget /\ Health(w) => Budget'
<1> SUFFICES ASSUME NEW w \in Worker, Core, Budget, Health(w) PROVE Budget'
  OBVIOUS
<1>1. Types /\ OneDrainAt
  BY DEF Core
<1>2. /\ consecutiveTimeouts' \in Nat /\ timeoutHistory' \in Nat /\ errorHistory' \in Nat
      /\ consecutiveTimeouts' <= consecutiveTimeouts + 1
      /\ timeoutHistory' <= timeoutHistory + 1
      /\ errorHistory' <= errorHistory + 1
      /\ outcome[w] = "ok" => /\ consecutiveTimeouts' <= consecutiveTimeouts
                              /\ timeoutHistory' = timeoutHistory
                              /\ errorHistory' = errorHistory
      /\ unhealthy' => \/ unhealthy
                       \/ consecutiveTimeouts' >= MaxConsecutive
                       \/ timeoutHistory' >= MaxTimeouts
                       \/ errorHistory' >= MaxErrors
  BY <1>1, HealthStep
<1>3. /\ pc[w] \in {"loaded", "health"}
      /\ UNCHANGED <<event, result, generation>>
      /\ blamed' = IF outcome[w] # "ok" /\ result[w].gen = generation THEN blamed + 1 ELSE blamed
      /\ \/ outcome[w] = "ok" /\ Goto(w, "update")
         \/ Goto(w, "publish") \/ Goto(w, "finish")
  BY DEF Health, mailbox
<1>4. /\ \/ outcome[w] = "ok" /\ pc'[w] = "update"
         \/ pc'[w] \in {"publish", "finish"}
      /\ \A v \in Worker \ {w} : pc'[v] = "idle"
  <2>1. \A v \in Worker \ {w} : pc[v] = "idle"
    BY <1>1, <1>3, Alone
  <2> QED BY <1>1, <1>3, <2>1, GotoPlace
<1>5. /\ consecutiveTimeouts \in Nat /\ timeoutHistory \in Nat /\ errorHistory \in Nat
      /\ blamed \in Nat
  BY <1>1 DEF Types, HealthTypes
<1>6. result[w].gen = event[w].gen
  BY <1>3 DEF Budget
<1>7. pc[w] \in BeforeVerdict
  BY <1>3 DEF BeforeVerdict
<1>8. Charged(blamed + 1)'
  <2>1. CASE outcome[w] # "ok" /\ result[w].gen = generation
    BY <2>1, <1>2, <1>3, <1>5 DEF Budget, Charged
  <2>2. CASE outcome[w] # "ok" /\ result[w].gen # generation
    <3>1. Charged(blamed)
      BY <2>2, <1>6, <1>7 DEF Budget
    <3> QED BY <3>1, <2>2, <1>2, <1>3, <1>5 DEF Charged
  <2>3. CASE outcome[w] = "ok"
    BY <2>3, <1>2, <1>3, <1>5 DEF Budget, Charged
  <2> QED BY <2>1, <2>2, <2>3
<1>9. ASSUME NEW v \in Worker, pc'[v] \in BeforeVerdict, event'[v].gen # generation'
      PROVE  Charged(blamed)'
  <2>1. v = w /\ outcome[w] = "ok"
    BY <1>4, <1>9 DEF BeforeVerdict
  <2>2. Charged(blamed)
    BY <2>1, <1>3, <1>7, <1>9 DEF Budget
  <2> QED BY <2>1, <2>2, <1>2, <1>3, <1>5 DEF Charged
<1>10. \A v \in Worker : pc'[v] \notin {"loaded", "health"}
  BY <1>4
<1>11. unhealthy' => blamed' + 1 >= Limit
  <2>1. blamed' \in Nat /\ blamed' >= blamed
    BY <1>3, <1>5
  <2>2. MaxConsecutive \in Nat /\ MaxTimeouts \in Nat /\ MaxErrors \in Nat /\ Limit \in Nat
    BY ScriptRuntimeAssumption, LimitIsLeast
  <2>3. /\ consecutiveTimeouts' <= blamed' + 1 /\ timeoutHistory' <= blamed' + 1
        /\ errorHistory' <= blamed' + 1
    BY <1>8 DEF Charged
  <2>4. unhealthy => blamed + 1 >= Limit
    BY DEF Budget
  <2>5. /\ consecutiveTimeouts' >= MaxConsecutive => blamed' + 1 >= Limit
        /\ timeoutHistory' >= MaxTimeouts => blamed' + 1 >= Limit
        /\ errorHistory' >= MaxErrors => blamed' + 1 >= Limit
    BY <1>2, <2>1, <2>2, <2>3, AtLeast, LimitIsLeast
  <2>6. unhealthy => blamed' + 1 >= Limit
    BY <2>1, <2>2, <2>4, <1>5, AtLeast
  <2> QED BY <1>2, <2>5, <2>6
<1> QED BY <1>8, <1>9, <1>10, <1>11 DEF Budget

LEMMA DrainStepBudget == \A w \in Worker : Core /\ Ages /\ Budget /\ Drain(w) => Budget'
<1> SUFFICES ASSUME NEW w \in Worker, Core, Ages, Budget, Drain(w) PROVE Budget'
  OBVIOUS
<1>1. Types
  BY DEF Core
<1> DEFINE Goal == Budget'
<1> SUFFICES Goal
  OBVIOUS
<1>2. CASE Take(w)
  <2>1. Goto(w, "top") /\ UNCHANGED <<event, result, health, generation>>
    BY <1>2 DEF Take, mailbox
  <2>2. pc'[w] = "top" /\ \A v \in Worker \ {w} : pc'[v] = pc[v]
    BY <1>1, <2>1, GotoPlace
  <2> QED BY <2>1, <2>2, DrainBudget DEF BeforeVerdict
<1>3. CASE DrainEnd(w) \/ Halt(w)
  <2>1. /\ Goto(w, "idle") /\ UNCHANGED <<result, health, generation>>
        /\ pc[w] \in {"top", "halt"} /\ event' = [event EXCEPT ![w] = NoEvent]
    BY <1>3 DEF DrainEnd, Halt
  <2>2. pc'[w] = "idle" /\ \A v \in Worker \ {w} : pc'[v] = pc[v] /\ event'[v] = event[v]
    BY <1>1, <2>1, GotoPlace DEF Types, PoolTypes
  <2> QED BY <2>1, <2>2, DrainBudget DEF BeforeVerdict
<1>4. CASE Pop(w)
  <2>1. /\ Len(queue) \in Nat /\ Len(queue) > 0
        /\ event'[w] = queue[1] /\ \A v \in Worker \ {w} : event'[v] = event[v]
        /\ result' = [result EXCEPT ![w] = NoResult]
        /\ \E step \in FirstSteps(queue[1]) : step \in Places /\ Goto(w, step)
    BY <1>1, <1>4, PopStep
  <2>2. pc[w] = "top" /\ UNCHANGED <<health, generation>>
    BY <1>4 DEF Pop
  <2>3. event'[w].gen = generation
    BY <2>1 DEF Ages, Aged
  <2>4. PICK step \in {"teardown", "finish", "call"} : Goto(w, step)
    BY <2>1 DEF FirstSteps
  <2>5. pc'[w] \in {"teardown", "finish", "call"} /\ \A v \in Worker \ {w} : pc'[v] = pc[v]
    BY <1>1, <2>4, GotoPlace
  <2>6. \A v \in Worker \ {w} : result'[v] = result[v]
    BY <1>1, <2>1 DEF Types, PoolTypes
  <2> QED BY <2>1, <2>2, <2>3, <2>5, <2>6, DrainBudget DEF BeforeVerdict
<1>5. CASE Health(w)
  BY <1>5, HealthBudget
<1>6. CASE RunScript(w)
  <2>1. PICK r \in Result : result' = [result EXCEPT ![w] = r] /\ r.gen = event[w].gen
    BY <1>1, <1>6, RunScriptStep
  <2>2. /\ pc[w] \in {"load", "update", "call"} /\ (Goto(w, "loaded") \/ Goto(w, "health"))
        /\ UNCHANGED <<health, generation, event>>
    BY <1>6 DEF RunScript, mailbox
  <2>3. pc'[w] \in {"loaded", "health"} /\ \A v \in Worker \ {w} : pc'[v] = pc[v]
    BY <1>1, <2>2, GotoPlace
  <2>4. result'[w].gen = event[w].gen /\ \A v \in Worker \ {w} : result'[v] = result[v]
    BY <1>1, <2>1 DEF Types, PoolTypes
  <2> QED BY <2>2, <2>3, <2>4, DrainBudget DEF BeforeVerdict
<1>7. CASE TearDown(w) \/ ResetHost(w)
  <2>1. /\ pc[w] \in {"teardown", "reset"}
        /\ Goto(w, "reset") \/ Goto(w, "halt") \/ Goto(w, "load")
        /\ UNCHANGED <<health, generation, event, result>>
    BY <1>7 DEF TearDown, ResetHost, mailbox
  <2>2. pc'[w] \in {"reset", "halt", "load"} /\ \A v \in Worker \ {w} : pc'[v] = pc[v]
    BY <1>1, <2>1, GotoPlace
  <2> QED BY <2>1, <2>2, DrainBudget DEF BeforeVerdict
<1>8. CASE Publish(w) \/ Finish(w)
  <2>1. /\ Goto(w, "finish") \/ Goto(w, "top") \/ Goto(w, "post")
        /\ UNCHANGED <<health, generation, event, result>>
    BY <1>8 DEF Publish, Finish, mailbox
  <2>2. pc'[w] \in {"finish", "top", "post"} /\ \A v \in Worker \ {w} : pc'[v] = pc[v]
    BY <1>1, <2>1, GotoPlace
  <2> QED BY <2>1, <2>2, DrainBudget DEF BeforeVerdict
<1>9. CASE PostResult(w)
  <2>1. /\ Goto(w, "top") /\ UNCHANGED <<health, generation, event>>
        /\ result' = [result EXCEPT ![w] = NoResult]
    BY <1>9 DEF PostResult, mailbox
  <2>2. /\ pc'[w] = "top" /\ \A v \in Worker \ {w} : pc'[v] = pc[v] /\ result'[v] = result[v]
    BY <1>1, <2>1, GotoPlace DEF Types, PoolTypes
  <2> QED BY <2>1, <2>2, DrainBudget DEF BeforeVerdict
<1> HIDE DEF Goal
<1> QED BY <1>2, <1>3, <1>4, <1>5, <1>6, <1>7, <1>8, <1>9 DEF Drain

LEMMA NextBudget == Core /\ Ages /\ Budget /\ [Next]_vars => Budget'
<1> SUFFICES ASSUME Core, Ages, Budget, [Next]_vars PROVE Budget'
  OBVIOUS
<1>1. CASE Next
  <2>1. StepClass
    BY <1>1, NextCore
  <2>2. OfferStep => Budget'
    BY QuietBudget DEF OfferStep, MailStep, pool
  <2>3. Stop \/ Post => Budget'
    BY QuietBudget DEF Stop, Post, pool
  <2> QED BY <2>1, <2>2, <2>3, LoadBudget, DrainStepBudget DEF StepClass
<1>2. CASE UNCHANGED vars
  BY <1>2, QuietBudget DEF vars, mailbox, pool
<1> QED BY <1>1, <1>2

\* The health verdict of a generation counts its own failures, and one of an earlier
\* generation at most, whatever the limits are.
THEOREM BudgetStaysFresh == Spec => []FreshBudget
<1>1. Budget => FreshBudget
  BY DEF Budget, FreshBudget, Limit
<1> QED BY <1>1, InitBudget, NextBudget, CoreAlways, AgesAlways, PTL DEF Spec

-----------------------------------------------------------------------------
(* Results on their way to the subscribers.                                *)

\* The steps as the main thread's side sees them.
UiStep ==
  \/ /\ UNCHANGED <<ui, replayState, generation>>
     /\ UNCHANGED <<result, marks>> \/ \E w \in Worker : Pop(w) \/ RunScript(w)
  \/ \E s \in Subscriber : Subscribe(s) \/ Unsubscribe(s)
  \/ Replay
  \/ Deliver /\ generation' = generation
  \/ PushReload /\ UNCHANGED <<ui, result, marks>>
  \/ Stop
  \/ \E w \in Worker : PostResult(w)

LEMMA NextUi == Types /\ [Next]_vars => UiStep
<1> SUFFICES ASSUME Types, [Next]_vars PROVE UiStep
  OBVIOUS
<1>1. ASSUME OfferStep, UNCHANGED <<ui, replayState>> PROVE UiStep
  <2>1. UNCHANGED <<generation, result, marks>>
    BY <1>1 DEF OfferStep, MailStep, pool
  <2> QED BY <1>1, <2>1 DEF UiStep
<1>2. ASSUME EnqueueReload, UNCHANGED <<ui, pool, vm>> PROVE UiStep
  <2>1. UNCHANGED <<result, marks>>
    BY <1>2 DEF pool, vm
  <2>2. PushReload \/ UNCHANGED <<mailbox, health, replayState>>
    BY <1>2, EnqueueReloadStep
  <2>3. CASE PushReload
    BY <1>2, <2>1, <2>3 DEF UiStep
  <2>4. CASE UNCHANGED <<mailbox, health, replayState>>
    <3>1. UNCHANGED <<generation, replayState>>
      BY <2>4 DEF mailbox
    <3> QED BY <1>2, <2>1, <3>1 DEF UiStep
  <2> QED BY <2>2, <2>3, <2>4
<1>3. ASSUME NEW kind \in Kinds, Client(kind) PROVE UiStep
  BY <1>1, <1>3, ClientStep DEF Client
<1>4. ASSUME NEW h \in asked, AsyncDone(h) PROVE UiStep
  BY <1>1, <1>4, AsyncDoneStep DEF AsyncDone
<1>5. ASSUME NEW h \in copied, Notify(h) PROVE UiStep
  BY <1>1, <1>5, NotifyStep DEF Notify
<1>6. CASE Reload
  BY <1>2, <1>6 DEF Reload
<1>7. CASE StateSet
  BY <1>1, <1>7, StateSetStep DEF StateSet
<1>8. CASE ConfigChange
  BY <1>1, <1>8, ConfigChangeStep DEF ConfigChange
<1>9. CASE GrantWish
  <2>1. CASE wish = "Reload" /\ EnqueueReload
    BY <1>2, <1>9, <2>1 DEF GrantWish
  <2>2. CASE Enqueue("Settings", 0) /\ UNCHANGED replayState
    <3>1. "Settings" \in EventKind \ {"Reload", "Stop"} /\ 0 \in Nat
      BY DEF EventKind
    <3>2. generation' = generation
      BY <2>2, <3>1, Accepted DEF MailStep, Types
    <3>3. UNCHANGED <<ui, result, marks>>
      BY <1>9 DEF GrantWish, pool, vm
    <3> QED BY <2>2, <3>2, <3>3 DEF UiStep
  <2> QED BY <1>9, <2>1, <2>2 DEF GrantWish
<1>10. CASE StopReturn
  BY <1>1, <1>10, StopReturnStep DEF StopReturn
<1>11. CASE Deliver
  BY <1>11, DeliverStep DEF OfferStep, MailStep, UiStep
<1>12. ASSUME NEW s \in Subscriber, Subscribe(s) \/ Unsubscribe(s) PROVE UiStep
  BY <1>12 DEF UiStep
<1>13. Environment => UiStep
  BY <1>3, <1>4, <1>5, <1>6, <1>7, <1>8, <1>12 DEF Environment, UiStep
<1>14. MainLoop => UiStep
  BY <1>9, <1>10, <1>11 DEF MainLoop, UiStep
<1>15. Post => UiStep
  <2>1. Post => UNCHANGED <<ui, replayState, generation, result, marks>>
    BY DEF Post, vm
  <2> QED BY <2>1 DEF UiStep
<1>16. ASSUME NEW w \in Worker, Drain(w) PROVE UiStep
  <2>1. CASE PostResult(w)
    BY <2>1 DEF UiStep
  <2>2. CASE Pop(w)
    <3>1. UNCHANGED <<ui, replayState, generation>>
      BY <2>2 DEF Pop
    <3> QED BY <2>2, <3>1 DEF UiStep
  <2>3. CASE RunScript(w)
    <3>1. UNCHANGED <<ui, replayState, generation>>
      BY <2>3 DEF RunScript, mailbox
    <3> QED BY <2>3, <3>1 DEF UiStep
  <2>4. CASE Take(w)
    <3>1. UNCHANGED <<ui, replayState, generation, result, marks>>
      BY <2>4 DEF Take, mailbox, vm
    <3> QED BY <3>1 DEF UiStep
  <2>5. CASE DrainEnd(w) \/ Halt(w)
    <3>1. UNCHANGED <<ui, replayState, generation, result, marks>>
      BY <2>5 DEF DrainEnd, Halt, vm
    <3> QED BY <3>1 DEF UiStep
  <2>6. CASE TearDown(w) \/ ResetHost(w) \/ Health(w)
    <3>1. UNCHANGED <<ui, replayState, generation, result, marks>>
      BY <2>6 DEF TearDown, ResetHost, Health, mailbox, vm
    <3> QED BY <3>1 DEF UiStep
  <2>7. CASE Publish(w) \/ Finish(w)
    <3>1. UNCHANGED <<ui, replayState, generation, result, marks>>
      BY <2>7 DEF Publish, Finish, mailbox, vm
    <3> QED BY <3>1 DEF UiStep
  <2> QED BY <1>16, <2>1, <2>2, <2>3, <2>4, <2>5, <2>6, <2>7 DEF Drain
<1>17. UNCHANGED vars => UiStep
  <2>1. UNCHANGED vars => UNCHANGED <<ui, replayState, generation, result, marks>>
    BY DEF vars, mailbox, pool, vm
  <2> QED BY <2>1 DEF UiStep
<1> QED BY <1>13, <1>14, <1>15, <1>16, <1>17 DEF Next

\* What each of them does to the deferred calls: one joins, or the first is taken.
LEMMA SubscribeDeferred ==
    ASSUME Types, NEW s \in Subscriber, Subscribe(s)
    PROVE  /\ Len(deferred) \in Nat
           /\ \/ ~replayState.ready /\ deferred' = deferred
              \/ /\ replayState.ready
                 /\ Len(deferred') = Len(deferred) + 1
                 /\ \A i \in 1..Len(deferred) : deferred'[i] = deferred[i]
                 /\ deferred'[Len(deferred) + 1] = ReplayTask(s)
<1>1. deferred \in Seq(Task) /\ Len(deferred) \in Nat
  BY LenProperties DEF Types, UiTypes
<1> QED BY <1>1, ReplayTasksForm, AppendProperties

LEMMA PostResultDeferred ==
    ASSUME Types, NEW w \in Worker, PostResult(w)
    PROVE  /\ Len(deferred) \in Nat
           /\ Len(deferred') = Len(deferred) + 1
           /\ \A i \in 1..Len(deferred) : deferred'[i] = deferred[i]
           /\ deferred'[Len(deferred) + 1] = [sub |-> All, res |-> result[w]]
<1> DEFINE t == [sub |-> All, res |-> result[w]]
<1>1. t \in Task /\ deferred \in Seq(Task) /\ deferred' = Append(deferred, t)
  BY PostResultStep
<1> HIDE DEF t
<1>2. Len(deferred) \in Nat
  BY <1>1, LenProperties
<1> QED BY <1>1, <1>2, AppendProperties DEF t

LEMMA TakenDeferred ==
    ASSUME Types, Replay \/ Deliver
    PROVE  /\ Len(deferred) \in Nat /\ Len(deferred) > 0
           /\ Head(deferred) = deferred[1] /\ deferred[1] \in Task /\ deferred[1].res \in Result
           /\ Len(deferred') = Len(deferred) - 1
           /\ \A i \in 1..Len(deferred') : /\ i + 1 \in 1..Len(deferred)
                                           /\ deferred'[i] = deferred[i + 1]
<1>1. deferred # <<>> /\ deferred' = Tail(deferred)
  BY DEF Replay, Deliver
<1>2. /\ Head(deferred) \in Task /\ Head(deferred).res \in Result
      /\ Len(deferred) \in Nat /\ Len(deferred) > 0
      /\ Head(deferred) = deferred[1]
      /\ Len(Tail(deferred)) = Len(deferred) - 1
      /\ \A i \in 1..Len(Tail(deferred)) : Tail(deferred)[i] = deferred[i + 1]
  BY <1>1, DeferredHead
<1> QED BY <1>1, <1>2

\* A result that waits is of the VM whose generation it bears.
SentOfHost == \A i \in 1..Len(deferred) :
                deferred[i].sub = All => deferred[i].res.gen = deferred[i].res.by

LEMMA NextSentOfHost == Types /\ Ages /\ SentOfHost /\ [Next]_vars => SentOfHost'
<1> SUFFICES ASSUME Types, Ages, SentOfHost, UiStep PROVE SentOfHost'
  BY NextUi
<1>1. CASE UNCHANGED deferred
  BY <1>1 DEF SentOfHost
<1>2. ASSUME NEW s \in Subscriber, Subscribe(s) PROVE SentOfHost'
  <2>1. ReplayTask(s).sub # All
    BY ScriptRuntimeAssumption DEF ReplayTask
  <2>2. /\ Len(deferred) \in Nat
        /\ \/ deferred' = deferred
           \/ /\ Len(deferred') = Len(deferred) + 1
              /\ \A i \in 1..Len(deferred) : deferred'[i] = deferred[i]
              /\ deferred'[Len(deferred) + 1] = ReplayTask(s)
    BY <1>2, SubscribeDeferred
  <2>3. CASE deferred' = deferred
    BY <1>1, <2>3
  <2>4. CASE /\ Len(deferred') = Len(deferred) + 1
             /\ \A i \in 1..Len(deferred) : deferred'[i] = deferred[i]
             /\ deferred'[Len(deferred) + 1] = ReplayTask(s)
    BY <2>1, <2>2, <2>4 DEF SentOfHost
  <2> QED BY <2>2, <2>3, <2>4
<1>3. ASSUME NEW w \in Worker, PostResult(w) PROVE SentOfHost'
  <2>1. /\ Len(deferred) \in Nat
        /\ Len(deferred') = Len(deferred) + 1
        /\ \A i \in 1..Len(deferred) : deferred'[i] = deferred[i]
        /\ deferred'[Len(deferred) + 1] = [sub |-> All, res |-> result[w]]
    BY <1>3, PostResultDeferred
  <2>2. result[w].gen = result[w].by
    BY DEF Ages
  <2> QED BY <2>1, <2>2 DEF SentOfHost
<1>4. CASE Replay \/ Deliver
  <2>1. \A i \in 1..Len(deferred') : i + 1 \in 1..Len(deferred) /\ deferred'[i] = deferred[i + 1]
    BY <1>4, TakenDeferred
  <2> QED BY <2>1 DEF SentOfHost
<1>5. ASSUME NEW s \in Subscriber, Unsubscribe(s) PROVE SentOfHost'
  BY <1>1, <1>5 DEF Unsubscribe
<1>6. CASE Stop
  BY <1>1, <1>6 DEF Stop
<1> QED BY <1>1, <1>2, <1>3, <1>4, <1>5, <1>6 DEF UiStep, ui

\* A result is labelled with the generation of the VM that produced it, for every
\* interleaving of loads and drains: deliverResult() drops exactly the results of old VMs.
THEOREM ResultsOfTheirHost == Spec => []ResultOfItsHost
<1>1. Init => SentOfHost
  <2>1. Init => Len(deferred) = 0
    BY EmptySeq DEF Init
  <2> QED BY <2>1 DEF SentOfHost
<1>2. Core /\ Ages /\ SentOfHost /\ [Next]_vars => SentOfHost'
  BY NextSentOfHost DEF Core
<1>3. Core /\ Ages /\ SentOfHost => ResultOfItsHost
  <2> SUFFICES ASSUME Core, Ages, SentOfHost PROVE ResultOfItsHost
    OBVIOUS
  <2>1. DOMAIN deferred = 1..Len(deferred)
    BY LenProperties DEF Core, Types, UiTypes
  <2> QED BY <2>1 DEF Ages, SentOfHost, ResultOfItsHost
<1> QED BY <1>1, <1>2, <1>3, CoreAlways, AgesAlways, PTL DEF Spec

\* s has the state of the current generation, or a replay of it is on its way.
ServedOne(s) ==
  \/ view[s].gen = generation
  \/ \E i \in 1..Len(deferred) : deferred[i].sub = s /\ deferred[i].res.gen = generation

Served ==
  /\ replayState.ready => replayState.gen = generation
  /\ replayState.ready => \A s \in Live : ServedOne(s)

LEMMA SubscribeServed ==
    ASSUME Core, Served, NEW s \in Subscriber, Subscribe(s)
    PROVE  Served'
<1>1. /\ UNCHANGED <<view, replayState, generation>>
      /\ subscription' = [subscription EXCEPT ![s] = "live"]
  BY DEF Subscribe, mailbox
<1>2. SUFFICES ASSUME replayState.ready, NEW t \in Subscriber, subscription'[t] = "live"
               PROVE  ServedOne(t)'
  BY <1>1 DEF Served, Live
<1>3. /\ Len(deferred) \in Nat
      /\ Len(deferred') = Len(deferred) + 1
      /\ \A i \in 1..Len(deferred) : deferred'[i] = deferred[i]
      /\ deferred'[Len(deferred) + 1] = ReplayTask(s)
  BY <1>2, SubscribeDeferred DEF Core
<1>4. CASE t = s
  <2>1. ReplayTask(s).sub = s /\ ReplayTask(s).res.gen = generation
    BY <1>2 DEF ReplayTask, Served
  <2>2. Len(deferred) + 1 \in 1..Len(deferred')
    BY <1>3
  <2> QED BY <1>1, <1>3, <1>4, <2>1, <2>2 DEF ServedOne
<1>5. CASE t # s
  <2>1. t \in Live
    BY <1>1, <1>2, <1>5 DEF Live, Core, Types, UiTypes
  <2>2. ServedOne(t)
    BY <1>2, <2>1 DEF Served
  <2>3. \A i \in 1..Len(deferred) : i \in 1..Len(deferred')
    BY <1>3
  <2> QED BY <1>1, <1>3, <2>2, <2>3 DEF ServedOne
<1> QED BY <1>4, <1>5

\* A step that shows the first deferred call: whoever was waiting for it is served by it.
LEMMA ShownServed ==
    ASSUME Core, Served, Replay \/ Deliver, NEW s \in Subscriber, s \in Live, replayState.ready,
           generation' = generation,
           view'[s].gen = view[s].gen \/ view'[s].gen = generation,
           deferred[1].sub = s /\ deferred[1].res.gen = generation => view'[s].gen = generation
    PROVE  ServedOne(s)'
<1>1. /\ Len(deferred) \in Nat /\ Len(deferred') = Len(deferred) - 1
      /\ \A i \in 1..Len(deferred') : deferred'[i] = deferred[i + 1]
  BY TakenDeferred DEF Core
<1>2. CASE view'[s].gen = generation
  BY <1>2 DEF ServedOne
<1>3. CASE view'[s].gen # generation
  <2>1. PICK i \in 1..Len(deferred) : deferred[i].sub = s /\ deferred[i].res.gen = generation
    BY <1>3 DEF Served, ServedOne
  <2>2. i # 1
    BY <1>3, <2>1
  <2>3. i - 1 \in 1..Len(deferred') /\ (i - 1) + 1 = i
    BY <1>1, <2>2
  <2>4. deferred'[i - 1] = deferred[i]
    BY <1>1, <2>3
  <2> QED BY <2>1, <2>3, <2>4 DEF ServedOne
<1> QED BY <1>2, <1>3

\* The first deferred call bears the generation that it shows.
LEMMA ShownGen ==
    ASSUME NEW old, NEW res
    PROVE  Shown(old, res).gen = res.gen
  BY DEF Shown

LEMMA ReplayServed == Core /\ Served /\ Replay => Served'
<1> SUFFICES ASSUME Core, Served, Replay PROVE Served'
  OBVIOUS
<1> DEFINE task == Head(deferred)
<1>1. /\ UNCHANGED <<replayState, generation, subscription, stopped>>
      /\ view' = IF Outdated(task.res) \/ task.sub \notin Live THEN view
                 ELSE [view EXCEPT ![task.sub] = Shown(@, task.res)]
  BY DEF Replay, mailbox
<1>2. task = deferred[1]
  BY TakenDeferred DEF Core
<1> HIDE DEF task
<1>3. SUFFICES ASSUME replayState.ready, NEW s \in Subscriber, s \in Live PROVE ServedOne(s)'
  BY <1>1 DEF Served, Live
<1>4. ~stopped
  BY <1>3 DEF Core, Ending
<1>5. view \in [Subscriber -> [gen : Nat, mark : Nat]]
  BY DEF Core, Types, UiTypes
<1>6. CASE Outdated(task.res) \/ task.sub \notin Live
  <2>1. view' = view
    BY <1>1, <1>6
  <2>2. ~(task.sub = s /\ task.res.gen = generation)
    BY <1>3, <1>4, <1>6 DEF Outdated
  <2> QED BY <1>1, <1>2, <1>3, <2>1, <2>2, ShownServed
<1>7. CASE ~(Outdated(task.res) \/ task.sub \notin Live)
  <2>1. view' = [view EXCEPT ![task.sub] = Shown(view[task.sub], task.res)]
    BY <1>1, <1>5, <1>7
  <2>2. task.res.gen = generation
    BY <1>7 DEF Outdated
  <2>3. view'[s] = IF task.sub = s THEN Shown(view[s], task.res) ELSE view[s]
    BY <1>5, <2>1
  <2>4. /\ view'[s].gen = view[s].gen \/ view'[s].gen = generation
        /\ task.sub = s => view'[s].gen = generation
    BY <2>2, <2>3, ShownGen
  <2> QED BY <1>1, <1>2, <1>3, <2>4, ShownServed
<1> QED BY <1>6, <1>7

LEMMA DeliverServed == Core /\ Served /\ Deliver /\ generation' = generation => Served'
<1> SUFFICES ASSUME Core, Served, Deliver, generation' = generation PROVE Served'
  OBVIOUS
<1> DEFINE res == Head(deferred).res
<1>1. UNCHANGED <<subscription, stopped>> /\ Head(deferred).sub = All
  BY DEF Deliver
<1>2. Head(deferred) = deferred[1]
  BY TakenDeferred DEF Core
<1>3. Live' = Live
  BY <1>1 DEF Live
<1>4. CASE Outdated(res)
  <2>1. UNCHANGED <<replayState, view>>
    BY <1>4 DEF Deliver
  <2>2. ASSUME replayState.ready, NEW s \in Subscriber, s \in Live PROVE ServedOne(s)'
    <3>1. deferred[1].sub # s
      BY <1>1, <1>2, ScriptRuntimeAssumption
    <3> QED BY <2>1, <2>2, <3>1, ShownServed
  <2> QED BY <1>3, <2>1, <2>2 DEF Served, Live
<1>5. CASE ~Outdated(res)
  <2>1. /\ replayState'.gen = generation
        /\ view' = [s \in Subscriber |-> IF s \in Live THEN Shown(view[s], res) ELSE view[s]]
    BY <1>5 DEF Deliver
  <2> HIDE DEF res
  <2>2. res.gen = generation
    BY <1>5 DEF Outdated
  <2>3. \A s \in Live : view'[s].gen = generation
    BY <2>1, <2>2, ShownGen DEF Live
  <2>4. \A s \in Live : ServedOne(s)'
    BY <2>3 DEF ServedOne
  <2> QED BY <1>3, <2>1, <2>4 DEF Served
<1> QED BY <1>4, <1>5

LEMMA NextServed == Core /\ Served /\ [Next]_vars => Served'
<1> SUFFICES ASSUME Core, Served, UiStep PROVE Served'
  BY NextUi DEF Core
<1>1. ASSUME UNCHANGED <<deferred, view, generation, replayState>>, Live' \subseteq Live
      PROVE  Served'
  BY <1>1 DEF Served, ServedOne
<1>2. CASE UNCHANGED <<ui, replayState, generation>>
  BY <1>1, <1>2 DEF ui, Live
<1>3. ASSUME NEW s \in Subscriber, Unsubscribe(s) PROVE Served'
  <2>1. Live' \subseteq Live
    BY <1>3 DEF Unsubscribe, Live, Core, Types, UiTypes
  <2> QED BY <1>1, <1>3, <2>1 DEF Unsubscribe, mailbox
<1>4. CASE PushReload
  BY <1>4 DEF PushReload, NoReplay, Served
<1>5. CASE Stop
  <2>1. Live' = {}
    BY <1>5 DEF Stop, Live
  <2> QED BY <1>1, <1>5, <2>1 DEF Stop
<1>6. ASSUME NEW w \in Worker, PostResult(w) PROVE Served'
  <2>1. UNCHANGED <<view, generation, replayState, subscription>>
    BY <1>6 DEF PostResult, mailbox
  <2>2. /\ Len(deferred) \in Nat
        /\ Len(deferred') = Len(deferred) + 1
        /\ \A i \in 1..Len(deferred) : deferred'[i] = deferred[i]
    BY <1>6, PostResultDeferred DEF Core
  <2>3. \A i \in 1..Len(deferred) : i \in 1..Len(deferred') /\ deferred'[i] = deferred[i]
    BY <2>2
  <2>4. \A s : ServedOne(s) => ServedOne(s)'
    BY <2>1, <2>3 DEF ServedOne
  <2> QED BY <2>1, <2>4 DEF Served, Live
<1> QED BY <1>2, <1>3, <1>4, <1>5, <1>6, SubscribeServed, ReplayServed, DeliverServed DEF UiStep

\* Every subscriber has the state of the current generation or will be shown it, for
\* every number of subscribers and every moment at which one joins.
THEOREM SubscribersAreServed == Spec => []SubscriberServed
<1>1. Init => Served
  BY DEF Init, Served, NoReplay
<1>2. Core /\ Served => SubscriberServed
  <2> SUFFICES ASSUME Core, Served PROVE SubscriberServed
    OBVIOUS
  <2>1. DOMAIN deferred = 1..Len(deferred)
    BY LenProperties DEF Core, Types, UiTypes
  <2> QED BY <2>1 DEF Served, ServedOne, SubscriberServed
<1> QED BY <1>1, <1>2, NextServed, CoreAlways, PTL DEF Spec

-----------------------------------------------------------------------------
(* The order of what is shown.                                             *)

\* A thread has a result only from its first call into a script to its end.
Cleared == \A w \in Worker :
  pc[w] \in {"idle", "top", "teardown", "reset", "halt"} => result[w] = NoResult

LEMMA DrainCleared == \A w \in Worker : Types /\ Cleared /\ Drain(w) => Cleared'
<1> SUFFICES ASSUME NEW w \in Worker, Types, Cleared, Drain(w) PROVE Cleared'
  OBVIOUS
<1>1. ASSUME \A v \in Worker \ {w} : pc'[v] = pc[v] /\ result'[v] = result[v],
             pc'[w] \in {"idle", "top", "teardown", "reset", "halt"} => result'[w] = NoResult
      PROVE  Cleared'
  BY <1>1 DEF Cleared
<1>2. ASSUME NEW next, Goto(w, next), UNCHANGED result,
             next \in {"idle", "top", "teardown", "reset", "halt"} => result[w] = NoResult
      PROVE  Cleared'
  BY <1>1, <1>2, GotoPlace
<1>3. CASE Take(w) \/ DrainEnd(w) \/ TearDown(w) \/ Halt(w)
  <2>1. /\ UNCHANGED result /\ pc[w] \in {"idle", "top", "teardown", "reset", "halt"}
        /\ Goto(w, "top") \/ Goto(w, "idle") \/ Goto(w, "reset")
    BY <1>3 DEF Take, DrainEnd, TearDown, Halt
  <2> QED BY <1>2, <2>1 DEF Cleared
<1>4. CASE ResetHost(w)
  <2>1. UNCHANGED result /\ pc[w] = "reset" /\ (Goto(w, "halt") \/ Goto(w, "load"))
    BY <1>4 DEF ResetHost
  <2> QED BY <1>2, <2>1 DEF Cleared
<1>5. CASE Pop(w)
  <2>1. /\ result' = [result EXCEPT ![w] = NoResult]
        /\ \E step \in FirstSteps(queue[1]) : Goto(w, step)
    BY <1>5, PopStep
  <2>2. result'[w] = NoResult /\ \A v \in Worker \ {w} : result'[v] = result[v]
    BY <2>1 DEF Types, PoolTypes
  <2> QED BY <1>1, <2>1, <2>2, GotoPlace
<1>6. CASE RunScript(w)
  <2>1. PICK r \in Result : result' = [result EXCEPT ![w] = r]
    BY <1>6, RunScriptStep
  <2>2. Goto(w, "loaded") \/ Goto(w, "health")
    BY <1>6 DEF RunScript
  <2>3. \A v \in Worker \ {w} : result'[v] = result[v]
    BY <2>1 DEF Types, PoolTypes
  <2> QED BY <1>1, <2>2, <2>3, GotoPlace
<1>7. CASE Health(w)
  <2>1. UNCHANGED result /\ (Goto(w, "update") \/ Goto(w, "publish") \/ Goto(w, "finish"))
    BY <1>7 DEF Health
  <2> QED BY <1>2, <2>1
<1>8. CASE Publish(w)
  <2>1. UNCHANGED result /\ Goto(w, "finish")
    BY <1>8 DEF Publish
  <2> QED BY <1>2, <2>1
<1>9. CASE Finish(w)
  <2>1. UNCHANGED result /\ Goto(w, IF result[w] = NoResult THEN "top" ELSE "post")
    BY <1>9 DEF Finish
  <2> QED BY <1>2, <2>1
<1>10. CASE PostResult(w)
  <2>1. result' = [result EXCEPT ![w] = NoResult] /\ Goto(w, "top")
    BY <1>10 DEF PostResult
  <2>2. result'[w] = NoResult /\ \A v \in Worker \ {w} : result'[v] = result[v]
    BY <2>1 DEF Types, PoolTypes
  <2> QED BY <1>1, <2>1, <2>2, GotoPlace
<1> QED BY <1>3, <1>4, <1>5, <1>6, <1>7, <1>8, <1>9, <1>10 DEF Drain

LEMMA ClearedAlways == Spec => []Cleared
<1>1. Init => Cleared
  BY DEF Init, Cleared
<1>2. Core /\ Cleared /\ [Next]_vars => Cleared'
  <2> SUFFICES ASSUME Core, Cleared, [Next]_vars PROVE Cleared'
    OBVIOUS
  <2>1. UNCHANGED <<pc, result>> => Cleared'
    BY DEF Cleared
  <2>2. CASE Next
    <3>1. StepClass
      BY <2>2, NextCore
    <3>2. OfferStep \/ LoadStep \/ Stop \/ Post => UNCHANGED <<pc, result>>
      BY DEF OfferStep, LoadStep, Stop, Post, pool
    <3> QED BY <2>1, <3>1, <3>2, DrainCleared DEF StepClass, Core
  <2>3. CASE UNCHANGED vars
    BY <2>1, <2>3 DEF vars, pool
  <2> QED BY <2>2, <2>3
<1> QED BY <1>1, <1>2, CoreAlways, PTL DEF Spec

\* Nothing that is shown, or that a late subscriber would be sent, is newer than m.
ShownBy(m) == replayState.mark <= m /\ \A s \in Subscriber : view[s].mark <= m
\* Nothing that is on its way to the main thread is newer than m.
SentBy(m) == \A i \in 1..Len(deferred) : deferred[i].res.mark <= m

\* A result with a patch is newer than all that was sent or shown before it.
Order ==
  /\ ShownBy(marks) /\ SentBy(marks)
  /\ \A w \in Worker : /\ result[w].mark <= marks
                       /\ result[w].mark # 0 => ShownBy(result[w].mark) /\ SentBy(result[w].mark)
  /\ \A j \in 1..Len(deferred) :
       deferred[j].sub = All /\ deferred[j].res.mark # 0 =>
         /\ ShownBy(deferred[j].res.mark)
         /\ \A i \in 1..j : deferred[i].res.mark <= deferred[j].res.mark
  /\ \A s \in Subscriber : view[s].gen <= generation

LEMMA MarkTypes ==
    ASSUME Types
    PROVE  /\ marks \in Nat /\ generation \in Nat /\ replayState.mark \in Nat
           /\ \A s \in Subscriber : view[s].mark \in Nat /\ view[s].gen \in Nat
           /\ \A w \in Worker : result[w].mark \in Nat
           /\ Len(deferred) \in Nat
           /\ \A i \in 1..Len(deferred) : deferred[i].res.mark \in Nat
<1>1. marks \in Nat /\ generation \in Nat
  BY DEF Types, VmTypes, MailTypes
<1>2. replayState.mark \in Nat /\ \A s \in Subscriber : view[s].mark \in Nat /\ view[s].gen \in Nat
  BY DEF Types, UiTypes
<1>3. \A w \in Worker : result[w].mark \in Nat
  BY DEF Types, PoolTypes, Result
<1>4. Len(deferred) \in Nat /\ \A i \in 1..Len(deferred) : deferred[i] \in Task
  BY LenProperties, ElementOfSeq DEF Types, UiTypes
<1>5. \A i \in 1..Len(deferred) : deferred[i].res.mark \in Nat
  BY <1>4 DEF Task, Result
<1> QED BY <1>1, <1>2, <1>3, <1>4, <1>5

\* What does not touch the marks, and only takes results away.
LEMMA QuietOrder ==
    ASSUME Types, Order,
           deferred' = deferred, view' = view, replayState' = replayState,
           marks' = marks, generation' = generation,
           \A w \in Worker : result'[w].mark = result[w].mark \/ result'[w] = NoResult
    PROVE  Order'
<1>1. UNCHANGED <<deferred, view, replayState, marks, generation>>
  OBVIOUS
<1>2. \A m : (ShownBy(m) => ShownBy(m)') /\ (SentBy(m) => SentBy(m)')
  BY <1>1 DEF ShownBy, SentBy
<1>3. NoResult.mark = 0 /\ 0 <= marks
  BY MarkTypes DEF NoResult
<1>4. ASSUME NEW w \in Worker
      PROVE  /\ result'[w].mark <= marks'
             /\ result'[w].mark # 0 => ShownBy(result[w].mark) /\ SentBy(result[w].mark)
                                       /\ result'[w].mark = result[w].mark
  BY <1>1, <1>3 DEF Order
<1>5. ASSUME NEW w \in Worker, result'[w].mark # 0
      PROVE  (ShownBy(result[w].mark) /\ SentBy(result[w].mark))'
  <2>1. /\ ShownBy(result[w].mark) /\ SentBy(result[w].mark)
        /\ result'[w].mark = result[w].mark
    BY <1>4, <1>5
  <2> QED BY <1>1, <2>1 DEF ShownBy, SentBy
<1>6. ASSUME NEW j \in 1..Len(deferred'), deferred'[j].sub = All, deferred'[j].res.mark # 0
      PROVE  /\ ShownBy(deferred[j].res.mark)'
             /\ \A i \in 1..j : deferred'[i].res.mark <= deferred'[j].res.mark
  <2>1. ShownBy(deferred[j].res.mark) /\ \A i \in 1..j : deferred[i].res.mark <= deferred[j].res.mark
    BY <1>1, <1>6 DEF Order
  <2> QED BY <1>1, <2>1 DEF ShownBy
<1>7. (ShownBy(marks) /\ SentBy(marks))' /\ \A s \in Subscriber : view'[s].gen <= generation'
  BY <1>1 DEF Order, ShownBy, SentBy
<1> QED BY <1>4, <1>5, <1>6, <1>7 DEF Order

\* A patch is newer than everything before it.
LEMMA RunScriptOrder == \A w \in Worker : Core /\ Cleared /\ Order /\ RunScript(w) => Order'
<1> SUFFICES ASSUME NEW w \in Worker, Core, Cleared, Order, RunScript(w) PROVE Order'
  OBVIOUS
<1>1. Types /\ OneDrainAt
  BY DEF Core
<1>2. PICK r \in Result :
        /\ result' = [result EXCEPT ![w] = r]
        /\ \/ marks' = marks + 1 /\ r.mark = marks + 1
           \/ marks' = marks /\ r.mark = result[w].mark
  BY <1>1, RunScriptStep
<1>3. UNCHANGED <<deferred, view, replayState, generation>> /\ pc[w] # "idle"
  BY DEF RunScript, mailbox, ui
<1>4. \A v \in Worker \ {w} : result'[v] = NoResult
  <2>1. \A v \in Worker \ {w} : pc[v] = "idle"
    BY <1>1, <1>3, Alone
  <2> QED BY <1>1, <1>2, <2>1 DEF Cleared, Types, PoolTypes
<1>5. result'[w].mark = r.mark
  BY <1>1, <1>2 DEF Types, PoolTypes
<1>6. CASE marks' = marks /\ r.mark = result[w].mark
  <2>1. \A v \in Worker : result'[v].mark = result[v].mark \/ result'[v] = NoResult
    BY <1>4, <1>5, <1>6
  <2> QED BY <1>1, <1>3, <1>6, <2>1, QuietOrder
<1>7. CASE marks' = marks + 1 /\ r.mark = marks + 1
  <2>1. \A n \in Nat : n <= marks => n <= marks + 1
    BY <1>1, MarkTypes
  <2>2. ShownBy(marks + 1) /\ SentBy(marks + 1)
    BY <1>1, <2>1, MarkTypes DEF Order, ShownBy, SentBy
  <2>3. ShownBy(marks)' /\ SentBy(marks)'
    BY <1>3, <1>7, <2>2 DEF ShownBy, SentBy
  <2>4. marks + 1 \in Nat /\ NoResult.mark = 0 /\ 0 <= marks + 1 /\ marks + 1 <= marks + 1
    BY <1>1, MarkTypes DEF NoResult
  <2>5. ASSUME NEW v \in Worker
        PROVE  /\ result'[v].mark <= marks'
               /\ result'[v].mark # 0 => result'[v].mark = marks'
    BY <1>4, <1>5, <1>7, <2>4
  <2>6. ASSUME NEW v \in Worker, result'[v].mark # 0
        PROVE  (ShownBy(result[v].mark) /\ SentBy(result[v].mark))'
    BY <2>3, <2>5, <2>6 DEF ShownBy, SentBy
  <2>7. ASSUME NEW j \in 1..Len(deferred'), deferred'[j].sub = All, deferred'[j].res.mark # 0
        PROVE  /\ ShownBy(deferred[j].res.mark)'
               /\ \A i \in 1..j : deferred'[i].res.mark <= deferred'[j].res.mark
    <3>1. ShownBy(deferred[j].res.mark)
          /\ \A i \in 1..j : deferred[i].res.mark <= deferred[j].res.mark
      BY <1>3, <2>7 DEF Order
    <3> QED BY <1>3, <3>1 DEF ShownBy
  <2>8. \A s \in Subscriber : view'[s].gen <= generation'
    BY <1>3 DEF Order
  <2> QED BY <2>3, <2>5, <2>6, <2>7, <2>8 DEF Order
<1> QED BY <1>2, <1>6, <1>7

\* A load forgets what it would have replayed.
LEMMA LoadOrder ==
    ASSUME Types, Order, PushReload, UNCHANGED <<ui, result, marks>>
    PROVE  Order'
<1>1. UNCHANGED <<deferred, view, result, marks>> /\ replayState'.mark = 0
      /\ generation' = generation + 1
  BY DEF ui, PushReload, NoReplay
<1>2. \A m \in Nat : ShownBy(m) => ShownBy(m)'
  BY <1>1 DEF ShownBy
<1>3. \A m : SentBy(m) => SentBy(m)'
  BY <1>1 DEF SentBy
<1>4. ShownBy(marks)' /\ SentBy(marks)'
  BY <1>1, <1>2, <1>3, MarkTypes DEF Order, ShownBy, SentBy
<1>5. ASSUME NEW w \in Worker
      PROVE  /\ result'[w].mark <= marks'
             /\ result'[w].mark # 0 => (ShownBy(result[w].mark) /\ SentBy(result[w].mark))'
  <2>1. /\ result[w].mark <= marks
        /\ result[w].mark # 0 => ShownBy(result[w].mark) /\ SentBy(result[w].mark)
    BY DEF Order
  <2> QED BY <1>1, <2>1, MarkTypes DEF ShownBy, SentBy
<1>6. ASSUME NEW j \in 1..Len(deferred'), deferred'[j].sub = All, deferred'[j].res.mark # 0
      PROVE  /\ ShownBy(deferred[j].res.mark)'
             /\ \A i \in 1..j : deferred'[i].res.mark <= deferred'[j].res.mark
  <2>1. ShownBy(deferred[j].res.mark)
        /\ \A i \in 1..j : deferred[i].res.mark <= deferred[j].res.mark
    BY <1>1, <1>6 DEF Order
  <2>2. deferred[j].res.mark \in Nat
    BY <1>1, MarkTypes
  <2> QED BY <1>1, <2>1, <2>2 DEF ShownBy
<1>7. ASSUME NEW s \in Subscriber PROVE view'[s].gen <= generation'
  <2>1. view[s].gen <= generation /\ view[s].gen \in Nat /\ generation \in Nat
    BY MarkTypes DEF Order
  <2> QED BY <1>1, <2>1
<1> QED BY <1>4, <1>5, <1>6, <1>7 DEF Order

\* A replay that is sent is no newer than what is shown.
LEMMA SubscribeOrder ==
    ASSUME Types, Order, NEW s \in Subscriber, Subscribe(s)
    PROVE  Order'
<1>1. UNCHANGED <<view, replayState, result, marks, generation>>
  BY DEF Subscribe, mailbox, pool, vm
<1>2. \A m : ShownBy(m) => ShownBy(m)'
  BY <1>1 DEF ShownBy
<1>3. Len(deferred) \in Nat
  BY MarkTypes
<1>4. /\ \A i \in 1..Len(deferred) : i \in 1..Len(deferred') /\ deferred'[i] = deferred[i]
      /\ \A i \in 1..Len(deferred') : \/ i \in 1..Len(deferred)
                                      \/ deferred'[i] = ReplayTask(s)
  BY <1>3, SubscribeDeferred
<1>5. ReplayTask(s).sub # All /\ ReplayTask(s).res.mark = replayState.mark
  BY ScriptRuntimeAssumption DEF ReplayTask
<1>6. ASSUME NEW m, ShownBy(m), SentBy(m) PROVE SentBy(m)'
  BY <1>4, <1>5, <1>6 DEF ShownBy, SentBy
<1>7. ShownBy(marks)' /\ SentBy(marks)'
  <2>1. ShownBy(marks) /\ SentBy(marks)
    BY DEF Order
  <2> QED BY <1>1, <1>4, <1>5, <2>1 DEF ShownBy, SentBy
<1>8. ASSUME NEW w \in Worker
      PROVE  /\ result'[w].mark <= marks'
             /\ result'[w].mark # 0 => (ShownBy(result[w].mark) /\ SentBy(result[w].mark))'
  <2>1. /\ result[w].mark <= marks
        /\ result[w].mark # 0 => ShownBy(result[w].mark) /\ SentBy(result[w].mark)
    BY DEF Order
  <2> QED BY <1>1, <1>4, <1>5, <2>1 DEF ShownBy, SentBy
<1>9. ASSUME NEW j \in 1..Len(deferred'), deferred'[j].sub = All, deferred'[j].res.mark # 0
      PROVE  /\ ShownBy(deferred[j].res.mark)'
             /\ \A i \in 1..j : deferred'[i].res.mark <= deferred'[j].res.mark
  <2>1. j \in 1..Len(deferred) /\ deferred'[j] = deferred[j]
    BY <1>4, <1>5, <1>9
  <2>2. ShownBy(deferred[j].res.mark)
        /\ \A i \in 1..j : deferred[i].res.mark <= deferred[j].res.mark
    BY <1>9, <2>1 DEF Order
  <2>3. \A i \in 1..j : i \in 1..Len(deferred) /\ deferred'[i] = deferred[i]
    BY <1>3, <1>4, <2>1
  <2> QED BY <1>1, <2>1, <2>2, <2>3 DEF ShownBy
<1>10. \A t \in Subscriber : view'[t].gen <= generation'
  BY <1>1 DEF Order
<1> QED BY <1>7, <1>8, <1>9, <1>10 DEF Order

\* A result joins the deferred calls behind what it is newer than.
LEMMA PostResultOrder ==
    ASSUME Core, Cleared, Order, NEW w \in Worker, PostResult(w)
    PROVE  Order'
<1> DEFINE n == Len(deferred)
<1>1. Types /\ OneDrainAt
  BY DEF Core
<1>2. UNCHANGED <<view, replayState, marks, generation>> /\ pc[w] # "idle"
      /\ result' = [result EXCEPT ![w] = NoResult]
  BY DEF PostResult, mailbox, vm
<1>3. \A v \in Worker : result'[v] = NoResult
  <2>1. \A v \in Worker \ {w} : pc[v] = "idle"
    BY <1>1, <1>2, Alone
  <2> QED BY <1>1, <1>2, <2>1 DEF Cleared, Types, PoolTypes
<1>4. /\ n \in Nat /\ Len(deferred') = n + 1
      /\ \A i \in 1..n : deferred'[i] = deferred[i]
      /\ deferred'[n + 1] = [sub |-> All, res |-> result[w]]
  BY <1>1, PostResultDeferred
<1>5. \A i \in 1..Len(deferred') : i \in 1..n \/ i = n + 1
  BY <1>4
<1>6. deferred'[n + 1].res.mark = result[w].mark
  BY <1>4
<1>7. /\ result[w].mark <= marks
      /\ result[w].mark # 0 => ShownBy(result[w].mark) /\ SentBy(result[w].mark)
      /\ result[w].mark \in Nat
  BY <1>1, MarkTypes DEF Order
<1> HIDE DEF n
<1>8. ShownBy(marks)' /\ SentBy(marks)'
  <2>1. ShownBy(marks) /\ \A i \in 1..n : deferred[i].res.mark <= marks
    BY DEF Order, SentBy, n
  <2> QED BY <1>2, <1>4, <1>5, <1>6, <1>7, <2>1 DEF ShownBy, SentBy
<1>9. ASSUME NEW v \in Worker
      PROVE  /\ result'[v].mark <= marks'
             /\ result'[v].mark # 0 => (ShownBy(result[v].mark) /\ SentBy(result[v].mark))'
  <2>1. result'[v].mark = 0 /\ 0 <= marks'
    BY <1>1, <1>2, <1>3, MarkTypes DEF NoResult
  <2> QED BY <2>1
<1>10. ASSUME NEW j \in 1..Len(deferred'), deferred'[j].sub = All, deferred'[j].res.mark # 0
       PROVE  /\ ShownBy(deferred[j].res.mark)'
              /\ \A i \in 1..j : deferred'[i].res.mark <= deferred'[j].res.mark
  <2>1. CASE j \in 1..n
    <3>1. ShownBy(deferred[j].res.mark)
          /\ \A i \in 1..j : deferred[i].res.mark <= deferred[j].res.mark
      BY <1>4, <1>10, <2>1 DEF Order, n
    <3>2. \A i \in 1..j : i \in 1..n /\ deferred'[i] = deferred[i]
      BY <1>4, <2>1
    <3> QED BY <1>2, <1>4, <2>1, <3>1, <3>2 DEF ShownBy
  <2>2. CASE j = n + 1
    <3>1. ShownBy(result[w].mark) /\ \A i \in 1..n : deferred[i].res.mark <= result[w].mark
      BY <1>6, <1>7, <1>10, <2>2 DEF SentBy, n
    <3>2. ShownBy(deferred[j].res.mark)'
      BY <1>2, <1>6, <2>2, <3>1 DEF ShownBy
    <3>3. ASSUME NEW i \in 1..j PROVE deferred'[i].res.mark <= deferred'[j].res.mark
      <4>1. i \in 1..n \/ i = j
        BY <1>4, <2>2
      <4>2. CASE i \in 1..n
        BY <1>4, <1>6, <2>2, <3>1, <4>2
      <4>3. CASE i = j
        BY <1>6, <1>7, <2>2, <4>3
      <4> QED BY <4>1, <4>2, <4>3
    <3> QED BY <3>2, <3>3
  <2> QED BY <1>5, <2>1, <2>2
<1>11. \A s \in Subscriber : view'[s].gen <= generation'
  BY <1>2 DEF Order
<1> QED BY <1>8, <1>9, <1>10, <1>11 DEF Order

\* What is shown from the head of the deferred calls is no newer than what is behind it.
LEMMA TakenOrder ==
    ASSUME Types, Order, Replay \/ Deliver,
           marks' = marks, result' = result, generation' = generation,
           \A m \in Nat : ShownBy(m) /\ deferred[1].res.mark <= m => ShownBy(m)',
           \A s \in Subscriber : view'[s].gen <= generation
    PROVE  Order'
<1>1. /\ Len(deferred) \in Nat /\ Len(deferred) > 0
      /\ Len(deferred') = Len(deferred) - 1
      /\ \A i \in 1..Len(deferred') : /\ i + 1 \in 1..Len(deferred)
                                      /\ deferred'[i] = deferred[i + 1]
  BY TakenDeferred
<1>2. 1 \in 1..Len(deferred)
  BY <1>1
<1>3. ASSUME NEW m \in Nat, ShownBy(m), SentBy(m) PROVE ShownBy(m)' /\ SentBy(m)'
  <2>1. deferred[1].res.mark <= m
    BY <1>2, <1>3 DEF SentBy
  <2>2. SentBy(m)'
    BY <1>1, <1>3 DEF SentBy
  <2> QED BY <1>3, <2>1, <2>2
<1>4. ShownBy(marks)' /\ SentBy(marks)'
  <2>1. marks \in Nat /\ ShownBy(marks) /\ SentBy(marks)
    BY MarkTypes DEF Order
  <2> QED BY <1>3, <2>1 DEF ShownBy, SentBy
<1>5. ASSUME NEW w \in Worker
      PROVE  /\ result'[w].mark <= marks'
             /\ result'[w].mark # 0 => (ShownBy(result[w].mark) /\ SentBy(result[w].mark))'
  <2>1. /\ result[w].mark <= marks /\ result[w].mark \in Nat
        /\ result[w].mark # 0 => ShownBy(result[w].mark) /\ SentBy(result[w].mark)
    BY MarkTypes DEF Order
  <2> QED BY <1>3, <2>1 DEF ShownBy, SentBy
<1>6. ASSUME NEW j \in 1..Len(deferred'), deferred'[j].sub = All, deferred'[j].res.mark # 0
      PROVE  /\ ShownBy(deferred[j].res.mark)'
             /\ \A i \in 1..j : deferred'[i].res.mark <= deferred'[j].res.mark
  <2>1. j + 1 \in 1..Len(deferred) /\ deferred'[j] = deferred[j + 1]
    BY <1>1
  <2>2. /\ ShownBy(deferred[j + 1].res.mark)
        /\ \A i \in 1..(j + 1) : deferred[i].res.mark <= deferred[j + 1].res.mark
    BY <1>6, <2>1 DEF Order
  <2>3. 1 \in 1..(j + 1) /\ deferred[j + 1].res.mark \in Nat
    BY <2>1, MarkTypes
  <2>4. ShownBy(deferred[j].res.mark)'
    BY <2>1, <2>2, <2>3 DEF ShownBy
  <2>5. \A i \in 1..j : i \in 1..Len(deferred') /\ i + 1 \in 1..(j + 1)
    BY <1>1
  <2>6. \A i \in 1..j : deferred'[i] = deferred[i + 1]
    BY <1>1, <2>5
  <2>7. \A i \in 1..j : deferred'[i].res.mark <= deferred'[j].res.mark
    BY <2>1, <2>2, <2>5, <2>6
  <2> QED BY <2>4, <2>7
<1> QED BY <1>4, <1>5, <1>6 DEF Order

\* A view takes the generation of what it is shown, and its mark or none.
LEMMA ShownMark ==
    ASSUME NEW old, NEW res
    PROVE  Shown(old, res).mark = old.mark \/ Shown(old, res).mark = res.mark
  BY DEF Shown

LEMMA ReplayOrder == Types /\ Order /\ Replay => Order'
<1> SUFFICES ASSUME Types, Order, Replay PROVE Order'
  OBVIOUS
<1> DEFINE task == Head(deferred)
<1>1. /\ UNCHANGED <<replayState, generation, marks, result>>
      /\ view' = IF Outdated(task.res) \/ task.sub \notin Live THEN view
                 ELSE [view EXCEPT ![task.sub] = Shown(view[task.sub], task.res)]
  BY DEF Replay, mailbox, pool, vm, Types, UiTypes, Live
<1>2. task = deferred[1]
  BY TakenDeferred
<1> HIDE DEF task
<1>3. view \in [Subscriber -> [gen : Nat, mark : Nat]] /\ generation \in Nat
  BY MarkTypes DEF Types, UiTypes
<1>4. ASSUME NEW s \in Subscriber
      PROVE  \/ view'[s] = view[s]
             \/ view'[s] = Shown(view[s], task.res) /\ task.res.gen = generation
  BY <1>1, <1>3 DEF Outdated
<1>5. \A s \in Subscriber : view'[s].gen <= generation
  <2>1. \A s \in Subscriber : view[s].gen <= generation
    BY DEF Order
  <2> QED BY <1>3, <1>4, <2>1, ShownGen
<1>6. \A s \in Subscriber : view'[s].mark = view[s].mark \/ view'[s].mark = task.res.mark
  BY <1>4, ShownMark
<1>7. \A m \in Nat : ShownBy(m) /\ deferred[1].res.mark <= m => ShownBy(m)'
  BY <1>1, <1>2, <1>6 DEF ShownBy
<1> QED BY <1>1, <1>5, <1>7, TakenOrder

\* What deliverResult() shows: nobody, or everybody who subscribes, a result of
\* the current generation.
LEMMA DeliverShows ==
    ASSUME Types, Deliver, NEW s \in Subscriber
    PROVE  \/ view'[s] = view[s]
           \/ view'[s] = Shown(view[s], deferred[1].res) /\ deferred[1].res.gen = generation
<1> DEFINE res == Head(deferred).res
<1>1. res = deferred[1].res
  BY TakenDeferred
<1>2. CASE Outdated(res)
  BY <1>2 DEF Deliver
<1>3. CASE ~Outdated(res)
  <2>1. view' = [t \in Subscriber |-> IF t \in Live THEN Shown(view[t], res) ELSE view[t]]
    BY <1>3 DEF Deliver
  <2> HIDE DEF res
  <2>2. res.gen = generation
    BY <1>3 DEF Outdated
  <2> QED BY <1>1, <2>1, <2>2
<1> QED BY <1>2, <1>3

LEMMA DeliverOrder == Types /\ Order /\ Deliver /\ generation' = generation => Order'
<1> SUFFICES ASSUME Types, Order, Deliver, generation' = generation PROVE Order'
  OBVIOUS
<1> DEFINE res == Head(deferred).res
<1>1. UNCHANGED <<marks, result>>
  BY DEF Deliver, pool, vm
<1>2. res = deferred[1].res
  BY TakenDeferred
<1>3. replayState'.mark = replayState.mark \/ replayState'.mark = res.mark
  <2>1. CASE Outdated(res)
    BY <2>1 DEF Deliver
  <2>2. CASE ~Outdated(res)
    <3>1. replayState' = [ready |-> replayState.ready \/ res.load \/ res.mark # 0,
                          gen |-> generation,
                          mark |-> IF res.mark # 0 THEN res.mark ELSE replayState.mark]
      BY <2>2 DEF Deliver
    <3> HIDE DEF res
    <3> QED BY <3>1
  <2> QED BY <2>1, <2>2
<1> HIDE DEF res
<1>4. \A s \in Subscriber : \/ view'[s] = view[s]
                            \/ view'[s] = Shown(view[s], res) /\ res.gen = generation
  BY <1>2, DeliverShows
<1>5. \A s \in Subscriber : view'[s].gen <= generation
  <2>1. generation \in Nat /\ \A s \in Subscriber : view[s].gen <= generation
    BY MarkTypes DEF Order
  <2> QED BY <1>4, <2>1, ShownGen
<1>6. \A s \in Subscriber : view'[s].mark = view[s].mark \/ view'[s].mark = res.mark
  BY <1>4, ShownMark
<1>7. \A m \in Nat : ShownBy(m) /\ deferred[1].res.mark <= m => ShownBy(m)'
  BY <1>2, <1>3, <1>6 DEF ShownBy
<1> QED BY <1>1, <1>5, <1>7, TakenOrder

LEMMA NextOrder == Core /\ Cleared /\ Order /\ [Next]_vars => Order'
<1> SUFFICES ASSUME Core, Cleared, Order, UiStep PROVE Order'
  BY NextUi DEF Core
<1>1. Types
  BY DEF Core
<1>2. CASE UNCHANGED <<ui, replayState, generation>> /\ UNCHANGED <<result, marks>>
  BY <1>1, <1>2, QuietOrder DEF ui
<1>3. ASSUME NEW w \in Worker, Pop(w) PROVE Order'
  <2>1. /\ UNCHANGED <<deferred, view, replayState, marks, generation>>
        /\ result' = [result EXCEPT ![w] = NoResult]
    BY <1>3 DEF Pop, vm, ui
  <2>2. \A v \in Worker : result'[v].mark = result[v].mark \/ result'[v] = NoResult
    BY <1>1, <2>1 DEF Types, PoolTypes
  <2> QED BY <1>1, <2>1, <2>2, QuietOrder
<1>4. ASSUME NEW s \in Subscriber, Unsubscribe(s) PROVE Order'
  <2>1. UNCHANGED <<deferred, view, replayState, marks, generation, result>>
    BY <1>4 DEF Unsubscribe, vm, mailbox, pool
  <2> QED BY <1>1, <2>1, QuietOrder
<1>5. CASE Stop
  <2>1. UNCHANGED <<deferred, view, replayState, marks, generation, result>>
    BY <1>5 DEF Stop, vm, pool
  <2> QED BY <1>1, <2>1, QuietOrder
<1> QED BY <1>1, <1>2, <1>3, <1>4, <1>5, RunScriptOrder, SubscribeOrder, ReplayOrder,
           DeliverOrder, LoadOrder, PostResultOrder DEF UiStep

LEMMA OrderAlways == Spec => []Order
<1>1. Init => Order
  <2> SUFFICES ASSUME Init PROVE Order
    OBVIOUS
  <2>1. Len(deferred) = 0
    BY EmptySeq DEF Init
  <2>2. /\ marks = 0 /\ generation = 0 /\ replayState.mark = 0
        /\ \A w \in Worker : result[w].mark = 0
        /\ \A s \in Subscriber : view[s].gen = 0 /\ view[s].mark = 0
    BY DEF Init, NoReplay, NoResult
  <2> QED BY <2>1, <2>2 DEF Order, ShownBy, SentBy
<1> QED BY <1>1, NextOrder, CoreAlways, ClearedAlways, PTL DEF Spec

\* A subscriber never goes back to an earlier generation, and to an earlier result of
\* the same one only by its own replay, for every number of subscribers, threads and
\* deferred calls.
THEOREM ViewsOnlyAdvance == Spec => ViewsAdvance
<1> DEFINE Forward(s) == /\ view'[s].gen >= view[s].gen
                         /\ view'[s].mark < view[s].mark /\ view'[s].gen = view[s].gen =>
                              Head(deferred).sub = s
<1>1. Core /\ Order /\ [Next]_vars => [\A s \in Subscriber : Forward(s)]_vars
  <2> SUFFICES ASSUME Core, Order, UiStep, NEW s \in Subscriber PROVE Forward(s)
    BY NextUi DEF Core
  <2>1. /\ Types
        /\ view[s].mark \in Nat /\ view[s].gen \in Nat /\ generation \in Nat
        /\ view[s].gen <= generation
    BY MarkTypes DEF Core, Order
  <2>2. CASE view'[s] = view[s]
    BY <2>1, <2>2
  <2>3. CASE Replay /\ view'[s] # view[s]
    <3> DEFINE task == Head(deferred)
    <3>1. /\ view' = IF Outdated(task.res) \/ task.sub \notin Live THEN view
                     ELSE [view EXCEPT ![task.sub] = Shown(view[task.sub], task.res)]
          /\ view \in [Subscriber -> [gen : Nat, mark : Nat]]
      BY <2>1, <2>3 DEF Replay, Types, UiTypes, Live
    <3> HIDE DEF task
    <3>2. task.sub = s /\ task.res.gen = generation /\ view'[s] = Shown(view[s], task.res)
      BY <2>3, <3>1 DEF Outdated
    <3>3. view'[s].gen = generation
      BY <3>2, ShownGen
    <3> QED BY <2>1, <3>2, <3>3 DEF task
  <2>4. CASE Deliver /\ view'[s] # view[s]
    <3> DEFINE res == deferred[1].res
    <3>1. view'[s] = Shown(view[s], res) /\ res.gen = generation
      BY <2>1, <2>4, DeliverShows
    <3>2. /\ Len(deferred) \in Nat /\ Len(deferred) > 0 /\ Head(deferred) = deferred[1]
      BY <2>1, <2>4, TakenDeferred
    <3>3. 1 \in 1..Len(deferred) /\ deferred[1].sub = All /\ res.mark \in Nat
      BY <2>1, <2>4, <3>2, MarkTypes DEF Deliver
    <3>4. res.mark # 0 => view[s].mark <= res.mark
      BY <3>3 DEF Order, ShownBy
    <3> HIDE DEF res
    <3>5. view'[s].gen = generation
      BY <3>1, ShownGen
    <3>6. view'[s].gen = view[s].gen => view'[s].mark >= view[s].mark
      BY <2>1, <3>1, <3>3, <3>4, <3>5 DEF Shown
    <3>7. view'[s].mark \in Nat
      BY <2>1, <3>1, <3>3, ShownMark
    <3> QED BY <2>1, <3>5, <3>6, <3>7
  <2>5. Replay \/ Deliver \/ view' = view
    <3>1. \A t \in Subscriber : Subscribe(t) \/ Unsubscribe(t) => view' = view
      BY DEF Subscribe, Unsubscribe
    <3>2. \A w \in Worker : PostResult(w) => view' = view
      BY DEF PostResult
    <3>3. Stop => view' = view
      BY DEF Stop
    <3> QED BY <3>1, <3>2, <3>3 DEF UiStep, ui
  <2> QED BY <2>2, <2>3, <2>4, <2>5
<1> QED BY <1>1, CoreAlways, OrderAlways, PTL DEF Spec, ViewsAdvance

-----------------------------------------------------------------------------
(* ScriptRuntime implements ScriptMailbox.  First what an enqueuer does.   *)

\* A place of the queue is the first of its kinds when it is the oldest of those.
LEMMA OldestIsFirst ==
    ASSUME MailTypes, NEW kinds, NEW S,
           S = {i \in DOMAIN queue : queue[i].kind \in kinds}, S # {}
    PROVE  Oldest(S) \in DOMAIN queue /\ Mailbox!First(Oldest(S), kinds)
<1>1. DOMAIN queue = 1..Len(queue) /\ Len(queue) \in Nat
  BY LenProperties DEF MailTypes
<1>2. S \in SUBSET Nat
  BY <1>1
<1>3. Oldest(S) \in S /\ \A j \in S : Oldest(S) <= j
  BY <1>2, OldestIsIn
<1> DEFINE x == Oldest(S)
<1>4. x \in 1..Len(queue) /\ queue[x].kind \in kinds
  BY <1>1, <1>3
<1>5. \A j \in S : x <= j
  BY <1>3
<1> HIDE DEF x
<1>6. ASSUME NEW j \in 1..(x - 1) PROVE queue[j].kind \notin kinds
  <2>1. j \in 1..Len(queue) /\ ~(x <= j)
    BY <1>1, <1>4
  <2> QED BY <1>1, <1>5, <2>1
<1> QED BY <1>1, <1>4, <1>6 DEF x, Mailbox!First

\* The VM and the threads as the mailbox shows them.
Shows == <<Handled, host.gen, Phase>>

\* Whatever an enqueuer offers, the mailbox accepts it, makes room or replaces for it,
\* or stays as it was.
LEMMA EnqueueIsOffer ==
    ASSUME MailTypes, NEW kind \in EventKind \ {"Reload", "Stop"}, NEW src \in 0..MaxGen,
           Enqueue(kind, src), UNCHANGED Shows
    PROVE  Mailbox!Next \/ UNCHANGED Mailbox!vars
<1>1. UNCHANGED <<Handled, host.gen, Phase>> /\ kind \in Mailbox!Call
  BY DEF Shows, Mailbox!Call
<1>2. ~Refused(kind) => Phase = "open"
  BY DEF Refused, Phase
<1>3. \/ Mailbox!Accept(kind, src) \/ Mailbox!Evict(kind, src) \/ Mailbox!Replace(kind, src)
      \/ UNCHANGED Mailbox!vars
  <2>1. CASE UNCHANGED <<queue, generation>>
    BY <1>1, <2>1 DEF Mailbox!vars
  <2>2. CASE Supersede(kind, src)
    <3>1. StreamSlots # {} /\ kind = "Stream" /\ ~Refused(kind) /\ generation' = generation
      BY <2>2 DEF Supersede, Superseding
    <3>2. StreamSlots = {i \in DOMAIN queue : queue[i].kind \in {kind}}
      BY <3>1 DEF StreamSlots
    <3>3. Oldest(StreamSlots) \in DOMAIN queue /\ Mailbox!First(Oldest(StreamSlots), {kind})
      BY <3>1, <3>2, OldestIsFirst
    <3>4. queue' = [queue EXCEPT ![Oldest(StreamSlots)] = Mailbox!Event(kind, src)]
      BY <2>2 DEF Supersede, Mailbox!Event
    <3> QED BY <1>1, <1>2, <3>1, <3>3, <3>4 DEF Mailbox!Replace
  <2>3. CASE Push(kind, src)
    <3>1. /\ ~Refused(kind) /\ ~NoRoom(kind) /\ generation' = generation
          /\ queue' = Append(Room(kind), Mailbox!Event(kind, src))
      BY <2>3 DEF Push, Mailbox!Event
    <3>2. Len(queue) \in Nat /\ MaxQueue \in Nat
      BY LenProperties, ScriptRuntimeAssumption DEF MailTypes
    <3>3. CASE ~Full(kind)
      <4>1. Room(kind) = queue
        BY <3>3 DEF Room
      <4>2. Len(queue) < MaxQueue \/ kind \in {"Sound"}
        BY <3>2, <3>3 DEF Full
      <4> QED BY <1>1, <1>2, <3>1, <4>1, <4>2 DEF Mailbox!Accept
    <3>4. CASE Full(kind)
      <4>1. /\ Len(queue) >= MaxQueue /\ kind \notin {"Update", "Hover"} /\ Droppable # {}
            /\ Room(kind) = RemoveAt(queue, Oldest(Droppable))
        BY <3>1, <3>4 DEF Full, NoRoom, Room
      <4>2. /\ Oldest(Droppable) \in DOMAIN queue
            /\ Mailbox!First(Oldest(Droppable), {"Update", "Hover"})
        BY <4>1, OldestIsFirst DEF Droppable
      <4>3. Room(kind) = Mailbox!RemoveAt(queue, Oldest(Droppable))
        BY <4>1 DEF RemoveAt, Mailbox!RemoveAt
      <4> QED BY <1>1, <1>2, <3>1, <4>1, <4>2, <4>3 DEF Mailbox!Evict
    <3> QED BY <3>3, <3>4
  <2>4. Refuse(kind) \/ SkipUpdate(kind) \/ Drop(kind) => UNCHANGED <<queue, generation>>
    BY DEF Refuse, SkipUpdate, Drop, mailbox
  <2> QED BY <2>1, <2>2, <2>3, <2>4 DEF Enqueue
<1> QED BY <1>1, <1>3 DEF Mailbox!Next

\* The source of every event that is offered, now or later, is a VM within the bound.
Handles ==
  /\ host.id \in 0..MaxGen
  /\ asked \subseteq 0..MaxGen /\ watchers \subseteq 0..MaxGen /\ copied \subseteq 0..MaxGen
  /\ \A w \in Worker : result[w].sound \in 0..MaxGen
  /\ \A i \in 1..Len(deferred) : deferred[i].res.sound \in 0..MaxGen

Keeps == <<stopping, stopped, host, hosts, pc, event>>

\* The steps as the mailbox sees them.
MailClass ==
  \/ UNCHANGED <<queue, generation>> /\ UNCHANGED Keeps
  \/ /\ \E kind \in EventKind \ {"Reload", "Stop"}, src \in 0..MaxGen : Enqueue(kind, src)
     /\ UNCHANGED Keeps
  \/ PushReload /\ UNCHANGED Keeps
  \/ Stop
  \/ \E w \in Worker : Drain(w)

LEMMA NextMail == Types /\ Handles /\ [Next]_vars => MailClass
<1> SUFFICES ASSUME Types, Handles, [Next]_vars PROVE MailClass
  OBVIOUS
<1>1. ASSUME NEW kind \in EventKind \ {"Reload", "Stop"}, NEW src \in 0..MaxGen,
             Enqueue(kind, src), UNCHANGED Keeps
      PROVE  MailClass
  BY <1>1 DEF MailClass
<1>2. ASSUME EnqueueReload, UNCHANGED Keeps PROVE MailClass
  <2>1. PushReload \/ UNCHANGED <<mailbox, health, replayState>>
    BY <1>2, EnqueueReloadStep
  <2> QED BY <1>2, <2>1 DEF MailClass, mailbox
<1>3. ASSUME UNCHANGED <<queue, generation>>, UNCHANGED Keeps PROVE MailClass
  BY <1>3 DEF MailClass
<1>4. 0 \in 0..MaxGen
  BY ScriptRuntimeAssumption
<1>5. ASSUME NEW kind \in Kinds, Client(kind) PROVE MailClass
  <2>1. kind \in EventKind \ {"Reload", "Stop"}
    BY ScriptRuntimeAssumption DEF EventKind, ClientKind
  <2>2. UNCHANGED Keeps /\ Enqueue(kind, 0)
    BY <1>5 DEF Client, Keeps, vm, pool
  <2> QED BY <1>1, <1>4, <2>1, <2>2
<1>6. ASSUME NEW h \in asked, AsyncDone(h) PROVE MailClass
  <2>1. h \in 0..MaxGen /\ "Async" \in EventKind \ {"Reload", "Stop"}
    BY DEF Handles, EventKind
  <2>2. UNCHANGED Keeps /\ Enqueue("Async", h)
    BY <1>6 DEF AsyncDone, Keeps, pool
  <2> QED BY <1>1, <2>1, <2>2
<1>7. ASSUME NEW h \in copied, Notify(h) PROVE MailClass
  <2>1. h \in 0..MaxGen /\ "Watch" \in EventKind \ {"Reload", "Stop"}
    BY DEF Handles, EventKind
  <2>2. UNCHANGED Keeps /\ Enqueue("Watch", h)
    BY <1>7 DEF Notify, Keeps, vm, pool
  <2> QED BY <1>1, <2>1, <2>2
<1>8. ASSUME NEW s \in Subscriber, Subscribe(s) \/ Unsubscribe(s) PROVE MailClass
  <2>1. UNCHANGED <<queue, generation>> /\ UNCHANGED Keeps
    BY <1>8 DEF Subscribe, Unsubscribe, Keeps, mailbox, vm, pool
  <2> QED BY <1>3, <2>1
<1>9. CASE Reload
  <2>1. EnqueueReload /\ UNCHANGED Keeps
    BY <1>9 DEF Reload, Keeps, vm, pool
  <2> QED BY <1>2, <2>1
<1>10. CASE StateSet \/ ConfigChange
  <2>1. UNCHANGED <<queue, generation>> /\ UNCHANGED Keeps
    BY <1>10 DEF StateSet, ConfigChange, Keeps, mailbox, vm, pool
  <2> QED BY <1>3, <2>1
<1>11. Environment => MailClass
  <2>1. Stop => MailClass
    BY DEF MailClass
  <2> QED BY <1>5, <1>6, <1>7, <1>8, <1>9, <1>10, <2>1 DEF Environment
<1>12. CASE GrantWish
  <2>1. UNCHANGED Keeps
    BY <1>12 DEF GrantWish, Keeps, vm, pool
  <2>2. EnqueueReload \/ Enqueue("Settings", 0)
    BY <1>12 DEF GrantWish
  <2>3. "Settings" \in EventKind \ {"Reload", "Stop"}
    BY DEF EventKind
  <2> QED BY <1>1, <1>2, <1>4, <2>1, <2>2, <2>3
<1>13. CASE Replay \/ StopReturn \/ Post
  <2>1. UNCHANGED <<queue, generation>> /\ UNCHANGED Keeps
    BY <1>13 DEF Replay, StopReturn, Post, Keeps, mailbox, vm, pool
  <2> QED BY <1>3, <2>1
<1>14. CASE Deliver
  <2>1. UNCHANGED Keeps
    BY <1>14 DEF Deliver, Keeps, vm, pool
  <2>2. \/ UNCHANGED <<queue, generation>>
        \/ Enqueue("Sound", Head(deferred).res.sound)
    BY <1>14 DEF Deliver, mailbox
  <2>3. Head(deferred).res.sound \in 0..MaxGen
    <3>1. Len(deferred) \in Nat /\ Len(deferred) > 0 /\ Head(deferred) = deferred[1]
      BY <1>14, TakenDeferred
    <3> QED BY <3>1 DEF Handles
  <2>4. "Sound" \in EventKind \ {"Reload", "Stop"}
    BY DEF EventKind
  <2> QED BY <1>1, <1>3, <2>1, <2>2, <2>3, <2>4
<1>15. CASE UNCHANGED vars
  <2>1. UNCHANGED <<queue, generation>> /\ UNCHANGED Keeps
    BY <1>15 DEF vars, Keeps, mailbox, vm, pool
  <2> QED BY <1>3, <2>1
<1>16. (\E w \in Worker : Drain(w)) => MailClass
  BY DEF MailClass
<1> QED BY <1>11, <1>12, <1>13, <1>14, <1>15, <1>16 DEF Next, MainLoop

\* A load waits at the front or not at all.
LoadIn(q) == \E i \in 1..Len(q) : q[i].kind = "Reload"
LoadFirst(q) == \A i \in 1..Len(q) : q[i].kind = "Reload" => i = 1

\* An enqueuer neither brings a load nor moves one away from the front.
LEMMA OfferKeepsLoads ==
    ASSUME MailTypes, NEW kind \in EventKind \ {"Reload", "Stop"}, NEW src \in Nat,
           Enqueue(kind, src), LoadFirst(queue)
    PROVE  /\ LoadFirst(queue')
           /\ LoadIn(queue') => LoadIn(queue)
           /\ generation' = generation
<1>1. queue \in Seq(Item) /\ Len(queue) \in Nat /\ DOMAIN queue = 1..Len(queue)
  BY LenProperties DEF MailTypes
<1>2. generation' = generation
  BY Accepted DEF MailStep
<1>3. CASE queue' = queue
  BY <1>2, <1>3
<1>4. CASE Supersede(kind, src)
  <2> DEFINE x == Oldest(StreamSlots)
             e == [kind |-> kind, gen |-> generation, src |-> src]
  <2>1. queue' = [queue EXCEPT ![x] = e] /\ e.kind # "Reload"
    BY <1>4 DEF Supersede
  <2> HIDE DEF x, e
  <2>2. DOMAIN queue' = DOMAIN queue /\ Len(queue') = Len(queue)
    BY <1>1, <2>1
  <2>3. \A i \in 1..Len(queue) : queue'[i] = queue[i] \/ queue'[i] = e
    BY <1>1, <2>1
  <2>4. \A i \in 1..Len(queue) : queue'[i].kind = "Reload" => queue[i].kind = "Reload"
    BY <2>1, <2>3
  <2> QED BY <1>2, <2>2, <2>4 DEF LoadFirst, LoadIn
<1>5. CASE Push(kind, src)
  <2> DEFINE r == Room(kind)
             e == [kind |-> kind, gen |-> generation, src |-> src]
  <2>1. ~NoRoom(kind) /\ queue' = Append(r, e)
    BY <1>5 DEF Push
  <2>2. /\ r \in Seq(Item) /\ Len(r) \in Nat
        /\ \A j \in 1..Len(r) : \E i \in 1..Len(queue) : r[j] = queue[i]
    BY <2>1, RoomLeft
  <2>3. LoadFirst(r)
    <3>1. CASE ~Full(kind)
      BY <3>1 DEF Room
    <3>2. CASE Full(kind)
      <4> DEFINE x == Oldest(Droppable)
                 n == Len(queue)
      <4>1. /\ Len(r) = n - 1
            /\ \A j \in 1..(n - 1) : r[j] = IF j < x THEN queue[j] ELSE queue[j + 1]
        <5>1. queue \in Seq(Item)
          BY <1>1
        <5> QED BY <2>1, <3>2, <5>1, RoomElements
      <4> HIDE DEF x, r
      <4>2. ASSUME NEW j \in 1..Len(r), r[j].kind = "Reload" PROVE j = 1
        <5>1. j \in 1..Len(queue) /\ j + 1 \in 1..Len(queue) /\ j + 1 # 1
          BY <1>1, <4>1
        <5>2. r[j] = queue[j] \/ r[j] = queue[j + 1]
          BY <4>1
        <5> QED BY <4>2, <5>1, <5>2 DEF LoadFirst
      <4> QED BY <4>2 DEF LoadFirst
    <3> QED BY <3>1, <3>2
  <2>4. LoadIn(r) => LoadIn(queue)
    BY <2>2 DEF LoadIn
  <2>5. e \in Item /\ e.kind # "Reload"
    BY DEF MailTypes, Item
  <2> HIDE DEF r, e
  <2>6. /\ Len(queue') = Len(r) + 1 /\ queue'[Len(r) + 1] = e
        /\ \A i \in 1..Len(r) : queue'[i] = r[i]
    BY <2>1, <2>2, <2>5, AppendProperties
  <2>7. ASSUME NEW i \in 1..Len(queue'), queue'[i].kind = "Reload"
        PROVE  i \in 1..Len(r) /\ r[i].kind = "Reload"
    <3>1. i # Len(r) + 1
      BY <2>5, <2>6, <2>7
    <3>2. i \in 1..Len(r)
      BY <2>2, <2>6, <3>1
    <3> QED BY <2>6, <2>7, <3>2
  <2>8. LoadFirst(queue')
    BY <2>3, <2>7 DEF LoadFirst
  <2>9. LoadIn(queue') => LoadIn(queue)
    BY <2>4, <2>7 DEF LoadIn
  <2> QED BY <1>2, <2>8, <2>9
<1>6. Refuse(kind) \/ SkipUpdate(kind) \/ Drop(kind) => queue' = queue
  BY DEF Refuse, SkipUpdate, Drop, mailbox
<1> QED BY <1>3, <1>4, <1>5, <1>6 DEF Enqueue

\* The VMs made so far are fewer than the loads accepted, by the loads that have still
\* to make theirs, and the event that is handled belongs to the VM that handles it.
Renewing(w) == pc[w] \in {"teardown", "reset"} /\ event[w].kind = "Reload"
Ahead ==
  /\ hosts <= generation
  /\ LoadFirst(queue)
  /\ LoadIn(queue) => hosts < generation
  /\ \A w \in Worker : event[w].gen <= generation
  /\ \A w \in Worker : Renewing(w) =>
       hosts < event[w].gen /\ (LoadIn(queue) => event[w].gen < generation)
  /\ host.id # 0 => host.gen > 0
  /\ \A w \in Worker : pc[w] \in {"load", "loaded", "call", "update", "health", "publish"} =>
       event[w].gen = host.gen /\ event[w].kind \in EventKind \ {"Stop"}

LEMMA InitAhead == Init => Ahead /\ Handles
<1> SUFFICES ASSUME Init PROVE Ahead /\ Handles
  OBVIOUS
<1>1. Len(queue) = 0 /\ Len(deferred) = 0
  BY InitTypes, EmptyQueue, EmptySeq DEF Init
<1>2. 0 \in 0..MaxGen
  BY ScriptRuntimeAssumption
<1>3. Ahead
  BY <1>1 DEF Init, Ahead, LoadFirst, LoadIn, Renewing, NoHost, NoEvent
<1>4. Handles
  BY <1>1, <1>2 DEF Init, Handles, NoHost, NoResult
<1> QED BY <1>3, <1>4

LEMMA QuietAhead == Ahead /\ UNCHANGED <<queue, generation>> /\ UNCHANGED Keeps => Ahead'
  BY DEF Ahead, Keeps, Renewing, LoadFirst, LoadIn

LEMMA OfferAhead ==
    ASSUME Types, Ahead, NEW kind \in EventKind \ {"Reload", "Stop"}, NEW src \in 0..MaxGen,
           Enqueue(kind, src), UNCHANGED Keeps
    PROVE  Ahead'
<1>1. LoadFirst(queue') /\ (LoadIn(queue') => LoadIn(queue)) /\ generation' = generation
  BY OfferKeepsLoads DEF Ahead, Types
<1>2. UNCHANGED <<host, hosts, pc, event>>
  BY DEF Keeps
<1> QED BY <1>1, <1>2 DEF Ahead, Renewing

LEMMA LoadAhead == Types /\ Ahead /\ PushReload /\ UNCHANGED Keeps => Ahead'
<1> SUFFICES ASSUME Types, Ahead, PushReload, UNCHANGED Keeps PROVE Ahead'
  OBVIOUS
<1>1. /\ UNCHANGED <<host, hosts, pc, event>> /\ generation' = generation + 1
      /\ queue' = <<[kind |-> "Reload", gen |-> generation + 1, src |-> 0]>>
  BY DEF PushReload, Keeps
<1>2. Len(queue') = 1
  BY <1>1
<1>3. LoadFirst(queue')
  BY <1>2 DEF LoadFirst
<1>4. hosts \in Nat /\ generation \in Nat /\ \A w \in Worker : event[w].gen \in Nat
  BY DEF Types, VmTypes, MailTypes, PoolTypes
<1>5. hosts < generation' /\ \A w \in Worker : event[w].gen < generation'
  BY <1>1, <1>4 DEF Ahead
<1> QED BY <1>1, <1>3, <1>4, <1>5 DEF Ahead, Renewing

LEMMA StopAhead == Types /\ Ahead /\ Stop => Ahead'
<1> SUFFICES ASSUME Types, Ahead, Stop PROVE Ahead'
  OBVIOUS
<1>1. /\ UNCHANGED <<host, hosts, pc, event, generation>>
      /\ queue' = <<[kind |-> "Stop", gen |-> generation, src |-> 0]>>
  BY DEF Stop, vm, pool
<1>2. Len(queue') = 1 /\ queue'[1].kind = "Stop"
  BY <1>1
<1>3. LoadFirst(queue') /\ ~LoadIn(queue')
  BY <1>2 DEF LoadFirst, LoadIn
<1> QED BY <1>1, <1>3 DEF Ahead, Renewing

LEMMA PopAhead == \A w \in Worker : Core /\ Ages /\ Ahead /\ Pop(w) => Ahead'
<1> SUFFICES ASSUME NEW w \in Worker, Core, Ages, Ahead, Pop(w) PROVE Ahead'
  OBVIOUS
<1> DEFINE e == queue[1]
<1>1. Types /\ OneDrainAt
  BY DEF Core
<1>2. /\ e \in Item /\ Len(queue) \in Nat /\ Len(queue) > 0
      /\ Len(queue') = Len(queue) - 1
      /\ \A i \in 1..Len(queue') : queue'[i] = queue[i + 1]
      /\ event'[w] = e /\ \A v \in Worker \ {w} : event'[v] = event[v]
      /\ \E step \in FirstSteps(e) : step \in Places /\ Goto(w, step)
  BY <1>1, PopStep
<1>3. /\ pc[w] = "top" /\ UNCHANGED <<generation, host, hosts>>
  BY DEF Pop, vm
<1>4. \A v \in Worker \ {w} : pc[v] = "idle"
  BY <1>1, <1>3, Alone
<1>5. e.gen = generation /\ generation \in Nat /\ e.kind \in EventKind
  BY <1>1, <1>2 DEF Ages, Aged, Item, Types, MailTypes
<1>6. ASSUME NEW i \in 1..Len(queue') PROVE queue'[i].kind # "Reload"
  <2>1. i + 1 \in 1..Len(queue) /\ i + 1 # 1 /\ queue'[i] = queue[i + 1]
    BY <1>2
  <2> QED BY <2>1 DEF Ahead, LoadFirst
<1>7. LoadFirst(queue') /\ ~LoadIn(queue')
  BY <1>6 DEF LoadFirst, LoadIn
<1>8. e.kind = "Reload" => hosts < generation
  <2>1. e.kind = "Reload" => LoadIn(queue)
    BY <1>2 DEF LoadIn
  <2> QED BY <2>1 DEF Ahead
<1>9. ~Led(queue) /\ host.id # 0 => host.gen = generation
  BY <1>3, <1>4 DEF Ages, Current
<1>10. Led(queue) <=> e.kind \in {"Reload", "Stop"}
  BY <1>2 DEF Led
<1> HIDE DEF e
<1>11. PICK step \in FirstSteps(e) : Goto(w, step)
  BY <1>2
<1>12. pc'[w] = step /\ \A v \in Worker \ {w} : pc'[v] = "idle"
  BY <1>1, <1>4, <1>11, GotoPlace
<1>13. \/ e.kind \in {"Reload", "Stop"} /\ step = "teardown"
       \/ e.kind \notin {"Reload", "Stop"} /\ step = "finish"
       \/ e.kind \notin {"Reload", "Stop"} /\ step = "call" /\ host.id # 0
  BY <1>11 DEF FirstSteps, Stale
<1>14. \A v \in Worker : event'[v].gen <= generation
  BY <1>2, <1>5 DEF Ahead
<1>15. \A v \in Worker : Renewing(v)' => v = w /\ e.kind = "Reload"
  BY <1>2, <1>12 DEF Renewing
<1>16. \A v \in Worker : pc'[v] \in {"load", "loaded", "call", "update", "health", "publish"} =>
         v = w /\ event'[v].gen = host.gen /\ event'[v].kind \in EventKind \ {"Stop"}
  BY <1>2, <1>5, <1>9, <1>10, <1>12, <1>13
<1> QED BY <1>2, <1>3, <1>5, <1>7, <1>8, <1>14, <1>15, <1>16 DEF Ahead

LEMMA WorkAhead == \A w \in Worker : Core /\ Ages /\ Ahead /\ Work(w) => Ahead'
<1> SUFFICES ASSUME NEW w \in Worker, Core, Ages, Ahead, Work(w) PROVE Ahead'
  OBVIOUS
<1>1. Types /\ OneDrainAt
  BY DEF Core
<1>2. /\ UNCHANGED <<queue, generation, event>> /\ pc[w] # "idle"
      /\ \A v \in Worker \ {w} : pc'[v] = pc[v]
  BY <1>1, WorkStep
<1>3. \A v \in Worker \ {w} : pc[v] = "idle" /\ pc'[v] = "idle"
  BY <1>1, <1>2, Alone
<1>4. /\ hosts \in Nat /\ generation \in Nat /\ event[w].gen \in Nat
      /\ event[w].kind \in EventKind \cup {"none"}
  BY <1>1 DEF Types, VmTypes, MailTypes, PoolTypes
<1> DEFINE InVm(p) == p \in {"load", "loaded", "call", "update", "health", "publish"}
           Goal == Ahead'
<1> SUFFICES Goal
  OBVIOUS
<1>5. ASSUME UNCHANGED hosts, host'.gen = host.gen, host'.id = host.id,
             pc'[w] \in {"teardown", "reset"} => pc[w] \in {"teardown", "reset"},
             InVm(pc'[w]) => InVm(pc[w])
      PROVE  Goal
  <2>1. \A v \in Worker : Renewing(v)' => Renewing(v)
    BY <1>2, <1>3, <1>5 DEF Renewing
  <2>2. \A v \in Worker : InVm(pc'[v]) => InVm(pc[v])
    BY <1>3, <1>5
  <2> QED BY <1>2, <1>5, <2>1, <2>2 DEF Ahead
<1>6. CASE TearDown(w)
  <2>1. pc[w] = "teardown" /\ Goto(w, "reset") /\ UNCHANGED <<host, hosts>>
    BY <1>6 DEF TearDown
  <2>2. pc'[w] = "reset"
    BY <1>1, <2>1, GotoPlace
  <2> QED BY <1>5, <2>1, <2>2
<1>7. CASE ResetHost(w)
  <2>1. pc[w] = "reset" /\ event[w].kind \in {"Reload", "Stop"}
    BY <1>7 DEF ResetHost, Ages
  <2>2. CASE event[w].kind = "Stop"
    <3>1. host' = NoHost /\ Goto(w, "halt") /\ UNCHANGED hosts
      BY <1>7, <2>2 DEF ResetHost
    <3>2. pc'[w] = "halt"
      BY <1>1, <3>1, GotoPlace
    <3>3. \A v \in Worker : ~Renewing(v)' /\ ~InVm(pc'[v])
      BY <1>3, <3>2 DEF Renewing
    <3> QED BY <1>2, <3>1, <3>3 DEF Ahead, NoHost
  <2>3. CASE event[w].kind = "Reload"
    <3>1. /\ hosts' = hosts + 1 /\ Goto(w, "load")
          /\ host'.gen = event[w].gen
      BY <1>1, <1>7, <2>3, ResetHostStep DEF ResetHost
    <3>2. pc'[w] = "load"
      BY <1>1, <3>1, GotoPlace
    <3>3. Renewing(w)
      BY <2>1, <2>3 DEF Renewing
    <3>4. hosts < event[w].gen /\ event[w].gen <= generation
          /\ (LoadIn(queue) => event[w].gen < generation)
      BY <3>3 DEF Ahead
    <3>5. hosts' <= generation /\ (LoadIn(queue) => hosts' < generation) /\ host'.gen > 0
      BY <1>4, <3>1, <3>4
    <3>6. \A v \in Worker : ~Renewing(v)' /\ (InVm(pc'[v]) => v = w)
      BY <1>3, <3>2 DEF Renewing
    <3>7. event[w].kind \in EventKind \ {"Stop"}
      BY <2>3 DEF EventKind
    <3> QED BY <1>2, <3>1, <3>5, <3>6, <3>7 DEF Ahead
  <2> QED BY <2>1, <2>2, <2>3
<1>8. CASE RunScript(w)
  <2>1. UNCHANGED hosts /\ host'.id = host.id /\ host'.gen = host.gen
    BY <1>1, <1>8, RunScriptStep DEF RunScript
  <2>2. pc[w] \in {"load", "update", "call"} /\ (Goto(w, "loaded") \/ Goto(w, "health"))
    BY <1>8 DEF RunScript
  <2>3. pc'[w] \in {"loaded", "health"}
    BY <1>1, <2>2, GotoPlace
  <2> QED BY <1>5, <2>1, <2>2, <2>3
<1>9. CASE Health(w)
  <2>1. /\ UNCHANGED <<host, hosts>> /\ pc[w] \in {"loaded", "health"}
        /\ Goto(w, "update") \/ Goto(w, "publish") \/ Goto(w, "finish")
    BY <1>9 DEF Health, vm
  <2>2. pc'[w] \in {"update", "publish", "finish"}
    BY <1>1, <2>1, GotoPlace
  <2> QED BY <1>5, <2>1, <2>2
<1>10. CASE Publish(w) \/ Finish(w) \/ PostResult(w)
  <2>1. /\ UNCHANGED <<host, hosts>>
        /\ Goto(w, "finish") \/ Goto(w, "top") \/ Goto(w, "post")
    BY <1>10 DEF Publish, Finish, PostResult, vm
  <2>2. pc'[w] \in {"finish", "top", "post"}
    BY <1>1, <2>1, GotoPlace
  <2> QED BY <1>5, <2>1, <2>2
<1> HIDE DEF Goal
<1> QED BY <1>6, <1>7, <1>8, <1>9, <1>10 DEF Work

LEMMA DrainAhead == \A w \in Worker : Core /\ Ages /\ Ahead /\ Drain(w) => Ahead'
<1> SUFFICES ASSUME NEW w \in Worker, Core, Ages, Ahead, Drain(w) PROVE Ahead'
  OBVIOUS
<1>1. CASE Take(w) \/ DrainEnd(w) \/ Halt(w)
  <2>1. /\ UNCHANGED <<generation, host, hosts>>
        /\ queue' = queue \/ queue' = <<>>
        /\ Goto(w, "top") \/ Goto(w, "idle")
        /\ event' = event \/ event' = [event EXCEPT ![w] = NoEvent]
    BY <1>1 DEF Take, DrainEnd, Halt, mailbox, vm
  <2>2. pc'[w] \in {"top", "idle"} /\ \A v \in Worker \ {w} : pc'[v] = pc[v]
    BY <2>1, GotoPlace DEF Core
  <2>3. generation \in Nat /\ \A v \in Worker : event'[v] = event[v] \/ event'[v] = NoEvent
    BY <2>1 DEF Core, Types, MailTypes, PoolTypes
  <2>4. \A v \in Worker \ {w} : event'[v] = event[v]
    BY <2>1 DEF Core, Types, PoolTypes
  <2>5. LoadFirst(queue') /\ (LoadIn(queue') => LoadIn(queue))
    <3>1. Len(<<>>) = 0
      OBVIOUS
    <3> QED BY <2>1, <3>1 DEF Ahead, LoadFirst, LoadIn
  <2>6. \A v \in Worker : event'[v].gen <= generation
    BY <2>3 DEF Ahead, NoEvent
  <2> QED BY <2>1, <2>2, <2>4, <2>5, <2>6 DEF Ahead, Renewing
<1> QED BY <1>1, PopAhead, WorkAhead DEF Drain, Work

LEMMA NextAhead == Core /\ Ages /\ Ahead /\ Handles /\ [Next]_vars => Ahead'
<1> SUFFICES ASSUME Core, Ages, Ahead, Handles, [Next]_vars PROVE Ahead'
  OBVIOUS
<1>1. MailClass /\ Types
  BY NextMail DEF Core
<1> QED BY <1>1, QuietAhead, OfferAhead, LoadAhead, StopAhead, DrainAhead DEF MailClass

\* The VMs that events may come from: every id given out is at most the number of loads.
LEMMA NextHosts ==
    ASSUME Core, Ages, Ahead, Handles, [Next]_vars
    PROVE  /\ host'.id \in 0..MaxGen
           /\ asked' \subseteq 0..MaxGen /\ watchers' \subseteq 0..MaxGen
           /\ copied' \subseteq 0..MaxGen
<1> DEFINE Goal == /\ host'.id \in 0..MaxGen
                   /\ asked' \subseteq 0..MaxGen /\ watchers' \subseteq 0..MaxGen
                   /\ copied' \subseteq 0..MaxGen
<1> SUFFICES Goal
  OBVIOUS
<1>1. Types
  BY DEF Core
<1>2. /\ host.id \in 0..MaxGen /\ asked \subseteq 0..MaxGen /\ watchers \subseteq 0..MaxGen
      /\ copied \subseteq 0..MaxGen
  BY DEF Handles
<1>3. ASSUME host'.id = host.id, asked' \subseteq asked \cup {host.id},
             watchers' \subseteq watchers \cup {host.id}, copied' \subseteq copied \cup watchers
      PROVE  Goal
  BY <1>2, <1>3
<1>4. CASE UNCHANGED <<host, asked, watchers, copied>>
  BY <1>3, <1>4
<1>5. CASE Environment
  <2>1. ASSUME NEW kind \in Kinds, Client(kind) PROVE Goal
    BY <1>4, <2>1 DEF Client, vm
  <2>2. ASSUME NEW h \in asked, AsyncDone(h) PROVE Goal
    BY <1>3, <2>2 DEF AsyncDone
  <2>3. ASSUME NEW h \in copied, Notify(h) PROVE Goal
    BY <1>3, <2>3 DEF Notify, vm
  <2>4. ASSUME NEW s \in Subscriber, Subscribe(s) \/ Unsubscribe(s) PROVE Goal
    BY <1>4, <2>4 DEF Subscribe, Unsubscribe, vm, clients
  <2>5. CASE StateSet
    BY <1>3, <2>5 DEF StateSet, vm
  <2>6. CASE Reload \/ ConfigChange \/ Stop
    BY <1>4, <2>6 DEF Reload, ConfigChange, Stop, vm
  <2> HIDE DEF Goal
  <2> QED BY <1>5, <2>1, <2>2, <2>3, <2>4, <2>5, <2>6 DEF Environment
<1>6. CASE MainLoop \/ Post \/ UNCHANGED vars
  <2>1. UNCHANGED <<host, asked, watchers, copied>>
    BY <1>6 DEF MainLoop, GrantWish, Replay, Deliver, StopReturn, Post, vars, vm, clients
  <2> QED BY <1>4, <2>1
<1>7. ASSUME NEW w \in Worker, Drain(w) PROVE Goal
  <2>1. CASE Take(w) \/ DrainEnd(w) \/ Pop(w) \/ Halt(w)
    BY <1>4, <2>1 DEF Take, DrainEnd, Pop, Halt, vm, clients
  <2>2. CASE Health(w) \/ Publish(w) \/ Finish(w) \/ PostResult(w)
    BY <1>4, <2>2 DEF Health, Publish, Finish, PostResult, vm, clients
  <2>3. CASE TearDown(w)
    BY <1>3, <2>3 DEF TearDown, clients
  <2>4. CASE RunScript(w)
    <3>1. host'.id = host.id
      BY <1>1, <2>4, RunScriptStep
    <3>2. /\ asked' \subseteq asked \cup {host.id} /\ watchers' \subseteq watchers \cup {host.id}
          /\ copied' = copied
      BY <2>4 DEF RunScript, clients
    <3> QED BY <1>3, <3>1, <3>2
  <2>5. CASE ResetHost(w)
    <3>1. UNCHANGED <<asked, copied>> /\ watchers' = {} /\ pc[w] = "reset"
      BY <2>5 DEF ResetHost, RemoveWatchers, clients
    <3>2. host'.id \in 0..MaxGen
      <4>1. CASE event[w].kind = "Stop"
        <5>1. host' = NoHost /\ 0 \in 0..MaxGen
          BY <2>5, <4>1, ScriptRuntimeAssumption DEF ResetHost
        <5> QED BY <5>1 DEF NoHost
      <4>2. CASE event[w].kind # "Stop"
        <5>1. \E handler \in Handlers :
                host' = [id |-> hosts + 1, gen |-> event[w].gen, watching |-> FALSE,
                         handler |-> handler]
          BY <2>5, <4>2 DEF ResetHost
        <5>2. host'.id = hosts + 1
          BY <5>1
        <5>3. Renewing(w)
          BY <3>1, <4>2 DEF Ages, Renewing
        <5>4. hosts < event[w].gen /\ event[w].gen <= generation /\ generation \in 0..MaxGen
              /\ hosts \in Nat /\ event[w].gen \in Nat /\ MaxGen \in Nat
          BY <1>1, <5>3, ScriptRuntimeAssumption
          DEF Ahead, Types, Bounds, VmTypes, PoolTypes
        <5> QED BY <5>2, <5>4
      <4> QED BY <4>1, <4>2
    <3> QED BY <1>2, <3>1, <3>2
  <2> HIDE DEF Goal
  <2> QED BY <1>7, <2>1, <2>2, <2>3, <2>4, <2>5 DEF Drain
<1> HIDE DEF Goal
<1> QED BY <1>5, <1>6, <1>7 DEF Next

\* The sounds that wait to be loaded are asked for by such a VM.
LEMMA NextSounds ==
    ASSUME Types, Handles, [Next]_vars
    PROVE  /\ \A w \in Worker : result'[w].sound \in 0..MaxGen
           /\ \A i \in 1..Len(deferred') : deferred'[i].res.sound \in 0..MaxGen
<1> DEFINE Small(r) == r.sound \in 0..MaxGen
           Held == \A w \in Worker : Small(result'[w])
           Sent == \A i \in 1..Len(deferred') : Small(deferred'[i].res)
<1> SUFFICES Held /\ Sent
  OBVIOUS
<1>1. /\ host.id \in 0..MaxGen /\ \A w \in Worker : Small(result[w])
      /\ \A i \in 1..Len(deferred) : Small(deferred[i].res)
      /\ result \in [Worker -> Result]
  BY DEF Handles, Types, PoolTypes
<1>2. 0 \in 0..MaxGen
  BY ScriptRuntimeAssumption
<1>3. UNCHANGED result => Held
  BY <1>1
<1>4. UNCHANGED deferred => Sent
  BY <1>1
<1>5. ASSUME NEW w \in Worker, NEW r, Small(r), result' = [result EXCEPT ![w] = r] PROVE Held
  BY <1>1, <1>5
<1>6. Small(NoResult)
  BY <1>2 DEF NoResult
<1>7. ASSUME NEW w \in Worker, Pop(w) PROVE Held
  <2>1. result' = [result EXCEPT ![w] = NoResult]
    BY <1>7 DEF Pop
  <2> QED BY <1>5, <1>6, <2>1
<1>8. ASSUME NEW w \in Worker, RunScript(w) PROVE Held
  <2>1. PICK s \in Script :
          result' = [result EXCEPT ![w] =
            [gen |-> Label(w), by |-> host.gen, load |-> event[w].kind = "Reload",
             mark |-> IF s.patches THEN marks + 1 ELSE @.mark,
             sound |-> IF s.sounds /\ event[w].kind # "Sound" THEN host.id ELSE @.sound]]
    BY <1>8 DEF RunScript
  <2> DEFINE r == [gen |-> Label(w), by |-> host.gen, load |-> event[w].kind = "Reload",
             mark |-> IF s.patches THEN marks + 1 ELSE result[w].mark,
             sound |-> IF s.sounds /\ event[w].kind # "Sound" THEN host.id
                       ELSE result[w].sound]
  <2>2. Small(r)
    BY <1>1
  <2>3. result' = [result EXCEPT ![w] = r]
    BY <1>1, <2>1
  <2> HIDE DEF r
  <2> QED BY <1>5, <2>2, <2>3
<1>9. ASSUME NEW w \in Worker, PostResult(w) PROVE Held /\ Sent
  <2>1. result' = [result EXCEPT ![w] = NoResult]
    BY <1>9 DEF PostResult
  <2>2. /\ Len(deferred) \in Nat /\ Len(deferred') = Len(deferred) + 1
        /\ \A i \in 1..Len(deferred) : deferred'[i] = deferred[i]
        /\ deferred'[Len(deferred) + 1] = [sub |-> All, res |-> result[w]]
    BY <1>9, PostResultDeferred
  <2>3. Sent
    BY <1>1, <2>2
  <2> QED BY <1>5, <1>6, <2>1, <2>3
<1>10. ASSUME NEW s \in Subscriber, Subscribe(s) PROVE Held /\ Sent
  <2>1. result' = result
    BY <1>10 DEF Subscribe, pool
  <2>2. /\ Len(deferred) \in Nat
        /\ \/ deferred' = deferred
           \/ /\ Len(deferred') = Len(deferred) + 1
              /\ \A i \in 1..Len(deferred) : deferred'[i] = deferred[i]
              /\ deferred'[Len(deferred) + 1] = ReplayTask(s)
    BY <1>10, SubscribeDeferred
  <2>3. Small(ReplayTask(s).res)
    BY <1>2 DEF ReplayTask
  <2> HIDE DEF Small
  <2>4. ASSUME deferred' = deferred PROVE Sent
    BY <1>4, <2>4
  <2>5. ASSUME deferred' # deferred PROVE Sent
    BY <1>1, <2>2, <2>3, <2>5
  <2> QED BY <1>3, <2>1, <2>4, <2>5
<1>11. CASE Replay \/ Deliver
  <2>1. \A i \in 1..Len(deferred') : i + 1 \in 1..Len(deferred) /\ deferred'[i] = deferred[i + 1]
    BY <1>11, TakenDeferred
  <2>2. result' = result
    BY <1>11 DEF Replay, Deliver, pool
  <2> QED BY <1>1, <1>3, <2>1, <2>2
<1>12. CASE UNCHANGED <<ui, replayState, generation>>
            /\ (UNCHANGED <<result, marks>> \/ \E w \in Worker : Pop(w) \/ RunScript(w))
  BY <1>3, <1>4, <1>7, <1>8, <1>12 DEF ui
<1>13. CASE Stop \/ (PushReload /\ UNCHANGED <<ui, result, marks>>)
  BY <1>3, <1>4, <1>13 DEF Stop, ui, pool
<1>14. ASSUME NEW s \in Subscriber, Unsubscribe(s) PROVE Held /\ Sent
  BY <1>3, <1>4, <1>14 DEF Unsubscribe, pool
<1>15. UiStep
  BY NextUi
<1> HIDE DEF Held, Sent
<1> QED BY <1>9, <1>10, <1>11, <1>12, <1>13, <1>14, <1>15 DEF UiStep

LEMMA NextHandles == Core /\ Ages /\ Ahead /\ Handles /\ [Next]_vars => Handles'
  BY NextHosts, NextSounds DEF Handles, Core

LEMMA AheadAlways == Spec => [](Ahead /\ Handles)
  BY InitAhead, NextAhead, NextHandles, CoreAlways, AgesAlways, PTL DEF Spec

\* With one drain, the event that is handled is the event of that drain.
LEMMA HandledIs ==
    ASSUME NEW w \in Worker, \A v \in Worker \ {w} : pc[v] = "idle"
    PROVE  Handled = IF Handling(w) THEN event[w] ELSE NoEvent
<1>1. \A v \in Worker : Handling(v) => v = w
  BY DEF Handling
<1> QED BY <1>1 DEF Handled

LEMMA HandledNext ==
    ASSUME NEW w \in Worker, \A v \in Worker \ {w} : pc'[v] = "idle"
    PROVE  Handled' = IF Handling(w)' THEN event'[w] ELSE NoEvent
<1>1. \A v \in Worker : Handling(v)' => v = w
  BY DEF Handling
<1> QED BY <1>1 DEF Handled

\* Only the step that takes an event, one that ends its handling, and the change of
\* the VM between them show.
LEMMA KeepsShows == UNCHANGED Keeps => UNCHANGED Shows
  BY DEF Keeps, Shows, Handled, Handling, Phase

LEMMA LoadIsAcceptLoad ==
    ASSUME Types, PushReload, UNCHANGED Keeps
    PROVE  Mailbox!AcceptLoad
<1>1. UNCHANGED <<Handled, host.gen, Phase>>
  BY KeepsShows DEF Shows
<1>2. Phase = "open"
  BY DEF PushReload, Refused, Phase
<1> QED BY <1>1, <1>2 DEF PushReload, Mailbox!AcceptLoad

LEMMA StopIsAcceptClose ==
    ASSUME Core, Stop
    PROVE  Mailbox!AcceptClose
<1>1. ~stopping /\ ~stopped
  BY DEF Core, Ending, Stop
<1>2. UNCHANGED <<generation, host, pc, event, stopped>> /\ stopping' = TRUE
  BY DEF Stop, vm, pool
<1>3. UNCHANGED <<Handled, host.gen>>
  BY <1>2 DEF Handled, Handling
<1>4. Phase = "open" /\ Phase' = "closing"
  BY <1>1, <1>2 DEF Phase
<1>5. queue' = <<Mailbox!Event("Stop", 0)>>
  BY DEF Stop, Mailbox!Event
<1> QED BY <1>2, <1>3, <1>4, <1>5 DEF Mailbox!AcceptClose

LEMMA PopIsBegin ==
    ASSUME Core, Ages, Ahead, NEW w \in Worker, Pop(w)
    PROVE  Mailbox!Begin \/ Mailbox!Discard
<1> DEFINE e == queue[1]
<1>1. Types /\ OneDrainAt
  BY DEF Core
<1>2. /\ e \in Item /\ Len(queue) \in Nat /\ Len(queue) > 0
      /\ event'[w] = e
      /\ \E step \in FirstSteps(e) : step \in Places /\ Goto(w, step)
  BY <1>1, PopStep
<1>3. /\ pc[w] = "top" /\ UNCHANGED <<generation, host, stopping, stopped>>
      /\ queue # <<>> /\ queue' = Tail(queue)
  BY DEF Pop, vm
<1>4. Head(queue) = e
  BY <1>1, <1>3, QueueHead
<1>5. \A v \in Worker \ {w} : pc[v] = "idle"
  BY <1>1, <1>3, Alone
<1>6. Handled = NoEvent
  BY <1>3, <1>5, HandledIs DEF Handling
<1>7. UNCHANGED <<generation, host.gen, Phase>>
  BY <1>3 DEF Phase
<1>8. e.gen = generation /\ e.kind \in EventKind
  BY <1>2 DEF Ages, Aged, Item
<1>9. ~Led(queue) /\ host.id # 0 => host.gen = generation
  BY <1>3, <1>5 DEF Ages, Current
<1>10. Led(queue) <=> e.kind \in {"Reload", "Stop"}
  BY <1>2 DEF Led
<1> HIDE DEF e
<1>11. PICK step \in FirstSteps(e) : Goto(w, step)
  BY <1>2
<1>12. pc'[w] = step /\ \A v \in Worker \ {w} : pc'[v] = "idle"
  BY <1>1, <1>5, <1>11, GotoPlace
<1>13. Handled' = IF step = "finish" THEN NoEvent ELSE e
  <2>1. step \in {"teardown", "call", "finish"}
    BY <1>11 DEF FirstSteps
  <2>2. Handled' = IF Handling(w)' THEN event'[w] ELSE NoEvent
    BY <1>12, HandledNext
  <2> QED BY <1>2, <1>12, <2>1, <2>2 DEF Handling
<1>14. CASE step = "finish"
  <2>1. e.kind \in EventKind \ {"Reload", "Stop"}
    BY <1>8, <1>11, <1>14 DEF FirstSteps
  <2> QED BY <1>3, <1>4, <1>6, <1>7, <1>13, <1>14, <2>1 DEF Mailbox!Discard, Mailbox!Call
<1>15. CASE step # "finish"
  <2>1. e.kind \notin {"Reload", "Stop"} => host.id # 0
    BY <1>11, <1>15 DEF FirstSteps, Stale
  <2>2. e.kind \notin {"Reload", "Stop"} => host.gen # 0 /\ e.gen = host.gen
    <3>1. host.id # 0 => host.gen # 0
      BY <1>1 DEF Ahead, Types, VmTypes
    <3> QED BY <1>8, <1>9, <1>10, <2>1, <3>1
  <2> QED BY <1>3, <1>4, <1>6, <1>7, <1>13, <1>15, <2>2 DEF Mailbox!Begin, Mailbox!Call
<1> QED BY <1>14, <1>15

LEMMA WorkIsMailbox ==
    ASSUME Core, Ages, Ahead, NEW w \in Worker, Work(w)
    PROVE  Mailbox!Next \/ UNCHANGED Mailbox!vars
<1>1. Types /\ OneDrainAt
  BY DEF Core
<1>2. /\ UNCHANGED <<queue, generation, stopping, stopped, event>> /\ pc[w] # "idle"
      /\ \A v \in Worker \ {w} : pc'[v] = pc[v]
  BY <1>1, WorkStep
<1>3. \A v \in Worker \ {w} : pc[v] = "idle" /\ pc'[v] = "idle"
  BY <1>1, <1>2, Alone
<1>4. /\ Handled = IF Handling(w) THEN event[w] ELSE NoEvent
      /\ Handled' = IF Handling(w)' THEN event[w] ELSE NoEvent
  BY <1>2, <1>3, HandledIs, HandledNext
<1>5. UNCHANGED <<queue, generation, Phase>>
  BY <1>2 DEF Phase
<1> DEFINE Goal == Mailbox!Next \/ UNCHANGED Mailbox!vars
<1> SUFFICES Goal
  OBVIOUS
<1>6. ASSUME host'.gen = host.gen, Handling(w)' = Handling(w) PROVE Goal
  BY <1>4, <1>5, <1>6 DEF Mailbox!vars
<1>7. ASSUME host' = host, ~Handling(w)',
             pc[w] \in {"load", "loaded", "call", "update", "health", "publish"}
      PROVE  Goal
  <2>1. event[w].gen = host.gen /\ event[w].kind \in EventKind \ {"Stop"}
    BY <1>7 DEF Ahead
  <2>2. event[w] # NoEvent
    BY <2>1 DEF NoEvent, EventKind, ClientKind
  <2>3. Handled = event[w] /\ Handled' = NoEvent
    BY <1>4, <1>7 DEF Handling
  <2>4. Mailbox!End
    BY <1>5, <1>7, <2>1, <2>2, <2>3 DEF Mailbox!End
  <2> QED BY <2>4 DEF Mailbox!Next
<1>8. CASE TearDown(w)
  <2>1. pc[w] = "teardown" /\ Goto(w, "reset") /\ UNCHANGED host
    BY <1>8 DEF TearDown
  <2>2. pc'[w] = "reset"
    BY <1>1, <2>1, GotoPlace
  <2> QED BY <1>6, <2>1, <2>2 DEF Handling
<1>9. CASE ResetHost(w)
  <2>1. pc[w] = "reset" /\ event[w].kind \in {"Reload", "Stop"}
    BY <1>9 DEF ResetHost, Ages
  <2>2. \/ event[w].kind = "Stop" /\ host' = NoHost /\ Goto(w, "halt")
        \/ event[w].kind # "Stop" /\ Goto(w, "load") /\ host'.gen = event[w].gen
    BY <1>1, <1>9, ResetHostStep
  <2>3. pc'[w] \in {"halt", "load"}
    BY <1>1, <2>2, GotoPlace
  <2>4. Handled = event[w] /\ Handled' = event[w] /\ event[w] # NoEvent
    BY <1>4, <2>1, <2>3 DEF Handling, NoEvent
  <2>5. host'.gen = IF event[w].kind = "Reload" THEN event[w].gen ELSE 0
    BY <2>1, <2>2 DEF NoHost
  <2>6. Mailbox!ReplaceVm
    BY <1>5, <2>1, <2>4, <2>5 DEF Mailbox!ReplaceVm
  <2> QED BY <2>6 DEF Mailbox!Next
<1>10. CASE RunScript(w)
  <2>1. host'.gen = host.gen
    BY <1>1, <1>10, RunScriptStep
  <2>2. pc[w] \in {"load", "update", "call"} /\ (Goto(w, "loaded") \/ Goto(w, "health"))
    BY <1>10 DEF RunScript
  <2>3. pc'[w] \in {"loaded", "health"}
    BY <1>1, <2>2, GotoPlace
  <2> QED BY <1>6, <2>1, <2>2, <2>3 DEF Handling
<1>11. CASE Health(w)
  <2>1. /\ UNCHANGED host /\ pc[w] \in {"loaded", "health"}
        /\ Goto(w, "update") \/ Goto(w, "publish") \/ Goto(w, "finish")
    BY <1>11 DEF Health, vm
  <2>2. pc'[w] \in {"update", "publish", "finish"}
    BY <1>1, <2>1, GotoPlace
  <2>3. CASE pc'[w] = "finish"
    BY <1>7, <2>1, <2>3 DEF Handling
  <2>4. CASE pc'[w] # "finish"
    BY <1>6, <2>1, <2>2, <2>4 DEF Handling
  <2> QED BY <2>3, <2>4
<1>12. CASE Publish(w)
  <2>1. pc[w] = "publish" /\ Goto(w, "finish") /\ UNCHANGED host
    BY <1>12 DEF Publish
  <2>2. pc'[w] = "finish"
    BY <1>1, <2>1, GotoPlace
  <2> QED BY <1>7, <2>1, <2>2 DEF Handling
<1>13. CASE Finish(w) \/ PostResult(w)
  <2>1. /\ pc[w] \in {"finish", "post"} /\ UNCHANGED host
        /\ Goto(w, "top") \/ Goto(w, "post")
    BY <1>13 DEF Finish, PostResult, vm
  <2>2. pc'[w] \in {"top", "post"}
    BY <1>1, <2>1, GotoPlace
  <2> QED BY <1>6, <2>1, <2>2 DEF Handling
<1> HIDE DEF Goal
<1> QED BY <1>8, <1>9, <1>10, <1>11, <1>12, <1>13 DEF Work

LEMMA DrainIsMailbox ==
    ASSUME Core, Ages, Ahead, NEW w \in Worker, Drain(w)
    PROVE  Mailbox!Next \/ UNCHANGED Mailbox!vars
<1>1. Types /\ OneDrainAt
  BY DEF Core
<1>2. CASE Take(w)
  <2>1. /\ UNCHANGED <<queue, generation, host, stopping, stopped, event>>
        /\ pc[w] = "idle" /\ Goto(w, "top") /\ tasks > 0
    BY <1>2 DEF Take, mailbox, vm
  <2>2. AllIdle
    BY <1>1, <2>1 DEF OneDrainAt, Types, PoolTypes
  <2>3. pc'[w] = "top" /\ \A v \in Worker \ {w} : pc'[v] = pc[v]
    BY <1>1, <2>1, GotoPlace
  <2>4. Handled = NoEvent /\ Handled' = NoEvent
    BY <2>2, <2>3 DEF AllIdle, Handled, Handling
  <2> QED BY <2>1, <2>4 DEF Mailbox!vars, Phase
<1>3. CASE DrainEnd(w)
  <2>1. /\ UNCHANGED <<queue, generation, host, stopping, stopped>>
        /\ pc[w] = "top" /\ Goto(w, "idle")
    BY <1>3 DEF DrainEnd, vm
  <2>2. \A v \in Worker \ {w} : pc[v] = "idle"
    BY <1>1, <2>1, Alone
  <2>3. pc'[w] = "idle" /\ \A v \in Worker \ {w} : pc'[v] = "idle"
    BY <1>1, <2>1, <2>2, GotoPlace
  <2>4. Handled = NoEvent /\ Handled' = NoEvent
    BY <2>1, <2>2, <2>3 DEF Handled, Handling
  <2> QED BY <2>1, <2>4 DEF Mailbox!vars, Phase
<1>4. CASE Halt(w)
  <2>1. /\ UNCHANGED <<generation, host>> /\ queue' = <<>> /\ stopped' = TRUE
        /\ pc[w] = "halt" /\ Goto(w, "idle")
    BY <1>4 DEF Halt, vm
  <2>2. \A v \in Worker \ {w} : pc[v] = "idle"
    BY <1>1, <2>1, Alone
  <2>3. pc'[w] = "idle" /\ \A v \in Worker \ {w} : pc'[v] = "idle"
    BY <1>1, <2>1, <2>2, GotoPlace
  <2>4. event[w].kind = "Stop" /\ queue = <<>> /\ host = NoHost
    BY <2>1 DEF Core, Ending
  <2>5. Handled = event[w] /\ event[w] # NoEvent
    BY <2>1, <2>2, <2>4, HandledIs DEF Handling, NoEvent
  <2>6. Handled' = NoEvent
    BY <2>3 DEF Handled, Handling
  <2>7. Mailbox!Closed
    BY <2>1, <2>4, <2>5, <2>6 DEF Mailbox!Closed, Phase, NoHost
  <2> QED BY <2>7 DEF Mailbox!Next
<1>5. CASE Pop(w)
  BY <1>5, PopIsBegin DEF Mailbox!Next
<1>6. CASE Work(w)
  BY <1>6, WorkIsMailbox
<1> QED BY <1>2, <1>3, <1>4, <1>5, <1>6 DEF Drain, Work

LEMMA NextIsMailbox ==
  Core /\ Ages /\ Ahead /\ Handles /\ [Next]_vars => [Mailbox!Next]_(Mailbox!vars)
<1> SUFFICES ASSUME Core, Ages, Ahead, Handles, [Next]_vars
             PROVE  Mailbox!Next \/ UNCHANGED Mailbox!vars
  OBVIOUS
<1>1. MailClass /\ Types
  BY NextMail DEF Core
<1>2. CASE UNCHANGED <<queue, generation>> /\ UNCHANGED Keeps
  BY <1>2, KeepsShows DEF Shows, Mailbox!vars
<1>3. ASSUME NEW kind \in EventKind \ {"Reload", "Stop"}, NEW src \in 0..MaxGen,
             Enqueue(kind, src), UNCHANGED Keeps
      PROVE  Mailbox!Next \/ UNCHANGED Mailbox!vars
  BY <1>1, <1>3, KeepsShows, EnqueueIsOffer DEF Types
<1>4. CASE PushReload /\ UNCHANGED Keeps
  BY <1>1, <1>4, LoadIsAcceptLoad DEF Mailbox!Next
<1>5. CASE Stop
  BY <1>5, StopIsAcceptClose DEF Mailbox!Next
<1> QED BY <1>1, <1>2, <1>3, <1>4, <1>5, DrainIsMailbox DEF MailClass

LEMMA InitIsMailbox == Init => Mailbox!Init
<1> SUFFICES ASSUME Init PROVE Mailbox!Init
  OBVIOUS
<1>1. Handled = NoEvent
  BY DEF Init, Handled, Handling
<1> QED BY <1>1 DEF Init, Mailbox!Init, Phase, NoHost

\* The runtime implements its mailbox, for every number of pool threads, size of the
\* queue and script: events are handled one at a time, in order, at most once, and in the
\* VM of the generation they were accepted in.
THEOREM MailboxImplemented == Spec => ImplementsMailbox
  BY InitIsMailbox, NextIsMailbox, CoreAlways, AgesAlways, AheadAlways, PTL
  DEF Spec, ImplementsMailbox, Mailbox!Spec
===============================================================================
