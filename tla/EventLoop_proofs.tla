-------------------------- MODULE EventLoop_proofs --------------------------
(***************************************************************************)
(* Proofs about EventLoop, for every value of its constants.  The          *)
(* inductive invariant has one part per group of variables: the deferred   *)
(* calls, the timers, the place of the loop, and the poll.                 *)
(***************************************************************************)
EXTENDS EventLoop, WellFoundedInduction, TLAPS

-----------------------------------------------------------------------------
\* The calls: what is waiting, in order, and who will wake the loop for it.
CallTypes ==
    /\ queue \in Seq(1..MaxCalls) /\ batch \in Seq(1..MaxCalls)
    /\ writing \subseteq Threads
    /\ pipe \in 0..PipeSize
    /\ posted \in 0..MaxCalls /\ ran \in 0..MaxCalls

Order ==
    /\ Len(batch) + Len(queue) = posted - ran
    /\ \A i \in 1..Len(batch) : batch[i] = ran + i
    /\ \A i \in 1..Len(queue) : queue[i] = ran + Len(batch) + i

\* The batch is a local variable of the two places that take the queue.
BatchInside == pc \notin {"calls", "call"} => batch = <<>>

\* Between the drain and the take only a call pushed in between has a byte.
WakeComes == queue # <<>> /\ pc # "drained" => pipe > 0 \/ writing # {}

CallInv == CallTypes /\ Order /\ BatchInside /\ WakeComes

\* A step that leaves the calls alone and takes the loop nowhere it has to mind
\* them keeps the invariant.
LEMMA CallsLeftAlone ==
    ASSUME CallInv, UNCHANGED callVars,
           \/ pc' = pc
           \/ /\ pc # "drained"
              /\ pc' \in {"calls", "call"} \/ batch = <<>>
    PROVE  CallInv'
<1>1. CallTypes' /\ Order'
  BY DEF CallInv, CallTypes, Order, callVars
<1>2. BatchInside'
  BY DEF CallInv, BatchInside, callVars
<1>3. WakeComes'
  BY DEF CallInv, WakeComes, callVars
<1> QED BY <1>1, <1>2, <1>3 DEF CallInv

\* The initial state has no calls.
LEMMA CallInvInit == Init => CallInv
<1> SUFFICES ASSUME Init PROVE CallInv
  OBVIOUS
<1>1. CallTypes
  BY LoopConstants DEF Init, CallTypes
<1>2. Order /\ BatchInside /\ WakeComes
  BY DEF Init, Order, BatchInside, WakeComes
<1> QED BY <1>1, <1>2 DEF CallInv

\* A byte written into the pipe is there to wake the loop.
LEMMA ByteWritten ==
    ASSUME pipe \in 0..PipeSize, WriteByte
    PROVE  pipe' \in 1..PipeSize
BY LoopConstants DEF WriteByte, Earlier

\* A pushed call takes its place at the end.
LEMMA PushedInOrder ==
    ASSUME CallInv, Push, batch' = batch, ran' = ran
    PROVE  /\ queue' \in Seq(1..MaxCalls) /\ batch' \in Seq(1..MaxCalls)
           /\ posted' \in 0..MaxCalls /\ ran' \in 0..MaxCalls
           /\ Order'
<1>1. posted + 1 \in 1..MaxCalls
  BY LoopConstants DEF CallInv, CallTypes, Push
<1>2. queue' = Append(queue, posted + 1) /\ posted' = posted + 1
  BY DEF Push
<1>3. queue' \in Seq(1..MaxCalls) /\ Len(queue') = Len(queue) + 1
  BY <1>1, <1>2 DEF CallInv, CallTypes
<1>4. \A i \in 1..Len(queue') : queue'[i] = ran + Len(batch) + i
  <2> SUFFICES ASSUME NEW i \in 1..Len(queue')
               PROVE  queue'[i] = ran + Len(batch) + i
    OBVIOUS
  <2>1. CASE i = Len(queue) + 1
    BY <1>2, <2>1 DEF CallInv, CallTypes, Order
  <2>2. CASE i \in 1..Len(queue)
    <3>1. queue'[i] = queue[i]
      BY <1>1, <1>2, <2>2 DEF CallInv, CallTypes
    <3> QED BY <3>1, <2>2 DEF CallInv, Order
  <2> QED BY <1>3, <2>1, <2>2 DEF CallInv, CallTypes
<1>5. Len(batch') + Len(queue') = posted' - ran'
  BY <1>2, <1>3 DEF CallInv, CallTypes, Order
<1>6. Order'
  BY <1>4, <1>5 DEF CallInv, Order
<1> QED BY <1>1, <1>2, <1>3, <1>6 DEF CallInv, CallTypes

\* Taking the queue into an empty batch keeps the order.
LEMMA TakenInOrder ==
    ASSUME CallInv, batch = <<>>, TakePending, UNCHANGED <<posted, ran>>
    PROVE  /\ queue' = <<>> /\ batch' \in Seq(1..MaxCalls)
           /\ Order'
<1>1. queue' = <<>> /\ batch' = queue /\ Len(queue') = 0 /\ Len(batch) = 0
  BY DEF TakePending
<1>2. Len(batch') + Len(queue') = posted' - ran'
  BY <1>1 DEF CallInv, CallTypes, Order
<1>3. \A i \in 1..Len(batch') : batch'[i] = ran' + i
  BY <1>1 DEF CallInv, CallTypes, Order
<1> QED BY <1>1, <1>2, <1>3 DEF CallInv, CallTypes, Order

\* Every step keeps the calls in order and leaves a wake for each.
LEMMA CallInvStep == CallInv /\ [Next]_vars => CallInv'
<1> SUFFICES ASSUME CallInv, [Next]_vars PROVE CallInv'
  OBVIOUS
<1> USE DEF CallInv
<1>1. CASE Top
  <2>1. pc = "top" /\ batch = <<>> /\ pc' = "calls"
    BY <1>1 DEF Top, BatchInside
  <2>2. queue' = <<>> /\ batch' \in Seq(1..MaxCalls) /\ Order'
    BY <1>1, <2>1, TakenInOrder DEF Top
  <2> QED BY <1>1, <2>1, <2>2 DEF Top, CallTypes, BatchInside, WakeComes
<1>2. CASE RunCall
  <2>1. /\ batch # <<>> /\ batch' = Tail(batch) /\ ran' = ran + 1 /\ pc' = "call" /\ pc = "calls"
        /\ UNCHANGED <<queue, writing, pipe, posted>>
    BY <1>2 DEF RunCall
  <2>2. batch' \in Seq(1..MaxCalls) /\ Len(batch') = Len(batch) - 1
    BY <2>1 DEF CallTypes
  <2>3. \A i \in 1..Len(batch') : batch'[i] = batch[i + 1]
    BY <2>1 DEF CallTypes
  <2>4. ran + 1 \in 0..MaxCalls
    <3>1. Len(batch) \in Nat \ {0} /\ Len(queue) \in Nat
      BY <2>1 DEF CallTypes
    <3>2. ran < posted
      BY <3>1 DEF CallTypes, Order
    <3> QED BY <3>2, LoopConstants DEF CallTypes
  <2>5. Len(batch') + Len(queue') = posted' - ran'
    BY <2>1, <2>2 DEF CallTypes, Order
  <2>6. \A i \in 1..Len(batch') : batch'[i] = ran' + i
    BY <2>1, <2>2, <2>3 DEF CallTypes, Order
  <2>7. \A i \in 1..Len(queue') : queue'[i] = ran' + Len(batch') + i
    BY <2>1, <2>2 DEF CallTypes, Order
  <2>8. CallTypes' /\ Order'
    BY <2>1, <2>2, <2>4, <2>5, <2>6, <2>7 DEF CallTypes, Order
  <2> QED BY <2>1, <2>8 DEF BatchInside, WakeComes
<1>3. CASE Return
  <2>1. UNCHANGED callVars
    BY <1>3 DEF Return
  <2>2. pc # "drained" /\ (pc' \in {"calls", "call"} \/ batch = <<>>)
    BY <1>3 DEF Return, NextSource, BatchInside
  <2> QED BY <2>1, <2>2, CallsLeftAlone
<1>4. CASE DispatchDeferred
  <2>1. /\ pc = "service" /\ pc' = "drained" /\ pipe' = 0
        /\ UNCHANGED <<queue, batch, writing, posted, ran>>
    BY <1>4 DEF DispatchDeferred, Serviced
  <2>2. CallTypes' /\ Order'
    BY <2>1, LoopConstants DEF CallTypes, Order
  <2> QED BY <2>1, <2>2 DEF BatchInside, WakeComes
<1>5. CASE Drained
  <2>1. pc = "drained" /\ batch = <<>> /\ pc' = "calls"
    BY <1>5 DEF Drained, BatchInside
  <2>2. queue' = <<>> /\ batch' \in Seq(1..MaxCalls) /\ Order'
    BY <1>5, <2>1, TakenInOrder DEF Drained
  <2> QED BY <1>5, <2>1, <2>2 DEF Drained, CallTypes, BatchInside, WakeComes
<1>6. CASE ClientStep
  <2>1. pc' = pc
    BY <1>6 DEF ClientStep
  <2>2. CASE ClientCallLater
    <3>1. Push /\ WriteByte /\ UNCHANGED <<batch, writing, ran>>
      BY <2>2 DEF ClientCallLater, CallLater
    <3>2. /\ queue' \in Seq(1..MaxCalls) /\ batch' \in Seq(1..MaxCalls)
          /\ posted' \in 0..MaxCalls /\ ran' \in 0..MaxCalls
          /\ Order'
      BY <3>1, PushedInOrder
    <3>3. pipe' \in 1..PipeSize
      BY <3>1, ByteWritten DEF CallTypes
    <3>4. CallTypes'
      BY <3>1, <3>2, <3>3, LoopConstants DEF CallTypes
    <3>5. WakeComes'
      BY <3>3, LoopConstants DEF WakeComes
    <3> QED BY <2>1, <3>1, <3>2, <3>4, <3>5 DEF BatchInside
  <2>3. CASE ClientTimer \/ RequestFrame \/ Reload
    <3>1. UNCHANGED callVars
      BY <2>3 DEF ClientTimer, RequestFrame, Reload
    <3> QED BY <2>1, <3>1, CallsLeftAlone
  <2> QED BY <1>6, <2>2, <2>3 DEF ClientStep
<1>7. ASSUME NEW t \in Threads, Post(t) PROVE CallInv'
  <2>1. /\ Push /\ UNCHANGED <<pc, batch, pipe, ran>>
        /\ writing' = writing \cup {t}
    BY <1>7 DEF Post
  <2>2. /\ queue' \in Seq(1..MaxCalls) /\ batch' \in Seq(1..MaxCalls)
        /\ posted' \in 0..MaxCalls /\ ran' \in 0..MaxCalls
        /\ Order'
    BY <2>1, PushedInOrder
  <2> QED BY <2>1, <2>2 DEF CallTypes, BatchInside, WakeComes
<1>8. ASSUME NEW t \in Threads, WakeMainLoop(t) PROVE CallInv'
  <2>1. /\ WriteByte /\ UNCHANGED <<pc, queue, batch, posted, ran>>
        /\ writing' = writing \ {t}
    BY <1>8 DEF WakeMainLoop
  <2>2. pipe' \in 1..PipeSize
    BY <2>1, ByteWritten DEF CallTypes
  <2>3. CallTypes' /\ Order'
    BY <2>1, <2>2, LoopConstants DEF CallTypes, Order
  <2> QED BY <2>1, <2>2, <2>3, LoopConstants DEF BatchInside, WakeComes
<1>9. CASE \/ Prepare \/ PollReturns \/ PollReturnsForOthers \/ Hangup
           \/ DispatchTimer \/ TickDone \/ DispatchOptional \/ Draw \/ Close \/ TimerDone
           \/ \E t \in Timers : FireTimer(t)
  <2>1. UNCHANGED callVars
    BY <1>9 DEF Prepare, PollReturns, PollReturnsForOthers, Wake, Hangup, DispatchTimer,
                TickDone, DispatchOptional, Draw, Close, TimerDone, FireTimer
  <2>2. pc \notin {"drained", "calls", "call"}
    BY <1>9 DEF Prepare, PollReturns, PollReturnsForOthers, Wake, Hangup, DispatchTimer,
                TickDone, DispatchOptional, Serviced, Draw, Close, TimerDone, FireTimer
  <2> QED BY <2>1, <2>2, CallsLeftAlone DEF BatchInside
<1>10. CASE Signal
  <2>1. UNCHANGED callVars /\ (pc' = pc \/ pc = "poll")
    BY <1>10 DEF Signal, Interrupted
  <2> QED BY <2>1, CallsLeftAlone DEF BatchInside
<1>11. CASE \/ Skip \/ TimePasses \/ UNCHANGED vars
            \/ \E t \in Timers : SkipTimer(t)
  <2>1. UNCHANGED <<pc, callVars>>
    BY <1>11 DEF Skip, TimePasses, SkipTimer, vars
  <2> QED BY <2>1, CallsLeftAlone
<1> QED BY <1>1, <1>2, <1>3, <1>4, <1>5, <1>6, <1>7, <1>8, <1>9, <1>10, <1>11
        DEF Next, LoopStep, Exited

\* The two properties of the calls follow.
LEMMA CallInvImplies == CallInv => RunOnceInOrder /\ NoLostWakeup
<1> SUFFICES ASSUME CallInv PROVE RunOnceInOrder /\ NoLostWakeup
  OBVIOUS
<1> DEFINE waiting == batch \o queue
<1>1. Len(waiting) = Len(batch) + Len(queue) /\ DOMAIN waiting = 1..Len(waiting)
  BY DEF CallInv, CallTypes
<1>2. ASSUME NEW i \in 1..Len(waiting) PROVE waiting[i] = ran + i
  <2>1. CASE i <= Len(batch)
    <3>1. waiting[i] = batch[i]
      BY <1>1, <2>1 DEF CallInv, CallTypes
    <3> QED BY <1>1, <2>1, <3>1 DEF CallInv, CallTypes, Order
  <2>2. CASE i > Len(batch)
    <3>1. waiting[i] = queue[i - Len(batch)] /\ i - Len(batch) \in 1..Len(queue)
      BY <1>1, <2>2 DEF CallInv, CallTypes
    <3> QED BY <2>2, <3>1 DEF CallInv, CallTypes, Order
  <2> QED BY <1>1, <2>1, <2>2 DEF CallInv, CallTypes
<1>3. RunOnceInOrder
  BY <1>1, <1>2 DEF RunOnceInOrder, CallInv, CallTypes, Order
<1>4. NoLostWakeup
  BY DEF NoLostWakeup, CallInv, WakeComes
<1> QED BY <1>3, <1>4

-----------------------------------------------------------------------------
\* Every posted call is run once and in the order of posting, though two places
\* take the queue (deferred_call.cpp:61, main_loop.cpp:328,
\* deferred_call_poll_source.h:16).
THEOREM CallsRunOnceInOrder == Spec => []RunOnceInOrder
<1>1. CallInv => RunOnceInOrder
  BY CallInvImplies
<1> QED BY <1>1, CallInvInit, CallInvStep, PTL DEF Spec

\* poll() never sleeps on a call that nobody is about to announce, for any size
\* of the wake pipe (deferred_call.cpp:36-95).
THEOREM NoWakeupIsLost == Spec => []NoLostWakeup
<1>1. CallInv => NoLostWakeup
  BY CallInvImplies
<1> QED BY <1>1, CallInvInit, CallInvStep, PTL DEF Spec

-----------------------------------------------------------------------------
\* The timers: an id is in the map, in the batch, firing or gone, and the two
\* marks say what the map no longer can.
TimerTypes ==
    /\ armed \subseteq Timers /\ inFlight \subseteq Timers /\ canceled \subseteq Timers
    /\ due \subseteq Timers /\ dropped \subseteq Timers
    /\ firing \in 0..MaxTimers
    /\ nextId \in 1..(MaxTimers + 1)
    /\ dueAt \in [Timers -> 0..(Never - 1)]
    /\ period \in [Timers -> {Once} \cup Delays]
    /\ now \in 0..MaxTime

Marks ==
    /\ inFlight = due \cup ({firing} \ {0})
    /\ firing \notin due
    /\ canceled = inFlight \cap dropped
    /\ armed \cap inFlight = {} /\ armed \cap dropped = {}

Issued == \A t \in armed \cup inFlight \cup dropped : t < nextId

InTick ==
    /\ pc = "callback" <=> firing # 0
    /\ due # {} => pc \in {"ticking", "callback"}

TimerInv == TimerTypes /\ Marks /\ Issued /\ InTick

\* A step that leaves the timers alone outside a tick keeps the invariant.
LEMMA TimersLeftAlone ==
    ASSUME TimerInv, UNCHANGED timerVars, now' \in 0..MaxTime,
           \/ pc' = pc
           \/ pc # "callback" /\ pc' # "callback" /\ due = {}
    PROVE  TimerInv'
<1>1. TimerTypes'
  BY DEF TimerInv, TimerTypes, timerVars
<1>2. Marks' /\ Issued'
  BY DEF TimerInv, Marks, Issued, timerVars
<1>3. InTick'
  BY DEF TimerInv, InTick, timerVars
<1> QED BY <1>1, <1>2, <1>3 DEF TimerInv

\* The initial state has no timers.
LEMMA TimerInvInit == Init => TimerInv
<1> SUFFICES ASSUME Init PROVE TimerInv
  OBVIOUS
<1>1. Never - 1 \in Nat
  BY LoopConstants DEF Never
<1>2. 0 \in 0..(Never - 1)
  BY <1>1
<1>3. TimerTypes
  BY <1>2, LoopConstants DEF Init, TimerTypes, Timers
<1>4. Marks /\ Issued /\ InTick
  BY DEF Init, Marks, Issued, InTick
<1> QED BY <1>3, <1>4 DEF TimerInv

\* Whatever is due after a delay is due before Never.
LEMMA DueTimes ==
    ASSUME TimerTypes, NEW d \in Delays
    PROVE  now + d \in 0..(Never - 1)
BY LoopConstants DEF TimerTypes, Never

\* Destroyed entries leave functions of the same type.
LEMMA WithoutType ==
    ASSUME NEW V, NEW f \in [Timers -> V], NEW S, NEW none \in V
    PROVE  Without(f, S, none) \in [Timers -> V]
BY DEF Without

\* Zero is a due time, and no period is one more than the delays.
LEMMA NeutralEntries == 0 \in 0..(Never - 1) /\ Once \in {Once} \cup Delays
<1>1. Never - 1 \in Nat
  BY LoopConstants DEF Never
<1> QED BY <1>1

\* cancel() of an issued id, from a callback or from anywhere else.
LEMMA CancelKeeps ==
    ASSUME TimerInv, NEW id \in 1..(nextId - 1), Cancel(id), UNCHANGED <<pc, now>>
    PROVE  TimerInv'
<1>1. id \in Timers /\ id < nextId
  BY LoopConstants DEF TimerInv, TimerTypes, Timers
<1>2. dueAt' \in [Timers -> 0..(Never - 1)]
  BY WithoutType, NeutralEntries DEF Cancel, TimerInv, TimerTypes
<1>3. period' \in [Timers -> {Once} \cup Delays]
  BY WithoutType, NeutralEntries DEF Cancel, TimerInv, TimerTypes
<1>4. TimerTypes'
  BY <1>1, <1>2, <1>3 DEF Cancel, Unarmed, Marked, TimerInv, TimerTypes
<1>5. Marks'
  BY DEF Cancel, Unarmed, Marked, TimerInv, Marks
<1>6. Issued' /\ InTick'
  BY <1>1 DEF Cancel, Unarmed, Marked, TimerInv, Marks, Issued, InTick
<1> QED BY <1>4, <1>5, <1>6 DEF TimerInv

\* start(), which may cancel another timer first.
LEMMA StartKeeps ==
    ASSUME TimerInv, NEW old \in 0..(nextId - 1), NEW delay \in Delays, NEW repeating \in BOOLEAN,
           Start(old, delay, repeating), UNCHANGED <<pc, now>>
    PROVE  TimerInv'
<1>1. nextId \in Timers /\ nextId' = nextId + 1 /\ nextId' \in 1..(MaxTimers + 1)
  BY LoopConstants DEF Start, TimerInv, TimerTypes, Timers
<1>2. old = 0 \/ (old \in Timers /\ old < nextId)
  BY LoopConstants DEF TimerInv, TimerTypes, Timers
<1>3. nextId \notin armed \cup inFlight \cup dropped /\ nextId # old
  BY <1>1, <1>2, LoopConstants DEF TimerInv, Issued, Timers
<1>4. dueAt' \in [Timers -> 0..(Never - 1)]
  <2> DEFINE left == Without(dueAt, {old} \cap armed, 0)
  <2>1. left \in [Timers -> 0..(Never - 1)]
    BY WithoutType, NeutralEntries DEF TimerInv, TimerTypes
  <2>2. now + delay \in 0..(Never - 1)
    BY DueTimes DEF TimerInv
  <2>3. dueAt' = [left EXCEPT ![nextId] = now + delay]
    BY DEF Start
  <2> QED BY <2>1, <2>2, <2>3
<1>5. period' \in [Timers -> {Once} \cup Delays]
  <2> DEFINE left == Without(period, {old} \cap armed, Once)
  <2>1. left \in [Timers -> {Once} \cup Delays]
    BY WithoutType, NeutralEntries DEF TimerInv, TimerTypes
  <2>2. period' = [left EXCEPT ![nextId] = IF repeating THEN delay ELSE Once]
    BY DEF Start
  <2> QED BY <2>1, <2>2
<1>6. /\ armed' = Unarmed(old) \cup {nextId} /\ canceled' = Marked(old)
      /\ dropped' = IF old = 0 THEN dropped ELSE dropped \cup {old}
      /\ UNCHANGED <<inFlight, due, firing, pc, now>>
  BY DEF Start
<1>7. 0 \notin armed \cup inFlight \cup dropped
  BY DEF TimerInv, TimerTypes, Timers
<1>8. TimerTypes'
  BY <1>1, <1>2, <1>4, <1>5, <1>6 DEF Unarmed, Marked, TimerInv, TimerTypes
<1>9. Marks'
  BY <1>3, <1>6, <1>7 DEF Unarmed, Marked, TimerInv, Marks
<1>10. Issued'
  <2>1. armed' \cup inFlight' \cup dropped' \subseteq
            armed \cup inFlight \cup dropped \cup {nextId} \cup ({old} \ {0})
    BY <1>6 DEF Unarmed
  <2>2. \A t \in armed' \cup inFlight' \cup dropped' : t < nextId \/ t = nextId
    BY <1>2, <2>1 DEF TimerInv, Issued
  <2>3. armed' \cup inFlight' \cup dropped' \subseteq Nat
    BY <1>8 DEF TimerTypes, Timers
  <2> QED BY <1>1, <2>2, <2>3 DEF Issued, Timers
<1>11. InTick'
  BY <1>6 DEF TimerInv, InTick
<1> QED BY <1>8, <1>9, <1>10, <1>11 DEF TimerInv

\* tick() takes the due entries out of the map.
LEMMA TickKeeps ==
    ASSUME TimerInv, DispatchTimer
    PROVE  TimerInv'
<1>1. /\ pc = "service" /\ pc' = "ticking" /\ now' = now
      /\ due = {} /\ firing = 0 /\ inFlight = {} /\ canceled = {}
  BY DEF DispatchTimer, Serviced, TimerInv, Marks, InTick, TimerTypes
<1>2. /\ armed' = armed \ Due /\ due' = Due /\ inFlight' = Due /\ canceled' = {}
      /\ UNCHANGED <<period, nextId, firing, dropped>>
  BY <1>1 DEF DispatchTimer, Tick
<1>3. Due \subseteq armed
  BY DEF Due
<1>4. dueAt' \in [Timers -> 0..(Never - 1)]
  BY WithoutType, NeutralEntries DEF DispatchTimer, Tick, TimerInv, TimerTypes
<1>5. TimerTypes'
  BY <1>1, <1>2, <1>3, <1>4 DEF TimerInv, TimerTypes
<1>6. Marks'
  <2>1. 0 \notin Due /\ Due \cap dropped = {} /\ firing' = 0
    BY <1>1, <1>2, <1>3 DEF TimerInv, TimerTypes, Timers, Marks
  <2>2. inFlight' = due' \cup ({firing'} \ {0}) /\ firing' \notin due'
    BY <1>2, <2>1
  <2>3. canceled' = inFlight' \cap dropped'
    BY <1>2, <2>1
  <2>4. armed' \cap inFlight' = {} /\ armed' \cap dropped' = {}
    BY <1>2 DEF TimerInv, Marks
  <2> QED BY <2>2, <2>3, <2>4 DEF Marks
<1>7. Issued' /\ InTick'
  BY <1>1, <1>2, <1>3 DEF TimerInv, Issued, InTick
<1> QED BY <1>5, <1>6, <1>7 DEF TimerInv

\* The loop over the batch: an entry that was cancelled meanwhile.
LEMMA SkipKeeps ==
    ASSUME TimerInv, NEW t \in Timers, SkipTimer(t)
    PROVE  TimerInv'
<1>1. /\ t \in due \cap canceled /\ UNCHANGED <<pc, now, armed, dueAt, nextId, firing, dropped>>
      /\ due' = due \ {t} /\ inFlight' = inFlight \ {t} /\ canceled' = canceled \ {t}
  BY DEF SkipTimer
<1>2. period' \in [Timers -> {Once} \cup Delays]
  BY WithoutType, NeutralEntries DEF SkipTimer, TimerInv, TimerTypes
<1>3. TimerTypes'
  BY <1>1, <1>2 DEF TimerInv, TimerTypes
<1>4. Marks'
  BY <1>1 DEF TimerInv, Marks
<1>5. Issued' /\ InTick'
  BY <1>1 DEF TimerInv, Issued, InTick
<1> QED BY <1>3, <1>4, <1>5 DEF TimerInv

\* An entry whose callback begins.
LEMMA FireKeeps ==
    ASSUME TimerInv, NEW t \in Timers, FireTimer(t)
    PROVE  TimerInv' /\ t \notin dropped
<1>1. /\ t \in due \ canceled /\ due' = due \ {t} /\ firing' = t
      /\ pc = "ticking" /\ pc' = "callback"
      /\ UNCHANGED <<now, armed, dueAt, period, nextId, inFlight, canceled, dropped>>
  BY DEF FireTimer
<1>2. t # 0 /\ t \in 0..MaxTimers /\ firing = 0
  BY <1>1, LoopConstants DEF Timers, TimerInv, InTick
<1>3. TimerTypes'
  BY <1>1, <1>2 DEF TimerInv, TimerTypes
<1>4. Marks' /\ t \notin dropped
  BY <1>1, <1>2 DEF TimerInv, Marks
<1>5. Issued' /\ InTick'
  BY <1>1, <1>2 DEF TimerInv, Issued, InTick
<1> QED BY <1>3, <1>4, <1>5 DEF TimerInv

\* A callback that returned: a repeating timer is armed again unless it was
\* cancelled.
LEMMA DoneKeeps ==
    ASSUME TimerInv, TimerDone
    PROVE  TimerInv'
<1>1. /\ pc = "callback" /\ pc' = "ticking" /\ firing' = 0
      /\ inFlight' = inFlight \ {firing} /\ canceled' = canceled \ {firing}
      /\ UNCHANGED <<now, nextId, due, dropped>>
  BY DEF TimerDone, Landed
<1>2. firing \in Timers /\ firing \in inFlight /\ firing < nextId
  BY <1>1, LoopConstants DEF TimerInv, TimerTypes, Marks, Issued, InTick, Timers
<1>3. \/ armed' = armed
      \/ armed' = armed \cup {firing} /\ firing \notin dropped
  BY <1>2 DEF TimerDone, TimerInv, Marks
<1>4. dueAt' \in [Timers -> 0..(Never - 1)] /\ period' \in [Timers -> {Once} \cup Delays]
  <2>1. CASE period[firing] # Once /\ firing \notin canceled
    <3>1. period[firing] \in Delays
      BY <1>2, <2>1 DEF TimerInv, TimerTypes
    <3>2. now + period[firing] \in 0..(Never - 1)
      BY <3>1, DueTimes DEF TimerInv
    <3> QED BY <2>1, <3>2 DEF TimerDone, TimerInv, TimerTypes
  <2>2. CASE ~(period[firing] # Once /\ firing \notin canceled)
    <3>1. period' = Without(period, {firing}, Once) /\ dueAt' = dueAt
      BY <2>2 DEF TimerDone
    <3> QED BY <3>1, WithoutType, NeutralEntries DEF TimerInv, TimerTypes
  <2> QED BY <2>1, <2>2
<1>5. TimerTypes'
  <2>1. firing' \in 0..MaxTimers
    BY <1>1, LoopConstants
  <2>2. armed' \subseteq Timers
    BY <1>2, <1>3 DEF TimerInv, TimerTypes
  <2> QED BY <1>1, <1>4, <2>1, <2>2 DEF TimerInv, TimerTypes
<1>6. Marks'
  <2>1. 0 \notin due /\ firing # 0
    BY <1>2 DEF TimerInv, TimerTypes, Timers
  <2>2. inFlight' = due' \cup ({firing'} \ {0}) /\ firing' \notin due'
    BY <1>1, <2>1 DEF TimerInv, Marks
  <2>3. canceled' = inFlight' \cap dropped'
    BY <1>1 DEF TimerInv, Marks
  <2>4. armed' \cap inFlight' = {} /\ armed' \cap dropped' = {}
    BY <1>1, <1>3 DEF TimerInv, Marks
  <2> QED BY <2>2, <2>3, <2>4 DEF Marks
<1>7. Issued' /\ InTick'
  BY <1>1, <1>2, <1>3 DEF TimerInv, Issued, InTick
<1> QED BY <1>5, <1>6, <1>7 DEF TimerInv

\* Every step keeps the timers and their marks.
LEMMA TimerInvStep == TimerInv /\ [Next]_vars => TimerInv'
<1> SUFFICES ASSUME TimerInv, [Next]_vars PROVE TimerInv'
  OBVIOUS
<1>0. now \in 0..MaxTime
  BY DEF TimerInv, TimerTypes
<1>1. CASE DispatchTimer
  BY <1>1, TickKeeps
<1>2. ASSUME NEW t \in Timers, SkipTimer(t) \/ FireTimer(t) PROVE TimerInv'
  BY <1>2, SkipKeeps, FireKeeps
<1>3. CASE TimerDone
  BY <1>3, DoneKeeps
<1>4. CASE ClientStep
  <2>1. UNCHANGED <<pc, now>>
    BY <1>4 DEF ClientStep
  <2>2. CASE ClientTimer
    BY <2>1, <2>2, CancelKeeps, StartKeeps DEF ClientTimer
  <2>3. CASE ClientCallLater \/ RequestFrame \/ Reload
    <3>1. UNCHANGED timerVars
      BY <2>3 DEF ClientCallLater, RequestFrame, Reload
    <3> QED BY <1>0, <2>1, <3>1, TimersLeftAlone
  <2> QED BY <1>4, <2>2, <2>3 DEF ClientStep
<1>5. CASE TimePasses
  <2>1. UNCHANGED <<pc, timerVars>> /\ now' = now + 1 /\ now < MaxTime
    BY <1>5 DEF TimePasses
  <2>2. now' \in 0..MaxTime
    BY <1>0, <2>1, LoopConstants
  <2> QED BY <2>1, <2>2, TimersLeftAlone
<1>6. CASE TickDone
  <2>1. UNCHANGED <<now, timerVars>> /\ pc = "ticking" /\ pc' = "service" /\ due = {}
    BY <1>6 DEF TickDone, NextSource
  <2> QED BY <1>0, <2>1, TimersLeftAlone
<1>7. CASE Signal
  <2>1. UNCHANGED <<now, timerVars>> /\ (pc' = pc \/ (pc = "poll" /\ pc' = "top"))
    BY <1>7 DEF Signal, Interrupted
  <2>2. pc = "poll" => due = {}
    BY DEF TimerInv, InTick
  <2> QED BY <1>0, <2>1, <2>2, TimersLeftAlone
<1>8. CASE \/ Skip \/ UNCHANGED vars
           \/ \E t \in Threads : Post(t) \/ WakeMainLoop(t)
  <2>1. UNCHANGED <<pc, now, timerVars>>
    BY <1>8 DEF Skip, Post, WakeMainLoop, vars
  <2> QED BY <1>0, <2>1, TimersLeftAlone
<1>9. CASE \/ Top \/ RunCall \/ Return \/ Drained \/ DispatchDeferred \/ DispatchOptional
           \/ Prepare \/ PollReturns \/ PollReturnsForOthers \/ Hangup \/ Draw \/ Close
  <2>1. UNCHANGED <<now, timerVars>>
    BY <1>9 DEF Top, RunCall, Return, Drained, DispatchDeferred, DispatchOptional, Serviced,
                Prepare, PollReturns, PollReturnsForOthers, Wake, Hangup, Draw, Close
  <2>2. pc \notin {"ticking", "callback"} /\ pc' # "callback"
    BY <1>9 DEF Top, RunCall, Return, NextSource, Drained, DispatchDeferred, DispatchOptional,
                Serviced, Prepare, PollReturns, PollReturnsForOthers, Wake, Hangup, Draw, Close
  <2>3. due = {}
    BY <2>2 DEF TimerInv, InTick
  <2> QED BY <1>0, <2>1, <2>2, <2>3, TimersLeftAlone
<1> QED BY <1>1, <1>2, <1>3, <1>4, <1>5, <1>6, <1>7, <1>8, <1>9 DEF Next, LoopStep, Exited

\* What Timer::active() answers, from the marks.
LEMMA TimerInvImplies == TimerInv => ActiveIsTruthful
BY DEF TimerInv, Marks, TimerTypes, Timers, ActiveIsTruthful, Active

\* Only FireTimer begins a callback.
LEMMA FiringIsFireTimer ==
    ASSUME [Next]_vars, firing' # firing, firing' # 0
    PROVE  \E t \in Timers : FireTimer(t) /\ firing' = t
<1>1. CASE \E t \in Timers : FireTimer(t)
  BY <1>1 DEF FireTimer
<1>2. CASE ClientStep
  BY <1>2 DEF ClientStep, ClientCallLater, ClientTimer, RequestFrame, Reload, Cancel, Start, timerVars
<1>3. CASE DispatchTimer \/ TimerDone \/ \E t \in Timers : SkipTimer(t)
  BY <1>3 DEF DispatchTimer, Tick, TimerDone, SkipTimer
<1>4. CASE \/ Top \/ RunCall \/ Return \/ Drained \/ DispatchDeferred \/ DispatchOptional
           \/ Prepare \/ PollReturns \/ PollReturnsForOthers \/ Hangup \/ Draw \/ Close
           \/ TickDone \/ Skip \/ Signal \/ TimePasses \/ UNCHANGED vars
           \/ \E t \in Threads : Post(t) \/ WakeMainLoop(t)
  BY <1>4 DEF Top, RunCall, Return, Drained, DispatchDeferred, DispatchOptional, Prepare,
              PollReturns, PollReturnsForOthers, Wake, Hangup, Draw, Close, TickDone, Skip,
              Signal, TimePasses, Post, WakeMainLoop, vars, timerVars
<1> QED BY <1>1, <1>2, <1>3, <1>4 DEF Next, LoopStep, Exited

\* active() tells the truth inside every callback (timer_manager.cpp:107).
THEOREM ActiveTellsTheTruth == Spec => []ActiveIsTruthful
BY TimerInvInit, TimerInvStep, TimerInvImplies, PTL DEF Spec

\* A cancelled timer never fires, whichever callback of which batch cancelled it
\* (timer_manager.cpp:90-184).
THEOREM CancelledNeverFires == Spec => CancelledStaysSilent
<1>1. TimerInv /\ [Next]_vars => [firing' # firing /\ firing' # 0 => firing' \notin dropped]_vars
  BY FiringIsFireTimer, FireKeeps
<1> QED BY <1>1, TimerInvInit, TimerInvStep, PTL DEF Spec, CancelledStaysSilent

-----------------------------------------------------------------------------
\* Where the loop is: which source of the pass is being serviced.
PlaceTypes ==
    /\ pc \in Locations
    /\ at \in 0..4
    /\ optional \in Addresses \cup {Absent}
    /\ polled \in Seq(Sources) /\ Len(polled) <= 3

Pass ==
    /\ pc \in {"top", "before", "poll", "after", "frame", "closed"} => at = 0
    /\ pc \in {"calls", "call"} => at \in 0..Len(polled)
    /\ pc \in {"drained", "ticking", "callback", "other"} => at \in 1..Len(polled)
    /\ pc = "service" => at \in 1..(Len(polled) + 1)

PlaceInv == PlaceTypes /\ Pass

\* A pass has at most three sources.
LEMMA LengthOfPass == PlaceInv => Len(polled) \in 0..3
<1> SUFFICES ASSUME PlaceInv PROVE Len(polled) \in 0..3
  OBVIOUS
<1>1. Len(polled) <= 3
  BY DEF PlaceInv, PlaceTypes
<1>2. Len(polled) \in Nat
  BY DEF PlaceInv, PlaceTypes
<1>3. \A n \in Nat : n <= 3 => n \in 0..3
  OBVIOUS
<1> QED BY <1>1, <1>2, <1>3

\* A step that stays at the source it is at keeps the invariant.
LEMMA StaysAtSource ==
    ASSUME PlaceInv, UNCHANGED <<at, polled>>, optional' \in Addresses \cup {Absent},
           pc' \in Locations,
           \/ pc' = pc
           \/ at = 0 /\ pc' \in {"calls", "call", "before", "poll", "after", "top", "closed"}
           \/ at \in 1..Len(polled)
              /\ pc' \in {"calls", "call", "drained", "ticking", "callback", "other"}
    PROVE  PlaceInv'
<1>1. PlaceTypes'
  BY DEF PlaceInv, PlaceTypes
<1>2. Len(polled) \in 0..3
  BY LengthOfPass
<1>3. Pass'
  BY <1>2 DEF PlaceInv, Pass
<1> QED BY <1>1, <1>3 DEF PlaceInv

\* Going on to the next source keeps it.
LEMMA GoesToNextSource ==
    ASSUME PlaceInv, UNCHANGED <<polled, optional>>, pc' = "service", at' = at + 1,
           at \in 0..Len(polled)
    PROVE  PlaceInv'
<1>1. Len(polled) \in 0..3
  BY LengthOfPass
<1>2. PlaceTypes'
  BY <1>1 DEF PlaceInv, PlaceTypes, Locations
<1>3. Pass'
  BY <1>1 DEF Pass
<1> QED BY <1>2, <1>3 DEF PlaceInv

\* The lists the loop fetches, and the pass over, have at most three sources.
LEMMA SourceLists ==
    ASSUME optional \in Addresses \cup {Absent}
    PROVE  /\ CurrentSources \in Seq(Sources) /\ Len(CurrentSources) <= 3
           /\ <<>> \in Seq(Sources) /\ Len(<<>>) = 0
<1>1. CASE optional = Absent
  <2>1. CurrentSources = <<"deferred", "timer">>
    BY <1>1 DEF CurrentSources
  <2> QED BY <2>1 DEF Sources
<1>2. CASE optional # Absent
  <2>1. CurrentSources = <<"deferred", "timer", optional>>
    BY <1>2 DEF CurrentSources
  <2>2. optional \in Sources
    BY <1>2 DEF Sources
  <2> QED BY <2>1, <2>2 DEF Sources
<1> QED BY <1>1, <1>2

\* The loop starts at the top.
LEMMA PlaceInvInit == Init => PlaceInv
BY SourceLists DEF Init, PlaceInv, PlaceTypes, Pass, Locations, InClient

\* Every step leaves the loop at a source of the pass.
LEMMA PlaceInvStep == PlaceInv /\ [Next]_vars => PlaceInv'
<1> SUFFICES ASSUME PlaceInv, [Next]_vars PROVE PlaceInv'
  OBVIOUS
<1>0. /\ Len(polled) \in 0..3 /\ optional \in Addresses \cup {Absent} /\ pc \in Locations
      /\ at \in 0..4
  BY LengthOfPass DEF PlaceInv, PlaceTypes
<1>1. CASE Return
  <2>1. UNCHANGED <<polled, optional>>
    BY <1>1 DEF Return, pollVars
  <2>2. CASE NextSource
    <3>1. at \in 0..Len(polled)
      BY <1>0, <1>1, <2>2 DEF Return, NextSource, PlaceInv, Pass
    <3> QED BY <2>1, <2>2, <3>1, GoesToNextSource DEF NextSource
  <2>3. CASE /\ at' = at
             /\ \/ pc = "call" /\ pc' = "calls"
                \/ pc = "calls" /\ at = 0 /\ pc' = "before"
                \/ pc = "frame" /\ pc' = "top"
    <3>1. at = 0 \/ (at \in 1..Len(polled) /\ pc' = "calls")
      BY <1>0, <2>3 DEF PlaceInv, Pass
    <3>2. pc' \in Locations
      BY <2>3 DEF Locations, InClient
    <3> QED BY <1>0, <2>1, <2>3, <3>1, <3>2, StaysAtSource
  <2> QED BY <1>1, <2>2, <2>3 DEF Return
<1>2. CASE TickDone \/ Skip
  <2>1. UNCHANGED <<polled, optional>> /\ pc' = "service" /\ at' = at + 1
    BY <1>2 DEF TickDone, Skip, NextSource, pollVars
  <2>2. at \in 0..Len(polled)
    BY <1>0, <1>2 DEF TickDone, Skip, PlaceInv, Pass, PlaceTypes
  <2> QED BY <2>1, <2>2, GoesToNextSource
<1>3. CASE Prepare
  <2>1. pc = "before" /\ pc' = "poll" /\ at = 0 /\ UNCHANGED <<at, optional>>
        /\ polled' = CurrentSources
    BY <1>3 DEF Prepare, PlaceInv, Pass
  <2>2. polled' \in Seq(Sources) /\ Len(polled') <= 3
    BY <1>0, <2>1, SourceLists
  <2> QED BY <2>1, <2>2 DEF PlaceInv, PlaceTypes, Pass, Locations
<1>4. CASE Draw
  <2>1. pc' = "frame" /\ at' = 0 /\ polled' = <<>> /\ optional' = optional
    BY <1>4 DEF Draw
  <2> QED BY <1>0, <2>1, SourceLists DEF PlaceInv, PlaceTypes, Pass, Locations, InClient
<1>5. CASE Signal
  <2>1. CASE Interrupted
    <3>1. pc = "poll" /\ pc' = "top" /\ at' = at /\ at = 0 /\ polled' = <<>> /\ optional' = optional
      BY <1>5, <2>1 DEF Signal, Interrupted, PlaceInv, Pass
    <3> QED BY <1>0, <3>1, SourceLists DEF PlaceInv, PlaceTypes, Pass, Locations
  <2>2. CASE UNCHANGED <<pc, pollVars>>
    <3>1. UNCHANGED <<pc, at, polled, optional>>
      BY <1>5, <2>2 DEF Signal, pollVars
    <3> QED BY <1>0, <3>1, StaysAtSource
  <2> QED BY <1>5, <2>1, <2>2 DEF Signal
<1>6. CASE ClientStep
  <2>1. UNCHANGED <<pc, at, polled>>
    BY <1>6 DEF ClientStep, pollVars
  <2>2. optional' \in Addresses \cup {Absent}
    BY <1>0, <1>6 DEF ClientStep, ClientCallLater, ClientTimer, RequestFrame, Reload
  <2> QED BY <1>0, <2>1, <2>2, StaysAtSource
<1>7. CASE \/ TimePasses \/ UNCHANGED vars
           \/ \E t \in Threads : Post(t) \/ WakeMainLoop(t)
           \/ \E t \in Timers : SkipTimer(t)
  <2>1. UNCHANGED <<pc, at, polled, optional>>
    BY <1>7 DEF TimePasses, Post, WakeMainLoop, SkipTimer, vars, pollVars
  <2> QED BY <1>0, <2>1, StaysAtSource
<1>8. CASE Top \/ PollReturns \/ PollReturnsForOthers \/ Hangup \/ Close
  <2>1. UNCHANGED <<at, polled, optional>> /\ pc' \in {"calls", "after", "closed"}
    BY <1>8 DEF Top, PollReturns, PollReturnsForOthers, Wake, Hangup, Close, pollVars
  <2>2. at = 0
    BY <1>8 DEF Top, PollReturns, PollReturnsForOthers, Wake, Hangup, Close, PlaceInv, Pass
  <2>3. pc' \in Locations
    BY <2>1 DEF Locations, InClient
  <2> QED BY <1>0, <2>1, <2>2, <2>3, StaysAtSource
<1>9. CASE \/ RunCall \/ Drained \/ DispatchDeferred \/ DispatchTimer \/ DispatchOptional
           \/ TimerDone \/ \E t \in Timers : FireTimer(t)
  <2>1. UNCHANGED <<at, polled, optional>>
    BY <1>9 DEF RunCall, Drained, DispatchDeferred, DispatchTimer, DispatchOptional, Serviced,
                TimerDone, FireTimer, pollVars
  <2>2. pc' \in {"call", "calls", "drained", "ticking", "other", "callback"}
    BY <1>9 DEF RunCall, Drained, DispatchDeferred, DispatchTimer, DispatchOptional, TimerDone,
                FireTimer
  <2>3. \/ at \in 1..Len(polled)
        \/ at = 0 /\ pc' = "call"
    BY <1>0, <1>9 DEF RunCall, Drained, DispatchDeferred, DispatchTimer, DispatchOptional, Serviced,
                TimerDone, FireTimer, PlaceInv, Pass, PlaceTypes
  <2>4. pc' \in Locations
    BY <2>2 DEF Locations, InClient
  <2> QED BY <1>0, <2>1, <2>2, <2>3, <2>4, StaysAtSource
<1> QED BY <1>1, <1>2, <1>3, <1>4, <1>5, <1>6, <1>7, <1>8, <1>9 DEF Next, LoopStep, Exited

-----------------------------------------------------------------------------
\* The poll: its deadlines, and that it ends when a timer is due.
PollTypes ==
    /\ deadlines \in [Sources -> 0..Never]
    /\ ready \subseteq Sources
    /\ wokeAt \in 0..MaxTime
    /\ sleepUntil \in 0..Never
    /\ blocked \in BOOLEAN /\ frame \in BOOLEAN /\ shutdown \in BOOLEAN

PollInv == PollTypes /\ NoOversleep

\* A nonempty set of naturals has the least member the definition chooses.
LEMMA LeastMember ==
    ASSUME NEW S \in SUBSET Nat, S # {}
    PROVE  Least(S) \in S /\ \A n \in S : Least(S) <= n
<1> DEFINE R == {ss \in Nat \X Nat : ss[1] < ss[2]}
<1>1. IsWellFoundedOn(R, Nat)
  BY NatLessThanWellFounded DEF OpToRel
<1> HIDE DEF R
<1>2. PICK m \in S : \A n \in S : ~(<<n, m>> \in R)
  BY <1>1, WFMin, Zenon
<1>3. ASSUME NEW n \in S PROVE m <= n
  <2>1. m \in Nat /\ n \in Nat /\ ~(<<n, m>> \in R)
    BY <1>2
  <2>2. ~(n < m)
    BY <2>1 DEF R
  <2> QED BY <2>1, <2>2
<1> QED BY <1>3 DEF Least

\* The horizon.
LEMMA HorizonType == /\ Never \in Nat /\ Never \in 0..Never /\ 0 \in 0..MaxTime
                     /\ \A m \in 0..MaxTime : m \in 0..Never /\ m + Floor \in 0..Never /\ m < Never
                     /\ \A m \in 0..(Never - 1) : m \in 0..Never /\ m < Never
BY LoopConstants DEF Never

\* The timer source asks for a wake no later than any timer is due.
LEMMA TimerDeadlineBounds ==
    ASSUME TimerTypes
    PROVE  /\ TimerDeadline \in 0..Never
           /\ \A t \in armed : TimerDeadline < Never /\ TimerDeadline <= Later(now, dueAt[t])
<1>1. CASE armed = {}
  BY <1>1, HorizonType DEF TimerDeadline
<1>2. CASE armed # {}
  <2> DEFINE S == {dueAt[t] : t \in armed}
  <2>1. S \in SUBSET (0..(Never - 1)) /\ S # {}
    BY <1>2 DEF TimerTypes
  <2>2. S \in SUBSET Nat
    BY <2>1, HorizonType
  <2>3. Least(S) \in S /\ \A n \in S : Least(S) <= n
    BY <2>1, <2>2, LeastMember
  <2>4. TimerDeadline = Later(now, Least(S))
    BY <1>2 DEF TimerDeadline
  <2> HIDE DEF S
  <2>5. Least(S) \in 0..(Never - 1) /\ now \in 0..MaxTime
    BY <2>1, <2>3 DEF TimerTypes
  <2>6. TimerDeadline \in 0..Never /\ TimerDeadline < Never
    BY <2>4, <2>5, HorizonType DEF Later
  <2>7. ASSUME NEW t \in armed PROVE TimerDeadline <= Later(now, dueAt[t])
    <3>1. dueAt[t] \in S
      BY DEF S
    <3>2. dueAt[t] \in 0..(Never - 1) /\ Least(S) <= dueAt[t]
      BY <2>1, <2>3, <3>1
    <3> QED BY <2>4, <2>5, <3>2 DEF Later
  <2> QED BY <2>6, <2>7
<1> QED BY <1>1, <1>2

\* Going into the poll.
LEMMA PrepareKeeps ==
    ASSUME PollInv, TimerTypes, PlaceInv, Prepare
    PROVE  PollInv'
<1>1. /\ UNCHANGED <<ready, wokeAt, frame, shutdown, armed, dueAt, now>>
      /\ blocked' \in BOOLEAN /\ sleepUntil' = SleepUntil(deadlines', blocked')
  BY DEF Prepare, timerVars
<1>2. PICK wish \in {Never} \cup {now + d : d \in Delays} :
         deadlines' = [s \in Sources |-> NewDeadline(deadlines[s], Request(s, wish))]
  BY DEF Prepare
<1>3. now \in 0..MaxTime /\ now \in 0..Never /\ now + Floor \in 0..Never
  BY HorizonType DEF TimerTypes
<1>4. wish \in 0..Never
  BY HorizonType, DueTimes
<1>5. \A s \in Sources : Request(s, wish) \in 0..Never
  BY <1>4, HorizonType, TimerDeadlineBounds DEF Request
<1>6. \A s \in Sources : NewDeadline(deadlines[s], Request(s, wish)) \in 0..Never
  BY <1>5, HorizonType DEF NewDeadline, Earlier, PollInv, PollTypes
<1>7. deadlines' \in [Sources -> 0..Never]
  BY <1>2, <1>6
<1> DEFINE S == {deadlines'[s] : s \in Sources}
           first == Least(S)
<1>8. "timer" \in Sources /\ S \in SUBSET (0..Never) /\ S # {} /\ deadlines'["timer"] \in S
  BY <1>7 DEF Sources
<1>9. S \in SUBSET Nat
  BY <1>8, HorizonType
<1>10. first \in 0..Never /\ first <= deadlines'["timer"]
  BY <1>8, <1>9, LeastMember
<1>11. Request("timer", wish) = TimerDeadline
  <2>1. optional # "timer"
    BY LoopConstants DEF PlaceInv, PlaceTypes, Absent
  <2> QED BY <2>1 DEF Request
<1>12. ASSUME NEW t \in armed
       PROVE  first < Never /\ first <= Later(now, dueAt[t])
  <2>1. TimerDeadline \in 0..Never /\ TimerDeadline < Never /\ TimerDeadline <= Later(now, dueAt[t])
    BY TimerDeadlineBounds
  <2>2. deadlines'["timer"] = Earlier(deadlines["timer"], TimerDeadline)
    BY <1>2, <1>8, <1>11, <2>1, HorizonType DEF NewDeadline
  <2>3. deadlines["timer"] \in 0..Never
    BY <1>8 DEF PollInv, PollTypes
  <2>4. dueAt[t] \in 0..(Never - 1)
    BY DEF TimerTypes
  <2>5. deadlines'["timer"] \in 0..Never /\ deadlines'["timer"] <= TimerDeadline
    BY <2>1, <2>2, <2>3 DEF Earlier
  <2> HIDE DEF first
  <2> QED BY <1>3, <1>10, <2>1, <2>4, <2>5, HorizonType DEF Later
<1> DEFINE end == IF frame THEN now ELSE IF first = Never THEN Never ELSE Later(now, first)
<1>13. sleepUntil' = IF blocked' /\ end < now + Floor THEN now + Floor ELSE end
  BY <1>1 DEF SleepUntil
<1> HIDE DEF first
<1>14. end \in 0..Never
  BY <1>3, <1>10, HorizonType DEF Later
<1>15. sleepUntil' \in 0..Never
  <2> HIDE DEF end
  <2> QED BY <1>3, <1>13, <1>14
<1>16. PollTypes'
  BY <1>1, <1>7, <1>15 DEF PollInv, PollTypes
<1>17. ASSUME ~blocked', NEW t \in armed'
       PROVE  sleepUntil' <= dueAt'[t] \/ sleepUntil' <= now'
  <2>1. sleepUntil' = end /\ t \in armed /\ dueAt'[t] = dueAt[t] /\ now' = now
    BY <1>1, <1>13, <1>17
  <2>2. dueAt[t] \in 0..(Never - 1)
    BY <2>1 DEF TimerTypes
  <2>3. first < Never /\ first <= Later(now, dueAt[t])
    BY <1>12, <2>1
  <2>4. end = IF frame THEN now ELSE Later(now, first)
    BY <1>10, <2>3, HorizonType
  <2> QED BY <1>3, <1>10, <2>1, <2>2, <2>3, <2>4, HorizonType DEF Later
<1>18. ASSUME ~blocked', frame' PROVE sleepUntil' <= now'
  BY <1>1, <1>3, <1>13, <1>18, HorizonType
<1>19. NoOversleep'
  BY <1>17, <1>18 DEF NoOversleep
<1> QED BY <1>16, <1>19 DEF PollInv

\* A step that leaves the poll alone keeps its types, and the timeout is good as
\* long as neither the timers nor the drawing change in the poll.
LEMMA PollLeftAlone ==
    ASSUME PollInv, UNCHANGED pollVars, now' >= now, now \in Nat, now' \in Nat,
           shutdown' \in BOOLEAN, frame' \in BOOLEAN,
           \/ pc' # "poll"
           \/ pc = "poll" /\ UNCHANGED <<armed, dueAt, frame>>
    PROVE  PollInv'
<1>1. PollTypes'
  BY DEF PollInv, PollTypes, pollVars
<1>2. NoOversleep'
  <2> SUFFICES ASSUME pc' = "poll", ~blocked' PROVE NoOversleep'
    BY DEF NoOversleep
  <2>1. pc = "poll" /\ ~blocked /\ UNCHANGED <<armed, dueAt, frame, sleepUntil>>
    BY DEF pollVars
  <2>2. sleepUntil \in Nat
    BY HorizonType DEF PollInv, PollTypes
  <2>3. sleepUntil <= now => sleepUntil' <= now'
    BY <2>1, <2>2
  <2> QED BY <2>1, <2>3 DEF PollInv, NoOversleep
<1> QED BY <1>1, <1>2 DEF PollInv

\* The initial state has no deadlines.
LEMMA PollInvInit == Init => PollInv
BY HorizonType, LoopConstants DEF Init, PollInv, PollTypes, NoOversleep, Sources

\* Every step keeps the deadlines and the timeout good.
LEMMA PollInvStep ==
    PollInv /\ TimerTypes /\ TimerTypes' /\ PlaceInv /\ [Next]_vars => PollInv'
<1> SUFFICES ASSUME PollInv, TimerTypes, TimerTypes', PlaceInv, [Next]_vars
             PROVE  PollInv'
  OBVIOUS
<1>0. /\ now \in Nat /\ now' \in Nat /\ shutdown \in BOOLEAN /\ frame \in BOOLEAN
      /\ now \in 0..MaxTime
  BY LoopConstants DEF TimerTypes, PollInv, PollTypes
<1>1. CASE Prepare
  BY <1>1, PrepareKeeps
<1>2. CASE PollReturns \/ PollReturnsForOthers
  <2>1. PICK fds \in SUBSET ({optional} \ {Absent}) : Wake(WakeFd \cup fds)
    <3>1. CASE PollReturns
      <4>1. WakeFd \cup {} = WakeFd /\ {} \in SUBSET ({optional} \ {Absent})
        OBVIOUS
      <4> QED BY <3>1, <4>1 DEF PollReturns
    <3>2. CASE PollReturnsForOthers
      BY <3>2 DEF PollReturnsForOthers
    <3> QED BY <1>2, <3>1, <3>2
  <2>2. fds \subseteq Sources
    BY DEF PlaceInv, PlaceTypes, Sources
  <2>3. WakeFd \subseteq Sources
    BY DEF WakeFd, Sources
  <2>4. /\ ready' \subseteq Sources /\ wokeAt' = now /\ sleepUntil' = Never /\ blocked' = FALSE
        /\ pc' = "after" /\ UNCHANGED <<deadlines, frame, shutdown>>
    BY <2>1, <2>2, <2>3 DEF Wake
  <2> QED BY <1>0, <2>4, HorizonType DEF PollInv, PollTypes, NoOversleep
<1>3. CASE DispatchDeferred \/ DispatchTimer \/ DispatchOptional
  <2>1. PICK s \in Sources : Serviced(s)
    BY <1>3 DEF DispatchDeferred, DispatchTimer, DispatchOptional, Sources
  <2>2. /\ deadlines' = [deadlines EXCEPT ![s] = Never]
        /\ UNCHANGED <<ready, wokeAt, sleepUntil, blocked, frame, shutdown>>
    BY <2>1 DEF Serviced
  <2>3. pc' # "poll"
    BY <1>3 DEF DispatchDeferred, DispatchTimer, DispatchOptional
  <2>4. deadlines' \in [Sources -> 0..Never]
    BY <2>2, HorizonType DEF PollInv, PollTypes
  <2> QED BY <2>2, <2>3, <2>4 DEF PollInv, PollTypes, NoOversleep
<1>4. CASE Draw
  <2>1. /\ ready' = {} /\ wokeAt' = 0 /\ frame' = FALSE /\ pc' = "frame"
        /\ UNCHANGED <<deadlines, sleepUntil, blocked, shutdown>>
    BY <1>4 DEF Draw
  <2>2. wokeAt' \in 0..MaxTime /\ frame' \in BOOLEAN /\ ready' \subseteq Sources
    BY <2>1, HorizonType
  <2>3. PollTypes'
    BY <2>1, <2>2 DEF PollInv, PollTypes
  <2> QED BY <2>1, <2>3 DEF PollInv, NoOversleep
<1>5. CASE Signal
  <2>1. shutdown' = TRUE /\ UNCHANGED <<now, timerVars, frame>>
    BY <1>5 DEF Signal
  <2>2. CASE Interrupted
    <3>1. /\ pc' = "top" /\ sleepUntil' = Never /\ blocked' = FALSE
          /\ UNCHANGED <<deadlines, ready, wokeAt>>
      BY <2>2 DEF Interrupted
    <3> QED BY <2>1, <3>1, HorizonType DEF PollInv, PollTypes, NoOversleep
  <2>3. CASE UNCHANGED <<pc, pollVars>>
    <3>1. UNCHANGED pollVars /\ pc' = pc /\ UNCHANGED <<armed, dueAt, frame>>
      BY <2>1, <2>3 DEF timerVars
    <3> QED BY <1>0, <2>1, <3>1, PollLeftAlone
  <2> QED BY <1>5, <2>2, <2>3 DEF Signal
<1>6. CASE ClientStep
  <2>1. UNCHANGED <<pc, pollVars, shutdown, now>> /\ pc # "poll"
    BY <1>6 DEF ClientStep, InClient
  <2>2. frame' \in BOOLEAN
    BY <1>0, <1>6 DEF ClientStep, ClientCallLater, ClientTimer, RequestFrame, Reload
  <2> QED BY <1>0, <2>1, <2>2, PollLeftAlone
<1>7. CASE TimePasses
  <2>1. UNCHANGED <<pc, pollVars, shutdown, frame, armed, dueAt>> /\ now' = now + 1
    BY <1>7 DEF TimePasses, timerVars
  <2>2. now' >= now
    BY <1>0, <2>1
  <2> QED BY <1>0, <2>1, <2>2, PollLeftAlone
<1>8. CASE UNCHANGED vars \/ \E t \in Threads : Post(t) \/ WakeMainLoop(t)
  <2>1. UNCHANGED <<pc, pollVars, shutdown, frame, armed, dueAt, now>>
    BY <1>8 DEF Post, WakeMainLoop, vars, timerVars
  <2> QED BY <1>0, <2>1, PollLeftAlone
<1>9. CASE \/ Top \/ RunCall \/ Return \/ Skip \/ Drained \/ TickDone \/ TimerDone \/ Close
           \/ Hangup \/ \E t \in Timers : SkipTimer(t) \/ FireTimer(t)
  <2>1. UNCHANGED <<pollVars, frame, now>> /\ shutdown' \in BOOLEAN
    BY <1>0, <1>9 DEF Top, RunCall, Return, Skip, Drained, TickDone, TimerDone, Close, Hangup,
                      SkipTimer, FireTimer
  <2>2. pc' # "poll"
    BY <1>9 DEF Top, RunCall, Return, NextSource, Skip, Drained, TickDone, TimerDone, Close, Hangup,
                SkipTimer, FireTimer
  <2> QED BY <1>0, <2>1, <2>2, PollLeftAlone
<1> QED BY <1>1, <1>2, <1>3, <1>4, <1>5, <1>6, <1>7, <1>8, <1>9 DEF Next, LoopStep, Exited

-----------------------------------------------------------------------------
IInv == CallInv /\ TimerInv /\ PlaceInv /\ PollInv

\* The four parts together are inductive.
THEOREM LoopInvariant == Spec => []IInv
<1>1. Init => IInv
  BY CallInvInit, TimerInvInit, PlaceInvInit, PollInvInit DEF IInv
<1>2. IInv /\ [Next]_vars => IInv'
  <2> SUFFICES ASSUME IInv, [Next]_vars PROVE IInv'
    OBVIOUS
  <2>1. CallInv' /\ TimerInv' /\ PlaceInv'
    BY CallInvStep, TimerInvStep, PlaceInvStep DEF IInv
  <2>2. PollInv'
    BY <2>1, PollInvStep DEF IInv, TimerInv
  <2> QED BY <2>1, <2>2 DEF IInv
<1> QED BY <1>1, <1>2, PTL DEF Spec

\* The types.
THEOREM LoopTypes == Spec => []TypeOK
<1>1. IInv => TypeOK
  BY DEF IInv, CallInv, CallTypes, TimerInv, TimerTypes, PlaceInv, PlaceTypes, PollInv, PollTypes,
         TypeOK
<1> QED BY <1>1, LoopInvariant, PTL

\* poll() never sleeps past the earliest timer nor with drawing queued, whatever
\* the delays, the deadline kept from earlier iterations and the wish of the
\* other sources (main_loop.cpp:402-458, timer_manager.cpp:114).
THEOREM NeverOversleeps == Spec => []NoOversleep
<1>1. IInv => NoOversleep
  BY DEF IInv, PollInv
<1> QED BY <1>1, LoopInvariant, PTL
=============================================================================
