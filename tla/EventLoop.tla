----------------------------- MODULE EventLoop -----------------------------
(***************************************************************************)
(* The main loop of the shell (src/src/app/main_loop.cpp) with the two     *)
(* services every other component is built on: DeferredCall, the queue     *)
(* through which a thread has a function run by the loop                   *)
(* (src/lib/core/deferred_call.cpp), and TimerManager                      *)
(* (src/lib/core/timer_manager.cpp).                                       *)
(*                                                                         *)
(* One thread runs the loop.  An iteration runs the deferred calls, lets   *)
(* the client code of pending Wayland events run, asks every poll source   *)
(* for its descriptors and its timeout, sleeps in poll(), dispatches the   *)
(* sources that woke, and draws.  Client code (a deferred call, a timer    *)
(* callback, an event handler, a frame callback) is the nondeterministic   *)
(* action ClientStep; it may schedule calls, start and cancel timers, ask  *)
(* for a frame, and reload the configuration, which creates or destroys    *)
(* the one optional poll source of the model.                              *)
(*                                                                         *)
(* Time is a counter.  A deferred call is its number in the order of       *)
(* posting; the functions themselves are not modelled.                     *)
(***************************************************************************)
EXTENDS Integers, Sequences

CONSTANTS
    Threads,    \* threads other than the loop that call callLater
    Addresses,  \* where the optional poll source can be allocated
    Delays,     \* the delays timers are started with
    MaxDelay,   \* the longest of them
    Floor,      \* the least poll timeout while the Wayland flush is blocked
    PipeSize,   \* bytes the wake pipe holds
    MaxCalls,   \* bound: calls ever posted
    MaxTimers,  \* bound: timers ever started
    MaxWork,    \* bound: calls and timers together
    MaxTime     \* bound: the clock

ASSUME LoopConstants ==
    /\ MaxDelay \in Nat /\ Delays \subseteq 0..MaxDelay
    /\ Floor \in Nat
    /\ PipeSize \in Nat \ {0}
    /\ MaxCalls \in Nat /\ MaxTimers \in Nat /\ MaxWork \in Nat /\ MaxTime \in Nat
    /\ Addresses \cap {"deferred", "timer", "absent"} = {}

VARIABLES
    pc,         \* where the loop is
    at,         \* index in polled of the source being serviced, 0 before the poll
    queue,      \* DeferredCall::queue()
    batch,      \* calls taken and not run yet
    writing,    \* threads between the push and the write of the wake byte
    pipe,       \* bytes in the wake pipe
    armed,      \* ids in timerEntries()
    dueAt,      \* due time of each timer
    period,     \* the interval of a repeating one, Once of another
    nextId,     \* nextTimerId()
    inFlight,   \* inFlightTimerIds()
    canceled,   \* canceledTimerIds()
    due,        \* entries tick() took out and has not looked at
    firing,     \* the timer whose callback runs, 0 if none
    deadlines,  \* m_sourceDeadlines
    optional,   \* the address of the optional source, Absent if there is none
    polled,     \* the source list of this iteration
    ready,      \* the sources whose descriptor had revents
    wokeAt,     \* nowAfterPoll
    sleepUntil, \* when the poll times out
    blocked,    \* the flush before the poll was blocked
    frame,      \* frame work or a render is queued
    shutdown,   \* Application::s_shutdownRequested
    now,        \* the clock
    posted,     \* history: calls posted
    ran,        \* history: calls run
    dropped     \* history: timers cancel() was called on

callVars == <<queue, batch, writing, pipe, posted, ran>>
timerVars == <<armed, dueAt, period, nextId, inFlight, canceled, due,
               firing, dropped>>
pollVars == <<deadlines, polled, ready, wokeAt, sleepUntil, blocked>>
vars == <<pc, at, callVars, timerVars, pollVars, optional, frame, shutdown, now>>

-----------------------------------------------------------------------------
Timers == 1..MaxTimers
Sources == {"deferred", "timer"} \cup Addresses
Least(S) == CHOOSE m \in S : \A n \in S : m <= n
Later(m, n) == IF m > n THEN m ELSE n
Earlier(m, n) == IF m < n THEN m ELSE n

\* A time after every other one: no deadline, or a poll without a timeout.
Never == MaxTime + MaxDelay + Floor + 1

\* Where an optional source that does not exist is.
Absent == "absent"

\* The period of a timer that does not repeat.
Once == -1

\* The locations in which client code runs.
InClient == {"call", "callback", "before", "after", "other", "frame"}
Locations == InClient \cup {"top", "calls", "poll", "service", "drained", "ticking", "closed"}

Init ==
    /\ pc = "top" /\ at = 0
    /\ queue = <<>> /\ batch = <<>> /\ writing = {} /\ pipe = 0
    /\ armed = {} /\ nextId = 1 /\ inFlight = {} /\ canceled = {} /\ due = {} /\ firing = 0
    /\ dueAt = [t \in Timers |-> 0]
    /\ period = [t \in Timers |-> Once]
    /\ deadlines = [s \in Sources |-> Never]
    /\ optional = Absent /\ polled = <<>> /\ ready = {} /\ wokeAt = 0 /\ sleepUntil = Never
    /\ blocked = FALSE /\ frame = FALSE /\ shutdown = FALSE /\ now = 0
    /\ posted = 0 /\ ran = 0 /\ dropped = {}

-----------------------------------------------------------------------------
(***************************************************************************)
(* DeferredCall.                                                           *)
(***************************************************************************)

\* A full pipe refuses the byte, and the error is ignored.
WriteByte == pipe' = Earlier(pipe + 1, PipeSize)

\* The next call or timer is within the bound.
Room == posted + nextId <= MaxWork

Push ==
    /\ posted < MaxCalls /\ Room
    /\ posted' = posted + 1
    /\ queue' = Append(queue, posted + 1)

\* callLater on another thread: the push and the write take the lock one by one.
Post(t) ==
    /\ pc # "closed" /\ t \notin writing
    /\ Push
    /\ writing' = writing \cup {t}
    /\ UNCHANGED <<pc, at, batch, pipe, ran, timerVars, pollVars, optional, frame, shutdown, now>>

WakeMainLoop(t) ==
    /\ t \in writing
    /\ writing' = writing \ {t}
    /\ WriteByte
    /\ UNCHANGED <<pc, at, queue, batch, posted, ran, timerVars, pollVars, optional, frame, shutdown, now>>

\* Mutant: on the loop's own thread the wake byte is thought needless.
MutCallLater == Push /\ pipe' = pipe

\* callLater on the thread of the loop.
CallLater == Push /\ WriteByte

\* Mutant: the queue is copied, not moved.
MutTakePending == batch' = queue /\ queue' = queue

TakePending == batch' = queue /\ queue' = <<>>

-----------------------------------------------------------------------------
(***************************************************************************)
(* TimerManager.                                                           *)
(***************************************************************************)

\* What cancel(id) leaves of the armed timers and of the cancel marks.
Unarmed(id) == armed \ {id}

Marked(id) == IF id \in inFlight \ armed THEN canceled \cup {id} ELSE canceled

\* The entries that remain once those of S are destroyed.
Without(f, S, none) == [t \in Timers |-> IF t \in S THEN none ELSE f[t]]

Cancel(id) ==
    /\ armed' = Unarmed(id)
    /\ canceled' = Marked(id)
    /\ dueAt' = Without(dueAt, {id} \cap armed, 0)
    /\ period' = Without(period, {id} \cap armed, Once)
    /\ dropped' = dropped \cup {id}
    /\ UNCHANGED <<nextId, inFlight, due, firing>>

\* start(): an id passed in is cancelled first, 0 is none.
Start(old, delay, repeating) ==
    /\ nextId \in Timers /\ Room
    /\ nextId' = nextId + 1
    /\ armed' = Unarmed(old) \cup {nextId}
    /\ canceled' = Marked(old)
    /\ dueAt' = [Without(dueAt, {old} \cap armed, 0) EXCEPT ![nextId] = now + delay]
    /\ period' = [Without(period, {old} \cap armed, Once)
                    EXCEPT ![nextId] = IF repeating THEN delay ELSE Once]
    /\ dropped' = IF old = 0 THEN dropped ELSE dropped \cup {old}
    /\ UNCHANGED <<inFlight, due, firing>>

Active(id) == id \notin canceled /\ id \in armed \cup inFlight

\* The first half of tick(): the due entries leave the map.
Due == {t \in armed : dueAt[t] <= now}

Tick ==
    /\ armed' = armed \ Due
    /\ due' = Due
    /\ inFlight' = inFlight \cup Due
    /\ dueAt' = Without(dueAt, Due, 0)
    /\ UNCHANGED <<period, nextId, canceled, firing, dropped>>

\* A due entry that an earlier callback of the same tick cancelled.
SkipTimer(t) ==
    /\ pc = "ticking" /\ t \in due \cap canceled
    /\ due' = due \ {t}
    /\ inFlight' = inFlight \ {t}
    /\ canceled' = canceled \ {t}
    /\ period' = Without(period, {t}, Once)
    /\ UNCHANGED <<pc, at, callVars, armed, dueAt, nextId, firing, dropped,
                   pollVars, optional, frame, shutdown, now>>

FireTimer(t) ==
    /\ pc = "ticking" /\ t \in due \ canceled
    /\ due' = due \ {t}
    /\ firing' = t
    /\ pc' = "callback"
    /\ UNCHANGED <<at, callVars, armed, dueAt, period, nextId, inFlight, canceled,
                   dropped, pollVars, optional, frame, shutdown, now>>

Landed == inFlight \ {firing}

\* The callback returned: a repeating timer is armed again unless it was
\* cancelled, and both marks go.
TimerDone ==
    /\ pc = "callback"
    /\ IF period[firing] # Once /\ firing \notin canceled
       THEN /\ armed' = armed \cup {firing}
            /\ dueAt' = [dueAt EXCEPT ![firing] = now + period[firing]]
            /\ UNCHANGED period
       ELSE /\ period' = Without(period, {firing}, Once)
            /\ UNCHANGED <<armed, dueAt>>
    /\ inFlight' = Landed
    /\ canceled' = canceled \ {firing}
    /\ firing' = 0
    /\ pc' = "ticking"
    /\ UNCHANGED <<at, callVars, nextId, due, dropped, pollVars, optional, frame,
                   shutdown, now>>

-----------------------------------------------------------------------------
(***************************************************************************)
(* What client code on the loop's thread does.                             *)
(***************************************************************************)

ClientCallLater ==
    /\ CallLater
    /\ UNCHANGED <<batch, writing, ran, timerVars, optional, frame>>

ClientTimer ==
    /\ \/ \E id \in 1..(nextId - 1) : Cancel(id)
       \/ \E old \in 0..(nextId - 1), delay \in Delays, repeating \in BOOLEAN : Start(old, delay, repeating)
    /\ UNCHANGED <<callVars, optional, frame>>

\* queueFrameWork or queueRender of a surface.
RequestFrame ==
    /\ frame' = TRUE
    /\ UNCHANGED <<callVars, timerVars, optional>>

\* A reload creates or destroys the optional source; the allocator may give
\* the address of one that was destroyed.
Reload ==
    /\ optional' \in IF optional = Absent THEN Addresses ELSE {Absent}
    /\ UNCHANGED <<callVars, timerVars, frame>>

ClientStep ==
    /\ pc \in InClient
    /\ ClientCallLater \/ ClientTimer \/ RequestFrame \/ Reload
    /\ UNCHANGED <<pc, at, pollVars, shutdown, now>>

-----------------------------------------------------------------------------
(***************************************************************************)
(* MainLoop::run.                                                          *)
(***************************************************************************)

\* The top of an iteration: the shutdown test, then the deferred calls.
Top ==
    /\ pc = "top" /\ ~shutdown
    /\ TakePending
    /\ pc' = "calls"
    /\ UNCHANGED <<at, writing, pipe, posted, ran, timerVars, pollVars, optional, frame, shutdown, now>>

RunCall ==
    /\ pc = "calls" /\ batch # <<>>
    /\ batch' = Tail(batch)
    /\ ran' = ran + 1
    /\ pc' = "call"
    /\ UNCHANGED <<at, queue, writing, pipe, posted, timerVars, pollVars, optional, frame, shutdown, now>>

NextSource == pc' = "service" /\ at' = at + 1

\* The end of client code, and what the loop goes on with.
Return ==
    /\ \/ pc = "call" /\ pc' = "calls" /\ at' = at
       \/ pc = "calls" /\ batch = <<>> /\ at = 0 /\ pc' = "before" /\ at' = at
       \/ pc = "calls" /\ batch = <<>> /\ at > 0 /\ NextSource
       \/ pc \in {"after", "other"} /\ NextSource
       \/ pc = "frame" /\ pc' = "top" /\ at' = at
    /\ UNCHANGED <<callVars, timerVars, pollVars, optional, frame, shutdown, now>>

\* TimerManager::pollTimeoutMs, as the time at which the loop has to wake.
TimerDeadline == IF armed = {} THEN Never ELSE Later(now, Least({dueAt[t] : t \in armed}))

\* The deadline a source asks for: the deferred calls none, an optional source
\* what it wishes.
Request(s, wish) ==
    CASE s = "timer"  -> TimerDeadline
      [] s = optional -> wish
      [] OTHER        -> Never

\* try_emplace, then the earlier of the two; -1 erases.
NewDeadline(old, req) == IF req = Never THEN Never ELSE Earlier(old, req)

\* Mutant: work that was queued after the sources were asked is not looked at.
MutSleepUntil(dls, block) ==
    LET first == Least({dls[s] : s \in Sources})
        end == IF first = Never THEN Never ELSE Later(now, first)
    IN  IF block /\ end < now + Floor THEN now + Floor ELSE end

\* The timeout of the poll, as the time at which it ends.
SleepUntil(dls, block) ==
    LET first == Least({dls[s] : s \in Sources})
        end == IF frame THEN now ELSE IF first = Never THEN Never ELSE Later(now, first)
    IN  IF block /\ end < now + Floor THEN now + Floor ELSE end

\* Application::currentPollSources.
CurrentSources ==
    IF optional = Absent THEN <<"deferred", "timer">> ELSE <<"deferred", "timer", optional>>

\* From the end of the event dispatch into poll(): sources fetched afresh,
\* their descriptors and timeouts collected.
Prepare ==
    /\ pc = "before"
    /\ polled' = CurrentSources
    /\ \E wish \in {Never} \cup {now + d : d \in Delays} :
          deadlines' = [s \in Sources |-> NewDeadline(deadlines[s], Request(s, wish))]
    /\ blocked' \in BOOLEAN
    /\ sleepUntil' = SleepUntil(deadlines', blocked')
    /\ pc' = "poll"
    /\ UNCHANGED <<at, callVars, timerVars, ready, wokeAt, optional, frame, shutdown, now>>

\* poll() returns with the given descriptors ready.
Wake(fds) ==
    /\ pc = "poll"
    /\ ready' = fds
    /\ wokeAt' = now
    /\ sleepUntil' = Never /\ blocked' = FALSE
    /\ pc' = "after"
    /\ UNCHANGED <<at, callVars, timerVars, deadlines, polled, optional, frame, shutdown, now>>

WakeFd == IF pipe > 0 THEN {"deferred"} ELSE {}

\* The timeout; the bound of the clock ends every finite one.
TimedOut == now >= sleepUntil \/ (now = MaxTime /\ sleepUntil # Never)

\* A byte in the wake pipe, or the timeout: what makes poll() return.
PollReturns == (pipe > 0 \/ TimedOut) /\ Wake(WakeFd)

\* The Wayland socket or the descriptor of the optional source is ready too.
PollReturnsForOthers == \E fds \in SUBSET ({optional} \ {Absent}) : Wake(WakeFd \cup fds)

\* The compositor closed the socket: the loop returns without closing the bars.
Hangup ==
    /\ pc \in {"before", "after"}
    /\ shutdown' = TRUE
    /\ pc' = "closed"
    /\ UNCHANGED <<at, callVars, timerVars, pollVars, optional, frame, now>>

\* A source is dispatched when a descriptor of it was ready or its deadline is
\* over, and only if the sources fetched again still hold it.
IsLive(s) == s \in {"deferred", "timer", optional}
Woke(s) == s \in ready \/ wokeAt >= deadlines[s]
Current == polled[at]

Skip ==
    /\ pc = "service" /\ at \in DOMAIN polled
    /\ ~(Woke(Current) /\ IsLive(Current))
    /\ at' = at + 1
    /\ UNCHANGED <<pc, callVars, timerVars, pollVars, optional, frame, shutdown, now>>

\* The deadline is forgotten before the dispatch.
Serviced(s) ==
    /\ pc = "service" /\ at \in DOMAIN polled /\ s = Current
    /\ Woke(s) /\ IsLive(s)
    /\ deadlines' = [deadlines EXCEPT ![s] = Never]
    /\ UNCHANGED <<polled, ready, wokeAt, sleepUntil, blocked, optional, frame, shutdown, now>>

\* DeferredCallPollSource::dispatch drains the pipe, then takes the calls.
DispatchDeferred ==
    /\ Serviced("deferred")
    /\ pipe' = 0
    /\ pc' = "drained"
    /\ UNCHANGED <<at, queue, batch, writing, posted, ran, timerVars>>

Drained ==
    /\ pc = "drained"
    /\ TakePending
    /\ pc' = "calls"
    /\ UNCHANGED <<at, writing, pipe, posted, ran, timerVars, pollVars, optional, frame, shutdown, now>>

DispatchTimer ==
    /\ Serviced("timer")
    /\ Tick
    /\ pc' = "ticking"
    /\ UNCHANGED <<at, callVars>>

TickDone ==
    /\ pc = "ticking" /\ due = {}
    /\ NextSource
    /\ UNCHANGED <<callVars, timerVars, pollVars, optional, frame, shutdown, now>>

DispatchOptional ==
    /\ \E a \in Addresses : Serviced(a)
    /\ pc' = "other"
    /\ UNCHANGED <<at, callVars, timerVars>>

\* The pass is over and what it remembered goes out of scope; the queued frame
\* work and renders are taken, then run.
Draw ==
    /\ pc = "service" /\ at \notin DOMAIN polled
    /\ polled' = <<>> /\ ready' = {} /\ wokeAt' = 0 /\ at' = 0
    /\ frame' = FALSE
    /\ pc' = "frame"
    /\ UNCHANGED <<callVars, timerVars, deadlines, sleepUntil, blocked, optional, shutdown, now>>

\* The loop sees the flag: the bars close, and the model ends.
Close ==
    /\ pc = "top" /\ shutdown
    /\ pc' = "closed"
    /\ UNCHANGED <<at, callVars, timerVars, pollVars, optional, frame, shutdown, now>>

-----------------------------------------------------------------------------
\* poll() fails with EINTR and the iteration starts over.
Interrupted ==
    /\ pc = "poll" /\ pc' = "top"
    /\ polled' = <<>> /\ sleepUntil' = Never /\ blocked' = FALSE
    /\ UNCHANGED <<deadlines, ready, wokeAt>>

\* SIGTERM or SIGINT: the handler sets the flag; poll() is interrupted only if
\* the signal was delivered to the thread of the loop.
Signal ==
    /\ pc # "closed" /\ ~shutdown
    /\ shutdown' = TRUE
    /\ \/ UNCHANGED <<pc, pollVars>>
       \/ Interrupted
    /\ UNCHANGED <<at, callVars, timerVars, optional, frame, now>>

TimePasses ==
    /\ pc # "closed" /\ now < MaxTime
    /\ now' = now + 1
    /\ UNCHANGED <<pc, at, callVars, timerVars, pollVars, optional, frame, shutdown>>

\* The loop has returned.
Exited == pc = "closed" /\ UNCHANGED vars

\* What the thread of the loop does when nothing else happens.
LoopStep ==
    \/ Top \/ RunCall \/ Return \/ Prepare \/ PollReturns \/ Skip
    \/ DispatchDeferred \/ Drained \/ DispatchTimer \/ TickDone \/ DispatchOptional
    \/ \E t \in Timers : SkipTimer(t) \/ FireTimer(t)
    \/ TimerDone \/ Draw \/ Close

Next ==
    \/ LoopStep
    \/ ClientStep
    \/ PollReturnsForOthers
    \/ Hangup
    \/ \E t \in Threads : Post(t) \/ WakeMainLoop(t)
    \/ Signal
    \/ TimePasses
    \/ Exited

Spec == Init /\ [][Next]_vars

\* The loop's thread runs, a thread in callLater finishes it, time goes on.
\* No client has to call anything, no descriptor has to become ready.
FairSpec ==
    /\ Spec
    /\ WF_vars(LoopStep)
    /\ \A t \in Threads : WF_vars(WakeMainLoop(t))
    /\ WF_vars(TimePasses)

-----------------------------------------------------------------------------
TypeOK ==
    /\ pc \in Locations
    /\ at \in 0..4
    /\ queue \in Seq(1..MaxCalls) /\ batch \in Seq(1..MaxCalls)
    /\ writing \subseteq Threads
    /\ pipe \in 0..PipeSize
    /\ armed \subseteq Timers /\ inFlight \subseteq Timers /\ canceled \subseteq Timers
    /\ due \subseteq Timers /\ dropped \subseteq Timers
    /\ firing \in 0..MaxTimers
    /\ nextId \in 1..(MaxTimers + 1)
    /\ dueAt \in [Timers -> 0..(Never - 1)]
    /\ period \in [Timers -> {Once} \cup Delays]
    /\ deadlines \in [Sources -> 0..Never]
    /\ optional \in Addresses \cup {Absent}
    /\ polled \in Seq(Sources) /\ Len(polled) <= 3
    /\ ready \subseteq Sources
    /\ wokeAt \in 0..MaxTime /\ now \in 0..MaxTime
    /\ sleepUntil \in 0..Never
    /\ blocked \in BOOLEAN /\ frame \in BOOLEAN /\ shutdown \in BOOLEAN
    /\ posted \in 0..MaxCalls /\ ran \in 0..MaxCalls

\* Every call that was posted runs once and in the order of posting, whichever
\* of the two places that take the queue took it: the top of the iteration
\* (main_loop.cpp:328) or the poll source in the middle of it.
RunOnceInOrder ==
    LET waiting == batch \o queue
    IN  /\ Len(waiting) = posted - ran
        /\ \A i \in DOMAIN waiting : waiting[i] = ran + i

\* The loop never sleeps on a call: while it is in poll(), a call in the queue
\* has its byte in the wake pipe, or the thread that posted it is about to write
\* one.  The queue and the pipe are filled under two acquisitions of the lock and
\* emptied in two steps, and the top of the iteration takes calls without
\* draining.
NoLostWakeup == pc = "poll" /\ queue # <<>> => pipe > 0 \/ writing # {}

\* poll() does not sleep past the earliest armed timer, nor with drawing queued,
\* though the deadlines of a source are kept across iterations, except to let a
\* blocked flush drain.
NoOversleep ==
    pc = "poll" /\ ~blocked =>
        /\ \A t \in armed : sleepUntil <= dueAt[t] \/ sleepUntil <= now
        /\ frame => sleepUntil <= now

\* Timer::active() tells the truth inside every callback: a timer is active when
\* its callback has yet to run, or runs, and nobody cancelled it.
ActiveIsTruthful ==
    \A t \in Timers :
        Active(t) <=> /\ t \in armed \cup due \/ t = firing
                      /\ t \notin dropped

\* A cancelled timer never fires, although tick() has taken the whole batch out
\* of the map before the callback that cancels one of them runs.
CancelledStaysSilent == [][firing' # firing /\ firing' # 0 => firing' \notin dropped]_vars

\* Every posted call runs and every timer due within the horizon fires or is
\* cancelled, unless the loop ends.
Progress ==
    /\ \A c \in 1..MaxCalls : posted >= c ~> ran >= c \/ pc = "closed"
    /\ \A t \in Timers :
          t \in armed ~> \/ t = firing \/ t \in dropped \/ pc = "closed"
                         \/ dueAt[t] > MaxTime
=============================================================================
