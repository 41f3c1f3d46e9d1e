---------------------------- MODULE ScriptRuntime ----------------------------
(***************************************************************************)
(* scripting::ScriptRuntime (src/src/scripting/script_runtime.cpp) with    *)
(* the ScriptWorkerPool that runs it and the PluginStateStore that calls   *)
(* into it.                                                                *)
(*                                                                         *)
(* One runtime is a mailbox that any thread may put events into and a Luau *)
(* VM (the host) that only the runtime's drain() may touch.  There is no   *)
(* thread per runtime: `scheduled' says that a drain is posted to the pool *)
(* or running there.  Results go back to the main thread as deferred calls *)
(* and reach the subscribers of the current generation.                    *)
(*                                                                         *)
(* One action is one critical section of State::mutex, or the work between *)
(* two of them.  Which of its many global functions a script defines and   *)
(* what they do is data: a script call does one of the things in Script.   *)
(* Two clocks are nondeterministic: the update interval (an update may be  *)
(* skipped whenever an earlier one was accepted since the last reload) and *)
(* the age of the entries of the timeout and error histories.              *)
(***************************************************************************)
EXTENDS Naturals, FiniteSets, Sequences, SequencesExt

CONSTANTS
  Worker,          \* threads of ScriptWorkerPool
  Subscriber,      \* one element per subscribe() call
  All,             \* marks a deferred deliverResult()
  Kinds,           \* the kinds of event that the environment sends
  Script,          \* what one script call may do
  Handlers,        \* values of "the script defines onConfigChanged"
  MaxQueue,        \* kMaxQueuedEvents
  MaxConsecutive,  \* kMaxConsecutiveTimeouts
  MaxTimeouts,     \* kMaxTimeoutsPerWindow
  MaxErrors,       \* kMaxHardErrorsPerWindow
  MaxGen,          \* bound: reloads
  MaxCalls,        \* bound: calls by clients, answers included
  MaxConfig        \* bound: config changes

\* Events of one client class each: "Call" is a Call or plain CallArgs,
\* "Hover" a droppable CallArgs (enqueueCallBool), "Stream" a coalescing
\* CallArgs, "Async" any callback matched by host id, "Sound" a
\* SoundLoadResult, "Watch" a StateWatchResult.
ClientKind == {"Update", "Call", "Hover", "Stream"}
EventKind == ClientKind \cup {"Async", "Sound", "Watch", "Settings", "Reload", "Stop"}
Outcome == {"ok", "timeout", "error"}
Behaviour == [outcome : Outcome, patches : BOOLEAN, watches : BOOLEAN,
              asks : BOOLEAN, reads : BOOLEAN, sounds : BOOLEAN]

ASSUME ScriptRuntimeAssumption ==
  /\ IsFiniteSet(Worker) /\ Worker # {}
  /\ All \notin Subscriber
  /\ Kinds \subseteq ClientKind
  /\ Script \subseteq Behaviour /\ Script # {}
  /\ Handlers \subseteq BOOLEAN /\ Handlers # {}
  /\ MaxQueue \in Nat \ {0}
  /\ MaxConsecutive \in Nat \ {0}
  /\ MaxTimeouts \in Nat \ {0}
  /\ MaxErrors \in Nat \ {0}
  /\ MaxGen \in Nat /\ MaxCalls \in Nat /\ MaxConfig \in Nat

VARIABLES
  queue, generation, scheduled, updateQueued, updateRunning,  \* State's fields
  throttle,       \* lastUpdateAccepted is set
  unposted,       \* drains an enqueuer has still to post to the pool
  unhealthy, consecutiveTimeouts, timeoutHistory, errorHistory,
  stopping, stopped,
  host,           \* the VM: its id, the generation it was loaded for, ...
  hosts,          \* VMs created so far
  watchers,       \* ids of the VMs with a watcher in the PluginStateStore
  settingDependencies, hasOnConfigChanged,
  tasks,          \* drains posted to the pool and not yet taken
  pc, event, outcome, result,  \* each pool thread: where it is, drain()'s locals
  deferred,       \* DeferredCall's queue
  replayState,
  subscription,   \* where each subscriber is in its life
  copied,         \* watchers a PluginStateStore::set has still to call
  asked,          \* ids of the VMs with an asynchronous operation in flight
  main,           \* the main thread: running, blocked in stop(), past it
  wish,           \* event onConfigSnapshotChanged has decided to enqueue
  view, marks, blamed, calls, changes   \* what the properties observe

mailbox == <<queue, generation, scheduled, updateQueued, updateRunning, throttle, unposted>>
health == <<unhealthy, consecutiveTimeouts, timeoutHistory, errorHistory, blamed>>
vm == <<host, hosts, watchers, settingDependencies, hasOnConfigChanged, asked, marks>>
pool == <<tasks, pc, event, outcome, result>>
ui == <<deferred, subscription, view>>
clients == <<copied, main, wish, calls, changes>>
vars == <<mailbox, health, stopping, stopped, vm, pool, ui, replayState, clients>>


NoHost == [id |-> 0, gen |-> 0, watching |-> FALSE, handler |-> FALSE]
NoEvent == [kind |-> "none", gen |-> 0, src |-> 0]
NoResult == [gen |-> 0, by |-> 0, mark |-> 0, load |-> FALSE, sound |-> 0]
NoReplay == [ready |-> FALSE, gen |-> 0, mark |-> 0]
Result == [gen : Nat, by : Nat, mark : Nat, load : BOOLEAN, sound : Nat]

TypeOK ==
  /\ queue \in Seq([kind : EventKind, gen : Nat, src : Nat])
  /\ generation \in 0..MaxGen
  /\ {scheduled, updateQueued, updateRunning, throttle} \subseteq BOOLEAN
  /\ {unhealthy, stopping, stopped} \subseteq BOOLEAN
  /\ {settingDependencies, hasOnConfigChanged} \subseteq BOOLEAN
  /\ {consecutiveTimeouts, timeoutHistory, errorHistory, blamed} \subseteq Nat
  /\ {unposted, hosts, tasks, marks, calls, changes} \subseteq Nat
  /\ host \in [id : Nat, gen : Nat, watching : BOOLEAN, handler : BOOLEAN]
  /\ {watchers, copied, asked} \subseteq SUBSET Nat
  /\ pc \in [Worker -> {"idle", "top", "teardown", "reset", "load", "call", "update",
                        "loaded", "health", "publish", "finish", "post", "halt"}]
  /\ event \in [Worker -> [kind : EventKind \cup {"none"}, gen : Nat, src : Nat]]
  /\ outcome \in [Worker -> Outcome]
  /\ result \in [Worker -> Result]
  /\ deferred \in Seq([sub : Subscriber \cup {All}, res : Result])
  /\ replayState \in [ready : BOOLEAN, gen : Nat, mark : Nat]
  /\ subscription \in [Subscriber -> {"new", "live", "gone"}]
  /\ view \in [Subscriber -> [gen : Nat, mark : Nat]]
  /\ main \in {"run", "stopping", "stopped"}
  /\ wish \in {"none", "Settings", "Reload"}

Init ==
  /\ queue = <<>> /\ generation = 0 /\ scheduled = FALSE
  /\ updateQueued = FALSE /\ updateRunning = FALSE /\ throttle = FALSE /\ unposted = 0
  /\ unhealthy = FALSE /\ consecutiveTimeouts = 0 /\ timeoutHistory = 0
  /\ errorHistory = 0 /\ blamed = 0
  /\ stopping = FALSE /\ stopped = FALSE
  /\ host = NoHost /\ hosts = 0 /\ watchers = {} /\ asked = {}
  /\ settingDependencies = FALSE /\ hasOnConfigChanged = FALSE /\ marks = 0
  /\ tasks = 0 /\ pc = [w \in Worker |-> "idle"] /\ event = [w \in Worker |-> NoEvent]
  /\ outcome = [w \in Worker |-> "ok"] /\ result = [w \in Worker |-> NoResult]
  /\ deferred = <<>> /\ replayState = NoReplay
  /\ subscription = [s \in Subscriber |-> "new"]
  /\ view = [s \in Subscriber |-> [gen |-> 0, mark |-> 0]]
  /\ copied = {} /\ main = "run" /\ wish = "none" /\ calls = 0 /\ changes = 0

-----------------------------------------------------------------------------
(* State::enqueue(), one critical section: exactly one disjunct applies,   *)
(* except that the clock decides whether an update comes too early.        *)

Refused(kind) == stopped \/ stopping \/ (unhealthy /\ kind \notin {"Reload", "Sound"})
StreamSlots == {i \in DOMAIN queue : queue[i].kind = "Stream"}
Superseding(kind) == kind = "Stream" /\ StreamSlots # {}
UpdatePending(kind) == kind = "Update" /\ (updateQueued \/ updateRunning)
Full(kind) == Len(queue) >= MaxQueue /\ kind # "Sound"
Droppable == {i \in DOMAIN queue : queue[i].kind \in {"Update", "Hover"}}
Oldest(S) == CHOOSE i \in S : \A j \in S : i <= j
NoRoom(kind) == Full(kind) /\ (kind \in {"Update", "Hover"} \/ Droppable = {})

Refuse(kind) ==
  /\ Refused(kind)
  /\ UNCHANGED <<mailbox, health>>

Supersede(kind, src) ==
  /\ ~Refused(kind) /\ Superseding(kind)
  /\ queue' = [queue EXCEPT ![Oldest(StreamSlots)] =
                 [kind |-> kind, gen |-> generation, src |-> src]]
  /\ UNCHANGED <<generation, scheduled, updateQueued, updateRunning, throttle, unposted,
                 health>>

SkipUpdate(kind) ==
  /\ ~Refused(kind) /\ kind = "Update"
  /\ UpdatePending(kind) \/ throttle
  /\ UNCHANGED <<mailbox, health>>

Drop(kind) ==
  /\ ~Refused(kind) /\ ~Superseding(kind) /\ ~UpdatePending(kind)
  /\ NoRoom(kind)
  /\ throttle' = (throttle \/ kind = "Update")
  /\ UNCHANGED <<queue, generation, scheduled, updateQueued, updateRunning, unposted,
                 health>>

\* The event joins the queue, after evicting the oldest droppable event of a
\* full one; a drain is posted unless one is already scheduled.
Room(kind) == IF Full(kind) THEN RemoveAt(queue, Oldest(Droppable)) ELSE queue
\* Mutant: an evicted update leaves its flag.
UpdateNeverEvicted(kind) == FALSE

UpdateEvicted(kind) == Full(kind) /\ queue[Oldest(Droppable)].kind = "Update"
\* Mutant: every event posts a drain.
ScheduleAlways ==
  /\ scheduled' = TRUE
  /\ unposted' = unposted + 1

Schedule ==
  /\ scheduled' = TRUE
  /\ unposted' = IF scheduled THEN unposted ELSE unposted + 1

Push(kind, src) ==
  /\ ~Refused(kind) /\ ~Superseding(kind) /\ ~UpdatePending(kind) /\ ~NoRoom(kind)
  /\ kind # "Reload"
  /\ queue' = Append(Room(kind), [kind |-> kind, gen |-> generation, src |-> src])
  /\ updateQueued' = (kind = "Update" \/ (updateQueued /\ ~UpdateEvicted(kind)))
  /\ throttle' = (throttle \/ kind = "Update")
  /\ Schedule
  /\ UNCHANGED <<generation, updateRunning, health>>

\* Mutant: a load keeps the run of timeouts.
ForgetVerdict ==
  /\ unhealthy' = FALSE
  /\ timeoutHistory' = 0 /\ errorHistory' = 0 /\ blamed' = 0
  /\ UNCHANGED consecutiveTimeouts

ForgetHealth ==
  /\ unhealthy' = FALSE /\ consecutiveTimeouts' = 0
  /\ timeoutHistory' = 0 /\ errorHistory' = 0 /\ blamed' = 0

\* A load starts a generation: what was queued, replayed or held against the
\* script belongs to the previous one.
PushReload ==
  /\ ~Refused("Reload") /\ ~NoRoom("Reload")
  /\ generation' = generation + 1
  /\ queue' = <<[kind |-> "Reload", gen |-> generation + 1, src |-> 0]>>
  /\ updateQueued' = FALSE /\ updateRunning' = FALSE /\ throttle' = FALSE
  /\ replayState' = NoReplay
  /\ ForgetHealth
  /\ Schedule

Enqueue(kind, src) ==
  \/ Refuse(kind)
  \/ Supersede(kind, src)
  \/ SkipUpdate(kind)
  \/ Drop(kind)
  \/ Push(kind, src)

EnqueueReload ==
  \/ Refuse("Reload") /\ UNCHANGED replayState
  \/ Drop("Reload") /\ UNCHANGED replayState
  \/ PushReload

\* ScriptWorkerPool::post(), which the enqueuer calls after it has unlocked.
Post ==
  /\ unposted > 0
  /\ unposted' = unposted - 1
  /\ tasks' = tasks + 1
  /\ UNCHANGED <<queue, generation, scheduled, updateQueued, updateRunning, throttle, health,
                 stopping, stopped, vm, pc, event, outcome, result, ui, replayState, clients>>

-----------------------------------------------------------------------------
(* The main thread and the other clients.                                  *)

Offering ==
  /\ calls < MaxCalls
  /\ calls' = calls + 1

\* enqueueUpdate(), enqueueCall*(): hosts call them on the main thread.
Client(kind) ==
  /\ main = "run" /\ wish = "none"
  /\ Offering
  /\ Enqueue(kind, 0)
  /\ UNCHANGED <<stopping, stopped, vm, pool, ui, replayState, copied, main, wish, changes>>

\* start() and reload().
Reload ==
  /\ main = "run" /\ wish = "none"
  /\ generation < MaxGen
  /\ Offering
  /\ EnqueueReload
  /\ UNCHANGED <<stopping, stopped, vm, pool, ui, copied, main, wish, changes>>

\* An asynchronous operation of a VM ends, on any thread.
AsyncDone(h) ==
  /\ h \in asked
  /\ Offering
  /\ asked' = asked \ {h}
  /\ Enqueue("Async", h)
  /\ UNCHANGED <<stopping, stopped, host, hosts, watchers, settingDependencies, hasOnConfigChanged,
                 marks, pool, ui, replayState, copied, main, wish, changes>>

\* PluginStateStore::set() on any thread: it copies the watchers under the
\* store's lock and calls them after it.
StateSet ==
  /\ copied = {}
  /\ Offering
  /\ copied' = watchers
  /\ UNCHANGED <<mailbox, health, stopping, stopped, vm, pool, ui, replayState, main, wish, changes>>

Notify(h) ==
  /\ h \in copied
  /\ copied' = copied \ {h}
  /\ Enqueue("Watch", h)
  /\ UNCHANGED <<stopping, stopped, vm, pool, ui, replayState, main, wish, calls, changes>>

\* ScriptApiContext::setConfigSnapshot() with onConfigSnapshotChanged(): the
\* choice is made under the lock and acted upon after it.
ConfigChange ==
  /\ main = "run" /\ wish = "none"
  /\ changes < MaxConfig
  /\ changes' = changes + 1
  /\ wish' = IF stopping \/ stopped \/ ~settingDependencies THEN "none"
             ELSE IF hasOnConfigChanged THEN "Settings" ELSE "Reload"
  /\ wish' = "Reload" => generation < MaxGen
  /\ UNCHANGED <<mailbox, health, stopping, stopped, host, hosts, watchers, settingDependencies,
                 hasOnConfigChanged, asked, marks, pool, ui, replayState, copied, main,
                 calls>>

GrantWish ==
  /\ wish # "none"
  /\ wish' = "none"
  /\ \/ wish = "Reload" /\ EnqueueReload
     \/ wish = "Settings" /\ Enqueue("Settings", 0)
        /\ UNCHANGED replayState
  /\ UNCHANGED <<stopping, stopped, vm, pool, ui, copied, main, calls, changes>>

\* Mutant: only a patched state is replayed.
ReplayTasksPatched(s) ==
  IF replayState.ready /\ replayState.mark # 0
  THEN <<[sub |-> s, res |-> [gen |-> replayState.gen, by |-> 0, mark |-> replayState.mark,
                              load |-> FALSE, sound |-> 0]]>>
  ELSE <<>>

ReplayTasks(s) ==
  IF replayState.ready
  THEN <<[sub |-> s, res |-> [gen |-> replayState.gen, by |-> 0, mark |-> replayState.mark,
                              load |-> FALSE, sound |-> 0]]>>
  ELSE <<>>

\* subscribe(): what the runtime has published so far is replayed to a late
\* subscriber from the event loop.
Subscribe(s) ==
  /\ main = "run" /\ wish = "none"
  /\ subscription[s] = "new"
  /\ subscription' = [subscription EXCEPT ![s] = "live"]
  /\ deferred' = deferred \o ReplayTasks(s)
  /\ UNCHANGED <<mailbox, health, stopping, stopped, vm, pool, view, replayState, clients>>

Unsubscribe(s) ==
  /\ main = "run" /\ wish = "none"
  /\ subscription[s] = "live"
  /\ subscription' = [subscription EXCEPT ![s] = "gone"]
  /\ UNCHANGED <<mailbox, health, stopping, stopped, vm, pool, deferred, view, replayState, clients>>

\* Mutant: results of earlier generations are let through.
OutdatedWhenStopped(res) == stopped

Outdated(res) == stopped \/ res.gen # generation
Live == {s \in Subscriber : subscription[s] = "live"}
Shown(old, res) == [gen |-> res.gen, mark |-> IF res.mark = 0 /\ old.gen = res.gen
                                              THEN old.mark ELSE res.mark]

\* The deferred half of subscribe().
Replay ==
  /\ main # "stopping" /\ wish = "none" /\ deferred # <<>>
  /\ Head(deferred).sub # All
  /\ deferred' = Tail(deferred)
  /\ LET task == Head(deferred) IN
       view' = IF Outdated(task.res) \/ task.sub \notin Live THEN view
               ELSE [view EXCEPT ![task.sub] = Shown(@, task.res)]
  /\ UNCHANGED <<mailbox, health, stopping, stopped, vm, pool, subscription, replayState, clients>>

\* deliverResult(): the state to replay, then the side effects (a sound is
\* loaded at once and the VM that asked for it is answered), then the callbacks.
Deliver ==
  /\ main # "stopping" /\ wish = "none" /\ deferred # <<>>
  /\ Head(deferred).sub = All
  /\ deferred' = Tail(deferred)
  /\ LET res == Head(deferred).res IN
       IF Outdated(res)
       THEN UNCHANGED <<mailbox, health, replayState, view>>
       ELSE /\ replayState' = [ready |-> replayState.ready \/ res.load \/ res.mark # 0,
                               gen |-> generation,
                               mark |-> IF res.mark # 0 THEN res.mark ELSE replayState.mark]
            /\ \/ res.sound # 0 /\ Enqueue("Sound", res.sound)
               \/ res.sound = 0 /\ UNCHANGED <<mailbox, health>>
            /\ view' = [s \in Subscriber |-> IF s \in Live THEN Shown(view[s], res) ELSE view[s]]
  /\ UNCHANGED <<stopping, stopped, vm, pool, subscription, clients>>

\* Mutant: stop() relies on a drain that may not exist.
StopUnscheduled ==
  /\ main = "run" /\ wish = "none"
  /\ main' = "stopping"
  /\ stopping' = TRUE
  /\ queue' = <<[kind |-> "Stop", gen |-> generation, src |-> 0]>>
  /\ updateQueued' = FALSE
  /\ subscription' = [s \in Subscriber |-> "gone"]
  /\ UNCHANGED <<scheduled, unposted, generation, updateRunning, throttle, health, stopped, vm,
                 pool, deferred, view, replayState, copied, wish, calls, changes>>

\* stop(): the caller blocks on stopCv until the drain has torn the VM down.
Stop ==
  /\ main = "run" /\ wish = "none"
  /\ main' = "stopping"
  /\ stopping' = TRUE
  /\ queue' = <<[kind |-> "Stop", gen |-> generation, src |-> 0]>>
  /\ updateQueued' = FALSE
  /\ subscription' = [s \in Subscriber |-> "gone"]
  /\ Schedule
  /\ UNCHANGED <<generation, updateRunning, throttle, health, stopped, vm, pool, deferred, view,
                 replayState, copied, wish, calls, changes>>

StopReturn ==
  /\ main = "stopping" /\ stopped
  /\ main' = "stopped"
  /\ UNCHANGED <<mailbox, health, stopping, stopped, vm, pool, ui, replayState, copied, wish,
                 calls, changes>>

-----------------------------------------------------------------------------
(* drain(), on a thread of the pool.                                       *)

Goto(w, next) == pc' = [pc EXCEPT ![w] = next]

Take(w) ==
  /\ pc[w] = "idle" /\ tasks > 0
  /\ tasks' = tasks - 1
  /\ Goto(w, "top")
  /\ UNCHANGED <<mailbox, health, stopping, stopped, vm, event, outcome, result, ui, replayState,
                 clients>>

\* Mutant: the drain ends and stays scheduled.
DrainEndScheduled(w) ==
  /\ pc[w] = "top"
  /\ queue = <<>> \/ stopped
  /\ Goto(w, "idle")
  /\ event' = [event EXCEPT ![w] = NoEvent]
  /\ UNCHANGED <<mailbox, health, stopping, stopped, vm, tasks, outcome, result, ui, replayState,
                 clients>>

\* Nothing to do: the drain ends.
DrainEnd(w) ==
  /\ pc[w] = "top"
  /\ queue = <<>> \/ stopped
  /\ scheduled' = FALSE
  /\ Goto(w, "idle")
  /\ event' = [event EXCEPT ![w] = NoEvent]
  /\ UNCHANGED <<queue, generation, updateQueued, updateRunning, throttle, unposted, health,
                 stopping, stopped, vm, tasks, outcome, result, ui, replayState, clients>>

\* processEvent() drops an event whose VM or callback is gone, and any call of
\* a function that the script does not define.
Stale(e) ==
  \/ host.id = 0
  \/ e.kind \in {"Async", "Sound"} /\ e.src # host.id
  \/ e.kind = "Watch" /\ ~host.watching
  \/ e.kind = "Settings" /\ ~host.handler

FirstSteps(e) ==
  IF e.kind \in {"Reload", "Stop"} THEN {"teardown"}
  ELSE IF Stale(e) THEN {"finish"}
  ELSE IF e.kind \in ClientKind THEN {"call", "finish"} ELSE {"call"}

Pop(w) ==
  /\ pc[w] = "top"
  /\ queue # <<>> /\ ~stopped
  /\ queue' = Tail(queue)
  /\ event' = [event EXCEPT ![w] = Head(queue)]
  /\ result' = [result EXCEPT ![w] = NoResult]
  /\ updateQueued' = (updateQueued /\ Head(queue).kind # "Update")
  /\ updateRunning' = (updateRunning \/ Head(queue).kind = "Update")
  /\ \E step \in FirstSteps(Head(queue)) : Goto(w, step)
  /\ UNCHANGED <<generation, scheduled, throttle, unposted, health, stopping, stopped, vm, tasks,
                 outcome, ui, replayState, clients>>

\* teardownHost(): watchers are removed, onExit runs and may add one, and they
\* are removed again with the VM; a load then creates the next VM.
TearDown(w) ==
  /\ pc[w] = "teardown"
  /\ \E more \in {{}, {host.id}} :
       watchers' = IF host.id # 0 /\ (\E s \in Script : s.watches) THEN more ELSE {}
  /\ Goto(w, "reset")
  /\ UNCHANGED <<mailbox, health, stopping, stopped, host, hosts, settingDependencies,
                 hasOnConfigChanged, asked, marks, tasks, event, outcome, result, ui,
                 replayState, clients>>

\* Mutant: the watchers that onExit added stay.
KeepWatchers == watchers' = watchers

RemoveWatchers == watchers' = {}

ResetHost(w) ==
  /\ pc[w] = "reset"
  /\ RemoveWatchers
  /\ IF event[w].kind = "Stop"
     THEN /\ host' = NoHost
          /\ Goto(w, "halt")
          /\ UNCHANGED <<hosts, settingDependencies>>
     ELSE /\ hosts' = hosts + 1
          /\ \E handler \in Handlers :
               host' = [id |-> hosts + 1, gen |-> event[w].gen, watching |-> FALSE,
                        handler |-> handler]
          /\ settingDependencies' = FALSE
          /\ Goto(w, "load")
  /\ UNCHANGED <<mailbox, health, stopping, stopped, hasOnConfigChanged, asked, marks, tasks, event,
                 outcome, result, ui, replayState, clients>>

\* Mutant: a result takes the generation of the day.
LabelNow(w) == generation

Label(w) == event[w].gen

\* One call into the script: the top level of a load, its first update(), or
\* the callback of an event.  Bound: a sound callback loads no further sound.
RunScript(w) ==
  /\ pc[w] \in {"load", "update", "call"}
  /\ \E s \in Script :
       /\ outcome' = [outcome EXCEPT ![w] = s.outcome]
       /\ watchers' = IF s.watches THEN watchers \cup {host.id} ELSE watchers
       /\ host' = [host EXCEPT !.watching = @ \/ s.watches]
       /\ asked' = IF s.asks THEN asked \cup {host.id} ELSE asked
       /\ settingDependencies' = (settingDependencies \/ s.reads)
       /\ marks' = IF s.patches THEN marks + 1 ELSE marks
       /\ result' = [result EXCEPT ![w] =
            [gen |-> Label(w), by |-> host.gen, load |-> event[w].kind = "Reload",
             mark |-> IF s.patches THEN marks + 1 ELSE @.mark,
             sound |-> IF s.sounds /\ event[w].kind # "Sound" THEN host.id ELSE @.sound]]
  /\ Goto(w, IF pc[w] = "load" THEN "loaded" ELSE "health")
  /\ UNCHANGED <<mailbox, health, stopping, stopped, hosts, hasOnConfigChanged, tasks, event, ui,
                 replayState, clients>>

\* updateHealth().  Entries older than the window leave the histories.
Remembered(n) == 1..(n + 1)
Health(w) ==
  /\ pc[w] \in {"loaded", "health"}
  /\ IF outcome[w] = "timeout"
     THEN /\ consecutiveTimeouts' = consecutiveTimeouts + 1
          /\ timeoutHistory' \in Remembered(timeoutHistory)
          /\ unhealthy' = (\/ unhealthy
                           \/ consecutiveTimeouts' >= MaxConsecutive
                           \/ timeoutHistory' >= MaxTimeouts)
          /\ UNCHANGED errorHistory
     ELSE /\ consecutiveTimeouts' = 0
          /\ IF outcome[w] = "error"
             THEN errorHistory' \in Remembered(errorHistory)
             ELSE UNCHANGED errorHistory
          /\ unhealthy' = (unhealthy \/ (outcome[w] = "error" /\ errorHistory' >= MaxErrors))
          /\ UNCHANGED timeoutHistory
  /\ blamed' = IF outcome[w] # "ok" /\ result[w].gen = generation THEN blamed + 1 ELSE blamed
  /\ \/ /\ pc[w] = "loaded" /\ outcome[w] = "ok"
        /\ Goto(w, "update")
     \/ Goto(w, IF event[w].kind = "Reload" THEN "publish" ELSE "finish")
  /\ UNCHANGED <<mailbox, stopping, stopped, vm, tasks, event, outcome, result, ui, replayState,
                 clients>>

\* The end of processLoad(): the main thread learns which handlers exist.
Publish(w) ==
  /\ pc[w] = "publish"
  /\ hasOnConfigChanged' = host.handler
  /\ Goto(w, "finish")
  /\ UNCHANGED <<mailbox, health, stopping, stopped, host, hosts, watchers, settingDependencies,
                 asked, marks, tasks, event, outcome, result, ui, replayState, clients>>

Finish(w) ==
  /\ pc[w] = "finish"
  /\ updateRunning' = (updateRunning /\ event[w].kind # "Update")
  /\ Goto(w, IF result[w] = NoResult THEN "top" ELSE "post")
  /\ UNCHANGED <<queue, generation, scheduled, updateQueued, throttle, unposted, health, stopping,
                 stopped, vm, tasks, event, outcome, result, ui, replayState, clients>>

PostResult(w) ==
  /\ pc[w] = "post"
  /\ deferred' = Append(deferred, [sub |-> All, res |-> result[w]])
  /\ result' = [result EXCEPT ![w] = NoResult]
  /\ outcome' = [outcome EXCEPT ![w] = "ok"]
  /\ Goto(w, "top")
  /\ UNCHANGED <<mailbox, health, stopping, stopped, vm, tasks, event, subscription, view,
                 replayState, clients>>

\* The end of the Stop event: stop() may return.
Halt(w) ==
  /\ pc[w] = "halt"
  /\ queue' = <<>>
  /\ stopped' = TRUE
  /\ scheduled' = FALSE
  /\ Goto(w, "idle")
  /\ event' = [event EXCEPT ![w] = NoEvent]
  /\ UNCHANGED <<generation, updateQueued, updateRunning, throttle, unposted, health, stopping, vm,
                 tasks, outcome, result, ui, replayState, clients>>

-----------------------------------------------------------------------------
Drain(w) ==
  \/ Take(w) \/ DrainEnd(w) \/ Pop(w)
  \/ TearDown(w) \/ ResetHost(w) \/ RunScript(w) \/ Health(w) \/ Publish(w)
  \/ Finish(w) \/ PostResult(w) \/ Halt(w)

Environment ==
  \/ \E kind \in Kinds : Client(kind)
  \/ Reload
  \/ \E h \in asked : AsyncDone(h)
  \/ StateSet
  \/ \E h \in copied : Notify(h)
  \/ ConfigChange
  \/ \E s \in Subscriber : Subscribe(s) \/ Unsubscribe(s)
  \/ Stop

MainLoop == GrantWish \/ Replay \/ Deliver \/ StopReturn

Next == Environment \/ MainLoop \/ Post \/ \E w \in Worker : Drain(w)

\* The pool's threads and the event loop run; nobody has to call anything.
Fairness ==
  /\ WF_vars(Post)
  /\ WF_vars(MainLoop)
  /\ \A w \in Worker : WF_vars(Drain(w))

Spec == Init /\ [][Next]_vars
FairSpec == Spec /\ Fairness

-----------------------------------------------------------------------------
(* Properties.                                                             *)

Draining == {w \in Worker : pc[w] # "idle"}

\* The VM is touched by one drain at a time, and a queued event always has a
\* drain on its way: `scheduled' stands for exactly one drain, whether it is
\* still to be posted, waits in the pool or runs there.
OneDrain ==
  /\ unposted + tasks + Cardinality(Draining) = IF scheduled THEN 1 ELSE 0
  /\ queue # <<>> => scheduled

\* updateQueued tells whether an Update is queued.  A flag left behind by an
\* eviction or a reload would silence update() for good.
UpdateFlagExact ==
  /\ updateQueued = (\E i \in DOMAIN queue : queue[i].kind = "Update")
  /\ Cardinality({i \in DOMAIN queue : queue[i].kind = "Update"}) <= 1

\* A result is labelled with the generation of the VM that produced it, so the
\* generation check of deliverResult() drops exactly the results of old VMs.
ResultOfItsHost ==
  /\ \A w \in Worker : result[w] # NoResult => result[w].gen = result[w].by
  /\ \A i \in DOMAIN deferred : deferred[i].sub = All => deferred[i].res.gen = deferred[i].res.by

\* Nothing of the runtime is left behind once it is stopped: no VM, no script
\* call, no watcher in the PluginStateStore, not even one that onExit added.
StoppedIsSilent ==
  stopped => /\ queue = <<>> /\ host = NoHost /\ watchers = {} /\ Live = {}
             /\ \A w \in Worker : pc[w] \in {"idle", "top"}

\* The health verdict starts afresh with each generation, except that a call
\* of the previous generation that was still running may count against it.
FreshBudget ==
  unhealthy => blamed + 1 >= CHOOSE n \in {MaxConsecutive, MaxTimeouts, MaxErrors} :
                               \A m \in {MaxConsecutive, MaxTimeouts, MaxErrors} : n <= m

\* No subscriber goes back to an earlier generation, and it goes back to an
\* earlier result only by the replay it was sent when it subscribed.
ViewsAdvance ==
  [][\A s \in Subscriber :
       /\ view'[s].gen >= view[s].gen
       /\ view'[s].mark < view[s].mark /\ view'[s].gen = view[s].gen =>
            Head(deferred).sub = s]_vars

\* Every subscriber has the state of the current generation, or will be shown
\* it by a replay that the event loop still holds.
SubscriberServed ==
  \A s \in Live :
    replayState.ready =>
      \/ view[s].gen = generation
      \/ \E i \in DOMAIN deferred : deferred[i].sub = s /\ deferred[i].res.gen = generation

\* stop() returns.
StopReturns == main = "stopping" ~> main = "stopped"

\* An accepted load replaces the VM unless a newer load or stop() overtakes it.
LoadTakesEffect ==
  \A g \in 1..MaxGen : generation = g ~> (generation > g \/ stopping \/ host.gen = g)

\* What the clients and the VM see of the runtime: the event whose handling has
\* begun and not ended, and how far stop() has come.
Handling(w) == pc[w] \notin {"idle", "top", "finish", "post"}
Handled == IF \E w \in Worker : Handling(w) THEN event[CHOOSE w \in Worker : Handling(w)]
           ELSE NoEvent
Phase == IF stopped THEN "closed" ELSE IF stopping THEN "closing" ELSE "open"

\* The runtime implements the promise its clients rely on.
Mailbox == INSTANCE ScriptMailbox WITH
  Kind <- EventKind,
  Source <- 0..MaxGen,
  Coalescing <- {"Stream"},
  Evictable <- {"Update", "Hover"},
  Unlimited <- {"Sound"},
  Load <- "Reload",
  Close <- "Stop",
  Capacity <- MaxQueue,
  Nothing <- NoEvent,
  waiting <- queue,
  running <- Handled,
  vm <- host.gen,
  phase <- Phase

\* Every step of the enqueuers, the drains and stop() is a step of the mailbox
\* or changes nothing that it shows: an event is never handled beside another
\* one, out of order, twice, or in the VM of another generation.
ImplementsMailbox == Mailbox!Spec
=============================================================================
