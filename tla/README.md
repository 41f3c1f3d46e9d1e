# Noctalia: formal models

TLA+ models, model-checking configurations and machine-checked proofs for
Noctalia, a Wayland desktop shell written in C++ (bar, dock, panels, lock
screen, notifications, themes, plugins). Paths below are relative to the
directory that holds the repository under `src/`: the program is
`src/src/`, its base library `src/lib/`.

Contents: [1 System](#1-the-system) · [2 Plan](#2-plan) ·
[3 Modules](#3-modules) · [4 Runs](#4-runs) · [5 Fairness](#5-fairness) ·
[6 Proofs](#6-proofs) · [7 Findings](#7-findings) ·
[8 Limits](#8-what-is-not-modelled)

## 1. The system

Almost all of the shell runs on one thread, a hand-written poll loop. What
makes the program hard is what happens around that thread: worker threads that
post closures to it, timers and callbacks that re-enter the code that calls
them, external processes (hooks) that end when they like, a compositor and
D-Bus services that answer late, files that fail to be written, and a teardown
that must end whatever those do.

### Components

| component | state it keeps | operations | hard part | correct when |
|---|---|---|---|---|
| **Main loop** `src/src/app/main_loop.cpp` | list of poll sources, a deadline per source, shutdown flag | one iteration: deferred calls, Wayland events, poll timeout, `poll`, dispatch, drawing | sources that are destroyed while the pass walks them; deadlines kept across iterations; signals | never oversleeps, never dispatches a dead source |
| **Deferred calls** `src/lib/core/deferred_call.cpp` | queue, wake pipe | `callLater` from any thread, `takePending`, `drainWakeFd` | push and wake byte are two critical sections; two places drain | each call once, in order, no lost wakeup |
| **Timers** `src/lib/core/timer_manager.cpp` | entries, ids in flight, ids cancelled | `start`, `cancel`, `active`, `tick` | callbacks that cancel or restart timers of the batch being fired | a cancelled timer is silent, `active` is right |
| **Template hook runner** `src/src/theme/hook_runner.cpp` | queue, `running`, generation floor, condition variable | `enqueue`, `invalidateBefore`, `waitIdle`, `requestShutdown`, `pump`, `onExit` | `pump()` on many threads at once, launch failures, sleepers | exact count, limit, no stranded waiter |
| **Template application** `src/src/theme/template_apply_service.cpp`, part of `template_engine.cpp` | pending request, generations, applied/owed ids, warnings, `state.toml` | `apply`, `reapplyLast`, worker from take to report, undo hooks, teardown | superseding, coalescing, crash between hook and record, hooks that never end | hooks of two generations never mix, no palette change lost, every output on disk is recorded |
| **Script runtime** `src/src/scripting/script_runtime.cpp`, `script_worker_pool.cpp`, `plugin_state_store.cpp` | mailbox, VM, generation, health, subscribers, watchers | `enqueue*`, `reload`, `subscribe`, `stop`, `drain`, config changes, state changes | any thread enqueues, the pool drains, results arrive after a reload | one drain, bounded queue, results of the right VM, `stop` returns |
| **Lock screen and session actions** `src/src/shell/lockscreen/`, `src/src/shell/session/` | pending / locked / unlocking / deferred, what is to run once locked, generations, sleep inhibitor | `lock`, `unlock`, compositor's locked/finished, outputs, PAM result, logind sleep | exit transition, refusal by the compositor, suspend requested in the middle | a suspend goes with its lock; every waiter has a deadline; outputs go off behind a shown lock |
| **Idle management** `src/src/idle/`, callbacks in `src/src/app/application_ui.cpp` | behaviours (waiting, fading, idled), inhibit locks, fade generation, fallback timer, overlay | idled/resumed events, grace fade, inhibit, lock state, reload | completion from overlay and from timer, reports still in the socket, an overlay handed to a lock that never comes | what idled is undone on return; nothing acts while media inhibits; the overlay has an owner |
| **Persistent state** `src/src/config/state_store.cpp` | map in memory, file | setters, owners, reload | a write that fails after the map changed | a successful answer survives a restart |
| **Configuration** `src/src/config/` | sources, overrides, pending flags, debounce timer | file events, own writes, reload, notify | an own write taken for a foreign one and the reverse | no change lost, no loop |
| **HTTP client** `src/src/net/` | transfers by handle and destination | `download`, `request`, `cancel`, offline mode | transfers shared by destination, callbacks that start new transfers | each waiter answered once, one writer per file |
| **Location and weather** `src/src/system/location_service.cpp`, `weather_service.cpp` | resolved position and the request for it, forecast and the request for it, two cache files | `tick`, settings, answers, `setLocation`, resume | answers that arrive after the setting, the place or the process has changed | a position belongs to its address, the forecast to the position |
| **Wayland surfaces** `src/lib/wayland/` | per surface: configured, frame callback, queued work | commit, frame, configure, destroy | raw pointers in queues | no use of a destroyed surface |
| **Plugins** `src/src/plugins/`, hosts in `src/src/scripting/` | registry, installed sources, hosts | scan, install, update, enable | asynchronous git, version rollback | registry and disk agree |
| **Theme and template engine** `src/src/theme/` | resolved palette, transitions | palette generation, rendering | mostly pure computation | (data) |
| **Notifications** `src/src/notification/` | active list, history, timers | notify, close, expire, replace | expiry racing with replacement | closed exactly once |
| **Authentication** `src/src/auth/` | PAM child/thread, fprintd claim | start, answer, cancel | late answer of a cancelled attempt | only the current attempt unlocks |
| **D-Bus mirrors**, **audio**, **system services**, **calendar**, **secrets**, **IPC**, **screen capture**, **clipboard**, **rendering**, **shell UI**, **application wiring** | see the notes in `PROJECT.json` | | | |

### How they interact

```
 signal, Wayland, D-Bus, inotify fds        worker threads, completion threads
              |                                        |  callLater
              v                                        v
   +-------------------- main loop -------------- deferred calls
   |   timers, poll sources, drawing                   ^
   |                                                   |
   +--> theme change --> TemplateApplyService --worker-+
   |                        |  enqueue / waitIdle
   |                        v
   |                     HookRunner --runAsync--> hook processes
   |
   +--> plugin hosts --> ScriptRuntime mailbox --> pool thread + Luau VM
   |          ^                                         |
   |          +------ deliverResult (deferred) ---------+
   |          PluginStateStore.set --> watchers of every VM
   |
   +--> IdleManager --fade--> overlay --> LockScreen --> suspend
   |          ^                              |
   |          +---- session hooks -----------+
   |
   +--> LocationService --pushLocation--> WeatherService
              |  download                      |  download
              +----------> HttpClient <--------+---- album covers
                              |  completion callbacks
                              v  (failures known at once: deferred)
```

The lines are function calls on the thread of the caller except those through
*deferred calls*, which change thread, and through `runAsync`, which starts a
process and reports on a thread of its own.

### Hazards

The things in this code that a test would hardly reach are listed under
`hazards` in `PROJECT.json`, each at its line, with the properties that cover
it or the reason that none does yet.

## 2. Plan

Order, most consequential behaviour first. Status: **done** or *planned*.

1. **HookPool** (abstract) and **HookRunner** implementing it: **done**, proved.
2. **TemplateApplyService** composed with HookPool: **done**, safety proved.
3. **ScriptRuntime** with its pool and state store: **done**, safety proved.
4. **EventLoop** with deferred calls and timers: **done**, safety proved.
5. **LockScreen** with lock-and-suspend, output power and the sleep inhibitor:
   **done**, safety proved.
6. **IdleManager** with its overlay and what the lock screen's hooks show of the
   lock: **done**, safety proved.
7. **HttpClient** and **LocationWeather**, two services on top of it: **done**,
   safety proved.
8. *StateStore* and *ConfigService*: answers against what the next start reads;
   own and foreign writes.
9. *Surface*: queues of pointers against destruction; composed with EventLoop's
   drawing step.
10. *Plugin manager*, authentication, notifications, if room remains.

Abstract specifications: `HookPool`, which HookRunner implements and
TemplateApplyService uses, and `ScriptMailbox`, which ScriptRuntime implements: what
was accepted is handled once, in order and in its own VM, or gives way to what is newer.

## 3. Modules

Common conventions. An action is one critical section of the code, or the code
between two of them; on the main thread it is one handler. A program counter
(`pc`, `workerPc`, `mainPc`, `pump`) tells where a thread is between two
actions. History variables that only properties read are marked in the
declaration. Bounds are CONSTANTS that begin with `Max` and are marked "bound:"
where they limit the model and not the program. Definitions marked `Mutant` or
named `Mut...` are wrong on purpose: each is the version of a definition that a
plausible bug would give, and exists to show that a property notices it.

### HookPool, HookRunner

`HookPool` is what the runner promises to the thread that feeds it: at most
`MaxConcurrent` hooks live, none of a generation below the floor starts,
`waitIdle` returns only when idle or closed, the destructor returns only when
nothing is live.

`HookRunner` is the code. `running`, `currentGeneration`, `shutdown` are the
fields of `State`; `State::queue` is the set of hooks with status "queued" in
the order of `arrival`. `pump[t]` and `held[t]` say where thread `t` is in
`pump()`: a hook stands for the thread on which its completion runs. `wk` and
`mn` are the two clients, the worker and the main thread; "asleep" is a sleep
on `idleCv`, which only `NotifyAll` ends, so a missing notify is a deadlock of
the model as it is of the program.

| action | code |
|---|---|
| `Enqueue`, `InvalidateBefore`, `CallWaitIdle`/`WaitIdle`, `RequestShutdown` | the methods of the same names |
| `PumpStart`, `PumpReturn`, `Launch`, `LaunchReturns`, `LaunchFailed` | the loop of `pump()` and `launch()` |
| `Exit`, `OnExit` | end of the process, the completion callback |
| `Destroy`, `AwaitHooks` | `~HookRunner()` |

### TemplateApplyService

Composed with the hook pool through `Pool == INSTANCE HookPool`: the service
uses the promise and not the runner, which keeps the state space finite enough
for crashes and restarts. Fields under `m_mutex` come first, then the atomics,
the main thread's `AppliedTemplateIds` and deferred closures, the worker with
the local variables of its loop, and what outlives the process (`stateFile`,
`rendered`).

| action | code |
|---|---|
| `Apply`, `ReapplyLast` (`Deduplicate`, `Queue`, `SyncAppliedIds`, `OweLatest`) | `apply`, `reapplyLast`, `sync*Ids` |
| `Take`, `Invalidate`, `EnterBarrier`/`LeaveBarrier` | `workerLoop` up to the barrier |
| `StartUndo`, `EndUndo`, `FinishUndo` | `runUndoHooks` and its closure |
| `StartRender`, `Write`, `CheckPostHook`, `EnqueueHook`, `EnterInlineBarrier` to `EndInlineHook` | template outputs and hooks |
| `SkipDrain`, `EnterDrain`/`LeaveDrain`, `Finish`, `Post` | `drainHooks`, the report, `callLater` |
| `RunForget`, `RunWarning`, `RunAfterApply` | the closures on the main thread |
| `BeginShutdown`, `CloseRunner`, `GraceElapses`, `JoinWorker`, `ResetRunner` | the destructor |
| `NewProcess` | a crash, or an exit, and the next start |

Abstractions: a look stands for palette, mode, wallpaper and scheme; built-in
and community templates, which go through the same functions, are one set; the
order in which a request visits its templates is open; the coalescing window is
left out of `Take`, since a burst replaces `pending` either way.

`Paced` is not a bound but a restriction of the user: with `Paced = TRUE` a
template is enabled again only after its undo has been resolved and recorded.
`OutputAccounted` holds under it and fails without it (section 7).

### ScriptMailbox, ScriptRuntime

`ScriptMailbox` is what a plugin host may rely on when it calls into a runtime: accepted
events wait in order; the next one begins when the last has ended; a call begins, runs and
ends in the VM of the generation that accepted it, and is discarded without a VM; only a
load replaces the VM, only the close ends it, and nothing is accepted after the close. It
says exactly how an accepted event can be lost: to a newer one of its stream, in whose
place it then is; to a full mailbox, if it is the oldest one that may be lost; to a load;
to the close. Threads, drains, flags and health are absent. In the refinement `waiting` is
`queue`, `running` is the event of the thread that is between the pop and the end of the
event's work (`Handled`), `vm` is the generation of the host, and `phase` is what
`stopping` and `stopped` say.

`ScriptRuntime` is one runtime, the pool, and the plugin state store as the runtime sees it.
`queue` to `throttle` are the fields of `State` around the mailbox; `unposted`
counts the drains that an enqueuer has decided on under the lock and not yet
posted; `pc`, `event`, `outcome`, `result` are the locals of `drain()`; `host`
is the VM. `Enqueue` is one critical section with five disjoint outcomes
(refused, superseded, skipped, dropped, pushed); `PushReload` is the sixth, a
load. `TearDown` to `Finish` are `processEvent`, `processLoad`, `teardownHost`,
`updateHealth`; `Deliver` and `Replay` are the two halves that run on the main
thread; `Stop`/`Halt`/`StopReturn` are `stop()` and the end of the Stop event.

What a script does is a record of `Script`: how the call ends, and whether it
patches the UI, watches state, starts an asynchronous operation, reads a
setting, plays a sound. Both clocks (update throttle, age of the histories) are
nondeterministic. Callback numbers start again in each VM, as the registry
references of the VM do; that is why a state-watch event, which carries a number
and no VM id, is compared with `host.watching`. Left out: an invalid entry id,
destruction of the process-wide pool, the exit reasons passed to `onExit`; a
sound callback loads no further sound (named at `RunScript`).

### EventLoop

`pc` is the place in the iteration; while it is in `InClient` client code runs,
as the action `ClientStep` repeated at will: post a call, start, restart or
cancel a timer, ask for a frame, or reload the configuration, which creates or
destroys the one optional poll source. Its address may be reused, as an
allocator would. `Post`/`WakeMainLoop` are `callLater` on another thread.

| action | code |
|---|---|
| `Top`, `RunCall`, `Close` | loop test, deferred calls |
| `Prepare` | timeouts, kept deadlines, floor while the flush is blocked |
| `PollReturns`, `PollReturnsForOthers`, `Hangup`, `Interrupted` | outcomes of `poll()` |
| `Skip`, `DispatchDeferred`/`Drained`, `DispatchTimer`/`TickDone`, `DispatchOptional` | the dispatch pass with its liveness test |
| `SkipTimer`, `FireTimer`, `TimerDone` | the batch of `tick()` |
| `Draw` | queued frame work and renders |

`Prepare` happens at one instant, where the code reads the clock several times;
the other poll sources are one representative, since the loop treats all alike.
`deferred_call.h:5-7` says that a call runs at the top of the next iteration; the
poll source in the middle of the pass may run it earlier, in the iteration that
posted it. The order is the same, and `RunOnceInOrder` is what is checked.

### LockScreen

Everything runs on the main thread, so a handler is an action, with one exception:
`lock()` captures the desktop and serves Wayland events meanwhile. Its first half
(`BeginLock`) sets `starting`, its second half is `LockDeferredLate`, `LockFailed` or
`LockRequested`; in between only handlers that Wayland events reach may run (outputs,
idle actions, a panel's buttons), which the guard `Idle` of the others says.

| action | code |
|---|---|
| `Lock`, `LockDeferredLate`, `LockFailed`, `LockRequested`, `HandleLocked`, `HandleFinished` | `lock()`, `resetLockState()`, the listener of the session lock |
| `Unlock`, `RunFinish`, `ExitTimeout` | `unlock()`, `tryFinishAnimatedUnlock()` and its closure, `finishUnlock()` |
| `OutputsChange`, `SurfaceRevealed`, `SurfaceInvalidated`, `SurfaceGone` | `onOutputChange()`, the frame callbacks of `LockSurface` |
| `PlainSuspend`, `LockThenSuspend`, `RunSuspendCall`, `SleepTimeout` | `SessionActionRunner`, `runAfterSessionLocked()` and what it leaves behind |
| `SetOutputPower`, `RunPowerCall`, `OffTimeout` | `Application::setOutputPower()` and `prepareForOutputPowerOff()` |
| `SleepSignal`, `ResumeSignal` | the callback of logind in `application_services.cpp` |

A surface is "covered" until its revealed frame is acknowledged, "revealed" until
that frame is invalidated, "exiting" and "gone" during an unlock. A closure whose
generation was cancelled does nothing when it runs; the model drops it when it is
cancelled. Closures of different kinds run in any order, more orders than the queue
allows. Left out: the ways to an unlock (password, fingerprint, grace period: it may
come at any time), a surface that cannot be created, a second failure of a power
command. `LateSuspend = FALSE` restricts the user: no lock-and-suspend during an exit
transition. `SuspendHasLock` holds under it and fails without it (section 7).

### IdleManager

One behaviour is `phase[b]` with `note[b]`, its `ext_idle_notification_v1`: the
timeout it was created with, what the compositor last reported, and the reports
still in the socket. Re-creating a notification (`Armed`) drops what was unread, as
destroying the proxy does. `fade` is the overlay, the two kinds of deferred calls
between it and the manager, and the fallback timer. Each of these was made under a
generation, and a check of a generation only asks whether it is the one of now, so
a call is "current" or "stale" (`Superseded` is the increment). `effect` is what the
user sees: behaviours whose action is in force and has a resume action.

| action | code |
|---|---|
| `HandleIdled`, `HandleResumed` (`ResumeFading`, `ResumeIdled`, `ResumeWaiting`) | the listener of a notification |
| `ShowOverlay`, `OverlayFaded`, `FadeDone`, `FallbackFires` | the deferred calls, the animation, `m_graceFallbackTimer` |
| `Begun`, `Ended`, `Cancelled`, `Complete`, `Run` | the grace callbacks of `application_ui.cpp`, `cancelActiveGrace()`, `graceFadeComplete()`, `runBehavior()` |
| `InhibitTaken`, `InhibitReleased`, `ReleaseApplied` | `setScreenSaverInhibitLocks()` and its debounce |
| `LockConfirmed`, `LockAborted`, `Unlocked`, `UnlockedEarly` | the session hooks, and the unlock that calls none |
| `Lock`, `LockRequested`, `OutputsReturn` | `LockScreen::lock()` as one step: active already, requested, deferred, refused |
| `Reload`, `OutputsChange`, `SleepChanges` | `reload()`, the outputs, logind's signal |
| `ReportIdle`, `UserActive` | the compositor (external) |

`Paced = TRUE` restricts user and compositor: no reload while a fade will lock or an
action is in force, no unlock before the lock is confirmed. `OverlayOwned`,
`ActionRemembered` and `UndoneOnReturn` fail without it (section 7).
Left out: the heartbeat of the settings window, the watches of plugins, an action that
calls back into the manager (`lock()` may serve Wayland events; LockScreen models that
half), a lock screen that is disabled in the configuration.

### HttpClient, LocationWeather

`HttpClient` has the downloads: `transfers` and `activeByDest` are the two maps,
`running` is the `for` loop over the callbacks of a finished transfer, `deferred`
the failures that were known at once, `pending` what each callback has captured. It
has no `Next` of its own: its steps are conjuncts of a client's. A URL stands for
the content of its answer, so a wrong answer is visible as a wrong URL.

`LocationWeather` EXTENDS it with the two services and `pushLocation()`. A place
stands for coordinates and label; `awaits` is the call whose serial equals
`m_requestSerial`. A third client downloads one file from two URLs, as the album
covers do, so that retries run inside callbacks.

| action | code |
|---|---|
| `Download` (`Refused`, `Join`, `Start`), `TryNext` | `download()`, `downloadSequential()` |
| `Finish`, `RunDeferred`, `Answer` | `finishTransfer()`, `deferFailure()`, a completion callback |
| `LocationTick`, `LocationAnswered`, `ChangeLocationSettings` | `tick()`, `handleResponse()`, `onConfigReload()` of the location |
| `WeatherTick`, `WeatherAnswered`, `ChangeWeatherSettings` | the same of the weather |
| `SetLocation`, `PushLocation`, `Resume` | `setLocation()`, the callbacks of `application_services.cpp` |
| `Initialized`, `Restart` | `initialize()` with whatever the caches hold; a kill at any moment |
| `LocationDeadline`, `WeatherDeadline` | the clock reaches `m_nextRefreshAt` |

`Paced = TRUE` restricts the user: no location setting changes and the weather is not
switched on while a geocoding or a forecast is awaited; with a cache it is switched on
only while some place is published; and its other settings stay while a wrong forecast is
shown. `LocationOfItsAddress` and `WrongForecastPursued` need it (sections 6 and 7).
`WeatherFollowsLocation` does not: it says where the weather is asked for, the published
place, and names the one step that takes it elsewhere, switching it on with the saved
forecast of a place that is no longer published. The run takes that step. Error texts are left out: a step that leaves a service without a result
also clears its error, so no guard depends on them. The retry delay grows in the code
and is one value here.

## 4. Runs

| run | configuration | what it shows |
|---|---|---|
| `hook_runner` | 4 hooks of 2 generations, 2 at once | no lost wakeup, implements `HookPool`, waiters return |
| `template_reports` | 1 template, 2 looks, 2 palette changes, 2 generations | reports in order and each change once, announced changes arrive, teardown ends though no hook ends by itself |
| `template_undo` | 2 templates (one with an inline hook), 3 generations, 1 crash, paced | generations never mix, an inline hook is alone, no change lost, warnings of the right request, outputs recorded across the crash |
| `template_stale_forget` | the same, 2 generations, not paced | violation, see section 7 |
| `script_mailbox` | queue of 2, 2 loads, 4 calls with results and sounds, 2 pool threads, no watches or settings | implements `ScriptMailbox`, exact flag, `stop` returns, loads take effect |
| `script_results` | 1 subscriber, config change, patches, watches, failures | results of the right VM, fresh health budget, late subscribers served, nothing left after `stop` |
| `event_loop` | 3 calls and timers, at most 2 of a kind, pipe of 1 byte, 1 other thread, 1 optional source | calls once and in order, no lost wakeup, no oversleeping, progress |
| `lock_screen` | 2 monitors, 2 changes of monitors or frames, no late suspend | a suspend goes with its lock, waiters have deadlines, outputs go off safely, everything settles though no frame need ever be shown |
| `lock_late_suspend` | the same with late suspends | violation, see section 7 |
| `location` | 2 addresses, automatic, manual and no location, 2 calls of the location, 1 of the weather, 1 of a client with 2 URLs, 2 handles, paced | one answer per call and one writer per file, open requests are awaited, positions belong to their address, the weather follows except from a switch-on to the next published place, a wrong forecast is pursued |
| `location_stale` | the same without the third client, not paced | violation, see section 7 |
| `idle` | a lock, monitors off (slower when locked), a command that runs when locked only; with and without fade, and a section without the last two; paced | the overlay has an owner, actions are remembered and undone, behaviours watch with the right timeout, media keeps actions away, no fade is cut short, every fade ends |

Bounds, and why they are enough:

* *HookRunner*: two generations are one that is invalidated and one that is not;
  four hooks with two slots give a full pool with a queue behind it, from both
  generations, and every pair of concurrent pumps.
* *TemplateApplyService*: three generations are one in flight, one superseded
  while pending and one that supersedes it; a second template is needed for a
  partial undo, a second look and palette change for a report that overtakes
  another. One restart suffices: the second starts from a state the first
  already reached.
* *ScriptRuntime*: a queue of two is full with one droppable and one undroppable
  event; two loads give an old VM, a new VM and results of both; limits of two
  for timeouts and errors separate the count from the last event.
* *EventLoop*: a wake pipe of one byte is full after one call, which the real one
  is after 64 KiB; two timers give a batch with a member that the other's
  callback can cancel, two calls an order; three of both together (`MaxWork`) keep
  the run with liveness within minutes. A clock of two instants and a delay of one
  give due and not due. Time stops at `MaxTime`, and `TimedOut` lets a finite sleep
  end there.
* *LockScreen*: two monitors are one that has shown its frame and one that has not;
  two changes let a frame be lost and the monitor it was on leave. `MaxFinish`
  bounds closures left behind by unlocks that their timer finished first; two are
  a stale one and a live one. Nothing else is bounded.
* *LocationWeather*: two calls of the location are one that is superseded and one that
  is awaited, and joined transfers bring them together. One call of the weather is a bound:
  one that a clear has superseded must be answered before the next is made. Two handles
  let two files be fetched at once. Handles, calls and addresses differ by name only, and
  the run checks safety, so symmetry is sound. Restarts are not bounded.
* *IdleManager*: a behaviour of each kind that matters (locks or not, undone or not,
  timeouts that differ when locked, timeout only when locked) and nothing else bounded;
  one report of each kind may be unread per notification, and one activity of the user,
  which the socket's order then tells apart.

`CHECK_DEADLOCK FALSE` is given to the systems that stop: a destroyed runner or
service, a stopped runtime with no calls left. The loop's runs check deadlock;
`Exited` is its only stop.

## 5. Fairness

* `HookRunner!FairSpec`: every thread inside `pump()`, `waitIdle()` or the
  destructor takes its next step, and every hook process ends, by itself or
  because the owner raises the cancel flag. Nobody has to enqueue, wait or close.
* `TemplateApplyService!FairSpec`: the worker, the main loop (deferred closures)
  and the pool run; a destructor that has begun goes on, its grace period
  elapses; a hook ends **only once the cancel flag is up**, because the code kills
  its process group then. `ChangeReported` therefore assumes explicitly that hooks
  keep ending, and `ShutdownCompletes` does not.
* `ScriptRuntime!FairSpec`: a drain that was decided on is posted, pool threads
  and main loop run. A script call ends because the runtime's interrupt enforces
  its budget. No client has to call anything.
* `EventLoop!FairSpec`: the loop's thread runs, a thread inside `callLater`
  leaves it, time passes. No client calls and no descriptor becomes ready.
* `IdleManager!FairSpec`: reports in the socket are read, and `m_graceFallbackTimer`
  fires unless it is stopped. The user need not do anything, the overlay need not
  finish, the compositor need not confirm a lock.
* `LocationWeather!Spec` has none: nothing promises that an address can be found or that
  a server answers, and what must not be lost meanwhile is stated as invariants.
* `LockScreen!FairSpec`: `lock()` returns, the compositor answers a pending lock (locked or
  finished), deferred calls run and the three timers fire. No frame is ever promised,
  no user unlocks, no monitor comes back.

All fairness is weak: each is about a thread that is runnable and stays so.

## 6. Proofs

Eight modules hold theorems for every value of the constants. Their leaves are
checked by SMT (Z3), Zenon and, for the temporal steps, LS4.

**HookRunner_proofs.** Inductive invariant `IInv`: `TypeOK`, `RunningIsExact`,
`NoLostWakeup`, and what they need: queued hooks are not older than the floor
(`QueueIsFresh`), a closed runner has an empty queue (`ClosedQueueIsEmpty`), a
thread that launches holds a hook that was popped (`HoldsLaunched`), a completion
thread pumps only after its hook is over (`CompletionPumpsLast`), the worker pumps
only while it is in `enqueue` (`WorkerPumpsItself`), it has left before the
destructor runs (`WorkerLeftBeforeDtor`), and it does not sleep on a closed runner
(`NoSleepAfterShutdown`). `NoLostWakeup` is not inductive alone: a pump that
returns without starting anything has notified only if nothing stale can be left
in the queue behind it, and that `running` is the number of counted hooks is what
makes the destructor's test mean that no hook is live.
Theorems: `TypeCorrect`, `RunningExact`, `WakeupsNotLost`, and `Implementation`,
the refinement of `HookPool`.

**TemplateApplyService_proofs.** `IInv` is `TypeInv` (types, and in which phases
the worker has a request, a template and the in-flight mark), `Newest` (the newest
generation is the pending request's or else the worker's), `Teardown` (the runner is
closed only after the service is), `BehindBarrier` (past the barrier every hook is
of the request in hand, unless a closed runner released the worker early, and then
it runs nothing more), `InlineBarrier`, `InlineHookAlone` and `OwedHasCarrier`.
`OnlyOwnHooks` follows from `BehindBarrier`. `ChangeNeverLost` needs `Told` besides:
the handler never runs ahead of what was announced, and callbacks are in hand only
while the worker posts.

The rest is about requests and their reports, to which most steps do nothing.
`NextRequest` sorts the steps once: a step is `Quiet` (hooks, the pool, the teardown past
its first lock, the worker moving on) or one of fourteen actions. `Older` adds to
`Newest` that a request at work is older than one that waits: an undo therefore starts
only when none waits, because otherwise it is superseded. On these rest three layers.
`PendingOwn` and `PostedOwn`: the warnings collected while a run is the newest are its
own, because a hook that fails late compares its own generation, and so are those of a
closure. `Accounted`: the ids in memory and in `state.toml` agree once loaded
(`Records`); what a request enables is recorded, not to be undone by it, and not about
to be forgotten (`Requests`); what an undo has resolved is off the disk and not enabled
by a request that waits (`Undone`); what is written is enabled (`Written`). The step that
needs `Paced` is the queuing of a request: without it a closure that will forget an id
may be on its way, and `template_stale_forget` is the run that shows it.
`OnceHeard` and `LastHeard`: an owed change is in no report, no change is in two, a
completion is the last closure the worker posts (`OutboxShape`), and the newest inputs
wait, or are at work, or are what the handler is left with once everything posted has
run (`Ends`).
Theorems: `TypeCorrect`, `HooksAreOwn`, `InlineAlone`, `OwedIsCarried`,
`ChangeKept`, `WarningsAreOwn`, `OutputsAreRecorded` (for `Paced`), `ReportsAreOrdered`.

**EventLoop_proofs.** One invariant in four parts. `CallInv`: the batch and the
queue together are numbered consecutively, a batch exists only where it is run, and
a call in the queue has a byte in the pipe or a thread about to write one, except
between the drain and the take. `TimerInv`: the ids in flight are those left in the
batch and the one firing, the cancelled marks are those of them that were dropped,
and neither overlaps the map. `PlaceInv`: the pass stays inside the list it fetched.
`PollInv`: types and `NoOversleep`, which is inductive because the timeout is the
least of the kept and the new deadlines, and nobody arms a timer while the loop
is in `poll`.
Theorems: `CallsRunOnceInOrder`, `NoWakeupIsLost`, `ActiveTellsTheTruth`,
`CancelledNeverFires`, `LoopTypes`, `NeverOversleeps`.

**LockScreen_proofs.** `Shape` is `TypeOK` and `SessionShape`: a lock is pending or
confirmed and not both, `lock()` in progress excludes both, an unlock in progress has
a confirmed lock and its timer, a deferred lock has no outputs. On it rest
`WaitersHaveDeadline`, which is inductive with it, and `SuspendHasLock`, which is not:
`finishUnlock()` drops nothing, so `SuspendInv` adds that no suspend is held while the
session unlocks, and there the proof needs `~LateSuspend`, exactly where the run without
it fails. `SafePowerOff` follows from each step alone, because the closure and
`prepareForOutputPowerOff()` look at the lock when they act.
Theorems: `ShapeInvariant`, `LockTypes`, `DeadlinesRun`, `SuspendsWithItsLock`,
`OutputsOffSafely`.

**IdleManager_proofs.** Types first, then five parts on top of them. `SocketOrder`
says how the reports of one notification and the activity of the user can lie in the
socket; without it a report of idleness could be read after the activity that ended it.
`Awake` is that a notification that a behaviour relies on exists: with it `WatchesOn` is
inductive. `EffectIdled` ties an action in force to its phase, and here a reload that
drops it must be excluded. `InhibitedIsQuiet` says that no behaviour fades while media
inhibits, which gives `InhibitedActsNot` as a property of each step, and
`OverlayFollows` says where an overlay that outlives its fade comes from, a lock that is
on its way or confirmed. `ActsAfterItsFade` is a property of each step: of all steps only a
completion and the fallback timer turn `Fading` into `Idled`, and ending or hiding a fade
makes no completion (`CompleteKeepsDones`).
Theorems: `TypeCorrect`, `BehavioursWatchOn`, `ActionsAreRemembered` and `OverlayIsOwned`
(both for `Paced`), `InhibitionHolds`, `ActsOnlyAfterItsFade`.

**HttpClient_proofs, LocationWeather_proofs.** HttpClient is proved by itself: whoever
takes its steps, they keep `DownloadsShared` (`HttpStep`). `HeldOnce` is a statement about
unions of sets, which the provers do not take well, so it is first shown to be the same as
`HoldsEach`, the place of one call. A retry from inside a callback needs its call to be
outstanding even for the types, so types and `HeldOnce` are one invariant. In
`LocationWeather` the types need more still, because the place in an answer is only an
address if the answer is that of a geocoding: `Aims` says which file each call, transfer
and running callback is for and that the answer fits it, and `LocationWaits` and
`WeatherWaits` say that an open request is an outstanding call. With `Paced`,
`LocationOfItsAddress` is then inductive. `WeatherFollowsLocation` is a property of each
step, and needs no `Paced` (`FollowSteps`). `WrongForecastPursued`
needs four more parts, for `Paced`: without settings of the network there is no position
(`Unresolved`), without a published place the weather has none (`NoLostPlace`), a running transfer of a forecast is the one the weather waits for
(`ForecastInSight`), and what is under way is for the current place unless a request is
queued (`ForecastForPlace`). This is also where the argument would fail without `Paced`: a
forecast joined to a transfer for another place is filed under the current one.
Theorems: `HttpStep`, `ServiceTypes`, `DownloadsStayShared`, `RequestsAreAwaited`,
`WeatherFollows`, `PositionsAreOwn` and `WrongForecastsEnd` (the last two for `Paced`).

**ScriptRuntime_proofs.** The module has many actions and few effects, so `NextClass` first
puts each step into one of five classes: something is offered to the mailbox
(`OfferStep`, with what any accepted, dropped or superseding event does to it in
`MailStep`), a load is accepted (`LoadStep`), `Stop`, `Post`, or a step of `drain()`.
`Core` is inductive: types; `OneDrainAt`, which is `OneDrain` without the cardinality (the
one drain is in the enqueuer, in the pool or on a thread that is alone); `Ending`, what
`stop()` leaves for the drain and the drain leaves behind; `Flags`, the flag and at
most one queued update. The rest is added to `Core` in layers. `Ages`: everything in the
queue is of this generation, and a VM is of this generation unless the load that
replaces it is under way, hence results bear the generation of their VM. `Budget`: the
failures counted are those of this generation and one of a call that was running when
it began, which is why `FreshBudget` allows that one. `Served`: a live subscriber has the
current generation or a replay of it waits behind whatever else waits.
`Order`: a patch is newer than all that was sent or shown when it was made, and stays so,
because the deferred calls are first in, first out and only one thread holds a result
(`Cleared`).
`ImplementsMailbox` maps every step to one of `ScriptMailbox` or to none. With `OneDrain`
the event that is handled is that of the one drain (`HandledIs`), so two events are never
handled at once. The rest of the step needs `Ahead`: the event that is handled belongs to
the VM that handles it until its work ends, a load waits at the front or not at all, and
fewer VMs were made than loads accepted, by those still to make theirs, so that no VM is of
generation 0. `Handles` bounds the VMs that answers, watchers and sounds come from, so that
each offered event has a source of the abstract mailbox. `OneDrain` itself is proved and no
longer run, since `ImplementsMailbox` and the liveness properties fail without it.
Theorems: `TypeCorrect`, `MailboxImplemented`, `OneDrainAlways`, `UpdateFlagAlways`, `StoppedStaysSilent`,
`BudgetStaysFresh`, `ResultsOfTheirHost`, `SubscribersAreServed`, `ViewsOnlyAdvance`.

Assumptions: the named ASSUMEs of the modules (`HookRunnerAssumption`,
`ServiceAssumption`, `LoopConstants`, `LockAssumption`, `IdleAssumption`, `NoneAssumption`,
`LocationWeatherAssumption`, `ScriptRuntimeAssumption`). They say that sets are finite
where they are counted, that marker values are not members, and that limits are naturals, the ones the code defines as
positive constants being positive. Nothing else is assumed: hooks, requests,
threads, timers and capacities are arbitrary.

Type invariants are proved and not listed in the runs, since a proof covers every
instance.

Every invariant and action property of the passing runs is proved. Only model-checked is
what rests on fairness, which the prover cannot express: `WaitersReturn`,
`ChangeReported`, `ShutdownCompletes`, `StopReturns`, `LoadTakesEffect`, `Progress`,
`Settles`, `FadeEnds`, `UndoneOnReturn`.

## 7. Findings

Each is a run in which the model, which does what the code does, leaves what a
comment or document of the repository says.

1. `template_stale_forget` (`template_apply_service.cpp:485`). A closure that
   forgets the ids an undo has resolved runs later and unconditionally. If a
   template was re-enabled in between, its record is erased and its output is
   rendered: it is on disk, enabled, and neither in memory nor in `state.toml`, so
   a later disable does not undo it.
2. `lock_late_suspend` (`lock_screen.cpp:864`). Lock-and-suspend during the exit
   transition of an unlock takes the lock for active and holds the suspend; the unlock
   ends without dropping it, and the next lock suspends the machine.
3. `location_stale` (`location_service.cpp:232`). The address changes while the old one
   is being geocoded: the answer is filed under the new address, in memory and in the
   cache, and the queued refresh finds nothing left to do for thirty days.

Found while modelling or reading, recorded as hazards without a run of their own:

* A state change addressed to a watcher of the previous VM is queued behind the reload
  and runs the callback of the same number in the next VM (`script_runtime.cpp:750`).
* A config change during a reload is routed by what the previous script defined; a new
  script without a handler neither hears of it nor is reloaded (`script_runtime.cpp:301`).
* A reload is refused by a queue full of calls that it would have cleared, and a
  disabled script stays disabled (`script_runtime.cpp:469`).
* An unlock before the compositor's confirmation calls neither session hook
  (`lock_screen.cpp:338`); the black overlay and the sleep inhibitor stay.
* A reload destroys idled behaviours without their resume action
  (`idle_manager.cpp:225`), and leaves the overlay of a fade that was to lock.
* Weather that is switched on again takes the place of its cache until the published
  place changes (`weather_service.cpp:480`), although line 479 says "refresh for the
  current location": forecast for A, weather off, location set to B, weather on, and
  forecasts for A are fetched while B is published. `WeatherFollowsLocation` allows this
  step and no other.
* A change of another weather setting during the retry of a wrong forecast puts the next
  request off by a whole interval (`weather_service.cpp:483`).
* `setBool` answers true on the second call although nothing was written
  (`state_store.cpp:206`).

## 8. What is not modelled

Every component and the reason is in `PROJECT.json`. In short: components under
*planned* in section 2 are next. D-Bus services, audio, Wayland protocol objects
and system monitors mirror partners whose promises are not in this repository, and a
model of them would check its own assumptions. Theming, calendars, rendering,
layout and configuration parsing are computations over data; their state machines,
where they have one, are in the plan. The widgets of the shell are handlers on one
thread over state of their own.

The models also leave out: a wake pipe that cannot be created, a process-wide pool
that is destroyed before its users, a deferred lock whose retry finds outputs it cannot
use, overlay surfaces that fail to initialise, and memory exhaustion. Signals only set the
shutdown flag: when the loop then sleeps with nothing to wake it, it ends with the
next event, and no promise in the repository says otherwise.

## Running

```
tlc -config MCHookRunner.cfg MCHookRunner.tla       # and so on for each .cfg
tlapm HookRunner_proofs.tla                          # and the seven others
```

Every run ends within minutes on two cores.
