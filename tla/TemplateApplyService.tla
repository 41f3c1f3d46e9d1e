------------------------ MODULE TemplateApplyService ------------------------
(***************************************************************************)
(* theme::TemplateApplyService (src/src/theme/template_apply_service.cpp)  *)
(* with the part of TemplateEngine that runs hooks and the pool of hooks   *)
(* HookRunner promises (HookPool.tla, implemented by HookRunner.tla).      *)
(*                                                                         *)
(* Two threads and the hook processes interleave:                          *)
(*   - the main thread calls apply(), runs DeferredCall closures and tears *)
(*     the service down;                                                   *)
(*   - the worker takes the newest request, waits out the hooks of older   *)
(*     generations, runs the undo hooks of templates that were disabled,   *)
(*     renders the enabled templates, and reports;                         *)
(*   - hooks fail, warn and end on their own.                              *)
(*                                                                         *)
(* What a request renders is abstracted to its look (palette, mode,        *)
(* wallpaper, scheme) and the set of templates it enables; built-in and    *)
(* community templates, which the code tracks with the same functions, are *)
(* one set.  The order in which a request visits its templates is left     *)
(* open.  The 100/500 ms coalescing window is left out of Take: a burst    *)
(* replaces `pending' whether or not the worker is counting its window.    *)
(***************************************************************************)
EXTENDS Naturals, Sequences, FiniteSets

CONSTANTS
  Template,       \* template ids
  Inline,         \* those whose post_hook is not hook_async
  Look,           \* what a request renders
  None,
  Paced,          \* templates are re-enabled only after their undo has settled
  MaxGen,         \* bound: requests queued by one process
  MaxRestarts,    \* bound: crashes and restarts
  MaxDeferred,    \* bound: closures waiting in DeferredCall
  MaxChanges,     \* bound: palette changes announced to apply()
  MaxConcurrent   \* HookRunner::kDefaultMaxConcurrent

Gen == 1..MaxGen
HookId == Template \X Gen
Inputs == [look : Look, enabled : SUBSET Template]
Request == [in : Inputs, undo : SUBSET Template, gen : Gen]
Closure == [kind : {"forget"}, ids : SUBSET Template]
             \cup [kind : {"warn"}, hooks : SUBSET HookId, gen : Gen]
             \cup [kind : {"after"}, look : Look, changed : BOOLEAN, covers : 0..MaxChanges]

ASSUME ServiceAssumption ==
  /\ IsFiniteSet(Template)
  /\ Inline \subseteq Template
  /\ None \notin Template \cup Request
  /\ Paced \in BOOLEAN
  /\ MaxGen \in Nat /\ MaxRestarts \in Nat /\ MaxDeferred \in Nat /\ MaxChanges \in Nat
  /\ MaxConcurrent \in Nat \ {0}

VARIABLES
  \* Guarded by m_mutex.
  pending,            \* m_pendingRequest
  lastApplied,        \* m_lastAppliedRequest: its inputs
  nextGeneration,     \* m_nextGeneration
  inFlight,           \* m_inFlight
  paletteOwed,        \* m_paletteChangedOwed
  pendingWarnings,    \* m_pendingWarnings: the hooks that warned
  shutdown,           \* m_shutdown
  \* Atomics.
  warningGeneration,  \* m_warningGeneration
  hookCancel,         \* m_hookCancel
  \* Main thread.
  applied, owed, loaded,  \* AppliedTemplateIds
  deferred,           \* the DeferredCall queue
  mainPc,             \* "up", or where ~TemplateApplyService() is
  \* Worker thread.
  workerPc, request,
  todo, resolved,     \* undo hooks left to run, and those resolved
  unrendered,         \* templates left to render
  current,            \* template being undone or rendered
  outbox,             \* callbacks built and not yet handed to callLater
  \* The hook pool.
  queued, live, floor, closed, waiting, gone,
  \* Outlives the process.
  stateFile,          \* applied ids as persisted in state.toml
  rendered,           \* templates whose output is on disk and not undone
  restarts,
  \* History, read by the properties only.
  announced,          \* palette changes announced to apply() so far
  heard,              \* how many of them the handler has been told about
  told                \* look of the last notification

shared == <<pending, lastApplied, nextGeneration, inFlight, paletteOwed, pendingWarnings, shutdown>>
ids == <<applied, owed, loaded>>
worker == <<workerPc, request, todo, resolved, unrendered, current, outbox>>
pool == <<queued, live, floor, closed, waiting, gone>>
disk == <<stateFile, rendered, restarts>>
history == <<announced, heard, told>>
vars == <<shared, warningGeneration, hookCancel, ids, deferred, mainPc, worker, pool, disk, history>>

Pool == INSTANCE HookPool WITH Hook <- HookId, GenOf <- [h \in HookId |-> h[2]]

WorkerPc == {"wait", "invalidate", "barrier", "undo", "undoing", "render", "write", "postHook",
             "enqueue", "inlineBarrier", "inlineCheck", "inline", "drain", "finish", "post", "exited"}
MainPc == {"up", "stopping", "joining", "resetting", "gone"}

TypeOK ==
  /\ pending \in Request \cup {None}
  /\ lastApplied \in Inputs \cup {None}
  /\ nextGeneration \in 0..MaxGen
  /\ inFlight \in BOOLEAN /\ paletteOwed \in BOOLEAN /\ shutdown \in BOOLEAN
  /\ pendingWarnings \subseteq HookId
  /\ warningGeneration \in 0..MaxGen
  /\ hookCancel \in BOOLEAN
  /\ applied \subseteq Template /\ owed \subseteq Template /\ loaded \in BOOLEAN
  /\ deferred \in Seq(Closure)
  /\ mainPc \in MainPc
  /\ workerPc \in WorkerPc
  /\ request \in Request \cup {None}
  /\ todo \subseteq Template /\ resolved \subseteq Template /\ unrendered \subseteq Template
  /\ current \in Template \cup {None}
  /\ outbox \in Seq(Closure)
  /\ Pool!TypeOK
  /\ stateFile \subseteq Template /\ rendered \subseteq Template
  /\ restarts \in 0..MaxRestarts
  /\ announced \in 0..MaxChanges /\ heard \in 0..MaxChanges
  /\ told \in Look \cup {None}

Init ==
  /\ pending = None /\ lastApplied = None /\ nextGeneration = 0
  /\ inFlight = FALSE /\ paletteOwed = FALSE /\ pendingWarnings = {} /\ shutdown = FALSE
  /\ warningGeneration = 0 /\ hookCancel = FALSE
  /\ applied = {} /\ owed = {} /\ loaded = FALSE
  /\ deferred = <<>> /\ mainPc = "up"
  /\ workerPc = "wait" /\ request = None /\ todo = {} /\ resolved = {}
  /\ unrendered = {} /\ current = None /\ outbox = <<>>
  /\ Pool!Init
  /\ stateFile = {} /\ rendered = {} /\ restarts = 0
  /\ announced = 0 /\ heard = 0 /\ told = None

-----------------------------------------------------------------------------
Superseded(g) == shutdown \/ g # nextGeneration

Forget(S) == [kind |-> "forget", ids |-> S]
Warn(S, g) == [kind |-> "warn", hooks |-> S, gen |-> g]
After(look, changed) ==   \* `covers' is history: the changes announced so far
  [kind |-> "after", look |-> look, changed |-> changed, covers |-> announced']

\* apply() was told that the palette differs from the last one.
Announce(changed) ==
  /\ changed => announced < MaxChanges
  /\ announced' = IF changed THEN announced + 1 ELSE announced
  /\ UNCHANGED <<heard, told>>

(***************************************************************************)
(* The main thread.                                                        *)
(***************************************************************************)

\* Mutant: only the enabled ids are persisted, not those still owing an undo.
SyncEnabledIds(enabled) ==
  LET known == owed \cup applied \cup (IF loaded THEN {} ELSE stateFile)
  IN /\ loaded' = TRUE
     /\ owed' = known \ enabled
     /\ applied' = enabled \cup owed'
     /\ stateFile' = enabled

\* syncAppliedIds(): load once, then diff the enabled ids against what is
\* applied or still owes an undo, and persist the union.
SyncAppliedIds(enabled) ==
  LET known == owed \cup applied \cup (IF loaded THEN {} ELSE stateFile)
  IN /\ loaded' = TRUE
     /\ owed' = known \ enabled
     /\ applied' = enabled \cup owed'
     /\ stateFile' = applied'

\* A template whose undo is running, or whose resolved undo is not forgotten yet.
Unsettled ==
  (IF workerPc \in {"undo", "undoing"} THEN todo \cup resolved ELSE {})
    \cup UNION {deferred[i].ids : i \in {j \in DOMAIN deferred : deferred[j].kind = "forget"}}

\* Mutant: the look is not compared.
SameTemplates(in) == lastApplied # None /\ in.enabled = lastApplied.enabled

\* sameInputs()
SameInputs(in) == in = lastApplied

\* m_paletteChangedOwed accumulates until a report takes it.
\* Mutant: the newest call overwrites it.
OweLatest(changed) == paletteOwed' = changed

Owe(changed) == paletteOwed' = (paletteOwed \/ changed)

\* An application that will report what is owed.
\* Mutant: any application ever made counts.
HadCarrier == lastApplied # None

HasCarrier == inFlight \/ pending # None

\* apply(): the request is the last one again.  An owed palette change rides
\* on the application queued or in flight; with neither it is reported here.
Deduplicate(in, changed) ==
  /\ Len(deferred) < MaxDeferred
  /\ Announce(changed)
  /\ IF (paletteOwed \/ changed) /\ ~HasCarrier
     THEN /\ paletteOwed' = FALSE
          /\ deferred' = Append(deferred, After(in.look, TRUE))
     ELSE Owe(changed) /\ UNCHANGED deferred
  /\ UNCHANGED <<pending, lastApplied, nextGeneration, inFlight, pendingWarnings, shutdown,
                 warningGeneration, hookCancel, ids, mainPc, worker, pool, disk>>

\* apply(): a new request replaces the pending one and supersedes the others.
Queue(in, changed) ==
  /\ nextGeneration < MaxGen
  /\ Paced => in.enabled \cap Unsettled = {}
  /\ Owe(changed)
  /\ SyncAppliedIds(in.enabled)
  /\ nextGeneration' = nextGeneration + 1
  /\ warningGeneration' = nextGeneration'
  /\ lastApplied' = in
  /\ pending' = [in |-> in, undo |-> owed', gen |-> nextGeneration']
  /\ Announce(changed)
  /\ UNCHANGED <<inFlight, pendingWarnings, shutdown, hookCancel, deferred, mainPc, worker, pool,
                 rendered, restarts>>

Apply(in, changed) ==
  /\ mainPc = "up"
  /\ IF SameInputs(in) THEN Deduplicate(in, changed) ELSE Queue(in, changed)

\* reapplyLast(): forced, with the last look and the templates configured now.
ReapplyLast(enabled) ==
  /\ mainPc = "up"
  /\ lastApplied # None
  /\ Queue([look |-> lastApplied.look, enabled |-> enabled], TRUE)

\* forgetAppliedIds(), run as a closure.
RunForget ==
  /\ Head(deferred).kind = "forget"
  /\ owed' = owed \ Head(deferred).ids
  /\ applied' = applied \ Head(deferred).ids
  /\ stateFile' = applied'
  /\ UNCHANGED <<loaded, history>>

\* The warning closure shows nothing once its generation is superseded.
RunWarning ==
  /\ Head(deferred).kind = "warn"
  /\ UNCHANGED <<ids, stateFile, history>>

RunAfterApply ==
  /\ Head(deferred).kind = "after"
  /\ heard' = IF Head(deferred).changed /\ Head(deferred).covers > heard
              THEN Head(deferred).covers ELSE heard
  /\ told' = Head(deferred).look
  /\ UNCHANGED <<ids, stateFile, announced>>

RunDeferred ==
  /\ mainPc = "up"
  /\ deferred # <<>>
  /\ deferred' = Tail(deferred)
  /\ RunForget \/ RunWarning \/ RunAfterApply
  /\ UNCHANGED <<shared, warningGeneration, hookCancel, mainPc, worker, pool, rendered, restarts>>

\* ~TemplateApplyService(), up to the first unlock.
BeginShutdown ==
  /\ mainPc = "up"
  /\ mainPc' = "stopping"
  /\ shutdown' = TRUE
  /\ warningGeneration' = 0
  /\ pending' = None
  /\ UNCHANGED <<lastApplied, nextGeneration, inFlight, paletteOwed, pendingWarnings, hookCancel,
                 ids, deferred, worker, pool, disk, history>>

CloseRunner ==
  /\ mainPc = "stopping"
  /\ mainPc' = "joining"
  /\ Pool!Close
  /\ UNCHANGED <<shared, warningGeneration, hookCancel, ids, deferred, worker, disk, history>>

\* Mutant: the grace thread is stopped once the worker is joined.
GraceElapsesInJoin ==
  /\ mainPc = "joining"
  /\ ~hookCancel
  /\ hookCancel' = TRUE
  /\ UNCHANGED <<shared, warningGeneration, ids, deferred, mainPc, worker, pool, disk, history>>

\* The grace thread: every hook still running is terminated.
GraceElapses ==
  /\ mainPc \in {"joining", "resetting"}
  /\ ~hookCancel
  /\ hookCancel' = TRUE
  /\ UNCHANGED <<shared, warningGeneration, ids, deferred, mainPc, worker, pool, disk, history>>

JoinWorker ==
  /\ mainPc = "joining"
  /\ workerPc = "exited"
  /\ mainPc' = "resetting"
  /\ UNCHANGED <<shared, warningGeneration, hookCancel, ids, deferred, worker, pool, disk, history>>

\* m_hookRunner.reset()
ResetRunner ==
  /\ mainPc = "resetting"
  /\ mainPc' = "gone"
  /\ Pool!Destroy
  /\ UNCHANGED <<shared, warningGeneration, hookCancel, ids, deferred, worker, disk, history>>

\* The process exits or dies anywhere and a new one starts.  An undo hook or a
\* write that was under way may or may not have taken effect.
NewProcess ==
  /\ restarts < MaxRestarts
  /\ restarts' = restarts + 1
  /\ pending' = None /\ lastApplied' = None /\ nextGeneration' = 0
  /\ inFlight' = FALSE /\ paletteOwed' = FALSE /\ pendingWarnings' = {} /\ shutdown' = FALSE
  /\ warningGeneration' = 0 /\ hookCancel' = FALSE
  /\ applied' = {} /\ owed' = {} /\ loaded' = FALSE
  /\ deferred' = <<>> /\ mainPc' = "up"
  /\ workerPc' = "wait" /\ request' = None /\ todo' = {} /\ resolved' = {}
  /\ unrendered' = {} /\ current' = None /\ outbox' = <<>>
  /\ queued' = {} /\ live' = {} /\ floor' = 0
  /\ closed' = FALSE /\ waiting' = FALSE /\ gone' = FALSE
  /\ announced' = 0 /\ heard' = 0 /\ told' = None
  /\ UNCHANGED stateFile
  /\ \/ UNCHANGED rendered
     \/ workerPc = "undoing" /\ rendered' = rendered \ {current}
     \/ workerPc = "write" /\ rendered' = rendered \cup {current}

-----------------------------------------------------------------------------
(***************************************************************************)
(* The worker thread.                                                      *)
(***************************************************************************)
mainOwned == <<warningGeneration, hookCancel, ids, mainPc, disk, history>>

Take ==
  /\ workerPc = "wait"
  /\ ~shutdown
  /\ pending # None
  /\ request' = pending
  /\ pending' = None
  /\ inFlight' = TRUE
  /\ pendingWarnings' = {}
  /\ workerPc' = "invalidate"
  /\ UNCHANGED <<lastApplied, nextGeneration, paletteOwed, shutdown, mainOwned, deferred, todo,
                 resolved, unrendered, current, outbox, pool>>

WorkerExits ==
  /\ workerPc = "wait"
  /\ shutdown
  /\ workerPc' = "exited"
  /\ UNCHANGED <<shared, mainOwned, deferred, request, todo, resolved, unrendered, current,
                 outbox, pool>>

\* Mutant: the worker does not wait for older hooks.
InvalidateOnly ==
  /\ workerPc = "invalidate"
  /\ workerPc' = "undo"
  /\ todo' = request.undo
  /\ resolved' = {}
  /\ IF request.gen > floor THEN Pool!InvalidateBefore(request.gen) ELSE UNCHANGED pool
  /\ UNCHANGED <<shared, mainOwned, deferred, request, unrendered, current, outbox>>

\* hookRunner.invalidateBefore(), which ignores a generation it already has.
Invalidate ==
  /\ workerPc = "invalidate"
  /\ workerPc' = "barrier"
  /\ IF request.gen > floor THEN Pool!InvalidateBefore(request.gen) ELSE UNCHANGED pool
  /\ UNCHANGED <<shared, mainOwned, deferred, request, todo, resolved, unrendered, current, outbox>>

\* waitIdle(): called at `from' and returned from to `to'.
CallWaitIdle(from) ==
  /\ workerPc = from
  /\ Pool!BeginWait
  /\ UNCHANGED <<shared, mainOwned, deferred, worker>>

WaitIdleReturns(from, to) ==
  /\ workerPc = from
  /\ workerPc' = to
  /\ Pool!EndWait
  /\ UNCHANGED <<shared, mainOwned, deferred, request, unrendered, current, outbox>>

EnterBarrier == CallWaitIdle("barrier")

LeaveBarrier ==
  /\ WaitIdleReturns("barrier", "undo")
  /\ todo' = request.undo
  /\ resolved' = {}

-----------------------------------------------------------------------------
(* Undo hooks, run synchronously one after the other.                      *)

StartUndo(t) ==
  /\ workerPc = "undo"
  /\ t \in todo
  /\ ~Superseded(request.gen)
  /\ workerPc' = "undoing"
  /\ current' = t
  /\ UNCHANGED <<shared, mainOwned, deferred, request, todo, resolved, unrendered, outbox, pool>>

\* An undo hook that fails stays owed.  One that succeeds, cannot be rendered
\* or no longer exists is resolved: nothing is left to undo.
EndUndo(success) ==
  /\ workerPc = "undoing"
  /\ workerPc' = "undo"
  /\ todo' = todo \ {current}
  /\ current' = None
  /\ resolved' = IF success THEN resolved \cup {current} ELSE resolved
  /\ rendered' = IF success THEN rendered \ {current} ELSE rendered
  /\ UNCHANGED <<shared, warningGeneration, hookCancel, ids, mainPc, stateFile, restarts, history,
                 deferred, request, unrendered, outbox, pool>>

\* The main thread is told what was resolved, also by a request superseded
\* meanwhile.
FinishUndo ==
  /\ workerPc = "undo"
  /\ todo = {} \/ Superseded(request.gen)
  /\ workerPc' = "render"
  /\ deferred' = IF resolved = {} THEN deferred ELSE Append(deferred, Forget(resolved))
  /\ todo' = {}
  /\ resolved' = {}
  /\ unrendered' = request.in.enabled
  /\ UNCHANGED <<shared, mainOwned, request, current, outbox, pool>>

-----------------------------------------------------------------------------
(* Rendering.  Whether the request is superseded is read before each step, *)
(* and may change before the step itself.                                  *)

WorkerMoves(from, to) ==
  /\ workerPc = from
  /\ workerPc' = to
  /\ UNCHANGED <<shared, mainOwned, deferred, request, todo, resolved, outbox, pool>>

StartRender(t) ==
  /\ WorkerMoves("render", "write")
  /\ t \in unrendered
  /\ ~Superseded(request.gen)
  /\ current' = t
  /\ unrendered' = unrendered \ {t}

\* The output is written, or cannot be: then the template's hook is skipped.
Write(success) ==
  /\ workerPc = "write"
  /\ workerPc' = IF success THEN "postHook" ELSE "render"
  /\ current' = IF success THEN current ELSE None
  /\ rendered' = IF success THEN rendered \cup {current} ELSE rendered
  /\ UNCHANGED <<shared, warningGeneration, hookCancel, ids, mainPc, stateFile, restarts, history,
                 deferred, request, todo, resolved, unrendered, outbox, pool>>

\* Nothing is left to render, or the request was superseded.
FinishRender ==
  /\ WorkerMoves("render", "drain")
  /\ unrendered = {} \/ Superseded(request.gen)
  /\ unrendered' = {}
  /\ UNCHANGED current

\* Mutant: an inline hook does not wait for the background ones.
CheckPostHookUnbarred ==
  /\ WorkerMoves("postHook", IF Superseded(request.gen) THEN "render"
                             ELSE IF current \in Inline THEN "inlineCheck" ELSE "enqueue")
  /\ UNCHANGED <<unrendered, current>>

\* cancelRequested() read after the output and before the hook.
CheckPostHook ==
  /\ WorkerMoves("postHook", IF Superseded(request.gen) THEN "render"
                             ELSE IF current \in Inline THEN "inlineBarrier" ELSE "enqueue")
  /\ UNCHANGED <<unrendered, current>>

EnqueueHook ==
  /\ workerPc = "enqueue"
  /\ workerPc' = "render"
  /\ current' = None
  /\ Pool!Submit(<<current, request.gen>>)
  /\ UNCHANGED <<shared, mainOwned, deferred, request, todo, resolved, unrendered, outbox>>

\* An inline post_hook waits for the hooks started earlier in this run ...
EnterInlineBarrier == CallWaitIdle("inlineBarrier")
LeaveInlineBarrier ==
  WaitIdleReturns("inlineBarrier", "inlineCheck") /\ UNCHANGED <<todo, resolved>>

CheckInlineHook ==
  /\ WorkerMoves("inlineCheck", IF Superseded(request.gen) THEN "render" ELSE "inline")
  /\ UNCHANGED <<unrendered, current>>

\* Mutant: warnings of superseded runs are recorded too.
RecordAnyWarning(h) == pendingWarnings' = pendingWarnings \cup {h}

\* recordHookWarning()
RecordWarning(h) ==
  pendingWarnings' = IF ~Superseded(h[2]) THEN pendingWarnings \cup {h} ELSE pendingWarnings

\* ... and then runs on the worker; it may warn.
EndInlineHook(warns) ==
  /\ workerPc = "inline"
  /\ workerPc' = "render"
  /\ current' = None
  /\ IF warns THEN RecordWarning(<<current, request.gen>>) ELSE UNCHANGED pendingWarnings
  /\ UNCHANGED <<pending, lastApplied, nextGeneration, inFlight, paletteOwed, shutdown, mainOwned,
                 deferred, request, todo, resolved, unrendered, outbox, pool>>

-----------------------------------------------------------------------------
(* Completion.                                                             *)

\* A superseded request does not wait for its own hooks.
SkipDrain ==
  /\ WorkerMoves("drain", "finish")
  /\ ~waiting
  /\ Superseded(request.gen)
  /\ UNCHANGED <<unrendered, current>>

EnterDrain == CallWaitIdle("drain") /\ ~Superseded(request.gen)
LeaveDrain == WaitIdleReturns("drain", "finish") /\ UNCHANGED <<todo, resolved>>

\* The callbacks of the newest generation: its warnings, then its completion.
Report ==
  /\ paletteOwed' = FALSE
  /\ pendingWarnings' = {}
  /\ outbox' = (IF pendingWarnings = {} THEN <<>> ELSE <<Warn(pendingWarnings, request.gen)>>)
                 \o <<After(request.in.look, paletteOwed)>>

\* The last critical section: the newest generation builds its report.
Finish ==
  /\ workerPc = "finish"
  /\ workerPc' = "post"
  /\ inFlight' = FALSE
  /\ current' = None
  /\ UNCHANGED <<pending, lastApplied, nextGeneration, shutdown, mainOwned, deferred, request,
                 todo, resolved, unrendered, pool>>
  /\ IF Superseded(request.gen) THEN UNCHANGED <<paletteOwed, pendingWarnings, outbox>> ELSE Report

\* DeferredCall::callLater(), once per callback and outside the lock.
Post ==
  /\ workerPc = "post"
  /\ IF outbox = <<>>
     THEN /\ workerPc' = "wait"
          /\ request' = None
          /\ UNCHANGED <<deferred, outbox>>
     ELSE /\ deferred' = Append(deferred, Head(outbox))
          /\ outbox' = Tail(outbox)
          /\ UNCHANGED <<workerPc, request>>
  /\ UNCHANGED <<shared, mainOwned, todo, resolved, unrendered, current, pool>>

-----------------------------------------------------------------------------
(***************************************************************************)
(* The hooks.                                                              *)
(***************************************************************************)
hooksLeaveAlone == <<warningGeneration, hookCancel, ids, deferred, mainPc, worker, disk, history>>

HookStarts(h) == Pool!Start(h) /\ UNCHANGED <<shared, hooksLeaveAlone>>
HookEnds(h) == Pool!Finish(h) /\ UNCHANGED <<shared, hooksLeaveAlone>>

\* A failing hook reports its warning before the pool notes its end.
HookWarns(h) ==
  /\ h \in live
  /\ ~hookCancel
  /\ RecordWarning(h)
  /\ UNCHANGED <<pending, lastApplied, nextGeneration, inFlight, paletteOwed, shutdown,
                 hooksLeaveAlone, pool>>

-----------------------------------------------------------------------------
MainNext ==
  \/ \E in \in Inputs, changed \in BOOLEAN : Apply(in, changed)
  \/ \E enabled \in SUBSET Template : ReapplyLast(enabled)
  \/ RunDeferred
  \/ BeginShutdown \/ CloseRunner \/ JoinWorker \/ ResetRunner

WorkerStep ==
  \/ Take \/ WorkerExits \/ Invalidate \/ EnterBarrier \/ LeaveBarrier
  \/ (\E t \in Template : StartUndo(t)) \/ FinishUndo
  \/ (\E t \in Template : StartRender(t)) \/ (\E success \in BOOLEAN : Write(success))
  \/ FinishRender \/ CheckPostHook \/ EnqueueHook
  \/ EnterInlineBarrier \/ LeaveInlineBarrier \/ CheckInlineHook
  \/ SkipDrain \/ EnterDrain \/ LeaveDrain \/ Finish \/ Post

\* The end of a hook the worker runs itself.
SyncHookEnds ==
  \/ \E success \in BOOLEAN : EndUndo(success)
  \/ \E warns \in BOOLEAN : EndInlineHook(warns)

HooksNext ==
  \/ SyncHookEnds
  \/ \E h \in HookId : HookStarts(h) \/ HookWarns(h) \/ HookEnds(h)

Next == MainNext \/ WorkerStep \/ HooksNext \/ GraceElapses \/ NewProcess

Spec == Init /\ [][Next]_vars

(***************************************************************************)
(* The threads run, and the destructor goes on once it has begun.  The     *)
(* pool starts what it accepted (WaitIdleReturns of HookRunner rests on    *)
(* the same pump()).  A hook need not end until the shutdown grace has     *)
(* raised the cancel flag, which kills its process group.                  *)
(***************************************************************************)
Fairness ==
  /\ WF_vars(WorkerStep)
  /\ WF_vars(RunDeferred)
  /\ WF_vars(CloseRunner \/ JoinWorker \/ ResetRunner)
  /\ WF_vars(GraceElapses)
  /\ \A h \in HookId : WF_vars(HookStarts(h)) /\ WF_vars(hookCancel /\ HookEnds(h))
  /\ WF_vars(hookCancel /\ SyncHookEnds)

FairSpec == Spec /\ Fairness

-----------------------------------------------------------------------------
(***************************************************************************)
(* Properties.                                                             *)
(***************************************************************************)

\* "Hooks from superseded generations must not outlive them": while a request
\* runs an undo hook, writes an output or runs a hook inline, no hook of
\* another generation is queued or running (template_apply_service.cpp:334).
OnlyOwnHooks ==
  workerPc \in {"undoing", "write", "inline"} => \A h \in queued \cup live : h[2] = request.gen

\* An inline post_hook never overlaps a background hook
\* (template_engine.cpp:1908).
InlineHookAlone == workerPc = "inline" => Pool!Idle

\* An owed palette change always has a carrier: an application queued or in
\* flight will report it, so dedup may leave it alone
\* (template_apply_service.cpp:249).
OwedHasCarrier == ~shutdown /\ paletteOwed => pending # None \/ inFlight

\* Reports of a palette change that the handler has not received yet.
ChangeReports(closures) ==
  {closures[i].covers : i \in {j \in DOMAIN closures :
                                 closures[j].kind = "after" /\ closures[j].changed}}
InTransit == ChangeReports(outbox) \cup ChangeReports(deferred)

\* A palette change announced to apply() is owed, or on its way to the main
\* thread, until the handler hears of it: coalescing, superseding and
\* deduplicating lose none (template_apply_service.h:42).
ChangeNeverLost ==
  ~shutdown => paletteOwed \/ heard = announced \/ announced \in InTransit

\* Nothing is queued, in flight or on its way to the handler.
Settled ==
  /\ pending = None /\ ~inFlight /\ outbox = <<>>
  /\ \A i \in DOMAIN deferred : deferred[i].kind # "after"

\* Two threads post reports, and the handler hears each palette change at most once
\* - what is owed is newer than every report - and hears the mode of the last request
\* last (template_apply_service.cpp:704).
ReportsInOrder ==
  /\ paletteOwed => announced \notin InTransit \cup {heard}
  /\ heard # 0 => heard \notin InTransit
  /\ ChangeReports(outbox) \cap ChangeReports(deferred) = {}
  /\ \A i, j \in DOMAIN deferred :
       /\ deferred[i].kind = "after" /\ deferred[i].changed
       /\ deferred[j].kind = "after" /\ deferred[j].changed
       /\ deferred[i].covers = deferred[j].covers
       => i = j
  /\ ~shutdown /\ Settled /\ lastApplied # None => told = lastApplied.look

\* A report carries only the warnings of its own generation: a hook of an
\* older one that fails late is not blamed on the newer
\* (template_apply_service.cpp:718).
WarningsOfOwnRun ==
  \A closures \in {outbox, deferred} : \A i \in DOMAIN closures :
    closures[i].kind = "warn" => \A h \in closures[i].hooks : h[2] = closures[i].gen

\* Every template whose output is on disk is recorded in state.toml, so that a
\* later disable, in this process or the next, runs its undo hook
\* (template_apply_service.h:56).
OutputAccounted == rendered \subseteq stateFile

\* If hooks keep ending, an announced palette change reaches the handler,
\* unless the process shuts down first.
HooksKeepEnding == []<>(live = {} /\ workerPc \notin {"undoing", "inline"})
ChangeReported == HooksKeepEnding => (heard # announced ~> heard = announced \/ shutdown)

\* The destructor returns even if no hook ever ends by itself
\* (template_apply_service.cpp:193).
ShutdownCompletes == mainPc = "stopping" ~> mainPc \in {"gone", "up"}
=============================================================================
