--------------------- MODULE TemplateApplyService_proofs ---------------------
(***************************************************************************)
(* Proofs about TemplateApplyService, for every set of templates and looks *)
(* and every bound.                                                        *)
(***************************************************************************)
EXTENDS TemplateApplyService, SequenceTheorems, TLAPS

(***************************************************************************)
(* Type correctness.                                                       *)
(***************************************************************************)

\* What the three kinds of closure carry is well typed.
LEMMA ClosureType ==
  /\ \A S \in SUBSET Template : Forget(S) \in Closure
  /\ \A S \in SUBSET HookId, g \in Gen : Warn(S, g) \in Closure
  /\ announced' \in 0..MaxChanges =>
       \A look \in Look, changed \in BOOLEAN : After(look, changed) \in Closure
  BY DEF Forget, Warn, After, Closure

\* A closure's fields depend on its kind.
LEMMA ClosureFields ==
  ASSUME NEW c \in Closure
  PROVE  /\ c.kind \in {"forget", "warn", "after"}
         /\ c.kind = "forget" => c.ids \in SUBSET Template
         /\ c.kind = "warn" => c.hooks \in SUBSET HookId /\ c.gen \in Gen
         /\ c.kind = "after" => /\ c.look \in Look
                                /\ c.changed \in BOOLEAN
                                /\ c.covers \in 0..MaxChanges
  BY DEF Closure

LEMMA ZeroBounds == 0 \in 0..MaxGen /\ 0 \in 0..MaxRestarts /\ 0 \in 0..MaxChanges
  BY ServiceAssumption

LEMMA InitType == Init => TypeOK
<1> SUFFICES ASSUME Init PROVE TypeOK
  OBVIOUS
<1>1. <<>> \in Seq(Closure)
  BY EmptySeq
<1>2. Pool!TypeOK
  BY ZeroBounds DEF Init, Pool!Init, Pool!TypeOK
<1> QED BY <1>1, <1>2, ZeroBounds DEF Init, TypeOK, WorkerPc, MainPc

\* The phases of the worker in which it has a request.
Working == WorkerPc \ {"wait", "exited"}
\* ... and those in which it handles one template.
OnTemplate == {"undoing", "write", "postHook", "enqueue", "inlineBarrier", "inlineCheck", "inline"}

\* The worker has a request exactly while it works on one, and m_inFlight says
\* so until the last critical section.
Phases ==
  /\ workerPc \in Working => request \in Request
  /\ inFlight <=> workerPc \in Working \ {"post"}
  /\ workerPc \in OnTemplate => current \in Template

TypeInv == TypeOK /\ Phases

\* What the main thread does keeps the types.
LEMMA MainType == TypeInv /\ MainNext => TypeOK'
<1> SUFFICES ASSUME TypeInv, MainNext PROVE TypeOK'
  OBVIOUS
<1> USE ServiceAssumption DEF TypeInv, shared, ids, worker, pool, disk, history, vars
<1>1. ASSUME NEW in \in Inputs, NEW changed \in BOOLEAN, mainPc = "up", Deduplicate(in, changed) PROVE TypeOK'
  <2>1. announced' \in 0..MaxChanges
    BY <1>1 DEF Deduplicate, Announce, TypeOK
  <2>2. After(in.look, TRUE) \in Closure
    BY <2>1, ClosureType DEF Inputs
  <2>3. deferred \in Seq(Closure)
    BY DEF TypeOK
  <2>4. Append(deferred, After(in.look, TRUE)) \in Seq(Closure)
    BY <2>2, <2>3, AppendProperties
  <2>5. deferred' \in Seq(Closure)
    BY <1>1, <2>3, <2>4 DEF Deduplicate
  <2>6. paletteOwed' \in BOOLEAN
    BY <1>1 DEF Deduplicate, Owe, TypeOK
  <2> QED BY <1>1, <2>1, <2>5, <2>6 DEF Deduplicate, Announce, TypeOK, Pool!TypeOK
<1>2. ASSUME NEW in \in Inputs, NEW changed \in BOOLEAN, mainPc = "up", Queue(in, changed) PROVE TypeOK'
  <2>1. in.enabled \subseteq Template
    BY DEF Inputs
  <2>2. /\ nextGeneration' \in Gen /\ nextGeneration' \in 0..MaxGen
        /\ announced' \in 0..MaxChanges
    BY <1>2 DEF Queue, Announce, TypeOK, Gen
  <2>3. owed' \subseteq Template /\ applied' \subseteq Template /\ stateFile' \subseteq Template /\ loaded' \in BOOLEAN
    BY <1>2, <2>1 DEF Queue, SyncAppliedIds, TypeOK
  <2>4. pending' \in Request
    BY <1>2, <2>2, <2>3 DEF Queue, Request
  <2>5. paletteOwed' \in BOOLEAN
    BY <1>2 DEF Queue, Owe, TypeOK
  <2> QED BY <1>2, <2>2, <2>3, <2>4, <2>5 DEF Queue, Announce, TypeOK, Pool!TypeOK
<1>3. ASSUME NEW enabled \in SUBSET Template, ReapplyLast(enabled) PROVE TypeOK'
  <2>1. lastApplied \in Inputs
    BY <1>3 DEF ReapplyLast, TypeOK
  <2>2. [look |-> lastApplied.look, enabled |-> enabled] \in Inputs
    BY <2>1 DEF Inputs
  <2> QED BY <1>2, <1>3, <2>2 DEF ReapplyLast
<1>4. ASSUME RunDeferred PROVE TypeOK'
  <2>1. Head(deferred) \in Closure /\ deferred' \in Seq(Closure)
    BY <1>4, HeadTailProperties DEF RunDeferred, TypeOK
  <2>2. applied' \subseteq Template /\ owed' \subseteq Template /\ stateFile' \subseteq Template /\ loaded' = loaded
    BY <1>4 DEF RunDeferred, RunForget, RunWarning, RunAfterApply, TypeOK
  <2>3. heard' \in 0..MaxChanges /\ announced' = announced /\ told' \in Look \cup {None}
    BY <1>4, <2>1, ClosureFields DEF RunDeferred, RunForget, RunWarning, RunAfterApply, TypeOK
  <2> QED BY <1>4, <2>1, <2>2, <2>3 DEF RunDeferred, TypeOK, Pool!TypeOK
<1>5. ASSUME BeginShutdown PROVE TypeOK'
  BY <1>5 DEF BeginShutdown, TypeOK, Pool!TypeOK, MainPc
<1>6. ASSUME CloseRunner PROVE TypeOK'
  <2>1. Pool!TypeOK'
    BY <1>6 DEF CloseRunner, Pool!Close, TypeOK, Pool!TypeOK
  <2> QED BY <1>6, <2>1 DEF CloseRunner, TypeOK, MainPc
<1>7. ASSUME JoinWorker \/ ResetRunner PROVE TypeOK'
  <2>1. Pool!TypeOK'
    BY <1>7 DEF JoinWorker, ResetRunner, Pool!Destroy, TypeOK, Pool!TypeOK
  <2> QED BY <1>7, <2>1 DEF JoinWorker, ResetRunner, TypeOK, MainPc
<1> QED BY <1>1, <1>2, <1>3, <1>4, <1>5, <1>6, <1>7 DEF MainNext, Apply
\* What the worker does keeps the types.
LEMMA WorkerType == TypeInv /\ WorkerStep => TypeOK'
<1> SUFFICES ASSUME TypeInv, WorkerStep PROVE TypeOK'
  OBVIOUS
<1> USE DEF TypeInv, shared, ids, worker, pool, disk, history, mainOwned
<1>0. workerPc \in Working =>
        /\ request.gen \in Gen /\ request.undo \subseteq Template
        /\ request.in \in Inputs /\ request.in.enabled \subseteq Template /\ request.in.look \in Look
  BY DEF Phases, Request, Inputs
<1>1. CASE Take \/ WorkerExits
  BY <1>1 DEF Take, WorkerExits, TypeOK, Pool!TypeOK, WorkerPc
<1>2. CASE Invalidate
  <2>1. request.gen \in 0..MaxGen
    BY <1>2, <1>0 DEF Invalidate, Working, WorkerPc, Gen
  <2>2. Pool!TypeOK'
    BY <1>2, <2>1 DEF Invalidate, Pool!InvalidateBefore, TypeOK, Pool!TypeOK
  <2> QED BY <1>2, <2>2 DEF Invalidate, TypeOK, WorkerPc
<1>3. CASE EnterBarrier \/ EnterInlineBarrier \/ EnterDrain
  <2>1. Pool!BeginWait /\ UNCHANGED <<shared, mainOwned, deferred, worker>>
    BY <1>3 DEF EnterBarrier, EnterInlineBarrier, EnterDrain, CallWaitIdle
  <2>2. Pool!TypeOK'
    BY <2>1 DEF Pool!BeginWait, TypeOK, Pool!TypeOK
  <2> QED BY <2>1, <2>2 DEF TypeOK
<1>4. CASE LeaveBarrier
  <2>1. request.undo \subseteq Template
    BY <1>4, <1>0 DEF LeaveBarrier, WaitIdleReturns, Working, WorkerPc
  <2>2. Pool!TypeOK'
    BY <1>4 DEF LeaveBarrier, WaitIdleReturns, Pool!EndWait, TypeOK, Pool!TypeOK
  <2>3. todo' \subseteq Template /\ resolved' \subseteq Template
    BY <1>4, <2>1 DEF LeaveBarrier
  <2>4. /\ workerPc' \in WorkerPc
        /\ UNCHANGED <<shared, mainOwned, deferred, request, unrendered, current, outbox>>
    BY <1>4 DEF LeaveBarrier, WaitIdleReturns, WorkerPc
  <2> QED BY <2>2, <2>3, <2>4 DEF TypeOK
<1>5. CASE LeaveInlineBarrier \/ LeaveDrain
  <2>1. /\ Pool!EndWait /\ workerPc' \in WorkerPc
        /\ UNCHANGED <<shared, mainOwned, deferred, request, todo, resolved, unrendered, current, outbox>>
    BY <1>5 DEF LeaveInlineBarrier, LeaveDrain, WaitIdleReturns, WorkerPc
  <2>2. Pool!TypeOK'
    BY <2>1 DEF Pool!EndWait, TypeOK, Pool!TypeOK
  <2> QED BY <2>1, <2>2 DEF TypeOK
<1>6. ASSUME NEW t \in Template, StartUndo(t) PROVE TypeOK'
  BY <1>6 DEF StartUndo, TypeOK, Pool!TypeOK, WorkerPc
<1>7. CASE FinishUndo
  <2>1. request.in.enabled \subseteq Template
    BY <1>7, <1>0 DEF FinishUndo, Working, WorkerPc
  <2>2. Forget(resolved) \in Closure /\ deferred \in Seq(Closure)
    BY ClosureType DEF TypeOK
  <2>3. Append(deferred, Forget(resolved)) \in Seq(Closure)
    BY <2>2, AppendProperties
  <2>4. deferred' \in Seq(Closure)
    BY <1>7, <2>2, <2>3 DEF FinishUndo
  <2> QED BY <1>7, <2>1, <2>4 DEF FinishUndo, TypeOK, Pool!TypeOK, WorkerPc
<1>8. ASSUME NEW t \in Template, StartRender(t) PROVE TypeOK'
  BY <1>8 DEF StartRender, WorkerMoves, TypeOK, Pool!TypeOK, WorkerPc
<1>9. ASSUME NEW success \in BOOLEAN, Write(success) PROVE TypeOK'
  BY <1>9 DEF Write, TypeOK, Pool!TypeOK, WorkerPc, Phases, OnTemplate
<1>10. CASE FinishRender \/ CheckPostHook \/ CheckInlineHook \/ SkipDrain
  BY <1>10 DEF FinishRender, CheckPostHook, CheckInlineHook, SkipDrain, WorkerMoves, TypeOK,
               Pool!TypeOK, WorkerPc
<1>11. CASE EnqueueHook
  <2>1. <<current, request.gen>> \in HookId
    BY <1>11, <1>0 DEF EnqueueHook, Phases, OnTemplate, Working, WorkerPc, HookId
  <2> QED BY <1>11, <2>1 DEF EnqueueHook, Pool!Submit, TypeOK, Pool!TypeOK, WorkerPc
<1>12. CASE Finish
  <2>1. workerPc \in Working
    BY <1>12 DEF Finish, Working, WorkerPc
  <2>2. announced' \in 0..MaxChanges
    BY <1>12 DEF Finish, TypeOK
  <2>3. /\ After(request.in.look, paletteOwed) \in Closure
        /\ Warn(pendingWarnings, request.gen) \in Closure
    BY <1>0, <2>1, <2>2, ClosureType DEF TypeOK
  <2>4. /\ <<After(request.in.look, paletteOwed)>> \in Seq(Closure)
        /\ <<Warn(pendingWarnings, request.gen)>> \in Seq(Closure)
        /\ <<>> \in Seq(Closure)
    BY <2>3, EmptySeq
  <2>5. Report => outbox' \in Seq(Closure)
    BY <2>4, ConcatProperties DEF Report
  <2>6. outbox' \in Seq(Closure) /\ paletteOwed' \in BOOLEAN /\ pendingWarnings' \subseteq HookId
    BY <1>12, <2>5 DEF Finish, Report, TypeOK
  <2> QED BY <1>12, <2>6 DEF Finish, TypeOK, Pool!TypeOK, WorkerPc
<1>13. CASE Post
  <2>1. outbox # <<>> => Head(outbox) \in Closure /\ Tail(outbox) \in Seq(Closure)
    BY HeadTailProperties DEF TypeOK
  <2>2. outbox # <<>> => Append(deferred, Head(outbox)) \in Seq(Closure)
    BY <2>1, AppendProperties DEF TypeOK
  <2>3. deferred' \in Seq(Closure) /\ outbox' \in Seq(Closure)
    BY <1>13, <2>1, <2>2 DEF Post, TypeOK
  <2> QED BY <1>13, <2>3 DEF Post, TypeOK, Pool!TypeOK, WorkerPc
<1> QED BY <1>1, <1>2, <1>3, <1>4, <1>5, <1>6, <1>7, <1>8, <1>9, <1>10, <1>11, <1>12, <1>13
        DEF WorkerStep

\* What hooks, the grace thread and a restart do keeps the types.
LEMMA OtherType == TypeInv /\ (HooksNext \/ GraceElapses \/ NewProcess) => TypeOK'
<1> SUFFICES ASSUME TypeInv, HooksNext \/ GraceElapses \/ NewProcess PROVE TypeOK'
  OBVIOUS
<1> USE DEF TypeInv, shared, ids, worker, pool, disk, history, hooksLeaveAlone
<1>1. ASSUME NEW success \in BOOLEAN, EndUndo(success) PROVE TypeOK'
  BY <1>1 DEF EndUndo, TypeOK, Pool!TypeOK, WorkerPc, Phases, OnTemplate
<1>2. ASSUME NEW warns \in BOOLEAN, EndInlineHook(warns) PROVE TypeOK'
  <2>1. <<current, request.gen>> \in HookId
    BY <1>2 DEF EndInlineHook, Phases, OnTemplate, Working, WorkerPc, HookId, Request
  <2>2. pendingWarnings' \subseteq HookId
    BY <1>2, <2>1 DEF EndInlineHook, RecordWarning, TypeOK
  <2> QED BY <1>2, <2>2 DEF EndInlineHook, mainOwned, TypeOK, Pool!TypeOK, WorkerPc
<1>3. ASSUME NEW h \in HookId, HookStarts(h) \/ HookEnds(h) PROVE TypeOK'
  BY <1>3 DEF HookStarts, HookEnds, Pool!Start, Pool!Finish, TypeOK, Pool!TypeOK
<1>4. ASSUME NEW h \in HookId, HookWarns(h) PROVE TypeOK'
  BY <1>4 DEF HookWarns, RecordWarning, TypeOK, Pool!TypeOK
<1>5. CASE GraceElapses
  BY <1>5 DEF GraceElapses, TypeOK, Pool!TypeOK
<1>6. CASE NewProcess
  <2>1. <<>> \in Seq(Closure)
    BY EmptySeq
  <2>2. rendered' \subseteq Template
    BY <1>6 DEF NewProcess, TypeOK, Phases, OnTemplate
  <2>3. Pool!TypeOK'
    BY <1>6, ZeroBounds DEF NewProcess, Pool!TypeOK
  <2>4. restarts' \in 0..MaxRestarts
    BY <1>6, ServiceAssumption DEF NewProcess, TypeOK
  <2> QED BY <1>6, <2>1, <2>2, <2>3, <2>4, ZeroBounds DEF NewProcess, TypeOK, WorkerPc, MainPc
<1> QED BY <1>1, <1>2, <1>3, <1>4, <1>5, <1>6 DEF HooksNext, SyncHookEnds

LEMMA NextType == TypeInv /\ [Next]_vars => TypeOK'
<1> SUFFICES ASSUME TypeInv, [Next]_vars PROVE TypeOK'
  OBVIOUS
<1>1. CASE UNCHANGED vars
  BY <1>1 DEF TypeInv, vars, shared, ids, worker, pool, disk, history, TypeOK, Pool!TypeOK
<1> QED BY <1>1, MainType, WorkerType, OtherType DEF Next

\* A step of the main thread, of a hook the pool runs, or of the grace thread
\* leaves the worker's own state alone.
WorkerLeftAlone == UNCHANGED worker /\ UNCHANGED inFlight

LEMMA OthersLeaveWorker ==
  ASSUME MainNext \/ GraceElapses \/ UNCHANGED vars
           \/ \E h \in HookId : HookStarts(h) \/ HookWarns(h) \/ HookEnds(h)
  PROVE  WorkerLeftAlone
<1> USE DEF WorkerLeftAlone, shared, worker
<1>1. ASSUME NEW in \in Inputs, NEW changed \in BOOLEAN, Apply(in, changed) PROVE WorkerLeftAlone
  BY <1>1 DEF Apply, Deduplicate, Queue
<1>2. ASSUME NEW enabled \in SUBSET Template, ReapplyLast(enabled) PROVE WorkerLeftAlone
  BY <1>2 DEF ReapplyLast, Queue
<1>3. CASE RunDeferred \/ BeginShutdown \/ CloseRunner \/ JoinWorker \/ ResetRunner \/ GraceElapses
  BY <1>3 DEF RunDeferred, BeginShutdown, CloseRunner, JoinWorker, ResetRunner, GraceElapses
<1>4. ASSUME NEW h \in HookId, HookStarts(h) \/ HookWarns(h) \/ HookEnds(h) PROVE WorkerLeftAlone
  BY <1>4 DEF HookStarts, HookWarns, HookEnds, hooksLeaveAlone
<1>5. CASE UNCHANGED vars
  BY <1>5 DEF vars
<1> QED BY <1>1, <1>2, <1>3, <1>4, <1>5 DEF MainNext

\* The worker has a request, and says that it is in flight, exactly while it
\* works on one.
LEMMA NextPhases == TypeInv /\ [Next]_vars => Phases'
<1> SUFFICES ASSUME TypeInv, [Next]_vars PROVE Phases'
  OBVIOUS
<1> USE DEF TypeInv, Phases, Working, OnTemplate, WorkerPc, shared, worker
<1>1. ASSUME WorkerLeftAlone PROVE Phases'
  BY <1>1 DEF WorkerLeftAlone
<1>2. CASE Take \/ WorkerExits
  BY <1>2 DEF Take, WorkerExits, TypeOK
<1>3. CASE Invalidate \/ EnterBarrier \/ EnterInlineBarrier \/ EnterDrain
  BY <1>3 DEF Invalidate, EnterBarrier, EnterInlineBarrier, EnterDrain, CallWaitIdle
<1>4. CASE LeaveBarrier \/ LeaveInlineBarrier \/ LeaveDrain
  BY <1>4 DEF LeaveBarrier, LeaveInlineBarrier, LeaveDrain, WaitIdleReturns
<1>5. ASSUME NEW t \in Template, StartUndo(t) \/ StartRender(t) PROVE Phases'
  BY <1>5 DEF StartUndo, StartRender, WorkerMoves
<1>6. CASE FinishUndo \/ FinishRender \/ SkipDrain
  BY <1>6 DEF FinishUndo, FinishRender, SkipDrain, WorkerMoves
<1>7. ASSUME NEW success \in BOOLEAN, Write(success) \/ EndUndo(success) PROVE Phases'
  BY <1>7 DEF Write, EndUndo
<1>8. CASE CheckPostHook \/ CheckInlineHook \/ EnqueueHook
  BY <1>8 DEF CheckPostHook, CheckInlineHook, WorkerMoves, EnqueueHook
<1>9. ASSUME NEW warns \in BOOLEAN, EndInlineHook(warns) PROVE Phases'
  BY <1>9 DEF EndInlineHook
<1>10. CASE Finish \/ Post
  BY <1>10 DEF Finish, Post
<1>11. CASE NewProcess
  BY <1>11 DEF NewProcess
<1> QED BY <1>1, <1>2, <1>3, <1>4, <1>5, <1>6, <1>7, <1>8, <1>9, <1>10, <1>11, OthersLeaveWorker
        DEF Next, WorkerStep, HooksNext, SyncHookEnds

-----------------------------------------------------------------------------
(***************************************************************************)
(* The inductive invariant.                                                *)
(***************************************************************************)

\* The newest generation is the pending request's, or else the worker's.
Newest ==
  /\ ~shutdown /\ pending # None => pending.gen = nextGeneration
  /\ ~shutdown /\ pending = None /\ workerPc \in Working => request.gen = nextGeneration

\* The runner is closed only after m_shutdown is set.
Teardown ==
  /\ shutdown <=> mainPc # "up"
  /\ closed => mainPc \notin {"up", "stopping"}

\* The barrier has left no hook of another generation; only a closed runner
\* releases the worker early, and then it runs nothing more.
OwnOnly == \A h \in queued \cup live : h[2] = request.gen
BehindBarrier ==
  workerPc \in OnTemplate \cup {"undo", "render"} =>
    OwnOnly \/ (closed /\ workerPc \in {"undo", "render"})

InlineBarrier == workerPc = "inlineCheck" => shutdown \/ Pool!Idle

IInv ==
  /\ TypeInv
  /\ Newest
  /\ Teardown
  /\ OwedHasCarrier
  /\ BehindBarrier
  /\ InlineBarrier
  /\ InlineHookAlone

\* apply() gives every request a new newest generation.
LEMMA NextNewest == IInv /\ [Next]_vars => Newest'
<1> SUFFICES ASSUME IInv, [Next]_vars PROVE Newest'
  OBVIOUS
<1> USE DEF IInv, TypeInv, Newest, Working, WorkerPc, shared, worker
<1>1. ASSUME UNCHANGED <<shutdown, pending, nextGeneration, request>>,
             workerPc' \in Working => workerPc \in Working
      PROVE  Newest'
  BY <1>1
<1>2. ASSUME NEW in \in Inputs, NEW changed \in BOOLEAN, Queue(in, changed) PROVE Newest'
  <2>1. in.enabled \subseteq Template
    BY DEF Inputs
  <2>2. nextGeneration' \in Gen
    BY <1>2, ServiceAssumption DEF Queue, TypeOK, Gen
  <2>3. pending' = [in |-> in, undo |-> owed', gen |-> nextGeneration'] /\ owed' \subseteq Template
    BY <1>2, <2>1 DEF Queue, SyncAppliedIds, TypeOK
  <2>4. pending' \in Request /\ pending'.gen = nextGeneration'
    BY <2>2, <2>3 DEF Request
  <2>5. pending' # None
    BY <2>4, ServiceAssumption
  <2> QED BY <2>4, <2>5
<1>3. ASSUME NEW in \in Inputs, NEW changed \in BOOLEAN, Deduplicate(in, changed) PROVE Newest'
  BY <1>3 DEF Deduplicate
<1>4. ASSUME NEW enabled \in SUBSET Template, ReapplyLast(enabled) PROVE Newest'
  BY <1>2, <1>4 DEF ReapplyLast, Inputs, TypeOK
<1>5. CASE RunDeferred \/ CloseRunner \/ JoinWorker \/ ResetRunner \/ GraceElapses \/ UNCHANGED vars
  BY <1>5 DEF RunDeferred, CloseRunner, JoinWorker, ResetRunner, GraceElapses, vars
<1>6. CASE BeginShutdown \/ NewProcess
  BY <1>6 DEF BeginShutdown, NewProcess
<1>7. CASE Take \/ WorkerExits
  BY <1>7 DEF Take, WorkerExits, TypeOK
<1>8. CASE Invalidate \/ EnterBarrier \/ EnterInlineBarrier \/ EnterDrain
  BY <1>1, <1>8 DEF Invalidate, EnterBarrier, EnterInlineBarrier, EnterDrain, CallWaitIdle
<1>9. CASE LeaveBarrier \/ LeaveInlineBarrier \/ LeaveDrain
  BY <1>1, <1>9 DEF LeaveBarrier, LeaveInlineBarrier, LeaveDrain, WaitIdleReturns
<1>10. ASSUME NEW t \in Template, StartUndo(t) \/ StartRender(t) PROVE Newest'
  BY <1>1, <1>10 DEF StartUndo, StartRender, WorkerMoves
<1>11. CASE FinishUndo \/ FinishRender \/ SkipDrain \/ CheckPostHook \/ CheckInlineHook
  BY <1>1, <1>11 DEF FinishUndo, FinishRender, SkipDrain, CheckPostHook, CheckInlineHook, WorkerMoves
<1>12. ASSUME NEW b \in BOOLEAN, Write(b) \/ EndUndo(b) \/ EndInlineHook(b) PROVE Newest'
  BY <1>1, <1>12 DEF Write, EndUndo, EndInlineHook
<1>13. CASE EnqueueHook \/ Finish \/ Post
  BY <1>1, <1>13 DEF EnqueueHook, Finish, Post
<1>14. ASSUME NEW h \in HookId, HookStarts(h) \/ HookWarns(h) \/ HookEnds(h) PROVE Newest'
  BY <1>1, <1>14 DEF HookStarts, HookWarns, HookEnds, hooksLeaveAlone
<1> QED BY <1>2, <1>3, <1>4, <1>5, <1>6, <1>7, <1>8, <1>9, <1>10, <1>11, <1>12, <1>13, <1>14
        DEF Next, MainNext, Apply, WorkerStep, HooksNext, SyncHookEnds

\* Nothing but the teardown closes the runner or sets m_shutdown.
LEMMA NextTeardown == IInv /\ [Next]_vars => Teardown'
<1> SUFFICES ASSUME IInv, [Next]_vars PROVE Teardown'
  OBVIOUS
<1> USE DEF IInv, Teardown, shared, pool, mainOwned, hooksLeaveAlone
<1>1. ASSUME UNCHANGED <<shutdown, mainPc, closed>> PROVE Teardown'
  BY <1>1
<1>2. ASSUME NEW in \in Inputs, NEW changed \in BOOLEAN, Queue(in, changed) \/ Deduplicate(in, changed)
      PROVE  Teardown'
  BY <1>1, <1>2 DEF Queue, Deduplicate
<1>3. ASSUME NEW enabled \in SUBSET Template, ReapplyLast(enabled) PROVE Teardown'
  BY <1>1, <1>3 DEF ReapplyLast, Queue
<1>4. CASE RunDeferred \/ GraceElapses \/ UNCHANGED vars
  BY <1>1, <1>4 DEF RunDeferred, GraceElapses, vars
<1>5. CASE BeginShutdown \/ CloseRunner \/ JoinWorker \/ ResetRunner \/ NewProcess
  BY <1>5 DEF BeginShutdown, CloseRunner, JoinWorker, ResetRunner, NewProcess, Pool!Close, Pool!Destroy
<1>6. CASE Take \/ WorkerExits \/ Finish \/ Post
  BY <1>1, <1>6 DEF Take, WorkerExits, Finish, Post
<1>7. CASE Invalidate \/ EnterBarrier \/ EnterInlineBarrier \/ EnterDrain
  BY <1>1, <1>7 DEF Invalidate, EnterBarrier, EnterInlineBarrier, EnterDrain, CallWaitIdle,
                    Pool!InvalidateBefore, Pool!BeginWait
<1>8. CASE LeaveBarrier \/ LeaveInlineBarrier \/ LeaveDrain
  BY <1>1, <1>8 DEF LeaveBarrier, LeaveInlineBarrier, LeaveDrain, WaitIdleReturns, Pool!EndWait
<1>9. ASSUME NEW t \in Template, StartUndo(t) \/ StartRender(t) PROVE Teardown'
  BY <1>1, <1>9 DEF StartUndo, StartRender, WorkerMoves
<1>10. CASE FinishUndo \/ FinishRender \/ SkipDrain \/ CheckPostHook \/ CheckInlineHook
  BY <1>1, <1>10 DEF FinishUndo, FinishRender, SkipDrain, CheckPostHook, CheckInlineHook, WorkerMoves
<1>11. ASSUME NEW b \in BOOLEAN, Write(b) \/ EndUndo(b) \/ EndInlineHook(b) PROVE Teardown'
  BY <1>1, <1>11 DEF Write, EndUndo, EndInlineHook
<1>12. CASE EnqueueHook
  BY <1>1, <1>12 DEF EnqueueHook, Pool!Submit
<1>13. ASSUME NEW h \in HookId, HookStarts(h) \/ HookWarns(h) \/ HookEnds(h) PROVE Teardown'
  BY <1>1, <1>13 DEF HookStarts, HookWarns, HookEnds, Pool!Start, Pool!Finish
<1> QED BY <1>2, <1>3, <1>4, <1>5, <1>6, <1>7, <1>8, <1>9, <1>10, <1>11, <1>12, <1>13
        DEF Next, MainNext, Apply, WorkerStep, HooksNext, SyncHookEnds

\* Whatever an application that is superseded leaves owed, the request that
\* superseded it carries.
LEMMA NextCarrier == IInv /\ [Next]_vars => OwedHasCarrier'
<1> SUFFICES ASSUME IInv, [Next]_vars PROVE OwedHasCarrier'
  OBVIOUS
<1> USE DEF IInv, TypeInv, OwedHasCarrier, shared, mainOwned, hooksLeaveAlone
<1>1. ASSUME UNCHANGED <<shutdown, paletteOwed, pending, inFlight>> PROVE OwedHasCarrier'
  BY <1>1
<1>2. ASSUME NEW in \in Inputs, NEW changed \in BOOLEAN, Queue(in, changed) PROVE OwedHasCarrier'
  <2>1. pending'.gen = nextGeneration' /\ nextGeneration' \in Gen
    BY <1>2, ServiceAssumption DEF Queue, TypeOK, Gen
  <2>2. pending' \in Request
    <3>1. in.enabled \subseteq Template
      BY DEF Inputs
    <3>2. owed' \subseteq Template
      BY <1>2, <3>1 DEF Queue, SyncAppliedIds, TypeOK
    <3> QED BY <1>2, <2>1, <3>2 DEF Queue, Request
  <2>3. pending' # None
    BY <2>2, ServiceAssumption
  <2> QED BY <2>3
<1>3. ASSUME NEW in \in Inputs, NEW changed \in BOOLEAN, Deduplicate(in, changed) PROVE OwedHasCarrier'
  BY <1>3 DEF Deduplicate, Owe, HasCarrier
<1>4. ASSUME NEW enabled \in SUBSET Template, ReapplyLast(enabled) PROVE OwedHasCarrier'
  <2>1. [look |-> lastApplied.look, enabled |-> enabled] \in Inputs
    BY <1>4 DEF ReapplyLast, Inputs, TypeOK
  <2> QED BY <1>2, <1>4, <2>1 DEF ReapplyLast
<1>5. CASE RunDeferred \/ CloseRunner \/ JoinWorker \/ ResetRunner \/ GraceElapses \/ UNCHANGED vars
  BY <1>1, <1>5 DEF RunDeferred, CloseRunner, JoinWorker, ResetRunner, GraceElapses, vars
<1>6. CASE BeginShutdown \/ NewProcess
  BY <1>6 DEF BeginShutdown, NewProcess
<1>7. CASE Take \/ WorkerExits \/ Post \/ EnqueueHook
  BY <1>7 DEF Take, WorkerExits, Post, EnqueueHook
<1>8. CASE Finish
  <2>1. CASE ~Superseded(request.gen)
    BY <1>8, <2>1 DEF Finish, Report
  <2>2. CASE Superseded(request.gen)
    BY <1>8, <2>2 DEF Finish, Superseded, Newest, Working, WorkerPc
  <2> QED BY <2>1, <2>2
<1>9. CASE Invalidate \/ EnterBarrier \/ EnterInlineBarrier \/ EnterDrain
  BY <1>1, <1>9 DEF Invalidate, EnterBarrier, EnterInlineBarrier, EnterDrain, CallWaitIdle
<1>10. CASE LeaveBarrier \/ LeaveInlineBarrier \/ LeaveDrain
  BY <1>1, <1>10 DEF LeaveBarrier, LeaveInlineBarrier, LeaveDrain, WaitIdleReturns
<1>11. ASSUME NEW t \in Template, StartUndo(t) \/ StartRender(t) PROVE OwedHasCarrier'
  BY <1>1, <1>11 DEF StartUndo, StartRender, WorkerMoves
<1>12. CASE FinishUndo \/ FinishRender \/ SkipDrain \/ CheckPostHook \/ CheckInlineHook
  BY <1>1, <1>12 DEF FinishUndo, FinishRender, SkipDrain, CheckPostHook, CheckInlineHook, WorkerMoves
<1>13. ASSUME NEW b \in BOOLEAN, Write(b) \/ EndUndo(b) \/ EndInlineHook(b) PROVE OwedHasCarrier'
  BY <1>1, <1>13 DEF Write, EndUndo, EndInlineHook
<1>14. ASSUME NEW h \in HookId, HookStarts(h) \/ HookWarns(h) \/ HookEnds(h) PROVE OwedHasCarrier'
  BY <1>1, <1>14 DEF HookStarts, HookWarns, HookEnds
<1> QED BY <1>2, <1>3, <1>4, <1>5, <1>6, <1>7, <1>8, <1>9, <1>10, <1>11, <1>12, <1>13, <1>14
        DEF Next, MainNext, Apply, WorkerStep, HooksNext, SyncHookEnds

\* The barriers hold: no step past them brings a hook of another generation
\* into the pool, or one beside an inline hook.
Barriers == BehindBarrier /\ InlineBarrier /\ InlineHookAlone

LEMMA NextBarriers == IInv /\ [Next]_vars => Barriers'
<1> SUFFICES ASSUME IInv, [Next]_vars PROVE Barriers'
  OBVIOUS
<1> USE DEF IInv, TypeInv, Barriers, BehindBarrier, OwnOnly, InlineBarrier, InlineHookAlone, Pool!Idle,
            OnTemplate, shared, pool, worker, mainOwned, hooksLeaveAlone
<1>0. closed => shutdown
  BY DEF Teardown
<1>1. ASSUME UNCHANGED <<queued, live, closed, workerPc, request>>, shutdown => shutdown' PROVE Barriers'
  BY <1>1
<1>2. ASSUME NEW in \in Inputs, NEW changed \in BOOLEAN, Queue(in, changed) \/ Deduplicate(in, changed)
      PROVE  Barriers'
  BY <1>1, <1>2 DEF Queue, Deduplicate
<1>3. ASSUME NEW enabled \in SUBSET Template, ReapplyLast(enabled) PROVE Barriers'
  BY <1>1, <1>3 DEF ReapplyLast, Queue
<1>4. CASE RunDeferred \/ BeginShutdown \/ JoinWorker \/ GraceElapses \/ UNCHANGED vars
  BY <1>1, <1>4 DEF RunDeferred, BeginShutdown, JoinWorker, GraceElapses, vars
<1>5. CASE CloseRunner
  BY <1>5 DEF CloseRunner, Pool!Close
<1>6. CASE ResetRunner
  BY <1>1, <1>6 DEF ResetRunner, Pool!Destroy
<1>7. CASE NewProcess
  BY <1>7 DEF NewProcess
<1>8. CASE Take \/ WorkerExits \/ Finish \/ Post
  BY <1>8 DEF Take, WorkerExits, Finish, Post
<1>9. CASE Invalidate
  BY <1>9 DEF Invalidate
<1>10. CASE EnterBarrier \/ EnterInlineBarrier \/ EnterDrain
  BY <1>1, <1>10 DEF EnterBarrier, EnterInlineBarrier, EnterDrain, CallWaitIdle, Pool!BeginWait
<1>11. CASE LeaveBarrier
  BY <1>11 DEF LeaveBarrier, WaitIdleReturns, Pool!EndWait
<1>12. CASE LeaveInlineBarrier \/ LeaveDrain
  BY <1>0, <1>12 DEF LeaveInlineBarrier, LeaveDrain, WaitIdleReturns, Pool!EndWait
<1>13. ASSUME NEW t \in Template, StartUndo(t) \/ StartRender(t) PROVE Barriers'
  BY <1>0, <1>13 DEF StartUndo, StartRender, WorkerMoves, Superseded
<1>14. CASE FinishUndo \/ FinishRender \/ SkipDrain \/ CheckPostHook
  BY <1>14 DEF FinishUndo, FinishRender, SkipDrain, CheckPostHook, WorkerMoves
<1>15. CASE CheckInlineHook
  BY <1>15 DEF CheckInlineHook, WorkerMoves, Superseded
<1>16. ASSUME NEW b \in BOOLEAN, Write(b) \/ EndUndo(b) \/ EndInlineHook(b) PROVE Barriers'
  BY <1>16 DEF Write, EndUndo, EndInlineHook
<1>17. CASE EnqueueHook
  <2>1. queued' \subseteq queued \cup {<<current, request.gen>>} /\ live' = live
    BY <1>17 DEF EnqueueHook, Pool!Submit
  <2>2. <<current, request.gen>>[2] = request.gen
    OBVIOUS
  <2>3. OwnOnly' /\ workerPc' = "render"
    BY <1>17, <2>1, <2>2 DEF EnqueueHook
  <2> QED BY <2>3
<1>18. ASSUME NEW h \in HookId, HookStarts(h) PROVE Barriers'
  BY <1>18 DEF HookStarts, Pool!Start
<1>19. ASSUME NEW h \in HookId, HookEnds(h) PROVE Barriers'
  BY <1>19 DEF HookEnds, Pool!Finish
<1>20. ASSUME NEW h \in HookId, HookWarns(h) PROVE Barriers'
  BY <1>1, <1>20 DEF HookWarns
<1> QED BY <1>2, <1>3, <1>4, <1>5, <1>6, <1>7, <1>8, <1>9, <1>10, <1>11, <1>12, <1>13, <1>14, <1>15,
           <1>16, <1>17, <1>18, <1>19, <1>20
        DEF Next, MainNext, Apply, WorkerStep, HooksNext, SyncHookEnds

-----------------------------------------------------------------------------
(***************************************************************************)
(* No palette change is lost.                                              *)
(***************************************************************************)

ReportOf(c) == IF c.kind = "after" /\ c.changed THEN {c.covers} ELSE {}

LEMMA ReportsEmpty == ChangeReports(<<>>) = {}
  BY DEF ChangeReports

LEMMA ReportsAppend ==
  ASSUME NEW s \in Seq(Closure), NEW c \in Closure
  PROVE  ChangeReports(Append(s, c)) = ChangeReports(s) \cup ReportOf(c)
<1> DEFINE t == Append(s, c)
<1>1. /\ DOMAIN s = 1..Len(s) /\ DOMAIN t = 1..(Len(s) + 1) /\ Len(s) \in Nat
      /\ \A i \in 1..Len(s) : t[i] = s[i]
      /\ t[Len(s) + 1] = c
  BY AppendProperties, LenProperties
<1> HIDE DEF t
<1>2. ChangeReports(t) = ChangeReports(s) \cup ReportOf(c)
  BY <1>1 DEF ChangeReports, ReportOf
<1> QED BY <1>2 DEF t

LEMMA ReportsTail ==
  ASSUME NEW s \in Seq(Closure), s # <<>>
  PROVE  ChangeReports(s) = ReportOf(Head(s)) \cup ChangeReports(Tail(s))
<1> DEFINE t == Tail(s)
<1>1. /\ DOMAIN s = 1..Len(s) /\ DOMAIN t = 1..(Len(s) - 1) /\ Len(s) \in Nat \ {0}
      /\ \A i \in 1..(Len(s) - 1) : t[i] = s[i + 1]
      /\ Head(s) = s[1]
  BY HeadTailProperties, LenProperties, EmptySeq
<1> HIDE DEF t
<1>2. ChangeReports(s) \subseteq ReportOf(s[1]) \cup ChangeReports(t)
  <2> SUFFICES ASSUME NEW i \in 1..Len(s), s[i].kind = "after", s[i].changed
               PROVE  s[i].covers \in ReportOf(s[1]) \cup ChangeReports(t)
    BY <1>1 DEF ChangeReports
  <2>1. CASE i = 1
    BY <2>1 DEF ReportOf
  <2>2. CASE i # 1
    <3>1. i - 1 \in DOMAIN t /\ t[i - 1] = s[i]
      BY <1>1, <2>2
    <3> QED BY <3>1 DEF ChangeReports
  <2> QED BY <2>1, <2>2
<1>3. ReportOf(s[1]) \cup ChangeReports(t) \subseteq ChangeReports(s)
  <2>1. ReportOf(s[1]) \subseteq ChangeReports(s)
    BY <1>1 DEF ReportOf, ChangeReports
  <2>2. ASSUME NEW i \in DOMAIN t, t[i].kind = "after", t[i].changed PROVE t[i].covers \in ChangeReports(s)
    <3>1. i + 1 \in DOMAIN s /\ s[i + 1] = t[i]
      BY <1>1
    <3> QED BY <2>2, <3>1 DEF ChangeReports
  <2> QED BY <2>1, <2>2 DEF ChangeReports
<1> QED BY <1>1, <1>2, <1>3 DEF t

\* The handler never runs ahead of what was announced, and only the worker
\* that is posting has callbacks in hand.
Told ==
  /\ heard <= announced /\ \A n \in InTransit : n <= announced
  /\ outbox # <<>> => workerPc = "post"
  /\ ChangeNeverLost

LEMMA InTransitType == TypeOK => InTransit \subseteq Nat /\ heard \in Nat /\ announced \in Nat
<1> SUFFICES ASSUME TypeOK PROVE InTransit \subseteq Nat /\ heard \in Nat /\ announced \in Nat
  OBVIOUS
<1>1. ASSUME NEW s \in Seq(Closure) PROVE ChangeReports(s) \subseteq Nat
  <2>1. \A i \in DOMAIN s : s[i] \in Closure
    BY LenProperties, ElementOfSeq
  <2> QED BY <2>1, ClosureFields DEF ChangeReports
<1> QED BY <1>1 DEF TypeOK, InTransit

\* A palette change stays owed or on its way until the handler hears of it.
LEMMA NextTold == IInv /\ Told /\ [Next]_vars => Told'
<1> SUFFICES ASSUME IInv, Told, [Next]_vars PROVE Told'
  OBVIOUS
<1> USE DEF IInv, TypeInv, Told, ChangeNeverLost, shared, worker, history, mainOwned, hooksLeaveAlone
<1>0. InTransit \subseteq Nat /\ heard \in Nat /\ announced \in Nat
  BY InTransitType
<1>1. ASSUME UNCHANGED <<shutdown, paletteOwed, heard, announced, outbox>>, InTransit' = InTransit,
             workerPc # "post" \/ workerPc' = "post"
      PROVE  Told'
  BY <1>1
<1>2. ASSUME UNCHANGED <<shutdown, paletteOwed, heard, announced, outbox, deferred>>,
             workerPc # "post" \/ workerPc' = "post"
      PROVE  Told'
  BY <1>1, <1>2 DEF InTransit
<1>3. ASSUME NEW in \in Inputs, NEW changed \in BOOLEAN, Queue(in, changed) PROVE Told'
  <2>1. InTransit' = InTransit /\ outbox' = outbox /\ workerPc' = workerPc /\ shutdown' = shutdown
    BY <1>3 DEF Queue, InTransit
  <2>2. /\ paletteOwed' = (paletteOwed \/ changed) /\ heard' = heard
        /\ announced' = IF changed THEN announced + 1 ELSE announced
    BY <1>3 DEF Queue, Owe, Announce
  <2>3. heard' <= announced' /\ \A n \in InTransit' : n <= announced'
    BY <1>0, <2>1, <2>2
  <2>4. ChangeNeverLost'
    BY <2>1, <2>2
  <2> QED BY <2>1, <2>3, <2>4
<1>4. ASSUME NEW in \in Inputs, NEW changed \in BOOLEAN, Deduplicate(in, changed) PROVE Told'
  <2> DEFINE c == After(in.look, TRUE)
  <2>1. /\ outbox' = outbox /\ workerPc' = workerPc /\ shutdown' = shutdown /\ heard' = heard
        /\ announced' = IF changed THEN announced + 1 ELSE announced
    BY <1>4 DEF Deduplicate, Announce
  <2>2. CASE (paletteOwed \/ changed) /\ ~HasCarrier
    <3>1. announced' \in 0..MaxChanges
      BY <1>4, ServiceAssumption DEF Deduplicate, Announce, TypeOK
    <3>2. c \in Closure /\ ReportOf(c) = {announced'}
      BY <3>1, ClosureType DEF After, ReportOf, Inputs
    <3>3. deferred' = Append(deferred, c)
      BY <1>4, <2>2 DEF Deduplicate
    <3>4. InTransit' = InTransit \cup {announced'}
      BY <2>1, <3>2, <3>3, ReportsAppend DEF InTransit, TypeOK
    <3> QED BY <1>0, <2>1, <3>4
  <2>3. CASE ~((paletteOwed \/ changed) /\ ~HasCarrier)
    <3>1. deferred' = deferred /\ paletteOwed' = (paletteOwed \/ changed)
      BY <1>4, <2>3 DEF Deduplicate, Owe
    <3>2. InTransit' = InTransit
      BY <2>1, <3>1 DEF InTransit
    <3>3. heard' <= announced' /\ \A n \in InTransit' : n <= announced'
      BY <1>0, <2>1, <3>2
    <3>4. ChangeNeverLost'
      BY <2>1, <3>1, <3>2
    <3> QED BY <2>1, <3>3, <3>4
  <2> QED BY <2>2, <2>3
<1>5. ASSUME NEW enabled \in SUBSET Template, ReapplyLast(enabled) PROVE Told'
  <2>1. [look |-> lastApplied.look, enabled |-> enabled] \in Inputs
    BY <1>5 DEF ReapplyLast, Inputs, TypeOK
  <2> QED BY <1>3, <1>5, <2>1 DEF ReapplyLast
<1>6. CASE RunDeferred
  <2> DEFINE c == Head(deferred)
  <2>1. c \in Closure /\ deferred # <<>> /\ deferred' = Tail(deferred) /\ deferred \in Seq(Closure)
    BY <1>6, HeadTailProperties DEF RunDeferred, TypeOK
  <2>2. InTransit = ReportOf(c) \cup InTransit'
    BY <1>6, <2>1, ReportsTail DEF InTransit, RunDeferred
  <2>3. UNCHANGED <<shutdown, paletteOwed, announced, outbox, workerPc>>
    BY <1>6 DEF RunDeferred, RunForget, RunWarning, RunAfterApply
  <2>4. CASE c.kind = "after"
    <3>1. heard' = IF c.changed /\ c.covers > heard THEN c.covers ELSE heard
      BY <1>6, <2>4 DEF RunDeferred, RunForget, RunWarning, RunAfterApply
    <3>2. ReportOf(c) = IF c.changed THEN {c.covers} ELSE {}
      BY <2>4 DEF ReportOf
    <3> HIDE DEF c
    <3> QED BY <1>0, <2>2, <2>3, <3>1, <3>2
  <2>5. CASE c.kind # "after"
    <3>1. heard' = heard
      BY <1>6, <2>5 DEF RunDeferred, RunForget, RunWarning, RunAfterApply
    <3>2. InTransit' = InTransit
      BY <2>2, <2>5 DEF ReportOf
    <3> QED BY <1>1, <2>3, <3>1, <3>2
  <2> QED BY <2>4, <2>5
<1>7. CASE CloseRunner \/ JoinWorker \/ ResetRunner \/ GraceElapses \/ UNCHANGED vars
  BY <1>2, <1>7 DEF CloseRunner, JoinWorker, ResetRunner, GraceElapses, vars
<1>8. CASE BeginShutdown
  <2>1. InTransit' = InTransit
    BY <1>8 DEF BeginShutdown, InTransit
  <2> QED BY <1>8, <2>1 DEF BeginShutdown
<1>9. CASE NewProcess
  <2>1. InTransit' = {}
    BY <1>9, ReportsEmpty DEF NewProcess, InTransit
  <2> QED BY <1>9, <2>1 DEF NewProcess
<1>10. CASE Take \/ WorkerExits \/ EnqueueHook
  BY <1>2, <1>10 DEF Take, WorkerExits, EnqueueHook
<1>11. CASE Finish
  <2>1. outbox = <<>> /\ deferred' = deferred /\ UNCHANGED <<shutdown, heard, announced>> /\ workerPc' = "post"
    BY <1>11 DEF Finish
  <2>2. InTransit = ChangeReports(deferred)
    BY <2>1, ReportsEmpty DEF InTransit
  <2>3. CASE Superseded(request.gen)
    BY <1>2, <1>11, <2>1, <2>3 DEF Finish
  <2>4. CASE ~Superseded(request.gen)
    <3> DEFINE c == After(request.in.look, paletteOwed)
               w == Warn(pendingWarnings, request.gen)
    <3>1. request \in Request /\ announced' \in 0..MaxChanges
      BY <1>11, <2>1 DEF Finish, Phases, Working, WorkerPc, TypeOK
    <3>2. c \in Closure /\ ReportOf(c) = IF paletteOwed THEN {announced} ELSE {}
      BY <2>1, <3>1, ClosureType DEF After, ReportOf, Request, Inputs, TypeOK
    <3>3. w \in Closure /\ ReportOf(w) = {}
      BY <3>1, ClosureType DEF Warn, ReportOf, Request, TypeOK
    <3>4. outbox' = <<c>> \/ outbox' = <<w, c>>
      BY <1>11, <2>4 DEF Finish, Report
    <3>5. /\ <<c>> = Append(<<>>, c) /\ <<w>> = Append(<<>>, w) /\ <<w, c>> = Append(<<w>>, c)
          /\ <<>> \in Seq(Closure) /\ <<w>> \in Seq(Closure)
      BY <3>3, EmptySeq
    <3>6. ChangeReports(outbox') = ReportOf(c)
      <4>1. ChangeReports(<<c>>) = ReportOf(c) /\ ChangeReports(<<w>>) = {}
        <5> HIDE DEF c, w
        <5> QED BY <3>2, <3>3, <3>5, ReportsAppend, ReportsEmpty
      <4>2. ChangeReports(<<w, c>>) = ReportOf(c)
        <5> HIDE DEF c, w
        <5> QED BY <3>2, <3>3, <3>5, <4>1, ReportsAppend
      <4> QED BY <3>4, <4>1, <4>2
    <3>7. InTransit' = ReportOf(c) \cup InTransit /\ paletteOwed' = FALSE
      BY <1>11, <2>1, <2>2, <2>4, <3>6 DEF InTransit, Finish, Report, ChangeReports
    <3> HIDE DEF c
    <3>8. CASE paletteOwed
      <4>1. InTransit' = InTransit \cup {announced'}
        BY <2>1, <3>2, <3>7, <3>8
      <4>2. heard' <= announced' /\ \A n \in InTransit' : n <= announced'
        BY <1>0, <2>1, <4>1
      <4>3. ChangeNeverLost'
        BY <4>1
      <4> QED BY <2>1, <4>2, <4>3
    <3>9. CASE ~paletteOwed
      <4>1. InTransit' = InTransit
        BY <3>2, <3>7, <3>9
      <4>2. ChangeNeverLost'
        BY <2>1, <3>9, <4>1
      <4> QED BY <2>1, <4>1, <4>2
    <3> QED BY <3>8, <3>9
  <2> QED BY <2>3, <2>4
<1>12. CASE Post
  <2>1. CASE outbox = <<>>
    BY <1>12, <2>1 DEF Post, InTransit
  <2>2. CASE outbox # <<>>
    <3>1. deferred' = Append(deferred, Head(outbox)) /\ outbox' = Tail(outbox)
      BY <1>12, <2>2 DEF Post
    <3>2. Head(outbox) \in Closure /\ outbox \in Seq(Closure) /\ deferred \in Seq(Closure)
      BY <2>2, HeadTailProperties DEF TypeOK
    <3>3. InTransit' = InTransit
      BY <2>2, <3>1, <3>2, ReportsAppend, ReportsTail DEF InTransit
    <3>4. UNCHANGED <<shutdown, paletteOwed, heard, announced, workerPc>> /\ workerPc = "post"
      BY <1>12, <2>2 DEF Post
    <3> QED BY <3>3, <3>4
  <2> QED BY <2>1, <2>2
<1>13. CASE FinishUndo
  <2>1. CASE resolved = {}
    BY <1>2, <1>13, <2>1 DEF FinishUndo
  <2>2. CASE resolved # {}
    <3>1. Forget(resolved) \in Closure /\ ReportOf(Forget(resolved)) = {}
      BY ClosureType DEF Forget, ReportOf, TypeOK
    <3>2. deferred' = Append(deferred, Forget(resolved)) /\ outbox' = outbox
      BY <1>13, <2>2 DEF FinishUndo
    <3>3. InTransit' = InTransit
      BY <3>1, <3>2, ReportsAppend DEF InTransit, TypeOK
    <3> QED BY <1>1, <1>13, <3>3 DEF FinishUndo
  <2> QED BY <2>1, <2>2
<1>14. CASE Invalidate \/ EnterBarrier \/ EnterInlineBarrier \/ EnterDrain
  BY <1>2, <1>14 DEF Invalidate, EnterBarrier, EnterInlineBarrier, EnterDrain, CallWaitIdle
<1>15. CASE LeaveBarrier \/ LeaveInlineBarrier \/ LeaveDrain
  BY <1>2, <1>15 DEF LeaveBarrier, LeaveInlineBarrier, LeaveDrain, WaitIdleReturns
<1>16. ASSUME NEW t \in Template, StartUndo(t) \/ StartRender(t) PROVE Told'
  BY <1>2, <1>16 DEF StartUndo, StartRender, WorkerMoves
<1>17. CASE FinishRender \/ SkipDrain \/ CheckPostHook \/ CheckInlineHook
  BY <1>2, <1>17 DEF FinishRender, SkipDrain, CheckPostHook, CheckInlineHook, WorkerMoves
<1>18. ASSUME NEW b \in BOOLEAN, Write(b) \/ EndUndo(b) \/ EndInlineHook(b) PROVE Told'
  BY <1>2, <1>18 DEF Write, EndUndo, EndInlineHook
<1>19. ASSUME NEW h \in HookId, HookStarts(h) \/ HookWarns(h) \/ HookEnds(h) PROVE Told'
  BY <1>2, <1>19 DEF HookStarts, HookWarns, HookEnds
<1> QED BY <1>3, <1>4, <1>5, <1>6, <1>7, <1>8, <1>9, <1>10, <1>11, <1>12, <1>13, <1>14, <1>15,
           <1>16, <1>17, <1>18, <1>19
        DEF Next, MainNext, Apply, WorkerStep, HooksNext, SyncHookEnds

-----------------------------------------------------------------------------
(***************************************************************************)
(* The theorems.                                                           *)
(***************************************************************************)

LEMMA InitInv == Init => IInv
<1> SUFFICES ASSUME Init PROVE IInv
  OBVIOUS
<1>1. TypeOK
  BY InitType
<1>2. Phases /\ Newest /\ BehindBarrier /\ InlineBarrier /\ InlineHookAlone /\ OwedHasCarrier
  BY DEF Init, Phases, Newest, BehindBarrier, InlineBarrier, InlineHookAlone, OwedHasCarrier, Working,
         OnTemplate
<1>3. Teardown
  BY DEF Init, Pool!Init, Teardown
<1> QED BY <1>1, <1>2, <1>3 DEF IInv, TypeInv

LEMMA NextInv == IInv /\ [Next]_vars => IInv'
  BY NextType, NextPhases, NextNewest, NextTeardown, NextCarrier, NextBarriers DEF IInv, TypeInv, Barriers

\* The inductive invariant holds in every behaviour of the service.
THEOREM Invariance == Spec => []IInv
  BY InitInv, NextInv, PTL DEF Spec

\* Type correctness of the service.
THEOREM TypeCorrect == Spec => []TypeOK
<1>1. IInv => TypeOK
  BY DEF IInv, TypeInv
<1> QED BY <1>1, Invariance, PTL

\* Hooks of a superseded generation never outlive the barrier: an undo hook,
\* an output and an inline hook have only hooks of their own request beside
\* them, however requests, hooks and teardown interleave.
THEOREM HooksAreOwn == Spec => []OnlyOwnHooks
<1>1. IInv => OnlyOwnHooks
  BY DEF IInv, BehindBarrier, OwnOnly, OnlyOwnHooks, OnTemplate
<1> QED BY <1>1, Invariance, PTL

\* An inline post_hook runs alone.
THEOREM InlineAlone == Spec => []InlineHookAlone
<1>1. IInv => InlineHookAlone
  BY DEF IInv
<1> QED BY <1>1, Invariance, PTL

\* An owed palette change always has an application that will carry it, so
\* deduplication may leave it alone.
THEOREM OwedIsCarried == Spec => []OwedHasCarrier
<1>1. IInv => OwedHasCarrier
  BY DEF IInv
<1> QED BY <1>1, Invariance, PTL
\* A palette change announced to apply() is never lost: coalescing, superseding
\* and deduplicating requests keep it owed or on its way to the handler.
THEOREM ChangeKept == Spec => []ChangeNeverLost
<1>1. Init => Told
  BY ReportsEmpty DEF Init, Told, InTransit, ChangeNeverLost
<1>2. IInv /\ Told /\ [Next]_vars => Told'
  BY NextTold
<1>3. Told => ChangeNeverLost
  BY DEF Told
<1> QED BY <1>1, <1>2, <1>3, Invariance, PTL DEF Spec

-----------------------------------------------------------------------------
(***************************************************************************)
(* What a step is to the requests and their reports.                       *)
(***************************************************************************)

Undoing == workerPc \in {"undo", "undoing"}
Rendering == workerPc \in (OnTemplate \ {"undoing"}) \cup {"render"}

\* A step that is about hooks, the pool or the place of the worker: it leaves the
\* requests, the records, the reports and the closures alone.
Quiet ==
  /\ UNCHANGED <<pending, lastApplied, nextGeneration, inFlight, paletteOwed, shutdown,
                 ids, deferred, disk, history, request, todo, resolved, outbox>>
  /\ \/ UNCHANGED <<workerPc, current, unrendered>>
     \/ workerPc = "wait" /\ workerPc' = "exited"
     \/ /\ workerPc \in Working \ {"undo", "undoing", "write", "post"}
        /\ workerPc' \in Working \ {"undo", "undoing", "write", "post"}
        /\ unrendered' \subseteq unrendered
        /\ Rendering' => Rendering
  /\ \A h \in pendingWarnings' : h \in pendingWarnings \/ ~Superseded(h[2])

\* The steps by what they do to the requests and their reports.
RequestStep ==
  \/ Quiet
  \/ mainPc = "up" /\ \E in \in Inputs, changed \in BOOLEAN : Queue(in, changed)
  \/ mainPc = "up" /\ \E changed \in BOOLEAN : lastApplied \in Inputs /\ Deduplicate(lastApplied, changed)
  \/ RunDeferred \/ BeginShutdown \/ NewProcess
  \/ Take \/ LeaveBarrier
  \/ (\E t \in Template : StartUndo(t)) \/ (\E success \in BOOLEAN : EndUndo(success)) \/ FinishUndo
  \/ (\E t \in Template : StartRender(t)) \/ (\E success \in BOOLEAN : Write(success))
  \/ Finish \/ Post

LEMMA NextRequest == TypeInv /\ [Next]_vars => RequestStep
<1> SUFFICES ASSUME TypeInv, [Next]_vars PROVE RequestStep
  OBVIOUS
<1> USE DEF shared, worker, mainOwned, hooksLeaveAlone
<1>1. ASSUME NEW in \in Inputs, NEW changed \in BOOLEAN, Apply(in, changed) PROVE RequestStep
  BY <1>1 DEF Apply, SameInputs, RequestStep
<1>2. ASSUME NEW enabled \in SUBSET Template, ReapplyLast(enabled) PROVE RequestStep
  <2>1. [look |-> lastApplied.look, enabled |-> enabled] \in Inputs
    BY <1>2 DEF ReapplyLast, TypeInv, TypeOK, Inputs
  <2> QED BY <1>2, <2>1 DEF ReapplyLast, RequestStep
<1>3. CASE CloseRunner \/ JoinWorker \/ ResetRunner \/ GraceElapses
  <2>1. Quiet
    BY <1>3 DEF CloseRunner, JoinWorker, ResetRunner, GraceElapses, Quiet
  <2> QED BY <2>1 DEF RequestStep
<1>4. CASE UNCHANGED vars
  <2>1. Quiet
    BY <1>4 DEF vars, Quiet
  <2> QED BY <2>1 DEF RequestStep
<1>5. ASSUME NEW h \in HookId, HookStarts(h) \/ HookWarns(h) \/ HookEnds(h) PROVE RequestStep
  <2>1. UNCHANGED <<pending, lastApplied, nextGeneration, inFlight, paletteOwed, shutdown,
                    ids, deferred, disk, history, worker>>
    BY <1>5 DEF HookStarts, HookWarns, HookEnds
  <2>2. \A k \in pendingWarnings' : k \in pendingWarnings \/ ~Superseded(k[2])
    BY <1>5 DEF HookStarts, HookWarns, HookEnds, RecordWarning
  <2>3. Quiet
    BY <2>1, <2>2 DEF Quiet
  <2> QED BY <2>3 DEF RequestStep
<1>6. CASE WorkerExits
  <2>1. Quiet
    BY <1>6 DEF WorkerExits, Quiet
  <2> QED BY <2>1 DEF RequestStep
<1>7. CASE EnterBarrier \/ EnterInlineBarrier \/ EnterDrain
  <2>1. Quiet
    BY <1>7 DEF EnterBarrier, EnterInlineBarrier, EnterDrain, CallWaitIdle, Quiet
  <2> QED BY <2>1 DEF RequestStep
<1>8. CASE Invalidate \/ LeaveInlineBarrier \/ LeaveDrain \/ EnqueueHook
  <2>1. Quiet
    BY <1>8 DEF Invalidate, LeaveInlineBarrier, LeaveDrain, WaitIdleReturns, EnqueueHook, Quiet,
                Working, WorkerPc, Rendering, OnTemplate
  <2> QED BY <2>1 DEF RequestStep
<1>9. CASE FinishRender \/ CheckPostHook \/ CheckInlineHook \/ SkipDrain
  <2>1. UNCHANGED <<shared, mainOwned, deferred, request, todo, resolved, outbox>>
    BY <1>9 DEF FinishRender, CheckPostHook, CheckInlineHook, SkipDrain, WorkerMoves
  <2>2. /\ workerPc \in {"render", "postHook", "inlineCheck", "drain"}
        /\ workerPc' \in Working \ {"undo", "undoing", "write", "post"}
        /\ unrendered' \subseteq unrendered
        /\ Rendering' => Rendering
    BY <1>9 DEF FinishRender, CheckPostHook, CheckInlineHook, SkipDrain, WorkerMoves,
                Working, WorkerPc, Rendering, OnTemplate
  <2>3. Quiet
    BY <2>1, <2>2 DEF Quiet, Working, WorkerPc
  <2> QED BY <2>3 DEF RequestStep
<1>10. ASSUME NEW warns \in BOOLEAN, EndInlineHook(warns) PROVE RequestStep
  <2>1. \A k \in pendingWarnings' : k \in pendingWarnings \/ ~Superseded(k[2])
    BY <1>10 DEF EndInlineHook, RecordWarning
  <2>2. Quiet
    BY <1>10, <2>1 DEF EndInlineHook, Quiet, Working, WorkerPc, Rendering, OnTemplate
  <2> QED BY <2>2 DEF RequestStep
<1>11. MainNext => RequestStep
  BY <1>1, <1>2, <1>3 DEF MainNext, RequestStep
<1>12. WorkerStep => RequestStep
  BY <1>6, <1>7, <1>8, <1>9 DEF WorkerStep, RequestStep
<1>13. HooksNext => RequestStep
  BY <1>5, <1>10 DEF HooksNext, SyncHookEnds, RequestStep
<1>14. NewProcess => RequestStep
  BY DEF RequestStep
<1> QED BY <1>3, <1>4, <1>11, <1>12, <1>13, <1>14 DEF Next

\* The request at work is no newer than the newest, and older than one that waits.
Older ==
  /\ shutdown => pending = None
  /\ workerPc \in Working => request.gen <= nextGeneration
  /\ workerPc \in Working /\ pending # None => request.gen < nextGeneration

LEMMA RequestTypes ==
    ASSUME TypeInv
    PROVE  /\ nextGeneration \in Nat
           /\ workerPc \in Working => request \in Request /\ request.gen \in Nat
           /\ pending # None => pending \in Request /\ pending.gen \in Nat
<1>1. \A r \in Request : r.gen \in Nat
  BY ServiceAssumption DEF Request, Gen
<1> QED BY <1>1, ServiceAssumption DEF TypeInv, TypeOK, Phases

LEMMA QueueNewer ==
    ASSUME TypeInv, NEW in \in Inputs, NEW changed \in BOOLEAN, Queue(in, changed)
    PROVE  /\ nextGeneration' = nextGeneration + 1
           /\ pending' = [in |-> in, undo |-> owed', gen |-> nextGeneration']
           /\ pending' \in Request /\ pending' # None
           /\ UNCHANGED <<shutdown, inFlight, pendingWarnings, deferred, worker, rendered>>
<1>1. nextGeneration' = nextGeneration + 1 /\ nextGeneration' \in Gen
  BY ServiceAssumption DEF TypeInv, TypeOK, Queue, Gen
<1>2. owed' \subseteq Template
  BY DEF Queue, SyncAppliedIds, TypeInv, TypeOK, Inputs
<1>3. pending' \in Request
  BY <1>1, <1>2 DEF Queue, Request
<1> QED BY <1>1, <1>3, ServiceAssumption DEF Queue

LEMMA NextOlder == IInv /\ Older /\ [Next]_vars => Older'
<1> SUFFICES ASSUME IInv, Older, RequestStep PROVE Older'
  BY NextRequest DEF IInv
<1> USE DEF IInv, TypeInv, Working, WorkerPc, shared, worker, mainOwned
<1>1. ASSUME UNCHANGED <<shutdown, pending, nextGeneration, request>>,
             workerPc' \in Working => workerPc \in Working
      PROVE  Older'
  BY <1>1 DEF Older
<1>2. CASE Quiet
  BY <1>1, <1>2 DEF Quiet
<1>3. ASSUME mainPc = "up", NEW in \in Inputs, NEW changed \in BOOLEAN, Queue(in, changed) PROVE Older'
  <2>1. nextGeneration' = nextGeneration + 1 /\ UNCHANGED <<shutdown, worker>>
    BY <1>3, QueueNewer
  <2>2. ~shutdown
    BY <1>3 DEF Teardown
  <2>3. workerPc \in Working => request.gen \in Nat /\ nextGeneration \in Nat
    BY RequestTypes
  <2> QED BY <2>1, <2>2, <2>3 DEF Older
<1>4. ASSUME NEW changed \in BOOLEAN, Deduplicate(lastApplied, changed) PROVE Older'
  BY <1>1, <1>4 DEF Deduplicate
<1>5. CASE RunDeferred
  BY <1>1, <1>5 DEF RunDeferred
<1>6. CASE BeginShutdown \/ NewProcess
  BY <1>6 DEF BeginShutdown, NewProcess, Older
<1>7. CASE Take
  <2>1. request' = pending /\ pending' = None /\ pending.gen = nextGeneration
        /\ nextGeneration' = nextGeneration /\ nextGeneration \in Nat
    BY <1>7, RequestTypes DEF Take, Newest
  <2> QED BY <2>1 DEF Older
<1>8. CASE LeaveBarrier \/ FinishUndo \/ Finish
  BY <1>1, <1>8 DEF LeaveBarrier, WaitIdleReturns, FinishUndo, Finish
<1>9. CASE Post
  BY <1>9 DEF Post, Older
<1>10. ASSUME NEW t \in Template, StartUndo(t) \/ StartRender(t) PROVE Older'
  BY <1>1, <1>10 DEF StartUndo, StartRender, WorkerMoves
<1>11. ASSUME NEW b \in BOOLEAN, Write(b) \/ EndUndo(b) PROVE Older'
  BY <1>1, <1>11 DEF Write, EndUndo
<1> QED BY <1>2, <1>3, <1>4, <1>5, <1>6, <1>7, <1>8, <1>9, <1>10, <1>11 DEF RequestStep

LEMMA OlderAlways == Spec => []Older
<1>1. Init => Older
  BY DEF Init, Older, Working
<1> QED BY <1>1, NextOlder, Invariance, PTL DEF Spec

-----------------------------------------------------------------------------
(***************************************************************************)
(* A report carries only the warnings of its own generation.               *)
(***************************************************************************)

\* The closures of a queue.
Members(s) == {s[i] : i \in DOMAIN s}

LEMMA MembersEmpty == Members(<<>>) = {}
  BY DEF Members

LEMMA MembersAppend ==
    ASSUME NEW s \in Seq(Closure), NEW c \in Closure
    PROVE  Members(Append(s, c)) = Members(s) \cup {c}
<1> DEFINE t == Append(s, c)
<1>1. /\ DOMAIN s = 1..Len(s) /\ DOMAIN t = 1..(Len(s) + 1) /\ Len(s) \in Nat
      /\ \A i \in 1..Len(s) : t[i] = s[i]
      /\ t[Len(s) + 1] = c
  BY AppendProperties, LenProperties
<1> HIDE DEF t
<1>2. Members(t) = Members(s) \cup {c}
  BY <1>1 DEF Members
<1> QED BY <1>2 DEF t

LEMMA MembersTail ==
    ASSUME NEW s \in Seq(Closure), s # <<>>
    PROVE  /\ Head(s) \in Closure /\ Tail(s) \in Seq(Closure)
           /\ Members(s) = {Head(s)} \cup Members(Tail(s))
<1> DEFINE t == Tail(s)
<1>1. /\ DOMAIN s = 1..Len(s) /\ DOMAIN t = 1..(Len(s) - 1) /\ Len(s) \in Nat \ {0}
      /\ \A i \in 1..(Len(s) - 1) : t[i] = s[i + 1]
      /\ Head(s) = s[1] /\ Head(s) \in Closure /\ t \in Seq(Closure)
  BY HeadTailProperties, LenProperties, EmptySeq
<1> HIDE DEF t
<1>2. Members(s) \subseteq {s[1]} \cup Members(t)
  <2> SUFFICES ASSUME NEW i \in 1..Len(s), i # 1 PROVE s[i] \in Members(t)
    BY <1>1 DEF Members
  <2>1. i - 1 \in DOMAIN t /\ t[i - 1] = s[i]
    BY <1>1
  <2> QED BY <2>1 DEF Members
<1>3. {s[1]} \cup Members(t) \subseteq Members(s)
  <2>1. \A i \in DOMAIN t : i + 1 \in DOMAIN s /\ s[i + 1] = t[i]
    BY <1>1
  <2> QED BY <1>1, <2>1 DEF Members
<1> QED BY <1>1, <1>2, <1>3 DEF t

\* The callbacks of Finish: the warnings of the run, if any, and its completion.
LEMMA FinishBuilds ==
    ASSUME TypeInv, Finish, outbox = <<>>
    PROVE  \/ UNCHANGED <<paletteOwed, pendingWarnings, outbox>> /\ Superseded(request.gen)
           \/ /\ ~Superseded(request.gen)
              /\ paletteOwed' = FALSE /\ pendingWarnings' = {}
              /\ LET c == After(request.in.look, paletteOwed)
                     w == Warn(pendingWarnings, request.gen)
                 IN c \in Closure /\ w \in Closure /\ (outbox' = <<c>> \/ outbox' = <<w, c>>)
<1> USE DEF TypeInv
<1>1. request \in Request /\ announced' \in 0..MaxChanges
  BY DEF Finish, Phases, Working, WorkerPc, TypeOK, mainOwned, history
<1>2. /\ After(request.in.look, paletteOwed) \in Closure
      /\ Warn(pendingWarnings, request.gen) \in Closure
  BY <1>1, ClosureType DEF Request, Inputs, TypeOK
<1> DEFINE c == After(request.in.look, paletteOwed)
           w == Warn(pendingWarnings, request.gen)
<1>3. ~Superseded(request.gen) => outbox' = <<c>> \/ outbox' = <<w, c>>
  BY DEF Finish, Report
<1>4. ~Superseded(request.gen) => paletteOwed' = FALSE /\ pendingWarnings' = {}
  BY DEF Finish, Report
<1>5. Superseded(request.gen) => UNCHANGED <<paletteOwed, pendingWarnings, outbox>>
  BY DEF Finish
<1> HIDE DEF c, w
<1> QED BY <1>2, <1>3, <1>4, <1>5 DEF c, w

LEMMA MembersReport ==
    ASSUME NEW c, NEW w
    PROVE  Members(<<c>>) = {c} /\ Members(<<w, c>>) = {w, c}
<1>1. DOMAIN <<c>> = 1..1 /\ <<c>>[1] = c
  OBVIOUS
<1>2. DOMAIN <<w, c>> = 1..2 /\ <<w, c>>[1] = w /\ <<w, c>>[2] = c
  OBVIOUS
<1>3. 1..1 = {1} /\ 1..2 = {1, 2}
  OBVIOUS
<1> QED BY <1>1, <1>2, <1>3 DEF Members

\* While a run is the newest, the warnings collected are its own; and a closure that
\* shows warnings shows those of its generation.
PendingOwn ==
  ~shutdown /\ workerPc \in Working /\ request.gen = nextGeneration =>
    \A h \in pendingWarnings : h[2] = nextGeneration

OwnClosure(c) == c.kind = "warn" => \A h \in c.hooks : h[2] = c.gen
PostedOwn == \A c \in Members(outbox) \cup Members(deferred) : OwnClosure(c)

LEMMA NextPendingOwn == IInv /\ Older /\ PendingOwn /\ [Next]_vars => PendingOwn'
<1> SUFFICES ASSUME IInv, Older, PendingOwn, RequestStep PROVE PendingOwn'
  BY NextRequest DEF IInv
<1> USE DEF IInv, TypeInv, PendingOwn, Working, WorkerPc, shared, worker, mainOwned
<1>1. ASSUME UNCHANGED <<shutdown, nextGeneration, request>>,
             workerPc' \in Working => workerPc \in Working,
             pendingWarnings' \subseteq pendingWarnings
      PROVE  PendingOwn'
  BY <1>1
<1>2. CASE Quiet
  BY <1>2 DEF Quiet, Superseded
<1>3. ASSUME NEW in \in Inputs, NEW changed \in BOOLEAN, Queue(in, changed) PROVE PendingOwn'
  <2>1. nextGeneration' = nextGeneration + 1 /\ UNCHANGED worker
    BY <1>3, QueueNewer
  <2>2. workerPc \in Working => request.gen # nextGeneration + 1
    BY RequestTypes DEF Older
  <2> QED BY <2>1, <2>2
<1>4. ASSUME NEW changed \in BOOLEAN, Deduplicate(lastApplied, changed) PROVE PendingOwn'
  BY <1>1, <1>4 DEF Deduplicate
<1>5. CASE RunDeferred
  BY <1>1, <1>5 DEF RunDeferred
<1>6. CASE BeginShutdown \/ NewProcess
  BY <1>6 DEF BeginShutdown, NewProcess
<1>7. CASE Take
  BY <1>7 DEF Take
<1>8. CASE LeaveBarrier \/ FinishUndo
  BY <1>1, <1>8 DEF LeaveBarrier, WaitIdleReturns, FinishUndo
<1>9. CASE Finish
  <2>1. pendingWarnings' \subseteq pendingWarnings
    BY <1>9 DEF Finish, Report
  <2> QED BY <1>1, <1>9, <2>1 DEF Finish
<1>10. CASE Post
  BY <1>10 DEF Post
<1>11. ASSUME NEW t \in Template, StartUndo(t) \/ StartRender(t) PROVE PendingOwn'
  BY <1>1, <1>11 DEF StartUndo, StartRender, WorkerMoves
<1>12. ASSUME NEW b \in BOOLEAN, Write(b) \/ EndUndo(b) PROVE PendingOwn'
  BY <1>1, <1>12 DEF Write, EndUndo
<1> QED BY <1>2, <1>3, <1>4, <1>5, <1>6, <1>7, <1>8, <1>9, <1>10, <1>11, <1>12 DEF RequestStep

LEMMA OwnAppend ==
    ASSUME NEW s \in Seq(Closure), NEW c \in Closure, OwnClosure(c),
           \A d \in Members(s) : OwnClosure(d)
    PROVE  \A d \in Members(Append(s, c)) : OwnClosure(d)
<1>1. Members(Append(s, c)) = Members(s) \cup {c}
  BY MembersAppend
<1> QED BY <1>1

LEMMA NextPostedOwn == IInv /\ Told /\ PendingOwn /\ PostedOwn /\ [Next]_vars => PostedOwn'
<1> SUFFICES ASSUME IInv, Told, PendingOwn, PostedOwn, RequestStep PROVE PostedOwn'
  BY NextRequest DEF IInv
<1> USE DEF IInv, TypeInv, PostedOwn, shared, worker, mainOwned
<1>0. outbox \in Seq(Closure) /\ deferred \in Seq(Closure)
  BY DEF TypeOK
<1>1. ASSUME UNCHANGED <<outbox, deferred>> PROVE PostedOwn'
  BY <1>1
<1>2. CASE Quiet
  BY <1>1, <1>2 DEF Quiet
<1>3. ASSUME NEW in \in Inputs, NEW changed \in BOOLEAN, Queue(in, changed) PROVE PostedOwn'
  BY <1>1, <1>3 DEF Queue
<1>4. ASSUME NEW changed \in BOOLEAN, lastApplied \in Inputs, Deduplicate(lastApplied, changed)
      PROVE  PostedOwn'
  <2>1. announced' \in 0..MaxChanges
    BY <1>4, ServiceAssumption DEF Deduplicate, Announce, TypeOK
  <2>2. After(lastApplied.look, TRUE) \in Closure /\ OwnClosure(After(lastApplied.look, TRUE))
    BY <1>4, <2>1, ClosureType DEF After, OwnClosure, Inputs
  <2>3. /\ outbox' = outbox
        /\ deferred' = deferred \/ deferred' = Append(deferred, After(lastApplied.look, TRUE))
    BY <1>4 DEF Deduplicate
  <2> DEFINE d == After(lastApplied.look, TRUE)
  <2>4. \A c \in Members(Append(deferred, d)) : OwnClosure(c)
    <3> HIDE DEF d
    <3> QED BY <1>0, <2>2, OwnAppend DEF d
  <2>5. \A c \in Members(deferred') : OwnClosure(c)
    BY <2>3, <2>4
  <2> QED BY <2>3, <2>5
<1>5. CASE RunDeferred
  <2>1. outbox' = outbox /\ deferred # <<>> /\ deferred' = Tail(deferred)
    BY <1>5 DEF RunDeferred
  <2> QED BY <1>0, <2>1, MembersTail
<1>6. CASE BeginShutdown
  BY <1>1, <1>6 DEF BeginShutdown
<1>7. CASE NewProcess
  BY <1>7, MembersEmpty DEF NewProcess
<1>8. CASE Take \/ LeaveBarrier
  BY <1>1, <1>8 DEF Take, LeaveBarrier, WaitIdleReturns
<1>9. CASE FinishUndo
  <2>1. Forget(resolved) \in Closure /\ OwnClosure(Forget(resolved))
    BY ClosureType DEF Forget, OwnClosure, TypeOK
  <2>2. outbox' = outbox /\ (deferred' = deferred \/ deferred' = Append(deferred, Forget(resolved)))
    BY <1>9 DEF FinishUndo
  <2>3. \A c \in Members(Append(deferred, Forget(resolved))) : OwnClosure(c)
    BY <1>0, <2>1, OwnAppend
  <2>4. \A c \in Members(deferred') : OwnClosure(c)
    BY <2>2, <2>3
  <2> QED BY <2>2, <2>4
<1>10. CASE Finish
  <2>1. outbox = <<>> /\ deferred' = deferred /\ workerPc \in Working
    BY <1>10 DEF Finish, Told, Working, WorkerPc
  <2> DEFINE c == After(request.in.look, paletteOwed)
             w == Warn(pendingWarnings, request.gen)
  <2>2. CASE ~Superseded(request.gen)
    <3>1. \A h \in pendingWarnings : h[2] = request.gen
      BY <2>1, <2>2 DEF PendingOwn, Superseded
    <3>2. OwnClosure(c) /\ OwnClosure(w)
      BY <3>1 DEF OwnClosure, After, Warn
    <3>3. outbox' = <<c>> \/ outbox' = <<w, c>>
      BY <1>10, <2>1, <2>2, FinishBuilds
    <3> HIDE DEF c, w
    <3>4. Members(outbox') \subseteq {c, w}
      <4>1. Members(<<c>>) = {c} /\ Members(<<w, c>>) = {w, c}
        BY MembersReport
      <4>2. Members(outbox') = Members(<<c>>) \/ Members(outbox') = Members(<<w, c>>)
        BY <3>3
      <4> QED BY <4>1, <4>2
    <3> QED BY <2>1, <3>2, <3>4
  <2>3. CASE Superseded(request.gen)
    BY <1>1, <1>10, <2>1, <2>3 DEF Finish
  <2> QED BY <2>2, <2>3
<1>11. CASE Post
  <2>1. CASE outbox = <<>>
    BY <1>1, <1>11, <2>1 DEF Post
  <2>2. CASE outbox # <<>>
    <3>1. deferred' = Append(deferred, Head(outbox)) /\ outbox' = Tail(outbox)
      BY <1>11, <2>2 DEF Post
    <3> QED BY <1>0, <2>2, <3>1, MembersAppend, MembersTail
  <2> QED BY <2>1, <2>2
<1>12. ASSUME NEW t \in Template, StartUndo(t) \/ StartRender(t) PROVE PostedOwn'
  BY <1>1, <1>12 DEF StartUndo, StartRender, WorkerMoves
<1>13. ASSUME NEW b \in BOOLEAN, Write(b) \/ EndUndo(b) PROVE PostedOwn'
  BY <1>1, <1>13 DEF Write, EndUndo
<1> QED BY <1>2, <1>3, <1>4, <1>5, <1>6, <1>7, <1>8, <1>9, <1>10, <1>11, <1>12, <1>13 DEF RequestStep

LEMMA ToldAlways == Spec => []Told
<1>1. Init => Told
  BY ReportsEmpty DEF Init, Told, InTransit, ChangeNeverLost
<1> QED BY <1>1, NextTold, Invariance, PTL DEF Spec

\* A report carries only the warnings of its own generation: a hook of an older
\* one that fails late is not blamed on the newer.
THEOREM WarningsAreOwn == Spec => []WarningsOfOwnRun
<1>1. Init => PendingOwn /\ PostedOwn
  BY MembersEmpty DEF Init, PendingOwn, PostedOwn, Working
<1>2. Spec => []PendingOwn
  BY <1>1, NextPendingOwn, Invariance, OlderAlways, PTL DEF Spec
<1>3. Spec => []PostedOwn
  BY <1>1, <1>2, NextPostedOwn, Invariance, ToldAlways, PTL DEF Spec
<1>4. PostedOwn => WarningsOfOwnRun
  BY DEF PostedOwn, OwnClosure, Members, WarningsOfOwnRun
<1> QED BY <1>3, <1>4, PTL

-----------------------------------------------------------------------------
(***************************************************************************)
(* What is on disk is recorded.                                            *)
(***************************************************************************)

IsForget(c) == c.kind = "forget"

\* The templates that closures of a queue will forget.
Forgotten(s) == UNION {c.ids : c \in {d \in Members(s) : IsForget(d)}}

LEMMA ForgottenSame ==
    ASSUME NEW s \in Seq(Closure), NEW c \in Closure, ~IsForget(c)
    PROVE  /\ Forgotten(Append(s, c)) = Forgotten(s)
           /\ (\E d \in Members(Append(s, c)) : IsForget(d)) => \E d \in Members(s) : IsForget(d)
<1>1. Members(Append(s, c)) = Members(s) \cup {c}
  BY MembersAppend
<1> QED BY <1>1 DEF Forgotten

LEMMA ForgottenAppend ==
    ASSUME NEW s \in Seq(Closure), NEW S \in SUBSET Template
    PROVE  Forgotten(Append(s, Forget(S))) = Forgotten(s) \cup S
<1>1. Forget(S) \in Closure /\ IsForget(Forget(S)) /\ Forget(S).ids = S
  BY ClosureType DEF Forget, IsForget
<1>2. Members(Append(s, Forget(S))) = Members(s) \cup {Forget(S)}
  BY <1>1, MembersAppend
<1> QED BY <1>1, <1>2 DEF Forgotten

LEMMA ForgottenTail ==
    ASSUME NEW s \in Seq(Closure), s # <<>>
    PROVE  /\ Forgotten(Tail(s)) \subseteq Forgotten(s)
           /\ (\E d \in Members(Tail(s)) : IsForget(d)) => \E d \in Members(s) : IsForget(d)
           /\ IsForget(Head(s)) => /\ \E d \in Members(s) : IsForget(d)
                                   /\ Head(s).ids \subseteq Forgotten(s)
<1>1. Members(s) = {Head(s)} \cup Members(Tail(s))
  BY MembersTail
<1> QED BY <1>1 DEF Forgotten

\* Those, and the ones an undo is about to resolve, are what Paced waits for.
LEMMA UnsettledIs ==
    Unsettled = (IF Undoing THEN todo \cup resolved ELSE {}) \cup Forgotten(deferred)
<1>1. UNION {deferred[i].ids : i \in {j \in DOMAIN deferred : deferred[j].kind = "forget"}}
        = Forgotten(deferred)
  BY DEF Forgotten, Members, IsForget
<1> QED BY <1>1 DEF Unsettled, Undoing

\* The templates a request enables are recorded, are not to be undone by it, and no
\* closure on its way will forget them.
Recorded(r) ==
  /\ r.in.enabled \subseteq stateFile
  /\ r.in.enabled \cap Forgotten(deferred) = {}
  /\ r.in.enabled \cap r.undo = {}

\* The records follow the ids in memory once those are loaded, and nothing happens
\* before.
Records ==
  /\ rendered \subseteq stateFile
  /\ loaded => applied = stateFile
  /\ ~loaded => /\ pending = None /\ workerPc \notin Working
                /\ \A c \in Members(deferred) : ~IsForget(c)
  /\ \A c \in Members(outbox) : ~IsForget(c)
  /\ Forgotten(deferred) \cap rendered = {}

Requests ==
  /\ pending # None => Recorded(pending)
  /\ workerPc \in Working => Recorded(request)

\* What is undone is off the disk, belongs to the request, and is not enabled by one
\* that waits; what is written is enabled.
Undone ==
  /\ Undoing => todo \subseteq request.undo /\ resolved \subseteq request.undo /\ resolved \cap rendered = {}
  /\ workerPc = "undoing" => current \in todo
  /\ pending # None /\ Undoing => pending.in.enabled \cap resolved = {}
  /\ pending # None /\ workerPc = "undoing" => current \notin pending.in.enabled

Written ==
  /\ Rendering => unrendered \subseteq request.in.enabled
  /\ workerPc = "write" => current \in request.in.enabled

Accounted == Records /\ Requests /\ Undone /\ Written

\* Queuing a request only adds to the records.
LEMMA QueueRecords ==
    ASSUME Records, NEW in, NEW changed, Queue(in, changed)
    PROVE  /\ stateFile \subseteq stateFile' /\ applied' = stateFile' /\ loaded' = TRUE
           /\ in.enabled \subseteq stateFile' /\ in.enabled \cap owed' = {}
           /\ Paced => in.enabled \cap Unsettled = {}
<1>1. stateFile \subseteq owed \cup applied \cup (IF loaded THEN {} ELSE stateFile)
  BY DEF Records
<1> QED BY <1>1 DEF Queue, SyncAppliedIds

\* If a template is enabled again only after its undo has settled, whatever is on
\* disk is recorded.
LEMMA NextAccounted == ASSUME Paced PROVE IInv /\ Older /\ Told /\ Accounted /\ [Next]_vars => Accounted'
<1> SUFFICES ASSUME IInv, Older, Told, Accounted, RequestStep PROVE Accounted'
  BY NextRequest DEF IInv
<1> USE DEF IInv, TypeInv, Accounted, Records, Requests, Undone, Written, Recorded, Undoing, Rendering,
            Working, WorkerPc, OnTemplate
<1>0. outbox \in Seq(Closure) /\ deferred \in Seq(Closure)
  BY DEF TypeOK
<1>1. CASE Quiet
  BY <1>1 DEF Quiet, ids, disk
<1>2. ASSUME NEW in \in Inputs, NEW changed \in BOOLEAN, Queue(in, changed) PROVE Accounted'
  <2>1. /\ pending' = [in |-> in, undo |-> owed', gen |-> nextGeneration']
        /\ UNCHANGED <<deferred, workerPc, request, todo, resolved, unrendered, current, outbox, rendered>>
    BY <1>2, QueueNewer DEF worker
  <2>2. /\ stateFile \subseteq stateFile' /\ applied' = stateFile' /\ loaded' = TRUE
        /\ in.enabled \subseteq stateFile' /\ in.enabled \cap owed' = {}
        /\ in.enabled \cap Unsettled = {}
    BY <1>2, QueueRecords
  <2>3. /\ in.enabled \cap Forgotten(deferred) = {}
        /\ Undoing => in.enabled \cap (todo \cup resolved) = {}
    BY <2>2, UnsettledIs
  <2>4. pending'.in = in /\ pending'.undo = owed'
    BY <2>1
  <2>5. Records'
    BY <2>1, <2>2
  <2>6. Requests'
    BY <2>1, <2>2, <2>3, <2>4
  <2>7. Undone'
    BY <2>1, <2>3, <2>4
  <2>8. Written'
    BY <2>1
  <2> QED BY <2>5, <2>6, <2>7, <2>8
<1>3. ASSUME NEW changed \in BOOLEAN, lastApplied \in Inputs, Deduplicate(lastApplied, changed)
      PROVE  Accounted'
  <2> DEFINE d == After(lastApplied.look, TRUE)
  <2>1. announced' \in 0..MaxChanges
    BY <1>3, ServiceAssumption DEF Deduplicate, Announce, TypeOK
  <2>2. d \in Closure /\ ~IsForget(d)
    BY <1>3, <2>1, ClosureType DEF After, IsForget, Inputs
  <2>3. /\ UNCHANGED <<pending, ids, worker, disk>>
        /\ deferred' = deferred \/ deferred' = Append(deferred, d)
    BY <1>3 DEF Deduplicate
  <2> HIDE DEF d
  <2>4. /\ Forgotten(deferred') = Forgotten(deferred)
        /\ (\E c \in Members(deferred') : IsForget(c)) => \E c \in Members(deferred) : IsForget(c)
    BY <1>0, <2>2, <2>3, ForgottenSame
  <2> QED BY <2>3, <2>4 DEF ids, worker, disk
<1>4. CASE RunDeferred
  <2> DEFINE h == Head(deferred)
  <2>1. /\ deferred # <<>> /\ deferred' = Tail(deferred)
        /\ UNCHANGED <<pending, loaded, worker, rendered, restarts>>
    BY <1>4 DEF RunDeferred, RunForget, RunWarning, RunAfterApply, shared, ids
  <2>2. /\ Forgotten(deferred') \subseteq Forgotten(deferred)
        /\ (\E c \in Members(deferred') : IsForget(c)) => \E c \in Members(deferred) : IsForget(c)
        /\ IsForget(h) => (\E c \in Members(deferred) : IsForget(c)) /\ h.ids \subseteq Forgotten(deferred)
    BY <1>0, <2>1, ForgottenTail
  <2>3. \/ IsForget(h) /\ applied' = applied \ h.ids /\ stateFile' = applied'
        \/ UNCHANGED <<applied, stateFile>>
    BY <1>4 DEF RunDeferred, RunForget, RunWarning, RunAfterApply, IsForget, ids
  <2> HIDE DEF h
  <2>4. /\ stateFile' \subseteq stateFile /\ stateFile \ Forgotten(deferred) \subseteq stateFile'
        /\ loaded => applied' = stateFile'
    BY <2>2, <2>3
  <2> QED BY <2>1, <2>2, <2>4 DEF worker
<1>5. CASE BeginShutdown
  BY <1>5 DEF BeginShutdown, ids, worker, disk
<1>6. CASE NewProcess
  <2>1. rendered' \subseteq stateFile
    BY <1>6 DEF NewProcess
  <2> QED BY <1>6, <2>1, MembersEmpty DEF NewProcess, Forgotten
<1>7. CASE Take
  BY <1>7 DEF Take, mainOwned, ids, disk
<1>8. CASE LeaveBarrier
  BY <1>8 DEF LeaveBarrier, WaitIdleReturns, shared, mainOwned, ids, disk
<1>9. ASSUME NEW t \in Template, StartUndo(t) PROVE Accounted'
  <2>1. pending = None
    BY <1>9, RequestTypes DEF StartUndo, Superseded, Older
  <2> QED BY <1>9, <2>1 DEF StartUndo, shared, mainOwned, ids, disk
<1>10. ASSUME NEW b \in BOOLEAN, EndUndo(b) PROVE Accounted'
  BY <1>10 DEF EndUndo, shared, ids
<1>11. CASE FinishUndo
  <2>1. Forgotten(deferred') = Forgotten(deferred) \cup resolved
    BY <1>0, <1>11, ForgottenAppend DEF FinishUndo, TypeOK
  <2>2. loaded
    BY <1>11 DEF FinishUndo
  <2> QED BY <1>11, <2>1, <2>2 DEF FinishUndo, shared, mainOwned, ids, disk
<1>12. ASSUME NEW t \in Template, StartRender(t) PROVE Accounted'
  BY <1>12 DEF StartRender, WorkerMoves, shared, mainOwned, ids, disk
<1>13. ASSUME NEW b \in BOOLEAN, Write(b) PROVE Accounted'
  BY <1>13 DEF Write, shared, ids
<1>14. CASE Finish
  <2>1. outbox = <<>> /\ UNCHANGED <<pending, ids, deferred, disk, request>>
    BY <1>14 DEF Finish, Told, mainOwned
  <2>2. \A c \in Members(outbox') : ~IsForget(c)
    <3> DEFINE c == After(request.in.look, paletteOwed)
               w == Warn(pendingWarnings, request.gen)
    <3>1. ~IsForget(c) /\ ~IsForget(w)
      BY DEF IsForget, After, Warn
    <3>2. outbox' = outbox \/ outbox' = <<c>> \/ outbox' = <<w, c>>
      BY <1>14, <2>1, FinishBuilds
    <3> HIDE DEF c, w
    <3>3. Members(<<c>>) = {c} /\ Members(<<w, c>>) = {w, c}
      BY MembersReport
    <3>4. \/ Members(outbox') = Members(outbox)
          \/ Members(outbox') = Members(<<c>>) \/ Members(outbox') = Members(<<w, c>>)
      BY <3>2
    <3> QED BY <3>1, <3>3, <3>4
  <2> QED BY <1>14, <2>1, <2>2 DEF Finish, ids, disk
<1>15. CASE Post
  <2>1. CASE outbox = <<>>
    BY <1>15, <2>1 DEF Post, shared, mainOwned, ids, disk
  <2>2. CASE outbox # <<>>
    <3> DEFINE h == Head(outbox)
    <3>1. deferred' = Append(deferred, h) /\ outbox' = Tail(outbox)
      BY <1>15, <2>2 DEF Post
    <3>2. h \in Closure /\ ~IsForget(h) /\ Members(outbox') \subseteq Members(outbox)
      BY <1>0, <2>2, <3>1, MembersTail
    <3> HIDE DEF h
    <3>3. /\ Forgotten(deferred') = Forgotten(deferred)
          /\ (\E c \in Members(deferred') : IsForget(c)) => \E c \in Members(deferred) : IsForget(c)
      BY <1>0, <3>1, <3>2, ForgottenSame
    <3> QED BY <1>15, <2>2, <3>2, <3>3 DEF Post, shared, mainOwned, ids, disk
  <2> QED BY <2>1, <2>2
<1> QED BY <1>1, <1>2, <1>3, <1>4, <1>5, <1>6, <1>7, <1>8, <1>9, <1>10, <1>11, <1>12, <1>13, <1>14,
           <1>15 DEF RequestStep

\* Every template whose output is on disk is recorded, so that a later disable, in
\* this process or the next, runs its undo hook - as long as a template is enabled
\* again only after its undo has settled.
THEOREM OutputsAreRecorded == ASSUME Paced PROVE Spec => []OutputAccounted
<1>1. Init => Accounted
  BY MembersEmpty DEF Init, Accounted, Records, Requests, Undone, Written, Forgotten, Undoing, Rendering,
                      Working, OnTemplate
<1>2. IInv /\ Older /\ Told /\ Accounted /\ [Next]_vars => Accounted'
  BY NextAccounted
<1>3. Accounted => OutputAccounted
  BY DEF Accounted, Records, OutputAccounted
<1> QED BY <1>1, <1>2, <1>3, Invariance, OlderAlways, ToldAlways, PTL DEF Spec

-----------------------------------------------------------------------------
(***************************************************************************)
(* The handler hears each palette change once.                             *)
(***************************************************************************)

\* No two closures of a queue report the same palette change.
Distinct(s) ==
  \A i, j \in DOMAIN s :
    /\ s[i].kind = "after" /\ s[i].changed
    /\ s[j].kind = "after" /\ s[j].changed
    /\ s[i].covers = s[j].covers
    => i = j

LEMMA DistinctAppend ==
    ASSUME NEW s \in Seq(Closure), NEW c \in Closure, Distinct(s),
           ReportOf(c) \cap ChangeReports(s) = {}
    PROVE  Distinct(Append(s, c))
<1> DEFINE t == Append(s, c)
<1>1. /\ DOMAIN s = 1..Len(s) /\ DOMAIN t = 1..(Len(s) + 1) /\ Len(s) \in Nat
      /\ \A i \in 1..Len(s) : t[i] = s[i]
      /\ t[Len(s) + 1] = c
  BY AppendProperties, LenProperties
<1> HIDE DEF t
<1>2. ASSUME NEW i \in 1..Len(s), s[i].kind = "after", s[i].changed, c.kind = "after", c.changed
      PROVE  s[i].covers # c.covers
  BY <1>1, <1>2 DEF ChangeReports, ReportOf
<1>3. Distinct(t)
  BY <1>1, <1>2 DEF Distinct
<1> QED BY <1>3 DEF t

LEMMA DistinctTail ==
    ASSUME NEW s \in Seq(Closure), s # <<>>, Distinct(s)
    PROVE  Distinct(Tail(s)) /\ ReportOf(Head(s)) \cap ChangeReports(Tail(s)) = {}
<1> DEFINE t == Tail(s)
<1>1. /\ DOMAIN s = 1..Len(s) /\ DOMAIN t = 1..(Len(s) - 1) /\ Len(s) \in Nat \ {0}
      /\ \A i \in 1..(Len(s) - 1) : t[i] = s[i + 1]
      /\ Head(s) = s[1]
  BY HeadTailProperties, LenProperties, EmptySeq
<1> HIDE DEF t
<1>2. \A i \in DOMAIN t : i + 1 \in DOMAIN s /\ t[i] = s[i + 1] /\ i \in Nat /\ i + 1 # 1
  BY <1>1
<1>3. Distinct(t)
  <2> SUFFICES ASSUME NEW i \in DOMAIN t, NEW j \in DOMAIN t,
                      t[i].kind = "after", t[i].changed, t[j].kind = "after", t[j].changed,
                      t[i].covers = t[j].covers
               PROVE  i = j
    BY DEF Distinct
  <2>1. i + 1 = j + 1
    BY <1>2 DEF Distinct
  <2> QED BY <1>2, <2>1
<1>4. ASSUME NEW i \in DOMAIN t, t[i].kind = "after", t[i].changed, s[1].kind = "after", s[1].changed
      PROVE  t[i].covers # s[1].covers
  BY <1>1, <1>2, <1>4 DEF Distinct
<1>5. ReportOf(s[1]) \cap ChangeReports(t) = {}
  BY <1>4 DEF ReportOf, ChangeReports
<1> QED BY <1>1, <1>3, <1>5 DEF t

\* What the worker still has to post: a completion, with the warnings before it.
OutboxShape ==
  outbox # <<>> =>
    \E c \in Closure :
      /\ c.kind = "after"
      /\ outbox = <<c>> \/ \E w \in Closure : w.kind = "warn" /\ outbox = <<w, c>>

LEMMA ReportsOfPair ==
    ASSUME NEW c, NEW w, w.kind = "warn"
    PROVE  ChangeReports(<<c>>) = ReportOf(c) /\ ChangeReports(<<w, c>>) = ReportOf(c)
<1>1. DOMAIN <<c>> = {1} /\ <<c>>[1] = c
  OBVIOUS
<1>2. DOMAIN <<w, c>> = {1, 2} /\ <<w, c>>[1] = w /\ <<w, c>>[2] = c
  OBVIOUS
<1>3. ChangeReports(<<c>>) = ReportOf(c)
  BY <1>1 DEF ChangeReports, ReportOf
<1>4. ChangeReports(<<w, c>>) = ReportOf(c)
  BY <1>2 DEF ChangeReports, ReportOf
<1> QED BY <1>3, <1>4

LEMMA PairTails ==
    ASSUME NEW c, NEW w
    PROVE  /\ Head(<<c>>) = c /\ Tail(<<c>>) = <<>>
           /\ Head(<<w, c>>) = w /\ Tail(<<w, c>>) = <<c>>
  OBVIOUS

\* Post moves the warnings, or the completion, which is the last.
LEMMA PostMoves ==
    ASSUME OutboxShape, outbox # <<>>, Post
    PROVE  /\ workerPc = "post" /\ UNCHANGED <<shared, mainOwned, workerPc>>
           /\ \E c \in Closure :
                /\ c.kind = "after" /\ c \in Members(outbox)
                /\ ChangeReports(outbox) = ReportOf(c)
                /\ \/ outbox' = <<>> /\ deferred' = Append(deferred, c)
                   \/ /\ outbox' = <<c>>
                      /\ \E w \in Closure : w.kind = "warn" /\ deferred' = Append(deferred, w)
<1>1. deferred' = Append(deferred, Head(outbox)) /\ outbox' = Tail(outbox)
  BY DEF Post
<1>2. PICK c \in Closure :
        /\ c.kind = "after"
        /\ outbox = <<c>> \/ \E w \in Closure : w.kind = "warn" /\ outbox = <<w, c>>
  BY DEF OutboxShape
<1>3. CASE outbox = <<c>>
  <2>1. ChangeReports(outbox) = ReportOf(c) /\ c \in Members(outbox)
    BY <1>3 DEF ChangeReports, ReportOf, Members
  <2>2. outbox' = <<>> /\ deferred' = Append(deferred, c)
    BY <1>1, <1>3, PairTails
  <2> QED BY <1>2, <2>1, <2>2 DEF Post
<1>4. ASSUME NEW w \in Closure, w.kind = "warn", outbox = <<w, c>>
      PROVE  /\ ChangeReports(outbox) = ReportOf(c) /\ c \in Members(outbox)
             /\ outbox' = <<c>> /\ deferred' = Append(deferred, w)
  <2>1. ChangeReports(outbox) = ReportOf(c)
    BY <1>4, ReportsOfPair
  <2>2. c \in Members(outbox)
    <3>1. Members(<<w, c>>) = {w, c}
      BY MembersReport
    <3> QED BY <1>4, <3>1
  <2>3. outbox' = <<c>> /\ deferred' = Append(deferred, w)
    BY <1>1, <1>4, PairTails
  <2> QED BY <2>1, <2>2, <2>3
<1>5. workerPc = "post" /\ UNCHANGED <<shared, mainOwned, workerPc>>
  BY DEF Post
<1> QED BY <1>2, <1>3, <1>4, <1>5

OnceHeard ==
  /\ paletteOwed => announced \notin InTransit \cup {heard}
  /\ heard # 0 => heard \notin InTransit
  /\ ChangeReports(outbox) \cap ChangeReports(deferred) = {}
  /\ Distinct(deferred)
  /\ OutboxShape

\* What is announced, and owed from now on, is in no report yet.
LEMMA FreshReport ==
    ASSUME TypeOK, Told, OnceHeard, NEW changed \in BOOLEAN, Announce(changed), paletteOwed \/ changed
    PROVE  announced' \notin InTransit \cup {heard} /\ announced' \in 0..MaxChanges
<1>1. InTransit \subseteq Nat /\ heard \in Nat /\ announced \in Nat
  BY InTransitType
<1>2. heard <= announced /\ \A n \in InTransit : n <= announced
  BY DEF Told
<1>3. changed => announced' = announced + 1
  BY DEF Announce
<1>4. ~changed => announced' = announced /\ paletteOwed
  BY DEF Announce
<1>5. announced' \in 0..MaxChanges
  BY ServiceAssumption DEF Announce, TypeOK
<1>6. CASE changed
  BY <1>1, <1>2, <1>3, <1>5, <1>6
<1>7. CASE ~changed
  BY <1>4, <1>5, <1>7 DEF OnceHeard
<1> QED BY <1>6, <1>7

LEMMA NextOnceHeard == IInv /\ Told /\ OnceHeard /\ [Next]_vars => OnceHeard'
<1> SUFFICES ASSUME IInv, Told, OnceHeard, RequestStep PROVE OnceHeard'
  BY NextRequest DEF IInv
<1> USE DEF IInv, TypeInv, OnceHeard
<1>0. outbox \in Seq(Closure) /\ deferred \in Seq(Closure)
  BY DEF TypeOK
<1>1. ASSUME UNCHANGED <<paletteOwed, history, outbox, deferred>> PROVE OnceHeard'
  <2>1. UNCHANGED <<paletteOwed, heard, announced, InTransit, outbox, deferred>>
    BY <1>1 DEF InTransit, history
  <2> QED BY <2>1 DEF OutboxShape
<1>2. CASE Quiet
  BY <1>1, <1>2 DEF Quiet
<1>3. ASSUME NEW changed \in BOOLEAN, Announce(changed), Owe(changed), UNCHANGED <<outbox, deferred>>
      PROVE  OnceHeard'
  <2>1. UNCHANGED <<heard, InTransit, outbox, deferred>>
    BY <1>3 DEF InTransit, Announce
  <2>2. paletteOwed' => announced' \notin InTransit \cup {heard}
    BY <1>3, FreshReport DEF Owe
  <2> QED BY <2>1, <2>2 DEF OutboxShape
<1>4. ASSUME NEW in \in Inputs, NEW changed \in BOOLEAN, Queue(in, changed) PROVE OnceHeard'
  BY <1>3, <1>4 DEF Queue, worker
<1>5. ASSUME NEW changed \in BOOLEAN, lastApplied \in Inputs, Deduplicate(lastApplied, changed)
      PROVE  OnceHeard'
  <2> DEFINE d == After(lastApplied.look, TRUE)
  <2>1. CASE (paletteOwed \/ changed) /\ ~HasCarrier
    <3>1. announced' \notin InTransit \cup {heard} /\ announced' \in 0..MaxChanges
      BY <1>5, <2>1, FreshReport DEF Deduplicate
    <3>2. d \in Closure /\ ReportOf(d) = {announced'}
      BY <1>5, <3>1, ClosureType DEF After, ReportOf, Inputs
    <3>3. /\ paletteOwed' = FALSE /\ deferred' = Append(deferred, d)
          /\ UNCHANGED <<outbox, heard>>
      BY <1>5, <2>1 DEF Deduplicate, worker, Announce
    <3> HIDE DEF d
    <3>4. ChangeReports(deferred') = ChangeReports(deferred) \cup {announced'}
      BY <1>0, <3>2, <3>3, ReportsAppend
    <3>5. InTransit' = InTransit \cup {announced'}
      BY <3>3, <3>4 DEF InTransit
    <3>6. ReportOf(d) \cap ChangeReports(deferred) = {}
      BY <3>1, <3>2 DEF InTransit
    <3>7. Distinct(deferred')
      BY <1>0, <3>2, <3>3, <3>6, DistinctAppend
    <3>8. ChangeReports(outbox') \cap ChangeReports(deferred') = {}
      BY <3>1, <3>3, <3>4 DEF InTransit
    <3> QED BY <3>1, <3>3, <3>5, <3>7, <3>8 DEF OutboxShape
  <2>2. CASE ~((paletteOwed \/ changed) /\ ~HasCarrier)
    BY <1>3, <1>5, <2>2 DEF Deduplicate, worker
  <2> QED BY <2>1, <2>2
<1>6. CASE RunDeferred
  <2> DEFINE h == Head(deferred)
  <2>1. deferred # <<>> /\ deferred' = Tail(deferred) /\ UNCHANGED <<paletteOwed, announced, outbox>>
    BY <1>6 DEF RunDeferred, RunForget, RunWarning, RunAfterApply, shared, worker, history
  <2>2. /\ ChangeReports(deferred) = ReportOf(h) \cup ChangeReports(deferred')
        /\ Distinct(deferred') /\ ReportOf(h) \cap ChangeReports(deferred') = {}
    BY <1>0, <2>1, ReportsTail, DistinctTail
  <2>3. heard' = heard \/ heard' \in ReportOf(h)
    BY <1>6 DEF RunDeferred, RunForget, RunWarning, RunAfterApply, history, ReportOf
  <2> HIDE DEF h
  <2>4. InTransit' \subseteq InTransit /\ (heard' \in ReportOf(h) => heard' \in InTransit)
    BY <2>1, <2>2 DEF InTransit
  <2>5. paletteOwed => announced \notin InTransit' \cup {heard'}
    BY <2>3, <2>4
  <2>6. heard' # 0 => heard' \notin InTransit'
    BY <2>1, <2>2, <2>3, <2>4 DEF InTransit
  <2> QED BY <2>1, <2>2, <2>5, <2>6 DEF OutboxShape
<1>7. CASE BeginShutdown
  BY <1>1, <1>7 DEF BeginShutdown, worker
<1>8. CASE NewProcess
  <2>1. InTransit' = {} /\ ChangeReports(outbox') = {}
    BY <1>8, ReportsEmpty DEF NewProcess, InTransit
  <2> QED BY <1>8, <2>1 DEF NewProcess, Distinct, OutboxShape
<1>9. CASE Take \/ LeaveBarrier
  BY <1>1, <1>9 DEF Take, LeaveBarrier, WaitIdleReturns, shared, mainOwned
<1>10. CASE FinishUndo
  <2>1. UNCHANGED <<paletteOwed, heard, announced, outbox>>
    BY <1>10 DEF FinishUndo, shared, mainOwned, history
  <2>2. Forget(resolved) \in Closure /\ ReportOf(Forget(resolved)) = {}
    BY ClosureType DEF Forget, ReportOf, TypeOK
  <2>3. deferred' = deferred \/ deferred' = Append(deferred, Forget(resolved))
    BY <1>10 DEF FinishUndo
  <2>4. ChangeReports(deferred') = ChangeReports(deferred) /\ Distinct(deferred')
    BY <1>0, <2>2, <2>3, ReportsAppend, DistinctAppend
  <2>5. InTransit' = InTransit
    BY <2>1, <2>4 DEF InTransit
  <2> QED BY <2>1, <2>4, <2>5 DEF OutboxShape
<1>11. CASE Finish
  <2> DEFINE c == After(request.in.look, paletteOwed)
             w == Warn(pendingWarnings, request.gen)
  <2>1. outbox = <<>> /\ UNCHANGED <<deferred, heard, announced>>
    BY <1>11 DEF Finish, Told, mainOwned, history
  <2>2. CASE Superseded(request.gen)
    BY <1>1, <1>11, <2>1, <2>2 DEF Finish, mainOwned
  <2>3. CASE ~Superseded(request.gen)
    <3>1. /\ paletteOwed' = FALSE /\ c \in Closure /\ w \in Closure
          /\ outbox' = <<c>> \/ outbox' = <<w, c>>
      BY <1>11, <2>1, <2>3, FinishBuilds
    <3>2. /\ c.kind = "after" /\ w.kind = "warn"
          /\ ReportOf(c) = IF paletteOwed THEN {announced} ELSE {}
      BY <2>1 DEF After, Warn, ReportOf
    <3> HIDE DEF c, w
    <3>3. OutboxShape'
      BY <3>1, <3>2 DEF OutboxShape
    <3>4. ChangeReports(outbox') = ReportOf(c)
      <4>1. ChangeReports(<<c>>) = ReportOf(c) /\ ChangeReports(<<w, c>>) = ReportOf(c)
        BY <3>2, ReportsOfPair
      <4>2. ChangeReports(outbox') = ChangeReports(<<c>>) \/ ChangeReports(outbox') = ChangeReports(<<w, c>>)
        BY <3>1
      <4> QED BY <4>1, <4>2
    <3>5. InTransit = ChangeReports(deferred)
      BY <2>1, ReportsEmpty DEF InTransit
    <3>6. InTransit' = ReportOf(c) \cup InTransit
      BY <2>1, <3>4, <3>5 DEF InTransit
    <3>7. ReportOf(c) \cap (InTransit \cup {heard}) = {}
      BY <3>2
    <3>8. ChangeReports(outbox') \cap ChangeReports(deferred') = {}
      BY <2>1, <3>4, <3>5, <3>7
    <3> QED BY <2>1, <3>1, <3>3, <3>6, <3>7, <3>8
  <2> QED BY <2>2, <2>3
<1>12. CASE Post
  <2>1. CASE outbox = <<>>
    BY <1>1, <1>12, <2>1 DEF Post, shared, mainOwned
  <2>2. CASE outbox # <<>>
    <3>1. UNCHANGED <<paletteOwed, heard, announced>>
      BY <1>12 DEF Post, shared, mainOwned, history
    <3>2. PICK c \in Closure :
            /\ c.kind = "after" /\ ChangeReports(outbox) = ReportOf(c)
            /\ \/ outbox' = <<>> /\ deferred' = Append(deferred, c)
               \/ /\ outbox' = <<c>>
                  /\ \E w \in Closure : w.kind = "warn" /\ deferred' = Append(deferred, w)
      BY <1>12, <2>2, PostMoves
    <3>3. CASE outbox' = <<>> /\ deferred' = Append(deferred, c)
      <4>1. ChangeReports(deferred') = ChangeReports(deferred) \cup ChangeReports(outbox)
        BY <1>0, <3>2, <3>3, ReportsAppend
      <4>2. ChangeReports(outbox') = {} /\ OutboxShape'
        BY <3>3, ReportsEmpty DEF OutboxShape
      <4>3. Distinct(deferred')
        BY <1>0, <3>2, <3>3, DistinctAppend
      <4>4. InTransit' = InTransit
        BY <4>1, <4>2 DEF InTransit
      <4> QED BY <3>1, <4>2, <4>3, <4>4
    <3>4. ASSUME outbox' = <<c>>, NEW w \in Closure, w.kind = "warn", deferred' = Append(deferred, w)
          PROVE  OnceHeard'
      <4>1. ReportOf(w) = {}
        BY <3>4 DEF ReportOf
      <4>2. ChangeReports(deferred') = ChangeReports(deferred) /\ Distinct(deferred')
        BY <1>0, <3>4, <4>1, ReportsAppend, DistinctAppend
      <4>3. ChangeReports(<<c>>) = ReportOf(c)
        BY <3>4, ReportsOfPair
      <4>4. ChangeReports(outbox') = ChangeReports(outbox)
        BY <3>2, <3>4, <4>3
      <4>5. InTransit' = InTransit
        BY <4>2, <4>4 DEF InTransit
      <4>6. OutboxShape'
        BY <3>2, <3>4 DEF OutboxShape
      <4> QED BY <3>1, <4>2, <4>4, <4>5, <4>6
    <3> QED BY <3>2, <3>3, <3>4
  <2> QED BY <2>1, <2>2
<1>13. ASSUME NEW t \in Template, StartUndo(t) \/ StartRender(t) PROVE OnceHeard'
  BY <1>1, <1>13 DEF StartUndo, StartRender, WorkerMoves, shared, mainOwned
<1>14. ASSUME NEW b \in BOOLEAN, Write(b) \/ EndUndo(b) PROVE OnceHeard'
  BY <1>1, <1>14 DEF Write, EndUndo, shared
<1> QED BY <1>2, <1>4, <1>5, <1>6, <1>7, <1>8, <1>9, <1>10, <1>11, <1>12, <1>13, <1>14 DEF RequestStep

-----------------------------------------------------------------------------
(***************************************************************************)
(* ... and the mode of the last request last.                              *)
(***************************************************************************)

NoReport(s) == \A i \in DOMAIN s : s[i].kind # "after"

\* The last completion of a queue has this look.
LastLook(s, look) ==
  \E i \in DOMAIN s :
    /\ s[i].kind = "after" /\ s[i].look = look
    /\ \A j \in DOMAIN s : j > i => s[j].kind # "after"

\* A handler that was told `last' is left with `look' once a queue has run.
Ends(s, last, look) == (NoReport(s) /\ last = look) \/ LastLook(s, look)

LEMMA EndsAppend ==
    ASSUME NEW s \in Seq(Closure), NEW c \in Closure, NEW last, NEW look
    PROVE  /\ c.kind = "after" /\ c.look = look => Ends(Append(s, c), last, look)
           /\ c.kind # "after" /\ Ends(s, last, look) => Ends(Append(s, c), last, look)
<1> DEFINE t == Append(s, c)
           n == Len(s) + 1
<1>1. /\ DOMAIN s = 1..Len(s) /\ DOMAIN t = 1..n /\ Len(s) \in Nat
      /\ \A i \in 1..Len(s) : t[i] = s[i]
      /\ t[n] = c
  BY AppendProperties, LenProperties
<1>2. n \in DOMAIN t /\ \A j \in DOMAIN t : ~(j > n)
  BY <1>1
<1>3. \A i \in DOMAIN t : i = n \/ (i \in DOMAIN s /\ t[i] = s[i])
  BY <1>1
<1>4. \A i \in DOMAIN s : i \in DOMAIN t /\ t[i] = s[i]
  BY <1>1
<1> HIDE DEF t, n
<1>5. ASSUME c.kind = "after", c.look = look PROVE LastLook(t, look)
  BY <1>1, <1>2, <1>5 DEF LastLook
<1>6. ASSUME c.kind # "after", NoReport(s) PROVE NoReport(t)
  BY <1>1, <1>3, <1>6 DEF NoReport
<1>7. ASSUME c.kind # "after", LastLook(s, look) PROVE LastLook(t, look)
  <2>1. PICK i \in DOMAIN s : /\ s[i].kind = "after" /\ s[i].look = look
                              /\ \A j \in DOMAIN s : j > i => s[j].kind # "after"
    BY <1>7 DEF LastLook
  <2>2. i \in DOMAIN t /\ t[i] = s[i]
    BY <1>4
  <2>3. \A j \in DOMAIN t : j > i => t[j].kind # "after"
    BY <1>1, <1>3, <1>7, <2>1
  <2> QED BY <2>1, <2>2, <2>3 DEF LastLook
<1> QED BY <1>5, <1>6, <1>7 DEF Ends, t

LEMMA EndsTail ==
    ASSUME NEW s \in Seq(Closure), s # <<>>, NEW last, NEW look, Ends(s, last, look)
    PROVE  /\ Head(s).kind = "after" => Ends(Tail(s), Head(s).look, look)
           /\ Head(s).kind # "after" => Ends(Tail(s), last, look)
<1> DEFINE t == Tail(s)
<1>1. /\ DOMAIN s = 1..Len(s) /\ DOMAIN t = 1..(Len(s) - 1) /\ Len(s) \in Nat \ {0}
      /\ \A i \in 1..(Len(s) - 1) : t[i] = s[i + 1]
      /\ Head(s) = s[1]
  BY HeadTailProperties, LenProperties, EmptySeq
<1> HIDE DEF t
<1>2. \A i \in DOMAIN t : i \in Nat /\ i + 1 \in DOMAIN s /\ i + 1 > 1 /\ t[i] = s[i + 1]
  BY <1>1
<1>3. \A i \in DOMAIN s : i \in Nat /\ (i # 1 => i - 1 \in DOMAIN t /\ t[i - 1] = s[i])
  BY <1>1
<1>4. 1 \in DOMAIN s
  BY <1>1
<1>5. ASSUME NoReport(s) PROVE NoReport(t)
  BY <1>2, <1>5 DEF NoReport
<1>6. ASSUME LastLook(s, look) PROVE \/ LastLook(t, look)
                                     \/ s[1].kind = "after" /\ s[1].look = look /\ NoReport(t)
  <2>1. PICK i \in DOMAIN s : /\ s[i].kind = "after" /\ s[i].look = look
                              /\ \A j \in DOMAIN s : j > i => s[j].kind # "after"
    BY <1>6 DEF LastLook
  <2>2. CASE i = 1
    <3>1. NoReport(t)
      BY <1>2, <2>1, <2>2 DEF NoReport
    <3> QED BY <2>1, <2>2, <3>1
  <2>3. CASE i # 1
    <3>1. i - 1 \in DOMAIN t /\ t[i - 1] = s[i] /\ i \in Nat
      BY <1>3, <2>3
    <3>2. ASSUME NEW j \in DOMAIN t, j > i - 1 PROVE t[j].kind # "after"
      <4>1. j + 1 \in DOMAIN s /\ j + 1 > i /\ t[j] = s[j + 1]
        BY <1>2, <3>1, <3>2
      <4> QED BY <2>1, <4>1
    <3>3. LastLook(t, look)
      BY <2>1, <3>1, <3>2 DEF LastLook
    <3> QED BY <3>3
  <2> QED BY <2>2, <2>3
<1>7. NoReport(s) => s[1].kind # "after"
  BY <1>4 DEF NoReport
<1> QED BY <1>1, <1>5, <1>6, <1>7 DEF Ends, t

\* The newest inputs wait, or are at work, or are what the handler is left with once
\* everything posted has run.
LastHeard ==
  /\ ~shutdown /\ pending # None => pending.in = lastApplied
  /\ ~shutdown /\ pending = None /\ inFlight => request.in = lastApplied
  /\ ~shutdown /\ lastApplied # None /\ pending = None /\ ~inFlight =>
       /\ outbox = <<>> => Ends(deferred, told, lastApplied.look)
       /\ outbox # <<>> => \A c \in Members(outbox) : c.kind = "after" => c.look = lastApplied.look

LEMMA NextLastHeard == IInv /\ Told /\ OutboxShape /\ LastHeard /\ [Next]_vars => LastHeard'
<1> SUFFICES ASSUME IInv, Told, OutboxShape, LastHeard, RequestStep PROVE LastHeard'
  BY NextRequest DEF IInv
<1> USE DEF IInv, TypeInv, LastHeard
<1>0. outbox \in Seq(Closure) /\ deferred \in Seq(Closure)
  BY DEF TypeOK
<1>1. ASSUME UNCHANGED <<shutdown, pending, lastApplied, inFlight, told, outbox, deferred>>,
             request' = request \/ ~inFlight
      PROVE  LastHeard'
  BY <1>1
<1>2. CASE Quiet
  BY <1>1, <1>2 DEF Quiet, history
<1>3. ASSUME NEW in \in Inputs, NEW changed \in BOOLEAN, Queue(in, changed) PROVE LastHeard'
  <2>1. pending' # None /\ pending' = [in |-> in, undo |-> owed', gen |-> nextGeneration']
    BY <1>3, QueueNewer
  <2>2. lastApplied' = in
    BY <1>3 DEF Queue
  <2> QED BY <2>1, <2>2
<1>4. ASSUME NEW changed \in BOOLEAN, lastApplied \in Inputs, Deduplicate(lastApplied, changed)
      PROVE  LastHeard'
  <2> DEFINE d == After(lastApplied.look, TRUE)
  <2>1. UNCHANGED <<shutdown, pending, lastApplied, inFlight, told, outbox, request>>
    BY <1>4 DEF Deduplicate, Announce, worker
  <2>2. CASE (paletteOwed \/ changed) /\ ~HasCarrier
    <3>1. announced' \in 0..MaxChanges
      BY <1>4, ServiceAssumption DEF Deduplicate, Announce, TypeOK
    <3>2. d \in Closure /\ d.kind = "after" /\ d.look = lastApplied.look
      BY <1>4, <3>1, ClosureType DEF After, Inputs
    <3>3. deferred' = Append(deferred, d)
      BY <1>4, <2>2 DEF Deduplicate
    <3> HIDE DEF d
    <3>4. Ends(deferred', told, lastApplied.look)
      BY <1>0, <3>2, <3>3, EndsAppend
    <3> QED BY <2>1, <3>4
  <2>3. CASE ~((paletteOwed \/ changed) /\ ~HasCarrier)
    BY <1>1, <1>4, <2>1, <2>3 DEF Deduplicate
  <2> QED BY <2>2, <2>3
<1>5. CASE RunDeferred
  <2> DEFINE h == Head(deferred)
  <2>1. /\ deferred # <<>> /\ deferred' = Tail(deferred)
        /\ UNCHANGED <<shutdown, pending, lastApplied, inFlight, outbox, request>>
    BY <1>5 DEF RunDeferred, shared, worker
  <2>2. told' = IF h.kind = "after" THEN h.look ELSE told
    BY <1>5 DEF RunDeferred, RunForget, RunWarning, RunAfterApply, history
  <2>3. ASSUME Ends(deferred, told, lastApplied.look) PROVE Ends(deferred', told', lastApplied.look)
    <3>1. CASE h.kind = "after"
      BY <1>0, <2>1, <2>2, <2>3, <3>1, EndsTail
    <3>2. CASE h.kind # "after"
      BY <1>0, <2>1, <2>2, <2>3, <3>2, EndsTail
    <3> QED BY <3>1, <3>2
  <2> HIDE DEF h
  <2> QED BY <2>1, <2>3
<1>6. CASE BeginShutdown \/ NewProcess
  BY <1>6 DEF BeginShutdown, NewProcess
<1>7. CASE Take
  BY <1>7 DEF Take
<1>8. CASE LeaveBarrier
  BY <1>1, <1>8 DEF LeaveBarrier, WaitIdleReturns, shared, mainOwned, history
<1>9. CASE FinishUndo
  <2>1. inFlight /\ UNCHANGED <<shutdown, pending, lastApplied, inFlight, request>>
    BY <1>9 DEF FinishUndo, shared, Phases, Working, WorkerPc
  <2> QED BY <2>1
<1>10. CASE Finish
  <2> DEFINE c == After(request.in.look, paletteOwed)
             w == Warn(pendingWarnings, request.gen)
  <2>1. /\ outbox = <<>> /\ inFlight /\ inFlight' = FALSE /\ workerPc \in Working
        /\ UNCHANGED <<shutdown, pending, lastApplied, request>>
    BY <1>10 DEF Finish, Told, Phases, Working, WorkerPc
  <2>2. CASE Superseded(request.gen)
    <3>1. shutdown \/ pending # None
      BY <2>1, <2>2 DEF Superseded, Newest
    <3> QED BY <2>1, <3>1
  <2>3. CASE ~Superseded(request.gen)
    <3>1. outbox' = <<c>> \/ outbox' = <<w, c>>
      BY <1>10, <2>1, <2>3, FinishBuilds
    <3>2. c.look = request.in.look /\ w.kind = "warn"
      BY DEF After, Warn
    <3> HIDE DEF c, w
    <3>3. outbox' # <<>>
      BY <3>1
    <3>4. Members(outbox') \subseteq {c, w}
      <4>1. Members(<<c>>) = {c} /\ Members(<<w, c>>) = {w, c}
        BY MembersReport
      <4>2. Members(outbox') = Members(<<c>>) \/ Members(outbox') = Members(<<w, c>>)
        BY <3>1
      <4> QED BY <4>1, <4>2
    <3> QED BY <2>1, <3>2, <3>3, <3>4
  <2> QED BY <2>2, <2>3
<1>11. CASE Post
  <2>1. CASE outbox = <<>>
    <3>1. ~inFlight
      BY <1>11 DEF Post, Phases
    <3> QED BY <1>1, <1>11, <2>1, <3>1 DEF Post, shared, mainOwned, history
  <2>2. CASE outbox # <<>>
    <3>1. ~inFlight /\ UNCHANGED <<shutdown, pending, lastApplied, inFlight, told>>
      BY <1>11 DEF Post, Phases, shared, mainOwned, history
    <3>2. PICK c \in Closure :
            /\ c.kind = "after" /\ c \in Members(outbox)
            /\ \/ outbox' = <<>> /\ deferred' = Append(deferred, c)
               \/ /\ outbox' = <<c>>
                  /\ \E w \in Closure : w.kind = "warn" /\ deferred' = Append(deferred, w)
      BY <1>11, <2>2, PostMoves
    <3>3. CASE outbox' = <<>> /\ deferred' = Append(deferred, c)
      <4>1. c.look = lastApplied.look => Ends(deferred', told, lastApplied.look)
        BY <1>0, <3>2, <3>3, EndsAppend
      <4> QED BY <2>2, <3>1, <3>2, <3>3, <4>1
    <3>4. CASE outbox' = <<c>>
      <4>1. Members(<<c>>) = {c}
        BY MembersReport
      <4>2. outbox' # <<>> /\ Members(outbox') = {c}
        BY <3>4, <4>1
      <4> QED BY <2>2, <3>1, <3>2, <4>2
    <3> QED BY <3>2, <3>3, <3>4
  <2> QED BY <2>1, <2>2
<1>12. ASSUME NEW t \in Template, StartUndo(t) \/ StartRender(t) PROVE LastHeard'
  BY <1>1, <1>12 DEF StartUndo, StartRender, WorkerMoves, shared, mainOwned, history
<1>13. ASSUME NEW b \in BOOLEAN, Write(b) \/ EndUndo(b) PROVE LastHeard'
  BY <1>1, <1>13 DEF Write, EndUndo, shared, history
<1> QED BY <1>2, <1>3, <1>4, <1>5, <1>6, <1>7, <1>8, <1>9, <1>10, <1>11, <1>12, <1>13 DEF RequestStep

\* Two threads post reports, and the handler hears each palette change at most once
\* and the mode of the last request last, however requests are coalesced, superseded
\* and deduplicated.
THEOREM ReportsAreOrdered == Spec => []ReportsInOrder
<1>1. Init => OnceHeard
  BY ReportsEmpty DEF Init, OnceHeard, InTransit, Distinct, OutboxShape
<1>2. Init => LastHeard
  BY DEF Init, LastHeard
<1>3. Spec => []OnceHeard
  BY <1>1, NextOnceHeard, Invariance, ToldAlways, PTL DEF Spec
<1>4. OnceHeard => OutboxShape
  BY DEF OnceHeard
<1>5. Spec => []LastHeard
  BY <1>2, <1>3, <1>4, NextLastHeard, Invariance, ToldAlways, PTL DEF Spec
<1>6. OnceHeard /\ LastHeard => ReportsInOrder
  <2> SUFFICES ASSUME OnceHeard, LastHeard PROVE ReportsInOrder
    OBVIOUS
  <2>1. ~shutdown /\ Settled /\ lastApplied # None => told = lastApplied.look
    BY DEF LastHeard, Settled, Ends, LastLook
  <2> QED BY <2>1 DEF OnceHeard, Distinct, ReportsInOrder
<1> QED BY <1>3, <1>5, <1>6, PTL
=============================================================================
