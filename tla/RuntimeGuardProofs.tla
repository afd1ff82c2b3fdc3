------------------------- MODULE RuntimeGuardProofs -------------------------
(***************************************************************************)
(* Safety of the wide-SIMD admission protocol for any number of threads    *)
(* and any nesting bound, and its refinement of the abstract gate of       *)
(* WideGate, on which Dispatch builds.                                     *)
(***************************************************************************)
EXTENDS RuntimeGuard, FiniteSetTheorems, TLAPS

----------------------------------------------------------------------------
(* The inductive invariant.                                                *)

\* the guard lock is held exactly inside a guard write
LockInv ==
  /\ \A t \in Thread : guardLock = t <=> pc[t] \in {"w_publish", "w_evaluate", "w_leave"}
  /\ \A t \in Thread : op[t] # "none" <=> pc[t] \in WritePc

\* a decision to reopen belongs to the lock holder and was made while not stopping;
\* admission is closed throughout a guard write
ReopenInv ==
  /\ \A t \in Thread : pc[t] \in {"w_publish", "w_evaluate", "w_leave"} => ~admission
  /\ reopen => ~stopping /\ \E t \in Thread : pc[t] = "w_leave"
  /\ stopping => ~admission

\* a thread with a frame on its way in or out has that frame counted
DepthInv ==
  \A t \in Thread :
    /\ depth[t] <= MaxDepth
    /\ pc[t] \in EnterPc => depth[t] < MaxDepth
    /\ pc[t] \in RecheckPc \cup {"kernel", "release", "backout"} => depth[t] > 0

Frames == {f \in Thread \X (1..MaxDepth) : f[2] <= depth[f[1]]}

CountInv == active = Cardinality(Frames)

InStart(t) == op[t] \in StartOp
InStop(t) == op[t] \in StopOp \/ pc[t] \in DrainPc \cup {"s_select"}

\* the runtime lock and stop_in_progress admit one lifecycle call at a time
LifeInv ==
  /\ \A t \in Thread : InStart(t) => life = "starting"
  /\ \A t \in Thread : InStop(t) => life = "stopping"
  /\ \A t, u \in Thread : (InStart(t) \/ InStop(t)) /\ (InStart(u) \/ InStop(u)) => t = u

\* a lifecycle call between its first gate and its last one
Gated(t) ==
  \/ pc[t] \in DrainPc \cup {"s_select"}
  \/ op[t] \in {"perfInit", "startRepatch", "startCleanup", "stopPatch", "perfCleanup"}
  \/ op[t] \in {"startGate", "stopGate"} /\ pc[t] \in {"w_evaluate", "w_leave"}
  \/ op[t] \in {"liveGate", "finalGate"} /\ pc[t] \in {"w_enter", "w_publish"}

GateInv ==
  \A t \in Thread :
    /\ Gated(t) => stopping
    /\ op[t] = "perfCleanup" => selected = "SSE41"
    /\ op[t] \in {"liveGate", "finalGate"} /\ pc[t] \in {"w_enter", "w_publish"}
         => selected = "SSE41"

\* a thread counted while admission was closed has not passed its recheck
LateInv ==
  /\ admission => late = {}
  /\ \A t \in late : pc[t] \in {"r_admission", "backout"}

\* after the drain nobody is admitted
DrainInv == \A t, u \in Thread : PastDrain(t) => Admitted(u) = 0

IInv == /\ TypeOK /\ LockInv /\ ReopenInv /\ DepthInv /\ CountInv
        /\ LifeInv /\ GateInv /\ LateInv /\ DrainInv

----------------------------------------------------------------------------
(* What the two compound steps of a guard write do.                        *)

\* Executors, controllers and telemetry threads are threads.
LEMMA ThreadRoles ==
  Executor \subseteq Thread /\ Controller \subseteq Thread /\ Telemetry \subseteq Thread
BY Zenon DEF Thread

\* A publication never opens admission; only the lifecycle gates change the
\* stopping flag; a new wide selection needs a state that is not stopping.
LEMMA PublicationEffect ==
  ASSUME TypeOK, NEW t \in Thread, Publication(t)
  PROVE  /\ admission' \in BOOLEAN /\ (admission' => admission)
         /\ stopping' \in BOOLEAN /\ owner' \in Thread \cup {NoThread}
         /\ sandbox' \in {"pending", "passed", "failed"}
         /\ guardActive' \in BOOLEAN /\ authority' \in BOOLEAN
         /\ selected' \in {"SSE41", "WIDE"}
         /\ selected' = "WIDE" => selected = "WIDE" \/ ~stopping
         /\ op[t] \in {"startGate", "requestStop", "stopGate"} => stopping' /\ ~admission'
         /\ op[t] \notin {"startGate", "requestStop", "stopGate", "liveGate", "finalGate"}
              => stopping' = stopping
         /\ op[t] \in {"liveGate", "finalGate"} => ~stopping'
<1> USE DEF TypeOK
<1>1. CASE op[t] \in {"patchSSE", "startPatch", "startRepatch", "stopPatch"} /\ Patch("SSE41")
  BY <1>1 DEF Patch, guardVars
<1>2. CASE op[t] = "patchWide" /\ Patch("WIDE")
  BY <1>2, Zenon DEF Patch, guardVars, WidthAuthorized
<1>3. CASE /\ op[t] \in {"publish", "degrade", "perfInit", "startCleanup", "perfCleanup"}
           /\ \E live, ok \in BOOLEAN : PublishTelemetry(live, ok)
  BY <1>3 DEF PublishTelemetry
<1>4. CASE /\ op[t] \in {"sandbox", "startSandbox"}
           /\ \E v \in {"passed", "failed"} : RecordSandbox(v)
  BY <1>4 DEF RecordSandbox
<1>5. CASE op[t] = "startGate" /\ SetLifecycle(TRUE, NoThread)
  BY <1>5, Zenon DEF SetLifecycle
<1>6. CASE op[t] \in {"requestStop", "stopGate"} /\ SetLifecycle(TRUE, owner)
  BY <1>6, Zenon DEF SetLifecycle
<1>7. CASE op[t] = "liveGate" /\ SetLifecycle(FALSE, t)
  BY <1>7, Zenon DEF SetLifecycle
<1>8. CASE op[t] = "finalGate" /\ SetLifecycle(FALSE, NoThread)
  BY <1>8, Zenon DEF SetLifecycle
<1> QED
  BY <1>1, <1>2, <1>3, <1>4, <1>5, <1>6, <1>7, <1>8, Zenon DEF Publication

\* the guard writes that may follow the one t just finished, in the same call
Follows(t, o) ==
  \/ op[t] \in {"startPatch", "startSandbox"} /\ o \in {"startSandbox", "startGate"}
  \/ /\ op[t] \in {"startGate", "perfInit", "startRepatch"}
     /\ o \in {"perfInit", "startRepatch", "startCleanup"}
  \/ /\ op[t] \in {"perfInit", "startRepatch"}
     /\ o = "liveGate" /\ selected = "SSE41"
  \/ op[t] = "stopPatch" /\ o = "perfCleanup" /\ selected = "SSE41"
  \/ op[t] = "perfCleanup" /\ o = "finalGate"
  \/ op[t] = "degrade" /\ o = "patchSSE"

\* A guard write is followed by another one of the same call, by the drain, or
\* by the return; only lifecycle calls change the lifecycle state on return.
LEMMA ContinueCases ==
  ASSUME TypeOK, NEW t \in Thread,
         StartContinue(t) \/ StopContinue(t) \/ CallerContinue(t)
  PROVE  \/ \E o \in Op : Chain(t, o) /\ Follows(t, o)
         \/ \E l \in {"none", "starting", "live", "stopping"} :
              Finish(t, l) /\ (op[t] \notin StartOp \cup StopOp => l = life)
         \/ op[t] = "stopGate" /\ AwaitQuiescence(t)
<1> USE DEF TypeOK, Follows, Op, StartOp, StopOp
<1>1. CASE StartContinue(t)
  BY <1>1, Zenon DEF StartContinue
<1>2. CASE StopContinue(t)
  BY <1>2, Zenon DEF StopContinue
<1>3. CASE CallerContinue(t)
  BY <1>3, Zenon DEF CallerContinue
<1> QED
  BY <1>1, <1>2, <1>3, Zenon

\* the guard writes of calls other than start and stop
CallerOp == {"publish", "degrade", "patchWide", "patchSSE", "sandbox", "requestStop"}

\* Every label is a program counter value and every operation is one of Op.
LEMMA Labels ==
  /\ {"idle", "kernel", "backout", "release", "broadcast", "s_select"} \subseteq Pc
  /\ EnterPc \subseteq Pc /\ RecheckPc \subseteq Pc /\ DrainPc \subseteq Pc /\ WritePc \subseteq Pc
  /\ \A d : Caller(d) \in {"idle", "kernel"}
  /\ CallerOp \cup {"none"} \subseteq Op /\ StartOp \subseteq Op /\ StopOp \subseteq Op
BY Zenon DEF Pc, Caller, Op, CallerOp

----------------------------------------------------------------------------
(* The shapes of a step: what the invariants see of it, thread by thread.  *)

Waiting == DrainPc \cup {"s_select"}
Unchecked == {"r_admission", "backout"}

\* no guard write and no lifecycle change; a thread passes from the drain to the
\* selection only with the counter at zero
QuietStep ==
  /\ UNCHANGED <<guardLock, op, reopen, admission, stopping, owner, lifeVars>>
  /\ \A u \in Thread :
       \/ pc'[u] = pc[u]
       \/ /\ pc[u] \notin WritePc \cup {"s_select"} /\ pc'[u] \notin WritePc
          /\ pc'[u] \in Waiting <=> pc[u] \in DrainPc
          /\ pc'[u] = "s_select" => active = 0

\* the steps of an entry that concern its frame
FrameStep(t) == Increment(t) \/ SecondCheck(t) \/ Release(t)

\* the other steps of invocations and of the drain
CalmStep(t) ==
  \/ EnterBegin(t) \/ FirstCheck(t) \/ Leave(t) \/ Broadcast(t)
  \/ DrainAcquire(t) \/ DrainTest(t) \/ DrainBlock(t) \/ SpuriousWakeup(t)

\* all frames stay as they are and so do the entries not yet rechecked
FramesKept ==
  /\ UNCHANGED execVars
  /\ \A u \in Thread : pc'[u] = pc[u] \/ (pc[u] \notin Unchecked /\ pc'[u] \notin Unchecked)

OthersKept(t) == \A u \in Thread : u # t => pc'[u] = pc[u] /\ op'[u] = op[u]

\* t begins the guard write o, for a call of its own or as the end of its drain
BeginCall(t, o) ==
  /\ UNCHANGED <<guardLock, reopen, stopping, execVars, selected>> /\ (admission' => admission)
  /\ pc[t] \in {"idle", "kernel", "s_select"} /\ pc'[t] = "w_enter" /\ op'[t] = o
  /\ OthersKept(t)
  /\ \/ o \in CallerOp /\ life' = life /\ pc[t] # "s_select"
     \/ o = "startPatch" /\ life = "none" /\ life' = "starting" /\ pc[t] # "s_select"
     \/ o = "stopGate" /\ life = "live" /\ life' = "stopping" /\ pc[t] # "s_select"
     \/ /\ o \in {"perfCleanup", "stopPatch"} /\ life' = life /\ pc[t] = "s_select"
        /\ o = "perfCleanup" => selected = "SSE41"

\* t ends a guard write and goes on, within the same call or not
EndWrite(t) ==
  /\ pc[t] = "w_leave" /\ admission' = reopen /\ reopen' = FALSE /\ guardLock' = NoThread
  /\ late' = IF reopen THEN {} ELSE late
  /\ UNCHANGED <<active, depth, selected, stopping>>
  /\ OthersKept(t)
  /\ \/ pc'[t] = "w_enter" /\ Follows(t, op'[t]) /\ life' = life
     \/ /\ pc'[t] \in {"idle", "kernel"} /\ op'[t] = "none"
        /\ op[t] \notin StartOp \cup StopOp => life' = life
     \/ op[t] = "stopGate" /\ pc'[t] = "q_lock" /\ op'[t] = "none" /\ life' = life

----------------------------------------------------------------------------
\* Entries, kernels, releases and the drain leave the guard state alone.
LEMMA QuietSteps ==
  ASSUME TypeOK, NEW t \in Thread
  PROVE  /\ FrameStep(t) => QuietStep
         /\ CalmStep(t) => QuietStep /\ FramesKept
<1>0. pc \in [Thread -> Pc] /\ \A d : Caller(d) \in {"idle", "kernel"}
  BY Labels, Zenon DEF TypeOK
<1> USE <1>0 DEF QuietStep, FramesKept, Goto, guardVars, execVars, Waiting, Unchecked, DrainPc, WritePc
<1>1. ASSUME Increment(t) PROVE QuietStep
  BY <1>1, Zenon DEF Increment
<1>2. ASSUME SecondCheck(t) PROVE QuietStep
  BY <1>2 DEF SecondCheck, Recheck
<1>3. ASSUME Release(t) PROVE QuietStep
  BY <1>3, Zenon DEF Release
<1>4. ASSUME EnterBegin(t) PROVE QuietStep /\ FramesKept
  BY <1>4, Zenon DEF EnterBegin, InUserCode
<1>5. ASSUME FirstCheck(t) PROVE QuietStep /\ FramesKept
  BY <1>5 DEF FirstCheck, Check, Return
<1>6. ASSUME Leave(t) PROVE QuietStep /\ FramesKept
  BY <1>6, Zenon DEF Leave
<1>7. ASSUME Broadcast(t) PROVE QuietStep /\ FramesKept
  BY <1>7, Zenon DEF Broadcast
<1>8. ASSUME DrainAcquire(t) PROVE QuietStep /\ FramesKept
  BY <1>8, Zenon DEF DrainAcquire
<1>9. ASSUME DrainTest(t) PROVE QuietStep /\ FramesKept
  BY <1>9, Zenon DEF DrainTest
<1>10. ASSUME DrainBlock(t) PROVE QuietStep /\ FramesKept
  BY <1>10, Zenon DEF DrainBlock
<1>11. ASSUME SpuriousWakeup(t) PROVE QuietStep /\ FramesKept
  BY <1>11, Zenon DEF SpuriousWakeup
<1> QED
  BY <1>1, <1>2, <1>3, <1>4, <1>5, <1>6, <1>7, <1>8, <1>9, <1>10, <1>11, Zenon DEF FrameStep,
     CalmStep

\* The calls that write guard state begin with a guard write.
LEMMA CallSteps ==
  ASSUME TypeOK, NEW t \in Thread,
         \/ RunSandbox(t) \/ ShimRepair(t) \/ StartRuntime(t) \/ RequestStop(t) \/ StopRuntime(t)
         \/ StopSelect(t) \/ PublishSample(t) \/ SelectWidth(t) \/ PerfDegrade(t)
  PROVE  \E o \in Op : BeginCall(t, o)
<1>0. pc \in [Thread -> Pc] /\ op \in [Thread -> Op] /\ selected \in {"SSE41", "WIDE"}
  BY Zenon DEF TypeOK
<1>1. CallerOp \cup {"startPatch", "stopGate", "perfCleanup", "stopPatch"} \subseteq Op
  BY Labels, Zenon DEF StartOp, StopOp
<1> USE <1>0 DEF BeginCall, OthersKept, InUserCode, Goto, Call, CallUnchanged, guardVars, execVars,
                 lifeVars, CallerOp
<1>2. ASSUME RunSandbox(t) PROVE BeginCall(t, "sandbox")
  BY <1>2, Zenon DEF RunSandbox
<1>3. ASSUME ShimRepair(t) PROVE BeginCall(t, "patchSSE")
  BY <1>3, Zenon DEF ShimRepair
<1>4. ASSUME StartRuntime(t) PROVE BeginCall(t, "startPatch")
  BY <1>4, Zenon DEF StartRuntime
<1>5. ASSUME RequestStop(t) PROVE BeginCall(t, "requestStop")
  BY <1>5, Zenon DEF RequestStop
<1>6. ASSUME StopRuntime(t) PROVE BeginCall(t, "stopGate")
  BY <1>6, Zenon DEF StopRuntime
<1>7. ASSUME PublishSample(t) PROVE BeginCall(t, "publish")
  BY <1>7, Zenon DEF PublishSample
<1>8. ASSUME PerfDegrade(t) PROVE BeginCall(t, "degrade")
  BY <1>8, Zenon DEF PerfDegrade
<1>9. ASSUME StopSelect(t) PROVE BeginCall(t, IF selected = "SSE41" THEN "perfCleanup" ELSE "stopPatch")
  BY <1>9, Zenon DEF StopSelect, Chain
<1>10. ASSUME SelectWidth(t) PROVE BeginCall(t, "patchWide") \/ BeginCall(t, "patchSSE")
  BY <1>10, Zenon DEF SelectWidth
<1> HIDE DEF BeginCall
<1> QED
  BY <1>1, <1>2, <1>3, <1>4, <1>5, <1>6, <1>7, <1>8, <1>9, <1>10, SMTT(30)

\* The end of a guard write.
LEMMA EndSteps ==
  ASSUME TypeOK, NEW t \in Thread, WriteLeave(t)
  PROVE  EndWrite(t)
<1>0. pc \in [Thread -> Pc] /\ op \in [Thread -> Op] /\ \A d : Caller(d) \in {"idle", "kernel"}
  BY Labels, Zenon DEF TypeOK
<1> USE <1>0 DEF EndWrite, OthersKept, WriteLeave
<1>1. ASSUME NEW o \in Op, Chain(t, o), Follows(t, o) PROVE EndWrite(t)
  BY <1>1, Zenon DEF Chain, Call, Goto
<1>2. ASSUME NEW l, Finish(t, l), op[t] \notin StartOp \cup StopOp => l = life PROVE EndWrite(t)
  BY <1>2, Zenon DEF Finish, Return, Goto
<1>3. ASSUME op[t] = "stopGate", AwaitQuiescence(t) PROVE EndWrite(t)
  BY <1>3, Zenon DEF AwaitQuiescence, Goto
<1> HIDE DEF EndWrite
<1> QED
  BY <1>1, <1>2, <1>3, ContinueCases, Zenon

\* Every step has one of the shapes.
LEMMA Shapes ==
  ASSUME TypeOK, [Next]_vars
  PROVE  \/ QuietStep /\ FramesKept
         \/ \E t \in Thread : FrameStep(t) /\ QuietStep
         \/ \E t \in Thread, o \in Op : BeginCall(t, o)
         \/ \E t \in Thread : WriteEnter(t) \/ WritePublish(t) \/ WriteEvaluate(t) \/ EndWrite(t)
<1>1. CASE UNCHANGED vars
  BY <1>1, Zenon DEF vars, QuietStep, FramesKept, execVars, lifeVars
<1>2. CASE Expire
  BY <1>2, Zenon DEF Expire, QuietStep, FramesKept, execVars, lifeVars
<1>3. ASSUME NEW t \in Thread,
             ExecutorCall(t) \/ ControllerCall(t) \/ TelemetryCall(t) \/ Progress(t) \/ SpuriousWakeup(t)
      PROVE  \/ QuietStep /\ FramesKept
             \/ FrameStep(t) /\ QuietStep
             \/ \E o \in Op : BeginCall(t, o)
             \/ WriteEnter(t) \/ WritePublish(t) \/ WriteEvaluate(t) \/ EndWrite(t)
  BY <1>3, QuietSteps, CallSteps, EndSteps, Zenon DEF ExecutorCall, ControllerCall,
     TelemetryCall, Progress, Enter, Exit, Drain, Write, FrameStep, CalmStep
<1> QED
  BY <1>1, <1>2, <1>3, ThreadRoles, Zenon DEF Next
\* There are finitely many frames, so the counter can be compared with their number.
LEMMA FramesFinite == IsFiniteSet(Frames)
<1>1. IsFiniteSet(1..MaxDepth)
  BY FS_Interval, DepthAssumption
<1>2. IsFiniteSet(Thread \X (1..MaxDepth))
  BY <1>1, FS_Product, ThreadAssumption, Zenon
<1> QED
  BY <1>2, FS_Subset, Zenon DEF Frames

\* With the counter at zero no thread has a frame.
LEMMA NoFrames ==
  ASSUME TypeOK, DepthInv, CountInv, active = 0
  PROVE  \A u \in Thread : depth[u] = 0
<1>1. Frames = {}
  BY FramesFinite, FS_EmptySet, Zenon DEF CountInv
<1> SUFFICES ASSUME NEW u \in Thread, depth[u] # 0 PROVE FALSE
  BY Zenon
<1>2. 1 \in 1..MaxDepth /\ 1 <= depth[u]
  BY DepthAssumption DEF TypeOK
<1>3. <<u, 1>> \in Frames
  BY <1>2, Zenon DEF Frames
<1> QED
  BY <1>1, <1>3, Zenon

\* The guard lock stays with the thread that is inside a guard write.
LEMMA LockStep ==
  ASSUME IInv, [Next]_vars
  PROVE  LockInv'
<1>0. TypeOK /\ LockInv
  BY Zenon DEF IInv
<1>1. pc \in [Thread -> Pc] /\ op \in [Thread -> Op] /\ reopen \in BOOLEAN
  BY <1>0, Zenon DEF TypeOK
<1> USE <1>0, <1>1 DEF LockInv, WritePc, CallerOp
<1>2. ASSUME QuietStep PROVE LockInv'
  BY <1>2, Zenon DEF QuietStep, lifeVars, Waiting
<1>3. ASSUME NEW t \in Thread, NEW o \in Op, BeginCall(t, o) PROVE LockInv'
  BY <1>3, Zenon DEF BeginCall, OthersKept
<1>4. ASSUME NEW t \in Thread, WriteEnter(t) PROVE LockInv'
  BY <1>4, ThreadAssumption, Zenon DEF WriteEnter, Goto, lifeVars
<1>5. ASSUME NEW t \in Thread, WritePublish(t) PROVE LockInv'
  BY <1>5, Zenon DEF WritePublish, Goto
<1>6. ASSUME NEW t \in Thread, WriteEvaluate(t) PROVE LockInv'
  BY <1>6, Zenon DEF WriteEvaluate, Goto, guardVars, lifeVars
<1>7. ASSUME NEW t \in Thread, EndWrite(t) PROVE LockInv'
  BY <1>7, ThreadAssumption, Zenon DEF EndWrite, OthersKept, Follows
<1> HIDE DEF LockInv
<1> QED
  BY <1>2, <1>3, <1>4, <1>5, <1>6, <1>7, Shapes, Zenon

\* Only a writer that saw no stop in progress, and still holds the lock, reopens.
LEMMA ReopenStep ==
  ASSUME IInv, [Next]_vars
  PROVE  ReopenInv'
<1>0. TypeOK /\ LockInv /\ ReopenInv
  BY Zenon DEF IInv
<1>1. pc \in [Thread -> Pc] /\ op \in [Thread -> Op] /\ reopen \in BOOLEAN
  BY <1>0, Zenon DEF TypeOK
<1> USE <1>0, <1>1 DEF LockInv, ReopenInv, WritePc
<1>2. ASSUME QuietStep PROVE ReopenInv'
  BY <1>2, Zenon DEF QuietStep, lifeVars, Waiting
<1>3. ASSUME NEW t \in Thread, NEW o \in Op, BeginCall(t, o) PROVE ReopenInv'
  BY <1>3, Zenon DEF BeginCall, OthersKept
<1>4. ASSUME NEW t \in Thread, WriteEnter(t) PROVE ReopenInv'
  BY <1>4, ThreadAssumption, Zenon DEF WriteEnter, Goto, lifeVars
<1>5. ASSUME NEW t \in Thread, WritePublish(t) PROVE ReopenInv'
  BY <1>5, PublicationEffect, Zenon DEF WritePublish, Goto
<1>6. ASSUME NEW t \in Thread, WriteEvaluate(t) PROVE ReopenInv'
  BY <1>6, Zenon DEF WriteEvaluate, Goto, guardVars, lifeVars, WidthAuthorized
<1>7. ASSUME NEW t \in Thread, EndWrite(t) PROVE ReopenInv'
  BY <1>7, ThreadAssumption, Zenon DEF EndWrite, OthersKept, Follows
<1> HIDE DEF ReopenInv
<1> QED
  BY <1>2, <1>3, <1>4, <1>5, <1>6, <1>7, Shapes, Zenon

\* At most one lifecycle call is in progress, and the lifecycle state says so.
LEMMA LifeStep ==
  ASSUME IInv, [Next]_vars
  PROVE  LifeInv'
<1>0. TypeOK /\ LockInv /\ LifeInv
  BY Zenon DEF IInv
<1>1. pc \in [Thread -> Pc] /\ op \in [Thread -> Op] /\ reopen \in BOOLEAN
  BY <1>0, Zenon DEF TypeOK
<1> USE <1>0, <1>1 DEF LockInv, LifeInv, InStart, InStop, WritePc, DrainPc, StartOp, StopOp, CallerOp
<1>2. ASSUME QuietStep PROVE LifeInv'
  BY <1>2, Zenon DEF QuietStep, lifeVars, Waiting
<1>3. ASSUME NEW t \in Thread, NEW o \in Op, BeginCall(t, o) PROVE LifeInv'
  BY <1>3 DEF BeginCall, OthersKept
<1>4. ASSUME NEW t \in Thread, WriteEnter(t) PROVE LifeInv'
  BY <1>4 DEF WriteEnter, Goto, lifeVars
<1>5. ASSUME NEW t \in Thread, WritePublish(t) PROVE LifeInv'
  BY <1>5 DEF WritePublish, Goto
<1>6. ASSUME NEW t \in Thread, WriteEvaluate(t) PROVE LifeInv'
  BY <1>6 DEF WriteEvaluate, Goto, guardVars, lifeVars
<1>7. ASSUME NEW t \in Thread, EndWrite(t) PROVE LifeInv'
  BY <1>7 DEF EndWrite, OthersKept, Follows
<1> HIDE DEF LifeInv
<1> QED
  BY <1>2, <1>3, <1>4, <1>5, <1>6, <1>7, Shapes, Zenon

\* A lifecycle call between its gates keeps the stopping flag, and with it the
\* SSE4.1 selection it made or checked.
LEMMA GateStep ==
  ASSUME IInv, [Next]_vars
  PROVE  GateInv'
<1>0. TypeOK /\ LockInv /\ LifeInv /\ GateInv
  BY Zenon DEF IInv
<1>1. pc \in [Thread -> Pc] /\ op \in [Thread -> Op] /\ reopen \in BOOLEAN
  BY <1>0, Zenon DEF TypeOK
<1> USE <1>0, <1>1 DEF LockInv, LifeInv, GateInv, InStart, InStop, Gated, WritePc, DrainPc, StartOp, StopOp, CallerOp
<1>2. ASSUME QuietStep PROVE GateInv'
  BY <1>2, Zenon DEF QuietStep, lifeVars, Waiting
<1>3. ASSUME NEW t \in Thread, NEW o \in Op, BeginCall(t, o) PROVE GateInv'
  BY <1>3 DEF BeginCall, OthersKept
<1>4. ASSUME NEW t \in Thread, WriteEnter(t) PROVE GateInv'
  BY <1>4, Zenon DEF WriteEnter, Goto, lifeVars
<1>5. ASSUME NEW t \in Thread, WritePublish(t) PROVE GateInv'
  BY <1>5, PublicationEffect DEF WritePublish, Goto
<1>6. ASSUME NEW t \in Thread, WriteEvaluate(t) PROVE GateInv'
  BY <1>6, Zenon DEF WriteEvaluate, Goto, guardVars, lifeVars
<1>7. ASSUME NEW t \in Thread, EndWrite(t) PROVE GateInv'
  BY <1>7 DEF EndWrite, OthersKept, Follows
<1> HIDE DEF GateInv
<1> QED
  BY <1>2, <1>3, <1>4, <1>5, <1>6, <1>7, Shapes, Zenon
\* Every step preserves the type invariant.
LEMMA TypeStep ==
  ASSUME IInv, [Next]_vars
  PROVE  TypeOK'
<1>a. TypeOK
  BY Zenon DEF IInv
<1>b. /\ {"idle", "kernel", "backout", "release", "broadcast", "s_select"} \subseteq Pc
      /\ {"e_owner", "e_admission", "e_stopping", "e_guard", "increment"} \subseteq Pc
      /\ {"r_admission", "r_owner", "r_stopping", "r_guard"} \subseteq Pc
      /\ {"q_lock", "q_test", "q_block", "q_wait"} \subseteq Pc
      /\ {"w_enter", "w_publish", "w_evaluate", "w_leave"} \subseteq Pc
      /\ \A d : Caller(d) \in {"idle", "kernel"}
  BY Labels, Zenon DEF EnterPc, RecheckPc, DrainPc, WritePc
<1>c. /\ {"none", "publish", "degrade", "patchWide", "patchSSE", "sandbox"} \subseteq Op
      /\ {"requestStop", "startPatch", "stopGate", "stopPatch", "perfCleanup"} \subseteq Op
  BY Labels, Zenon DEF CallerOp, StartOp, StopOp
<1> USE <1>a, <1>b, <1>c DEF TypeOK, Goto, guardVars, execVars, lifeVars
<1>0. CASE UNCHANGED vars
  BY <1>0 DEF vars
<1>1. ASSUME NEW t \in Thread, EnterBegin(t) PROVE TypeOK'
  BY <1>1, SMTT(30) DEF EnterBegin
<1>2. ASSUME NEW t \in Thread, FirstCheck(t) PROVE TypeOK'
  BY <1>2 DEF FirstCheck, Check, Return
<1>3. ASSUME NEW t \in Thread, Increment(t) PROVE TypeOK'
  BY <1>3 DEF Increment
<1>4. ASSUME NEW t \in Thread, SecondCheck(t) PROVE TypeOK'
  BY <1>4 DEF SecondCheck, Recheck
<1>5. ASSUME NEW t \in Thread, Leave(t) PROVE TypeOK'
  BY <1>5 DEF Leave
<1>6. ASSUME NEW t \in Thread, Release(t) PROVE TypeOK'
  BY <1>6 DEF Release
<1>7. ASSUME NEW t \in Thread, Broadcast(t) PROVE TypeOK'
  BY <1>7 DEF Broadcast
<1>8. ASSUME NEW t \in Thread, DrainAcquire(t) PROVE TypeOK'
  BY <1>8 DEF DrainAcquire
<1>9. ASSUME NEW t \in Thread, DrainTest(t) PROVE TypeOK'
  BY <1>9 DEF DrainTest
<1>10. ASSUME NEW t \in Thread, DrainBlock(t) PROVE TypeOK'
  BY <1>10 DEF DrainBlock
<1>11. ASSUME NEW t \in Thread, SpuriousWakeup(t) PROVE TypeOK'
  BY <1>11 DEF SpuriousWakeup
<1>12. ASSUME NEW t \in Thread, WriteEnter(t) PROVE TypeOK'
  BY <1>12, ZenonT(60) DEF WriteEnter
<1>13. ASSUME NEW t \in Thread, WritePublish(t) PROVE TypeOK'
  BY <1>13, PublicationEffect, ZenonT(60) DEF WritePublish
<1>14. ASSUME NEW t \in Thread, WriteEvaluate(t) PROVE TypeOK'
  BY <1>14 DEF WriteEvaluate, WidthAuthorized, GuardStateAuthorizes
<1>15. ASSUME NEW t \in Thread, WriteLeave(t) PROVE TypeOK'
  <2>1. ASSUME NEW o \in Op, Chain(t, o) PROVE TypeOK'
    BY <1>15, <2>1, ZenonT(60) DEF WriteLeave, Chain, Call
  <2>2. ASSUME NEW l \in {"none", "starting", "live", "stopping"}, Finish(t, l) PROVE TypeOK'
    BY <1>15, <2>2, ZenonT(60) DEF WriteLeave, Finish, Return
  <2>3. CASE AwaitQuiescence(t)
    BY <1>15, <2>3, ZenonT(60) DEF WriteLeave, AwaitQuiescence
  <2>4. TypeOK /\ (StartContinue(t) \/ StopContinue(t) \/ CallerContinue(t))
    BY <1>15, Zenon DEF WriteLeave
  <2> HIDE DEF TypeOK
  <2> QED
    BY <2>1, <2>2, <2>3, <2>4, ContinueCases, Zenon
<1>16. ASSUME NEW t \in Thread, RunSandbox(t) PROVE TypeOK'
  BY <1>16 DEF RunSandbox, Call, CallUnchanged
<1>17. ASSUME NEW t \in Thread, ShimRepair(t) PROVE TypeOK'
  BY <1>17 DEF ShimRepair, Call, CallUnchanged
<1>18. ASSUME NEW t \in Thread, StartRuntime(t) PROVE TypeOK'
  BY <1>18 DEF StartRuntime, Call, CallUnchanged
<1>19. ASSUME NEW t \in Thread, RequestStop(t) PROVE TypeOK'
  BY <1>19 DEF RequestStop, Call, CallUnchanged
<1>20. ASSUME NEW t \in Thread, StopRuntime(t) PROVE TypeOK'
  BY <1>20, SMTT(30) DEF StopRuntime, Call, CallUnchanged
<1>21. ASSUME NEW t \in Thread, StopSelect(t) PROVE TypeOK'
  BY <1>21, SMTT(30) DEF StopSelect, Chain, Call, CallUnchanged
<1>22. ASSUME NEW t \in Thread, PublishSample(t) PROVE TypeOK'
  BY <1>22, SMTT(30) DEF PublishSample, Call, CallUnchanged
<1>23. ASSUME NEW t \in Thread, SelectWidth(t) PROVE TypeOK'
  BY <1>23 DEF SelectWidth, Call, CallUnchanged
<1>24. ASSUME NEW t \in Thread, PerfDegrade(t) PROVE TypeOK'
  BY <1>24, ZenonT(60) DEF PerfDegrade, Call
<1>25. CASE Expire
  BY <1>25, ZenonT(60) DEF Expire
<1> HIDE DEF TypeOK
<1> QED
  BY <1>0, <1>1, <1>2, <1>3, <1>4, <1>5, <1>6, <1>7, <1>8, <1>9, <1>10, <1>11, <1>12, <1>13,
     <1>14, <1>15, <1>16, <1>17, <1>18, <1>19, <1>20, <1>21, <1>22, <1>23, <1>24, <1>25,
     ThreadRoles, ZenonT(60) DEF Next, ExecutorCall, ControllerCall, TelemetryCall, Progress, Enter,
     Exit, Drain, Write

\* Frames on their way in or out stay counted in the thread-local depth.
LEMMA DepthStep ==
  ASSUME IInv, [Next]_vars
  PROVE  DepthInv'
<1>0. TypeOK /\ DepthInv
  BY Zenon DEF IInv
<1>1. pc \in [Thread -> Pc] /\ depth \in [Thread -> Nat] /\ MaxDepth \in Nat
  BY <1>0, DepthAssumption, Zenon DEF TypeOK
<1> USE <1>0, <1>1 DEF DepthInv, EnterPc, RecheckPc, Goto, Return, Caller, InUserCode, execVars
<1>2. ASSUME NEW t \in Thread, EnterBegin(t) PROVE DepthInv'
  BY <1>2, Zenon DEF EnterBegin
<1>3. ASSUME NEW t \in Thread, FirstCheck(t) PROVE DepthInv'
  BY <1>3, Zenon DEF FirstCheck, Check
<1>4. ASSUME NEW t \in Thread, Increment(t) PROVE DepthInv'
  BY <1>4 DEF Increment
<1>5. ASSUME NEW t \in Thread, SecondCheck(t) PROVE DepthInv'
  BY <1>5, Zenon DEF SecondCheck, Recheck
<1>6. ASSUME NEW t \in Thread, Leave(t) PROVE DepthInv'
  BY <1>6, Zenon DEF Leave
<1>7. ASSUME NEW t \in Thread, Release(t) PROVE DepthInv'
  BY <1>7 DEF Release
<1>8. ASSUME NEW t \in Thread, Broadcast(t) PROVE DepthInv'
  BY <1>8, Zenon DEF Broadcast
<1>9. ASSUME NEW t \in Thread, DrainAcquire(t) PROVE DepthInv'
  BY <1>9, Zenon DEF DrainAcquire
<1>10. ASSUME NEW t \in Thread, DrainTest(t) PROVE DepthInv'
  BY <1>10, Zenon DEF DrainTest
<1>11. ASSUME NEW t \in Thread, DrainBlock(t) PROVE DepthInv'
  BY <1>11, Zenon DEF DrainBlock
<1>12. ASSUME NEW t \in Thread, SpuriousWakeup(t) PROVE DepthInv'
  BY <1>12, Zenon DEF SpuriousWakeup
<1>13. ASSUME NEW t \in Thread, WriteEnter(t) PROVE DepthInv'
  BY <1>13, Zenon DEF WriteEnter
<1>14. ASSUME NEW t \in Thread, WritePublish(t) PROVE DepthInv'
  BY <1>14, Zenon DEF WritePublish
<1>15. ASSUME NEW t \in Thread, WriteEvaluate(t) PROVE DepthInv'
  BY <1>15, Zenon DEF WriteEvaluate
<1>16. ASSUME NEW t \in Thread, NEW o \in Op, BeginCall(t, o) PROVE DepthInv'
  BY <1>16, Zenon DEF BeginCall, OthersKept
<1>17. ASSUME NEW t \in Thread, WriteLeave(t) PROVE DepthInv'
  <2>1. OthersKept(t) /\ depth' = depth /\ pc'[t] \in {"w_enter", "q_lock", Caller(depth[t])}
    <3>1. TypeOK /\ WriteLeave(t)
      BY <1>17, Zenon
    <3>2. op \in [Thread -> Op]
      BY Zenon DEF TypeOK
    <3> QED
      BY <3>1, <3>2, ContinueCases
         DEF WriteLeave, OthersKept, Chain, Call, Finish, AwaitQuiescence
  <2> QED
    BY <2>1, Zenon DEF OthersKept
<1>18. CASE UNCHANGED <<pc, depth>>
  BY <1>18, Zenon
<1>19. (UNCHANGED vars \/ Expire) => UNCHANGED <<pc, depth>>
  BY Zenon DEF vars, Expire
<1> HIDE DEF DepthInv
<1>20. ASSUME NEW t \in Thread,
              ExecutorCall(t) \/ ControllerCall(t) \/ TelemetryCall(t) \/ Progress(t) \/ SpuriousWakeup(t)
       PROVE  DepthInv'
  BY <1>2, <1>3, <1>4, <1>5, <1>6, <1>7, <1>8, <1>9, <1>10, <1>11, <1>12, <1>13, <1>14, <1>15,
     <1>16, <1>17, <1>20, CallSteps, Zenon DEF ExecutorCall, ControllerCall, TelemetryCall,
     Progress, Enter, Exit, Drain, Write
<1> QED
  BY <1>18, <1>19, <1>20, ThreadRoles, Zenon DEF Next
\* A thread that counted itself while admission was closed does not get past the
\* recheck until admission is reopened.
LEMMA LateStep ==
  ASSUME IInv, [Next]_vars
  PROVE  LateInv'
<1>0. TypeOK /\ LateInv
  BY Zenon DEF IInv
<1>1. pc \in [Thread -> Pc] /\ late \subseteq Thread
  BY <1>0, Zenon DEF TypeOK
<1> USE <1>0, <1>1 DEF LateInv, execVars
<1>2. ASSUME QuietStep, FramesKept PROVE LateInv'
  BY <1>2, Zenon DEF QuietStep, FramesKept, Unchecked
<1>3. ASSUME NEW t \in Thread, Increment(t) PROVE LateInv'
  BY <1>3, Zenon DEF Increment, Goto, guardVars
<1>4. ASSUME NEW t \in Thread, SecondCheck(t) PROVE LateInv'
  BY <1>4 DEF SecondCheck, Recheck, Goto, guardVars
<1>5. ASSUME NEW t \in Thread, Release(t) PROVE LateInv'
  BY <1>5, Zenon DEF Release, Goto, guardVars
<1>6. ASSUME NEW t \in Thread, NEW o \in Op, BeginCall(t, o) PROVE LateInv'
  BY <1>6, Zenon DEF BeginCall, OthersKept
<1>7. ASSUME NEW t \in Thread, WriteEnter(t) PROVE LateInv'
  BY <1>7, Zenon DEF WriteEnter, Goto
<1>8. ASSUME NEW t \in Thread, WritePublish(t) PROVE LateInv'
  BY <1>8, PublicationEffect, Zenon DEF WritePublish, Goto
<1>9. ASSUME NEW t \in Thread, WriteEvaluate(t) PROVE LateInv'
  BY <1>9, Zenon DEF WriteEvaluate, Goto, guardVars
<1>10. ASSUME NEW t \in Thread, EndWrite(t) PROVE LateInv'
  BY <1>10, Zenon DEF EndWrite, OthersKept
<1> HIDE DEF LateInv
<1> QED
  BY <1>2, <1>3, <1>4, <1>5, <1>6, <1>7, <1>8, <1>9, <1>10, Shapes, Zenon DEF FrameStep

\* While admission is closed no step admits an invocation.
LEMMA AdmittedStep ==
  ASSUME IInv, [Next]_vars, ~admission, NEW u \in Thread
  PROVE  Admitted(u)' <= Admitted(u)
<1>0. TypeOK /\ DepthInv
  BY Zenon DEF IInv
<1>1. pc \in [Thread -> Pc] /\ depth \in [Thread -> Nat]
  BY <1>0, Zenon DEF TypeOK
<1> USE <1>0, <1>1 DEF Admitted, execVars
<1>2. ASSUME QuietStep, FramesKept PROVE Admitted(u)' <= Admitted(u)
  BY <1>2 DEF FramesKept, Unchecked
<1>3. ASSUME NEW t \in Thread, Increment(t) PROVE Admitted(u)' <= Admitted(u)
  BY <1>3 DEF Increment, Goto
<1>4. ASSUME NEW t \in Thread, SecondCheck(t) PROVE Admitted(u)' <= Admitted(u)
  BY <1>4 DEF SecondCheck, Recheck, Goto
<1>5. ASSUME NEW t \in Thread, Release(t) PROVE Admitted(u)' <= Admitted(u)
  BY <1>5 DEF Release, Goto, Caller, DepthInv
<1>6. ASSUME NEW t \in Thread, NEW o \in Op, BeginCall(t, o) PROVE Admitted(u)' <= Admitted(u)
  BY <1>6 DEF BeginCall, OthersKept
<1>7. ASSUME NEW t \in Thread, WriteEnter(t) PROVE Admitted(u)' <= Admitted(u)
  BY <1>7 DEF WriteEnter, Goto
<1>8. ASSUME NEW t \in Thread, WritePublish(t) PROVE Admitted(u)' <= Admitted(u)
  BY <1>8 DEF WritePublish, Goto
<1>9. ASSUME NEW t \in Thread, WriteEvaluate(t) PROVE Admitted(u)' <= Admitted(u)
  BY <1>9 DEF WriteEvaluate, Goto
<1>10. ASSUME NEW t \in Thread, EndWrite(t) PROVE Admitted(u)' <= Admitted(u)
  BY <1>10 DEF EndWrite, OthersKept
<1> HIDE DEF Admitted
<1> QED
  BY <1>2, <1>3, <1>4, <1>5, <1>6, <1>7, <1>8, <1>9, <1>10, Shapes, Zenon DEF FrameStep

\* The number of admitted invocations of a thread is never negative.
LEMMA AdmittedNat ==
  ASSUME IInv, [Next]_vars, NEW u \in Thread
  PROVE  Admitted(u)' \in Nat
<1>1. TypeOK' /\ DepthInv'
  BY TypeStep, DepthStep, Zenon
<1>2. depth'[u] \in Nat
  BY <1>1, Zenon DEF TypeOK
<1>3. pc'[u] \in {"r_admission", "backout"} => depth'[u] > 0
  BY <1>1, Zenon DEF DepthInv, RecheckPc
<1> QED
  BY <1>2, <1>3 DEF Admitted

\* A stop call comes past its drain only with the counter at zero.
LEMMA PastDrainStep ==
  ASSUME IInv, [Next]_vars, NEW u \in Thread, PastDrain(u)'
  PROVE  PastDrain(u) \/ (pc[u] \in DrainPc /\ active = 0)
<1>0. TypeOK /\ LockInv
  BY Zenon DEF IInv
<1>1. pc \in [Thread -> Pc] /\ op \in [Thread -> Op]
  BY <1>0, Zenon DEF TypeOK
<1> USE <1>0, <1>1 DEF PastDrain, LockInv, WritePc
<1>2. CASE QuietStep
  BY <1>2, Zenon DEF QuietStep, Waiting
<1>3. ASSUME NEW t \in Thread, NEW o \in Op, BeginCall(t, o) PROVE PastDrain(u)
  BY <1>3, Zenon DEF BeginCall, OthersKept, CallerOp
<1>4. ASSUME NEW t \in Thread, WriteEnter(t) PROVE PastDrain(u)
  BY <1>4, Zenon DEF WriteEnter, Goto
<1>5. ASSUME NEW t \in Thread, WritePublish(t) PROVE PastDrain(u)
  BY <1>5, Zenon DEF WritePublish, Goto
<1>6. ASSUME NEW t \in Thread, WriteEvaluate(t) PROVE PastDrain(u)
  BY <1>6, Zenon DEF WriteEvaluate, Goto
<1>7. ASSUME NEW t \in Thread, EndWrite(t) PROVE PastDrain(u)
  BY <1>7, Zenon DEF EndWrite, OthersKept, Follows
<1> HIDE DEF PastDrain
<1> QED
  BY <1>2, <1>3, <1>4, <1>5, <1>6, <1>7, Shapes, Zenon

\* After the drain nobody is admitted.
LEMMA DrainStep ==
  ASSUME IInv, [Next]_vars
  PROVE  DrainInv'
<1> SUFFICES ASSUME NEW t \in Thread, NEW u \in Thread, PastDrain(t)'
             PROVE  Admitted(u)' = 0
  BY Zenon DEF DrainInv
<1>0. TypeOK /\ ReopenInv /\ DepthInv /\ CountInv /\ GateInv /\ DrainInv
  BY Zenon DEF IInv
<1>1. CASE PastDrain(t)
  <2>1. Gated(t)
    BY <1>1, Zenon DEF PastDrain, Gated
  <2>2. Admitted(u) = 0
    BY <1>0, <1>1, Zenon DEF DrainInv
  <2> QED
    BY <1>0, <2>1, <2>2, AdmittedStep, AdmittedNat, SMTT(30) DEF GateInv, ReopenInv
<1>2. CASE pc[t] \in DrainPc /\ active = 0
  <2>1. Gated(t)
    BY <1>2, Zenon DEF Gated
  <2>2. depth[u] = 0
    BY <1>0, <1>2, NoFrames, Zenon
  <2>3. Admitted(u) = 0
    BY <1>0, <2>2 DEF Admitted, DepthInv, RecheckPc
  <2> QED
    BY <1>0, <2>1, <2>3, AdmittedStep, AdmittedNat DEF GateInv, ReopenInv
<1> QED
  BY <1>1, <1>2, PastDrainStep, Zenon

\* The counter stays equal to the number of frames: an entry adds one of each and
\* a release removes one of each.
LEMMA CountStep ==
  ASSUME IInv, [Next]_vars
  PROVE  CountInv'
<1> USE DEF IInv, CountInv
<1>1. ASSUME NEW t \in Thread, Increment(t) PROVE CountInv'
  <2> DEFINE f == <<t, depth[t] + 1>>
  <2>1. depth[t] + 1 \in 1..MaxDepth /\ depth'[t] = depth[t] + 1
    BY <1>1, DepthAssumption, SMTT(30) DEF Increment, TypeOK, DepthInv, EnterPc
  <2>2. Frames' = Frames \cup {f} /\ f \notin Frames
    BY <1>1, <2>1 DEF Increment, Frames, TypeOK
  <2>3. Cardinality(Frames') = Cardinality(Frames) + 1
    BY <2>2, FramesFinite, FS_AddElement, Zenon
  <2> QED
    BY <1>1, <2>3, Zenon DEF Increment
<1>2. ASSUME NEW t \in Thread, Release(t) PROVE CountInv'
  <2> DEFINE f == <<t, depth[t]>>
  <2>1. depth[t] \in 1..MaxDepth /\ depth'[t] = depth[t] - 1
    BY <1>2, DepthAssumption, SMTT(30) DEF Release, TypeOK, DepthInv
  <2>2. Frames' = Frames \ {f} /\ f \in Frames
    BY <1>2, <2>1 DEF Release, Frames, TypeOK
  <2>3. Cardinality(Frames') = Cardinality(Frames) - 1
    BY <2>2, FramesFinite, FS_RemoveElement, Zenon
  <2>4. active # 0
    BY <2>1, NoFrames
  <2> QED
    BY <1>2, <2>3, <2>4, Zenon DEF Release
<1>3. CASE UNCHANGED <<active, depth>>
  BY <1>3, Zenon DEF Frames
<1>4. \/ UNCHANGED <<active, depth>>
      \/ \E t \in Thread : Increment(t) \/ Release(t)
  BY Shapes, IInv, ZenonT(60)
     DEF FramesKept, FrameStep, SecondCheck, Recheck, BeginCall, WriteEnter, WritePublish,
         WriteEvaluate, EndWrite, execVars
<1> QED
  BY <1>1, <1>2, <1>3, <1>4, Zenon

----------------------------------------------------------------------------
(* The theorems.                                                           *)

\* The static initializers of runtime_guard.c satisfy the inductive invariant.
LEMMA InitIInv == Init => IInv
<1> SUFFICES ASSUME Init PROVE IInv
  BY Zenon
<1> USE DEF Init
<1>1. TypeOK
  BY Zenon DEF TypeOK, Pc, Op
<1>2. LockInv /\ ReopenInv /\ LateInv
  BY ThreadAssumption, Zenon DEF LockInv, ReopenInv, LateInv, WritePc
<1>3. DepthInv
  BY DepthAssumption DEF DepthInv, EnterPc, RecheckPc
<1>4. CountInv
  <2>1. Frames = {}
    BY DEF Frames
  <2> QED
    BY <2>1, FS_EmptySet, Zenon DEF CountInv
<1>5. LifeInv /\ GateInv /\ DrainInv
  BY Zenon DEF LifeInv, GateInv, DrainInv, InStart, InStop, Gated, PastDrain, DrainPc, WritePc,
     StartOp, StopOp
<1> QED
  BY <1>1, <1>2, <1>3, <1>4, <1>5, Zenon DEF IInv

\* Every step of every thread preserves the inductive invariant.
LEMMA StepIInv == IInv /\ [Next]_vars => IInv'
BY TypeStep, LockStep, ReopenStep, DepthStep, CountStep, LifeStep, GateStep, LateStep, DrainStep,
   Zenon DEF IInv

\* The inductive invariant holds in every reachable state of the protocol.
THEOREM Invariance == Spec => []IInv
BY InitIInv, StepIInv, PTL DEF Spec

\* The guard's atomics, locks and depths keep their types.
THEOREM TypeCorrect == Spec => []TypeOK
<1>1. IInv => TypeOK
  BY Zenon DEF IInv
<1> QED
  BY <1>1, Invariance, PTL

\* Once tsd_runtime_wait_for_wide_quiescence has returned to a stop call, no
\* thread is inside a wide kernel until that call ends the stopping state.
THEOREM DrainSafety == Spec => []DrainedStaysDrained
<1>1. IInv => DrainedStaysDrained
  BY Zenon DEF IInv, DrainInv, DrainedStaysDrained
<1> QED
  BY <1>1, Invariance, PTL

\* No invocation that counted itself after a close gets past the recheck of
\* tsd_runtime_execution_enter before a writer reopens admission.
THEOREM NoLateEntry == Spec => []NoEntryAfterClose
<1>1. IInv => NoEntryAfterClose
  BY Zenon DEF IInv, LateInv, NoEntryAfterClose
<1> QED
  BY <1>1, Invariance, PTL

\* The in-flight counter counts frames exactly and never underflows, so the
\* repair branch of wide_execution_release is dead code.
THEOREM CounterExact == Spec => []CounterMatchesFrames
<1>1. IInv => CounterMatchesFrames
  <2> SUFFICES ASSUME IInv PROVE CounterMatchesFrames
    BY Zenon
  <2>1. ASSUME NEW t \in Thread, pc[t] \in {"release", "backout"} PROVE active > 0
    <3>1. depth[t] # 0
      BY <2>1 DEF IInv, DepthInv
    <3> QED
      BY <3>1, NoFrames, SMTT(30) DEF IInv, TypeOK
  <2> QED
    BY <2>1, Zenon DEF IInv, CountInv, Frames, CounterMatchesFrames
<1> QED
  BY <1>1, Invariance, PTL

\* Whatever guard writers publish, admission is closed while the runtime is
\* starting, stopping, or asked to stop.
THEOREM StoppingClosed == Spec => []StoppingClosesAdmission
<1>1. IInv => StoppingClosesAdmission
  BY Zenon DEF IInv, ReopenInv, StoppingClosesAdmission
<1> QED
  BY <1>1, Invariance, PTL

\* A start goes live, and a stop resets the guard, with SSE4.1 selected.
THEOREM ConservativeTransitions == Spec => []TransitionsOnSSE41
<1>1. IInv => TransitionsOnSSE41
  BY Zenon DEF IInv, GateInv, TransitionsOnSSE41
<1> QED
  BY <1>1, Invariance, PTL

\* A wide width is only ever published by tsd_trampoline_patch under the guard
\* lock, with admission closed and the guard state authorizing it.
THEOREM AuthorizedSelection == Spec => WideSelectionAuthorized
<1> DEFINE A == selected = "SSE41" /\ selected' = "WIDE"
                  => guardLock # NoThread /\ WidthAuthorized /\ ~admission
<1>1. ASSUME IInv, [Next]_vars PROVE [A]_vars
  <2> SUFFICES ASSUME selected = "SSE41", selected' = "WIDE"
               PROVE  guardLock # NoThread /\ WidthAuthorized /\ ~admission
    BY ZenonT(60)
  <2>1. \E t \in Thread : WritePublish(t)
    BY <1>1, Shapes, ZenonT(60) DEF IInv, QuietStep, BeginCall, WriteEnter, WriteEvaluate, EndWrite, lifeVars
  <2>2. PICK t \in Thread : WritePublish(t)
    BY <2>1, ZenonT(60)
  <2>3. guardLock # NoThread /\ ~admission
    BY <1>1, <2>2, ThreadAssumption, Zenon DEF IInv, LockInv, ReopenInv, WritePublish
  <2>4. WidthAuthorized
    BY <2>2, ZenonT(60) DEF WritePublish, Publication, Patch, PublishTelemetry, RecordSandbox, SetLifecycle
  <2> QED
    BY <2>3, <2>4, ZenonT(60)
<1> QED
  BY <1>1, Invariance, PTL DEF Spec, WideSelectionAuthorized

----------------------------------------------------------------------------
(* The protocol implements the abstract gate: every step has one of the    *)
(* shapes above, and each shape is a step of WideGate or leaves the        *)
(* abstract state alone.                                                   *)

Past == \E t \in Thread : PastDrain(t)
Phase == IF Past THEN "drained" ELSE IF stopping THEN "stopping" ELSE "running"
Inside == [t \in Thread |-> Admitted(t)]

AbstractStep == [Gate!Next]_(Gate!vars)

----------------------------------------------------------------------------
(* The steps of the abstract gate, in the terms of the protocol.           *)

\* No abstract variable changes.
LEMMA MapStutter ==
  ASSUME admission' = admission, Phase' = Phase, Inside' = Inside
  PROVE  AbstractStep
BY Zenon DEF AbstractStep, Gate!vars, Phase, Past, Inside

\* The recheck of the admission bit lets an invocation in.
LEMMA MapAdmit ==
  ASSUME NEW t \in Thread, admission, admission' = admission, Phase' = Phase,
         Inside' = [Inside EXCEPT ![t] = @ + 1]
  PROVE  AbstractStep
BY Zenon DEF AbstractStep, Gate!Next, Gate!Admit, Phase, Past, Inside

\* A release ends an admitted invocation.
LEMMA MapRetire ==
  ASSUME NEW t \in Thread, Inside[t] > 0, admission' = admission, Phase' = Phase,
         Inside' = [Inside EXCEPT ![t] = @ - 1]
  PROVE  AbstractStep
BY Zenon DEF AbstractStep, Gate!Next, Gate!Retire, Phase, Past, Inside

\* A writer, or a perf downgrade, closes the gate.
LEMMA MapClose ==
  ASSUME admission' = FALSE, Phase' = Phase, Inside' = Inside
  PROVE  AbstractStep
BY Zenon DEF AbstractStep, Gate!Next, Gate!Close, Phase, Past, Inside

\* A writer leaves with authority and without a stop.
LEMMA MapReopen ==
  ASSUME Phase = "running", admission' = TRUE, Phase' = Phase, Inside' = Inside
  PROVE  AbstractStep
BY Zenon DEF AbstractStep, Gate!Next, Gate!Reopen, Phase, Past, Inside

\* The stopping flag is set, the drain ends, a stop gives up, the flag is cleared.
LEMMA MapPhase ==
  ASSUME admission' = admission, Inside' = Inside,
         \/ ~admission /\ Phase # "drained" /\ Phase' = "stopping"
         \/ Phase = "stopping" /\ Phase' = "drained" /\ \A t \in Thread : Inside[t] = 0
         \/ Phase = "drained" /\ Phase' = "stopping"
         \/ Phase # "running" /\ Phase' = "running"
  PROVE  AbstractStep
BY Zenon DEF AbstractStep, Gate!Next, Gate!BeginStop, Gate!Drain, Gate!AbandonStop, Gate!EndStop,
   Phase, Past, Inside

----------------------------------------------------------------------------
\* A stop call past its drain is the only lifecycle call, and it keeps the
\* stopping flag set.
LEMMA PastFacts ==
  ASSUME IInv
  PROVE  /\ \A t \in Thread : PastDrain(t) => stopping /\ InStop(t)
         /\ \A t, u \in Thread : PastDrain(t) /\ PastDrain(u) => t = u
<1>1. LifeInv /\ GateInv
  BY Zenon DEF IInv
<1>2. \A t \in Thread : PastDrain(t) => Gated(t) /\ InStop(t)
  BY Zenon DEF PastDrain, Gated, InStop, StopOp
<1> QED
  BY <1>1, <1>2 DEF LifeInv, GateInv

\* A step that keeps every frame, and every entry not yet rechecked, keeps the
\* admitted invocations.
LEMMA InsideKept ==
  ASSUME depth' = depth,
         \A u \in Thread : pc'[u] = pc[u] \/ (pc[u] \notin Unchecked /\ pc'[u] \notin Unchecked)
  PROVE  Inside' = Inside
BY Zenon DEF Inside, Admitted, Unchecked

----------------------------------------------------------------------------
(* The shapes of a step.                                                   *)

\* Entries that check, kernels and waiting stop calls stutter, but for the stop
\* call that finds the counter at zero: that is the drain.
LEMMA QuietMaps ==
  ASSUME IInv, [Next]_vars, QuietStep, FramesKept
  PROVE  AbstractStep
<1>1. admission' = admission /\ stopping' = stopping /\ op' = op
  BY Zenon DEF QuietStep
<1>2. Inside' = Inside
  BY InsideKept, Zenon DEF FramesKept, execVars
<1>3. \A u \in Thread : PastDrain(u)' => PastDrain(u) \/ (pc[u] \in DrainPc /\ active = 0)
  BY PastDrainStep, Zenon
<1>4. \A u \in Thread : PastDrain(u) => PastDrain(u)'
  BY <1>1, Zenon DEF QuietStep, PastDrain, WritePc
<1>5. CASE Past' = Past
  BY <1>1, <1>2, <1>5, MapStutter, Zenon DEF Phase
<1>6. CASE ~Past /\ Past'
  <2>1. PICK u \in Thread : pc[u] \in DrainPc /\ active = 0
    BY <1>3, <1>6, Zenon DEF Past
  <2>2. stopping
    BY <2>1, Zenon DEF IInv, GateInv, Gated
  <2>3. \A t \in Thread : depth[t] = 0
    BY <2>1, NoFrames, Zenon DEF IInv
  <2>4. \A t \in Thread : Inside[t] = 0
    BY <2>3 DEF Inside, Admitted, IInv, DepthInv, RecheckPc
  <2>5. Phase = "stopping" /\ Phase' = "drained"
    BY <1>6, <2>2, Zenon DEF Phase
  <2> QED
    BY <1>1, <1>2, <2>4, <2>5, MapPhase, Zenon
<1> QED
  BY <1>4, <1>5, <1>6, Zenon DEF Past

\* The frame of an entry: counted it is not yet admitted; it is admitted by the
\* recheck of an open bit; the release retires it unless it backs out.
LEMMA FrameMaps ==
  ASSUME IInv, NEW t \in Thread, FrameStep(t), QuietStep
  PROVE  AbstractStep
<1>0. /\ pc \in [Thread -> Pc] /\ depth \in [Thread -> Nat] /\ admission \in BOOLEAN
      /\ pc[t] \in RecheckPc \cup {"kernel", "release", "backout"} => depth[t] > 0
  BY Zenon DEF IInv, TypeOK, DepthInv
<1>1. admission' = admission /\ stopping' = stopping /\ op' = op
  BY Zenon DEF QuietStep
<1>2. \A u \in Thread : u # t => pc'[u] = pc[u] /\ depth'[u] = depth[u]
  BY <1>0, Zenon DEF FrameStep, Increment, SecondCheck, Recheck, Release, Goto, execVars
<1>3. \A d : Caller(d) \in {"idle", "kernel"}
  BY Labels, Zenon
<1>4. pc[t] \notin Waiting \cup WritePc /\ pc'[t] \notin Waiting \cup WritePc
  BY <1>0, <1>3, Zenon DEF FrameStep, Increment, SecondCheck, Recheck, Release, Goto, Waiting,
     DrainPc, WritePc
<1>5. \A u \in Thread : PastDrain(u)' <=> PastDrain(u)
  BY <1>1, <1>2, <1>4 DEF PastDrain, Waiting, WritePc
<1>6. Phase' = Phase
  BY <1>1, <1>5, Zenon DEF Phase, Past
<1>7. CASE Admitted(t)' = Admitted(t)
  <2>1. Inside' = Inside
    BY <1>2, <1>7 DEF Inside, Admitted
  <2> QED
    BY <1>1, <1>6, <2>1, MapStutter, Zenon
<1>8. CASE admission /\ Admitted(t)' = Admitted(t) + 1
  <2>1. Inside' = [Inside EXCEPT ![t] = @ + 1]
    BY <1>2, <1>8, Zenon DEF Inside, Admitted
  <2> QED
    BY <1>1, <1>6, <1>8, <2>1, MapAdmit, Zenon
<1>9. CASE Admitted(t) > 0 /\ Admitted(t)' = Admitted(t) - 1
  <2>1. Inside' = [Inside EXCEPT ![t] = @ - 1]
    BY <1>2, <1>9, Zenon DEF Inside, Admitted
  <2> QED
    BY <1>1, <1>6, <1>9, <2>1, MapRetire, Zenon DEF Inside
<1>10. CASE Increment(t)
  BY <1>0, <1>7, <1>10 DEF Increment, Goto, Admitted
<1>11. CASE SecondCheck(t)
  <2>1. \/ Admitted(t)' = Admitted(t)
        \/ admission /\ Admitted(t)' = Admitted(t) + 1
    BY <1>0, <1>11 DEF SecondCheck, Recheck, Goto, Admitted, execVars
  <2> QED
    BY <1>7, <1>8, <2>1, Zenon
<1>12. CASE Release(t)
  <2>1. \/ Admitted(t)' = Admitted(t)
        \/ Admitted(t) > 0 /\ Admitted(t)' = Admitted(t) - 1
    BY <1>0, <1>3, <1>12, Zenon DEF Release, Goto, Admitted
  <2> QED
    BY <1>7, <1>9, <2>1, Zenon
<1> QED
  BY <1>10, <1>11, <1>12, Zenon DEF FrameStep

\* A call that begins a guard write keeps the gate, or closes it.
LEMMA BeginMaps ==
  ASSUME IInv, [Next]_vars, NEW t \in Thread, NEW o \in Op, BeginCall(t, o)
  PROVE  AbstractStep
<1>1. admission \in BOOLEAN /\ stopping' = stopping /\ (admission' => admission) /\ depth' = depth
  BY Zenon DEF BeginCall, IInv, TypeOK, execVars
<1>2. Inside' = Inside
  BY <1>1, InsideKept DEF BeginCall, OthersKept, Unchecked
<1>3. \A u \in Thread : PastDrain(u)' <=> PastDrain(u)
  BY Zenon DEF BeginCall, OthersKept, PastDrain, CallerOp, WritePc
<1>4. Phase' = Phase
  BY <1>1, <1>3, Zenon DEF Phase, Past
<1>5. admission' = admission \/ admission' = FALSE
  <2>1. admission \in BOOLEAN /\ admission' \in BOOLEAN
    BY TypeStep, Zenon DEF IInv, TypeOK
  <2> QED
    BY <2>1, <1>1, Zenon
<1> QED
  BY <1>2, <1>4, <1>5, MapStutter, MapClose, Zenon

\* Entering a guard write closes the gate.
LEMMA EnterMaps ==
  ASSUME IInv, NEW t \in Thread, WriteEnter(t)
  PROVE  AbstractStep
<1>0. pc \in [Thread -> Pc]
  BY Zenon DEF IInv, TypeOK
<1>1. Inside' = Inside
  BY <1>0, InsideKept, Zenon DEF WriteEnter, Goto, Unchecked, execVars
<1>2. \A u \in Thread : PastDrain(u)' <=> PastDrain(u)
  BY <1>0, Zenon DEF WriteEnter, Goto, PastDrain, WritePc
<1>3. Phase' = Phase
  BY <1>2, Zenon DEF Phase, Past, WriteEnter
<1> QED
  BY <1>1, <1>3, MapClose, Zenon DEF WriteEnter

\* A publication keeps the gate closed.  The gates of a start and of a stop set
\* the stopping flag; going live and the end of a stop clear it.
LEMMA PublishMaps ==
  ASSUME IInv, [Next]_vars, NEW t \in Thread, WritePublish(t)
  PROVE  AbstractStep
<1>0. /\ pc \in [Thread -> Pc] /\ pc[t] = "w_publish" /\ op' = op /\ depth' = depth
      /\ stopping \in BOOLEAN
  BY Zenon DEF IInv, TypeOK, WritePublish, execVars
<1>1. Inside' = Inside
  BY <1>0, InsideKept, Zenon DEF WritePublish, Goto, Unchecked
<1>2. admission = FALSE /\ admission' = FALSE
  <2>1. admission \in BOOLEAN /\ admission' \in BOOLEAN /\ ~admission /\ (admission' => admission)
    BY <1>0, TypeStep, PublicationEffect DEF IInv, TypeOK, ReopenInv, WritePublish
  <2> QED
    BY <2>1, Zenon
<1>3. \A u \in Thread : PastDrain(u)' <=> PastDrain(u) /\ ~(u = t /\ op[t] = "finalGate")
  BY <1>0, Zenon DEF WritePublish, Goto, PastDrain, WritePc
<1>4. \A u \in Thread : PastDrain(u) => stopping /\ InStop(u)
  BY PastFacts, Zenon
<1>5. CASE op[t] \in {"startGate", "requestStop", "stopGate"}
  <2>1. stopping' = TRUE
    BY <1>5, PublicationEffect, Zenon DEF IInv, WritePublish
  <2>2. Past' = Past
    BY <1>3, <1>5, Zenon DEF Past
  <2>3. CASE Past
    BY <1>1, <1>2, <2>2, <2>3, MapStutter, Zenon DEF Phase
  <2>4. CASE ~Past
    BY <1>1, <1>2, <2>1, <2>2, <2>4, MapPhase, Zenon DEF Phase
  <2> QED
    BY <2>3, <2>4, Zenon
<1>6. CASE op[t] \in {"liveGate", "finalGate"}
  <2>1. ~stopping'
    BY <1>6, PublicationEffect, Zenon DEF IInv, WritePublish
  <2>2. stopping
    BY <1>0, <1>6, Zenon DEF IInv, GateInv, Gated
  <2>3. InStart(t) \/ InStop(t)
    BY <1>6, Zenon DEF InStart, InStop, StartOp, StopOp
  <2>4. \A u \in Thread : PastDrain(u) => u = t
    BY <1>4, <2>3, Zenon DEF IInv, LifeInv
  <2>5. PastDrain(t) => op[t] = "finalGate"
    BY <1>0, <1>6, Zenon DEF PastDrain
  <2>6. ~Past'
    BY <1>3, <2>4, <2>5, Zenon DEF Past
  <2> QED
    BY <1>1, <1>2, <2>1, <2>2, <2>6, MapPhase, Zenon DEF Phase
<1>7. CASE op[t] \notin {"startGate", "requestStop", "stopGate", "liveGate", "finalGate"}
  <2>1. stopping' = stopping
    BY <1>7, PublicationEffect, Zenon DEF IInv, WritePublish
  <2>2. Past' = Past
    BY <1>3, <1>7, Zenon DEF Past
  <2> QED
    BY <1>1, <1>2, <2>1, <2>2, MapStutter, Zenon DEF Phase
<1> QED
  BY <1>5, <1>6, <1>7, Zenon

\* Evaluating the guard state changes nothing a reader sees.
LEMMA EvaluateMaps ==
  ASSUME IInv, NEW t \in Thread, WriteEvaluate(t)
  PROVE  AbstractStep
<1>0. pc \in [Thread -> Pc]
  BY Zenon DEF IInv, TypeOK
<1>1. Inside' = Inside
  BY <1>0, InsideKept, Zenon DEF WriteEvaluate, Goto, Unchecked, execVars
<1>2. \A u \in Thread : PastDrain(u)' <=> PastDrain(u)
  BY <1>0, Zenon DEF WriteEvaluate, Goto, PastDrain, WritePc
<1>3. Phase' = Phase /\ admission' = admission
  BY <1>2, Zenon DEF Phase, Past, WriteEvaluate, guardVars
<1> QED
  BY <1>1, <1>3, MapStutter, Zenon

\* The end of a guard write reopens the gate, or leaves it closed; it is where a
\* stop call may give up.
LEMMA EndMaps ==
  ASSUME IInv, [Next]_vars, NEW t \in Thread, EndWrite(t)
  PROVE  AbstractStep
<1>0. /\ pc[t] = "w_leave" /\ depth' = depth /\ stopping' = stopping /\ admission' = reopen
      /\ pc'[t] \in {"w_enter", "idle", "kernel", "q_lock"}
      /\ \A u \in Thread : u # t => pc'[u] = pc[u] /\ op'[u] = op[u]
  BY Zenon DEF EndWrite, OthersKept
<1>1. Inside' = Inside
  BY <1>0, InsideKept, Zenon DEF Unchecked
<1>2. admission = FALSE /\ admission' \in BOOLEAN /\ (admission' => ~stopping)
  <2>1. admission \in BOOLEAN /\ ~admission /\ reopen \in BOOLEAN /\ (reopen => ~stopping)
    BY <1>0, Zenon DEF IInv, TypeOK, ReopenInv
  <2> QED
    BY <1>0, <2>1, Zenon
<1>3. \A u \in Thread : u # t => (PastDrain(u)' <=> PastDrain(u))
  BY <1>0, Zenon DEF PastDrain
<1>4. PastDrain(t)' => PastDrain(t)
  BY <1>0, Zenon DEF EndWrite, PastDrain, Follows, WritePc
<1>5. /\ \A u \in Thread : PastDrain(u) => stopping
      /\ PastDrain(t) => \A u \in Thread : PastDrain(u) => u = t
  BY PastFacts, Zenon
<1>6. CASE PastDrain(t) /\ ~PastDrain(t)'
  <2>1. Past /\ ~Past' /\ stopping
    BY <1>3, <1>5, <1>6, Zenon DEF Past
  <2>2. admission' = admission
    BY <1>2, <2>1, Zenon
  <2> QED
    BY <1>0, <1>1, <2>1, <2>2, MapPhase, Zenon DEF Phase
<1>7. CASE PastDrain(t) <=> PastDrain(t)'
  <2>1. Phase' = Phase
    BY <1>0, <1>3, <1>7 DEF Phase, Past
  <2>2. CASE admission' = TRUE
    BY <1>1, <1>2, <1>5, <2>1, <2>2, MapReopen, Zenon DEF Phase, Past
  <2>3. CASE admission' = FALSE
    BY <1>1, <2>1, <2>3, MapClose, Zenon
  <2> QED
    BY <1>2, <2>2, <2>3, Zenon
<1> QED
  BY <1>4, <1>6, <1>7, Zenon

----------------------------------------------------------------------------
\* The increment, the fence and the second look at the admission bit of
\* tsd_runtime_execution_enter, against the writers and the drain of a stop, act
\* as one atomic admission through a gate.
THEOREM Refinement == Spec => ImplementsWideGate
<1>1. Init => Gate!Init
  BY Zenon DEF Init, Gate!Init, PastDrain, Admitted, WritePc
<1>2. IInv /\ [Next]_vars => AbstractStep
  <2> SUFFICES ASSUME IInv, [Next]_vars PROVE AbstractStep
    BY Zenon
  <2>1. TypeOK
    BY Zenon DEF IInv
  <2> QED
    BY <2>1, Shapes, QuietMaps, FrameMaps, BeginMaps, EnterMaps, PublishMaps, EvaluateMaps,
       EndMaps, Zenon
<1> QED
  BY <1>1, <1>2, Invariance, PTL DEF Spec, ImplementsWideGate, Gate!Spec, AbstractStep
=============================================================================
