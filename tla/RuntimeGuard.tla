---------------------------- MODULE RuntimeGuard ----------------------------
(***************************************************************************)
(* The process-wide wide-SIMD admission protocol of src/runtime_guard.c    *)
(* together with its users: kernel executions (adaptive_dispatch.c,        *)
(* simd_shim), guard-state writers (telemetry_state.cpp, runtime_flags.c,  *)
(* trampoline_guard.c) and the start/stop sequences of thermal_simd.c.     *)
(*                                                                         *)
(* Every load, store or read-modify-write of an atomic that another thread *)
(* can race with is a step of its own; a mutex acquisition is merged with  *)
(* the first access it protects.  The accesses are sequentially consistent *)
(* (the code orders the two that matter with seq_cst fences).              *)
(***************************************************************************)
EXTENDS Naturals, FiniteSets

CONSTANTS Executor,    \* threads that run registered kernels
          Controller,  \* threads that start and stop runtimes
          Telemetry,   \* threads that publish guard state and select widths
          NoThread,    \* no lock holder, no owner
          MaxDepth     \* bound on nested wide invocations of one thread

Thread == Executor \cup Controller \cup Telemetry

ASSUME ThreadAssumption == IsFiniteSet(Thread) /\ NoThread \notin Thread
ASSUME DepthAssumption == MaxDepth \in Nat \ {0}

VARIABLES guardLock,    \* holder of g_tsd_guard_update_lock
          drainLock,    \* holder of g_tsd_wide_drain_lock
          active,       \* g_tsd_active_wide_executions
          admission,    \* g_tsd_wide_admission_open
          stopping,     \* g_tsd_runtime_stopping
          owner,        \* g_tsd_runtime_owner_tid, NoThread for 0
          depth,        \* g_tsd_wide_execution_depth of every thread
          sandbox,      \* the sandbox verdict of runtime_flags.c
          guardActive,  \* a perf mode or fusion worker is published
          authority,    \* published perf and raw temperature are fresh and safe
          selected,     \* the width of g_tsd_selection_word
          life,         \* g_tsd_active_runtime and its stop_in_progress
          pc, op,       \* program counter and guard-write operation per thread
          reopen,       \* the local of tsd_runtime_safety_write_leave
          late          \* history: threads that counted themselves while closed

guardVars == <<admission, stopping, owner, sandbox, guardActive, authority>>
execVars == <<active, depth, late>>
lifeVars == <<selected, life>>
vars == <<guardLock, drainLock, active, admission, stopping, owner, depth, sandbox,
          guardActive, authority, selected, life, pc, op, reopen, late>>

EnterPc == {"e_owner", "e_admission", "e_stopping", "e_guard", "increment"}
RecheckPc == {"r_admission", "r_owner", "r_stopping", "r_guard"}
DrainPc == {"q_lock", "q_test", "q_block", "q_wait"}
WritePc == {"w_enter", "w_publish", "w_evaluate", "w_leave"}
Pc == {"idle", "kernel", "backout", "release", "broadcast", "s_select"}
        \cup EnterPc \cup RecheckPc \cup DrainPc \cup WritePc
StartOp == {"startPatch", "startSandbox", "startGate", "perfInit", "startRepatch", "liveGate",
            "startCleanup"}
StopOp == {"stopGate", "stopPatch", "perfCleanup", "finalGate"}
Op == {"none", "publish", "degrade", "patchWide", "patchSSE", "sandbox", "requestStop"}
        \cup StartOp \cup StopOp

Init ==
  /\ guardLock = NoThread /\ drainLock = NoThread
  /\ active = 0 /\ depth = [t \in Thread |-> 0] /\ late = {}
  /\ admission = FALSE /\ stopping = FALSE /\ owner = NoThread
  /\ sandbox = "pending" /\ guardActive = FALSE /\ authority = FALSE
  /\ selected = "SSE41" /\ life = "none"
  /\ pc = [t \in Thread |-> "idle"] /\ op = [t \in Thread |-> "none"]
  /\ reopen = FALSE

----------------------------------------------------------------------------
(* Authorization.                                                          *)

\* tsd_runtime_current_thread_is_owner
IsOwner(t) == owner \in {NoThread, t}

\* tsd_runtime_width_authorized for a wide width, after its stopping test
GuardStateAuthorizes == sandbox = "passed" /\ (guardActive => authority)

\* tsd_runtime_width_authorized for a wide width
WidthAuthorized == ~stopping /\ GuardStateAuthorizes

Goto(t, label) == pc' = [pc EXCEPT ![t] = label]

\* where a call made by t returns to: the enclosing wide kernel, if any
Caller(d) == IF d > 0 THEN "kernel" ELSE "idle"

Return(t) == Goto(t, Caller(depth[t]))

InUserCode(t) == pc[t] \in {"idle", "kernel"}

----------------------------------------------------------------------------
(* tsd_runtime_execution_enter and _leave.                                 *)

\* the dispatcher read a wide selection and asks to enter it
EnterBegin(t) ==
  /\ InUserCode(t) /\ selected = "WIDE" /\ depth[t] < MaxDepth
  /\ Goto(t, "e_owner")
  /\ UNCHANGED <<guardLock, drainLock, op, reopen, guardVars, execVars, lifeVars>>

\* one load of the check before the increment: the next load, or EAGAIN
Check(t, from, holds, to) ==
  /\ pc[t] = from
  /\ IF holds THEN Goto(t, to) ELSE Return(t)
  /\ UNCHANGED <<guardLock, drainLock, op, reopen, guardVars, execVars, lifeVars>>

FirstCheck(t) ==
  \/ Check(t, "e_owner", IsOwner(t), "e_admission")
  \/ Check(t, "e_admission", admission, "e_stopping")
  \/ Check(t, "e_stopping", ~stopping, "e_guard")
  \/ Check(t, "e_guard", GuardStateAuthorizes, "increment")

Increment(t) ==
  /\ pc[t] = "increment"
  /\ active' = active + 1
  /\ depth' = [depth EXCEPT ![t] = @ + 1]
  /\ late' = IF admission THEN late ELSE late \cup {t}
  /\ Goto(t, "r_admission")
  /\ UNCHANGED <<guardLock, drainLock, op, reopen, guardVars, lifeVars>>

\* one load of the check after the increment: the next load, or the release
Recheck(t, from, holds, to, otherwise) ==
  /\ pc[t] = from
  /\ Goto(t, IF holds THEN to ELSE otherwise)
  /\ UNCHANGED <<guardLock, drainLock, op, reopen, guardVars, execVars, lifeVars>>

\* Mutant of SecondCheck: the admission bit is not read again.
SecondCheckWithoutAdmission(t) ==
  \/ Recheck(t, "r_admission", TRUE, "r_owner", "backout")
  \/ Recheck(t, "r_owner", IsOwner(t), "r_stopping", "release")
  \/ Recheck(t, "r_stopping", ~stopping, "r_guard", "release")
  \/ Recheck(t, "r_guard", GuardStateAuthorizes, "kernel", "release")

SecondCheck(t) ==
  \/ Recheck(t, "r_admission", admission, "r_owner", "backout")
  \/ Recheck(t, "r_owner", IsOwner(t), "r_stopping", "release")
  \/ Recheck(t, "r_stopping", ~stopping, "r_guard", "release")
  \/ Recheck(t, "r_guard", GuardStateAuthorizes, "kernel", "release")

\* the kernel returns, or its cancellation cleanup handler runs
Leave(t) ==
  /\ pc[t] = "kernel"
  /\ Goto(t, "release")
  /\ UNCHANGED <<guardLock, drainLock, op, reopen, guardVars, execVars, lifeVars>>

\* Mutant of Release: the last invocation does not wake the waiting stop call.
ReleaseWithoutBroadcast(t) ==
  /\ pc[t] \in {"release", "backout"}
  /\ depth' = [depth EXCEPT ![t] = IF @ > 0 THEN @ - 1 ELSE @]
  /\ active' = IF active = 0 THEN 0 ELSE active - 1
  /\ late' = late \ {t}
  /\ Goto(t, Caller(depth'[t]))
  /\ UNCHANGED <<guardLock, drainLock, op, reopen, guardVars, lifeVars>>

\* wide_execution_release up to the broadcast
Release(t) ==
  /\ pc[t] \in {"release", "backout"}
  /\ depth' = [depth EXCEPT ![t] = IF @ > 0 THEN @ - 1 ELSE @]
  /\ active' = IF active = 0 THEN 0 ELSE active - 1
  /\ late' = late \ {t}
  /\ Goto(t, IF active = 1 THEN "broadcast" ELSE Caller(depth'[t]))
  /\ UNCHANGED <<guardLock, drainLock, op, reopen, guardVars, lifeVars>>

\* the broadcast under the drain lock: every waiter goes on to relock
Broadcast(t) ==
  /\ pc[t] = "broadcast" /\ drainLock = NoThread
  /\ pc' = [u \in Thread |-> IF u = t THEN Caller(depth[t])
                             ELSE IF pc[u] = "q_wait" THEN "q_lock" ELSE pc[u]]
  /\ UNCHANGED <<guardLock, drainLock, op, reopen, guardVars, execVars, lifeVars>>

----------------------------------------------------------------------------
(* tsd_runtime_wait_for_wide_quiescence, called by the stop sequence.      *)

DrainAcquire(t) ==
  /\ pc[t] = "q_lock" /\ drainLock = NoThread
  /\ drainLock' = t
  /\ Goto(t, "q_test")
  /\ UNCHANGED <<guardLock, op, reopen, guardVars, execVars, lifeVars>>

\* Mutant of DrainTest: one invocation in flight is taken for none.
DrainTestOffByOne(t) ==
  /\ pc[t] = "q_test"
  /\ IF active <= 1
       THEN drainLock' = NoThread /\ Goto(t, "s_select")
       ELSE drainLock' = drainLock /\ Goto(t, "q_block")
  /\ UNCHANGED <<guardLock, op, reopen, guardVars, execVars, lifeVars>>

DrainTest(t) ==
  /\ pc[t] = "q_test"
  /\ IF active = 0
       THEN drainLock' = NoThread /\ Goto(t, "s_select")
       ELSE drainLock' = drainLock /\ Goto(t, "q_block")
  /\ UNCHANGED <<guardLock, op, reopen, guardVars, execVars, lifeVars>>

\* pthread_cond_wait releases the drain lock and blocks in one step
DrainBlock(t) ==
  /\ pc[t] = "q_block"
  /\ drainLock' = NoThread
  /\ Goto(t, "q_wait")
  /\ UNCHANGED <<guardLock, op, reopen, guardVars, execVars, lifeVars>>

\* pthread_cond_wait may return without a broadcast
SpuriousWakeup(t) ==
  /\ pc[t] = "q_wait"
  /\ Goto(t, "q_lock")
  /\ UNCHANGED <<guardLock, drainLock, op, reopen, guardVars, execVars, lifeVars>>

----------------------------------------------------------------------------
(* Guard-state writers: safety_write_enter, a publication, write_leave.    *)

\* call the guard-write operation o
Call(t, o) == op' = [op EXCEPT ![t] = o] /\ Goto(t, "w_enter")

\* tsd_runtime_safety_write_enter
WriteEnter(t) ==
  /\ pc[t] = "w_enter" /\ guardLock = NoThread
  /\ guardLock' = t
  /\ admission' = FALSE
  /\ Goto(t, "w_publish")
  /\ UNCHANGED <<drainLock, op, reopen, stopping, owner, sandbox, guardActive,
                 authority, execVars, lifeVars>>

\* tsd_runtime_set_stopping_locked and tsd_runtime_set_owner_tid_locked
SetLifecycle(stop, own) ==
  /\ stopping' = stop /\ owner' = own
  /\ admission' = (admission /\ ~stop)
  /\ UNCHANGED <<sandbox, guardActive, authority, selected>>

\* TelemetryState::update_perf, update_fusion, update_temperature_channels
PublishTelemetry(live, ok) ==
  /\ guardActive' = live /\ authority' = ok
  /\ UNCHANGED <<admission, stopping, owner, sandbox, selected>>

\* tsd_runtime_flags_record_sandbox_success and _failure
RecordSandbox(verdict) ==
  /\ sandbox' = verdict
  /\ UNCHANGED <<admission, stopping, owner, guardActive, authority, selected>>

\* Mutant of Patch: the authorization of a wide width is not looked at.
PatchUnchecked(width) == selected' \in {width, selected} /\ UNCHANGED guardVars

\* tsd_trampoline_patch between its write_enter and write_leave; the selector
\* build may fail and then leaves the selection alone
Patch(width) ==
  /\ selected' \in (IF width = "SSE41" \/ WidthAuthorized THEN {width, selected}
                    ELSE {selected})
  /\ UNCHANGED guardVars

Publication(t) ==
  \/ op[t] \in {"patchSSE", "startPatch", "startRepatch", "stopPatch"} /\ Patch("SSE41")
  \/ op[t] = "patchWide" /\ Patch("WIDE")
  \/ op[t] = "publish" /\ \E ok \in BOOLEAN : PublishTelemetry(guardActive, ok)
  \/ op[t] = "degrade" /\ PublishTelemetry(guardActive, FALSE)
  \/ op[t] = "perfInit" /\ \E ok \in BOOLEAN : PublishTelemetry(TRUE, ok)
  \/ op[t] \in {"startCleanup", "perfCleanup"} /\ PublishTelemetry(FALSE, FALSE)
  \/ op[t] \in {"sandbox", "startSandbox"} /\ \E v \in {"passed", "failed"} : RecordSandbox(v)
  \/ op[t] = "startGate" /\ SetLifecycle(TRUE, NoThread)
  \/ op[t] \in {"requestStop", "stopGate"} /\ SetLifecycle(TRUE, owner)
  \/ op[t] = "liveGate" /\ SetLifecycle(FALSE, t)
  \/ op[t] = "finalGate" /\ SetLifecycle(FALSE, NoThread)

WritePublish(t) ==
  /\ pc[t] = "w_publish"
  /\ Publication(t)
  /\ Goto(t, "w_evaluate")
  /\ UNCHANGED <<guardLock, drainLock, op, reopen, execVars, life>>

\* the two reads of tsd_runtime_safety_write_leave
WriteEvaluate(t) ==
  /\ pc[t] = "w_evaluate"
  /\ reopen' = (~stopping /\ WidthAuthorized)
  /\ Goto(t, "w_leave")
  /\ UNCHANGED <<guardLock, drainLock, op, guardVars, execVars, lifeVars>>

\* return from the last guard write of a call, leaving the lifecycle in l
Finish(t, l) == life' = l /\ op' = [op EXCEPT ![t] = "none"] /\ Return(t)

\* the stop call goes on to wait for in-flight wide invocations
AwaitQuiescence(t) ==
  life' = life /\ op' = [op EXCEPT ![t] = "none"] /\ Goto(t, "q_lock")

\* go on to the next guard write of the same call
Chain(t, o) == life' = life /\ Call(t, o)

\* tsd_runtime_start_impl after one of its guard writes; allocation, perf_init
\* and pthread_create may fail, and then stopping stays set
StartContinue(t) ==
  \/ /\ op[t] = "startPatch"
     /\ IF selected = "WIDE" THEN Finish(t, "none")
        ELSE Chain(t, IF sandbox = "pending" THEN "startSandbox" ELSE "startGate")
  \/ op[t] = "startSandbox" /\ Chain(t, "startGate")
  \/ op[t] = "startGate" /\ (Chain(t, "perfInit") \/ Finish(t, "none"))
  \/ /\ op[t] = "perfInit"
     /\ \/ Chain(t, IF selected = "SSE41" THEN "liveGate" ELSE "startRepatch")
        \/ selected = "SSE41" /\ Chain(t, "startCleanup")
  \/ /\ op[t] = "startRepatch"
     /\ \/ Chain(t, IF selected = "SSE41" THEN "liveGate" ELSE "startCleanup")
        \/ selected = "SSE41" /\ Chain(t, "startCleanup")
  \/ op[t] = "startCleanup" /\ Finish(t, "none")
  \/ op[t] = "liveGate" /\ Finish(t, "live")

\* tsd_runtime_stop_impl after one of its guard writes; a failed join, patch or
\* final guard acquisition leaves a runtime that can be stopped again
StopContinue(t) ==
  \/ op[t] = "stopGate" /\ (AwaitQuiescence(t) \/ Finish(t, "live"))
  \/ /\ op[t] = "stopPatch"
     /\ IF selected = "SSE41" THEN Chain(t, "perfCleanup") ELSE Finish(t, "live")
  \/ op[t] = "perfCleanup" /\ (Chain(t, "finalGate") \/ Finish(t, "live"))
  \/ op[t] = "finalGate" /\ Finish(t, "none")

\* the other callers; perf_set_mode patches SSE4.1 after it has published
CallerContinue(t) ==
  \/ op[t] = "degrade" /\ selected = "WIDE" /\ Chain(t, "patchSSE")
  \/ op[t] = "degrade" /\ selected = "SSE41" /\ Finish(t, life)
  \/ /\ op[t] \in {"publish", "patchWide", "patchSSE", "sandbox", "requestStop"}
     /\ Finish(t, life)

\* the store and the unlock of tsd_runtime_safety_write_leave
WriteLeave(t) ==
  /\ pc[t] = "w_leave"
  /\ admission' = reopen /\ reopen' = FALSE
  /\ late' = IF reopen THEN {} ELSE late
  /\ guardLock' = NoThread
  /\ StartContinue(t) \/ StopContinue(t) \/ CallerContinue(t)
  /\ UNCHANGED <<drainLock, active, depth, selected, stopping, owner, sandbox,
                 guardActive, authority>>

----------------------------------------------------------------------------
(* The calls that start the sequences above.                               *)

CallUnchanged == UNCHANGED <<guardLock, drainLock, reopen, guardVars, execVars, selected>>

\* tsd_dispatcher_main and main.cpp record the sandbox before any runtime
RunSandbox(t) ==
  InUserCode(t) /\ sandbox = "pending" /\ Call(t, "sandbox") /\ UNCHANGED life /\ CallUnchanged

\* simd_shim repairs the selector after EAGAIN
ShimRepair(t) == InUserCode(t) /\ Call(t, "patchSSE") /\ UNCHANGED life /\ CallUnchanged

\* tsd_runtime_start_impl, which keeps the runtime lock to its end
StartRuntime(t) ==
  InUserCode(t) /\ life = "none" /\ life' = "starting" /\ Call(t, "startPatch") /\ CallUnchanged

\* tsd_runtime_request_stop_impl
RequestStop(t) ==
  InUserCode(t) /\ life = "live" /\ Call(t, "requestStop") /\ UNCHANGED life /\ CallUnchanged

\* tsd_runtime_stop_impl; a thread inside a wide kernel gets EDEADLK, and the
\* public lifecycle lock keeps a stop from overtaking a request in progress
StopRuntime(t) ==
  /\ InUserCode(t) /\ depth[t] = 0 /\ life = "live"
  /\ \A u \in Thread : op[u] # "requestStop"
  /\ life' = "stopping" /\ Call(t, "stopGate") /\ CallUnchanged

\* after the drain: patch SSE4.1 unless it is selected already
StopSelect(t) ==
  /\ pc[t] = "s_select"
  /\ Chain(t, IF selected = "SSE41" THEN "perfCleanup" ELSE "stopPatch")
  /\ CallUnchanged

\* the monitor and the fusion bridge publish what they sampled
PublishSample(t) ==
  InUserCode(t) /\ guardActive /\ Call(t, "publish") /\ UNCHANGED life /\ CallUnchanged

\* the monitor, or a caller of the public selector, selects a width
SelectWidth(t) ==
  /\ InUserCode(t)
  /\ \E o \in {"patchWide", "patchSSE"} : Call(t, o)
  /\ UNCHANGED life /\ CallUnchanged

\* perf_set_mode(SOFTWARE) closes admission before it takes the guard lock
PerfDegrade(t) ==
  /\ InUserCode(t) /\ guardActive
  /\ admission' = FALSE
  /\ Call(t, "degrade")
  /\ UNCHANGED <<guardLock, drainLock, reopen, stopping, owner, sandbox, guardActive,
                 authority, execVars, lifeVars>>

\* published perf or temperature grows older than its freshness window
Expire ==
  /\ guardActive /\ authority
  /\ authority' = FALSE
  /\ UNCHANGED <<guardLock, drainLock, pc, op, reopen, admission, stopping, owner, sandbox,
                 guardActive, execVars, lifeVars>>

----------------------------------------------------------------------------

Enter(t) == FirstCheck(t) \/ Increment(t) \/ SecondCheck(t)
Exit(t) == Release(t) \/ Broadcast(t)
Drain(t) == DrainAcquire(t) \/ DrainTest(t) \/ DrainBlock(t)
Write(t) == WritePublish(t) \/ WriteEvaluate(t) \/ WriteLeave(t)

ExecutorCall(t) == EnterBegin(t) \/ Leave(t) \/ ShimRepair(t)
ControllerCall(t) == RunSandbox(t) \/ StartRuntime(t) \/ RequestStop(t) \/ StopRuntime(t)
TelemetryCall(t) == PublishSample(t) \/ SelectWidth(t) \/ PerfDegrade(t)

\* the steps of a call in progress
Progress(t) == Enter(t) \/ Exit(t) \/ Drain(t) \/ WriteEnter(t) \/ Write(t) \/ StopSelect(t)

Next ==
  \/ \E t \in Executor : ExecutorCall(t)
  \/ \E t \in Controller : ControllerCall(t)
  \/ \E t \in Telemetry : TelemetryCall(t)
  \/ \E t \in Thread : Progress(t) \/ SpuriousWakeup(t)
  \/ Expire

Spec == Init /\ [][Next]_vars

(* Threads are scheduled, a contended mutex is granted in the end, and     *)
(* kernels return: nothing else is assumed of the application.             *)
Fairness ==
  /\ \A t \in Thread : SF_vars(Progress(t))
  /\ \A t \in Executor : SF_vars(Leave(t))

FairSpec == Spec /\ Fairness

----------------------------------------------------------------------------
(* Properties.                                                             *)

\* The values the guard's atomics, locks and thread-local depths may take.
TypeOK ==
  /\ guardLock \in Thread \cup {NoThread} /\ drainLock \in Thread \cup {NoThread}
  /\ active \in Nat /\ depth \in [Thread -> Nat] /\ late \in SUBSET Thread
  /\ admission \in BOOLEAN /\ stopping \in BOOLEAN /\ reopen \in BOOLEAN
  /\ owner \in Thread \cup {NoThread}
  /\ sandbox \in {"pending", "passed", "failed"}
  /\ guardActive \in BOOLEAN /\ authority \in BOOLEAN
  /\ selected \in {"SSE41", "WIDE"}
  /\ life \in {"none", "starting", "live", "stopping"}
  /\ pc \in [Thread -> Pc] /\ op \in [Thread -> Op]

\* how many wide invocations of t have passed the recheck of the admission bit
Admitted(t) == IF pc[t] \in {"r_admission", "backout"} THEN depth[t] - 1 ELSE depth[t]

\* t's stop call has seen the in-flight counter at zero and has not yet
\* published the end of the stopping state
PastDrain(t) ==
  \/ pc[t] = "s_select"
  \/ pc[t] \in WritePc /\ op[t] \in {"stopPatch", "perfCleanup"}
  \/ pc[t] \in {"w_enter", "w_publish"} /\ op[t] = "finalGate"

\* tsd_runtime_stop_impl: once the wait for quiescence has returned, no thread
\* is inside a wide kernel or on its way into one, until the stop call itself
\* publishes the end of the stopping state (thermal_simd.c:784-785).
DrainedStaysDrained ==
  (\E t \in Thread : PastDrain(t)) => \A u \in Thread : Admitted(u) = 0

\* runtime_guard_internal.h:18-20: an invocation that counted itself after a
\* revocation closed admission never gets into a kernel before a later writer
\* reopens admission.
NoEntryAfterClose ==
  ~admission => \A t \in late : pc[t] \in {"r_admission", "backout", "broadcast"}

\* The shared counter is exactly the number of thread-local frames, so the
\* underflow repair of wide_execution_release is never reached.
CounterMatchesFrames ==
  /\ active = Cardinality({f \in Thread \X (1..MaxDepth) : f[2] <= depth[f[1]]})
  /\ \A t \in Thread : pc[t] \in {"release", "backout"} => active > 0

\* Admission is closed whenever the runtime is starting, stopping or stopped
\* by request: no writer, whatever it publishes, reopens it.
StoppingClosesAdmission == stopping => ~admission

\* tsd_runtime_start_impl takes the runtime live, and tsd_runtime_stop_impl
\* resets the guard, only with SSE4.1 selected, although other threads may patch.
TransitionsOnSSE41 ==
  \A t \in Thread : pc[t] \in {"w_enter", "w_publish"} /\ op[t] \in {"liveGate", "finalGate"}
                      => selected = "SSE41"

\* A step that publishes a wide selection does so under the guard lock, for a
\* state that authorizes it, and with admission closed to racing entries.
WideSelectionAuthorized ==
  [][selected = "SSE41" /\ selected' = "WIDE"
       => guardLock # NoThread /\ WidthAuthorized /\ ~admission]_vars

\* The abstract gate: admitted invocations, the bit, and the stop call's phase.
Gate == INSTANCE WideGate WITH
          open <- admission,
          phase <- IF \E t \in Thread : PastDrain(t) THEN "drained"
                   ELSE IF stopping THEN "stopping" ELSE "running",
          inside <- [t \in Thread |-> Admitted(t)]

\* The protocol implements the abstract gate: the increment, the fence and the
\* recheck of the admission bit together act as one atomic admission.
ImplementsWideGate == Gate!Spec

\* runtime_guard_internal.h:54-56: while a live guard is active, only the owner
\* thread enters a wide kernel.
OnlyOwnerEnters ==
  [][\A t \in Executor : pc[t] = "r_guard" /\ pc'[t] = "kernel" /\ life = "live" /\ guardActive
                      => owner = t]_vars

\* A stop call ends.  Admission is closed, so the in-flight set can only shrink;
\* its last member wakes the waiter; no guard writer is waited for for ever.
StopReturns == life = "stopping" ~> life # "stopping"
=============================================================================
