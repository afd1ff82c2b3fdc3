-------------------------- MODULE RuntimeLifecycle --------------------------
(***************************************************************************)
(* The public runtime handle of src/runtime_api.c over the private runtime *)
(* of src/thermal_simd.c: concurrent start, request_stop, stop, destroy and *)
(* diagnostics, failures at every point where the code can fail, and the   *)
(* monitor thread that outlives a failed stop.                             *)
(*                                                                         *)
(* A section under g_public_runtime_lock is one step: nothing in it waits. *)
(* The private lock is a variable because a start holds it while baseline  *)
(* measurement calls into the application.  Wide-kernel admission and the  *)
(* drain are RuntimeGuard's subject; here a drain just ends or fails.      *)
(***************************************************************************)
EXTENDS Naturals

CONSTANTS Thread,    \* application threads
          Handle,    \* addresses calloc may return for a public handle
          NoThread, NoHandle

ASSUME NoThreadAssumption == NoThread \notin Thread
ASSUME NoHandleAssumption == NoHandle \notin Handle

VARIABLES publicActive,   \* g_public_active_runtime
          starting,       \* g_public_runtime_starting
          handle,         \* the public objects, by address
          config,         \* g_tsd_runtime_config_snapshot_state
          configOf,       \* the start call whose configuration was activated
          privateLock,    \* holder of g_tsd_runtime_lock
          privateActive,  \* g_tsd_active_runtime
          impl,           \* the private objects, named by their public handle
          monitor,        \* the monitor thread of each private object
          stopping,       \* g_tsd_runtime_stopping
          running,        \* g_tsd_running
          stopRequested,  \* g_tsd_stop_requested
          pc, arg         \* each thread's call in progress and its handle

publicVars == <<publicActive, starting, handle>>
configVars == <<config, configOf>>
privateVars == <<privateActive, impl, monitor, stopping, running>>
signalVars == <<stopRequested>>
vars == <<publicActive, starting, handle, config, configOf, privateLock, privateActive, impl,
          monitor, stopping, running, stopRequested, pc, arg>>

\* An object is the set of its flags that are set: the boolean fields of the
\* structure, "allocated" between calloc and free, and "returned" once the
\* application has the handle.
HandleFlag == {"allocated", "returned", "impl", "stopped", "stopInProgress"}
ImplFlag == {"allocated", "perf", "monitorStarted", "stopInProgress"}
NewHandle == {"allocated"}
NewImpl == {"allocated", "perf"}

StartPc == {"activate", "lock", "baseline", "create", "publish", "deactivate", "abort"}
StopPc == {"gate", "join", "drain", "select", "final", "failed", "done"}

Init ==
  /\ publicActive = NoHandle /\ starting = FALSE
  /\ handle = [h \in Handle |-> {}]
  /\ config = "inactive" /\ configOf = NoHandle
  /\ privateLock = NoThread /\ privateActive = NoHandle
  /\ impl = [h \in Handle |-> {}] /\ monitor = [h \in Handle |-> "none"]
  /\ stopping = FALSE /\ running = TRUE /\ stopRequested = FALSE
  /\ pc = [t \in Thread |-> "idle"] /\ arg = [t \in Thread |-> NoHandle]

Goto(t, label) == pc' = [pc EXCEPT ![t] = label] /\ UNCHANGED arg
Return(t) == pc' = [pc EXCEPT ![t] = "idle"] /\ arg' = [arg EXCEPT ![t] = NoHandle]

\* a thread in application code, the baseline callback of a start included
InApplication(t) == pc[t] \in {"idle", "baseline"}

\* the handles the application may pass: returned by start, not yet destroyed
Usable(h) == "allocated" \in handle[h] /\ "returned" \in handle[h]

----------------------------------------------------------------------------
(* tsd_runtime_start_with_config and tsd_runtime_start_impl.               *)

\* the condition under which a start is refused with EBUSY
StartBusy == publicActive # NoHandle \/ starting \/ config = "active"

\* allocate the handle and reserve the start slot
StartReserve(t, h) ==
  /\ InApplication(t) /\ "allocated" \notin handle[h]
  /\ ~StartBusy
  /\ handle' = [handle EXCEPT ![h] = NewHandle]
  /\ starting' = TRUE
  /\ pc' = [pc EXCEPT ![t] = "activate"] /\ arg' = [arg EXCEPT ![t] = h]
  /\ UNCHANGED <<publicActive, privateLock, stopRequested, configVars, privateVars>>

\* tsd_runtime_config_activate_snapshot; an invalid configuration aborts
StartActivate(t) ==
  /\ pc[t] = "activate"
  /\ \/ /\ config = "inactive"
        /\ config' = "active" /\ configOf' = arg[t]
        /\ Goto(t, "lock")
     \/ UNCHANGED configVars /\ Goto(t, "abort")
  /\ UNCHANGED <<privateLock, publicVars, privateVars, signalVars>>

\* take the private lock, run the prerequisites and close the guard; a busy
\* private runtime or a failed prerequisite ends the start
StartLock(t) ==
  /\ pc[t] = "lock" /\ privateLock = NoThread
  /\ \/ /\ privateActive = NoHandle
        /\ privateLock' = t
        /\ stopping' = TRUE
        /\ impl' = [impl EXCEPT ![arg[t]] = NewImpl]
        /\ Goto(t, "baseline")
        /\ UNCHANGED <<privateActive, monitor, running>>
     \/ /\ Goto(t, "deactivate")
        /\ UNCHANGED <<privateLock, privateVars>>
  /\ UNCHANGED <<publicVars, configVars, signalVars>>

\* the baseline callback returns; no perf context or no SSE4.1 selection ends
\* the start, with the stopping flag left set
StartBaseline(t) ==
  /\ pc[t] = "baseline"
  /\ \/ Goto(t, "create") /\ UNCHANGED <<privateLock, impl>>
     \/ /\ impl' = [impl EXCEPT ![arg[t]] = {}]
        /\ privateLock' = NoThread
        /\ Goto(t, "deactivate")
  /\ UNCHANGED <<privateActive, monitor, stopping, running, publicVars, configVars, signalVars>>

\* create the monitor, open the guard, install and unlock
StartCreate(t) ==
  /\ pc[t] = "create"
  /\ privateLock' = NoThread /\ stopRequested' = FALSE
  /\ \/ /\ monitor' = [monitor EXCEPT ![arg[t]] = "running"]
        /\ impl' = [impl EXCEPT ![arg[t]] = @ \cup {"monitorStarted"}]
        /\ running' = TRUE /\ stopping' = FALSE
        /\ privateActive' = arg[t]
        /\ Goto(t, "publish")
     \/ /\ running' = FALSE
        /\ impl' = [impl EXCEPT ![arg[t]] = {}]
        /\ Goto(t, "deactivate")
        /\ UNCHANGED <<privateActive, monitor, stopping>>
  /\ UNCHANGED <<publicVars, configVars>>

\* the public handle becomes the active one and is returned
StartPublish(t) ==
  /\ pc[t] = "publish"
  /\ handle' = [handle EXCEPT ![arg[t]] = @ \cup {"impl", "returned"}]
  /\ publicActive' = arg[t] /\ starting' = FALSE
  /\ Return(t)
  /\ UNCHANGED <<privateLock, configVars, privateVars, signalVars>>

\* tsd_runtime_config_deactivate_snapshot after a failed private start
StartDeactivate(t) ==
  /\ pc[t] = "deactivate"
  /\ config' = "inactive" /\ configOf' = NoHandle
  /\ Goto(t, "abort")
  /\ UNCHANGED <<privateLock, publicVars, privateVars, signalVars>>

\* give the start slot back and free the handle
StartAbort(t) ==
  /\ pc[t] = "abort"
  /\ starting' = FALSE
  /\ handle' = [handle EXCEPT ![arg[t]] = {}]
  /\ Return(t)
  /\ UNCHANGED <<publicActive, privateLock, configVars, privateVars, signalVars>>

----------------------------------------------------------------------------
(* tsd_runtime_request_stop and the diagnostics.                           *)

\* Mutant of Dereferenceable: a stop in progress does not matter.
DereferenceableWhileStopping(h) ==
  h = publicActive /\ "stopped" \notin handle[h] /\ "impl" \in handle[h]

\* the test that precedes every use of runtime->impl under the public lock
Dereferenceable(h) ==
  /\ h = publicActive /\ "impl" \in handle[h]
  /\ "stopped" \notin handle[h] /\ "stopInProgress" \notin handle[h]

\* tsd_runtime_request_stop, and the request_stop_impl it makes under the lock
RequestStop(t, h) ==
  /\ InApplication(t) /\ Usable(h)
  /\ Dereferenceable(h)
  /\ stopping' = TRUE /\ running' = FALSE
  /\ UNCHANGED <<privateActive, impl, monitor, privateLock, pc, arg, publicVars, configVars, signalVars>>

\* what tsd_runtime_is_running returns
IsRunning(h) == Dereferenceable(h) /\ h = privateActive /\ running

\* what tsd_runtime_perf_mode returns: a mode, or NONE
HasPerfMode(h) == Dereferenceable(h) /\ h = privateActive /\ "perf" \in impl[h]

----------------------------------------------------------------------------
(* tsd_runtime_stop and tsd_runtime_stop_impl.                             *)

\* Mutant of StopClaim: a second stop call is let through.
StopClaimTwice(t, h) ==
  /\ InApplication(t) /\ Usable(h)
  /\ h = publicActive /\ "stopped" \notin handle[h] /\ "impl" \in handle[h]
  /\ handle' = [handle EXCEPT ![h] = @ \cup {"stopInProgress"}]
  /\ pc' = [pc EXCEPT ![t] = "gate"] /\ arg' = [arg EXCEPT ![t] = h]
  /\ UNCHANGED <<publicActive, starting, privateLock, configVars, privateVars, signalVars>>

\* claim the stop; other handles get EINVAL and a second stop gets EBUSY
StopClaim(t, h) ==
  /\ InApplication(t) /\ Usable(h)
  /\ h = publicActive /\ "stopped" \notin handle[h] /\ "impl" \in handle[h]
  /\ "stopInProgress" \notin handle[h]
  /\ handle' = [handle EXCEPT ![h] = @ \cup {"stopInProgress"}]
  /\ pc' = [pc EXCEPT ![t] = "gate"] /\ arg' = [arg EXCEPT ![t] = h]
  /\ UNCHANGED <<publicActive, starting, privateLock, configVars, privateVars, signalVars>>

\* Mutant of StopGate: the monitor is not joined.
StopGateWithoutJoin(t) ==
  /\ pc[t] = "gate" /\ privateLock = NoThread
  /\ arg[t] = privateActive /\ "stopInProgress" \notin impl[arg[t]]
  /\ impl' = [impl EXCEPT ![arg[t]] = @ \cup {"stopInProgress"}]
  /\ stopping' = TRUE /\ running' = FALSE
  /\ Goto(t, "drain")
  /\ UNCHANGED <<privateActive, monitor, privateLock, publicVars, configVars, signalVars>>

\* Mutant of StopGate: the monitor is joined but not told to stop.
StopGateWithoutRequest(t) ==
  /\ pc[t] = "gate" /\ privateLock = NoThread
  /\ \/ /\ arg[t] = privateActive /\ "stopInProgress" \notin impl[arg[t]]
        /\ impl' = [impl EXCEPT ![arg[t]] = @ \cup {"stopInProgress"}]
        /\ stopping' = TRUE
        /\ Goto(t, IF "monitorStarted" \in impl[arg[t]] THEN "join" ELSE "drain")
     \/ Goto(t, "failed") /\ UNCHANGED <<impl, stopping>>
  /\ UNCHANGED <<privateActive, monitor, running, privateLock, publicVars, configVars, signalVars>>

\* close the guard; a thread inside a wide kernel is refused with EDEADLK
StopGate(t) ==
  /\ pc[t] = "gate" /\ privateLock = NoThread
  /\ \/ /\ arg[t] = privateActive /\ "stopInProgress" \notin impl[arg[t]]
        /\ impl' = [impl EXCEPT ![arg[t]] = @ \cup {"stopInProgress"}]
        /\ stopping' = TRUE /\ running' = FALSE
        /\ Goto(t, IF "monitorStarted" \in impl[arg[t]] THEN "join" ELSE "drain")
     \/ Goto(t, "failed") /\ UNCHANGED <<impl, stopping, running>>
  /\ UNCHANGED <<privateActive, monitor, privateLock, publicVars, configVars, signalVars>>

\* leave a runtime that can be stopped again
StopGiveUp(t) ==
  /\ impl' = [impl EXCEPT ![arg[t]] = @ \ {"stopInProgress"}]
  /\ Goto(t, "failed")

\* pthread_join returns when the monitor has exited
StopJoin(t) ==
  /\ pc[t] = "join" /\ monitor[arg[t]] = "exited"
  /\ monitor' = [monitor EXCEPT ![arg[t]] = "none"]
  /\ impl' = [impl EXCEPT ![arg[t]] = @ \ {"monitorStarted"}]
  /\ Goto(t, "drain")
  /\ UNCHANGED <<privateActive, stopping, running, privateLock, publicVars, configVars, signalVars>>

\* pthread_join reports an error and the monitor stays as it is
StopJoinError(t) ==
  /\ pc[t] = "join" /\ privateLock = NoThread
  /\ StopGiveUp(t)
  /\ UNCHANGED <<privateActive, monitor, stopping, running, privateLock, publicVars, configVars,
                 signalVars>>

\* wait for wide quiescence
StopDrain(t) ==
  /\ pc[t] = "drain"
  /\ \/ Goto(t, "select") /\ UNCHANGED impl
     \/ privateLock = NoThread /\ StopGiveUp(t)
  /\ UNCHANGED <<privateActive, monitor, stopping, running, privateLock, publicVars, configVars, signalVars>>

\* commit the SSE4.1 selection
StopSelect(t) ==
  /\ pc[t] = "select"
  /\ \/ Goto(t, "final") /\ UNCHANGED impl
     \/ privateLock = NoThread /\ StopGiveUp(t)
  /\ UNCHANGED <<privateActive, monitor, stopping, running, privateLock, publicVars, configVars, signalVars>>

\* release perf, reset the guard and free the private runtime; the final guard
\* acquisition may fail after perf is gone
StopFinal(t) ==
  LET h == arg[t]
      owned == h = privateActive /\ "stopInProgress" \in impl[h]
  IN /\ pc[t] = "final" /\ privateLock = NoThread
     /\ \E success \in (IF owned THEN BOOLEAN ELSE {FALSE}) :
          /\ impl' = [impl EXCEPT ![h] =
                        IF success THEN {}
                        ELSE IF owned THEN @ \ {"perf", "stopInProgress"}
                        ELSE @]
          /\ privateActive' = IF success THEN NoHandle ELSE privateActive
          /\ stopping' = IF success THEN FALSE ELSE stopping
          /\ Goto(t, IF success THEN "done" ELSE "failed")
     /\ UNCHANGED <<monitor, running, privateLock, publicVars, configVars, signalVars>>

\* the handle becomes an inert tombstone
StopDone(t) ==
  /\ pc[t] = "done"
  /\ handle' = [handle EXCEPT ![arg[t]] = (@ \ {"impl", "stopInProgress"}) \cup {"stopped"}]
  /\ publicActive' = NoHandle
  /\ config' = "inactive" /\ configOf' = NoHandle
  /\ Return(t)
  /\ UNCHANGED <<starting, privateLock, privateVars, signalVars>>

\* Mutant of StopFailed: the runtime is put back to work.
StopFailedRestarts(t) ==
  /\ pc[t] = "failed"
  /\ handle' = [handle EXCEPT ![arg[t]] = @ \ {"stopInProgress"}]
  /\ running' = TRUE
  /\ Return(t)
  /\ UNCHANGED <<publicActive, starting, privateLock, configVars, privateActive, impl, monitor,
                 stopping, signalVars>>

\* the handle stays active and the stop can be retried
StopFailed(t) ==
  /\ pc[t] = "failed"
  /\ handle' = [handle EXCEPT ![arg[t]] = @ \ {"stopInProgress"}]
  /\ Return(t)
  /\ UNCHANGED <<publicActive, starting, privateLock, configVars, privateVars, signalVars>>

----------------------------------------------------------------------------
(* tsd_runtime_destroy, the monitor and signals.                           *)

Destroy(t, h) ==
  /\ InApplication(t) /\ Usable(h)
  /\ h # publicActive /\ "stopInProgress" \notin handle[h]
  /\ "stopped" \in handle[h] /\ "impl" \notin handle[h]
  /\ handle' = [handle EXCEPT ![h] = {}]
  /\ UNCHANGED <<publicActive, starting, privateLock, pc, arg, configVars, privateVars, signalVars>>

\* the monitor loop sees g_tsd_running or g_tsd_stop_requested and returns
MonitorExit(h) ==
  /\ monitor[h] = "running" /\ (~running \/ stopRequested)
  /\ monitor' = [monitor EXCEPT ![h] = "exited"]
  /\ UNCHANGED <<privateActive, impl, stopping, running, privateLock, pc, arg, publicVars,
                 configVars, signalVars>>

\* tsd_handle_shutdown_signal
ShutdownSignal ==
  /\ stopRequested' = TRUE
  /\ UNCHANGED <<privateLock, pc, arg, publicVars, configVars, privateVars>>

Call(t, h) == StartReserve(t, h) \/ RequestStop(t, h) \/ StopClaim(t, h) \/ Destroy(t, h)

StartStep(t) == \/ StartActivate(t) \/ StartLock(t) \/ StartBaseline(t) \/ StartCreate(t)
                \/ StartPublish(t) \/ StartDeactivate(t) \/ StartAbort(t)
StopStep(t) == \/ StopGate(t) \/ StopJoin(t) \/ StopDrain(t) \/ StopSelect(t) \/ StopFinal(t)
               \/ StopDone(t) \/ StopFailed(t)

Next ==
  \/ \E t \in Thread, h \in Handle : Call(t, h)
  \/ \E t \in Thread : StartStep(t) \/ StopStep(t) \/ StopJoinError(t)
  \/ \E h \in Handle : MonitorExit(h)
  \/ ShutdownSignal

Spec == Init /\ [][Next]_vars

(* A call in progress is scheduled, its drain and its callback return, and *)
(* the monitor polls g_tsd_running once per sampling interval.  A failing  *)
(* join is never assumed.                                                  *)
Fairness ==
  /\ \A t \in Thread : WF_vars(StartStep(t)) /\ WF_vars(StopStep(t))
  /\ \A h \in Handle : WF_vars(MonitorExit(h))

FairSpec == Spec /\ Fairness

----------------------------------------------------------------------------
(* Properties.                                                             *)

\* The values the handle fields, the private fields and the flags may take.
TypeOK ==
  /\ publicActive \in Handle \cup {NoHandle} /\ privateActive \in Handle \cup {NoHandle}
  /\ configOf \in Handle \cup {NoHandle} /\ config \in {"inactive", "active"}
  /\ handle \in [Handle -> SUBSET HandleFlag] /\ impl \in [Handle -> SUBSET ImplFlag]
  /\ monitor \in [Handle -> {"none", "running", "exited"}]
  /\ privateLock \in Thread \cup {NoThread}
  /\ starting \in BOOLEAN /\ stopping \in BOOLEAN /\ running \in BOOLEAN
  /\ stopRequested \in BOOLEAN
  /\ pc \in [Thread -> {"idle"} \cup StartPc \cup StopPc]
  /\ arg \in [Thread -> Handle \cup {NoHandle}]
  /\ \A t \in Thread : arg[t] = NoHandle <=> pc[t] = "idle"

\* No call touches freed memory: request_stop, is_running and perf_mode reach
\* the private runtime only while it is allocated, a stop that has dropped the
\* public lock keeps both objects alive, and so does a start.
NoUseAfterFree ==
  /\ \A h \in Handle : Dereferenceable(h) => "allocated" \in impl[h]
  /\ \A t \in Thread : /\ pc[t] # "idle" => "allocated" \in handle[arg[t]]
                       /\ pc[t] \in StopPc \ {"failed", "done"} => "allocated" \in impl[arg[t]]

\* runtime_guard_internal.h:44-45: the monitor reads its generation's immutable
\* configuration and its perf context, so neither goes away, or is replaced by
\* another generation's, while the monitor runs.
MonitorHasResources ==
  \A h \in Handle : monitor[h] = "running" =>
    "perf" \in impl[h] /\ config = "active" /\ configOf = h

\* runtime.h:68-69: only one generation is active or starting.  A second start
\* call, a second private runtime or a second monitor never exists.
OneGeneration ==
  /\ \A t, u \in Thread : pc[t] \in StartPc /\ pc[u] \in StartPc => t = u
  /\ starting <=> \E t \in Thread : pc[t] \in StartPc
  /\ starting => publicActive = NoHandle
  /\ \A g, h \in Handle :
       ("allocated" \in impl[g] \/ monitor[g] # "none") /\ "allocated" \in impl[h] => g = h

\* A stop claim belongs to exactly one stop call; whenever none is running the
\* active handle can be stopped again, whatever failed before (runtime.h:82-86),
\* and the private EINVAL and EBUSY checks never reject the claim's holder.
StopClaimHeld ==
  /\ \A t, u \in Thread : pc[t] \in StopPc /\ pc[u] \in StopPc => t = u
  /\ \A h \in Handle : "stopInProgress" \in handle[h]
                         <=> \E t \in Thread : pc[t] \in StopPc /\ arg[t] = h
  /\ publicActive # NoHandle => \/ Dereferenceable(publicActive)
                                \/ "stopInProgress" \in handle[publicActive]
  /\ \A t \in Thread : pc[t] \in {"gate", "final"} =>
        privateActive = arg[t] /\ ("stopInProgress" \in impl[arg[t]] <=> pc[t] = "final")

\* runtime.h:49-50: a call made from the baseline callback returns; it never
\* enters the part of a start or stop that waits for the private lock.
NestedCallsReturn ==
  [][\A t \in Thread : pc[t] = "baseline" => pc'[t] \in {"baseline", "create", "deactivate"}]_vars

\* A generation that was asked to stop never goes live again: neither the
\* stopping flag nor g_tsd_running is reset while it stays installed.
StopRequestIsFinal ==
  [][privateActive # NoHandle /\ privateActive' = privateActive
       => (stopping => stopping') /\ (~running => ~running')]_vars

\* Start and stop calls return, unless the application's callback does not; and a
\* shutdown signal (README.md:183) delivered while a monitor runs ends that monitor:
\* no other generation's start, which clears g_tsd_stop_requested, can take the
\* request away from it.
CallsReturn ==
  /\ \A t \in Thread : pc[t] # "idle" ~> pc[t] = "idle"
  /\ \A h \in Handle : stopRequested /\ monitor[h] = "running" ~> monitor[h] # "running"
=============================================================================
