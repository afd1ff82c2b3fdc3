---------------------------- MODULE SafetyConfig ----------------------------
(***************************************************************************)
(* The two configuration snapshots of src/runtime_guard.c: the immutable   *)
(* copy of a runtime generation's configuration, and the safety limits     *)
(* that authorization checks derive from it on first use.  The lifecycle   *)
(* (serialized by RuntimeLifecycle) resets the second while checks of the  *)
(* other threads publish and read it without a lock.                       *)
(*                                                                         *)
(* A structure's value is, field by field, the generation it came from:    *)
(* the properties only ask whose limits a check used, and whether it mixed *)
(* two generations' limits.                                                *)
(***************************************************************************)
EXTENDS Naturals

CONSTANTS Awaited,        \* checks that end before a stop resets the guard: the monitor,
                          \* the fusion worker, invocations counted as in flight
          Application,    \* checks nobody waits for: the first check of an invocation,
                          \* the public tsd_runtime_width_authorized
          Field,          \* members of tsd_safety_config_snapshot_t
          MaxGeneration   \* bound on the runtimes started

Checker == Awaited \cup Application

\* where g_tsd_config's values, which no generation validated, come from
Legacy == 0

VARIABLES configState,  \* g_tsd_runtime_config_snapshot_state = 2
          config,       \* g_tsd_runtime_config_snapshot
          safetyState,  \* g_tsd_safety_config_snapshot_state
          safety,       \* g_tsd_safety_config_snapshot
          stopping,     \* g_tsd_runtime_stopping
          guardActive,  \* a perf mode is published
          phase,        \* progress of the start or stop call
          generation,   \* number of configurations activated so far
          at,           \* progress of each thread's check
          todo,         \* the fields its current structure copy has left
          local,        \* its copy of the limits
          began,        \* the generation in which it looked up the limits
          delayed       \* history: the threads a start found past the guard of a check

lifeVars == <<configState, config, stopping, guardActive, phase, generation, delayed>>
checkVars == <<at, todo, local, began>>
limitsVars == <<configState, config, safetyState, safety, stopping, guardActive, phase,
                generation, at, todo, local, began, delayed>>

LimitsInit ==
  /\ configState = FALSE /\ config = [f \in Field |-> Legacy]
  /\ safetyState = 0 /\ safety = [f \in Field |-> Legacy]
  /\ stopping = FALSE /\ guardActive = FALSE
  /\ phase = "off" /\ generation = 0
  /\ at = [c \in Checker |-> "idle"] /\ todo = [c \in Checker |-> {}]
  /\ local = [c \in Checker |-> [f \in Field |-> Legacy]]
  /\ began = [c \in Checker |-> Legacy]
  /\ delayed = {}

----------------------------------------------------------------------------
(* The start and stop calls.                                               *)

\* tsd_runtime_config_activate_snapshot up to the store of 2
Activate ==
  /\ phase = "off" /\ generation < MaxGeneration
  /\ generation' = generation + 1
  /\ config' = [f \in Field |-> generation'] /\ configState' = TRUE
  /\ phase' = "activated"
  /\ delayed' = delayed \cup {c \in Checker : at[c] \notin {"idle", "guard"}}
  /\ UNCHANGED <<safetyState, stopping, guardActive>>

\* its last store
ActivateReset ==
  /\ phase = "activated"
  /\ safetyState' = 0 /\ phase' = "start"
  /\ UNCHANGED <<configState, config, stopping, guardActive, generation, delayed>>

\* tsd_runtime_set_stopping_locked(1) by a start, a request or a stop, then
\* the reset that follows it
CloseGate ==
  /\ \/ phase = "start" /\ phase' = "startClosed"
     \/ phase = "live" /\ phase' = "requestClosed"
     \/ phase \in {"live", "requested"} /\ phase' = "stopClosed"
  /\ stopping' = TRUE
  /\ UNCHANGED <<configState, config, safetyState, guardActive, generation, delayed>>

CloseReset ==
  /\ \/ phase = "startClosed" /\ phase' = "perf"
     \/ phase = "requestClosed" /\ phase' = "requested"
     \/ phase = "stopClosed" /\ phase' = "join"
  /\ safetyState' = 0
  /\ UNCHANGED <<configState, config, stopping, guardActive, generation, delayed>>

\* tsd_perf_init publishes a mode, or fails
PerfInit ==
  /\ phase = "perf"
  /\ \/ guardActive' = TRUE /\ phase' = "baseline"
     \/ guardActive' = guardActive /\ phase' = "deactivate"
  /\ UNCHANGED <<configState, config, safetyState, stopping, generation, delayed>>

\* the threads a generation started, or counted, are done with their checks
WorkersDone == \A c \in Awaited : at[c] = "idle"

\* the live gate; or a failed start, which leaves the stopping flag set
OpenGate ==
  /\ phase = "baseline"
  /\ \/ stopping' = FALSE /\ guardActive' = guardActive /\ phase' = "live"
     \/ WorkersDone /\ stopping' = stopping /\ guardActive' = FALSE /\ phase' = "deactivate"
  /\ UNCHANGED <<configState, config, safetyState, generation, delayed>>

\* join the monitor, drain, tsd_perf_cleanup, and the final guard reset
Cleanup ==
  /\ phase = "join" /\ WorkersDone
  /\ guardActive' = FALSE /\ stopping' = FALSE
  /\ phase' = "deactivate"
  /\ UNCHANGED <<configState, config, safetyState, generation, delayed>>

\* a failed stop leaves a runtime that can be stopped again
StopFails ==
  /\ phase = "join"
  /\ phase' = "requested"
  /\ UNCHANGED <<configState, config, safetyState, stopping, guardActive, generation, delayed>>

\* tsd_runtime_config_deactivate_snapshot, in its two stores
DeactivateReset ==
  /\ phase = "deactivate"
  /\ safetyState' = 0 /\ phase' = "deactivated"
  /\ UNCHANGED <<configState, config, stopping, guardActive, generation, delayed>>

Deactivate ==
  /\ phase = "deactivated"
  /\ configState' = FALSE /\ phase' = "off"
  /\ UNCHANGED <<config, safetyState, stopping, guardActive, generation, delayed>>

----------------------------------------------------------------------------
(* tsd_runtime_width_authorized and safety_config_snapshot.                *)

Move(c, label) == at' = [at EXCEPT ![c] = label]

\* the workers of a generation run from tsd_perf_init to their join
Runs(c) == c \in Awaited => phase \in {"baseline", "live", "requestClosed", "requested",
                                      "stopClosed", "join"}

\* the loads of the stopping flag and of the guard
CheckStopping(c) ==
  /\ at[c] = "idle" /\ Runs(c) /\ ~stopping
  /\ Move(c, "guard")
  /\ UNCHANGED <<safetyState, safety, todo, local, began>>

CheckGuard(c) ==
  /\ at[c] = "guard"
  /\ Move(c, IF guardActive THEN "state" ELSE "idle")
  /\ UNCHANGED <<safetyState, safety, todo, local, began>>

\* the load of the state: publish, copy, or fail closed
LoadState(c) ==
  /\ at[c] = "state"
  /\ began' = [began EXCEPT ![c] = generation]
  /\ Move(c, CASE safetyState = 0 -> "claim" [] safetyState = 1 -> "idle" [] safetyState = 2 -> "copy")
  /\ todo' = [todo EXCEPT ![c] = Field]
  /\ UNCHANGED <<safetyState, safety, local>>

\* the compare-and-exchange from 0 to 1
Claim(c) ==
  /\ at[c] = "claim"
  /\ safetyState' = IF safetyState = 0 THEN 1 ELSE safetyState
  /\ Move(c, CASE safetyState = 0 -> "read" [] safetyState = 1 -> "idle" [] safetyState = 2 -> "copy")
  /\ UNCHANGED <<safety, todo, local, began>>

\* one member of the active configuration, or of g_tsd_config without one
ReadField(c) ==
  /\ at[c] = "read"
  /\ \E f \in todo[c] :
       /\ local' = [local EXCEPT ![c][f] = IF configState THEN config[f] ELSE Legacy]
       /\ todo' = [todo EXCEPT ![c] = IF @ = {f} THEN Field ELSE @ \ {f}]
       /\ Move(c, IF todo[c] = {f} THEN "write" ELSE "read")
  /\ UNCHANGED <<safetyState, safety, began>>

\* one member of the plain store to g_tsd_safety_config_snapshot
WriteField(c) ==
  /\ at[c] = "write"
  /\ \E f \in todo[c] :
       /\ safety' = [safety EXCEPT ![f] = local[c][f]]
       /\ todo' = [todo EXCEPT ![c] = IF @ = {f} THEN Field ELSE @ \ {f}]
       /\ Move(c, IF todo[c] = {f} THEN "publish" ELSE "write")
  /\ UNCHANGED <<safetyState, local, began>>

\* the store of 2
Publish(c) ==
  /\ at[c] = "publish"
  /\ safetyState' = 2
  /\ Move(c, "copy")
  /\ UNCHANGED <<safety, todo, local, began>>

\* one member of the plain load of g_tsd_safety_config_snapshot
CopyField(c) ==
  /\ at[c] = "copy"
  /\ \E f \in todo[c] :
       /\ local' = [local EXCEPT ![c][f] = safety[f]]
       /\ todo' = [todo EXCEPT ![c] = @ \ {f}]
       /\ Move(c, IF todo[c] = {f} THEN "use" ELSE "copy")
  /\ UNCHANGED <<safetyState, safety, began>>

\* compare the temperature with the limits and return
Use(c) ==
  /\ at[c] = "use"
  /\ Move(c, "idle")
  /\ local' = [local EXCEPT ![c] = [f \in Field |-> Legacy]]
  /\ began' = [began EXCEPT ![c] = Legacy]
  /\ UNCHANGED <<safetyState, safety, todo>>

----------------------------------------------------------------------------

Lifecycle == \/ Activate \/ ActivateReset \/ CloseGate \/ CloseReset \/ PerfInit \/ OpenGate
             \/ Cleanup \/ StopFails \/ DeactivateReset \/ Deactivate
Check(c) == \/ CheckStopping(c) \/ CheckGuard(c) \/ LoadState(c) \/ Claim(c) \/ ReadField(c)
            \/ WriteField(c) \/ Publish(c) \/ CopyField(c) \/ Use(c)

LimitsNext ==
  \/ Lifecycle /\ UNCHANGED <<safety, checkVars>>
  \/ \E c \in Checker : Check(c) /\ UNCHANGED lifeVars

LimitsSpec == LimitsInit /\ [][LimitsNext]_limitsVars

----------------------------------------------------------------------------
(* Properties.                                                             *)

\* The values of the states, the structures and the program counters.
LimitsTypeOK ==
  /\ configState \in BOOLEAN /\ stopping \in BOOLEAN /\ guardActive \in BOOLEAN
  /\ safetyState \in 0..2 /\ generation \in 0..MaxGeneration
  /\ config \in [Field -> 0..MaxGeneration] /\ safety \in [Field -> 0..MaxGeneration]
  /\ phase \in {"off", "activated", "start", "startClosed", "perf", "baseline", "live",
                "requestClosed", "requested", "stopClosed", "join", "deactivate", "deactivated"}
  /\ at \in [Checker -> {"idle", "guard", "state", "claim", "read", "write", "publish", "copy",
                         "use"}]
  /\ todo \in [Checker -> SUBSET Field] /\ began \in [Checker -> 0..MaxGeneration]
  /\ local \in [Checker -> [Field -> 0..MaxGeneration]]
  /\ delayed \subseteq Checker

\* runtime_guard.c:283-284: each generation captures a fresh immutable safety
\* configuration.  A check that looked up the limits in the generation still
\* running uses that generation's limits, all of them.
FreshLimits ==
  \A c \in Checker : at[c] = "use" /\ began[c] = generation /\ phase = "live"
                       => local[c] = [f \in Field |-> generation]

\* A step leaves the limits of a live generation in place, untorn, once they are
\* published and as long as the lifecycle does not reset them.
LimitsKept == safetyState = 2 /\ safetyState' = 2 /\ phase = "live" => safety' = safety

\* At most one check is publishing, although resets reopen the claim.
OnePublisher ==
  \A c, d \in Checker : phase = "live" /\ at[c] \in {"read", "write", "publish"}
                          /\ at[d] \in {"read", "write", "publish"} => c = d
=============================================================================
