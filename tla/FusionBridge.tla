---------------------------- MODULE FusionBridge ----------------------------
(***************************************************************************)
(* The process-wide telemetry service of src/telemetry/fusion_bridge.cpp:  *)
(* reference-counted start and stop for one CPU, rollback of a failed      *)
(* start, samples, and the temperature gate, together with the part of the *)
(* observability state (src/observability/telemetry_state.cpp) and of the  *)
(* authorization (src/runtime_guard.c) the gate feeds.                     *)
(*                                                                         *)
(* Every call runs under g_fusion_mutex; its steps are the stores other    *)
(* threads can see without it.  The polling thread is reduced to its life  *)
(* (FusionWorker has its protocol).  Guard writes are single steps         *)
(* (RuntimeGuard has theirs).  A temperature is cool or hot; the filtered  *)
(* channel and the frequency ratio authorize nothing and are left out.     *)
(* Time is counted in ticks; a reading carries its age.                    *)
(***************************************************************************)
EXTENDS Naturals, FiniteSets

CONSTANTS Context,   \* perf contexts that use the service
          Cpu,       \* CPUs they measure
          NoCpu, Nobody,
          Window,    \* telemetry_max_skew_ms in ticks
          MaxHold    \* ticks a call may hold the mutex, joining apart

ASSUME ContextAssumption == IsFiniteSet(Context) /\ Nobody \notin Context
ASSUME CpuAssumption == NoCpu \notin Cpu
ASSUME TimeAssumption == Window \in Nat /\ MaxHold \in Nat

VARIABLES mutex,       \* holder of g_fusion_mutex
          held,        \* ticks since the holder took it
          object,      \* g_fusion: absent, created or running
          worker,      \* its polling thread: none, polling or done
          users,       \* g_fusion_users
          cpu,         \* g_fusion_cpu
          raw,         \* g_raw_temp_*: value and age of the cached raw reading
          on,          \* g_fusion_running
          gate,        \* g_temperature_upgrade_allowed
          channel,     \* the published raw temperature and its stamp's age
          width,       \* the selected width: sse41 or wide
          refused,     \* history: the last forced selection of SSE4.1 failed
          threw,       \* history: the last sample call ended with an exception
          acquired,    \* fusion_acquired of each context
          cpuOf,       \* pinned_cpu of each context
          pc, avail    \* the holder's place and its raw_temperature_available

vars == <<mutex, held, object, worker, users, cpu, raw, on, gate, channel, width, refused, threw,
          acquired, cpuOf, pc, avail>>
service == <<object, worker, users, cpu, on>>
selection == <<width, refused>>
contexts == <<acquired, cpuOf>>

\* An age past this is never told from a greater one.
AgeCap == 2 * Window + MaxHold + 1
Older(age) == IF age < AgeCap THEN age + 1 ELSE age

None == [value |-> "none", age |-> 0]
NoChannel == [value |-> "none", age |-> 0, stamp |-> 0]

Init ==
  /\ mutex = Nobody /\ held = 0 /\ pc = "free" /\ avail = FALSE
  /\ object = "absent" /\ worker = "none" /\ users = 0 /\ cpu = NoCpu /\ on = FALSE
  /\ raw = None /\ gate = TRUE /\ channel = NoChannel
  /\ width = "sse41" /\ refused = FALSE /\ threw = FALSE
  /\ acquired = [c \in Context |-> FALSE] /\ cpuOf = [c \in Context |-> NoCpu]

Lock(c) == mutex = Nobody /\ mutex' = c /\ held' = 0
Unlock == mutex' = Nobody /\ held' = 0 /\ pc' = "free"
Goto(label) == pc' = label /\ UNCHANGED <<mutex, held>>

----------------------------------------------------------------------------
(* start_unlocked                                                          *)

\* Mutant of StartShare: a second CPU shares the running service.
StartShareAnyCpu(c, k) ==
  /\ mutex = Nobody /\ ~acquired[c]
  /\ object = "running"
  /\ users' = users + 1
  /\ acquired' = [acquired EXCEPT ![c] = TRUE] /\ cpuOf' = [cpuOf EXCEPT ![c] = k]
  /\ UNCHANGED <<mutex, held, pc, avail, object, worker, cpu, on, raw, gate, channel, selection, threw>>

\* the running service gains a user; another CPU gets EBUSY and changes nothing
StartShare(c, k) ==
  /\ mutex = Nobody /\ ~acquired[c]
  /\ object = "running" /\ k = cpu
  /\ users' = users + 1
  /\ acquired' = [acquired EXCEPT ![c] = TRUE] /\ cpuOf' = [cpuOf EXCEPT ![c] = k]
  /\ UNCHANGED <<mutex, held, pc, avail, object, worker, cpu, on, raw, gate, channel, selection, threw>>

\* a new manager and fusion object, cleared signal state, the direct helper;
\* an allocation failure rolls back
StartCreate(c, k) ==
  /\ Lock(c) /\ ~acquired[c]
  /\ object # "running"
  /\ \/ /\ object' = "created" /\ raw' = None /\ cpu' = k
        /\ cpuOf' = [cpuOf EXCEPT ![c] = k]
        /\ pc' = "launch"
     \/ pc' = "reset" /\ UNCHANGED <<object, raw, cpu, cpuOf>>
  /\ UNCHANGED <<worker, users, on, gate, channel, selection, threw, acquired, avail>>

\* g_fusion->start; a failed thread creation rolls back
StartLaunch ==
  /\ pc = "launch"
  /\ \/ object' = "running" /\ worker' = "polling" /\ Goto("count")
     \/ Goto("reset") /\ UNCHANGED <<object, worker>>
  /\ UNCHANGED <<users, cpu, on, raw, gate, channel, selection, threw, contexts, avail>>

\* count the user and switch the gate's meaning to "needs a raw temperature"
StartCount ==
  /\ pc = "count"
  /\ users' = 1 /\ on' = TRUE
  /\ Goto("initial")
  /\ UNCHANGED <<object, worker, cpu, raw, gate, channel, selection, threw, contexts, avail>>

\* the initial sample of the direct helper; publishing it may throw
StartInitial ==
  /\ pc = "initial"
  /\ \/ \E v \in {"cool", "hot"} :
          /\ raw' = [value |-> v, age |-> 0] /\ avail' = TRUE
          /\ Goto("publish") \/ Goto("rollback")
     \/ avail' = FALSE /\ Goto("gate") /\ UNCHANGED raw
  /\ UNCHANGED <<service, gate, channel, selection, threw, contexts>>

\* the first half of rollback_start_unlocked: ask the worker to stop
StartRollback ==
  /\ pc = "rollback"
  /\ object' = "created"
  /\ Goto("join")
  /\ UNCHANGED <<worker, users, cpu, on, raw, gate, channel, selection, threw, contexts, avail>>

----------------------------------------------------------------------------
(* The last part of a start and of every sample: the published channel and *)
(* update_temperature_gate_unlocked.                                       *)

\* the call returns; only a start's context gains the service by it
Finish ==
  /\ acquired' = [acquired EXCEPT ![mutex] = TRUE]
  /\ Unlock /\ avail' = FALSE
  /\ UNCHANGED <<object, worker, users, cpu, on, raw, channel, threw, cpuOf>>

\* Mutant of PublishChannel: a channel that is available keeps its value.
PublishChannelSmoothed ==
  /\ pc = "publish"
  /\ channel' = IF ~avail THEN NoChannel
                ELSE [value |-> IF channel.value = "none" THEN raw.value ELSE channel.value,
                      age |-> raw.age, stamp |-> 0]
  /\ Goto("gate")
  /\ UNCHANGED <<service, raw, gate, selection, threw, contexts, avail>>

\* update_temperature_observability_unlocked: the raw value, or none, stamped
\* with the time of the publication
PublishChannel ==
  /\ pc = "publish"
  /\ channel' = IF avail THEN [value |-> raw.value, age |-> raw.age, stamp |-> 0] ELSE NoChannel
  /\ Goto("gate")
  /\ UNCHANGED <<service, raw, gate, selection, threw, contexts, avail>>

\* Mutant of PublishGate: the gate is closed and the selection left alone.
PublishGateOnly == pc = "gate" /\ gate' = avail /\ Finish /\ UNCHANGED selection

\* the gate bit, under the guard lock
PublishGate ==
  /\ pc = "gate"
  /\ gate' = avail
  /\ IF avail
     THEN Finish /\ UNCHANGED selection
     ELSE /\ Goto("force")
          /\ UNCHANGED <<service, raw, channel, selection, threw, contexts, avail>>

\* without a raw temperature a wider selection is driven back; the patch may fail
ForceSSE41 ==
  /\ pc = "force"
  /\ \/ width' = "sse41" /\ refused' = FALSE
     \/ width = "wide" /\ refused' = TRUE /\ UNCHANGED width
  /\ Finish /\ UNCHANGED gate

----------------------------------------------------------------------------
(* tsd_telemetry_fusion_publish_sample and tsd_telemetry_fusion_sample     *)

\* record_raw_sample_unlocked: a reading of the caller or of the direct helper,
\* or none; publishing it on the bus may throw after it was recorded
SampleRecord(c) ==
  /\ Lock(c) /\ acquired[c] /\ object # "absent"
  /\ \/ /\ \E v \in {"cool", "hot"} : raw' = [value |-> v, age |-> 0]
        /\ pc' = "copy" /\ threw' = FALSE
     \/ UNCHANGED raw /\ pc' = "copy" /\ threw' = FALSE
  /\ UNCHANGED <<service, gate, channel, selection, contexts, avail>>

\* bus->publish throws: the call returns EIO with the reading only recorded
SampleThrow(c) ==
  /\ mutex = Nobody /\ acquired[c] /\ object # "absent"
  /\ \E v \in {"cool", "hot"} : raw' = [value |-> v, age |-> 0]
  /\ threw' = TRUE
  /\ UNCHANGED <<mutex, held, pc, avail, service, gate, channel, selection, contexts>>

\* raw_is_fresh
Fresh == raw.value # "none" /\ raw.age <= Window

\* copy_raw_cache_unlocked decides with the time read here
SampleCopy ==
  /\ pc = "copy"
  /\ avail' = Fresh
  /\ Goto("publish")
  /\ UNCHANGED <<service, raw, gate, channel, selection, threw, contexts>>

----------------------------------------------------------------------------
(* tsd_telemetry_fusion_stop; its tail is also the tail of a rollback      *)

\* another user remains
StopRelease(c) ==
  /\ mutex = Nobody /\ acquired[c]
  /\ users > 1
  /\ users' = users - 1
  /\ acquired' = [acquired EXCEPT ![c] = FALSE]
  /\ UNCHANGED <<mutex, held, pc, avail, object, worker, cpu, on, raw, gate, channel, selection, threw, cpuOf>>

\* the last user asks the worker to stop
StopLast(c) ==
  /\ Lock(c) /\ acquired[c]
  /\ users <= 1
  /\ users' = 0 /\ object' = "created"
  /\ acquired' = [acquired EXCEPT ![c] = FALSE]
  /\ pc' = "join"
  /\ UNCHANGED <<worker, cpu, on, raw, gate, channel, selection, threw, cpuOf, avail>>

\* the join, with the mutex held
Join ==
  /\ pc = "join" /\ worker = "done"
  /\ worker' = "none"
  /\ Goto("reset")
  /\ UNCHANGED <<object, users, cpu, on, raw, gate, channel, selection, threw, contexts, avail>>

\* drop the objects, the helper and the signal state; fusion is off
Reset ==
  /\ pc = "reset"
  /\ object' = "absent" /\ users' = 0 /\ cpu' = NoCpu /\ raw' = None /\ on' = FALSE
  /\ Goto("open")
  /\ UNCHANGED <<worker, gate, channel, selection, threw, contexts, avail>>

\* permissive again, under the guard lock
OpenGate ==
  /\ pc = "open"
  /\ gate' = TRUE
  /\ Goto("clear")
  /\ UNCHANGED <<service, raw, channel, selection, threw, contexts, avail>>

\* the published temperature goes with the service
ClearChannel ==
  /\ pc = "clear"
  /\ channel' = NoChannel
  /\ Unlock /\ avail' = FALSE
  /\ UNCHANGED <<service, raw, gate, selection, threw, contexts>>

----------------------------------------------------------------------------
(* The polling thread, the clock, and the selections of other threads.     *)

\* Mutant of WorkerExit: an iteration needs the bridge's mutex to end.
WorkerExitLocked ==
  /\ worker = "polling" /\ object # "running" /\ mutex = Nobody
  /\ worker' = "done"
  /\ UNCHANGED <<mutex, held, pc, avail, object, users, cpu, on, raw, gate, channel, selection, threw, contexts>>

\* the polling thread sees the stop request and returns
WorkerExit ==
  /\ worker = "polling" /\ object # "running"
  /\ worker' = "done"
  /\ UNCHANGED <<mutex, held, pc, avail, object, users, cpu, on, raw, gate, channel, selection, threw, contexts>>

\* the steady clock; a call that is not joining is over within MaxHold ticks
Tick ==
  /\ mutex = Nobody \/ pc = "join" \/ held < MaxHold
  /\ held' = IF mutex = Nobody \/ pc = "join" THEN held ELSE held + 1
  /\ raw' = IF raw.value = "none" THEN raw ELSE [raw EXCEPT !.age = Older(@)]
  /\ channel' = IF channel.value = "none" THEN channel
                ELSE [channel EXCEPT !.age = Older(@), !.stamp = Older(@)]
  /\ UNCHANGED <<mutex, pc, avail, service, gate, selection, threw, contexts>>

\* raw_temperature_upgrade_allowed in the guard, with the counters healthy:
\* the gate bit and the published temperature, fresh and below the limit
Authorized ==
  /\ on => gate
  /\ channel.value = "cool" /\ channel.stamp <= Window

\* tsd_trampoline_patch by another thread, under the guard lock
SelectElsewhere ==
  /\ \/ width' = "wide" /\ Authorized
     \/ width' = "sse41"
  /\ refused' = FALSE
  /\ UNCHANGED <<mutex, held, pc, avail, service, raw, gate, channel, threw, contexts>>

CallStep == StartLaunch \/ StartCount \/ StartInitial \/ StartRollback
              \/ PublishChannel \/ PublishGate \/ ForceSSE41 \/ SampleCopy
              \/ Join \/ Reset \/ OpenGate \/ ClearChannel

Next ==
  \/ \E c \in Context, k \in Cpu : StartShare(c, k) \/ StartCreate(c, k)
  \/ \E c \in Context : SampleRecord(c) \/ SampleThrow(c) \/ StopRelease(c) \/ StopLast(c)
  \/ CallStep
  \/ WorkerExit
  \/ Tick
  \/ SelectElsewhere

Spec == Init /\ [][Next]_vars

\* The holder of the mutex and the polling thread are scheduled.
FairSpec == Spec /\ WF_vars(CallStep) /\ WF_vars(WorkerExit)

----------------------------------------------------------------------------
TypeOK ==
  /\ mutex \in Context \cup {Nobody} /\ held \in 0 .. MaxHold
  /\ object \in {"absent", "created", "running"} /\ worker \in {"none", "polling", "done"}
  /\ users \in 0 .. Cardinality(Context) /\ cpu \in Cpu \cup {NoCpu}
  /\ raw \in [value : {"none", "cool", "hot"}, age : 0 .. AgeCap]
  /\ channel \in [value : {"none", "cool", "hot"}, age : 0 .. AgeCap, stamp : 0 .. AgeCap]
  /\ on \in BOOLEAN /\ gate \in BOOLEAN /\ avail \in BOOLEAN
  /\ width \in {"sse41", "wide"} /\ refused \in BOOLEAN /\ threw \in BOOLEAN
  /\ acquired \in [Context -> BOOLEAN] /\ cpuOf \in [Context -> Cpu \cup {NoCpu}]
  /\ pc \in {"free", "launch", "count", "initial", "publish", "rollback", "gate", "force", "copy",
             "join", "reset", "open", "clear"}
  /\ pc = "free" <=> mutex = Nobody

\* docs/telemetry-fusion.md:35: the service is counted for one workload CPU.
\* Between calls, and whatever starts failed, g_fusion_users is the number of
\* contexts that hold it, all of them for its CPU, and the polling thread runs
\* exactly as long as one does.
UsersCounted ==
  mutex = Nobody =>
    /\ users = Cardinality({c \in Context : acquired[c]})
    /\ users > 0 <=> object = "running" /\ worker = "polling" /\ on
    /\ users = 0 <=> object = "absent" /\ worker = "none" /\ ~on
    /\ \A c \in Context : acquired[c] => cpuOf[c] = cpu

\* docs/telemetry-fusion.md:44: a spike reaches the guard at once.  Between calls
\* nothing but the newest raw reading authorizes a wide width, and none does once
\* the service was stopped; a call that threw is the exception.  And at any moment
\* the temperature that authorizes was measured at most two windows ago: one while
\* it sits in the bridge's cache, one since the channel was stamped, and the time
\* the call took.  A restart never revives an older one.
AuthorityIsCurrent ==
  Authorized =>
    /\ mutex = Nobody /\ ~threw => on /\ raw.value = "cool"
    /\ channel.age <= 2 * Window + MaxHold

\* docs/telemetry-fusion.md:114: when the raw temperature is lost a wider
\* selection is driven back before the call returns, and no selection that races
\* the call survives it, unless the forced selection itself failed.
LossNarrows == mutex = Nobody /\ on /\ ~gate /\ width = "wide" => refused

\* A call returns although it joins the polling thread with the mutex held.
CallsReturn == mutex # Nobody ~> mutex = Nobody
=============================================================================
