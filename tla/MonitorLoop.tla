---------------------------- MODULE MonitorLoop ----------------------------
(***************************************************************************)
(* thermal_monitor_thread of src/thermal_simd.c over the perf context of   *)
(* PerfMode, with the state of src/policy/dispatcher_policy.cpp and the    *)
(* effective limits of src/thermal_config.c.                               *)
(*                                                                         *)
(* One sample is the steps sleep, check, evaluate, decide and then one of  *)
(* safety, predict, down and up; other threads select SSE4.1 between any   *)
(* two of them.  Durations are relative and stop counting where the code   *)
(* no longer tells them apart: dwell is now - width_since_ms, cooldown is  *)
(* cooldown_until_ms - now.  What the predictive controller computes is a  *)
(* choice.  The history variables record the past for the properties.      *)
(***************************************************************************)
EXTENDS PerfMode

CONSTANTS DownCount,          \* g_tsd_config.down_count
          UpCount,            \* g_tsd_config.up_count
          CooldownDown,       \* g_tsd_config.cooldown_down_ms
          CooldownUp,         \* g_tsd_config.cooldown_up_ms
          MinDwell,           \* g_tsd_config.min_dwell_ms
          DegradedDown,       \* the 2000 ms floor of the degraded cooldown_down
          DegradedUp,         \* the 4000 ms floor of the degraded cooldown_up
          DegradedDwell       \* the 500 ms floor of the degraded min_dwell

ASSUME MonitorAssumption ==
  /\ DownCount \in Nat \ {0} /\ UpCount \in Nat \ {0}
  /\ CooldownDown \in Nat /\ CooldownUp \in Nat /\ MinDwell \in Nat
  /\ DegradedDown \in Nat /\ DegradedUp \in Nat /\ DegradedDwell \in Nat

VARIABLES pc,         \* where the monitor is; "off" without a monitor, "exited" after it
          width,      \* the local width
          target,     \* the target of the transition under way
          timedOut,   \* software_timeout
          throttle,   \* throttle_count
          stable,     \* stable_count
          dwell, cooldown,
          policy,     \* "none", or the policy_state: "active", "fallback"
          calm,       \* history: consecutive unthrottled performance samples
          owed        \* history: the last hysteresis downgrade failed

counters == <<throttle, stable, dwell, cooldown>>
past == <<calm, owed>>
monitorVars == <<pc, width, target, timedOut, counters, policy, past>>
loopVars == <<perfVars, monitorVars>>

\* the variables of PerfMode that a transition of the monitor leaves alone
contextVars == <<phase, mode, validated, adaptation, notified, forced, zeroRunning, modeAge,
                 retryVars, measureVars, degraded, published, worldVars, eval>>

Larger(a, b) == IF a >= b THEN a ELSE b

----------------------------------------------------------------------------
(* tsd_runtime_config_effective_*: the limits under the degraded overlay.  *)

EffectiveDownCount == IF degraded /\ DownCount > 1 THEN DownCount - 1 ELSE DownCount
EffectiveUpCount == IF degraded /\ UpCount < 10 THEN Least(UpCount + 2, 10) ELSE UpCount
EffectiveCooldownDown ==
  IF ~degraded THEN CooldownDown
  ELSE IF CooldownDown < DegradedDown THEN DegradedDown ELSE 2 * CooldownDown
EffectiveCooldownUp ==
  IF ~degraded THEN CooldownUp
  ELSE IF CooldownUp < DegradedUp THEN DegradedUp ELSE 2 * CooldownUp
EffectiveMinDwell == IF degraded THEN Larger(MinDwell, DegradedDwell) ELSE MinDwell

\* bounds: the largest value of each counter that a comparison tells apart
DwellBound == Larger(MinDwell, DegradedDwell)
StableBound == Larger(UpCount, Least(UpCount + 2, 10))
CooldownBound == Larger(Larger(DegradedDown, 2 * CooldownDown), Larger(DegradedUp, 2 * CooldownUp))

----------------------------------------------------------------------------
(* Gates.                                                                  *)

emergency == eval.temp = "hot"
UpgradeAllowed == allowed /\ mode = "hardware" /\ validated /\ eval.temp = "cool"

\* Mutant of PatchSucceeds: the selection is not authorized by the guard.
PatchUnauthorized(w) == selection' = w

\* tsd_trampoline_patch(w): the guard admits wide widths; any selection may fail
PatchSucceeds(w) == Authorized(w) /\ selection' = w
PatchFails == UNCHANGED selection

----------------------------------------------------------------------------
(* Start and stop of the monitor.                                          *)

MonitorInit ==
  /\ PerfInit
  /\ pc = "off" /\ width = SSE41 /\ target = SSE41 /\ timedOut = FALSE
  /\ throttle = 0 /\ stable = 0 /\ dwell = 0 /\ cooldown = 0 /\ policy = "none"
  /\ calm = 0 /\ owed = FALSE

\* tsd_runtime_start up to the baseline; the start may fail after it
Prepare ==
  /\ pc = "off" /\ (Start \/ MeasureBaseline \/ Cleanup)
  /\ UNCHANGED monitorVars

\* tsd_runtime_start selects SSE4.1 and creates the monitor thread, whose policy
\* state may be missing
StartMonitor ==
  /\ pc = "off" /\ phase = "live" /\ pc' = "sleep"
  /\ PatchSucceeds(SSE41) /\ width' = SSE41
  /\ throttle' = 0 /\ stable' = 0 /\ dwell' = 0 /\ cooldown' = 0
  /\ policy' \in {"none", "active"}
  /\ calm' = 0 /\ owed' = FALSE
  /\ UNCHANGED <<contextVars, target, timedOut>>

\* the monitor finds the stop request; the owner of the runtime joins it
ExitMonitor ==
  /\ pc = "sleep" /\ pc' = "exited" /\ policy' = "none"
  /\ UNCHANGED <<perfVars, width, target, timedOut, counters, past>>

\* tsd_runtime_stop commits SSE4.1 and cleans the context up
StopCommits ==
  /\ pc = "exited" /\ selection # SSE41 /\ PatchSucceeds(SSE41)
  /\ UNCHANGED <<contextVars, pc, width, target, timedOut, counters, policy, past>>

StopCleansUp ==
  /\ pc = "exited" /\ selection = SSE41 /\ Cleanup /\ pc' = "off"
  /\ UNCHANGED <<width, target, timedOut, counters, policy, past>>

----------------------------------------------------------------------------
(* The steps of one sample.                                                *)

\* a call into the policy may throw: enter_fail_closed
MayFailClosed(p) == policy' \in {p} \cup (IF policy = "none" THEN {} ELSE {"fallback"})

\* the interval passes and the locals of the next sample are set up; a coefficient
\* reload may throw
Wake ==
  /\ pc = "sleep" /\ pc' = "check"
  /\ \E d \in 1..MaxStep :
       /\ Elapse(d)
       /\ dwell' = Least(dwell + d, DwellBound)
       /\ cooldown' = IF cooldown > d THEN cooldown - d ELSE 0
  /\ width' = selection /\ target' = selection /\ timedOut' = FALSE
  /\ MayFailClosed(policy)
  /\ UNCHANGED <<phase, mode, validated, adaptation, notified, forced, zeroRunning, backoff,
                 measureVars, degraded, published, selection, throttle, stable, past>>

\* tsd_perf_check_software_timeout
CheckTimeout ==
  /\ pc = "check" /\ pc' = "evaluate" /\ timedOut' = TimeoutDue
  /\ NotifyTimeout \/ (~TimeoutDue /\ UNCHANGED perfVars)
  /\ UNCHANGED <<width, target, counters, policy, past>>

\* evaluate_thermal; entering software mode may select SSE4.1
EvaluateThermal ==
  /\ pc = "evaluate" /\ pc' = "decide" /\ Evaluate
  /\ UNCHANGED <<width, target, timedOut, counters, policy, past>>

\* Mutant of Decide: a sample without evidence leaves the stable count.
DecideKeepsStable ==
  /\ pc = "decide" /\ width' = selection
  /\ IF eval.performance THEN MayFailClosed(policy) ELSE UNCHANGED policy
  /\ \/ /\ timedOut \/ emergency
        /\ pc' = "safety" /\ calm' = 0 /\ UNCHANGED stable
     \/ /\ ~timedOut /\ ~emergency /\ ~eval.performance
        /\ pc' = "sleep" /\ calm' = 0 /\ UNCHANGED stable
     \/ /\ ~timedOut /\ ~emergency /\ eval.performance
        /\ pc' = IF cooldown > 0 \/ dwell < EffectiveMinDwell THEN "sleep" ELSE "recommend"
        /\ calm' = IF eval.throttled THEN 0 ELSE Least(calm + 1, StableBound)
        /\ UNCHANGED stable
  /\ UNCHANGED <<perfVars, target, timedOut, throttle, dwell, cooldown, owed>>

\* Mutant of Decide: safety waits for performance evidence, too.
DecideEvidenceFirst ==
  /\ pc = "decide" /\ width' = selection
  /\ IF eval.performance THEN MayFailClosed(policy) ELSE UNCHANGED policy
  /\ \/ /\ eval.performance /\ (timedOut \/ emergency)
        /\ pc' = "safety" /\ calm' = 0 /\ UNCHANGED stable
     \/ /\ ~eval.performance
        /\ pc' = "sleep" /\ calm' = 0 /\ stable' = 0
     \/ /\ ~timedOut /\ ~emergency /\ eval.performance
        /\ pc' = IF cooldown > 0 \/ dwell < EffectiveMinDwell THEN "sleep" ELSE "recommend"
        /\ calm' = IF eval.throttled THEN 0 ELSE Least(calm + 1, StableBound)
        /\ UNCHANGED stable
  /\ UNCHANGED <<perfVars, target, timedOut, throttle, dwell, cooldown, owed>>

\* tsd_dispatcher_policy_record, then safety first, evidence second, dwell and
\* cooldown last
Decide ==
  /\ pc = "decide" /\ width' = selection
  /\ IF eval.performance THEN MayFailClosed(policy) ELSE UNCHANGED policy
  /\ \/ /\ timedOut \/ emergency
        /\ pc' = "safety" /\ calm' = 0 /\ UNCHANGED stable
     \/ /\ ~timedOut /\ ~emergency /\ ~eval.performance
        /\ pc' = "sleep" /\ calm' = 0 /\ stable' = 0
     \/ /\ ~timedOut /\ ~emergency /\ eval.performance
        /\ pc' = IF cooldown > 0 \/ dwell < EffectiveMinDwell THEN "sleep" ELSE "recommend"
        /\ calm' = IF eval.throttled THEN 0 ELSE Least(calm + 1, StableBound)
        /\ UNCHANGED stable
  /\ UNCHANGED <<perfVars, target, timedOut, throttle, dwell, cooldown, owed>>

\* force_sse_safety and what the monitor makes of its result; a selection made on
\* SSE4.1 already succeeds, and only one that changes the width resets the policy
SafetyFallback ==
  /\ pc = "safety" /\ pc' = "sleep" /\ stable' = 0 /\ owed' = FALSE
  /\ \/ /\ PatchSucceeds(SSE41) /\ width' = SSE41
        /\ throttle' = 0 /\ dwell' = 0 /\ cooldown' = EffectiveCooldownDown
        /\ IF policy # "none" /\ selection # SSE41 THEN MayFailClosed("active") ELSE UNCHANGED policy
     \/ /\ selection # SSE41 /\ PatchFails /\ width' = selection
        /\ throttle' = EffectiveDownCount /\ cooldown' = 0
        /\ UNCHANGED <<dwell, policy>>
  /\ UNCHANGED <<contextVars, target, timedOut, calm>>

\* tsd_dispatcher_policy_recommend: in fallback, and when it throws, SSE4.1; else
\* any width of the controller, a wider one only with temperature headroom
Recommended(t) ==
  \/ policy = "none" /\ t = width /\ UNCHANGED policy
  \/ policy # "none" /\ t = SSE41 /\ policy' = "fallback"
  \/ policy = "active" /\ (t > width => eval.temp = "cool") /\ UNCHANGED policy

\* the monitor's own gate on a recommendation
Gated(t) ==
  IF t > width /\ ~UpgradeAllowed THEN width
  ELSE IF t # width /\ ~allowed THEN SSE41 ELSE t

Recommend ==
  /\ pc = "recommend"
  /\ \E t \in Width : Recommended(t) /\ target' = Gated(t)
  /\ pc' = IF target' # width THEN "predict" ELSE "hysteresis"
  /\ UNCHANGED <<perfVars, width, timedOut, counters, past>>

\* the predictive transition; when it fails the hysteresis goes on with the sample
Predict ==
  /\ pc = "predict"
  /\ \/ /\ PatchSucceeds(target) /\ pc' = "sleep" /\ width' = target
        /\ throttle' = 0 /\ stable' = 0 /\ dwell' = 0 /\ owed' = FALSE
        /\ cooldown' = IF target < width THEN EffectiveCooldownDown ELSE EffectiveCooldownUp
        /\ UNCHANGED policy
     \/ /\ PatchFails /\ pc' = "hysteresis" /\ policy' = "fallback"
        /\ UNCHANGED <<width, counters, owed>>
  /\ UNCHANGED <<contextVars, target, timedOut, calm>>

\* a throttled sample: narrow one step once there were enough of them
CountThrottled ==
  /\ pc = "hysteresis" /\ eval.throttled
  /\ throttle' = Least(throttle + 1, DownCount) /\ stable' = 0
  /\ \/ /\ throttle + 1 >= EffectiveDownCount /\ width > SSE41 /\ pc' = "down"
        /\ target' = IF allowed THEN width - 1 ELSE SSE41
     \/ /\ throttle + 1 < EffectiveDownCount \/ width = SSE41
        /\ pc' = "sleep" /\ UNCHANGED target
  /\ UNCHANGED <<perfVars, width, timedOut, dwell, cooldown, policy, past>>

\* a stable sample: widen one step once there were enough of them
CountStable ==
  /\ pc = "hysteresis" /\ ~eval.throttled
  /\ throttle' = 0 /\ owed' = FALSE
  /\ \/ /\ stable + 1 >= EffectiveUpCount /\ width < MaxWidth /\ UpgradeAllowed
        /\ pc' = "up" /\ target' = width + 1 /\ stable' = Least(stable + 1, StableBound)
     \/ /\ stable + 1 >= EffectiveUpCount /\ width < MaxWidth /\ ~UpgradeAllowed
        /\ pc' = "sleep" /\ stable' = 0 /\ UNCHANGED target
     \/ /\ stable + 1 < EffectiveUpCount \/ width = MaxWidth
        /\ pc' = "sleep" /\ stable' = Least(stable + 1, StableBound) /\ UNCHANGED target
  /\ UNCHANGED <<perfVars, width, timedOut, dwell, cooldown, policy, calm>>

\* Mutant of Downgrade: a failed downgrade starts a cooldown.
DowngradeCoolsDown ==
  /\ pc = "down" /\ pc' = "sleep"
  /\ \/ /\ PatchSucceeds(target) /\ width' = target /\ owed' = FALSE
        /\ throttle' = 0 /\ dwell' = 0 /\ cooldown' = EffectiveCooldownDown
     \/ /\ PatchFails /\ width' = selection /\ owed' = TRUE
        /\ throttle' = EffectiveDownCount /\ cooldown' = EffectiveCooldownDown /\ UNCHANGED dwell
  /\ UNCHANGED <<contextVars, target, timedOut, stable, policy, calm>>

\* narrow one step; a failed downgrade keeps the throttle count saturated
Downgrade ==
  /\ pc = "down" /\ pc' = "sleep"
  /\ \/ /\ PatchSucceeds(target) /\ width' = target /\ owed' = FALSE
        /\ throttle' = 0 /\ dwell' = 0 /\ cooldown' = EffectiveCooldownDown
     \/ /\ PatchFails /\ width' = selection /\ owed' = TRUE
        /\ throttle' = EffectiveDownCount /\ cooldown' = 0 /\ UNCHANGED dwell
  /\ UNCHANGED <<contextVars, target, timedOut, stable, policy, calm>>

\* widen one step
Upgrade ==
  /\ pc = "up" /\ pc' = "sleep" /\ stable' = 0
  /\ \/ /\ PatchSucceeds(target) /\ width' = target
        /\ dwell' = 0 /\ cooldown' = EffectiveCooldownUp
     \/ PatchFails /\ width' = selection /\ UNCHANGED <<dwell, cooldown>>
  /\ UNCHANGED <<contextVars, target, timedOut, throttle, policy, past>>

\* another thread selects SSE4.1: the shim's repair or the fusion worker
SelectElsewhere ==
  /\ selection # SSE41 /\ Select(SSE41)
  /\ UNCHANGED <<pc, width, target, timedOut, counters, policy, past>>

Sample ==
  \/ Wake \/ CheckTimeout \/ EvaluateThermal \/ Decide \/ SafetyFallback \/ Recommend
  \/ Predict \/ CountThrottled \/ CountStable \/ Downgrade \/ Upgrade

MonitorNext ==
  Prepare \/ StartMonitor \/ ExitMonitor \/ StopCommits \/ StopCleansUp \/ Sample \/ SelectElsewhere

MonitorSpec == MonitorInit /\ [][MonitorNext]_loopVars

(* A start and a stop are carried through, and the monitor samples while it *)
(* is not told to stop.  Of the machine: again and again there is a sample   *)
(* that carries a temperature, and selecting SSE4.1 does not fail for ever.  *)
Scheduling ==
  /\ WF_loopVars(StartMonitor) /\ WF_loopVars(StopCommits) /\ WF_loopVars(StopCleansUp)
  /\ WF_loopVars(Sample)
TelemetryArrives == SF_loopVars(EvaluateThermal /\ eval'.temp = chip)
SelectionWorks == SF_loopVars(SafetyFallback /\ selection' = SSE41)

FairMonitorSpec == MonitorSpec /\ Scheduling /\ TelemetryArrives /\ SelectionWorks

----------------------------------------------------------------------------
(* Properties.                                                             *)

\* The values of the monitor's variables; a downgrade never goes below SSE4.1 and an
\* upgrade never beyond the widest width of the host.
MonitorTypeOK ==
  /\ PerfTypeOK
  /\ pc \in {"off", "exited", "sleep", "check", "evaluate", "decide", "safety", "recommend",
             "predict", "hysteresis", "down", "up"}
  /\ width \in Width /\ target \in Width /\ timedOut \in BOOLEAN
  /\ throttle \in 0..DownCount /\ stable \in 0..StableBound
  /\ dwell \in 0..DwellBound /\ cooldown \in 0..CooldownBound
  /\ policy \in {"none", "active", "fallback"}
  /\ calm \in 0..StableBound /\ owed \in BOOLEAN

\* thermal_simd.c:448-450: the hysteresis widens only after up_count samples in a
\* row that measured performance and no throttling; a sample without evidence, a
\* throttled one or a safety transition starts the count again.  The counts, delays
\* and widths stay within their bounds meanwhile.
CalmBeforeUpgrade == MonitorTypeOK /\ (pc = "up" => calm >= UpCount)

\* thermal_simd.c:554: a hysteresis downgrade that failed is tried again at the
\* next throttled performance sample, behind no dwell, cooldown or count.
DowngradeRetried ==
  [][owed /\ pc' # pc /\ eval.performance /\ eval.throttled /\ ~timedOut /\ ~emergency
       => /\ pc = "decide" => pc' # "sleep"
          /\ pc = "hysteresis" /\ width > SSE41 => pc' = "down"]_loopVars

\* README.md:360-361: while the chip stays above the emergency limit, the selection
\* becomes SSE4.1 and stays there, whatever dwell and cooldown say.
EmergencyNarrows == <>[](chip = "hot") => <>[](selection = SSE41)

\* Every step of the monitor, and of the threads beside it, is a step of the perf
\* context as PerfMode describes it, or leaves the context alone: what holds of
\* PerfSpec holds of the monitored runtime.
ImplementsPerf == PerfSpec
=============================================================================
