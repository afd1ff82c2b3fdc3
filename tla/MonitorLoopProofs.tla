--------------------------- MODULE MonitorLoopProofs ---------------------------
(***************************************************************************)
(* Proofs about the perf context of PerfMode and the monitor over it, for  *)
(* every back-off, timeout, stall limit, sampling step, host width, count, *)
(* cooldown and dwell.                                                     *)
(*                                                                         *)
(* ContextInv is inductive for the context: the types carry the bounds of  *)
(* the delays and of the stall count, and what is published is tied to the *)
(* mode and its validation.  LoopInv adds the monitor: a step of it is a   *)
(* step of the context because it only runs over a live context and only   *)
(* selects widths of the host; its counts keep up with the history because *)
(* a sample that measured performance is never judged by the degraded      *)
(* limits.                                                                 *)
(***************************************************************************)
EXTENDS MonitorLoop, TLAPS

----------------------------------------------------------------------------
(* The invariants.                                                         *)

FlagTypes ==
  /\ phase \in {"absent", "baseline", "live"} /\ mode \in {"none", "hardware", "software"}
  /\ validated \in BOOLEAN /\ adaptation \in BOOLEAN /\ notified \in BOOLEAN
  /\ forced \in BOOLEAN /\ degraded \in BOOLEAN /\ published \in BOOLEAN
  /\ chip \in Temp /\ allowed \in BOOLEAN /\ eval \in Eval

NumberTypes ==
  /\ zeroRunning \in 0..(ZeroLimit - 1) /\ modeAge \in 0..Timeout
  /\ retryIn \in 0..MaxBackoff /\ backoff \in InitialBackoff..MaxBackoff
  /\ selection \in Width

DomainTypes ==
  history \subseteq {"hardware", "software"} /\ reference \subseteq {"hardware", "software"}

ContextInv == FlagTypes /\ NumberTypes /\ DomainTypes /\ DomainPure /\ RecoveryTransactional

\* the monitor runs, or waits to be joined, over a live context
Monitored == pc # "off" => phase = "live"

LoopTypes ==
  /\ pc \in {"off", "exited", "sleep", "check", "evaluate", "decide", "safety", "recommend",
             "predict", "hysteresis", "down", "up"}
  /\ timedOut \in BOOLEAN /\ owed \in BOOLEAN /\ policy \in {"none", "active", "fallback"}

WidthTypes == width \in Width /\ target \in Width

CounterTypes ==
  /\ throttle \in 0..DownCount /\ stable \in 0..StableBound /\ calm \in 0..StableBound
  /\ dwell \in 0..DwellBound /\ cooldown \in 0..CooldownBound

\* a sample that reaches the hysteresis measured performance, so the normal limits hold
Measured == pc \in {"decide", "recommend", "predict", "hysteresis", "down", "up"} /\
   eval.performance
              => ~degraded

Considered ==
  pc \in {"recommend", "predict", "hysteresis", "down", "up"}
    => eval.performance /\ cooldown = 0 /\ dwell >= MinDwell

\* stable counts samples that calm counts, too, and only outside dwell and cooldown
StableIsCalm ==
  /\ pc \in {"sleep", "check", "evaluate", "decide"} => stable <= calm
  /\ pc \in {"sleep", "check", "evaluate", "decide"} /\ stable > 0
       => cooldown = 0 /\ dwell >= MinDwell
  /\ pc \in {"sleep", "check", "evaluate"} /\ stable > 0 => ~degraded
  /\ pc \in {"recommend", "predict", "hysteresis"} /\ ~eval.throttled
       => calm >= Least(stable + 1, StableBound)
  /\ pc = "down" => stable = 0
  /\ pc = "up" => calm >= UpCount

\* a downgrade that is owed stays due
OwedIsDue ==
  /\ owed => throttle = DownCount /\ cooldown = 0 /\ dwell >= MinDwell
  /\ pc = "up" => ~owed

PlaceInv == LoopTypes /\ Monitored /\ WidthTypes

LoopInv == ContextInv /\ PlaceInv /\ CounterTypes /\ Measured /\ Considered /\ StableIsCalm /\
   OwedIsDue

\* what the steps leave alone that neither count nor select for a sample
Quiet ==
  /\ UNCHANGED <<counters, past>>
  /\ \/ pc' = "off"
     \/ /\ UNCHANGED <<phase, degraded, eval>>
        /\ \/ pc' = pc
           \/ pc = "check" /\ pc' = "evaluate"
           \/ pc = "sleep" /\ pc' = "exited"
           \/ pc = "recommend" /\ pc' \in {"predict", "hysteresis"}

\* the steps that count, or act on the counts
Counting ==
  \/ StartMonitor \/ Decide \/ SafetyFallback \/ Predict \/ CountThrottled \/ CountStable
  \/ Downgrade \/ Upgrade

----------------------------------------------------------------------------
(* The monitor.                                                            *)

\* The effective limits are bounded by the limits the counters stop at, and are the
\* configured ones outside the degraded policy (tsd_runtime_config_effective_*).
LEMMA LimitFacts ==
  /\ StableBound \in Nat /\ DwellBound \in Nat /\ CooldownBound \in Nat
  /\ UpCount <= StableBound /\ MinDwell <= DwellBound
  /\ EffectiveDownCount \in 0..DownCount /\ EffectiveUpCount \in Nat /\ EffectiveUpCount >= UpCount
  /\ EffectiveCooldownDown \in 0..CooldownBound /\ EffectiveCooldownUp \in 0..CooldownBound
  /\ ~degraded => EffectiveMinDwell = MinDwell /\ EffectiveDownCount = DownCount
<1>1. StableBound \in Nat /\ UpCount <= StableBound BY MonitorAssumption DEF StableBound, Larger, Least
<1>2. DwellBound \in Nat /\ MinDwell <= DwellBound BY MonitorAssumption DEF DwellBound, Larger
<1>3. /\ CooldownBound \in Nat
      /\ EffectiveCooldownDown \in 0..CooldownBound /\ EffectiveCooldownUp \in 0..CooldownBound
  <2>1. 2 * CooldownDown \in Nat /\ 2 * CooldownUp \in Nat BY MonitorAssumption
  <2>2. CooldownBound \in Nat BY <2>1, MonitorAssumption DEF CooldownBound, Larger
  <2>3. /\ DegradedDown <= CooldownBound /\ 2 * CooldownDown <= CooldownBound
        /\ DegradedUp <= CooldownBound /\ 2 * CooldownUp <= CooldownBound
    BY <2>1, MonitorAssumption DEF CooldownBound, Larger
  <2>4. EffectiveCooldownDown \in 0..CooldownBound
    BY <2>1, <2>2, <2>3, MonitorAssumption DEF EffectiveCooldownDown
  <2>5. EffectiveCooldownUp \in 0..CooldownBound
    BY <2>1, <2>2, <2>3, MonitorAssumption DEF EffectiveCooldownUp
  <2>6. QED BY <2>2, <2>4, <2>5
<1>4. EffectiveDownCount \in 0..DownCount BY MonitorAssumption DEF EffectiveDownCount
<1>5. EffectiveUpCount \in Nat /\ EffectiveUpCount >= UpCount BY MonitorAssumption DEF EffectiveUpCount, Least
<1>6. ~degraded => EffectiveMinDwell = MinDwell /\ EffectiveDownCount = DownCount
  BY Zenon DEF EffectiveMinDwell, EffectiveDownCount
<1>7. QED BY <1>1, <1>2, <1>3, <1>4, <1>5, <1>6, Zenon

\* Every step is quiet, begins or evaluates a sample, or counts.
LEMMA MonitorFrame ==
  ASSUME [MonitorNext]_loopVars PROVE Quiet \/ Wake \/ EvaluateThermal \/ Counting
<1>1. CASE Prepare BY <1>1, Zenon DEF Prepare, Quiet, monitorVars
<1>2. CASE ExitMonitor BY <1>2, Zenon DEF ExitMonitor, Quiet, perfVars
<1>3. CASE StopCommits BY <1>3, Zenon DEF StopCommits, Quiet, contextVars
<1>4. CASE StopCleansUp BY <1>4, Zenon DEF StopCleansUp, Quiet
<1>5. CASE CheckTimeout BY <1>5, Zenon DEF CheckTimeout, Quiet, perfVars, NotifyTimeout
<1>6. CASE Recommend BY <1>6, Zenon DEF Recommend, Quiet, perfVars
<1>7. CASE SelectElsewhere BY <1>7, Zenon DEF SelectElsewhere, Quiet, Select
<1>8. CASE UNCHANGED loopVars BY <1>8, Zenon DEF loopVars, perfVars, monitorVars, Quiet
<1>9. QED
  BY <1>1, <1>2, <1>3, <1>4, <1>5, <1>6, <1>7, <1>8, Zenon DEF MonitorNext, Sample, Counting

\* Counting leaves the context and the evaluation alone.
LEMMA CountingFrame == ASSUME Counting PROVE UNCHANGED <<phase, degraded, eval>>
<1>1. CASE StartMonitor BY <1>1, Zenon DEF StartMonitor, contextVars
<1>2. CASE Decide BY <1>2, Zenon DEF Decide, perfVars
<1>3. CASE SafetyFallback BY <1>3, Zenon DEF SafetyFallback, contextVars
<1>4. CASE Predict BY <1>4, Zenon DEF Predict, contextVars
<1>5. CASE CountThrottled BY <1>5, Zenon DEF CountThrottled, perfVars
<1>6. CASE CountStable BY <1>6, Zenon DEF CountStable, perfVars
<1>7. CASE Downgrade BY <1>7, Zenon DEF Downgrade, contextVars
<1>8. CASE Upgrade BY <1>8, Zenon DEF Upgrade, contextVars
<1>9. QED
  BY <1>1, <1>2, <1>3, <1>4, <1>5, <1>6, <1>7, <1>8, Zenon DEF Counting

\* An evaluation leaves the context live; performance is reported outside the
\* degraded policy only (tsd_perf_evaluate).
LEMMA EvaluationFacts ==
  ASSUME ContextInv, Evaluate
  PROVE  phase' = "live" /\ (eval'.performance => ~degraded')
<1>0. phase = "live" /\ RecoveryTransactional BY Zenon DEF Evaluate, ContextInv
<1>1. CASE Recover BY <1>0, <1>1, Zenon DEF Recover, NoEval
<1>2. CASE SoftwareSample BY <1>0, <1>2 DEF SoftwareSample, NoEval, Measure
<1>3. CASE CountersLost BY <1>0, <1>3 DEF CountersLost, LostCounters
<1>4. CASE HardwareSample BY <1>0, <1>4, Zenon DEF HardwareSample, RecoveryTransactional
<1>5. CASE \E stalled \in {zeroRunning, 0} : NoProgress(stalled)
  <2>1. PICK stalled \in {zeroRunning, 0} : NoProgress(stalled) BY <1>5, Zenon
  <2>2. phase' = phase /\ eval' \in {NoEval, LostCounters} BY <2>1, Zenon DEF NoProgress
  <2>3. QED BY <1>0, <2>2 DEF NoEval, LostCounters
<1>6. QED BY <1>1, <1>2, <1>3, <1>4, <1>5 DEF Evaluate

\* The stable count never runs ahead of the calm samples.
LEMMA StableIsCalmKept ==
  ASSUME ContextInv, CounterTypes, Measured, Considered, StableIsCalm, [MonitorNext]_loopVars PROVE
     StableIsCalm'
<1>1. CASE Quiet BY <1>1, SMTT(30) DEF Quiet, counters, past, StableIsCalm
<1>2. CASE Wake
  <2>1. PICK d \in 1..MaxStep : /\ dwell' = Least(dwell + d, DwellBound)
                               /\ cooldown' = IF cooldown > d THEN cooldown - d ELSE 0
    BY <1>2, Zenon DEF Wake
  <2>2. dwell >= MinDwell => dwell' >= MinDwell BY <2>1, LimitFacts, MonitorAssumption, PerfAssumption DEF CounterTypes, Least
  <2>3. cooldown = 0 => cooldown' = 0 BY <2>1, SMTT(30)
  <2>4. QED BY <1>2, <2>2, <2>3 DEF Wake, StableIsCalm, past
<1>3. CASE EvaluateThermal BY <1>3, Zenon DEF EvaluateThermal, counters, past, StableIsCalm
<1>4. CASE StartMonitor BY <1>4, SMTT(30) DEF StartMonitor, StableIsCalm
<1>5. CASE Decide
  <2>1. CASE pc' = "safety" BY <2>1, Zenon DEF StableIsCalm
  <2>2. CASE pc' = "sleep" /\ stable' = 0 /\ calm' = 0 BY <2>2, SMTT(30) DEF StableIsCalm
  <2>3. CASE pc' \in {"sleep", "recommend"} /\ eval.performance /\ UNCHANGED stable
    <3>1. ~degraded /\ EffectiveMinDwell = MinDwell
      BY <1>5, <2>3, LimitFacts, Zenon DEF Decide, Measured
    <3>2. pc' = "sleep" => (cooldown > 0 \/ dwell < MinDwell)
      BY <1>5, <2>3, <3>1, Zenon DEF Decide
    <3>3. pc' = "sleep" => stable' = 0
      BY <1>5, <2>3, <3>2, MonitorAssumption, SMTT(30) DEF Decide, StableIsCalm, CounterTypes
    <3>4. calm' = IF eval.throttled THEN 0 ELSE Least(calm + 1, StableBound)
      BY <1>5, <2>3, Zenon DEF Decide
    <3>5. stable <= calm BY <1>5, Zenon DEF Decide, StableIsCalm
    <3>6. ~eval.throttled => calm' >= Least(stable' + 1, StableBound)
      BY <2>3, <3>4, <3>5, LimitFacts DEF CounterTypes, Least
    <3>7. calm' >= 0 BY <3>4, LimitFacts, SMTT(30) DEF CounterTypes, Least
    <3>8. QED BY <1>5, <2>3, <3>3, <3>6, <3>7, CountingFrame, SMTT(30) DEF Counting, StableIsCalm
  <2>4. QED BY <1>5, <2>1, <2>2, <2>3 DEF Decide
<1>6. CASE SafetyFallback BY <1>6 DEF SafetyFallback, StableIsCalm, CounterTypes
<1>7. CASE Predict
  <2>1. CASE pc' = "sleep" BY <1>7, <2>1, SMTT(30) DEF Predict, StableIsCalm, CounterTypes
  <2>2. CASE pc' = "hysteresis"
    BY <1>7, <2>2, CountingFrame, Zenon DEF Counting, Predict, StableIsCalm, counters
  <2>3. QED BY <1>7, <2>1, <2>2, Zenon DEF Predict
<1>8. CASE CountThrottled BY <1>8, SMTT(30) DEF CountThrottled, StableIsCalm, CounterTypes, past
<1>9. CASE CountStable
  <2>1. calm >= Least(stable + 1, StableBound) BY <1>9, Zenon DEF CountStable, StableIsCalm
  <2>2. ~degraded /\ cooldown = 0 /\ dwell >= MinDwell
    BY <1>9, Zenon DEF CountStable, Measured, Considered
  <2>3. pc' = "up" => calm >= UpCount
    <3>1. pc' = "up" => stable + 1 >= EffectiveUpCount BY <1>9, Zenon DEF CountStable
    <3>2. QED BY <2>1, <3>1, LimitFacts, MonitorAssumption DEF CounterTypes, Least
  <2>4. stable' = 0 \/ stable' = Least(stable + 1, StableBound) BY <1>9 DEF CountStable
  <2>5. stable' <= calm BY <2>1, <2>4 DEF CounterTypes
  <2>6. pc' \in {"sleep", "up"} /\ UNCHANGED <<dwell, cooldown, calm>> BY <1>9, SMTT(30) DEF CountStable
  <2>7. QED BY <1>9, <2>2, <2>3, <2>5, <2>6, CountingFrame, SMTT(30) DEF Counting, StableIsCalm
<1>10. CASE Downgrade BY <1>10, SMTT(30) DEF Downgrade, StableIsCalm, CounterTypes
<1>11. CASE Upgrade BY <1>11 DEF Upgrade, StableIsCalm, CounterTypes, past
<1>12. QED
  BY <1>1, <1>2, <1>3, <1>4, <1>5, <1>6, <1>7, <1>8, <1>9, <1>10, <1>11, MonitorFrame,
     Zenon DEF Counting

\* A downgrade that is owed stays due until it is made or a stable sample ends it.
LEMMA OwedIsDueKept ==
  ASSUME CounterTypes, Measured, Considered, OwedIsDue, [MonitorNext]_loopVars PROVE OwedIsDue'
<1>1. CASE Quiet BY <1>1, Zenon DEF Quiet, counters, past, OwedIsDue
<1>2. CASE Wake
  <2>1. PICK d \in 1..MaxStep : /\ dwell' = Least(dwell + d, DwellBound)
                               /\ cooldown' = IF cooldown > d THEN cooldown - d ELSE 0
    BY <1>2, Zenon DEF Wake
  <2>2. owed => dwell' >= MinDwell BY <2>1, LimitFacts, MonitorAssumption, PerfAssumption DEF CounterTypes, OwedIsDue, Least
  <2>3. owed => cooldown' = 0 BY <2>1 DEF OwedIsDue
  <2>4. QED BY <1>2, <2>2, <2>3, SMTT(30) DEF Wake, OwedIsDue, past
<1>3. CASE EvaluateThermal BY <1>3, Zenon DEF EvaluateThermal, counters, past, OwedIsDue
<1>4. CASE StartMonitor BY <1>4, Zenon DEF StartMonitor, OwedIsDue
<1>5. CASE Decide BY <1>5, Zenon DEF Decide, OwedIsDue
<1>6. CASE SafetyFallback BY <1>6, Zenon DEF SafetyFallback, OwedIsDue
<1>7. CASE Predict BY <1>7 DEF Predict, OwedIsDue, counters
<1>8. CASE CountThrottled
  <2>1. owed => throttle' = DownCount
    BY <1>8 DEF CountThrottled, OwedIsDue, CounterTypes, Least
  <2>2. QED BY <1>8, <2>1 DEF CountThrottled, OwedIsDue, past
<1>9. CASE CountStable BY <1>9, Zenon DEF CountStable, OwedIsDue
<1>10. CASE Downgrade
  <2>1. eval.performance /\ ~degraded /\ cooldown = 0 /\ dwell >= MinDwell
    BY <1>10, Zenon DEF Downgrade, Measured, Considered
  <2>2. EffectiveDownCount = DownCount BY <2>1, LimitFacts, Zenon
  <2>3. QED BY <1>10, <2>1, <2>2, Zenon DEF Downgrade, OwedIsDue
<1>11. CASE Upgrade BY <1>11, Zenon DEF Upgrade, OwedIsDue, past
<1>12. QED
  BY <1>1, <1>2, <1>3, <1>4, <1>5, <1>6, <1>7, <1>8, <1>9, <1>10, <1>11, MonitorFrame,
     Zenon DEF Counting

\* A width is considered on a performance sample, after dwell and cooldown.
LEMMA ConsideredKept ==
  ASSUME CounterTypes, Measured, Considered, [MonitorNext]_loopVars PROVE Considered'
<1>1. CASE Quiet BY <1>1, Zenon DEF Quiet, counters, Considered
<1>2. CASE Wake BY <1>2, Zenon DEF Wake, Considered
<1>3. CASE EvaluateThermal BY <1>3, Zenon DEF EvaluateThermal, Considered
<1>4. CASE StartMonitor BY <1>4, Zenon DEF StartMonitor, Considered
<1>5. CASE Decide
  <2>1. pc' = "recommend" => eval.performance /\ ~degraded /\ ~(cooldown > 0) /\ ~(dwell <
     EffectiveMinDwell)
    BY <1>5, Zenon DEF Decide, Measured
  <2>2. pc' = "recommend" => cooldown = 0 /\ dwell >= MinDwell BY <2>1, LimitFacts, MonitorAssumption DEF CounterTypes
  <2>3. QED BY <1>5, <2>1, <2>2, CountingFrame DEF Counting, Decide, Considered
<1>6. CASE SafetyFallback BY <1>6, Zenon DEF SafetyFallback, Considered
<1>7. CASE Predict BY <1>7, CountingFrame, Zenon DEF Counting, Predict, counters, Considered
<1>8. CASE CountThrottled BY <1>8, CountingFrame, Zenon DEF Counting, CountThrottled, Considered
<1>9. CASE CountStable BY <1>9, CountingFrame, Zenon DEF Counting, CountStable, Considered
<1>10. CASE Downgrade BY <1>10, Zenon DEF Downgrade, Considered
<1>11. CASE Upgrade BY <1>11, Zenon DEF Upgrade, Considered
<1>12. QED
  BY <1>1, <1>2, <1>3, <1>4, <1>5, <1>6, <1>7, <1>8, <1>9, <1>10, <1>11, MonitorFrame,
     Zenon DEF Counting

\* A sample is considered with the normal limits.
LEMMA MeasuredKept ==
  ASSUME ContextInv, Measured, [MonitorNext]_loopVars PROVE Measured'
<1>1. CASE Quiet BY <1>1, Zenon DEF Quiet, Measured
<1>2. CASE Wake BY <1>2, Zenon DEF Wake, Measured
<1>3. CASE EvaluateThermal BY <1>3, EvaluationFacts, Zenon DEF EvaluateThermal, Measured
<1>4. CASE StartMonitor BY <1>4, CountingFrame, Zenon DEF Counting, StartMonitor, Measured
<1>5. CASE Decide BY <1>5, CountingFrame, Zenon DEF Counting, Decide, Measured
<1>6. CASE SafetyFallback BY <1>6, CountingFrame, Zenon DEF Counting, SafetyFallback, Measured
<1>7. CASE Predict BY <1>7, CountingFrame, Zenon DEF Counting, Predict, Measured
<1>8. CASE CountThrottled BY <1>8, CountingFrame, Zenon DEF Counting, CountThrottled, Measured
<1>9. CASE CountStable BY <1>9, CountingFrame, Zenon DEF Counting, CountStable, Measured
<1>10. CASE Downgrade BY <1>10, CountingFrame, Zenon DEF Counting, Downgrade, Measured
<1>11. CASE Upgrade BY <1>11, CountingFrame, Zenon DEF Counting, Upgrade, Measured
<1>12. QED
  BY <1>1, <1>2, <1>3, <1>4, <1>5, <1>6, <1>7, <1>8, <1>9, <1>10, <1>11, MonitorFrame,
     Zenon DEF Counting

\* The counters and delays stay within their bounds.
LEMMA CounterTypesKept ==
  ASSUME CounterTypes, [MonitorNext]_loopVars PROVE CounterTypes'
<1>1. CASE Quiet BY <1>1, Zenon DEF Quiet, counters, past, CounterTypes
<1>2. CASE Wake
  <2>1. PICK d \in 1..MaxStep : /\ dwell' = Least(dwell + d, DwellBound)
                               /\ cooldown' = IF cooldown > d THEN cooldown - d ELSE 0
    BY <1>2, Zenon DEF Wake
  <2>2. dwell' \in 0..DwellBound BY <2>1, LimitFacts, PerfAssumption DEF CounterTypes, Least
  <2>3. cooldown' \in 0..CooldownBound BY <2>1, LimitFacts, PerfAssumption DEF CounterTypes
  <2>4. QED BY <1>2, <2>2, <2>3 DEF Wake, CounterTypes, past
<1>3. CASE EvaluateThermal BY <1>3, Zenon DEF EvaluateThermal, counters, past, CounterTypes
<1>4. CASE StartMonitor BY <1>4, LimitFacts, MonitorAssumption DEF StartMonitor, CounterTypes
<1>5. CASE Decide BY <1>5, LimitFacts DEF Decide, CounterTypes, Least
<1>6. CASE SafetyFallback BY <1>6, LimitFacts, MonitorAssumption DEF SafetyFallback, CounterTypes
<1>7. CASE Predict BY <1>7, LimitFacts, MonitorAssumption DEF Predict, CounterTypes, counters
<1>8. CASE CountThrottled BY <1>8, LimitFacts DEF CountThrottled, CounterTypes, Least, past
<1>9. CASE CountStable
  <2>1. Least(stable + 1, StableBound) \in 0..StableBound BY LimitFacts DEF CounterTypes, Least
  <2>2. QED BY <1>9, <2>1, LimitFacts, MonitorAssumption DEF CountStable, CounterTypes
<1>10. CASE Downgrade BY <1>10, LimitFacts, MonitorAssumption DEF Downgrade, CounterTypes
<1>11. CASE Upgrade BY <1>11, LimitFacts DEF Upgrade, CounterTypes, past
<1>12. QED
  BY <1>1, <1>2, <1>3, <1>4, <1>5, <1>6, <1>7, <1>8, <1>9, <1>10, <1>11, MonitorFrame,
     Zenon DEF Counting

\* The context stays live while there is a monitor.
LEMMA MonitoredKept ==
  ASSUME ContextInv, Monitored, [MonitorNext]_loopVars PROVE Monitored'
<1>1. CASE Quiet BY <1>1, Zenon DEF Quiet, Monitored
<1>2. CASE Wake BY <1>2, Zenon DEF Wake, Monitored
<1>3. CASE EvaluateThermal BY <1>3, EvaluationFacts, Zenon DEF EvaluateThermal, Monitored
<1>4. CASE StartMonitor BY <1>4, CountingFrame, Zenon DEF Counting, StartMonitor, Monitored
<1>5. CASE Decide BY <1>5, CountingFrame, Zenon DEF Counting, Decide, Monitored
<1>6. CASE SafetyFallback BY <1>6, CountingFrame, Zenon DEF Counting, SafetyFallback, Monitored
<1>7. CASE Predict BY <1>7, CountingFrame, Zenon DEF Counting, Predict, Monitored
<1>8. CASE CountThrottled BY <1>8, CountingFrame, Zenon DEF Counting, CountThrottled, Monitored
<1>9. CASE CountStable BY <1>9, CountingFrame, Zenon DEF Counting, CountStable, Monitored
<1>10. CASE Downgrade BY <1>10, CountingFrame, Zenon DEF Counting, Downgrade, Monitored
<1>11. CASE Upgrade BY <1>11, CountingFrame, Zenon DEF Counting, Upgrade, Monitored
<1>12. QED
  BY <1>1, <1>2, <1>3, <1>4, <1>5, <1>6, <1>7, <1>8, <1>9, <1>10, <1>11, MonitorFrame,
     Zenon DEF Counting

\* A width the monitor computes is a width of the host.
LEMMA WidthTypesKept ==
  ASSUME ContextInv, WidthTypes, [MonitorNext]_loopVars PROVE WidthTypes'
<1>0. selection \in Width /\ SSE41 \in Width BY PerfAssumption DEF ContextInv, NumberTypes, SSE41, Width
<1>1. CASE Prepare BY <1>0, <1>1 DEF Prepare, WidthTypes, monitorVars
<1>2. CASE StartMonitor BY <1>0, <1>2, Zenon DEF StartMonitor, WidthTypes
<1>3. CASE ExitMonitor BY <1>0, <1>3, Zenon DEF ExitMonitor, WidthTypes
<1>4. CASE StopCommits BY <1>0, <1>4, Zenon DEF StopCommits, WidthTypes
<1>5. CASE StopCleansUp BY <1>0, <1>5, Zenon DEF StopCleansUp, WidthTypes
<1>6. CASE Wake BY <1>0, <1>6, Zenon DEF Wake, WidthTypes
<1>7. CASE CheckTimeout BY <1>0, <1>7, Zenon DEF CheckTimeout, WidthTypes
<1>8. CASE EvaluateThermal BY <1>0, <1>8, Zenon DEF EvaluateThermal, WidthTypes
<1>9. CASE Decide BY <1>0, <1>9, Zenon DEF Decide, WidthTypes
<1>10. CASE SafetyFallback BY <1>0, <1>10, Zenon DEF SafetyFallback, WidthTypes
<1>11. CASE Recommend BY <1>0, <1>11, Zenon DEF Recommend, Gated, WidthTypes
<1>12. CASE Predict BY <1>0, <1>12, Zenon DEF Predict, WidthTypes
<1>13. CASE CountThrottled BY <1>0, <1>13, PerfAssumption DEF CountThrottled, WidthTypes, Width, SSE41
<1>14. CASE CountStable BY <1>0, <1>14, PerfAssumption DEF CountStable, WidthTypes, Width
<1>15. CASE Downgrade BY <1>0, <1>15 DEF Downgrade, WidthTypes
<1>16. CASE Upgrade BY <1>0, <1>16, Zenon DEF Upgrade, WidthTypes
<1>17. CASE SelectElsewhere BY <1>0, <1>17, Zenon DEF SelectElsewhere, WidthTypes
<1>18. CASE UNCHANGED loopVars BY <1>18, Zenon DEF loopVars, monitorVars, WidthTypes
<1>19. QED
  BY <1>1, <1>2, <1>3, <1>4, <1>5, <1>6, <1>7, <1>8, <1>9, <1>10, <1>11, <1>12, <1>13, <1>14,
     <1>15, <1>16, <1>17, <1>18, Zenon DEF MonitorNext, Sample

\* The monitor's places and flags keep their types.
LEMMA LoopTypesKept ==
  ASSUME LoopTypes, [MonitorNext]_loopVars PROVE LoopTypes'
<1>1. CASE Prepare BY <1>1, Zenon DEF Prepare, LoopTypes, monitorVars, past
<1>2. CASE StartMonitor BY <1>2, Zenon DEF StartMonitor, LoopTypes
<1>3. CASE ExitMonitor BY <1>3, Zenon DEF ExitMonitor, LoopTypes, past
<1>4. CASE StopCommits BY <1>4, Zenon DEF StopCommits, LoopTypes, past
<1>5. CASE StopCleansUp BY <1>5, Zenon DEF StopCleansUp, LoopTypes, past
<1>6. CASE Wake BY <1>6, Zenon DEF Wake, LoopTypes, past, MayFailClosed
<1>7. CASE CheckTimeout
  <2>1. timedOut' \in BOOLEAN BY <1>7, Zenon DEF CheckTimeout, TimeoutDue
  <2>2. QED BY <1>7, <2>1, Zenon DEF CheckTimeout, LoopTypes, past
<1>8. CASE EvaluateThermal BY <1>8, Zenon DEF EvaluateThermal, LoopTypes, past
<1>9. CASE Decide BY <1>9, Zenon DEF Decide, LoopTypes, MayFailClosed
<1>10. CASE SafetyFallback BY <1>10, Zenon DEF SafetyFallback, LoopTypes, MayFailClosed
<1>11. CASE Recommend BY <1>11, Zenon DEF Recommend, LoopTypes, Recommended, past
<1>12. CASE Predict BY <1>12, Zenon DEF Predict, LoopTypes
<1>13. CASE CountThrottled BY <1>13, Zenon DEF CountThrottled, LoopTypes, past
<1>14. CASE CountStable BY <1>14, Zenon DEF CountStable, LoopTypes
<1>15. CASE Downgrade BY <1>15, Zenon DEF Downgrade, LoopTypes
<1>16. CASE Upgrade BY <1>16, Zenon DEF Upgrade, LoopTypes, past
<1>17. CASE SelectElsewhere BY <1>17, Zenon DEF SelectElsewhere, LoopTypes, past
<1>18. CASE UNCHANGED loopVars BY <1>18, Zenon DEF loopVars, monitorVars, past, LoopTypes
<1>19. QED
  BY <1>1, <1>2, <1>3, <1>4, <1>5, <1>6, <1>7, <1>8, <1>9, <1>10, <1>11, <1>12, <1>13, <1>14,
     <1>15, <1>16, <1>17, <1>18, Zenon DEF MonitorNext, Sample

\* A selection by the monitor is a selection of PerfMode (tsd_trampoline_patch).
LEMMA PatchIsSelect ==
  ASSUME NEW w \in Width, PatchSucceeds(w), UNCHANGED contextVars
  PROVE  PerfNext
<1>1. Select(w) BY Zenon DEF PatchSucceeds, Select, contextVars
<1>2. QED BY <1>1, Zenon DEF PerfNext

\* A failed selection leaves the context alone.
LEMMA FailureStutters ==
  ASSUME PatchFails, UNCHANGED contextVars PROVE UNCHANGED perfVars
BY Zenon DEF PatchFails, contextVars, perfVars, retryVars, measureVars, worldVars

\* A step of the monitored runtime is a step of the context, or leaves it alone.
LEMMA LoopStepRefines ==
  ASSUME PlaceInv, [MonitorNext]_loopVars PROVE [PerfNext]_perfVars
<1>0. LoopTypes /\ Monitored /\ target \in Width /\ SSE41 \in Width
  BY PerfAssumption DEF PlaceInv, WidthTypes, SSE41, Width
<1>1. CASE Prepare BY <1>1 DEF Prepare, PerfNext
<1>2. CASE StartMonitor BY <1>0, <1>2, PatchIsSelect, Zenon DEF StartMonitor
<1>3. CASE ExitMonitor BY <1>3, Zenon DEF ExitMonitor
<1>4. CASE StopCommits BY <1>0, <1>4, PatchIsSelect, Zenon DEF StopCommits
<1>5. CASE StopCleansUp BY <1>5, Zenon DEF StopCleansUp, PerfNext
<1>6. CASE Wake
  <2>1. phase = "live" BY <1>0, <1>6, Zenon DEF Wake, Monitored
  <2>2. Tick BY <1>6, <2>1, Zenon DEF Wake, Tick
  <2>3. QED BY <2>2, Zenon DEF PerfNext
<1>7. CASE CheckTimeout BY <1>7, Zenon DEF CheckTimeout, PerfNext
<1>8. CASE EvaluateThermal BY <1>8, Zenon DEF EvaluateThermal, PerfNext
<1>9. CASE Decide BY <1>9, Zenon DEF Decide
<1>10. CASE SafetyFallback
  BY <1>0, <1>10, PatchIsSelect, FailureStutters, Zenon DEF SafetyFallback
<1>11. CASE Recommend BY <1>11, Zenon DEF Recommend
<1>12. CASE Predict BY <1>0, <1>12, PatchIsSelect, FailureStutters, Zenon DEF Predict
<1>13. CASE CountThrottled BY <1>13, Zenon DEF CountThrottled
<1>14. CASE CountStable BY <1>14, Zenon DEF CountStable
<1>15. CASE Downgrade BY <1>0, <1>15, PatchIsSelect, FailureStutters, Zenon DEF Downgrade
<1>16. CASE Upgrade BY <1>0, <1>16, PatchIsSelect, FailureStutters, Zenon DEF Upgrade
<1>17. CASE SelectElsewhere BY <1>0, <1>17, Zenon DEF SelectElsewhere, PerfNext
<1>18. CASE UNCHANGED loopVars BY <1>18, Zenon DEF loopVars
<1>19. QED
  BY <1>1, <1>2, <1>3, <1>4, <1>5, <1>6, <1>7, <1>8, <1>9, <1>10, <1>11, <1>12, <1>13, <1>14,
     <1>15, <1>16, <1>17, <1>18, Zenon DEF MonitorNext, Sample

----------------------------------------------------------------------------
(* The context.                                                            *)

\* The constant evaluations are evaluations.
LEMMA ConstantEvals == NoEval \in Eval /\ LostCounters \in Eval
BY Zenon DEF NoEval, LostCounters, Eval, Temp

\* A measurement delivers an evaluation, and adds only its own domain
\* (process_measurement).
LEMMA MeasureFacts ==
  ASSUME NEW d, NEW p \in BOOLEAN, chip \in Temp, Measure(d, p), history \cup reference \subseteq
     {d}
  PROVE  eval' \in Eval /\ history' \cup reference' \subseteq {d}
<1>1. eval' \in Eval BY DEF Measure, Eval
<1>2. history' \cup reference' \subseteq {d} BY DEF Measure
<1>3. QED BY <1>1, <1>2, Zenon

\* Doubling from a back-off within its bounds stays within them, as does the delay
\* (schedule_perf_retry).
LEMMA RetryBounded ==
  ASSUME NEW b \in InitialBackoff..MaxBackoff, ScheduleRetry(b), NumberTypes
  PROVE  retryIn' \in 0..MaxBackoff /\ backoff' \in InitialBackoff..MaxBackoff
BY PerfAssumption DEF ScheduleRetry, Least, retryVars, NumberTypes

\* Entering software mode forces SSE4.1 or keeps the width (perf_set_mode).
LEMMA ForceTypes == ASSUME NumberTypes, ForceSSE41 PROVE selection' \in Width
BY PerfAssumption DEF NumberTypes, ForceSSE41, Width, SSE41

\* A started context that enters software mode satisfies the properties, whatever
\* it was (perf_set_mode).
LEMMA SoftwareEntered ==
  ASSUME EnterSoftware
  PROVE  DomainTypes' /\ DomainPure' /\ RecoveryTransactional'
<1>1. DomainTypes' BY Zenon DEF EnterSoftware, DomainTypes
<1>2. DomainPure' BY Zenon DEF EnterSoftware, DomainPure
<1>3. RecoveryTransactional' BY Zenon DEF EnterSoftware, RecoveryTransactional
<1>4. QED BY <1>1, <1>2, <1>3, Zenon

\* Failing closed keeps the invariant (perf_fail_closed).
LEMMA FailClosedKeeps ==
  ASSUME ContextInv, FailClosed, phase' \in {"baseline", "live"}, UNCHANGED <<forced, worldVars>>,
         eval' \in Eval
  PROVE  ContextInv'
<1>1. FlagTypes /\ NumberTypes BY Zenon DEF ContextInv
<1>2. EnterSoftware BY Zenon DEF FailClosed
<1>3. FlagTypes' BY <1>1, Zenon DEF FlagTypes, FailClosed, EnterSoftware, worldVars
<1>4. backoff \in InitialBackoff..MaxBackoff BY <1>1, Zenon DEF NumberTypes
<1>5. retryIn' \in 0..MaxBackoff /\ backoff' \in InitialBackoff..MaxBackoff
  BY <1>1, <1>4, RetryBounded, Zenon DEF FailClosed
<1>6. selection' \in Width BY <1>1, <1>2, ForceTypes, Zenon DEF EnterSoftware
<1>7. NumberTypes' BY <1>5, <1>6, PerfAssumption DEF NumberTypes, FailClosed, EnterSoftware
<1>8. QED BY <1>2, <1>3, <1>7, SoftwareEntered DEF ContextInv

\* Every step keeps the invariant.
LEMMA ContextStep == ContextInv /\ [PerfNext]_perfVars => ContextInv'
<1> SUFFICES ASSUME ContextInv, [PerfNext]_perfVars PROVE ContextInv'
  BY Zenon
<1>0. FlagTypes /\ NumberTypes /\ DomainTypes /\ DomainPure /\ RecoveryTransactional
  BY Zenon DEF ContextInv
<1>1. ASSUME Start PROVE ContextInv'
  <2>1. FlagTypes'
    BY <1>0, <1>1, Zenon DEF Start, EnterSoftware, EnterHardware, FlagTypes, worldVars
  <2>2. retryIn' \in 0..MaxBackoff /\ backoff' \in InitialBackoff..MaxBackoff
    <3>1. \/ retryIn' = 0 /\ backoff' = InitialBackoff
          \/ retryIn' = InitialBackoff /\ backoff' = Least(2 * InitialBackoff, MaxBackoff)
      BY <1>1, Zenon DEF Start
    <3>2. QED BY <3>1, PerfAssumption DEF Least
  <2>3. selection' \in Width
    BY <1>0, <1>1, ForceTypes, Zenon DEF Start, EnterSoftware, EnterHardware, NumberTypes
  <2>4. zeroRunning' = 0 /\ modeAge' = 0 BY <1>1, Zenon DEF Start, EnterSoftware, EnterHardware
  <2>5. NumberTypes' BY <2>2, <2>3, <2>4, PerfAssumption DEF NumberTypes
  <2>6. CASE EnterSoftware BY <2>1, <2>5, <2>6, SoftwareEntered DEF ContextInv
  <2>7. CASE EnterHardware(FALSE) /\ reference' = {}
    <3>1. DomainTypes' BY <2>7, Zenon DEF EnterHardware, DomainTypes
    <3>2. DomainPure' BY <2>7, Zenon DEF EnterHardware, DomainPure
    <3>3. RecoveryTransactional'
      BY <1>1, <2>7, Zenon DEF Start, EnterHardware, RecoveryTransactional
    <3>4. QED BY <2>1, <2>5, <3>1, <3>2, <3>3, Zenon DEF ContextInv
  <2>8. QED BY <1>1, <2>6, <2>7, Zenon DEF Start
<1>2. ASSUME MeasureBaseline PROVE ContextInv'
  <2>1. CASE FailClosed
    BY <1>0, <1>2, <2>1, FailClosedKeeps, Zenon DEF MeasureBaseline, FlagTypes
  <2>2. CASE ~FailClosed
    <3>1. FlagTypes' BY <1>0, <1>2, <2>2, Zenon DEF MeasureBaseline, FlagTypes, worldVars
    <3>2. NumberTypes' BY <1>0, <1>2, <2>2, PerfAssumption DEF MeasureBaseline, NumberTypes, retryVars
    <3>3. DomainTypes' BY <1>2, <2>2 DEF MeasureBaseline, DomainTypes
    <3>4. DomainPure' BY <1>2, <2>2, Zenon DEF MeasureBaseline, DomainPure
    <3>5. RecoveryTransactional'
      BY <1>0, <1>2, <2>2 DEF MeasureBaseline, RecoveryTransactional
    <3>6. QED BY <3>1, <3>2, <3>3, <3>4, <3>5 DEF ContextInv
  <2>3. QED BY <2>1, <2>2, Zenon
<1>3. ASSUME Cleanup PROVE ContextInv'
  <2>1. FlagTypes' BY <1>0, <1>3, ConstantEvals, Zenon DEF Cleanup, FlagTypes, worldVars
  <2>2. NumberTypes' BY <1>0, <1>3, PerfAssumption DEF Cleanup, NumberTypes
  <2>3. DomainTypes' BY <1>3 DEF Cleanup, DomainTypes
  <2>4. DomainPure' BY <1>3, Zenon DEF Cleanup, DomainPure
  <2>5. RecoveryTransactional' BY <1>3, Zenon DEF Cleanup, RecoveryTransactional
  <2>6. QED BY <2>1, <2>2, <2>3, <2>4, <2>5, Zenon DEF ContextInv
<1>4. ASSUME Evaluate PROVE ContextInv'
  <2>0. phase = "live" BY <1>4, Zenon DEF Evaluate
  <2>1. ASSUME Recover PROVE ContextInv'
    <3>1. FlagTypes'
      BY <1>0, <2>1, ConstantEvals, Zenon DEF Recover, EnterHardware, FlagTypes, worldVars
    <3>2. NumberTypes' BY <1>0, <2>1, PerfAssumption DEF Recover, EnterHardware, NumberTypes
    <3>3. DomainTypes' BY <2>1 DEF Recover, EnterHardware, DomainTypes
    <3>4. DomainPure' BY <2>1, Zenon DEF Recover, EnterHardware, DomainPure
    <3>5. RecoveryTransactional' BY <2>1, Zenon DEF Recover, EnterHardware, RecoveryTransactional
    <3>6. QED BY <3>1, <3>2, <3>3, <3>4, <3>5, Zenon DEF ContextInv
  <2>2. ASSUME SoftwareSample PROVE ContextInv'
    <3>1. mode = "software" /\ history \cup reference \subseteq {"software"}
      BY <1>0, <2>2, Zenon DEF SoftwareSample, DomainPure
    <3>2. chip \in Temp BY <1>0, Zenon DEF FlagTypes
    <3>3. eval' \in Eval /\ history' \cup reference' \subseteq {"software"}
      BY <2>2, <3>1, <3>2, MeasureFacts, ConstantEvals, Zenon DEF SoftwareSample, measureVars
    <3>4. FlagTypes' BY <1>0, <2>2, <3>3, Zenon DEF SoftwareSample, FlagTypes, worldVars
    <3>5. backoff \in InitialBackoff..MaxBackoff /\ InitialBackoff \in InitialBackoff..MaxBackoff
      BY <1>0, PerfAssumption DEF NumberTypes
    <3>6. retryIn' \in 0..MaxBackoff /\ backoff' \in InitialBackoff..MaxBackoff
      BY <1>0, <2>2, <3>5, RetryBounded, Zenon DEF SoftwareSample, Reprobe, NumberTypes, retryVars
    <3>7. NumberTypes' BY <1>0, <2>2, <3>6, Zenon DEF SoftwareSample, Reprobe, NumberTypes
    <3>8. DomainTypes' BY <3>3, Zenon DEF DomainTypes
    <3>9. DomainPure' BY <2>2, <3>3, Zenon DEF SoftwareSample, DomainPure
    <3>10. RecoveryTransactional' BY <1>0, <2>2, Zenon DEF SoftwareSample, RecoveryTransactional
    <3>11. QED BY <3>4, <3>7, <3>8, <3>9, <3>10, Zenon DEF ContextInv
  <2>3. ASSUME CountersLost PROVE ContextInv'
    BY <2>0, <2>3, FailClosedKeeps, ConstantEvals, Zenon DEF CountersLost
  <2>4. ASSUME HardwareSample PROVE ContextInv'
    <3>1. mode = "hardware" /\ history \cup reference \subseteq {"hardware"}
      BY <1>0, <2>4, Zenon DEF HardwareSample, DomainPure
    <3>2. chip \in Temp BY <1>0, Zenon DEF FlagTypes
    <3>3. eval' \in Eval /\ history' \cup reference' \subseteq {"hardware"}
      <4>1. CASE Measure("hardware", TRUE) BY <3>1, <3>2, <4>1, MeasureFacts, Zenon
      <4>2. CASE eval' = NoEval /\ UNCHANGED measureVars
        BY <3>1, <4>2, ConstantEvals, Zenon DEF measureVars
      <4>3. CASE /\ eval' = [throttled |-> FALSE, performance |-> FALSE, temp |-> chip]
                 /\ UNCHANGED measureVars
        BY <3>1, <3>2, <4>3, Zenon DEF measureVars, Eval
      <4>4. QED BY <2>4, <4>1, <4>2, <4>3, Zenon DEF HardwareSample
    <3>4. FlagTypes' BY <1>0, <2>4, <3>3, Zenon DEF HardwareSample, FlagTypes, worldVars
    <3>5. NumberTypes' BY <1>0, <2>4, PerfAssumption DEF HardwareSample, NumberTypes, retryVars
    <3>6. DomainTypes' BY <3>3 DEF DomainTypes
    <3>7. DomainPure' BY <2>4, <3>3, Zenon DEF HardwareSample, DomainPure
    <3>8. RecoveryTransactional' BY <1>0, <2>4, Zenon DEF HardwareSample, RecoveryTransactional
    <3>9. QED BY <3>4, <3>5, <3>6, <3>7, <3>8, Zenon DEF ContextInv
  <2>5. ASSUME NEW stalled \in {zeroRunning, 0}, NoProgress(stalled) PROVE ContextInv'
    <3>1. CASE stalled + 1 < ZeroLimit
      <4>1. FlagTypes'
        BY <1>0, <2>5, <3>1, ConstantEvals, Zenon DEF NoProgress, FlagTypes, worldVars
      <4>2. zeroRunning' = stalled + 1 /\ UNCHANGED <<modeAge, retryVars, selection>>
        BY <2>5, <3>1, Zenon DEF NoProgress
      <4>3. NumberTypes' BY <1>0, <3>1, <4>2, PerfAssumption DEF NumberTypes, retryVars
      <4>4. DomainTypes' /\ DomainPure'
        BY <1>0, <2>5, <3>1, Zenon DEF NoProgress, DomainTypes, DomainPure, measureVars
      <4>5. RecoveryTransactional'
        BY <1>0, <2>5, <3>1, Zenon DEF NoProgress, RecoveryTransactional
      <4>6. QED BY <4>1, <4>3, <4>4, <4>5, Zenon DEF ContextInv
    <3>2. CASE ~(stalled + 1 < ZeroLimit)
      BY <2>0, <2>5, <3>2, FailClosedKeeps, ConstantEvals, Zenon DEF NoProgress
    <3>3. QED BY <3>1, <3>2, Zenon
  <2>6. QED BY <1>4, <2>1, <2>2, <2>3, <2>4, <2>5, Zenon DEF Evaluate
<1>5. ASSUME NotifyTimeout PROVE ContextInv'
  <2>1. FlagTypes' BY <1>0, <1>5, Zenon DEF NotifyTimeout, FlagTypes, worldVars
  <2>2. NumberTypes' BY <1>0, <1>5, Zenon DEF NotifyTimeout, NumberTypes, retryVars
  <2>3. DomainTypes' /\ DomainPure'
    BY <1>0, <1>5, Zenon DEF NotifyTimeout, DomainTypes, DomainPure, measureVars
  <2>4. RecoveryTransactional' BY <1>0, <1>5, Zenon DEF NotifyTimeout, RecoveryTransactional
  <2>5. QED BY <2>1, <2>2, <2>3, <2>4, Zenon DEF ContextInv
<1>6. ASSUME Tick PROVE ContextInv'
  <2>1. PICK d \in 1..MaxStep : Elapse(d) BY <1>6, Zenon DEF Tick
  <2>2. FlagTypes' BY <1>0, <1>6, <2>1, ConstantEvals, Zenon DEF Tick, Elapse, FlagTypes
  <2>3. modeAge' \in 0..Timeout BY <1>0, <2>1 DEF Elapse, Least, NumberTypes
  <2>4. retryIn' \in 0..MaxBackoff BY <1>0, <2>1, PerfAssumption DEF Elapse, NumberTypes
  <2>5. NumberTypes' BY <1>0, <1>6, <2>3, <2>4 DEF Tick, NumberTypes
  <2>6. DomainTypes' /\ DomainPure'
    BY <1>0, <1>6, Zenon DEF Tick, DomainTypes, DomainPure, measureVars
  <2>7. RecoveryTransactional' BY <1>0, <1>6, Zenon DEF Tick, RecoveryTransactional
  <2>8. QED BY <2>2, <2>5, <2>6, <2>7, Zenon DEF ContextInv
<1>7. ASSUME NEW w \in Width, Select(w) PROVE ContextInv'
  <2>1. FlagTypes' BY <1>0, <1>7, Zenon DEF Select, FlagTypes, worldVars
  <2>2. NumberTypes' BY <1>0, <1>7, Zenon DEF Select, NumberTypes, retryVars
  <2>3. DomainTypes' /\ DomainPure'
    BY <1>0, <1>7, Zenon DEF Select, DomainTypes, DomainPure, measureVars
  <2>4. RecoveryTransactional' BY <1>0, <1>7, Zenon DEF Select, RecoveryTransactional
  <2>5. QED BY <2>1, <2>2, <2>3, <2>4, Zenon DEF ContextInv
<1>8. CASE UNCHANGED perfVars
  <2>1. FlagTypes' BY <1>0, <1>8 DEF perfVars, FlagTypes
  <2>2. NumberTypes' BY <1>0, <1>8 DEF perfVars, NumberTypes
  <2>3. DomainTypes' /\ DomainPure' BY <1>0, <1>8, Zenon DEF perfVars, DomainTypes, DomainPure
  <2>4. RecoveryTransactional' BY <1>0, <1>8, Zenon DEF perfVars, RecoveryTransactional
  <2>5. QED BY <2>1, <2>2, <2>3, <2>4, Zenon DEF ContextInv
<1>9. QED BY <1>1, <1>2, <1>3, <1>4, <1>5, <1>6, <1>7, <1>8, Zenon DEF PerfNext

\* A new context satisfies the invariant (struct perf_ctx).
LEMMA ContextInit == PerfInit => ContextInv
<1> SUFFICES ASSUME PerfInit PROVE ContextInv BY Zenon
<1>1. FlagTypes BY Zenon DEF PerfInit, FlagTypes, Temp, Eval, NoEval
<1>2. NumberTypes BY PerfAssumption DEF PerfInit, NumberTypes, Width, SSE41
<1>3. DomainTypes BY DEF PerfInit, DomainTypes
<1>4. DomainPure BY Zenon DEF PerfInit, DomainPure
<1>5. RecoveryTransactional BY Zenon DEF PerfInit, RecoveryTransactional
<1>6. QED BY <1>1, <1>2, <1>3, <1>4, <1>5, Zenon DEF ContextInv

LEMMA ContextInvariant == PerfSpec => []ContextInv
BY ContextInit, ContextStep, PTL DEF PerfSpec

\* The context's fields keep their types, its delays and its stall count their
\* bounds, whatever the machine does (schedule_perf_retry, handle_no_running_progress).
THEOREM ContextTypes == PerfSpec => []PerfTypeOK
<1>1. ContextInv => PerfTypeOK
  BY Zenon DEF ContextInv, FlagTypes, NumberTypes, DomainTypes, PerfTypeOK
<1>2. QED BY <1>1, ContextInvariant, PTL

\* No average, history or reference of one mode is ever in force in the other
\* (perf_set_mode, measure_hardware_baseline, process_measurement).
THEOREM PureDomains == PerfSpec => []DomainPure
<1>1. ContextInv => DomainPure BY Zenon DEF ContextInv
<1>2. QED BY <1>1, ContextInvariant, PTL

\* Healthy counters are published for a validated hardware context only, and the
\* degraded policy is in force exactly in software mode (perf_set_mode,
\* try_recover_hardware).
THEOREM TransactionalRecovery == PerfSpec => []RecoveryTransactional
<1>1. ContextInv => RecoveryTransactional BY Zenon DEF ContextInv
<1>2. QED BY <1>1, ContextInvariant, PTL

\* A wider selection is always made on validated counters, with the transition flags
\* and temperature headroom (tsd_trampoline_patch, tsd_runtime_width_authorized).
THEOREM AuthorizedWidening == PerfSpec => WideningNeedsAuthority
<1>1. ContextInv /\ [PerfNext]_perfVars
        => [selection' > selection
              => mode = "hardware" /\ validated /\ allowed /\ chip = "cool"]_perfVars
  <2> SUFFICES ASSUME ContextInv, PerfNext, selection' > selection
               PROVE  mode = "hardware" /\ validated /\ allowed /\ chip = "cool"
    BY Zenon
  <2>0. NumberTypes /\ RecoveryTransactional BY Zenon DEF ContextInv
  <2>1. selection \in Nat /\ ~(selection > selection) /\ ~(SSE41 > selection)
    BY <2>0 DEF NumberTypes, Width, SSE41
  <2>2. \E w \in Width : Select(w)
    <3>1. ~Start BY <2>1, Zenon DEF Start, EnterSoftware, ForceSSE41, EnterHardware
    <3>2. ~MeasureBaseline
      BY <2>1, Zenon DEF MeasureBaseline, FailClosed, EnterSoftware, ForceSSE41
    <3>3. ~Cleanup BY <2>1, Zenon DEF Cleanup
    <3>4. ~Evaluate
      BY <2>1, Zenon DEF Evaluate, Recover, EnterHardware, SoftwareSample, CountersLost, HardwareSample,
         NoProgress, FailClosed, EnterSoftware, ForceSSE41
    <3>5. ~NotifyTimeout BY <2>1, Zenon DEF NotifyTimeout
    <3>6. ~Tick BY <2>1, Zenon DEF Tick
    <3>7. QED BY <3>1, <3>2, <3>3, <3>4, <3>5, <3>6, Zenon DEF PerfNext
  <2>3. PICK w \in Width : Select(w) BY <2>2, Zenon
  <2>4. w # SSE41 BY <2>1, <2>3, Zenon DEF Select
  <2>5. published /\ allowed /\ chip = "cool" BY <2>3, <2>4, Zenon DEF Select, Authorized
  <2>6. QED BY <2>0, <2>5, Zenon DEF RecoveryTransactional
<1>2. QED BY <1>1, ContextInvariant, PTL DEF PerfSpec, WideningNeedsAuthority

----------------------------------------------------------------------------
(* The monitored context.                                                  *)

\* The initial state satisfies the invariant.
LEMMA LoopInit == MonitorInit => LoopInv
<1> SUFFICES ASSUME MonitorInit PROVE LoopInv BY Zenon
<1>1. ContextInv BY ContextInit, Zenon DEF MonitorInit
<1>2. PlaceInv
  <2>1. LoopTypes BY Zenon DEF MonitorInit, LoopTypes
  <2>2. Monitored BY Zenon DEF MonitorInit, Monitored
  <2>3. WidthTypes BY PerfAssumption DEF MonitorInit, WidthTypes, Width, SSE41
  <2>4. QED BY <2>1, <2>2, <2>3 DEF PlaceInv
<1>3. CounterTypes BY LimitFacts, MonitorAssumption DEF MonitorInit, CounterTypes
<1>4. Measured /\ Considered /\ StableIsCalm /\ OwedIsDue
  BY Zenon DEF MonitorInit, Measured, Considered, StableIsCalm, OwedIsDue
<1>5. QED BY <1>1, <1>2, <1>3, <1>4, Zenon DEF LoopInv

\* Every step keeps the invariant; what it does to the context is a step of PerfMode.
LEMMA LoopStep == LoopInv /\ [MonitorNext]_loopVars => LoopInv'
<1> SUFFICES ASSUME LoopInv, [MonitorNext]_loopVars PROVE LoopInv' BY Zenon
<1>0. /\ ContextInv /\ PlaceInv /\ LoopTypes /\ Monitored /\ WidthTypes
      /\ CounterTypes /\ Measured /\ Considered /\ StableIsCalm /\ OwedIsDue
  BY Zenon DEF LoopInv, PlaceInv
<1>1. ContextInv' BY <1>0, LoopStepRefines, ContextStep, Zenon
<1>2. PlaceInv' BY <1>0, LoopTypesKept, MonitoredKept, WidthTypesKept, Zenon DEF PlaceInv
<1>3. CounterTypes' /\ Measured' /\ Considered'
  BY <1>0, CounterTypesKept, MeasuredKept, ConsideredKept, Zenon
<1>4. StableIsCalm' /\ OwedIsDue' BY <1>0, StableIsCalmKept, OwedIsDueKept, Zenon
<1>5. QED BY <1>1, <1>2, <1>3, <1>4, Zenon DEF LoopInv

LEMMA LoopInvariant == MonitorSpec => []LoopInv
BY LoopInit, LoopStep, PTL DEF MonitorSpec

\* The monitored runtime implements the perf context: no step of the monitor, of its
\* start and stop, or of the threads beside it does to the context what PerfMode does
\* not describe (thermal_monitor_thread, tsd_runtime_start, tsd_runtime_stop).
THEOREM LoopImplementsPerf == MonitorSpec => ImplementsPerf
<1>1. MonitorInit => PerfInit BY Zenon DEF MonitorInit
<1>2. LoopInv /\ [MonitorNext]_loopVars => [PerfNext]_perfVars
  BY LoopStepRefines, Zenon DEF LoopInv
<1>3. QED BY <1>1, <1>2, LoopInvariant, PTL DEF MonitorSpec, ImplementsPerf, PerfSpec

\* The hysteresis widens after up_count calm performance samples in a row, and every
\* count, delay and width stays within its bounds (thermal_monitor_thread).
THEOREM CalmUpgrades == MonitorSpec => []CalmBeforeUpgrade
<1>1. LoopInv => CalmBeforeUpgrade
  <2> SUFFICES ASSUME LoopInv PROVE CalmBeforeUpgrade BY Zenon
  <2>1. PerfTypeOK
    BY Zenon DEF LoopInv, ContextInv, FlagTypes, NumberTypes, DomainTypes, PerfTypeOK
  <2>2. LoopTypes /\ WidthTypes /\ CounterTypes /\ StableIsCalm BY Zenon DEF LoopInv, PlaceInv
  <2>3. MonitorTypeOK BY <2>1, <2>2, Zenon DEF LoopTypes, WidthTypes, CounterTypes, MonitorTypeOK
  <2>4. QED BY <2>2, <2>3, Zenon DEF StableIsCalm, CalmBeforeUpgrade
<1>2. QED BY <1>1, LoopInvariant, PTL

\* A hysteresis downgrade that failed is tried again at the next throttled performance
\* sample: neither dwell, cooldown nor the throttle count hold it back
\* (thermal_monitor_thread).
THEOREM RetriedDowngrade == MonitorSpec => DowngradeRetried
<1>1. LoopInv /\ [MonitorNext]_loopVars
        => [owed /\ pc' # pc /\ eval.performance /\ eval.throttled /\ ~timedOut /\ ~emergency
              => /\ pc = "decide" => pc' # "sleep"
                 /\ pc = "hysteresis" /\ width > SSE41 => pc' = "down"]_loopVars
  <2> SUFFICES ASSUME LoopInv, MonitorNext, owed, pc' # pc, eval.performance, eval.throttled,
                      ~timedOut, ~emergency
               PROVE  /\ pc = "decide" => pc' # "sleep"
                      /\ pc = "hysteresis" /\ width > SSE41 => pc' = "down"
    BY Zenon
  <2>1. CounterTypes /\ Measured /\ OwedIsDue /\ WidthTypes BY Zenon DEF LoopInv, PlaceInv
  <2>2. pc = "decide" => Decide
    BY ZenonT(60) DEF MonitorNext, Sample, Prepare, StartMonitor, ExitMonitor, StopCommits, StopCleansUp, Wake,
       CheckTimeout, EvaluateThermal, SafetyFallback, Recommend, Predict, CountThrottled,
          CountStable,
       Downgrade, Upgrade, SelectElsewhere
  <2>3. pc = "hysteresis" => CountThrottled
    BY Zenon DEF MonitorNext, Sample, Prepare, StartMonitor, ExitMonitor, StopCommits, StopCleansUp, Wake,
       CheckTimeout, EvaluateThermal, Decide, SafetyFallback, Recommend, Predict, CountStable,
       Downgrade, Upgrade, SelectElsewhere
  <2>4. ASSUME pc = "decide" PROVE pc' # "sleep"
    <3>1. EffectiveMinDwell = MinDwell BY <2>1, <2>4, LimitFacts, Zenon DEF Measured
    <3>2. ~(cooldown > 0 \/ dwell < EffectiveMinDwell)
      BY <2>1, <3>1, MonitorAssumption DEF OwedIsDue, CounterTypes
    <3>3. QED BY <2>2, <2>4, <3>2 DEF Decide
  <2>5. ASSUME pc = "hysteresis", width > SSE41 PROVE pc' = "down"
    <3>1. throttle + 1 >= EffectiveDownCount BY <2>1, LimitFacts, MonitorAssumption DEF OwedIsDue
    <3>2. ~(throttle + 1 < EffectiveDownCount \/ width = SSE41)
      BY <2>1, <2>5, <3>1, LimitFacts DEF CounterTypes, SSE41
    <3>3. QED BY <2>3, <2>5, <3>2 DEF CountThrottled
  <2>6. QED BY <2>4, <2>5, Zenon
<1>2. QED BY <1>1, LoopInvariant, PTL DEF MonitorSpec, DowngradeRetried

\* What is proved of the context holds of the monitored runtime: the measurements of the
\* modes stay apart, publications follow the mode, and whoever widens has authority.
THEOREM MonitoredContext ==
  MonitorSpec => [](DomainPure /\ RecoveryTransactional) /\ WideningNeedsAuthority
BY LoopImplementsPerf, PureDomains, TransactionalRecovery, AuthorizedWidening, PTL
   DEF ImplementsPerf
============================================================================
