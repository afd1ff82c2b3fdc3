------------------------------ MODULE PerfMode ------------------------------
(***************************************************************************)
(* The perf context of src/thermal_perf.c: hardware and software mode, the *)
(* re-probe back-off, the software timeout, and what one evaluation does   *)
(* and reports.                                                            *)
(*                                                                         *)
(* Durations are relative: modeAge is the time since mode_entered_at and   *)
(* retryIn the time until perf_retry_deadline_ns.  A measured quantity is  *)
(* reduced to its domain: hardware CPI or software cost.  The optional LLC *)
(* counter only moves the throttle threshold and is left out.              *)
(***************************************************************************)
EXTENDS Naturals

CONSTANTS InitialBackoff,  \* PERF_INITIAL_BACKOFF_SEC
          MaxBackoff,      \* PERF_MAX_BACKOFF_SEC
          Timeout,         \* degraded_timeout_sec
          ZeroLimit,       \* PERF_ZERO_RUNNING_LIMIT
          MaxWidth,        \* the widest width of the host, at most AVX512
          MaxStep          \* bound: the longest time between two samples

ASSUME PerfAssumption ==
  /\ InitialBackoff \in Nat \ {0} /\ MaxBackoff \in Nat /\ InitialBackoff <= MaxBackoff
  /\ Timeout \in Nat \ {0} /\ ZeroLimit \in Nat \ {0}
  /\ MaxWidth \in 0..2 /\ MaxStep \in Nat \ {0}

VARIABLES phase,       \* "absent", "baseline" (start), "live" (monitored)
          mode,        \* ctx->mode
          validated,   \* ctx->hardware_validated
          adaptation,  \* ctx->software_adaptation
          notified,    \* ctx->timeout_notified
          forced,      \* ctx->force_software
          zeroRunning, \* ctx->zero_running_samples
          modeAge, retryIn, backoff,
          history,     \* domains mixed into the EWMAs and the ratio history
          reference,   \* domain of calibrated_cpi_reference and calibrated_work_reference
          degraded,    \* g_tsd_degraded_active
          published,   \* the last publication says: hardware mode, healthy counters
          selection,   \* the width selected by the trampoline
          chip,        \* what the temperature sensors say
          allowed,     \* tsd_runtime_flags_allow_transitions: sandbox and temperature gate
          eval         \* the tsd_thermal_eval_t of the sample under way and the result

perfVars == <<phase, mode, validated, adaptation, notified, forced, zeroRunning, modeAge, retryIn,
              backoff, history, reference, degraded, published, selection, chip, allowed, eval>>
retryVars == <<retryIn, backoff>>
measureVars == <<history, reference>>
worldVars == <<chip, allowed>>

SSE41 == 0
Width == 0..MaxWidth

\* raw package temperature: unavailable; at most ceiling - safety margin; between
\* the limits; at least ceiling + emergency margin
Temp == {"none", "cool", "warm", "hot"}

\* an evaluation: its return value, performance_available, and its temperature
Eval == [throttled : BOOLEAN, performance : BOOLEAN, temp : Temp]
NoEval == [throttled |-> FALSE, performance |-> FALSE, temp |-> "none"]
LostCounters == [throttled |-> TRUE, performance |-> FALSE, temp |-> "none"]

Least(a, b) == IF a <= b THEN a ELSE b

PerfInit ==
  /\ phase = "absent" /\ mode = "none" /\ validated = FALSE /\ adaptation = FALSE
  /\ notified = FALSE /\ forced = FALSE /\ zeroRunning = 0
  /\ modeAge = 0 /\ retryIn = 0 /\ backoff = InitialBackoff
  /\ history = {} /\ reference = {} /\ degraded = FALSE /\ published = FALSE
  /\ selection = SSE41 /\ chip \in Temp /\ allowed \in BOOLEAN /\ eval = NoEval

----------------------------------------------------------------------------
(* Mode changes.                                                           *)

\* schedule_perf_retry with b seconds of back-off in force
ScheduleRetry(b) ==
  IF forced THEN UNCHANGED retryVars
  ELSE /\ retryIn' = Least(b, MaxBackoff)
       /\ backoff' = Least(2 * b, MaxBackoff)

\* select SSE4.1 if something else is selected; the selection may fail
ForceSSE41 == selection' = SSE41 \/ (selection # SSE41 /\ UNCHANGED selection)

\* Mutant of EnterSoftware: the hardware references are kept.
EnterSoftwareKeepsReferences ==
  /\ mode' = "software" /\ validated' = FALSE
  /\ history' = {} /\ UNCHANGED reference
  /\ modeAge' = 0 /\ notified' = FALSE
  /\ degraded' = TRUE /\ published' = FALSE
  /\ ForceSSE41

\* perf_set_mode(TSD_PERF_MODE_SOFTWARE) from another mode
EnterSoftware ==
  /\ mode' = "software" /\ validated' = FALSE
  /\ history' = {} /\ reference' = {}
  /\ modeAge' = 0 /\ notified' = FALSE
  /\ degraded' = TRUE /\ published' = FALSE
  /\ ForceSSE41

\* perf_set_mode(TSD_PERF_MODE_HARDWARE) from another mode
EnterHardware(valid) ==
  /\ mode' = "hardware" /\ validated' = valid
  /\ history' = {}
  /\ modeAge' = 0 /\ notified' = FALSE
  /\ degraded' = FALSE /\ published' = valid
  /\ UNCHANGED selection

\* perf_fail_closed: close the events, schedule a re-probe, enter software mode
FailClosed ==
  /\ zeroRunning' = 0 /\ adaptation' = FALSE
  /\ ScheduleRetry(backoff)
  /\ EnterSoftware

----------------------------------------------------------------------------
(* Start and stop.                                                         *)

\* reset_dynamic_state, tsd_perf_init and tsd_perf_enable.  Counters that do not
\* open, or do not enable, leave software mode with a re-probe scheduled.
Start ==
  /\ phase = "absent" /\ phase' = "baseline"
  /\ zeroRunning' = 0 /\ adaptation' = FALSE
  /\ \/ /\ forced' = TRUE /\ retryIn' = 0 /\ backoff' = InitialBackoff
        /\ EnterSoftware
     \/ /\ forced' = FALSE
        /\ retryIn' = InitialBackoff /\ backoff' = Least(2 * InitialBackoff, MaxBackoff)
        /\ EnterSoftware
     \/ /\ forced' = FALSE /\ retryIn' = 0 /\ backoff' = InitialBackoff
        /\ reference' = {}
        /\ EnterHardware(FALSE)
  /\ UNCHANGED <<worldVars, eval>>

\* tsd_perf_measure_baseline, then the monitor starts
MeasureBaseline ==
  /\ phase = "baseline" /\ phase' = "live"
  /\ \/ /\ mode = "software"
        /\ history' = {"software"} /\ reference' = {"software"}
        /\ adaptation' = TRUE
        /\ UNCHANGED <<mode, validated, notified, zeroRunning, modeAge, retryVars, degraded,
                       published, selection>>
     \/ /\ mode = "hardware"
        /\ history' = {"hardware"} /\ reference' = {"hardware"}
        /\ validated' = TRUE /\ published' = TRUE /\ zeroRunning' = 0
        /\ UNCHANGED <<mode, adaptation, notified, modeAge, retryVars, degraded, selection>>
     \/ mode = "hardware" /\ FailClosed
  /\ UNCHANGED <<forced, worldVars, eval>>

\* tsd_perf_cleanup.  tsd_runtime_stop then resets the degraded overlay; a start
\* that fails leaves it to the next start.
Cleanup ==
  /\ phase = "live" /\ phase' = "absent"
  /\ mode' = "none" /\ validated' = FALSE /\ published' = FALSE
  /\ adaptation' = FALSE /\ notified' = FALSE /\ zeroRunning' = 0 /\ modeAge' = 0
  /\ retryIn' = 0 /\ backoff' = InitialBackoff
  /\ history' = {} /\ reference' = {} /\ eval' = NoEval
  /\ degraded' \in {degraded, FALSE}
  /\ UNCHANGED <<forced, selection, worldVars>>

----------------------------------------------------------------------------
(* tsd_perf_evaluate.                                                      *)

\* process_measurement: the sample joins the history, and the reference if there
\* is none; the severity is a choice
Measure(domain, performance) ==
  /\ history' = history \cup {domain}
  /\ reference' = IF reference = {} THEN {domain} ELSE reference
  /\ \E t \in BOOLEAN : eval' = [throttled |-> t, performance |-> performance, temp |-> chip]

RetryDue == ~forced /\ retryIn = 0

\* Mutant of Recover: a context that has measured in software is not re-probed.
RecoverBeforeAdaptation ==
  /\ mode = "software" /\ RetryDue /\ ~adaptation
  /\ reference' = {"hardware"} /\ EnterHardware(TRUE)
  /\ adaptation' = FALSE /\ zeroRunning' = 0
  /\ retryIn' = 0 /\ backoff' = InitialBackoff
  /\ eval' = NoEval
  /\ UNCHANGED <<phase, forced, worldVars>>

\* try_recover_hardware succeeds: measure_hardware_baseline sets the references,
\* and the mode change then clears the EWMAs
Recover ==
  /\ mode = "software" /\ RetryDue
  /\ reference' = {"hardware"} /\ EnterHardware(TRUE)
  /\ adaptation' = FALSE /\ zeroRunning' = 0
  /\ retryIn' = 0 /\ backoff' = InitialBackoff
  /\ eval' = NoEval
  /\ UNCHANGED <<phase, forced, worldVars>>

\* Mutant of Reprobe: a failed re-probe starts the software timeout again.
ReprobeRestartsTimeout ==
  \/ /\ ~RetryDue /\ UNCHANGED <<retryVars, modeAge>>
  \/ /\ RetryDue
     /\ ScheduleRetry(backoff) \/ ScheduleRetry(InitialBackoff)
     /\ modeAge' = 0

\* a re-probe that is not due, or fails: the events do not open, or they open
\* (open_perf_events resets the back-off) and are rejected by the validation
Reprobe ==
  /\ \/ ~RetryDue /\ UNCHANGED retryVars
     \/ /\ RetryDue
        /\ ScheduleRetry(backoff) \/ ScheduleRetry(InitialBackoff)
  /\ UNCHANGED modeAge

\* the evaluation in software mode that does not recover: the first one only takes
\* its bearings, a sample without work reports nothing
SoftwareSample ==
  /\ mode = "software" /\ Reprobe
  /\ adaptation' = TRUE
  /\ \/ eval' = NoEval /\ UNCHANGED measureVars
     \/ adaptation /\ Measure("software", FALSE)
  /\ UNCHANGED <<phase, mode, validated, notified, forced, zeroRunning, degraded, published,
                 selection, worldVars>>

\* the group cannot be read, has the wrong layout or runs backwards
CountersLost ==
  /\ mode = "hardware" /\ validated
  /\ FailClosed /\ eval' = LostCounters
  /\ UNCHANGED <<phase, forced, worldVars>>

\* handle_no_running_progress.  stalled is the count it finds: zero_running_samples,
\* or 0 when time advanced but the scaled counters did not.
NoProgress(stalled) ==
  /\ mode = "hardware" /\ validated
  /\ IF stalled + 1 < ZeroLimit
     THEN /\ zeroRunning' = stalled + 1 /\ eval' = NoEval
          /\ UNCHANGED <<mode, validated, adaptation, notified, modeAge, retryVars, measureVars,
                         degraded, published, selection>>
     ELSE FailClosed /\ eval' = LostCounters
  /\ UNCHANGED <<phase, forced, worldVars>>

\* the group runs: the owner thread was idle and nothing is reported; it ran but
\* completed no registered work, and only telemetry is reported; or a measurement
HardwareSample ==
  /\ mode = "hardware" /\ validated
  /\ zeroRunning' = 0 /\ published' = TRUE
  /\ \/ eval' = NoEval /\ UNCHANGED measureVars
     \/ eval' = [throttled |-> FALSE, performance |-> FALSE, temp |-> chip] /\ UNCHANGED measureVars
     \/ Measure("hardware", TRUE)
  /\ UNCHANGED <<phase, mode, validated, adaptation, notified, forced, modeAge, retryVars,
                 degraded, selection, worldVars>>

Evaluate ==
  /\ phase = "live"
  /\ \/ Recover \/ SoftwareSample \/ CountersLost \/ HardwareSample
     \/ \E stalled \in {zeroRunning, 0} : NoProgress(stalled)

TimeoutDue == mode = "software" /\ modeAge >= Timeout /\ ~notified

\* tsd_perf_check_software_timeout when it reports
NotifyTimeout ==
  /\ phase = "live" /\ TimeoutDue /\ notified' = TRUE
  /\ UNCHANGED <<phase, mode, validated, adaptation, forced, zeroRunning, modeAge, retryVars,
                 measureVars, degraded, published, selection, worldVars, eval>>

\* d units of time pass, the chip's temperature may change, and the next sample
\* begins with an empty record
Elapse(d) ==
  /\ eval' = NoEval
  /\ modeAge' = Least(modeAge + d, Timeout)
  /\ retryIn' = IF retryIn > d THEN retryIn - d ELSE 0
  /\ chip' \in Temp /\ allowed' \in BOOLEAN

Tick ==
  /\ phase = "live" /\ \E d \in 1..MaxStep : Elapse(d)
  /\ UNCHANGED <<phase, mode, validated, adaptation, notified, forced, zeroRunning, backoff,
                 measureVars, degraded, published, selection>>

\* another thread selects a width; the guard admits wide ones only on hardware
\* counters it believes healthy
Authorized(w) == w = SSE41 \/ (published /\ allowed /\ chip = "cool")

Select(w) ==
  /\ Authorized(w) /\ selection' = w
  /\ UNCHANGED <<phase, mode, validated, adaptation, notified, forced, zeroRunning, modeAge,
                 retryVars, measureVars, degraded, published, worldVars, eval>>

PerfNext ==
  \/ Start \/ MeasureBaseline \/ Cleanup \/ Evaluate \/ NotifyTimeout \/ Tick
  \/ \E w \in Width : Select(w)

PerfSpec == PerfInit /\ [][PerfNext]_perfVars

\* the machine: a re-probe that is due again and again succeeds in the end
CountersReturn == SF_perfVars(phase = "live" /\ Recover)

----------------------------------------------------------------------------
(* Properties.                                                             *)

\* The values of the context's fields.  The re-probe delay and its back-off stay
\* between their initial value and their cap whatever fails, and the group is
\* never stalled for ZeroLimit samples.
PerfTypeOK ==
  /\ phase \in {"absent", "baseline", "live"} /\ mode \in {"none", "hardware", "software"}
  /\ validated \in BOOLEAN /\ adaptation \in BOOLEAN /\ notified \in BOOLEAN
  /\ forced \in BOOLEAN /\ degraded \in BOOLEAN /\ published \in BOOLEAN
  /\ zeroRunning \in 0..(ZeroLimit - 1) /\ modeAge \in 0..Timeout
  /\ retryIn \in 0..MaxBackoff /\ backoff \in InitialBackoff..MaxBackoff
  /\ history \subseteq {"hardware", "software"} /\ reference \subseteq {"hardware", "software"}
  /\ selection \in Width /\ chip \in Temp /\ allowed \in BOOLEAN /\ eval \in Eval

\* thermal_perf.c:196-197: the EWMAs, the ratio history and the calibrated
\* references a ratio is computed from are never from the other mode's domain.
DomainPure == history \cup reference \subseteq {mode}

\* docs/telemetry-fusion.md:145: healthy hardware counters are published only for
\* a validated hardware context, a monitored hardware context is always validated,
\* and the degraded policy is in force exactly in software mode.
RecoveryTransactional ==
  /\ published => mode = "hardware" /\ validated
  /\ phase = "live" /\ mode = "hardware" => validated
  /\ phase # "absent" => mode # "none" /\ (degraded <=> mode = "software")

\* README.md:358-362: whoever selects a wider width than the one in use, and be it a
\* downgrade computed from a stale width, has validated hardware counters, the
\* transition flags and temperature headroom at that moment.
WideningNeedsAuthority ==
  [][selection' > selection
       => mode = "hardware" /\ validated /\ allowed /\ chip = "cool"]_perfVars

\* thermal_perf.c:192: a context that stays in software mode reports its timeout;
\* neither re-probes nor publications start the timeout again.
TimeoutEscalates == phase = "live" /\ mode = "software" ~> notified \/ mode # "software"

\* thermal_perf.c:142, 901: re-probes go on while software mode lasts, so a context
\* gets counters that come back, unless software is forced or the runtime stops.
HardwareRecovers ==
  CountersReturn =>
    (phase = "live" /\ mode = "software" /\ ~forced ~> mode = "hardware" \/ phase = "absent")
=============================================================================
