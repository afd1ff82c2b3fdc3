-------------------------- MODULE TelemetryHelper --------------------------
(***************************************************************************)
(* The direct telemetry helper (src/telemetry_helper.c): which package     *)
(* temperature sensor it trusts, its three sources (temperature, MSR ratio, *)
(* cpufreq ratio), their loss, and their retries with doubling back-off.   *)
(*                                                                         *)
(* Time is what is left until a retry is due.  Sources fail and come back  *)
(* at any moment, also while a scan runs, and between the detection and    *)
(* the reading of one call.                                                *)
(***************************************************************************)
EXTENDS Integers

CONSTANTS Hosts,            \* the machines considered, see HostsAssumption
          InitialBackoff,   \* INITIAL_BACKOFF_SEC
          MaxBackoff,       \* MAX_BACKOFF_SEC
          NoSensor

Drivers == {"x86_pkg_temp", "coretemp", "k10temp", "zenpower", "cpu", "other"}
Words == {"package", "pkg", "tctl", "tdie", "cpu", "core", "none"}
Ratios == {"msr", "cpufreq"}

(* A sensor's label is a word and the package number it carries, -1 if none. *)
Sensors == [path : STRING, driver : Drivers, word : Words, id : Int, home : Nat]

\* A host has thermal zones and hwmon inputs; package is physical_package_id
\* of the helper's CPU, -1 if unknown.
ASSUME HostsAssumption == \A h \in Hosts :
  /\ h.zones \cup h.hwmon \subseteq Sensors /\ h.zones \cap h.hwmon = {}
  /\ NoSensor \notin h.zones \cup h.hwmon
  /\ h.package \in Int /\ h.package >= -1 /\ h.packages \in Nat

\* Labels tell the truth: the number a label carries is that of its package.
ASSUME LabelsAssumption == \A h \in Hosts : \A s \in h.zones \cup h.hwmon : s.id \in {-1, s.home}

ASSUME BackoffAssumption == InitialBackoff \in Nat \ {0} /\ MaxBackoff \in Nat /\ MaxBackoff >= InitialBackoff

VARIABLES host,     \* the machine, fixed at the start
          up,       \* the temperature sensors that answer at present
          ratioUp,  \* the ratio sources that answer at present
          ready,    \* the helper is initialised
          sensor,   \* temp_path, NoSensor when none is selected
          open,     \* the ratio sources held: msr_available, freq_sysfs_available
          primed,   \* last_mperf is set
          retry,    \* per source, time left to the deadline and the next back-off
          fds,      \* MSR descriptors this process holds
          scan,     \* the detection in progress: the best candidate so far, the
                    \* candidates still to come and (history) those that answered
          place,       \* the step of the call in progress
          out       \* what the call has filled in

telemetryVars == <<host, up, ratioUp, ready, sensor, open, primed, retry, fds, scan, place, out>>

Source == {"temp"} \cup Ratios
Candidates(h) == h.zones \cup h.hwmon
RetryState == [wait : 0..MaxBackoff, backoff : InitialBackoff..MaxBackoff]
NoData == [temp |-> NoSensor, ratio |-> "none"]
FreshRetry == [wait |-> 0, backoff |-> InitialBackoff]

----------------------------------------------------------------------------
(* Which sensor: detect_temp_sensor and what it calls.                     *)

DriverScore == [d \in Drivers |->
  CASE d = "x86_pkg_temp" -> 120 [] d \in {"coretemp", "k10temp"} -> 110
    [] d = "zenpower" -> 105 [] d = "cpu" -> 50 [] OTHER -> 0]
WordScore == [w \in Words |->
  CASE w = "package" -> 100 [] w = "pkg" -> 90 [] w = "tctl" -> 85 [] w = "tdie" -> 80
    [] w = "cpu" -> 50 [] w = "core" -> 10 [] OTHER -> 0]

\* the decimal digits of n begin with those of p and go on
BeginsWith(n, p) == p > 0 /\ n > p /\ \E k \in 1..3 : n \div (10 ^ k) = p

\* strstr: the digits of p occur right after the word, whatever follows them
Mentions(s, p) == p >= 0 /\ s.word \in {"package", "pkg"} /\ (s.id = p \/ BeginsWith(s.id, p))

CandidateScore(s, p) ==
  DriverScore[s.driver] + (IF Mentions(s, p) THEN 150 ELSE WordScore[s.word])

\* what the scans offer to consider_temp_candidate
Offers(h, s) == IF s \in h.zones THEN CandidateScore(s, h.package) >= 50
                                 ELSE DriverScore[s.driver] > 0

NoBest == [sensor |-> NoSensor, score |-> -1, explicit |-> FALSE, ambiguous |-> FALSE]
NoScan == [best |-> NoBest, todo |-> {}, seen |-> {}]

\* Mutant of Consider: a later candidate of the same rank takes over silently.
ConsiderLast(best, s, p) ==
  LET score == CandidateScore(s, p)
      explicit == Mentions(s, p)
  IN  IF score >= best.score
      THEN [sensor |-> s, score |-> score, explicit |-> explicit, ambiguous |-> FALSE]
      ELSE best

\* one candidate against the best so far
Consider(best, s, p) ==
  LET score == CandidateScore(s, p)
      explicit == Mentions(s, p)
  IN  IF score > best.score \/ (score = best.score /\ explicit /\ ~best.explicit)
      THEN [sensor |-> s, score |-> score, explicit |-> explicit, ambiguous |-> FALSE]
      ELSE [best EXCEPT !.ambiguous = @ \/ (score = best.score /\ explicit = best.explicit)]

\* the refusals after both scans
Accepted(h, best) ==
  IF \/ h.packages > 1 /\ (h.package < 0 \/ ~best.explicit)
     \/ h.package >= 0 /\ best.ambiguous /\ ~best.explicit
  THEN NoSensor ELSE best.sensor

\* detect_temp_sensor forgets the sensor and starts the scans.
StartScan ==
  /\ sensor' = NoSensor
  /\ scan' = [best |-> NoBest, todo |-> Candidates(host), seen |-> {}]
  /\ place' = "scan"

\* The next entry, the thermal zones first; the directories list in any order.  A
\* sensor counts only when it can be read at this moment.
ScanCandidate ==
  /\ place = "scan"
  /\ \E s \in scan.todo :
       /\ s \in host.hwmon => scan.todo \cap host.zones = {}
       /\ scan' = IF s \in up /\ Offers(host, s)
                  THEN [best |-> Consider(scan.best, s, host.package),
                        todo |-> scan.todo \ {s}, seen |-> scan.seen \cup {s}]
                  ELSE [scan EXCEPT !.todo = @ \ {s}]
  /\ UNCHANGED <<host, up, ratioUp, ready, sensor, open, primed, retry, fds, place, out>>

----------------------------------------------------------------------------
(* Retries.                                                                *)

Capped(seconds) == IF seconds < MaxBackoff THEN seconds ELSE MaxBackoff

\* schedule_retry
Scheduled(r) == [wait |-> Capped(r.backoff), backoff |-> Capped(2 * r.backoff)]

Schedule(x) == retry' = [retry EXCEPT ![x] = Scheduled(@)]

\* reset_retry
ResetRetry(x) == retry' = [retry EXCEPT ![x] = FreshRetry]

Due(x) == retry[x].wait = 0

----------------------------------------------------------------------------
(* tsd_telemetry_helper_init and _destroy                                  *)

TelemetryInit ==
  /\ host \in Hosts
  /\ up \in SUBSET Candidates(host) /\ ratioUp \in SUBSET Ratios
  /\ ready = FALSE /\ sensor = NoSensor /\ open = {} /\ primed = FALSE
  /\ retry = [x \in Source |-> FreshRetry] /\ fds = 0 /\ scan = NoScan
  /\ place = "idle" /\ out = NoData

\* The helper is cleared, and the first scan begins.
HelperInit ==
  /\ ~ready /\ place = "idle"
  /\ open' = {} /\ primed' = FALSE /\ retry' = [x \in Source |-> FreshRetry] /\ out' = NoData
  /\ StartScan
  /\ UNCHANGED <<host, up, ratioUp, ready, fds>>

\* After the scan, the cpufreq files and the MSR device; only the failure of the last
\* one schedules a retry.
HelperReady ==
  /\ place = "scan" /\ scan.todo = {} /\ ~ready /\ ready' = TRUE
  /\ sensor' = Accepted(host, scan.best)
  /\ open' = ratioUp
  /\ retry' = IF "msr" \in ratioUp THEN retry ELSE [retry EXCEPT !["msr"] = Scheduled(@)]
  /\ fds' = IF "msr" \in ratioUp THEN fds + 1 ELSE fds
  /\ scan' = NoScan /\ place' = "idle"
  /\ UNCHANGED <<host, up, ratioUp, primed, out>>

HelperDestroy ==
  /\ ready /\ place = "idle" /\ ready' = FALSE
  /\ open' = open \ {"msr"}
  /\ fds' = IF "msr" \in open THEN fds - 1 ELSE fds
  /\ UNCHANGED <<host, up, ratioUp, sensor, primed, retry, scan, place, out>>

----------------------------------------------------------------------------
(* tsd_telemetry_helper_sample                                             *)

SampleEnter ==
  /\ ready /\ place = "idle"
  /\ place' = "temp" /\ out' = NoData
  /\ UNCHANGED <<host, up, ratioUp, ready, sensor, open, primed, retry, fds, scan>>

\* Mutant of DetectTemp: a call that comes too early schedules the retry anew.
DetectTempPostponed ==
  /\ place = "temp"
  /\ \/ /\ sensor # NoSensor
        /\ place' = "readtemp" /\ UNCHANGED <<sensor, scan, retry>>
     \/ /\ sensor = NoSensor /\ ~Due("temp")
        /\ Schedule("temp") /\ place' = "msr" /\ UNCHANGED <<sensor, scan>>
     \/ /\ sensor = NoSensor /\ Due("temp")
        /\ StartScan /\ UNCHANGED retry
  /\ UNCHANGED <<host, up, ratioUp, ready, open, primed, fds, out>>

\* sample_temperature, the part that looks for a sensor
DetectTemp ==
  /\ place = "temp"
  /\ \/ /\ sensor # NoSensor
        /\ place' = "readtemp" /\ UNCHANGED <<sensor, scan, retry>>
     \/ /\ sensor = NoSensor /\ ~Due("temp")
        /\ place' = "msr" /\ UNCHANGED <<sensor, scan, retry>>
     \/ /\ sensor = NoSensor /\ Due("temp")
        /\ StartScan /\ UNCHANGED retry
  /\ UNCHANGED <<host, up, ratioUp, ready, open, primed, fds, out>>

\* ... and what it makes of the outcome
SensorDetected ==
  /\ place = "scan" /\ scan.todo = {} /\ ready
  /\ sensor' = Accepted(host, scan.best)
  /\ IF sensor' = NoSensor
     THEN Schedule("temp") /\ place' = "msr"
     ELSE ResetRetry("temp") /\ place' = "readtemp"
  /\ scan' = NoScan
  /\ UNCHANGED <<host, up, ratioUp, ready, open, primed, fds, out>>

\* sample_temperature, the reading
ReadTemp ==
  /\ place = "readtemp" /\ place' = "msr"
  /\ IF sensor \in up
     THEN out' = [out EXCEPT !.temp = sensor] /\ UNCHANGED <<sensor, retry>>
     ELSE sensor' = NoSensor /\ Schedule("temp") /\ UNCHANGED out
  /\ UNCHANGED <<host, up, ratioUp, ready, open, primed, fds, scan>>

\* sample_msr_ratio, the part that reopens the device
OpenMsr ==
  /\ place = "msr"
  /\ \/ /\ "msr" \in open
        /\ place' = "readmsr" /\ UNCHANGED <<open, fds, retry>>
     \/ /\ "msr" \notin open /\ ~Due("msr")
        /\ place' = "cpufreq" /\ UNCHANGED <<open, fds, retry>>
     \/ /\ "msr" \notin open /\ Due("msr")
        /\ IF "msr" \in ratioUp
           THEN open' = open \cup {"msr"} /\ fds' = fds + 1 /\ ResetRetry("msr") /\ place' = "readmsr"
           ELSE Schedule("msr") /\ place' = "cpufreq" /\ UNCHANGED <<open, fds>>
  /\ UNCHANGED <<host, up, ratioUp, ready, sensor, primed, out, scan>>

\* Mutant of DropMsr: the device is given up without being closed.
DropMsrUnclosed == open' = open \ {"msr"} /\ Schedule("msr") /\ UNCHANGED fds

DropMsr == open' = open \ {"msr"} /\ Schedule("msr") /\ fds' = fds - 1

\* sample_msr_ratio, the reading: a ratio needs an earlier reading, and
\* counters that moved on since
ReadMsr ==
  /\ place = "readmsr"
  /\ \/ /\ "msr" \notin ratioUp
        /\ DropMsr /\ place' = "cpufreq" /\ UNCHANGED <<primed, out>>
     \/ /\ "msr" \in ratioUp /\ primed
        /\ out' = [out EXCEPT !.ratio = "msr"]
        /\ place' = "idle" /\ UNCHANGED <<open, retry, fds, primed>>
     \/ /\ "msr" \in ratioUp
        /\ primed' = TRUE
        /\ place' = "cpufreq" /\ UNCHANGED <<open, retry, fds, out>>
  /\ UNCHANGED <<host, up, ratioUp, ready, sensor, scan>>

\* sample_cpufreq_ratio, the part that looks for the cpufreq files
DetectCpufreq ==
  /\ place = "cpufreq"
  /\ \/ /\ "cpufreq" \in open
        /\ place' = "readcpufreq" /\ UNCHANGED <<open, retry>>
     \/ /\ "cpufreq" \notin open /\ ~Due("cpufreq")
        /\ place' = "idle" /\ UNCHANGED <<open, retry>>
     \/ /\ "cpufreq" \notin open /\ Due("cpufreq")
        /\ IF "cpufreq" \in ratioUp
           THEN open' = open \cup {"cpufreq"} /\ ResetRetry("cpufreq") /\ place' = "readcpufreq"
           ELSE Schedule("cpufreq") /\ place' = "idle" /\ UNCHANGED open
  /\ UNCHANGED <<host, up, ratioUp, ready, sensor, primed, fds, out, scan>>

\* sample_cpufreq_ratio, the reading
ReadCpufreq ==
  /\ place = "readcpufreq" /\ place' = "idle"
  /\ IF "cpufreq" \in ratioUp
     THEN out' = [out EXCEPT !.ratio = "cpufreq"] /\ UNCHANGED <<open, retry>>
     ELSE open' = open \ {"cpufreq"} /\ Schedule("cpufreq") /\ UNCHANGED out
  /\ UNCHANGED <<host, up, ratioUp, ready, sensor, primed, fds, scan>>

----------------------------------------------------------------------------
(* The environment: the monotonic clock, and the files under /sys and /dev. *)

ClockTick ==
  /\ \E x \in Source : retry[x].wait > 0
  /\ retry' = [x \in Source |-> [retry[x] EXCEPT !.wait = IF @ > 0 THEN @ - 1 ELSE 0]]
  /\ UNCHANGED <<host, up, ratioUp, ready, sensor, open, primed, fds, scan, place, out>>

rest == <<host, ready, sensor, open, primed, retry, fds, scan, place, out>>

SensorFails(s) == s \in up /\ up' = up \ {s} /\ UNCHANGED <<rest, ratioUp>>
SensorReturns(s) == s \notin up /\ up' = up \cup {s} /\ UNCHANGED <<rest, ratioUp>>
RatioFails(x) == x \in ratioUp /\ ratioUp' = ratioUp \ {x} /\ UNCHANGED <<rest, up>>
RatioReturns(x) == x \notin ratioUp /\ ratioUp' = ratioUp \cup {x} /\ UNCHANGED <<rest, up>>

SampleStep ==
  \/ DetectTemp \/ ScanCandidate \/ SensorDetected \/ ReadTemp
  \/ OpenMsr \/ ReadMsr \/ DetectCpufreq \/ ReadCpufreq

TelemetryNext ==
  \/ HelperInit \/ HelperReady \/ HelperDestroy
  \/ SampleEnter \/ SampleStep
  \/ ClockTick
  \/ \E s \in Candidates(host) : SensorFails(s) \/ SensorReturns(s)
  \/ \E x \in Ratios : RatioFails(x) \/ RatioReturns(x)

TelemetrySpec == TelemetryInit /\ [][TelemetryNext]_telemetryVars

\* the monitor samples again and again, a call ends, and time passes
TelemetryFairSpec ==
  /\ TelemetrySpec
  /\ WF_telemetryVars(SampleEnter) /\ WF_telemetryVars(SampleStep) /\ WF_telemetryVars(ClockTick)

----------------------------------------------------------------------------
(* Properties.                                                             *)

BestType == [sensor : Candidates(host) \cup {NoSensor}, score : Int,
             explicit : BOOLEAN, ambiguous : BOOLEAN]
ScanType == [best : BestType, todo : SUBSET Candidates(host), seen : SUBSET Candidates(host)]

\* The helper's state has its type; in particular no delay ever exceeds
\* MAX_BACKOFF_SEC, however often the back-off of schedule_retry doubles.
TelemetryTypeOK ==
  /\ host \in Hosts /\ up \subseteq Candidates(host) /\ ratioUp \subseteq Ratios
  /\ ready \in BOOLEAN /\ primed \in BOOLEAN
  /\ sensor \in Candidates(host) \cup {NoSensor}
  /\ open \subseteq Ratios
  /\ retry \in [Source -> RetryState]
  /\ fds \in Nat
  /\ scan \in ScanType
  /\ place \in {"idle", "scan", "temp", "readtemp", "msr", "readmsr", "cpufreq", "readcpufreq"}
  /\ out \in [temp : Candidates(host) \cup {NoSensor}, ratio : Ratios \cup {"none"}]

\* How much a candidate is preferred: the label with the CPU's package breaks a tie.
Rank(s) == 2 * CandidateScore(s, host.package) + (IF Mentions(s, host.package) THEN 1 ELSE 0)

\* A newly selected sensor outranks every other candidate that answered in its scan,
\* or is one of several labelled with the CPU's package, or the package is unknown,
\* whatever order the directories list in and whichever sensors come and go meanwhile
\* (detect_temp_sensor).  So on a host with several packages the temperature a call
\* delivers is that of the CPU's own package, or of one whose number begins with the
\* digits of the CPU's: label_mentions_package matches a substring.
SensorIsOwn ==
  /\ [](host.packages > 1 /\ out.temp # NoSensor =>
          out.temp.home = host.package \/ BeginsWith(out.temp.home, host.package))
  /\ [][sensor' # sensor /\ sensor' # NoSensor =>
          /\ sensor' \in scan.seen
          /\ \A s \in scan.seen \ {sensor'} :
               /\ Rank(s) <= Rank(sensor')
               /\ Rank(s) = Rank(sensor') =>
                    Mentions(sensor', host.package) \/ host.package < 0]_telemetryVars

\* What detect_temp_sensor says of itself (telemetry_helper.c:298-301): it prefers no
\* temperature to "silently using another socket's temperature".  The code breaks this
\* where package 10 stands beside package 1: both labels mention package 1, and two
\* explicit matches of one score are no ambiguity to it, so the first one listed wins.
NoOtherSocket == host.packages > 1 /\ out.temp # NoSensor => out.temp.home = host.package

\* The process holds one MSR descriptor exactly while the helper counts the device
\* as open: losses, reopenings, destroy and a new init leak none.  And a source in
\* use has no retry pending and the initial back-off, so that its next loss is first
\* retried after INITIAL_BACKOFF_SEC.
SourcesConsistent ==
  /\ TelemetryTypeOK
  /\ fds = IF "msr" \in open THEN 1 ELSE 0
  /\ ready => /\ sensor # NoSensor => retry["temp"] = FreshRetry
              /\ \A x \in open : retry[x] = FreshRetry

\* With every sensor up some candidate is offered, and the highest-ranked ones leave
\* detect_temp_sensor no reason to refuse.
SensorCanBeTold ==
  LET offered == {s \in Candidates(host) : Offers(host, s)}
      top == {s \in offered : \A r \in offered : Rank(r) <= Rank(s)}
      explicit == host.package >= 0 /\ \A s \in top : Mentions(s, host.package)
  IN  /\ top # {}
      /\ host.packages > 1 => explicit
      /\ explicit \/ host.package < 0 \/ \A r, s \in top : r = s

\* Once every source of a host whose sensor can be told stays up, calls
\* eventually deliver a temperature and a ratio each time: no back-off or
\* half-finished detection keeps a source lost.
SourcesRecover ==
  <>[](ready /\ up = Candidates(host) /\ ratioUp = Ratios /\ SensorCanBeTold)
    => <>[](place = "idle" => out.temp # NoSensor /\ out.ratio # "none")
============================================================================
