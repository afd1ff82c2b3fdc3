-------------------------- MODULE PolicyController --------------------------
(***************************************************************************)
(* The predictive policy: the C interface of                               *)
(* src/policy/dispatcher_policy.cpp, the controller of                     *)
(* src/policy/mpc_controller.cpp and the temperature model of              *)
(* src/policy/arx_model.cpp.  One thread, the monitor, makes all calls.    *)
(*                                                                         *)
(* The score of a width is computed without rounding, in integers: ratios, *)
(* temperatures and discounts are counted in parts of Unit to the whole,   *)
(* and the weights in twentieths.  What a coefficient file predicts is any *)
(* temperature; its order, window and width effects are kept.  The value   *)
(* of the residual, the severities and what is published for observability *)
(* are left out.                                                           *)
(***************************************************************************)
EXTENDS Integers, Sequences

CONSTANTS Temps, NoTemp,         \* temperatures a sample or a forecast may have
          Performance,           \* pairs of a ratio and a trimmed ratio, 0 for none
          MaxWidth,              \* the widest width of the host
          Horizon,               \* forecast_horizon
          Unit,                  \* parts of a whole
          Alpha,                 \* predictive_alpha, the weight of the trend, in parts
          SloRatio, SloTemp, PenaltyUp, PenaltyDown,
          Ceiling, SafetyMargin, EmergencyMargin,
          Files,                 \* coefficient files: terms of the temperature, longest
                                 \* other list, window, heat and gain of a width step
          Defaults,              \* what the model has before it loads one
          HardCost               \* kHardConstraintCost

ASSUME WidthAssumption == MaxWidth \in 0..2
ASSUME HorizonAssumption == Horizon \in Nat \ {0}
ASSUME LimitAssumption == /\ Temps \subseteq Int /\ NoTemp \notin Int
                          /\ Ceiling \in Nat /\ SafetyMargin \in Nat /\ EmergencyMargin \in Nat
ASSUME FileAssumption ==
  /\ Files \subseteq [terms : Nat, others : Nat, window : Nat, heat : Int, gain : Int]
  /\ Defaults \in [terms : Nat, others : Nat, window : Nat \ {0}, heat : Nat, gain : Nat]
ASSUME ScoreAssumption == Performance \subseteq Nat \X Nat
                          /\ SloRatio \in Nat /\ SloTemp \in Int
                          /\ PenaltyUp \in Nat /\ PenaltyDown \in Nat /\ HardCost \in Nat

VARIABLES present,    \* the policy state exists
          limits,     \* the temperature limits of the runtime: all in range, a margin
                      \* out of range, or the ceiling out of range
          loaded,     \* coefficients_loaded_
          model,      \* the coefficients last parsed
          window, limit,  \* staleness_window_ in ticks, history_limit_
          history,    \* history_, the newest sample last
          age,        \* ticks since the newest sample was pushed
          forecast,   \* last_prediction_valid_
          residual,   \* residual_valid_, and the sample its forecast was compared with
          fallback,   \* fallback_active
          last,       \* last_temp_*, once have_sample
          suspect,    \* history: a call has thrown since the last completed reset
          sampled     \* history: a sample has come since the last forecast was made

controller == <<loaded, model, window, limit, history, age, forecast, residual, sampled>>
state == <<present, limits, fallback, last, suspect>>
vars == <<controller, state>>

Width == 0..MaxWidth
Sample == [temp : Temps \cup {NoTemp}, ratio : Nat, trimmed : Nat]
Coefficients == [terms : Nat, others : Nat, window : Nat \ {0}, heat : Nat, gain : Nat]

Larger(a, b) == IF a > b THEN a ELSE b
Smaller(a, b) == IF a < b THEN a ELSE b
Positive(x) == Larger(x, 0)

Init ==
  /\ present = FALSE /\ limits = "valid" /\ fallback = FALSE /\ last = NoTemp /\ suspect = FALSE
  /\ loaded = FALSE /\ model = Defaults /\ window = Defaults.window /\ limit = Horizon
  /\ history = <<>> /\ age = 0 /\ forecast = FALSE /\ residual = "none" /\ sampled = FALSE

----------------------------------------------------------------------------
(* Sums and powers.                                                        *)

\* f[1] + ... + f[n]
Total(f, n) == LET sum[k \in 0..n] == IF k = 0 THEN 0 ELSE sum[k - 1] + f[k] IN sum[n]

\* the parts left of a whole that is halved, or discounted by a tenth, at every step
Halved[n \in 0..Horizon] == IF n = 0 THEN Unit ELSE Halved[n - 1] \div 2
Discount[n \in 0..Horizon] == IF n = 0 THEN Unit ELSE 9 * (Discount[n - 1] \div 10)

\* Nothing that is divided leaves a remainder.
ASSUME UnitAssumption ==
  /\ Unit \in Nat \ {0} /\ \A n \in 1..Horizon : Unit % n = 0 /\ Halved[n - 1] % 2 = 0
  /\ Alpha \in 0..Unit
  /\ \A n \in 1..(Horizon - 1) : Alpha % n = 0 /\ Discount[n - 1] % 10 = 0

----------------------------------------------------------------------------
(* Forecasts, over the part of the history within the horizon.             *)

Span == Smaller(Len(history), Horizon)
Recent(i) == history[Len(history) - Span + i]
Newest == Recent(Span)
Oldest == Recent(1)

\* computeForecastRatio
RatioOf(s) == IF s.trimmed > 0 THEN s.trimmed ELSE s.ratio
ForecastRatio == Total([i \in 1..Span |-> RatioOf(Recent(i))], Span) * (Unit \div Span)

\* The weighted change of the ratio over a number of samples.
Trend(steps) ==
  IF Span > 1 THEN (Newest.ratio - Oldest.ratio) * steps * (Alpha \div (Span - 1)) ELSE 0

\* required_history_
Required(m) == Larger(m.terms, m.others)

\* ARXModel::predict has what it needs; its value may still overflow.
Predicts ==
  /\ loaded /\ Len(history) >= Required(model)
  /\ \A i \in 0..(model.terms - 1) : history[Len(history) - i].temp # NoTemp

\* The average of the valid temperatures, or none.
AverageTemp ==
  LET valid(i) == Recent(i).temp # NoTemp
      count == Total([i \in 1..Span |-> IF valid(i) THEN 1 ELSE 0], Span)
      sum == Total([i \in 1..Span |-> IF valid(i) THEN Recent(i).temp ELSE 0], Span)
  IN IF count = 0 THEN NoTemp ELSE sum * (Unit \div count)

\* computeForecastTemperature: never below the newest temperature when the model predicts.
ForecastTemps ==
  [by : {"average"}, temp : {AverageTemp}] \cup
  (IF Predicts THEN {[by |-> "model", temp |-> Unit * Larger(p, Newest.temp)] : p \in Temps}
   ELSE {})

----------------------------------------------------------------------------
(* The score of a width, and the choice among the widths.                  *)

\* The part of a width's effect that is felt after a step: a half, three quarters, ...
Response(step) == Unit - Halved[step]

\* Mutant of ProjectedRatio: any change of width is taken to help.
ProjectedRatioUnsigned(ratio, move, step) ==
  Positive((ratio + Trend(step)) - Larger(move, -move) * model.gain * Response(step))

ProjectedRatio(ratio, move, step) ==
  Positive((ratio + Trend(step)) - move * model.gain * Response(step))

ProjectedTemp(move, step, temp) == temp + move * model.heat * Response(step)

RatioCost(ratio) == 80 * Positive(ratio - Unit * SloRatio) + ratio

\* A target of 0 is none.
SoftTempCost(projected) ==
  IF SloTemp = 0 THEN 0 ELSE 5 * Positive(projected - Unit * SloTemp)

\* Mutant of HardCostOf: crossing the ceiling costs its excess only.
HardCostSoft(candidate, projected) ==
  IF limits = "badCeiling" THEN (IF candidate > 0 THEN 20 * Unit * HardCost ELSE 0)
  ELSE IF projected # NoTemp /\ projected > Unit * Ceiling THEN 20 * (projected - Unit * Ceiling) ELSE 0

\* The price of crossing the ceiling, or of a wide candidate when there is no valid one.
HardCostOf(candidate, projected) ==
  IF limits = "badCeiling" THEN (IF candidate > 0 THEN 20 * Unit * HardCost ELSE 0)
  ELSE IF projected # NoTemp /\ projected > Unit * Ceiling
       THEN 20 * Unit * HardCost + 20 * (projected - Unit * Ceiling)
       ELSE 0

TempCost(candidate, move, step, temp) ==
  IF temp = NoTemp THEN HardCostOf(candidate, NoTemp)
  ELSE LET projected == ProjectedTemp(move, step, temp)
       IN SoftTempCost(projected) + HardCostOf(candidate, projected)

Penalty(move) ==
  20 * Unit * Unit * (IF move < 0 THEN PenaltyDown * (-move) ELSE PenaltyUp * move)

\* scoreWidth, one step of the rollout ...
StepCost(current, ratio, temp, candidate, step) ==
  Discount[step - 1] * (RatioCost(ProjectedRatio(ratio, candidate - current, step))
                        + TempCost(candidate, candidate - current, step, temp))

\* ... and all of it, for every candidate the host has
Rollout(current, ratio, temp, candidate) ==
  Total([step \in 1..Span |-> StepCost(current, ratio, temp, candidate, step)], Span)

Scores(current, temp) ==
  LET ratio == ForecastRatio
  IN [candidate \in Width |-> Rollout(current, ratio, temp, candidate) + Penalty(candidate - current)]

StabilityMargin == 5 * Unit * Unit            \* 0.25 and 1.0
MinImprovement == 20 * Unit * Unit

\* The loop over the candidates: the current width first, then from narrow to wide.
Better(cost, best, candidate) ==
  IF candidate <= MaxWidth /\ cost[candidate] + StabilityMargin < cost[best] THEN candidate ELSE best

Choice(current, temp) ==
  LET cost == Scores(current, temp)
      best == Better(cost, Better(cost, Better(cost, current, 0), 1), 2)
  IN IF cost[current] - cost[best] < MinImprovement THEN current ELSE best

----------------------------------------------------------------------------
(* Coefficients.  A failed load keeps the width effects parsed before.     *)

\* parseContent: no temperature term and negative width effects are refused, and a
\* window of zero becomes one.
ParseAccepts(f) == f.terms > 0 /\ f.heat >= 0 /\ f.gain >= 0
Parsed(f) == [f EXCEPT !.window = Larger(@, 1)]

LoadSucceeds(m) ==
  /\ loaded' = TRUE /\ model' = m /\ window' = m.window
  /\ limit' = Larger(Horizon, Required(m))
  /\ residual' = "none"

LoadFails(r) ==
  /\ loaded' = FALSE /\ window' = Defaults.window /\ limit' = Horizon
  /\ residual' = r /\ UNCHANGED model

\* Any file may be there, or none that can be read.
Load(r) ==
  \/ \E f \in Files : IF ParseAccepts(f) THEN LoadSucceeds(Parsed(f)) ELSE LoadFails(r)
  \/ LoadFails(r)

\* MPCController::reset
ClearController ==
  /\ history' = <<>> /\ age' = 0 /\ forecast' = FALSE /\ sampled' = FALSE
  /\ Load("none")

----------------------------------------------------------------------------
(* The calls of the monitor.                                               *)

\* A create call that throws deletes the state and returns no policy.
Create ==
  /\ ~present
  /\ present' = TRUE
  /\ limits' \in {"valid", "badMargin", "badCeiling"}
  /\ fallback' = FALSE /\ last' = NoTemp /\ suspect' = FALSE
  /\ ClearController

Destroy ==
  /\ present
  /\ present' = FALSE
  /\ fallback' = FALSE /\ last' = NoTemp /\ suspect' = FALSE /\ limits' = "valid"
  /\ loaded' = FALSE /\ model' = Defaults /\ window' = Defaults.window /\ limit' = Horizon
  /\ history' = <<>> /\ age' = 0 /\ forecast' = FALSE /\ residual' = "none" /\ sampled' = FALSE

Reset ==
  /\ present
  /\ fallback' = FALSE /\ last' = NoTemp /\ suspect' = FALSE
  /\ ClearController
  /\ UNCHANGED <<present, limits>>

enterFailClosed == fallback' = TRUE /\ suspect' = TRUE

\* The load of a reset throws: the controller is already cleared.
ResetThrows ==
  /\ present
  /\ enterFailClosed
  /\ history' = <<>> /\ age' = 0 /\ forecast' = FALSE /\ residual' = "none" /\ sampled' = FALSE
  /\ window' = Defaults.window /\ limit' = Horizon
  /\ UNCHANGED <<present, limits, last, loaded, model>>

\* Mutant of MeetForecast: a forecast waits for the next valid temperature.
MeetForecastLate(temp) ==
  /\ residual' = IF forecast /\ temp # NoTemp THEN (IF sampled THEN "later" ELSE "next") ELSE residual
  /\ forecast' = (forecast /\ temp = NoTemp)

\* What pushSample does before it appends: the forecast meets the sample, the next one
\* after it was made or a later one, and is dropped.
MeetForecast(temp) ==
  /\ residual' = IF forecast /\ temp # NoTemp THEN (IF sampled THEN "later" ELSE "next") ELSE residual
  /\ forecast' = FALSE

\* raw decides on upgrades and emergencies; the controller takes the filtered one first.
Record ==
  /\ present
  /\ \E raw, filtered \in Temps \cup {NoTemp}, p \in Performance :
       LET temp == IF filtered # NoTemp THEN filtered ELSE raw
           pushed == Append(history, [temp |-> temp, ratio |-> p[1], trimmed |-> p[2]])
       IN /\ last' = raw
          /\ MeetForecast(temp)
          /\ history' = SubSeq(pushed, Positive(Len(pushed) - limit) + 1, Len(pushed))
  /\ age' = 0 /\ sampled' = TRUE
  /\ UNCHANGED <<present, limits, fallback, suspect, loaded, model, window, limit>>

\* The append throws: the sample is lost for the controller.
RecordThrows ==
  /\ present
  /\ \E raw, filtered \in Temps \cup {NoTemp} :
       last' = raw /\ MeetForecast(IF filtered # NoTemp THEN filtered ELSE raw)
  /\ enterFailClosed /\ sampled' = TRUE
  /\ UNCHANGED <<present, limits, loaded, model, window, limit, history, age>>

ValidLimits == limits = "valid"
Emergency(current) ==
  last # NoTemp /\ current > 0 /\ (ValidLimits => last >= Ceiling + EmergencyMargin)

\* Mutant of Allowed: a missing temperature counts as cool.
AllowedUnknown(from, to) ==
  to > from => last = NoTemp \/ (ValidLimits /\ last <= Ceiling - SafetyMargin)

\* A wider target needs a valid temperature at or below the upgrade limit.
Allowed(from, to) ==
  to > from => last # NoTemp /\ ValidLimits /\ last <= Ceiling - SafetyMargin

Stale == age > window

\* MPCController::recommend, and what the interface makes of its answer.  temp is the
\* forecast the answer rests on; a predicted one waits for the next sample.
Advice(current) ==
  IF history = <<>> \/ Stale
  THEN {[by |-> "declined", to |-> current, temp |-> NoTemp, forecast |-> forecast]}
  ELSE {LET target == Choice(current, f.temp)
        IN [by |-> IF Allowed(current, target) THEN "controller" ELSE "refused",
            to |-> IF Allowed(current, target) THEN target ELSE current,
            temp |-> f.temp,
            forecast |-> f.by = "model"] : f \in ForecastTemps}

\* tsd_dispatcher_policy_recommend: what it may answer at a width.  It allocates nothing.
Answers(current) ==
  IF fallback \/ Emergency(current)
  THEN {[by |-> "safety", to |-> 0, temp |-> NoTemp, forecast |-> forecast]}
  ELSE Advice(current)

Recommend ==
  /\ present
  /\ \E current \in Width : \E answer \in Answers(current) :
       /\ forecast' = answer.forecast
       /\ sampled' = (sampled /\ answer.by \in {"safety", "declined"})
  /\ UNCHANGED <<state, loaded, model, window, limit, history, age, residual>>

\* The monitor could not apply a recommendation.
ForceFallback ==
  /\ present
  /\ fallback' = TRUE
  /\ UNCHANGED <<present, limits, last, suspect, controller>>

Reload ==
  /\ present
  /\ Load(residual)
  /\ UNCHANGED <<state, history, age, forecast, sampled>>

ReloadThrows ==
  /\ present
  /\ enterFailClosed
  /\ UNCHANGED <<present, limits, last, controller>>

\* External: time passes; nothing happens later than one tick past the longest window.
Tick ==
  /\ history # <<>> /\ \E m \in Files \cup {Defaults} : age <= m.window
  /\ age' = age + 1
  /\ UNCHANGED <<state, loaded, model, window, limit, history, forecast, residual, sampled>>

Next == \/ Create \/ Destroy \/ Reset \/ ResetThrows \/ Record \/ RecordThrows
        \/ Recommend \/ ForceFallback \/ Reload \/ ReloadThrows \/ Tick

Spec == Init /\ [][Next]_vars
----------------------------------------------------------------------------
\* The policy state keeps its types.  The history outgrows its limit only by a
\* reload, until the next sample (pushSample, loadCoefficients).
TypeOK ==
  /\ {present, loaded, fallback, suspect} \subseteq BOOLEAN
  /\ limits \in {"valid", "badMargin", "badCeiling"}
  /\ model \in Coefficients /\ (loaded => model.terms > 0) /\ window \in Nat \ {0}
  /\ history \in Seq(Sample)
  /\ limit \in Nat /\ limit >= Horizon
  /\ Len(history) <= limit \/ \E f \in Files : Len(history) <= Required(f)
  /\ age \in Nat /\ last \in Temps \cup {NoTemp}
  /\ forecast \in BOOLEAN /\ residual \in {"none", "next", "later"} /\ sampled \in BOOLEAN

\* The error the model corrects itself by is that of a forecast compared with the
\* very next sample: a forecast whose sample had no temperature, or whose push
\* failed, is never compared with a later one (pushSample, updateResidual).
OneStepResidual == TypeOK /\ residual # "later"

\* The rollout of a width carries the hard cost at a step.
Priced(w, from, temp, step) ==
  IF limits = "badCeiling" THEN w > 0
  ELSE temp # NoTemp /\ ProjectedTemp(w - from, step, temp) > Unit * Ceiling

Crosses(w, from, temp) ==
  temp # NoTemp /\ \E step \in 1..Span : ProjectedTemp(w - from, step, temp) > Unit * Ceiling

\* The hard cost at the steps that carry it, discounted.
HardPrice(w, from, temp) ==
  Total([step \in 1..Span |-> IF Priced(w, from, temp, step)
                              THEN Discount[step - 1] * 20 * Unit * HardCost ELSE 0], Span)

\* The ceiling has its price.  A width whose rollout crosses it, or a wide one under an
\* invalid ceiling, is answered only when every other width costs as much as the hard
\* cost of all the steps above the ceiling, up to the thresholds of the choice: no
\* smaller saving of performance, temperature or transition buys it, whatever the order
\* of the candidates (kHardConstraintCost, scoreWidth, MPCController::recommend).
CeilingIsPriced ==
  \A from \in Width : \A a \in Answers(from) : a.by = "controller" =>
    LET cost == Scores(from, a.temp)
        price == HardPrice(a.to, from, a.temp)
    IN \A w \in Width : cost[w] >= price - StabilityMargin
                                   - (IF a.to = from THEN MinImprovement ELSE 0)

\* The choice is settled.  A change is the cheapest width up to the stability margin
\* and improves on the current one by the least improvement, and a width is kept only
\* when no other is better by more than both, although the loop keeps a running best
\* in a fixed order; a change is not taken back on the same forecast, as long as the
\* forecast itself is not above the ceiling; and without any temperature in the
\* horizon the controller never narrows: missing telemetry is neither 0 degrees nor
\* a reason to expect relief (MPCController::recommend, computeForecastTemperature).
ChoiceIsSettled ==
  \A from \in Width : \A a \in Answers(from) : a.by = "controller" =>
    LET cost == Scores(from, a.temp)
    IN /\ a.to # from => cost[from] - cost[a.to] >= MinImprovement
       /\ \A w \in Width : cost[w] >= cost[a.to] - StabilityMargin
                                      - (IF a.to = from THEN MinImprovement ELSE 0)
       /\ a.to # from /\ ~Crosses(from, from, a.temp) => Choice(a.to, a.temp) # from
       /\ a.temp = NoTemp /\ limits # "badCeiling" => a.to >= from

\* A wider width is recommended only with valid limits, a present temperature at
\* or below the upgrade limit, a sample inside the staleness window, and no call
\* that has thrown since the last completed reset (tsd_dispatcher_policy_recommend).
WideningJustified ==
  \A from \in Width : \A a \in Answers(from) : a.to > from =>
    /\ limits = "valid" /\ last # NoTemp /\ last <= Ceiling - SafetyMargin
    /\ age <= window /\ ~suspect
=============================================================================
