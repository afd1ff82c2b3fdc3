# Verification of the Thermal SIMD Dispatcher

TLA+ models, TLC runs and TLAPS proofs for the concurrency, lifecycle and
control core of the dispatcher. Paths below are relative to the repository; line numbers are those
of the sources the models were written from. `PROJECT.json` lists every
component, run, mutant, mapped definition, hazard, finding and theorem.

## The system

An application registers SSE4.1, AVX2 and AVX-512 versions of a kernel and calls
it through a dispatcher. A process-wide *selection* names the width in use.
Wide widths (AVX2, AVX-512) are allowed only while live hardware counters and
temperature say they are safe; everything else fails closed to SSE4.1.

| Part | Source | State | Operations | Interacts with |
|---|---|---|---|---|
| Admission guard | `src/runtime_guard.c` | admission bit, in-flight counter, thread-local depth, stopping flag, owner, drain lock and condition | enter, leave, wait for quiescence, write enter/leave | every thread that runs kernels or publishes guard state |
| Configuration snapshots | `src/runtime_guard.c` | generation copy, derived safety limits, their states | activate, deactivate, first-use capture | start/stop, every authorization check |
| Public handle | `src/runtime_api.c` | active handle, start slot, handle fields | start, request_stop, stop, destroy, is_running, perf_mode | private runtime |
| Private runtime | `src/thermal_simd.c` | active runtime, perf context, monitor thread, running and stop-requested flags | start_impl, request_stop_impl, stop_impl, signal handlers | guard, perf, trampoline, monitor |
| Monitor loop | `src/thermal_simd.c` | counters, cooldown and dwell epochs | one iteration per sample | perf, policy, trampoline |
| Trampoline | `src/patcher/*` | selection word and mirrors, pages, attestation | init, patch, self-validate, snapshot | guard, dispatch |
| Dispatch | `src/dispatch/adaptive_dispatch.c` | registered variants | create, resolve, execute, v2 | guard, trampoline |
| Observability state | `src/observability/telemetry_state.cpp` | perf, fusion and controller samples with freshness stamps | update, freshness queries | guard (each update is a guard write) |
| Runtime flags | `src/config/runtime_flags.c` | sandbox verdict | record success/failure | guard |
| Perf | `src/thermal_perf.c` | mode, retry back-off, EWMAs, software timeout | init, evaluate, recover, set mode, cleanup | guard, trampoline, fusion |
| Fusion bridge and worker | `src/telemetry/fusion_bridge.cpp`, `fusion.cpp` | user count, polling thread, raw cache, temperature gate | start, stop, sample; poll | guard, trampoline, bus |
| Telemetry helper | `src/telemetry_helper.c` | selected sensor, ratio sources, retry deadlines | init, sample, destroy | fusion bridge, perf |
| Bus, collectors, sensors | `src/telemetry/*` | subscribers, ring | publish, subscribe, poll | fusion |
| Policy and controller | `src/policy/*` | history, model, residual, fallback flag | record, recommend, reload, reset | monitor |
| Metrics, StatsD | `src/observability/*` | listener, client queue, worker pool | start, stop, serve | all counters |
| Configuration, statistics | `src/thermal_config.c`, `src/statistics.c`, … | degraded overlay | effective values, parse | everything |

What is hard here: wide admission is lock-free and races revocation; a stop waits
for application kernels without holding locks they need; several parties write the
guard state; a start calls back into the application while it holds a lock; every
step of a stop may fail and must leave something that can be stopped again; safety
limits are published once per generation by whichever thread asks first; kernels may
be cancelled at any point of a call; polling, accepting and serving threads are started,
rolled back and joined; and sensors come and go while a temperature from them authorizes wide code.

## Modules

| Module | Models |
|---|---|
| `RuntimeGuard` | enter/leave, drain, guard writers and the guard writes of start, request_stop and stop, one step per racing atomic access |
| `WideGate` | what the guard promises: an atomic gate with a closed, stopping and drained phase |
| `RuntimeLifecycle` | public handles over the private runtime, with all failures and the monitor's lifetime |
| `SafetyConfig` | the two configuration snapshots and the lock-free capture of the safety limits |
| `PerfMode` | the perf context: modes, re-probes, software timeout, evaluation |
| `MonitorLoop` | the monitor thread over `PerfMode`, with the dispatcher policy and the effective limits |
| `FusionWorker` | start and stop of the fusion object and its polling thread |
| `FusionBridge` | the reference-counted telemetry service, the raw temperature and its gate |
| `Trampoline` | code page, selection word and mirrors, reset, selection, self-validation, attestation |
| `Dispatch` | kernel and shim calls over `Trampoline` and `WideGate`, with cancellation |
| `MetricsExporter` | the exporter's start, rollback and stop, accept thread, queue and pool |
| `TelemetryHelper` | sensor selection, sources and retries |
| `PolicyController` | the policy's C interface, the predictive controller and its model |
| `*Proofs` (8) | theorems about `RuntimeGuard` and its refinement of `WideGate`, `RuntimeLifecycle`, `MonitorLoop` and `PerfMode`, `FusionWorker` and `SafetyConfig` (`WorkerProofs`), `FusionBridge` and `TelemetryHelper` (`TelemetryProofs`), `Trampoline` and `Dispatch` (`DispatchProofs`), `MetricsExporter`, `PolicyController` (`PolicyProofs`) |
| `MC*` (8) | instances for TLC; `MCThreads` puts `RuntimeLifecycle` and `FusionWorker`, which share no state, side by side |

Composition: `Dispatch` extends `Trampoline` and instantiates `WideGate`, which
`RuntimeGuard` implements, so what `Dispatch` assumes of admission is what is proved of
the guard. `MonitorLoop` extends `PerfMode` and is proved to take only steps
`PerfMode!PerfSpec` allows, so what is proved of `PerfSpec` holds under the monitor.
`FusionBridge` reduces the polling thread to its life, which is `FusionWorker`'s subject.

### RuntimeGuard

Each thread has a program counter `pc` and, while it performs a guard write, an
operation `op`. The two checks of `tsd_runtime_execution_enter` are split into
their loads (`e_owner`, `e_admission`, `e_stopping`, `e_guard`, then after the
increment `r_admission`, `r_owner`, `r_stopping`, `r_guard`). A guard write is four
steps: `WriteEnter` (lock and close), `WritePublish` (what is published depends on
`op`), `WriteEvaluate` (the reads of `write_leave`) and `WriteLeave` (store and
unlock); `StartContinue`, `StopContinue` and `CallerContinue` say which guard write
the same call makes next and where it may fail. `life` abstracts
`g_tsd_active_runtime` and `stop_in_progress`.

The width is `SSE41` or `WIDE`; perf mode, counters and temperature are reduced to
`authority` (they authorize a wide width) and `guardActive` (something is
published). `Expire` is the passage of a freshness window. `late` is a history
variable: the threads that counted themselves while admission was closed.

Assumptions: accesses are sequentially consistent (the code pairs the two that
matter with `seq_cst` fences); operations on the static mutexes do not fail; the
monitor join is left to `RuntimeLifecycle` (here a stop may drain while the monitor
still publishes, which only adds behaviours); the fusion worker alone never makes
the guard active. `SelectWidth` by a telemetry thread stands for any caller of the
public `tsd_trampoline_patch`, with or without a runtime. `StopRuntime` does not
overtake a `request_stop` in progress because both take the public lock.

### RuntimeLifecycle

A section under `g_public_runtime_lock` is one step. The private lock is a
variable, because `start_impl` holds it across the baseline callback; in state
`baseline` the thread is in application code and may make nested calls. A public or
private object is the set of its flags that are set (`{}` is free memory). The failure
points are those of the code: invalid configuration, prerequisites, allocation or
perf, SSE4.1 selection, `pthread_create`, join, drain, selection, final guard.
Handle addresses are reused after destroy. The application passes only handles that
start returned and nobody destroyed. The generation number is left out: nothing
reads it.

### SafetyConfig

A structure's value is, per field, the generation it came from; plain structure
copies go field by field in any order. `Awaited` checks end before a stop resets the
guard (the monitor is joined, the fusion worker is stopped, counted invocations are
drained). `Application` checks are those nobody waits for: the first check of an
invocation, which `tsd_runtime_execution_enter` makes before it counts itself, and the public
`tsd_runtime_width_authorized`. `delayed` is a history variable: the threads that some start
found past the guard of a check, with a lookup of the limits still to make or to finish.

### PerfMode

The fields of `perf_ctx` that decide anything. Times are relative: `modeAge` since
`mode_entered_at`, `retryIn` until the re-probe deadline; `Elapse` advances them and lets
the chip's temperature and the transition flags change. A measured number is reduced to
its domain, so `history` and `reference` are the domains mixed into the EWMAs and into the
calibrated references, and whether a measurement is throttled is a choice. An evaluation
is one step; its result `eval` is the return value, `performance_available` and the
temperature (absent, at most ceiling minus safety margin, between, emergency). `published`
says that the last publication reports healthy hardware counters: what the guard
authorizes a wide width from. `PerfSpec` is the context on its own, with any caller;
`MonitorLoop` is proved to implement it. The LLC counter, which only moves the throttle threshold, and
CPU pinning are left out.

### MonitorLoop

One sample is the steps `Wake`, `CheckTimeout`, `EvaluateThermal` and `Decide`, then
`SafetyFallback`, or `Recommend` with `Predict`, or a hysteresis count with `Downgrade` or
`Upgrade`. Other threads select SSE4.1 between any two steps (`simd_shim`'s repair, the
fusion worker); only the monitor widens. Every selection may fail. `dwell` and `cooldown`
are the monitor's two epochs as durations; `policy` is the dispatcher policy (missing,
active, in fallback), whose calls may throw; the controller's recommendation is any width.
`calm` and `owed` are history variables. The counters stop at the largest
value a comparison tells apart (`DwellBound`, `StableBound`, `DownCount`).

### FusionWorker

`thread_mutex_`, `wake_mutex_` and both condition variables are explicit. `StartBegin`,
`CreateThread` and `StartAnnounce` are start; a stop is `request`, `notify`, `decide`, then
either the join and `finish`, or a wait for the stop call that joins (`blocked`,
`recheck`). A collector may call stop from the polling thread, which must not join
itself. A running report is read in one step of an iteration (`seen`) and made in a
later one. `stopCallers` is the counter as the set of calls it counts.

### FusionBridge

Every call holds `g_fusion_mutex`; its steps are the stores that other threads read
without it. A temperature is cool or hot and carries its age in ticks; `channel` is the
observability state's raw temperature, whose stamp is set when it is published and may
hence be younger than the reading. `Authorized` is what `runtime_guard.c` makes of it. A
start may fail at every step and is rolled back; a sample may throw; the forced
selection of SSE4.1 may fail (`refused`); other threads select in between. `MaxHold`
bounds the ticks a call holds the mutex, joining apart.

### Trampoline

A slot is named by the width whose code it holds and a hash by the slot it was computed
from, so code bytes and SHA-256 do not appear. A selection is `PatchEnter`, the page
(`BuildMap`, `BuildProtect`), `PatchVerify`, `CommitBegin`, `PublishWord`,
`PublishMirrors` (one store at a time) and `CommitHash`; a reset erases in the code's order.
Both locks are variables. The mapping, its protection and the verification may fail.

### Dispatch

An application thread makes chunked calls (`next`, `resolve`, `admit`, `arm`, `kernel`,
`settle` or `release`, `restore`) or shim calls (two attempts with a repair in between).
A plain execute is a call with one chunk; v1 starts at item 0. Cancellation is sent at any
moment and delivered where the thread has it enabled and runs foreign code. size_t is
`0..SizeMax` with wrap-around. `executed`, how often each item was run, and `counted` are histories.

### MetricsExporter

`server_mutex_`, `client_mutex_` and `client_cv_` are explicit, and the kernel's part is
too: listening descriptors are open, shut down or closed, and connections wait in a
backlog. A pool thread tests its condition and goes to sleep in two
steps, both under `client_mutex_`. What a request asks for is left out: a connection has socket
deadlines, so serving it ends. Spurious wakeups happen and are never assumed. Start and
stop are made by one controller: a stop frees the TLS context after it has released
`server_mutex_` (`metrics.cpp:415`), so a start by another thread in between would lose its
new context; no caller in the repository overlaps the two.

### TelemetryHelper

A host is its thermal zones and hwmon inputs (driver, label word, package number in the
label, true package), the CPU's package and the number of packages. A detection
(`StartScan`, `ScanCandidate`, then `HelperReady` or `SensorDetected`) considers one candidate
per step, in any directory order, and keeps the best so far in `scan`. Sources fail and
return between any two steps, those of a detection included. `LabelsAssumption` says that labels tell the truth.
`Mentions` is the code's substring match (`src/telemetry_helper.c:136`): a label also mentions
every package whose digits its own number begins with (`BeginsWith`), so "package id 1" is
found in "package id 10".

### PolicyController

The score of a width is computed for any horizon, without rounding, in integers that count
parts of `Unit` to the whole (`UnitAssumption`: no division of the averages, the trend, the
actuator response or the discount leaves a remainder); the code computes it in doubles. A
temperature target of 0 is none, as in the code. `Total` is the code's loops over samples and
rollout steps. What a coefficient file predicts is any temperature; its required history,
window and width effects are kept. `sampled` is a history variable that every sample sets,
lost ones included, and every forecast clears: a residual taken while it is set is that of a
forecast some sample has already passed. `Answers` is the set of recommendations the code may
give in a state, and the properties quantify over it.
Every call of the C interface that can throw has a throwing action.

## Runs

| Run | Instance | Shows |
|---|---|---|
| `guard` | 2 executors, one of which starts and stops, 1 telemetry thread, nesting 1 | a drained stop stays drained, starts and stops change over on SSE4.1, `RuntimeGuard` implements `WideGate`, a stop call ends |
| `threads` | lifecycle: 4 threads, 3 handle addresses; fusion worker: 3 callers, 2 thread identities | no use after free, a monitor keeps its generation's resources, retryable stops, requests are final, calls return; the fusion worker's running report is current between calls, a stop leaves no polling thread, stops return |
| `monitor` | counts 2, cooldown 2 down and 1 up (3 and 2 degraded), dwell 1, back-off 1 to 3, timeout 2, 2 stalled samples, 3 widths | no mixed domains, upgrades on consecutive evidence, failed downgrades retried at once, `MonitorLoop` implements `PerfSpec`; a chip that stays hot ends on SSE4.1, software mode reports its timeout, re-probes find counters that return |
| `fusion_bridge` | 3 contexts, 2 CPUs, window 1, hold 1 | users are counted, an authorizing temperature is recent and the newest, a lost one narrows, calls return |
| `dispatch` | 1 application thread, 1 selector, kernels for SSE4.1 and AVX-512, `SIZE_MAX` 2, calls of up to 2 items | self-validation and attestation are right, admissions are balanced, chunks cover exactly the range, only supported code runs, calls return |
| `metrics` | 1 controller, 2 pool threads, queue of 1, 3 connections | each connection has one owner, resources live as long as their users and no longer, queued connections are served, stops return |
| `telemetry_helper` | 4 hosts: two packages, two equal sensors, unknown package, packages 1 and 10; back-off 1 to 3 | the sensor is the best one and, with several packages, the CPU's own or one whose number begins with its digits; descriptors and retries are consistent, sources recover |
| `policy` | 3 widths, horizon 2, 3 temperatures, 2 performance levels, 4 coefficient files | one-step residuals, a crossing of the ceiling costs its price, choices are settled, widening is justified |
| `guard_owner`, `limits`, `metrics_rollback`, `telemetry_labels` | small | violations, see Findings |

Bounds. Two executors are enough for every pairwise race of entries, one of them with a
writer; the telemetry thread interleaves with both sides of every guard write. Nesting 2
was checked once (322,424 states) and any nesting is covered by the proofs, liveness
apart. Three handles give address reuse and a stale handle beside a live one; four threads
give a start or stop in progress, two further calls, and a bystander. Two generations
suffice to carry limits from one into the next, two fields to tear them. In `monitor` the
back-off's cap is reached by a doubling that it cuts, the cooldown outlasts a sample, so
that it could hide a retry, and three widths give a downgrade that does not end on SSE4.1.
Three callers give a joining stop, a waiting one and a start; the second thread
identity lets a restart get a new thread. Three contexts on two CPUs give a user
that is refused beside two that count. With `SIZE_MAX` 2 and two items a v2 call ends at,
and is refused beyond, the largest offset; without an AVX2 kernel the resolution has a gap.
A queue of one beside two workers is full with the third connection. The policy's
temperatures lie below the upgrade limit, in the guard band and above the emergency limit;
two of its files are refused. Its hard cost is 12, where the code has 1e9: at 12 a large enough
saving does buy a crossing in some of the run's states, so that `CeilingIsPriced` is checked on
both sides of the price. `threads` runs one lifecycle at a time from their common initial state:
they share nothing, so their interleavings add no behaviour of either. `limits` turns deadlock checking off:
after the last generation a failed start leaves the stopping flag set and every check
returns at once without changing anything.

Fairness. In every fair specification a call in progress is scheduled; strong fairness is used
where a step waits for a mutex others take again and again (a mutex that is free again and
again is granted) or for a condition others reset. Beyond that: kernels return (`guard`,
`dispatch`); the drain ends, the callback returns and the monitor polls its flags
(`threads`, the first being `guard`'s subject); a running monitor samples, samples with a
temperature keep arriving and selecting SSE4.1 does not fail for ever (`monitor`); the
polling thread ends once told to (`fusion_bridge`; it is `FusionWorker`'s subject); the clock
advances and the application keeps sampling (`telemetry_helper`). Nothing obliges the
application to start, stop or call, a spurious wakeup is never assumed, and neither is a
failure. `HardwareRecovers` and `SourcesRecover` state their own assumption: the counters,
or the sensors, come back.

Every property of a passing run has a mutant: a changed copy of one definition, kept before it in its
module, under which TLC finds the property violated.

## Proofs

`RuntimeGuardProofs` proves, for any finite set of threads and any nesting bound, that a drained
stop stays drained, that an invocation counted after a close never enters, that the counter
is exact, that nobody reopens while stopping, that transitions are made on SSE4.1 and that
wide selections are authorized. The inductive invariant `IInv` adds to `TypeOK`:

- `LockInv`: the guard lock is held exactly by the thread inside a guard write;
- `ReopenInv`: a decision to reopen is only carried when nothing stopping was
  published since (the writer still holds the lock);
- `DepthInv`, `CountInv`: frames on their way in or out are in the thread-local
  depth, and the counter is the number of frames;
- `LifeInv`: at most one lifecycle call is in progress and `life` says which;
- `GateInv`: between its gates a lifecycle call keeps the stopping flag and, once
  made, the SSE4.1 selection;
- `LateInv`: nobody is counted late while admission is open, and a thread counted while
  closed is at the admission recheck or backing out;
- `DrainInv`: after the drain nobody is admitted.

None of the safety properties is inductive alone: that a drained stop stays drained
needs `GateInv` (the flag is still set), `ReopenInv` (so no writer reopens) and
`LateInv` (so nobody passes the recheck). Many actions disturb little of this, so the
lemma `Shapes` first sorts the steps by what they change (`QuietStep`, `FrameStep`,
`BeginCall`, `EndWrite`, ...), and the lemmas about the conjuncts split on those shapes
and on the few actions left. `ThreadAssumption` and `DepthAssumption` are the only
assumptions.

`RuntimeLifecycleProofs` proves, for any sets of threads and handle addresses,
memory safety, the monitor's resources, one generation, retryable and final stops, and that
nested calls cannot wait for their own thread. Its `IInv` follows the one generation that can exist:
`SingleInv` (one start or one stop call, never both), `HandleInv` (what the public
fields say of the active handle and of a stop on it), `LockInv` (who holds the private
lock), `ImplInv` and `InstalledInv` (which handle has a private runtime in each phase),
`ClaimInv` (the private stop claim spans exactly the unlocked part of a stop),
`MonitorInv` (a monitor belongs to the installed runtime and is gone after the join)
and `ConfigInv` (whose configuration is active). Memory safety alone is not inductive:
that a stop's private object is still allocated after the unlock needs that no other
call can be a stop (`SingleInv`), that no start can run beside it (`starting` implies no
active handle) and that it is the installed one (`InstalledInv`). Each conjunct has a
lemma with one step per action. The assumptions are that `NoThread` and `NoHandle` are
not elements of the sets they stand outside of.

The last part of `RuntimeGuardProofs` proves that `RuntimeGuard` implements `WideGate`. The
mapping takes the admission bit for `open`, the frames past the admission recheck for
`inside`, and the stopping flag with the drain for `phase`. It reuses `IInv` and the shapes:
each shape is one abstract step or a stutter. `DrainInv` is what makes the drain an abstract
drain.

`MonitorLoopProofs` proves of `PerfSpec`, for every back-off, timeout, stall limit and width,
that delays keep their bounds, that domains are pure, that recovery is transactional and that
widening needs authority. `ContextInv` is inductive; its number types carry the bounds of the
doubling. Of the loop it proves that every step is a step of `PerfSpec` or leaves the context
alone (`LoopImplementsPerf`), so that the four results hold of the monitored runtime
(`MonitoredContext`), that upgrades follow consecutive evidence (`CalmUpgrades`) and that a
failed downgrade is retried (`RetriedDowngrade`). `CalmBeforeUpgrade` speaks of the moment of an
upgrade; its invariant ties the stable count to the history `calm` at every place of a sample.

`WorkerProofs`, first part: `WorkerInv` says who holds each mutex of the fusion object
(`Locks`), who is counted and who joins (`Calls`), that the polling thread is in `thread_` or
with one joining call (`Held`), what the flag is at each place (`Flag`) and what was reported
(`Reports`). That a stop is complete is an action property: it needs `Held` (no second worker)
and `Calls`.

`WorkerProofs`, second part, is about `SafetyConfig` with checks of both kinds. The only checks
that can be delayed into a later generation are application checks (`OnlyUncountedDelay`), and
until one is (`delayed = {}`), checks use their own generation's limits, there is one publisher
and published limits are not written again; afterwards none of this holds, see Findings.
`LimitsInv` says which configuration and gate each phase has and that awaited checks end with
their generation (`Phases`), and, while nothing is delayed, that no check gets past the guard
before it is published (`Quiet`), that the snapshot's state then tells who may touch it
(`Ownership`) and how far each copy is (`Progress`). `FreshLimits` alone is not inductive: it
speaks of the last step of a check only.

`TelemetryProofs`, about `FusionBridge`: `BridgeInv` says, per place of a call, what exists and who is counted
(`Service`) and how old the cached and the published temperature can be (`Published`). The
user count is a cardinality, so the library's finite-set theorems are used.

`TelemetryProofs`, about `TelemetryHelper`: `TelemetryInv` says which sources a place of a call has
open and found (`CallState`), that a descriptor is held exactly for an open MSR device, that
what is in use has a fresh retry (`Retries`), and, of a detection in progress, that no candidate
considered so far is better than the best kept, that the best's label flag is its own, and that
a tie is recorded (`BestSoFar`). Neither property is inductive: `SensorIsOwn` speaks of the
selected sensor only, which is chosen from `scan.best` many steps after the comparison. That one
candidate more keeps `BestSoFar` (`ConsiderBest`) is where the three outcomes of a comparison
(better, tied, worse) are taken apart.

`DispatchProofs`, about `Trampoline`: `TableInv` says who holds the two trampoline locks, what
the page is, and how far word, mirrors and hash agree at each place; `AttestationSound` is not
inductive, since it only speaks of the places where a reader looks. No step of a kernel call
writes the table, but the shim's repair enters a selection. `AdmissionInv` needs nothing of the
table: each step moves a thread outside executions, within one, into one or out of one,
and there is a lemma for each. About `Dispatch`, it uses both to follow a call: `ExecutionInv`
says how much of its range a call has covered at each place and which width it resolved, is
admitted for and runs. That a call covers its range exactly is about the number of times each
item ran, so one lemma says what a chunk adds to it, wrap-around of `size_t` included. That only
supported code runs needs `TableInv`: the word a call reads names a width of the host.

`MetricsExporterProofs`: `HoldInv` says where the descriptor of a connection is: a thread holds
one exactly at the places that work with it (`Carry`), what is open is held or queued
(`Owned`), no two places hold the same one (`Unique`), and the kernel's backlog is apart
(`Waiting`). It holds for any number of controlling threads. `ControlInv(c)` is for one
controlling thread `c`, the assumption of `ReleasedAfterUse`: what exists at each place of a start
or stop, that is the listener (`Listening`), the pool (`Pool`), the accept thread (`Accepting`)
and what these use (`Provided`). Steps of the other threads are `Beside(c)`, which keeps it.
`ResourcesMatchUsers` alone says nothing of a start or stop in progress. With two controlling
threads its part about TLS fails, see `MetricsExporter` above.

`PolicyProofs`, about `PolicyController`: most of it is about the score. Each term of a step's
cost is a convex function of the projected ratio or temperature, and a move and the move back
have opposite effects, so as long as the forecast is below the ceiling the scores of staying at
two widths add up to at most those of changing places (`ScorePair`). A change and its
reversal would each save the least improvement, which contradicts that (`NotTakenBack`); the
transition penalties are not needed for it. The loop over the candidates keeps a best that is
within the stability margin of all it has passed (`BetterFacts`, `ChoiceFacts`). Without a
temperature only the performance term is left, which falls with the width, so nothing narrower
is cheaper (`NarrowerIsDearer`). The proof is for every model that a file may load, hence for
any width effects that are not negative: `parseContent` refuses the others, and the proof needs
it. `PolicyInv` says that the state stays one in which this applies: a loaded model has temperature
terms, a forecast that waits was made after the newest sample, a call that has thrown
leaves the fallback set, and the history is within what some load allowed. The last is why the
invariant must say that the limit is the horizon or a file's requirement: a reload lowers the
limit and does not trim.

`CeilingHasItsPrice` needs no condition on the magnitudes: every term of a score other than the
hard cost is non-negative, so a width's score is at least its `HardPrice`
(`PricedScore`), and what is chosen is within the thresholds of every other width. It says
what the finite hard cost is worth. The code prices a step above the ceiling at 1e9 and a
thousandth of ratio above its target at 4.05, so at one and the same step only a ratio of some
2.5 * 10^8 outweighs it. Both are discounted by a tenth per step, and the horizon may be up to
1000 (`src/thermal_config.c:757`): a crossing that comes only late in a long rollout is cheap
against savings at the first steps.

Scores are sums over the rollout, so these facts are inductions over its steps. The library's
induction theorems with an operator parameter cannot be instantiated, but a set can stand for
the predicate: `SetInduction` and `BoundedInduction` are proved from the well-foundedness of the
naturals, and the lemmas about `Total` (that it is monotone, additive and non-negative) from them.

Assumptions of the proofs are the named ASSUMEs of the modules: sets of threads and
contexts are finite where they are counted, the values for "nobody" are outside the sets
they complete, and numbers are in their ranges; nothing a score divides leaves a remainder; of
a host, that labels tell the truth and that
a sensor is either a thermal zone or an hwmon input.

The assumptions on the fusion worker's sets (`Identities`) and on `MaxGeneration` are
hypotheses of their theorems.

Every safety property a passing run checks is stated by a theorem, `ResourcesMatchUsers` under
the condition given above. Only model-checked: liveness, which is outside the prover's reach.

## Findings

1. `guard_owner`: the rechecks read admission, owner and authorization separately and a
   start does not drain, so a thread admitted while no runtime existed can enter a wide
   kernel after another thread's runtime went live (`src/runtime_guard.c:220`, against
   `src/runtime_guard_internal.h:55`).
2. `limits`: the first check of an invocation is made before it counts itself, so no stop
   waits for it. Delayed across a stop and a start, it publishes the old generation's limits
   into the new one (`src/runtime_guard.c:207`, against the comment at 283-284).
3. `metrics_rollback`: the rollback of a failed exporter start clears `running_` and
   notifies without `client_mutex_`; a pool thread between its test and its sleep misses
   it, and the join never returns (`src/observability/metrics.cpp:366`, against
   `tests/observability/test_metrics_exporter.cpp:206`). A stop takes the mutex in between.
4. `telemetry_labels`: with packages 1 and 10 both labels mention package 1, and two explicit
   matches of one score are no tie to be resolved, so a CPU of package 1 may be given package
   10's temperature (`src/telemetry_helper.c:140`, against the comment at 298-301).

Seen while modelling and described by the models, without a run of their own:

- A failed start leaves the stopping flag set (`src/thermal_simd.c:655`), where
  `include/thermal/simd/runtime.h:98` has static flags apply without a runtime.
- A shutdown signal delivered during a start is erased (`src/thermal_simd.c:686`), where
  `README.md:183` has `--run-forever` end on it.
- The software timeout reports once, so its failed safety transition is not retried
  (`src/thermal_perf.c:1313`, against `src/thermal_simd.c:439`).
- A re-probe whose events open but fail validation restarts the back-off
  (`src/thermal_perf.c:603` and `920`), where `docs/telemetry-fusion.md:136` has it grow to
  its cap. `Reprobe` has both outcomes.
- Samples of an idle workload, and of stalled, lost or just recovered counters, carry no
  temperature (`src/thermal_perf.c:1224`), where `src/thermal_simd.c:418` speaks of every
  sample. `EmergencyNarrows` therefore assumes that samples with a temperature keep arriving.
- A policy in fallback asks for SSE4.1 (`src/policy/dispatcher_policy.cpp:203`), where
  `docs/predictive-controller.md:68` leaves the sample to the hysteresis (`Recommended`).
- A narrowing by another thread restarts neither dwell nor cooldown
  (`src/thermal_simd.c:401`), and a transition computed from the width before it may widen
  again in the same sample. It needs full authority to do so: `WideningNeedsAuthority`.
- A polling iteration that throws leaves the last fused snapshot in place, and
  `copy_filtered_snapshot` does not look at its age. Only the raw temperature authorizes
  anything.
- The bus replaces a reading by a newer one, or by one of the same time and at least its
  quality (`src/telemetry/bus.cpp:20`); `docs/telemetry-fusion.md:59` has one of at least the
  quality replace it whatever its time. The bus has one source, so nothing depends on it.
- A reload of coefficients resets the residual but keeps the pending forecast
  (`src/policy/mpc_controller.cpp:333`), which is met by the next sample. A failed reload
  drops the loaded coefficients and keeps their width effects, where
  `docs/controller_coeffs.md:37` speaks of the existing/fallback state.
- `docs/predictive-controller.md:62` has no width-dependent rollout; `scoreWidth` makes one
  (`src/policy/mpc_controller.cpp:187`).
- A choice may be taken back on the same forecast when the forecast itself is above the
  ceiling: `ChoiceIsSettled` excludes that case.

## Not modelled

- Telemetry bus, collectors, sensors, evaluator: the bridge publishes one source on the bus,
  under its own mutex and in time order, so the locked ring sees one writer; no collector is
  registered and no sensor or evaluator used outside the tests.
- History store: used by tests only. Its replacement renames first and only when that fails
  removes the old file and renames again (`src/telemetry/history_store.cpp:119`), so a second
  failure there loses both.
- Command line, configuration files, environment, number and JSON syntax, text rendering,
  HTTP, TLS records, logging: sequential input and output without protocol state.
- CPUID, fatal-signal diagnostics, the forked sandbox probe (its verdict is in
  `RuntimeGuard`), CPU pinning, the LLC counter.
- Numeric estimation: EWMAs, trimmed means, filters, the value an ARX model predicts, the
  offline policy tuner. What depends on these values is a choice in the models.
- Weak memory: accesses are sequentially consistent (see `RuntimeGuard`).
