---------------------------- MODULE FusionWorker ----------------------------
(***************************************************************************)
(* The life of one TelemetryFusion object (src/telemetry/fusion.cpp): start *)
(* and stop raced by several threads, the polling thread, and a collector  *)
(* that calls stop from the polling thread itself.                         *)
(*                                                                         *)
(* Both mutexes and both condition variables are explicit.  What a poll    *)
(* collects is left out; whether the iteration ends normally or by an      *)
(* exception makes no difference here, since both report the running flag. *)
(***************************************************************************)
EXTENDS Naturals, FiniteSets

CONSTANTS Caller,   \* threads that own a reference to the fusion object
          Worker,   \* identities std::thread may give the polling thread
          Nobody

\* the threads are told apart, and finitely many call
Identities == IsFiniteSet(Caller) /\ Caller \cap Worker = {} /\ Nobody \notin Caller \cup Worker

VARIABLES fusionRunning, \* running_
          thread,        \* the thread thread_ can join
          workerId,      \* worker_thread_id_
          stopCallers,   \* stop_callers_, as the set of calls it counts
          joining,       \* stop_join_in_progress_
          threadMutex,   \* holder of thread_mutex_
          wakeMutex,     \* holder of wake_mutex_
          reported,      \* the running state the observability layer shows
          fusionPc,      \* every thread's place
          joinee,        \* the thread a stop call moved out of thread_
          seen           \* the running state an iteration is about to report

fusionVars == <<fusionRunning, thread, workerId, stopCallers, joining, threadMutex, wakeMutex,
                reported, fusionPc, joinee, seen>>
lifecycle == <<thread, workerId, stopCallers, joining>>

Actor == Caller \cup Worker
FusionStartPc == {"create", "announce"}
FusionStopPc == {"request", "notify", "decide", "join", "finish", "blocked", "recheck"}
RunPc == {"loop", "poll", "fuse", "report", "pace", "test", "block", "asleep"}

FusionInit ==
  /\ fusionRunning = FALSE /\ reported = FALSE
  /\ thread = Nobody /\ workerId = Nobody
  /\ stopCallers = {} /\ joining = FALSE
  /\ threadMutex = Nobody /\ wakeMutex = Nobody
  /\ fusionPc = [a \in Actor |-> IF a \in Caller THEN "idle" ELSE "none"]
  /\ joinee = [a \in Actor |-> Nobody]
  /\ seen = [w \in Worker |-> FALSE]

FusionGoto(a, label) == fusionPc' = [fusionPc EXCEPT ![a] = label]

\* what follows the return of stop: a collector's caller goes on to fuse
Resume(a) == IF a \in Worker THEN "fuse" ELSE "idle"

Alive(w) == fusionPc[w] \notin {"none", "done"}

----------------------------------------------------------------------------
(* TelemetryFusion::start                                                  *)

\* Mutant of StartRefused: active stop calls do not keep a start out.
StartRefusedByThread == fusionRunning \/ joining \/ thread # Nobody

\* the condition of the early return
StartRefused == fusionRunning \/ stopCallers # {} \/ joining \/ thread # Nobody

\* take thread_mutex_, test, and set running_
StartBegin(c) ==
  /\ fusionPc[c] = "idle" /\ threadMutex = Nobody
  /\ ~StartRefused
  /\ threadMutex' = c /\ fusionRunning' = TRUE
  /\ FusionGoto(c, "create")
  /\ UNCHANGED <<lifecycle, wakeMutex, reported, joinee, seen>>

\* the polling thread exists from here on, or its creation throws
CreateThread(c) ==
  /\ fusionPc[c] = "create"
  /\ \/ \E w \in Worker :
          /\ fusionPc[w] = "none"
          /\ thread' = w /\ workerId' = w
          /\ fusionPc' = [fusionPc EXCEPT ![c] = "announce", ![w] = "loop"]
          /\ UNCHANGED <<fusionRunning, reported, threadMutex>>
     \/ /\ workerId' = Nobody /\ fusionRunning' = FALSE /\ reported' = FALSE
        /\ threadMutex' = Nobody /\ FusionGoto(c, "idle")
        /\ UNCHANGED thread
  /\ UNCHANGED <<stopCallers, joining, wakeMutex, joinee, seen>>

\* report the running state before the mutex is released
StartAnnounce(c) ==
  /\ fusionPc[c] = "announce"
  /\ reported' = TRUE /\ threadMutex' = Nobody
  /\ FusionGoto(c, "idle")
  /\ UNCHANGED <<fusionRunning, lifecycle, wakeMutex, joinee, seen>>

----------------------------------------------------------------------------
(* TelemetryFusion::stop                                                   *)

\* a stop call begins, from outside or from a collector on the polling thread
StopEnter(a) ==
  /\ fusionPc[a] \in {"idle", "poll"} /\ threadMutex = Nobody
  /\ threadMutex' = a /\ stopCallers' = stopCallers \cup {a}
  /\ FusionGoto(a, "request")
  /\ UNCHANGED <<fusionRunning, thread, workerId, joining, wakeMutex, reported, joinee, seen>>

\* clear running_ inside a wake_mutex_ section
StopRequest(a) ==
  /\ fusionPc[a] = "request" /\ wakeMutex = Nobody
  /\ fusionRunning' = FALSE
  /\ FusionGoto(a, "notify")
  /\ UNCHANGED <<lifecycle, threadMutex, wakeMutex, reported, joinee, seen>>

\* wake_cv_.notify_all
StopNotify(a) ==
  /\ fusionPc[a] = "notify"
  /\ fusionPc' = [b \in Actor |->
                    IF b = a THEN "decide" ELSE IF fusionPc[b] = "asleep" THEN "loop" ELSE fusionPc[b]]
  /\ UNCHANGED <<fusionRunning, lifecycle, threadMutex, wakeMutex, reported, joinee, seen>>

\* thread_cv_.notify_all, together with a's own move
Broadcast(a, label) ==
  fusionPc' = [b \in Actor |->
                 IF b = a THEN label ELSE IF fusionPc[b] = "blocked" THEN "recheck" ELSE fusionPc[b]]

\* --stop_callers_, thread_cv_.notify_all and return
Leave(a) ==
  /\ stopCallers' = stopCallers \ {a}
  /\ threadMutex' = Nobody
  /\ Broadcast(a, Resume(a))

\* the four ways on: another call joins, nothing to join, the polling thread
\* itself, or this call joins
StopDecide(a) ==
  /\ fusionPc[a] = "decide"
  /\ \/ /\ joining /\ workerId = a
        /\ Leave(a)
        /\ UNCHANGED <<thread, workerId, joining, reported, joinee>>
     \/ /\ joining /\ workerId # a
        /\ threadMutex' = Nobody /\ FusionGoto(a, "blocked")
        /\ UNCHANGED <<lifecycle, reported, joinee>>
     \/ /\ ~joining /\ thread = Nobody
        /\ reported' = FALSE /\ workerId' = Nobody /\ Leave(a)
        /\ UNCHANGED <<thread, joining, joinee>>
     \/ /\ ~joining /\ thread # Nobody /\ workerId = a
        /\ reported' = FALSE /\ Leave(a)
        /\ UNCHANGED <<thread, workerId, joining, joinee>>
     \/ /\ ~joining /\ thread # Nobody /\ workerId # a
        /\ joining' = TRUE /\ joinee' = [joinee EXCEPT ![a] = thread] /\ thread' = Nobody
        /\ threadMutex' = Nobody /\ FusionGoto(a, "join")
        /\ UNCHANGED <<workerId, stopCallers, reported>>
  /\ UNCHANGED <<fusionRunning, wakeMutex, seen>>

\* joiner.join: the thread is gone, its identity may be given again
JoinThread(a) ==
  /\ fusionPc[a] = "join" /\ fusionPc[joinee[a]] = "done"
  /\ fusionPc' = [fusionPc EXCEPT ![a] = "finish", ![joinee[a]] = "none"]
  /\ joinee' = [joinee EXCEPT ![a] = Nobody]
  /\ UNCHANGED <<fusionRunning, lifecycle, threadMutex, wakeMutex, reported, seen>>

\* Mutant of StopFinish: the waiting stop calls are not notified.
StopFinishWithoutNotify(a) ==
  /\ fusionPc[a] = "finish" /\ threadMutex = Nobody
  /\ workerId' = Nobody /\ reported' = FALSE /\ joining' = FALSE
  /\ stopCallers' = stopCallers \ {a} /\ FusionGoto(a, Resume(a))
  /\ UNCHANGED <<fusionRunning, thread, threadMutex, wakeMutex, joinee, seen>>

\* Mutant of StopFinish: admission is reopened and the state never reported.
StopFinishSilent(a) ==
  /\ fusionPc[a] = "finish" /\ threadMutex = Nobody
  /\ workerId' = Nobody /\ joining' = FALSE
  /\ Leave(a)
  /\ UNCHANGED <<fusionRunning, thread, wakeMutex, reported, joinee, seen>>

\* relock, report the stopped state, and only then reopen the lifecycle
StopFinish(a) ==
  /\ fusionPc[a] = "finish" /\ threadMutex = Nobody
  /\ workerId' = Nobody /\ reported' = FALSE /\ joining' = FALSE
  /\ Leave(a)
  /\ UNCHANGED <<fusionRunning, thread, wakeMutex, joinee, seen>>

\* a woken waiter tests !stop_join_in_progress_ again
StopRecheck(a) ==
  /\ fusionPc[a] = "recheck" /\ threadMutex = Nobody
  /\ \/ joining /\ FusionGoto(a, "blocked") /\ UNCHANGED <<threadMutex, stopCallers>>
     \/ ~joining /\ Leave(a)
  /\ UNCHANGED <<fusionRunning, thread, workerId, joining, wakeMutex, reported, joinee, seen>>

----------------------------------------------------------------------------
(* TelemetryFusion::run on the polling thread                              *)

\* the loop condition
RunTest(w) ==
  /\ fusionPc[w] = "loop"
  /\ FusionGoto(w, IF fusionRunning THEN "poll" ELSE "done")
  /\ UNCHANGED <<fusionRunning, lifecycle, threadMutex, wakeMutex, reported, joinee, seen>>

\* the poll ends without a stop call, or throws
RunPoll(w) ==
  /\ fusionPc[w] = "poll"
  /\ FusionGoto(w, "fuse")
  /\ UNCHANGED <<fusionRunning, lifecycle, threadMutex, wakeMutex, reported, joinee, seen>>

\* running_ is loaded for the report, by fuse or by the exception handler
RunFuse(w) ==
  /\ fusionPc[w] = "fuse"
  /\ seen' = [seen EXCEPT ![w] = fusionRunning]
  /\ FusionGoto(w, "report")
  /\ UNCHANGED <<fusionRunning, lifecycle, threadMutex, wakeMutex, reported, joinee>>

\* tsd_observability_update_fusion
RunReport(w) ==
  /\ fusionPc[w] = "report"
  /\ reported' = seen[w]
  /\ FusionGoto(w, "pace")
  /\ UNCHANGED <<fusionRunning, lifecycle, threadMutex, wakeMutex, joinee, seen>>

\* an iteration that took too long starts the next one at once; otherwise the
\* thread takes wake_mutex_ to wait
RunPace(w) ==
  /\ fusionPc[w] = "pace"
  /\ \/ FusionGoto(w, "loop") /\ UNCHANGED wakeMutex
     \/ wakeMutex = Nobody /\ wakeMutex' = w /\ FusionGoto(w, "test")
  /\ UNCHANGED <<fusionRunning, lifecycle, threadMutex, reported, joinee, seen>>

\* the predicate of wait_until, under wake_mutex_
RunPredicate(w) ==
  /\ fusionPc[w] = "test"
  /\ \/ fusionRunning /\ FusionGoto(w, "block") /\ UNCHANGED wakeMutex
     \/ ~fusionRunning /\ FusionGoto(w, "loop") /\ wakeMutex' = Nobody
  /\ UNCHANGED <<fusionRunning, lifecycle, threadMutex, reported, joinee, seen>>

\* the wait releases wake_mutex_ and sleeps in one step
RunBlock(w) ==
  /\ fusionPc[w] = "block"
  /\ wakeMutex' = Nobody /\ FusionGoto(w, "asleep")
  /\ UNCHANGED <<fusionRunning, lifecycle, threadMutex, reported, joinee, seen>>

\* the poll interval is over
RunTimeout(w) ==
  /\ fusionPc[w] = "asleep"
  /\ FusionGoto(w, "loop")
  /\ UNCHANGED <<fusionRunning, lifecycle, threadMutex, wakeMutex, reported, joinee, seen>>

FusionStopStep(a) == StopRequest(a) \/ StopNotify(a) \/ StopDecide(a) \/ JoinThread(a)
                       \/ StopFinish(a) \/ StopRecheck(a)
RunStep(w) == RunTest(w) \/ RunPoll(w) \/ RunFuse(w) \/ RunReport(w) \/ RunPace(w)
                \/ RunPredicate(w) \/ RunBlock(w) \/ RunTimeout(w)

FusionNext ==
  \/ \E c \in Caller : StartBegin(c) \/ CreateThread(c) \/ StartAnnounce(c)
  \/ \E a \in Actor : StopEnter(a)
  \/ \E a \in Actor : FusionStopStep(a)
  \/ \E w \in Worker : RunStep(w)

FusionSpec == FusionInit /\ [][FusionNext]_fusionVars

\* A thread that can take a step takes one (the scheduler), a thread waiting for
\* a mutex that is released again and again gets it, polls and providers return,
\* and the steady clock reaches the end of an interval.  Nobody has to call
\* start or stop.
FusionFairness ==
  /\ \A c \in Caller : WF_fusionVars(CreateThread(c) \/ StartAnnounce(c))
  /\ \A a \in Actor : SF_fusionVars(FusionStopStep(a))
  /\ \A w \in Worker : SF_fusionVars(RunStep(w))

FusionFairSpec == FusionSpec /\ FusionFairness

----------------------------------------------------------------------------
FusionTypeOK ==
  /\ fusionRunning \in BOOLEAN /\ reported \in BOOLEAN /\ joining \in BOOLEAN
  /\ thread \in Worker \cup {Nobody} /\ workerId \in Worker \cup {Nobody}
  /\ stopCallers \subseteq Actor
  /\ threadMutex \in Actor \cup {Nobody} /\ wakeMutex \in Actor \cup {Nobody}
  /\ fusionPc \in [Actor -> {"idle", "none", "done"} \cup FusionStartPc \cup FusionStopPc
                               \cup RunPc]
  /\ \A c \in Caller : fusionPc[c] \in {"idle"} \cup FusionStartPc \cup FusionStopPc
  /\ \A w \in Worker : fusionPc[w] \in {"none", "done", "request", "notify", "decide"} \cup RunPc
  /\ joinee \in [Actor -> Worker \cup {Nobody}]
  /\ seen \in [Worker -> BOOLEAN]

\* However start and stop race, at most one polling thread executes run(), and a
\* thread nobody can join any more does not exist: every living or finished
\* thread is held by thread_ or by exactly one joining stop call.
OneWorker ==
  /\ \A v, w \in Worker : Alive(v) /\ Alive(w) => v = w
  /\ \A w \in Worker : fusionPc[w] # "none" =>
       \/ thread = w /\ \A a \in Actor : joinee[a] # w
       \/ thread # w /\ \E a \in Actor : joinee[a] = w /\ \A b \in Actor : joinee[b] = w => b = a

\* fusion.h:70-72: an external stop call returns only after any overlapping join
\* and the report of the stopped state: no polling thread is left, and a start
\* that was admitted meanwhile cannot have taken its place.
StopComplete ==
  [][\A c \in Caller : fusionPc[c] \in FusionStopPc /\ fusionPc'[c] = "idle" =>
       ~fusionRunning' /\ ~reported' /\ \A w \in Worker : fusionPc'[w] = "none"]_fusionVars

\* fusion.cpp:91-92 and 161-163: an older stop or a late iteration never
\* overwrites a newer state: whenever no start or stop call is in progress, the
\* reported running state is the real one.
ReportIsCurrent ==
  threadMutex = Nobody /\ stopCallers = {} => reported = fusionRunning

\* fusion.cpp:103-107: the stop notification is never lost between the worker's
\* test and its sleep: a sleeping worker that should stop has yet to be notified.
NoLostWakeup ==
  \A w \in Worker : fusionPc[w] = "asleep" /\ ~fusionRunning =>
                      \E a \in Actor : fusionPc[a] = "notify"

\* Every stop call returns, the one a collector makes from the polling thread
\* included, even while another thread joins that thread.
StopReturns == \A a \in Actor : fusionPc[a] \in FusionStopPc ~> fusionPc[a] \notin FusionStopPc
=============================================================================
