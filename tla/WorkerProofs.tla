---------------------------- MODULE WorkerProofs ----------------------------
(***************************************************************************)
(* Proofs about the threads that work beside the applications.             *)
(*                                                                         *)
(* TelemetryFusion's start and stop, for any number of owners and of       *)
(* thread identities. WorkerInv is inductive: it says who holds each       *)
(* mutex, who is counted as a stop call, who can join the polling thread,  *)
(* and what the running flag and the reported state can be at each place   *)
(* of the calls.                                                           *)
(*                                                                         *)
(* The safety limits of src/runtime_guard.c, for any checking threads,     *)
(* awaited or not, and any fields and generations. LimitsInv is inductive: *)
(* as long as no start has found a thread past the guard of a check, no    *)
(* check is past it before the next guard is published, and from then on   *)
(* the state of the snapshot says who may touch it and how far the limits  *)
(* are copied.                                                             *)
(***************************************************************************)
EXTENDS FusionWorker, SafetyConfig, TLAPS

----------------------------------------------------------------------------
(* start, stop and run of TelemetryFusion                                  *)

CallPc == {"request", "notify", "decide"}
JoinPc == {"join", "finish"}

\* The mutexes are held exactly between their lock and unlock.
Locks ==
  /\ \A a \in Actor : threadMutex = a <=> fusionPc[a] \in FusionStartPc \cup CallPc
  /\ \A a \in Actor : wakeMutex = a <=> fusionPc[a] \in {"test", "block"}

\* The stop calls that are counted, and the one that joins.
Calls ==
  /\ \A a \in Actor : a \in stopCallers <=> fusionPc[a] \in FusionStopPc
  /\ \A a, b \in Actor : fusionPc[a] \in JoinPc /\ fusionPc[b] \in JoinPc => a = b
  /\ joining <=> \E a \in Actor : fusionPc[a] \in JoinPc
  /\ \A a \in Actor : joinee[a] # Nobody <=> fusionPc[a] = "join"

\* The thread of thread_ or of the joining call exists, it is the one worker_thread_id_
\* names, and there is no other.
Held ==
  /\ thread # Nobody => workerId = thread /\ fusionPc[thread] # "none"
  /\ \A a \in Actor : joinee[a] # Nobody => workerId = joinee[a] /\ fusionPc[joinee[a]] # "none"
  /\ \A w \in Worker : fusionPc[w] # "none" => thread = w \/ \E a \in Actor : joinee[a] = w
  /\ \A a \in Actor : fusionPc[a] \in JoinPc \cup {"blocked", "recheck"} => thread = Nobody

\* What the running flag is at each place.
Flag ==
  /\ \A a \in Actor : fusionPc[a] \in FusionStopPc \ {"request"} => ~fusionRunning
  /\ \A a \in Actor : fusionPc[a] \in FusionStartPc => fusionRunning /\ stopCallers = {}
  /\ \A a \in Actor : fusionPc[a] = "create" => thread = Nobody
  /\ \A w \in Worker : fusionPc[w] = "block" => fusionRunning

\* What was reported, and what an iteration is about to report.
Reports ==
  /\ fusionRunning /\ (\A a \in Actor : fusionPc[a] \notin FusionStartPc) => reported
  /\ ~fusionRunning /\ (\A a \in Actor : fusionPc[a] \notin CallPc \cup JoinPc) => ~reported
  /\ \A w \in Worker : fusionPc[w] = "report" /\ fusionRunning => seen[w]
  /\ \A w \in Worker : fusionPc[w] = "report" /\ ~fusionRunning
                         /\ (\A c \in Caller : fusionPc[c] \notin CallPc \cup JoinPc) => ~seen[w]

WorkerInv == FusionTypeOK /\ Locks /\ Calls /\ Held /\ Flag /\ Reports /\ NoLostWakeup

USE DEF Actor, FusionStartPc, FusionStopPc, RunPc, CallPc, JoinPc

\* The first state satisfies the invariant.
LEMMA WorkerInit == ASSUME Identities PROVE FusionInit => WorkerInv
<1> SUFFICES ASSUME FusionInit PROVE WorkerInv BY Zenon
<1>1. FusionTypeOK BY Zenon DEF Identities, FusionInit, FusionTypeOK
<1>2. Locks BY Zenon DEF Identities, FusionInit, Locks
<1>3. Calls BY Zenon DEF FusionInit, Calls
<1>4. Held BY Zenon DEF Identities, FusionInit, Held
<1>5. Flag BY Zenon DEF FusionInit, Flag
<1>6. Reports BY Zenon DEF FusionInit, Reports
<1>7. NoLostWakeup BY Zenon DEF FusionInit, NoLostWakeup
<1>8. QED BY <1>1, <1>2, <1>3, <1>4, <1>5, <1>6, <1>7, Zenon DEF WorkerInv

\* Every step keeps the invariant.
LEMMA WorkerStep == ASSUME Identities PROVE WorkerInv /\ [FusionNext]_fusionVars => WorkerInv'
<1> SUFFICES ASSUME WorkerInv, [FusionNext]_fusionVars PROVE WorkerInv'
  BY Zenon
<1>0. FusionTypeOK /\ Locks /\ Calls /\ Held /\ Flag /\ Reports /\ NoLostWakeup
  BY Zenon DEF WorkerInv
<1>1. ASSUME NEW c \in Caller, StartBegin(c) PROVE WorkerInv'
  <2>1. FusionTypeOK'
    BY <1>0, <1>1, Zenon DEF StartBegin, StartRefused, FusionGoto, lifecycle, FusionTypeOK
  <2>2. Locks'
    BY <1>0, <1>1 DEF Identities, StartBegin, StartRefused, FusionGoto,
       lifecycle, FusionTypeOK, Locks
  <2>3. Calls'
    BY <1>0, <1>1, Zenon DEF StartBegin, StartRefused, FusionGoto, lifecycle, FusionTypeOK, Calls
  <2>4. Held'
    BY <1>0, <1>1 DEF StartBegin, StartRefused, FusionGoto, lifecycle, FusionTypeOK, Held
  <2>5. Flag'
    BY <1>0, <1>1, Zenon DEF StartBegin, StartRefused, FusionGoto, lifecycle, FusionTypeOK,
       Locks, Calls, Flag
  <2>6. Reports'
    BY <1>0, <1>1 DEF Identities, StartBegin, StartRefused, FusionGoto,
       lifecycle, FusionTypeOK, Calls, Held, Reports
  <2>7. NoLostWakeup'
    BY <1>0, <1>1, Zenon DEF StartBegin, StartRefused, FusionGoto, lifecycle, FusionTypeOK,
       NoLostWakeup
  <2>8. QED BY <2>1, <2>2, <2>3, <2>4, <2>5, <2>6, <2>7, Zenon DEF WorkerInv
<1>2. ASSUME NEW c \in Caller, CreateThread(c) PROVE WorkerInv'
  <2>1. FusionTypeOK'
    <3>1. CASE fusionPc'[c] = "announce"
      <4>1. PICK w \in Worker : fusionPc[w] = "none" /\ thread' = w /\ workerId' = w
                                /\ fusionPc' = [fusionPc EXCEPT ![c] = "announce", ![w] = "loop"]
                                /\ UNCHANGED <<fusionRunning, reported, threadMutex>>
        BY <1>0, <1>2, <3>1, Zenon DEF CreateThread, FusionGoto, FusionTypeOK
      <4>2. UNCHANGED <<stopCallers, joining, wakeMutex, joinee, seen>>
        BY <1>2, Zenon DEF CreateThread
      <4>3. QED BY <1>0, <4>1, <4>2 DEF Identities, FusionTypeOK
    <3>2. CASE fusionPc'[c] # "announce"
      <4>1. /\ workerId' = Nobody /\ fusionRunning' = FALSE /\ reported' = FALSE
            /\ threadMutex' = Nobody /\ fusionPc' = [fusionPc EXCEPT ![c] = "idle"]
            /\ UNCHANGED <<thread, stopCallers, joining, wakeMutex, joinee, seen>>
        BY <1>0, <1>2, <3>2, Zenon DEF CreateThread, FusionGoto, FusionTypeOK
      <4>2. QED BY <1>0, <4>1, ZenonT(60) DEF Identities, FusionTypeOK
    <3>3. QED BY <3>1, <3>2
  <2>2. Locks'
    BY <1>0, <1>2 DEF Identities, CreateThread, FusionGoto, FusionTypeOK, Locks
  <2>3. Calls'
    BY <1>0, <1>2 DEF CreateThread, FusionGoto, FusionTypeOK, Calls
  <2>4. Held'
    BY <1>0, <1>2 DEF CreateThread, FusionGoto, FusionTypeOK, Locks, Calls, Flag, Held
  <2>5. Flag'
    BY <1>0, <1>2 DEF Identities, CreateThread, FusionGoto, FusionTypeOK, Locks,
       Calls, Held, Flag
  <2>6. Reports'
    BY <1>0, <1>2 DEF CreateThread, FusionGoto, FusionTypeOK, Locks, Calls, Held, Flag, Reports
  <2>7. NoLostWakeup'
    BY <1>0, <1>2 DEF CreateThread, FusionGoto, FusionTypeOK, Locks, Calls, Held, Flag, NoLostWakeup
  <2>8. QED BY <2>1, <2>2, <2>3, <2>4, <2>5, <2>6, <2>7 DEF WorkerInv
<1>3. ASSUME NEW c \in Caller, StartAnnounce(c) PROVE WorkerInv'
  <2>1. FusionTypeOK'
    BY <1>0, <1>3, Zenon DEF StartAnnounce, FusionGoto, lifecycle, FusionTypeOK
  <2>2. Locks'
    BY <1>0, <1>3 DEF Identities, StartAnnounce, FusionGoto, lifecycle, FusionTypeOK,
       Locks
  <2>3. Calls'
    BY <1>0, <1>3, Zenon DEF StartAnnounce, FusionGoto, lifecycle, FusionTypeOK, Calls
  <2>4. Held'
    BY <1>0, <1>3 DEF StartAnnounce, FusionGoto, lifecycle, FusionTypeOK, Held
  <2>5. Flag'
    BY <1>0, <1>3, Zenon DEF StartAnnounce, FusionGoto, lifecycle, FusionTypeOK, Flag
  <2>6. Reports'
    BY <1>0, <1>3, Zenon DEF StartAnnounce, FusionGoto, lifecycle, FusionTypeOK, Locks, Calls,
       Flag, Reports
  <2>7. NoLostWakeup'
    BY <1>0, <1>3, Zenon DEF StartAnnounce, FusionGoto, lifecycle, FusionTypeOK, NoLostWakeup
  <2>8. QED BY <2>1, <2>2, <2>3, <2>4, <2>5, <2>6, <2>7, Zenon DEF WorkerInv
<1>4. ASSUME NEW a \in Actor, StopEnter(a) PROVE WorkerInv'
  <2>1. FusionTypeOK'
    BY <1>0, <1>4, Zenon DEF StopEnter, FusionGoto, FusionTypeOK
  <2>2. Locks'
    BY <1>0, <1>4 DEF Identities, StopEnter, FusionGoto, FusionTypeOK, Locks
  <2>3. Calls'
    BY <1>0, <1>4, Zenon DEF StopEnter, FusionGoto, FusionTypeOK, Calls
  <2>4. Held'
    BY <1>0, <1>4 DEF StopEnter, FusionGoto, FusionTypeOK, Held
  <2>5. Flag'
    BY <1>0, <1>4 DEF Identities, StopEnter, FusionGoto, FusionTypeOK, Locks, Flag
  <2>6. Reports'
    BY <1>0, <1>4, Zenon DEF StopEnter, FusionGoto, FusionTypeOK, Reports
  <2>7. NoLostWakeup'
    BY <1>0, <1>4, Zenon DEF StopEnter, FusionGoto, FusionTypeOK, NoLostWakeup
  <2>8. QED BY <2>1, <2>2, <2>3, <2>4, <2>5, <2>6, <2>7, Zenon DEF WorkerInv
<1>5. ASSUME NEW a \in Actor, StopRequest(a) PROVE WorkerInv'
  <2>1. FusionTypeOK'
    BY <1>0, <1>5, Zenon DEF StopRequest, FusionGoto, lifecycle, FusionTypeOK
  <2>2. Locks'
    BY <1>0, <1>5, Zenon DEF StopRequest, FusionGoto, lifecycle, FusionTypeOK, Locks
  <2>3. Calls'
    BY <1>0, <1>5 DEF StopRequest, FusionGoto, lifecycle, FusionTypeOK, Calls
  <2>4. Held'
    BY <1>0, <1>5 DEF StopRequest, FusionGoto, lifecycle, FusionTypeOK, Held
  <2>5. Flag'
    BY <1>0, <1>5 DEF Identities, StopRequest, FusionGoto, lifecycle, FusionTypeOK,
       Locks, Flag
  <2>6. Reports'
    BY <1>0, <1>5 DEF Identities, StopRequest, FusionGoto, lifecycle, FusionTypeOK,
       Calls, Held, Reports
  <2>7. NoLostWakeup'
    BY <1>0, <1>5, Zenon DEF StopRequest, FusionGoto, lifecycle, FusionTypeOK, NoLostWakeup
  <2>8. QED BY <2>1, <2>2, <2>3, <2>4, <2>5, <2>6, <2>7, Zenon DEF WorkerInv
<1>6. ASSUME NEW a \in Actor, StopNotify(a) PROVE WorkerInv'
  <2>1. FusionTypeOK'
    BY <1>0, <1>6 DEF StopNotify, lifecycle, FusionTypeOK
  <2>2. Locks'
    BY <1>0, <1>6, Zenon DEF StopNotify, lifecycle, FusionTypeOK, Locks
  <2>3. Calls'
    BY <1>0, <1>6, Zenon DEF StopNotify, lifecycle, FusionTypeOK, Calls
  <2>4. Held'
    BY <1>0, <1>6 DEF StopNotify, lifecycle, FusionTypeOK, Held
  <2>5. Flag'
    BY <1>0, <1>6, Zenon DEF StopNotify, lifecycle, FusionTypeOK, Flag
  <2>6. Reports'
    BY <1>0, <1>6, Zenon DEF StopNotify, lifecycle, FusionTypeOK, Reports
  <2>7. NoLostWakeup'
    BY <1>0, <1>6, Zenon DEF StopNotify, lifecycle, FusionTypeOK, NoLostWakeup
  <2>8. QED BY <2>1, <2>2, <2>3, <2>4, <2>5, <2>6, <2>7, Zenon DEF WorkerInv
<1>7. ASSUME NEW a \in Actor, StopDecide(a) PROVE WorkerInv'
  <2>1. FusionTypeOK'
    <3>1. /\ fusionRunning' \in BOOLEAN /\ reported' \in BOOLEAN /\ joining' \in BOOLEAN
      BY <1>0, <1>7, Zenon DEF StopDecide, Leave, lifecycle, FusionTypeOK
    <3>2. /\ thread' \in Worker \cup {Nobody} /\ workerId' \in Worker \cup {Nobody}
          /\ stopCallers' \subseteq Actor
          /\ threadMutex' \in Actor \cup {Nobody} /\ wakeMutex' \in Actor \cup {Nobody}
          /\ seen' \in [Worker -> BOOLEAN]
      BY <1>0, <1>7, Zenon DEF StopDecide, Leave, lifecycle, FusionTypeOK
    <3>3. joinee' \in [Actor -> Worker \cup {Nobody}]
      BY <1>0, <1>7 DEF StopDecide, FusionTypeOK
    <3>4. fusionPc' \in [Actor -> {"idle", "none", "done"} \cup FusionStartPc \cup FusionStopPc \cup RunPc]
      BY <1>0, <1>7 DEF StopDecide, Leave, Broadcast, Resume, FusionGoto, FusionTypeOK
    <3>5. \A b \in Caller : fusionPc'[b] \in {"idle"} \cup FusionStartPc \cup FusionStopPc
      BY <1>0, <1>7 DEF Identities, StopDecide, Leave, Broadcast, Resume,
         FusionGoto, FusionTypeOK
    <3>6. a \in Worker => workerId = a
      BY <1>0, <1>7 DEF Identities, StopDecide, FusionTypeOK, Held
    <3>7. \A w \in Worker : fusionPc'[w] \in {"none", "done", "request", "notify", "decide"} \cup RunPc
      BY <1>0, <1>7, <3>6 DEF StopDecide, Leave, Broadcast, Resume, FusionGoto, FusionTypeOK
    <3>8. QED BY <3>1, <3>2, <3>3, <3>4, <3>5, <3>7 DEF FusionTypeOK
  <2>2. Locks'
    BY <1>0, <1>7 DEF Identities, StopDecide, Leave, Broadcast, Resume,
       FusionGoto, lifecycle, FusionTypeOK, Locks
  <2>3. Calls'
    BY <1>0, <1>7 DEF StopDecide, Leave, Broadcast, Resume, FusionGoto, lifecycle, FusionTypeOK,
       Calls
  <2>4. Held'
    BY <1>0, <1>7 DEF StopDecide, Leave, Broadcast, Resume, FusionGoto, lifecycle, FusionTypeOK,
       Locks, Calls,
       Flag, Held
  <2>5. Flag'
    BY <1>0, <1>7 DEF StopDecide, Leave, Broadcast, Resume, FusionGoto, lifecycle, FusionTypeOK,
       Flag
  <2>6. Reports'
    BY <1>0, <1>7 DEF StopDecide, Leave, Broadcast, Resume, FusionGoto, lifecycle, FusionTypeOK,
       Locks, Calls,
       Held, Flag, Reports
  <2>7. NoLostWakeup'
    BY <1>0, <1>7 DEF StopDecide, Leave, Broadcast, Resume, FusionGoto, lifecycle, FusionTypeOK,
       NoLostWakeup
  <2>8. QED BY <2>1, <2>2, <2>3, <2>4, <2>5, <2>6, <2>7, Zenon DEF WorkerInv
<1>8. ASSUME NEW a \in Actor, JoinThread(a) PROVE WorkerInv'
  <2>1. FusionTypeOK'
    BY <1>0, <1>8, Zenon DEF JoinThread, lifecycle, FusionTypeOK
  <2>2. Locks'
    BY <1>0, <1>8, Zenon DEF JoinThread, lifecycle, FusionTypeOK, Locks
  <2>3. Calls'
    BY <1>0, <1>8 DEF JoinThread, lifecycle, FusionTypeOK, Calls
  <2>4. Held'
    BY <1>0, <1>8 DEF JoinThread, lifecycle, FusionTypeOK, Locks, Calls, Flag, Held
  <2>5. Flag'
    BY <1>0, <1>8, Zenon DEF JoinThread, lifecycle, FusionTypeOK, Flag
  <2>6. Reports'
    BY <1>0, <1>8, Zenon DEF JoinThread, lifecycle, FusionTypeOK, Reports
  <2>7. NoLostWakeup'
    BY <1>0, <1>8, Zenon DEF JoinThread, lifecycle, FusionTypeOK, NoLostWakeup
  <2>8. QED BY <2>1, <2>2, <2>3, <2>4, <2>5, <2>6, <2>7, Zenon DEF WorkerInv
<1>9. ASSUME NEW a \in Actor, StopFinish(a) PROVE WorkerInv'
  <2>1. FusionTypeOK'
    BY <1>0, <1>9, Zenon DEF StopFinish, Leave, Broadcast, Resume, FusionTypeOK
  <2>2. Locks'
    BY <1>0, <1>9, Zenon DEF StopFinish, Leave, Broadcast, Resume, FusionTypeOK, Locks
  <2>3. Calls'
    BY <1>0, <1>9, Zenon DEF StopFinish, Leave, Broadcast, Resume, FusionTypeOK, Calls
  <2>4. Held'
    BY <1>0, <1>9 DEF StopFinish, Leave, Broadcast, Resume, FusionTypeOK, Locks, Calls, Flag, Held
  <2>5. Flag'
    BY <1>0, <1>9, Zenon DEF StopFinish, Leave, Broadcast, Resume, FusionTypeOK, Flag
  <2>6. Reports'
    BY <1>0, <1>9 DEF StopFinish, Leave, Broadcast, Resume, FusionTypeOK, Locks, Calls, Held, Flag,
       Reports
  <2>7. NoLostWakeup'
    BY <1>0, <1>9, Zenon DEF StopFinish, Leave, Broadcast, Resume, FusionTypeOK, NoLostWakeup
  <2>8. QED BY <2>1, <2>2, <2>3, <2>4, <2>5, <2>6, <2>7, Zenon DEF WorkerInv
<1>10. ASSUME NEW a \in Actor, StopRecheck(a) PROVE WorkerInv'
  <2>1. FusionTypeOK'
    BY <1>0, <1>10 DEF StopRecheck, Leave, Broadcast, Resume, FusionGoto, FusionTypeOK
  <2>2. Locks'
    BY <1>0, <1>10 DEF StopRecheck, Leave, Broadcast, Resume, FusionGoto, FusionTypeOK, Locks
  <2>3. Calls'
    BY <1>0, <1>10 DEF StopRecheck, Leave, Broadcast, Resume, FusionGoto, FusionTypeOK, Calls
  <2>4. Held'
    BY <1>0, <1>10 DEF StopRecheck, Leave, Broadcast, Resume, FusionGoto, FusionTypeOK, Held
  <2>5. Flag'
    BY <1>0, <1>10 DEF StopRecheck, Leave, Broadcast, Resume, FusionGoto, FusionTypeOK, Flag
  <2>6. Reports'
    BY <1>0, <1>10 DEF StopRecheck, Leave, Broadcast, Resume, FusionGoto, FusionTypeOK, Reports
  <2>7. NoLostWakeup'
    BY <1>0, <1>10 DEF StopRecheck, Leave, Broadcast, Resume, FusionGoto, FusionTypeOK, NoLostWakeup
  <2>8. QED BY <2>1, <2>2, <2>3, <2>4, <2>5, <2>6, <2>7 DEF WorkerInv
<1>11. ASSUME NEW w \in Worker, RunTest(w) PROVE WorkerInv'
  <2>1. FusionTypeOK'
    BY <1>0, <1>11 DEF RunTest, FusionGoto, lifecycle, FusionTypeOK
  <2>2. Locks'
    BY <1>0, <1>11, Zenon DEF RunTest, FusionGoto, lifecycle, FusionTypeOK, Locks
  <2>3. Calls'
    BY <1>0, <1>11 DEF RunTest, FusionGoto, lifecycle, FusionTypeOK, Calls
  <2>4. Held'
    BY <1>0, <1>11 DEF RunTest, FusionGoto, lifecycle, FusionTypeOK, Held
  <2>5. Flag'
    BY <1>0, <1>11, Zenon DEF RunTest, FusionGoto, lifecycle, FusionTypeOK, Flag
  <2>6. Reports'
    BY <1>0, <1>11, Zenon DEF RunTest, FusionGoto, lifecycle, FusionTypeOK, Reports
  <2>7. NoLostWakeup'
    BY <1>0, <1>11, Zenon DEF RunTest, FusionGoto, lifecycle, FusionTypeOK, NoLostWakeup
  <2>8. QED BY <2>1, <2>2, <2>3, <2>4, <2>5, <2>6, <2>7, Zenon DEF WorkerInv
<1>12. ASSUME NEW w \in Worker, RunPoll(w) PROVE WorkerInv'
  <2>1. FusionTypeOK'
    BY <1>0, <1>12 DEF RunPoll, FusionGoto, lifecycle, FusionTypeOK
  <2>2. Locks'
    BY <1>0, <1>12, Zenon DEF RunPoll, FusionGoto, lifecycle, FusionTypeOK, Locks
  <2>3. Calls'
    BY <1>0, <1>12, Zenon DEF RunPoll, FusionGoto, lifecycle, FusionTypeOK, Calls
  <2>4. Held'
    BY <1>0, <1>12 DEF RunPoll, FusionGoto, lifecycle, FusionTypeOK, Held
  <2>5. Flag'
    BY <1>0, <1>12, Zenon DEF RunPoll, FusionGoto, lifecycle, FusionTypeOK, Flag
  <2>6. Reports'
    BY <1>0, <1>12, Zenon DEF RunPoll, FusionGoto, lifecycle, FusionTypeOK, Reports
  <2>7. NoLostWakeup'
    BY <1>0, <1>12, Zenon DEF RunPoll, FusionGoto, lifecycle, FusionTypeOK, NoLostWakeup
  <2>8. QED BY <2>1, <2>2, <2>3, <2>4, <2>5, <2>6, <2>7, Zenon DEF WorkerInv
<1>13. ASSUME NEW w \in Worker, RunFuse(w) PROVE WorkerInv'
  <2>1. FusionTypeOK'
    BY <1>0, <1>13 DEF RunFuse, FusionGoto, lifecycle, FusionTypeOK
  <2>2. Locks'
    BY <1>0, <1>13, Zenon DEF RunFuse, FusionGoto, lifecycle, FusionTypeOK, Locks
  <2>3. Calls'
    BY <1>0, <1>13, Zenon DEF RunFuse, FusionGoto, lifecycle, FusionTypeOK, Calls
  <2>4. Held'
    BY <1>0, <1>13 DEF RunFuse, FusionGoto, lifecycle, FusionTypeOK, Held
  <2>5. Flag'
    BY <1>0, <1>13, Zenon DEF RunFuse, FusionGoto, lifecycle, FusionTypeOK, Flag
  <2>6. Reports'
    BY <1>0, <1>13, Zenon DEF RunFuse, FusionGoto, lifecycle, FusionTypeOK, Reports
  <2>7. NoLostWakeup'
    BY <1>0, <1>13, Zenon DEF RunFuse, FusionGoto, lifecycle, FusionTypeOK, NoLostWakeup
  <2>8. QED BY <2>1, <2>2, <2>3, <2>4, <2>5, <2>6, <2>7, Zenon DEF WorkerInv
<1>14. ASSUME NEW w \in Worker, RunReport(w) PROVE WorkerInv'
  <2>1. FusionTypeOK'
    BY <1>0, <1>14, Zenon DEF RunReport, FusionGoto, lifecycle, FusionTypeOK
  <2>2. Locks'
    BY <1>0, <1>14, Zenon DEF RunReport, FusionGoto, lifecycle, FusionTypeOK, Locks
  <2>3. Calls'
    BY <1>0, <1>14, Zenon DEF RunReport, FusionGoto, lifecycle, FusionTypeOK, Calls
  <2>4. Held'
    BY <1>0, <1>14 DEF RunReport, FusionGoto, lifecycle, FusionTypeOK, Held
  <2>5. Flag'
    BY <1>0, <1>14, Zenon DEF RunReport, FusionGoto, lifecycle, FusionTypeOK, Flag
  <2>6. Reports'
    BY <1>0, <1>14, Zenon DEF RunReport, FusionGoto, lifecycle, FusionTypeOK, Reports
  <2>7. NoLostWakeup'
    BY <1>0, <1>14, Zenon DEF RunReport, FusionGoto, lifecycle, FusionTypeOK, NoLostWakeup
  <2>8. QED BY <2>1, <2>2, <2>3, <2>4, <2>5, <2>6, <2>7, Zenon DEF WorkerInv
<1>15. ASSUME NEW w \in Worker, RunPace(w) PROVE WorkerInv'
  <2>1. FusionTypeOK'
    BY <1>0, <1>15 DEF RunPace, FusionGoto, lifecycle, FusionTypeOK
  <2>2. Locks'
    BY <1>0, <1>15 DEF Identities, RunPace, FusionGoto, lifecycle, FusionTypeOK, Locks
  <2>3. Calls'
    BY <1>0, <1>15 DEF RunPace, FusionGoto, lifecycle, FusionTypeOK, Calls
  <2>4. Held'
    BY <1>0, <1>15 DEF RunPace, FusionGoto, lifecycle, FusionTypeOK, Held
  <2>5. Flag'
    BY <1>0, <1>15 DEF RunPace, FusionGoto, lifecycle, FusionTypeOK, Flag
  <2>6. Reports'
    BY <1>0, <1>15 DEF RunPace, FusionGoto, lifecycle, FusionTypeOK, Reports
  <2>7. NoLostWakeup'
    BY <1>0, <1>15, Zenon DEF RunPace, FusionGoto, lifecycle, FusionTypeOK, NoLostWakeup
  <2>8. QED BY <2>1, <2>2, <2>3, <2>4, <2>5, <2>6, <2>7, Zenon DEF WorkerInv
<1>16. ASSUME NEW w \in Worker, RunPredicate(w) PROVE WorkerInv'
  <2>1. FusionTypeOK'
    BY <1>0, <1>16 DEF RunPredicate, FusionGoto, lifecycle, FusionTypeOK
  <2>2. Locks'
    BY <1>0, <1>16 DEF Identities, RunPredicate, FusionGoto, lifecycle, FusionTypeOK,
       Locks
  <2>3. Calls'
    BY <1>0, <1>16 DEF RunPredicate, FusionGoto, lifecycle, FusionTypeOK, Calls
  <2>4. Held'
    BY <1>0, <1>16 DEF RunPredicate, FusionGoto, lifecycle, FusionTypeOK, Held
  <2>5. Flag'
    BY <1>0, <1>16 DEF RunPredicate, FusionGoto, lifecycle, FusionTypeOK, Flag
  <2>6. Reports'
    BY <1>0, <1>16 DEF RunPredicate, FusionGoto, lifecycle, FusionTypeOK, Reports
  <2>7. NoLostWakeup'
    BY <1>0, <1>16, Zenon DEF RunPredicate, FusionGoto, lifecycle, FusionTypeOK, NoLostWakeup
  <2>8. QED BY <2>1, <2>2, <2>3, <2>4, <2>5, <2>6, <2>7, Zenon DEF WorkerInv
<1>17. ASSUME NEW w \in Worker, RunBlock(w) PROVE WorkerInv'
  <2>1. FusionTypeOK'
    BY <1>0, <1>17, Zenon DEF RunBlock, FusionGoto, lifecycle, FusionTypeOK
  <2>2. Locks'
    BY <1>0, <1>17 DEF Identities, RunBlock, FusionGoto, lifecycle, FusionTypeOK,
       Locks
  <2>3. Calls'
    BY <1>0, <1>17, Zenon DEF RunBlock, FusionGoto, lifecycle, FusionTypeOK, Calls
  <2>4. Held'
    BY <1>0, <1>17 DEF RunBlock, FusionGoto, lifecycle, FusionTypeOK, Held
  <2>5. Flag'
    BY <1>0, <1>17, Zenon DEF RunBlock, FusionGoto, lifecycle, FusionTypeOK, Flag
  <2>6. Reports'
    BY <1>0, <1>17, Zenon DEF RunBlock, FusionGoto, lifecycle, FusionTypeOK, Reports
  <2>7. NoLostWakeup'
    BY <1>0, <1>17, Zenon DEF RunBlock, FusionGoto, lifecycle, FusionTypeOK, Locks, Calls, Flag,
       NoLostWakeup
  <2>8. QED BY <2>1, <2>2, <2>3, <2>4, <2>5, <2>6, <2>7, Zenon DEF WorkerInv
<1>18. ASSUME NEW w \in Worker, RunTimeout(w) PROVE WorkerInv'
  <2>1. FusionTypeOK'
    BY <1>0, <1>18, Zenon DEF RunTimeout, FusionGoto, lifecycle, FusionTypeOK
  <2>2. Locks'
    BY <1>0, <1>18, Zenon DEF RunTimeout, FusionGoto, lifecycle, FusionTypeOK, Locks
  <2>3. Calls'
    BY <1>0, <1>18, Zenon DEF RunTimeout, FusionGoto, lifecycle, FusionTypeOK, Calls
  <2>4. Held'
    BY <1>0, <1>18 DEF RunTimeout, FusionGoto, lifecycle, FusionTypeOK, Held
  <2>5. Flag'
    BY <1>0, <1>18, Zenon DEF RunTimeout, FusionGoto, lifecycle, FusionTypeOK, Flag
  <2>6. Reports'
    BY <1>0, <1>18, Zenon DEF RunTimeout, FusionGoto, lifecycle, FusionTypeOK, Reports
  <2>7. NoLostWakeup'
    BY <1>0, <1>18, Zenon DEF RunTimeout, FusionGoto, lifecycle, FusionTypeOK, NoLostWakeup
  <2>8. QED BY <2>1, <2>2, <2>3, <2>4, <2>5, <2>6, <2>7, Zenon DEF WorkerInv
<1>19. CASE UNCHANGED fusionVars
  <2>1. FusionTypeOK' BY <1>0, <1>19 DEF fusionVars, FusionTypeOK
  <2>2. Locks' BY <1>0, <1>19 DEF fusionVars, Locks
  <2>3. Calls' BY <1>0, <1>19, Zenon DEF fusionVars, Calls
  <2>4. Held' BY <1>0, <1>19, Zenon DEF fusionVars, Held
  <2>5. Flag' BY <1>0, <1>19, Zenon DEF fusionVars, Flag
  <2>6. Reports' BY <1>0, <1>19, Zenon DEF fusionVars, Reports
  <2>7. NoLostWakeup' BY <1>0, <1>19, Zenon DEF fusionVars, NoLostWakeup
  <2>8. QED BY <2>1, <2>2, <2>3, <2>4, <2>5, <2>6, <2>7, Zenon DEF WorkerInv
<1>20. QED
  BY <1>1, <1>2, <1>3, <1>4, <1>5, <1>6, <1>7, <1>8, <1>9, <1>10, <1>11, <1>12, <1>13, <1>14,
     <1>15, <1>16, <1>17, <1>18, <1>19, Zenon DEF FusionNext, FusionStopStep, RunStep

LEMMA WorkerInvariant == ASSUME Identities PROVE FusionSpec => []WorkerInv
BY WorkerInit, WorkerStep, PTL DEF FusionSpec

\* The types of the object's members and of the program counters (TelemetryFusion).
THEOREM WorkerTypes == ASSUME Identities PROVE FusionSpec => []FusionTypeOK
<1>1. WorkerInv => FusionTypeOK BY Zenon DEF WorkerInv
<1>2. QED BY <1>1, WorkerInvariant, PTL

\* However start and stop race, there is at most one polling thread, and thread_ or
\* exactly one stop call can join it (TelemetryFusion::start, TelemetryFusion::stop).
THEOREM SingleWorker == ASSUME Identities PROVE FusionSpec => []OneWorker
<1>1. WorkerInv => OneWorker
  <2> SUFFICES ASSUME WorkerInv PROVE OneWorker BY Zenon
  <2>0. FusionTypeOK /\ Calls /\ Held BY Zenon DEF WorkerInv
  <2>1. ASSUME NEW v \in Worker, NEW w \in Worker, fusionPc[v] # "none", fusionPc[w] # "none"
        PROVE v = w
    BY <2>0, <2>1 DEF Identities, FusionTypeOK, Calls, Held
  <2>2. ASSUME NEW w \in Worker, fusionPc[w] # "none"
        PROVE  \/ thread = w /\ \A a \in Actor : joinee[a] # w
               \/ thread # w /\ \E a \in Actor : joinee[a] = w
                                    /\ \A b \in Actor : joinee[b] = w => b = a
    BY <2>0, <2>2 DEF Identities, FusionTypeOK, Calls, Held
  <2>3. QED BY <2>1, <2>2 DEF OneWorker, Alive
<1>2. QED BY <1>1, WorkerInvariant, PTL

\* The notification of a stop is never lost between the worker's test and its sleep
\* (TelemetryFusion::stop clears running_ under wake_mutex_).
THEOREM WakeupKept == ASSUME Identities PROVE FusionSpec => []NoLostWakeup
<1>1. WorkerInv => NoLostWakeup BY Zenon DEF WorkerInv
<1>2. QED BY <1>1, WorkerInvariant, PTL

\* With no start or stop call in progress the reported running state is the real one
\* (tsd_observability_update_fusion under thread_mutex_).
THEOREM CurrentReport == ASSUME Identities PROVE FusionSpec => []ReportIsCurrent
<1>1. WorkerInv => ReportIsCurrent
  <2> SUFFICES ASSUME WorkerInv, threadMutex = Nobody, stopCallers = {}
               PROVE reported = fusionRunning
    BY Zenon DEF ReportIsCurrent
  <2>0. FusionTypeOK /\ Locks /\ Calls /\ Reports BY Zenon DEF WorkerInv
  <2>1. \A a \in Actor : fusionPc[a] \notin FusionStartPc \cup CallPc \cup JoinPc
    BY <2>0, Zenon DEF Identities, Locks, Calls
  <2>2. fusionRunning => reported BY <2>0, <2>1, Zenon DEF Reports
  <2>3. ~fusionRunning => ~reported BY <2>0, <2>1, Zenon DEF Reports
  <2>4. fusionRunning \in BOOLEAN /\ reported \in BOOLEAN BY <2>0, Zenon DEF FusionTypeOK
  <2>5. QED BY <2>2, <2>3, <2>4, Zenon
<1>2. QED BY <1>1, WorkerInvariant, PTL

\* A stop call of an owner returns only when no polling thread is left and the stopped
\* state is reported (TelemetryFusion::stop, fusion.h:70-72).
THEOREM CompleteStop == ASSUME Identities PROVE FusionSpec => StopComplete
<1>1. WorkerInv /\ WorkerInv' /\ [FusionNext]_fusionVars
        => [\A c \in Caller : fusionPc[c] \in FusionStopPc /\ fusionPc'[c] = "idle" =>
              ~fusionRunning' /\ ~reported' /\ \A w \in Worker : fusionPc'[w] = "none"]_fusionVars
  <2> SUFFICES ASSUME WorkerInv, WorkerInv', FusionNext, NEW c \in Caller,
                      fusionPc[c] \in FusionStopPc, fusionPc'[c] = "idle"
               PROVE  ~fusionRunning' /\ ~reported' /\ \A w \in Worker : fusionPc'[w] = "none"
    BY Zenon
  <2>0. FusionTypeOK /\ Locks /\ Calls /\ Held /\ Flag /\ Reports BY Zenon DEF WorkerInv
  <2>1. StopDecide(c) \/ StopFinish(c) \/ StopRecheck(c)
    <3>1. ASSUME NEW b \in Caller, StartBegin(b) \/ CreateThread(b) \/ StartAnnounce(b) PROVE FALSE
      BY <2>0, <3>1, Zenon DEF FusionTypeOK, StartBegin, CreateThread, StartAnnounce, FusionGoto
    <3>2. ASSUME NEW a \in Actor, StopEnter(a) \/ StopRequest(a) PROVE FALSE
      BY <2>0, <3>2, Zenon DEF FusionTypeOK, StopEnter, StopRequest, FusionGoto
    <3>3. ASSUME NEW a \in Actor, StopNotify(a) \/ JoinThread(a) PROVE FALSE
      BY <2>0, <3>3 DEF FusionTypeOK, Calls, Held, StopNotify, JoinThread
    <3>4. ASSUME NEW w \in Worker, RunStep(w) PROVE FALSE
      BY <2>0, <3>4, Zenon DEF FusionTypeOK, RunStep, RunTest, RunPoll, RunFuse, RunReport, RunPace,
         RunPredicate, RunBlock, RunTimeout, FusionGoto
    <3>5. ASSUME NEW a \in Actor, StopDecide(a) \/ StopFinish(a) \/ StopRecheck(a), a # c
          PROVE FALSE
      BY <2>0, <3>5, SMTT(30) DEF FusionTypeOK, StopDecide, StopFinish, StopRecheck, Leave,
         Broadcast, FusionGoto
    <3>6. QED BY <3>1, <3>2, <3>3, <3>4, <3>5 DEF FusionNext, FusionStopStep
  <2>2. /\ ~fusionRunning' /\ ~reported' /\ thread = Nobody
        /\ \A a \in Actor : joinee[a] = Nobody
    <3>1. CASE StopDecide(c)
      BY <2>0, <3>1, SMTT(30) DEF StopDecide, Leave, Broadcast, Resume, FusionGoto, FusionTypeOK,
         Locks, Calls, Held, Flag
    <3>2. CASE StopFinish(c)
      BY <2>0, <3>2, SMTT(30) DEF StopFinish, Leave, Broadcast, Resume, FusionTypeOK, Locks,
         Calls, Held, Flag
    <3>3. CASE StopRecheck(c)
      <4>1. ~joining /\ threadMutex = Nobody
        BY <2>0, <3>3, Zenon DEF StopRecheck, FusionGoto, FusionTypeOK
      <4>2. \A a \in Actor : fusionPc[a] \notin CallPc \cup JoinPc
        BY <2>0, <4>1, ZenonT(60) DEF Identities, Locks, Calls
      <4>3. ~fusionRunning BY <2>0, <3>3, SMTT(30) DEF StopRecheck, Flag
      <4>4. ~reported BY <2>0, <4>2, <4>3 DEF Reports
      <4>5. thread = Nobody BY <2>0, <3>3, Zenon DEF StopRecheck, Held
      <4>6. \A a \in Actor : joinee[a] = Nobody BY <2>0, <4>2, Zenon DEF Calls
      <4>7. QED BY <3>3, <4>3, <4>4, <4>5, <4>6 DEF StopRecheck
    <3>4. QED BY <2>1, <3>1, <3>2, <3>3, SMTT(30)
  <2>3. \A w \in Worker : fusionPc[w] = "none"
    BY <2>0, <2>2, SMTT(30) DEF Identities, FusionTypeOK, Held
  <2>4. \A w \in Worker : fusionPc'[w] = fusionPc[w]
    BY <2>0, <2>1, <2>3 DEF StopDecide, StopFinish, StopRecheck, Leave, Broadcast, FusionGoto,
       FusionTypeOK
  <2>5. QED BY <2>2, <2>3, <2>4, Zenon
<1>2. QED BY <1>1, WorkerInvariant, PTL DEF FusionSpec, StopComplete

HIDE DEF Actor, FusionStartPc, FusionStopPc, RunPc, CallPc, JoinPc

----------------------------------------------------------------------------
(* The safety limits of the authorization checks                           *)

PublishPc == {"read", "write", "publish"}

\* the phases in which the threads of a generation can be in a check
BusyPhase == {"live", "requestClosed", "requested", "stopClosed", "join"}

\* the limits of the generation that runs
Current == [f \in Field |-> generation]

\* The lifecycle: which configuration is active, whether the gate is closed and the
\* guard published, and that no check that is awaited outlives its generation.
Phases ==
  /\ phase # "off" => configState /\ config = Current
  /\ phase \in {"startClosed", "perf", "baseline", "requestClosed", "requested", "stopClosed", "join"}
       => stopping
  /\ phase \notin BusyPhase => \A c \in Awaited : at[c] = "idle"
  /\ phase \notin BusyPhase \cup {"baseline"} => ~guardActive
  /\ delayed \subseteq Application

\* Before the guard is published no check gets past it, and the snapshot is reset.
Quiet ==
  delayed = {} /\ phase \in {"activated", "start", "startClosed", "perf"} =>
    /\ \A c \in Checker : at[c] \in {"idle", "guard"}
    /\ phase # "activated" => safetyState = 0

\* the guard is published, and no check is left over from another generation
Guarded == delayed = {} /\ phase \in {"baseline", "live"}

\* From then on the state tells who publishes and who may read.
Ownership ==
  Guarded =>
    /\ \A c, d \in Checker : at[c] \in PublishPc /\ at[d] \in PublishPc => c = d
    /\ \A c \in Checker : at[c] \in PublishPc => safetyState = 1
    /\ \A c \in Checker : at[c] \in {"copy", "use"} => safetyState = 2
    /\ safetyState = 2 => safety = Current

\* How far a check is with its copies.
Progress ==
  Guarded =>
    \A c \in Checker :
      /\ at[c] \in {"claim", "publish"} => todo[c] = Field
      /\ at[c] \in {"read", "copy"} => \A f \in Field : f \in todo[c] \/ local[c][f] = generation
      /\ at[c] \in {"write", "publish"} => local[c] = Current
      /\ at[c] = "write" => \A f \in Field : f \in todo[c] \/ safety[f] = generation
      /\ at[c] = "publish" => safety = Current
      /\ at[c] = "use" => local[c] = Current

LimitsInv == LimitsTypeOK /\ Phases /\ Quiet /\ Ownership /\ Progress

\* The first state satisfies the invariant.
LEMMA LimitsFirst == ASSUME MaxGeneration \in Nat PROVE LimitsInit => LimitsInv
<1> SUFFICES ASSUME LimitsInit PROVE LimitsInv BY Zenon
<1>0. Awaited \subseteq Checker BY Zenon DEF Checker
<1>1. 0 \in 0..MaxGeneration OBVIOUS 
<1>2. [f \in Field |-> Legacy] \in [Field -> 0..MaxGeneration] BY <1>1 DEF Legacy
<1>3. LimitsTypeOK
  <2>1. /\ configState \in BOOLEAN /\ stopping \in BOOLEAN /\ guardActive \in BOOLEAN
    BY Zenon DEF LimitsInit
  <2>2. safetyState \in 0..2 /\ generation \in 0..MaxGeneration BY <1>1 DEF LimitsInit
  <2>3. config \in [Field -> 0..MaxGeneration] /\ safety \in [Field -> 0..MaxGeneration]
    BY <1>2, Zenon DEF LimitsInit
  <2>4. /\ todo \in [Checker -> SUBSET Field] /\ began \in [Checker -> 0..MaxGeneration]
        /\ local \in [Checker -> [Field -> 0..MaxGeneration]] /\ delayed \subseteq Checker
    BY <1>1, <1>2, Zenon DEF LimitsInit, Legacy
  <2>5. at \in [Checker -> {"idle", "guard", "state", "claim", "read", "write", "publish", "copy",
                            "use"}]
    BY Zenon DEF LimitsInit
  <2>6. phase = "off" BY Zenon DEF LimitsInit
  <2>7. QED BY <2>1, <2>2, <2>3, <2>4, <2>5, <2>6, Zenon DEF LimitsTypeOK
<1>4. Phases BY <1>0, Zenon DEF LimitsInit, Phases, BusyPhase
<1>5. Quiet /\ Ownership /\ Progress BY Zenon DEF LimitsInit, Quiet, Ownership, Progress, Guarded
<1>6. QED BY <1>3, <1>4, <1>5, Zenon DEF LimitsInv

\* Every step keeps the invariant.
LEMMA LimitsStep == ASSUME MaxGeneration \in Nat PROVE LimitsInv /\ [LimitsNext]_limitsVars => LimitsInv'
<1> SUFFICES ASSUME LimitsInv, [LimitsNext]_limitsVars PROVE LimitsInv'
  BY Zenon
<1>0. /\ LimitsTypeOK /\ Phases /\ Quiet /\ Ownership /\ Progress
      /\ Awaited \subseteq Checker /\ Application \subseteq Checker /\ MaxGeneration \in Nat
  BY Zenon DEF LimitsInv, Checker
<1>1. ASSUME Activate, UNCHANGED <<safety, checkVars>> PROVE LimitsInv'
  <2>1. LimitsTypeOK'
    BY <1>0, <1>1 DEF Activate, checkVars, LimitsTypeOK
  <2>2. Phases'
    BY <1>0, <1>1 DEF Activate, checkVars, Phases, BusyPhase, Current, LimitsTypeOK, Checker
  <2>3. Ownership'
    BY <1>0, <1>1, Zenon DEF Activate, checkVars, Ownership, Guarded
  <2>4. Progress'
    BY <1>0, <1>1, Zenon DEF Activate, checkVars, Progress, Guarded
  <2>5. Quiet'
    BY <1>0, <1>1, Zenon DEF Activate, checkVars, Quiet, Phases, BusyPhase
  <2>6. QED BY <2>1, <2>2, <2>3, <2>4, <2>5, Zenon DEF LimitsInv
<1>2. ASSUME ActivateReset, UNCHANGED <<safety, checkVars>> PROVE LimitsInv'
  <2>1. LimitsTypeOK'
    BY <1>0, <1>2 DEF ActivateReset, checkVars, LimitsTypeOK
  <2>2. Phases'
    BY <1>0, <1>2, Zenon DEF ActivateReset, checkVars, Phases, BusyPhase, Current
  <2>3. Ownership'
    BY <1>0, <1>2, Zenon DEF ActivateReset, checkVars, Ownership, Guarded
  <2>4. Progress'
    BY <1>0, <1>2, Zenon DEF ActivateReset, checkVars, Progress, Guarded
  <2>5. Quiet'
    BY <1>0, <1>2, Zenon DEF ActivateReset, checkVars, Quiet, Phases, BusyPhase
  <2>6. QED BY <2>1, <2>2, <2>3, <2>4, <2>5, Zenon DEF LimitsInv
<1>3. ASSUME CloseGate, UNCHANGED <<safety, checkVars>> PROVE LimitsInv'
  <2>1. LimitsTypeOK'
    BY <1>0, <1>3, Zenon DEF CloseGate, checkVars, LimitsTypeOK
  <2>2. Phases'
    BY <1>0, <1>3, Zenon DEF CloseGate, checkVars, Phases, BusyPhase, Current
  <2>3. Ownership'
    BY <1>0, <1>3, Zenon DEF CloseGate, checkVars, Ownership, Guarded
  <2>4. Progress'
    BY <1>0, <1>3, Zenon DEF CloseGate, checkVars, Progress, Guarded
  <2>5. Quiet'
    BY <1>0, <1>3, Zenon DEF CloseGate, checkVars, Quiet, Phases, BusyPhase
  <2>6. QED BY <2>1, <2>2, <2>3, <2>4, <2>5, Zenon DEF LimitsInv
<1>4. ASSUME CloseReset, UNCHANGED <<safety, checkVars>> PROVE LimitsInv'
  <2>1. LimitsTypeOK'
    BY <1>0, <1>4 DEF CloseReset, checkVars, LimitsTypeOK
  <2>2. Phases'
    BY <1>0, <1>4, Zenon DEF CloseReset, checkVars, Phases, BusyPhase, Current
  <2>3. Ownership'
    BY <1>0, <1>4, Zenon DEF CloseReset, checkVars, Ownership, Guarded
  <2>4. Progress'
    BY <1>0, <1>4, Zenon DEF CloseReset, checkVars, Progress, Guarded
  <2>5. Quiet'
    BY <1>0, <1>4, Zenon DEF CloseReset, checkVars, Quiet, Phases, BusyPhase
  <2>6. QED BY <2>1, <2>2, <2>3, <2>4, <2>5, Zenon DEF LimitsInv
<1>5. ASSUME PerfInit, UNCHANGED <<safety, checkVars>> PROVE LimitsInv'
  <2>1. LimitsTypeOK'
    BY <1>0, <1>5, Zenon DEF PerfInit, checkVars, LimitsTypeOK
  <2>2. Phases'
    BY <1>0, <1>5 DEF PerfInit, checkVars, Phases, BusyPhase, Current, LimitsTypeOK
  <2>3. Ownership'
    BY <1>0, <1>5 DEF PerfInit, checkVars, Quiet, Ownership, Guarded, PublishPc
  <2>4. Progress'
    BY <1>0, <1>5 DEF PerfInit, checkVars, Quiet, Progress, Guarded
  <2>5. Quiet'
    BY <1>0, <1>5, Zenon DEF PerfInit, checkVars, Quiet, Phases, BusyPhase
  <2>6. QED BY <2>1, <2>2, <2>3, <2>4, <2>5, Zenon DEF LimitsInv
<1>6. ASSUME OpenGate, UNCHANGED <<safety, checkVars>> PROVE LimitsInv'
  <2>1. LimitsTypeOK'
    BY <1>0, <1>6, Zenon DEF OpenGate, WorkersDone, checkVars, LimitsTypeOK
  <2>2. Phases'
    BY <1>0, <1>6, Zenon DEF OpenGate, WorkersDone, checkVars, Phases, BusyPhase, Current
  <2>3. Ownership'
    BY <1>0, <1>6 DEF OpenGate, WorkersDone, checkVars, LimitsTypeOK, Phases, Ownership, Guarded,
       BusyPhase, PublishPc, Current
  <2>4. Progress'
    BY <1>0, <1>6, Zenon DEF OpenGate, WorkersDone, checkVars, LimitsTypeOK, Phases, Progress, Guarded,
       BusyPhase, Current
  <2>5. Quiet'
    BY <1>0, <1>6, Zenon DEF OpenGate, checkVars, Quiet, Phases, BusyPhase
  <2>6. QED BY <2>1, <2>2, <2>3, <2>4, <2>5, Zenon DEF LimitsInv
<1>7. ASSUME Cleanup, UNCHANGED <<safety, checkVars>> PROVE LimitsInv'
  <2>1. LimitsTypeOK'
    BY <1>0, <1>7, Zenon DEF Cleanup, WorkersDone, checkVars, LimitsTypeOK
  <2>2. Phases'
    BY <1>0, <1>7, Zenon DEF Cleanup, WorkersDone, checkVars, Phases, BusyPhase, Current
  <2>3. Ownership'
    BY <1>0, <1>7, Zenon DEF Cleanup, WorkersDone, checkVars, Ownership, Guarded
  <2>4. Progress'
    BY <1>0, <1>7, Zenon DEF Cleanup, WorkersDone, checkVars, Progress, Guarded
  <2>5. Quiet'
    BY <1>0, <1>7, Zenon DEF Cleanup, checkVars, Quiet, Phases, BusyPhase
  <2>6. QED BY <2>1, <2>2, <2>3, <2>4, <2>5, Zenon DEF LimitsInv
<1>8. ASSUME StopFails, UNCHANGED <<safety, checkVars>> PROVE LimitsInv'
  <2>1. LimitsTypeOK'
    BY <1>0, <1>8, Zenon DEF StopFails, checkVars, LimitsTypeOK
  <2>2. Phases'
    BY <1>0, <1>8, Zenon DEF StopFails, checkVars, Phases, BusyPhase, Current
  <2>3. Ownership'
    BY <1>0, <1>8, Zenon DEF StopFails, checkVars, Ownership, Guarded
  <2>4. Progress'
    BY <1>0, <1>8, Zenon DEF StopFails, checkVars, Progress, Guarded
  <2>5. Quiet'
    BY <1>0, <1>8, Zenon DEF StopFails, checkVars, Quiet, Phases, BusyPhase
  <2>6. QED BY <2>1, <2>2, <2>3, <2>4, <2>5, Zenon DEF LimitsInv
<1>9. ASSUME DeactivateReset, UNCHANGED <<safety, checkVars>> PROVE LimitsInv'
  <2>1. LimitsTypeOK'
    BY <1>0, <1>9 DEF DeactivateReset, checkVars, LimitsTypeOK
  <2>2. Phases'
    BY <1>0, <1>9, Zenon DEF DeactivateReset, checkVars, Phases, BusyPhase, Current
  <2>3. Ownership'
    BY <1>0, <1>9, Zenon DEF DeactivateReset, checkVars, Ownership, Guarded
  <2>4. Progress'
    BY <1>0, <1>9, Zenon DEF DeactivateReset, checkVars, Progress, Guarded
  <2>5. Quiet'
    BY <1>0, <1>9, Zenon DEF DeactivateReset, checkVars, Quiet, Phases, BusyPhase
  <2>6. QED BY <2>1, <2>2, <2>3, <2>4, <2>5, Zenon DEF LimitsInv
<1>10. ASSUME Deactivate, UNCHANGED <<safety, checkVars>> PROVE LimitsInv'
  <2>1. LimitsTypeOK'
    BY <1>0, <1>10, Zenon DEF Deactivate, checkVars, LimitsTypeOK
  <2>2. Phases'
    BY <1>0, <1>10, Zenon DEF Deactivate, checkVars, Phases, BusyPhase, Current
  <2>3. Ownership'
    BY <1>0, <1>10, Zenon DEF Deactivate, checkVars, Ownership, Guarded
  <2>4. Progress'
    BY <1>0, <1>10, Zenon DEF Deactivate, checkVars, Progress, Guarded
  <2>5. Quiet'
    BY <1>0, <1>10, Zenon DEF Deactivate, checkVars, Quiet, Phases, BusyPhase
  <2>6. QED BY <2>1, <2>2, <2>3, <2>4, <2>5, Zenon DEF LimitsInv
<1>11. ASSUME NEW c \in Checker, CheckStopping(c), UNCHANGED lifeVars PROVE LimitsInv'
  <2>1. LimitsTypeOK'
    BY <1>0, <1>11, Zenon DEF CheckStopping, Move, lifeVars, Runs, LimitsTypeOK
  <2>2. Phases'
    BY <1>0, <1>11 DEF CheckStopping, Move, lifeVars, Runs, Phases, BusyPhase, Current, LimitsTypeOK
  <2>3. Ownership'
    BY <1>0, <1>11 DEF CheckStopping, Move, lifeVars, Runs, Ownership, Guarded, PublishPc, Current
  <2>4. Progress'
    BY <1>0, <1>11 DEF CheckStopping, Move, lifeVars, Runs, Progress, Guarded, Current
  <2>5. Quiet'
    BY <1>0, <1>11, Zenon DEF CheckStopping, Move, lifeVars, Quiet, Phases, BusyPhase, LimitsTypeOK
  <2>6. QED BY <2>1, <2>2, <2>3, <2>4, <2>5, Zenon DEF LimitsInv
<1>12. ASSUME NEW c \in Checker, CheckGuard(c), UNCHANGED lifeVars PROVE LimitsInv'
  <2>1. LimitsTypeOK'
    BY <1>0, <1>12, Zenon DEF CheckGuard, Move, lifeVars, LimitsTypeOK
  <2>2. Phases'
    BY <1>0, <1>12 DEF CheckGuard, Move, lifeVars, Phases, BusyPhase, Current, LimitsTypeOK
  <2>3. Ownership'
    BY <1>0, <1>12 DEF CheckGuard, Move, lifeVars, Ownership, Guarded, PublishPc, Current
  <2>4. Progress'
    BY <1>0, <1>12 DEF CheckGuard, Move, lifeVars, Progress, Guarded, Current
  <2>5. Quiet'
    BY <1>0, <1>12, Zenon DEF CheckGuard, Move, lifeVars, Quiet, Phases, BusyPhase, LimitsTypeOK
  <2>6. QED BY <2>1, <2>2, <2>3, <2>4, <2>5, Zenon DEF LimitsInv
<1>13. ASSUME NEW c \in Checker, LoadState(c), UNCHANGED lifeVars PROVE LimitsInv'
  <2>1. LimitsTypeOK'
    BY <1>0, <1>13 DEF LoadState, Move, lifeVars, LimitsTypeOK
  <2>2. Phases'
    BY <1>0, <1>13 DEF LoadState, Move, lifeVars, Phases, BusyPhase, Current, LimitsTypeOK
  <2>3. Ownership'
    BY <1>0, <1>13 DEF LoadState, Move, lifeVars, LimitsTypeOK, Ownership, Guarded, PublishPc, Current
  <2>4. Progress'
    BY <1>0, <1>13 DEF LoadState, Move, lifeVars, LimitsTypeOK, Progress, Guarded, Current
  <2>5. Quiet'
    BY <1>0, <1>13, Zenon DEF LoadState, Move, lifeVars, Quiet, Phases, BusyPhase, LimitsTypeOK
  <2>6. QED BY <2>1, <2>2, <2>3, <2>4, <2>5, Zenon DEF LimitsInv
<1>14. ASSUME NEW c \in Checker, Claim(c), UNCHANGED lifeVars PROVE LimitsInv'
  <2>1. LimitsTypeOK'
    BY <1>0, <1>14 DEF Claim, Move, lifeVars, LimitsTypeOK
  <2>2. Phases'
    BY <1>0, <1>14 DEF Claim, Move, lifeVars, Phases, BusyPhase, Current, LimitsTypeOK
  <2>3. Ownership'
    BY <1>0, <1>14 DEF Claim, Move, lifeVars, LimitsTypeOK, Ownership, Guarded, PublishPc, Current
  <2>4. Progress'
    BY <1>0, <1>14 DEF Claim, Move, lifeVars, LimitsTypeOK, Progress, Guarded, Current
  <2>5. Quiet'
    BY <1>0, <1>14, Zenon DEF Claim, Move, lifeVars, Quiet, Phases, BusyPhase, LimitsTypeOK
  <2>6. QED BY <2>1, <2>2, <2>3, <2>4, <2>5, Zenon DEF LimitsInv
<1>15. ASSUME NEW c \in Checker, ReadField(c), UNCHANGED lifeVars PROVE LimitsInv'
  <2>1. LimitsTypeOK'
    BY <1>0, <1>15 DEF ReadField, Move, lifeVars, Legacy,
       LimitsTypeOK
  <2>2. Phases'
    BY <1>0, <1>15 DEF ReadField, Move, lifeVars, Legacy, Phases, BusyPhase, Current, LimitsTypeOK
  <2>3. Ownership'
    BY <1>0, <1>15, SMTT(30) DEF ReadField, Move, lifeVars, Legacy, Ownership, Guarded, PublishPc, Current
  <2>4. Progress'
    <3> SUFFICES ASSUME Guarded, NEW d \in Checker
                 PROVE  /\ at'[d] \in {"claim", "publish"} => todo'[d] = Field
                        /\ at'[d] \in {"read", "copy"}
                             => \A f \in Field : f \in todo'[d] \/ local'[d][f] = generation
                        /\ at'[d] \in {"write", "publish"} => local'[d] = Current
                        /\ at'[d] = "write" => \A f \in Field : f \in todo'[d] \/ safety'[f] = generation
                        /\ at'[d] = "publish" => safety' = Current
                        /\ at'[d] = "use" => local'[d] = Current
      BY <1>15, SMTT(30) DEF lifeVars, Progress, Guarded, Current
    <3>1. CASE d # c
      BY <1>0, <1>15, <3>1, SMTT(30) DEF ReadField, Move, LimitsTypeOK, Progress, Guarded
    <3>2. CASE d = c
      <4>0. configState /\ \A f \in Field : config[f] = generation
        BY <1>0 DEF Guarded, Phases, Current
      <4>1. PICK f \in todo[c] : /\ local' = [local EXCEPT ![c][f] = generation]
                                 /\ todo' = [todo EXCEPT ![c] = IF @ = {f} THEN Field ELSE @ \ {f}]
                                 /\ at' = [at EXCEPT ![c] = IF todo[c] = {f} THEN "write" ELSE "read"]
        BY <1>0, <1>15, <4>0, Zenon DEF ReadField, Move, LimitsTypeOK
      <4>2. f \in Field /\ todo[c] \subseteq Field /\ local[c] \in [Field -> 0..MaxGeneration]
        BY <1>0, <4>1, Zenon DEF LimitsTypeOK
      <4>3. local'[c] = [local[c] EXCEPT ![f] = generation] BY <1>0, <4>1, Zenon DEF LimitsTypeOK
      <4>4. \A g \in Field : g \in todo[c] \/ local[c][g] = generation
        BY <1>0, <1>15, Zenon DEF ReadField, Progress, Guarded
      <4>5. CASE todo[c] = {f}
        <5>1. local'[c] = Current
          BY <4>2, <4>3, <4>4, <4>5, Zenon DEF BusyPhase, PublishPc, Current
        <5>2. todo'[c] = Field /\ at'[c] = "write" BY <1>0, <4>1, <4>5, Zenon DEF LimitsTypeOK
        <5>3. QED BY <3>2, <5>1, <5>2, Zenon
      <4>6. CASE todo[c] # {f}
        <5>1. todo'[c] = todo[c] \ {f} /\ at'[c] = "read"
          BY <1>0, <4>1, <4>6, Zenon DEF LimitsTypeOK
        <5>2. \A g \in Field : g \in todo'[c] \/ local'[c][g] = generation
          BY <4>2, <4>3, <4>4, <5>1, Zenon
        <5>3. QED BY <3>2, <5>1, <5>2, Zenon
      <4>7. QED BY <4>5, <4>6
    <3>3. QED BY <3>1, <3>2
  <2>5. Quiet'
    BY <1>0, <1>15, Zenon DEF ReadField, Move, lifeVars, Quiet, Phases, BusyPhase, LimitsTypeOK
  <2>6. QED BY <2>1, <2>2, <2>3, <2>4, <2>5, Zenon DEF LimitsInv
<1>16. ASSUME NEW c \in Checker, WriteField(c), UNCHANGED lifeVars PROVE LimitsInv'
  <2>1. LimitsTypeOK'
    BY <1>0, <1>16 DEF WriteField, Move, lifeVars, LimitsTypeOK
  <2>2. Phases'
    BY <1>0, <1>16 DEF WriteField, Move, lifeVars, Phases, BusyPhase, Current, LimitsTypeOK
  <2>3. Ownership'
    BY <1>0, <1>16 DEF WriteField, Move, lifeVars, Ownership, Guarded, PublishPc, Current
  <2>4. Progress'
    <3> SUFFICES ASSUME Guarded, NEW d \in Checker
                 PROVE  /\ at'[d] \in {"claim", "publish"} => todo'[d] = Field
                        /\ at'[d] \in {"read", "copy"}
                             => \A f \in Field : f \in todo'[d] \/ local'[d][f] = generation
                        /\ at'[d] \in {"write", "publish"} => local'[d] = Current
                        /\ at'[d] = "write" => \A f \in Field : f \in todo'[d] \/ safety'[f] = generation
                        /\ at'[d] = "publish" => safety' = Current
                        /\ at'[d] = "use" => local'[d] = Current
      BY <1>16, Zenon DEF lifeVars, Progress, Guarded, Current
    <3>1. CASE d # c
      BY <1>0, <1>16, <3>1 DEF WriteField, Move, LimitsTypeOK, Ownership, Guarded, Progress, PublishPc, Current
    <3>2. CASE d = c
      <4>1. PICK f \in todo[c] : /\ safety' = [safety EXCEPT ![f] = local[c][f]]
                                 /\ todo' = [todo EXCEPT ![c] = IF @ = {f} THEN Field ELSE @ \ {f}]
                                 /\ at' = [at EXCEPT ![c] = IF todo[c] = {f} THEN "publish" ELSE "write"]
        BY <1>16, Zenon DEF WriteField, Move
      <4>2. f \in Field /\ todo[c] \subseteq Field /\ safety \in [Field -> 0..MaxGeneration]
        BY <1>0, <4>1, Zenon DEF LimitsTypeOK
      <4>3. local'[c] = Current /\ local[c][f] = generation
        <5>1. at[c] = "write" /\ local'[c] = local[c] BY <1>16, Zenon DEF WriteField
        <5>2. local[c] = Current BY <1>0, <5>1, Zenon DEF Progress, Guarded
        <5>3. QED BY <4>2, <5>1, <5>2, Zenon DEF Current
      <4>4. \A g \in Field : g \in todo[c] \/ safety[g] = generation
        BY <1>0, <1>16, Zenon DEF WriteField, Progress, Guarded
      <4>5. CASE todo[c] = {f}
        <5>1. safety' = Current
          BY <4>1, <4>2, <4>3, <4>4, <4>5, Zenon DEF BusyPhase, PublishPc, Current
        <5>2. todo'[c] = Field /\ at'[c] = "publish" BY <1>0, <4>1, <4>5, Zenon DEF LimitsTypeOK
        <5>3. QED BY <3>2, <4>3, <5>1, <5>2, Zenon
      <4>6. CASE todo[c] # {f}
        <5>1. todo'[c] = todo[c] \ {f} /\ at'[c] = "write"
          BY <1>0, <4>1, <4>6, Zenon DEF LimitsTypeOK
        <5>2. \A g \in Field : g \in todo'[c] \/ safety'[g] = generation
          BY <4>1, <4>2, <4>3, <4>4, <5>1, Zenon
        <5>3. QED BY <3>2, <4>3, <5>1, <5>2, Zenon
      <4>7. QED BY <4>5, <4>6
    <3>3. QED BY <3>1, <3>2
  <2>5. Quiet'
    BY <1>0, <1>16, Zenon DEF WriteField, Move, lifeVars, Quiet, Phases, BusyPhase, LimitsTypeOK
  <2>6. QED BY <2>1, <2>2, <2>3, <2>4, <2>5, Zenon DEF LimitsInv
<1>17. ASSUME NEW c \in Checker, Publish(c), UNCHANGED lifeVars PROVE LimitsInv'
  <2>1. LimitsTypeOK'
    BY <1>0, <1>17 DEF Publish, Move, lifeVars, LimitsTypeOK
  <2>2. Phases'
    BY <1>0, <1>17 DEF Publish, Move, lifeVars, Phases, BusyPhase, Current, LimitsTypeOK
  <2>3. Ownership'
    BY <1>0, <1>17 DEF Publish, Move, lifeVars, LimitsTypeOK, Phases, Ownership, Guarded, Progress,
       BusyPhase, PublishPc, Current
  <2>4. Progress'
    BY <1>0, <1>17, SMTT(30) DEF Publish, Move, lifeVars, Progress, Guarded, Current
  <2>5. Quiet'
    BY <1>0, <1>17, Zenon DEF Publish, Move, lifeVars, Quiet, Phases, BusyPhase, LimitsTypeOK
  <2>6. QED BY <2>1, <2>2, <2>3, <2>4, <2>5, Zenon DEF LimitsInv
<1>18. ASSUME NEW c \in Checker, CopyField(c), UNCHANGED lifeVars PROVE LimitsInv'
  <2>1. LimitsTypeOK'
    BY <1>0, <1>18 DEF CopyField, Move, lifeVars, LimitsTypeOK
  <2>2. Phases'
    BY <1>0, <1>18 DEF CopyField, Move, lifeVars, Phases, BusyPhase, Current, LimitsTypeOK
  <2>3. Ownership'
    BY <1>0, <1>18, SMTT(30) DEF CopyField, Move, lifeVars, Ownership, Guarded, PublishPc, Current
  <2>4. Progress'
    <3> SUFFICES ASSUME Guarded, NEW d \in Checker
                 PROVE  /\ at'[d] \in {"claim", "publish"} => todo'[d] = Field
                        /\ at'[d] \in {"read", "copy"}
                             => \A f \in Field : f \in todo'[d] \/ local'[d][f] = generation
                        /\ at'[d] \in {"write", "publish"} => local'[d] = Current
                        /\ at'[d] = "write" => \A f \in Field : f \in todo'[d] \/ safety'[f] = generation
                        /\ at'[d] = "publish" => safety' = Current
                        /\ at'[d] = "use" => local'[d] = Current
      BY <1>18, Zenon DEF lifeVars, Progress, Guarded, Current
    <3>1. CASE d # c
      BY <1>0, <1>18, <3>1 DEF CopyField, Move, LimitsTypeOK, Progress, Guarded
    <3>2. CASE d = c
      <4>1. PICK f \in todo[c] : /\ local' = [local EXCEPT ![c][f] = safety[f]]
                                 /\ todo' = [todo EXCEPT ![c] = @ \ {f}]
                                 /\ at' = [at EXCEPT ![c] = IF todo[c] = {f} THEN "use" ELSE "copy"]
        BY <1>18, Zenon DEF CopyField, Move
      <4>2. f \in Field /\ todo[c] \subseteq Field /\ local[c] \in [Field -> 0..MaxGeneration]
        BY <1>0, <4>1, Zenon DEF LimitsTypeOK
      <4>3. safety[f] = generation
        BY <1>0, <1>18, <4>2 DEF CopyField, Ownership, Guarded, PublishPc, Current
      <4>4. local'[c] = [local[c] EXCEPT ![f] = generation] BY <1>0, <4>1, <4>3 DEF LimitsTypeOK
      <4>5. \A g \in Field : g \in todo[c] \/ local[c][g] = generation
        BY <1>0, <1>18, Zenon DEF CopyField, Progress, Guarded
      <4>6. todo'[c] = todo[c] \ {f} BY <1>0, <4>1, Zenon DEF LimitsTypeOK
      <4>7. \A g \in Field : g \in todo'[c] \/ local'[c][g] = generation
        BY <4>2, <4>4, <4>5, <4>6, Zenon
      <4>8. CASE todo[c] = {f}
        <5>1. local'[c] = Current
          BY <4>2, <4>4, <4>5, <4>8, Zenon DEF BusyPhase, PublishPc, Current
        <5>2. at'[c] = "use" BY <1>0, <4>1, <4>8, Zenon DEF LimitsTypeOK
        <5>3. QED BY <3>2, <5>1, <5>2, Zenon
      <4>9. CASE todo[c] # {f}
        <5>1. at'[c] = "copy" BY <1>0, <4>1, <4>9, Zenon DEF LimitsTypeOK
        <5>2. QED BY <3>2, <4>7, <5>1
      <4>10. QED BY <4>8, <4>9
    <3>3. QED BY <3>1, <3>2
  <2>5. Quiet'
    BY <1>0, <1>18, Zenon DEF CopyField, Move, lifeVars, Quiet, Phases, BusyPhase, LimitsTypeOK
  <2>6. QED BY <2>1, <2>2, <2>3, <2>4, <2>5, Zenon DEF LimitsInv
<1>19. ASSUME NEW c \in Checker, Use(c), UNCHANGED lifeVars PROVE LimitsInv'
  <2>1. LimitsTypeOK'
    BY <1>0, <1>19 DEF Use, Move, lifeVars, Legacy,
       LimitsTypeOK
  <2>2. Phases'
    BY <1>0, <1>19 DEF Use, Move, lifeVars, Legacy, Phases, BusyPhase, Current, LimitsTypeOK
  <2>3. Ownership'
    BY <1>0, <1>19 DEF Use, Move, lifeVars, Legacy, Ownership, Guarded, PublishPc, Current
  <2>4. Progress'
    BY <1>0, <1>19, Zenon DEF Use, Move, lifeVars, Legacy, LimitsTypeOK, Progress, Guarded, Current
  <2>5. Quiet'
    BY <1>0, <1>19, Zenon DEF Use, Move, lifeVars, Quiet, Phases, BusyPhase, LimitsTypeOK
  <2>6. QED BY <2>1, <2>2, <2>3, <2>4, <2>5, Zenon DEF LimitsInv
<1>20. CASE UNCHANGED limitsVars
  <2>1. LimitsTypeOK'
    BY <1>0, <1>20, Zenon DEF limitsVars, LimitsTypeOK
  <2>2. Phases'
    BY <1>0, <1>20, Zenon DEF limitsVars, Phases, BusyPhase, Current
  <2>3. Ownership'
    BY <1>0, <1>20, Zenon DEF limitsVars, Ownership, Guarded, PublishPc, Current
  <2>4. Progress'
    BY <1>0, <1>20 DEF limitsVars, Progress, Guarded, Current
  <2>5. Quiet'
    BY <1>0, <1>20, Zenon DEF limitsVars, Quiet
  <2>6. QED BY <2>1, <2>2, <2>3, <2>4, <2>5, Zenon DEF LimitsInv
<1>21. QED
  BY <1>0, <1>1, <1>2, <1>3, <1>4, <1>5, <1>6, <1>7, <1>8, <1>9, <1>10, <1>11, <1>12, <1>13,
     <1>14, <1>15, <1>16, <1>17, <1>18, <1>19, <1>20, Zenon DEF LimitsNext, Lifecycle, Check

LEMMA LimitsInvariant == ASSUME MaxGeneration \in Nat PROVE LimitsSpec => []LimitsInv
<1>1. LimitsInit => LimitsInv BY LimitsFirst, Zenon
<1>2. LimitsInv /\ [LimitsNext]_limitsVars => LimitsInv' BY LimitsStep, Zenon
<1>3. QED BY <1>1, <1>2, PTL DEF LimitsSpec

\* The values of the snapshot states, the structures and the program counters
\* (g_tsd_safety_config_snapshot_state, tsd_safety_config_snapshot_t).
THEOREM LimitTypes == ASSUME MaxGeneration \in Nat PROVE LimitsSpec => []LimitsTypeOK
<1>1. LimitsInv => LimitsTypeOK BY Zenon DEF LimitsInv
<1>2. LimitsSpec => []LimitsInv BY LimitsInvariant, Zenon
<1>3. QED BY <1>1, <1>2, PTL

\* A start never finds the monitor, the fusion worker or a counted invocation past the
\* guard of a check: only a check that nobody waits for can reach into the next
\* generation (tsd_runtime_width_authorized, the drain of a stop).
THEOREM OnlyUncountedDelay == ASSUME MaxGeneration \in Nat PROVE LimitsSpec => [](delayed \subseteq Application)
<1>1. LimitsInv => delayed \subseteq Application BY Zenon DEF LimitsInv, Phases
<1>2. LimitsSpec => []LimitsInv BY LimitsInvariant, Zenon
<1>3. QED BY <1>1, <1>2, PTL

\* As long as no start has found a check under way, at most one check publishes the
\* limits in a live generation, whoever makes the checks: the compare-and-exchange of
\* safety_config_snapshot is won once.
THEOREM SinglePublisher ==
  ASSUME MaxGeneration \in Nat PROVE LimitsSpec => [](delayed = {} => OnePublisher)
<1>1. LimitsInv => (delayed = {} => OnePublisher)
  BY Zenon DEF LimitsInv, Ownership, Guarded, OnePublisher, PublishPc
<1>2. LimitsSpec => []LimitsInv BY LimitsInvariant, Zenon
<1>3. QED BY <1>1, <1>2, PTL

\* As long as no start has found a check under way, every check of a live generation
\* compares against that generation's own limits, all of them, the uncounted first
\* check of an invocation and the public query included (runtime_guard.c:283-284).
THEOREM LimitsAreFresh ==
  ASSUME MaxGeneration \in Nat PROVE LimitsSpec => [](delayed = {} => FreshLimits)
<1>1. LimitsInv => (delayed = {} => FreshLimits)
  BY Zenon DEF LimitsInv, Progress, Guarded, FreshLimits, Current
<1>2. LimitsSpec => []LimitsInv BY LimitsInvariant, Zenon
<1>3. QED BY <1>1, <1>2, PTL

\* As long as no start has found a check under way, published limits are not written
\* again while the generation is live (safety_config_snapshot).
THEOREM LimitsStayPublished ==
  ASSUME MaxGeneration \in Nat
  PROVE  LimitsSpec => [][delayed = {} => LimitsKept]_limitsVars
<1>1. LimitsInv /\ [LimitsNext]_limitsVars => [delayed = {} => LimitsKept]_limitsVars
  <2> SUFFICES ASSUME LimitsInv, LimitsNext, delayed = {}, safetyState = 2, phase = "live"
               PROVE  safety' = safety
    BY Zenon DEF LimitsKept
  <2>0. Ownership /\ Guarded BY Zenon DEF LimitsInv, Guarded
  <2>1. ASSUME NEW c \in Checker, Check(c) PROVE safety' = safety
    <3>1. at[c] # "write" BY <2>0 DEF Ownership, PublishPc
    <3>2. QED
      BY <2>1, <3>1, Zenon DEF Check, CheckStopping, CheckGuard, LoadState, Claim, ReadField,
         WriteField, Publish, CopyField, Use
  <2>2. QED BY <2>0, <2>1, Zenon DEF LimitsNext
<1>2. LimitsSpec => []LimitsInv BY LimitsInvariant, Zenon
<1>3. QED BY <1>1, <1>2, PTL DEF LimitsSpec
=============================================================================
