----------------------- MODULE RuntimeLifecycleProofs -----------------------
(***************************************************************************)
(* Theorems about RuntimeLifecycle for any sets of threads and handles.    *)
(* The inductive invariant follows the one generation that can exist from  *)
(* its start call through the active handle to its stop call.              *)
(***************************************************************************)
EXTENDS RuntimeLifecycle, TLAPS

\* a start call that has, or has not yet, or no longer, a private runtime
BuildPc == {"baseline", "create"}
BarePc == {"activate", "lock", "deactivate", "abort"}

\* One start call, one stop call, and never both.
SingleInv ==
  /\ \A t, u \in Thread : pc[t] \in StartPc /\ pc[u] \in StartPc => t = u
  /\ starting <=> \E t \in Thread : pc[t] \in StartPc
  /\ starting => publicActive = NoHandle
  /\ \A t, u \in Thread : pc[t] \in StopPc /\ pc[u] \in StopPc => t = u
  /\ \A t \in Thread : pc[t] \in StopPc => publicActive = arg[t]

\* The public fields say which handle is active and whether a stop runs on it.
HandleInv ==
  /\ \A t \in Thread : pc[t] \in StartPc => handle[arg[t]] = NewHandle
  /\ publicActive # NoHandle =>
       /\ "allocated" \in handle[publicActive] /\ "returned" \in handle[publicActive]
       /\ "impl" \in handle[publicActive] /\ "stopped" \notin handle[publicActive]
  /\ \A h \in Handle : "stopInProgress" \in handle[h]
                         <=> \E t \in Thread : pc[t] \in StopPc /\ arg[t] = h

\* Only a start between its prerequisites and its installation holds the lock.
LockInv == \A t \in Thread : privateLock = t <=> pc[t] \in BuildPc

\* The handle whose private runtime exists: it is being built or is installed.
ImplInv ==
  \A h \in Handle :
    "allocated" \in impl[h] <=> \/ privateActive = h
                          \/ \E t \in Thread : pc[t] \in BuildPc /\ arg[t] = h

\* Each phase of a start or stop call fixes what is installed.
InstalledInv ==
  /\ \A t \in Thread : pc[t] \in BuildPc \cup BarePc => privateActive = NoHandle
  /\ \A t \in Thread : pc[t] = "publish" => privateActive = arg[t]
  /\ publicActive # NoHandle => \/ privateActive = publicActive
                                \/ \E t \in Thread : pc[t] = "done"
  /\ \A t \in Thread : pc[t] = "done" => privateActive = NoHandle
  /\ privateActive # NoHandle => \/ publicActive = privateActive
                                 \/ \E t \in Thread : pc[t] = "publish"

\* The private stop claim is held exactly between the two private sections.
ClaimInv ==
  /\ \A h \in Handle : "stopInProgress" \in impl[h] =>
       \E t \in Thread : pc[t] \in {"join", "drain", "select", "final"} /\ arg[t] = h
  /\ \A t \in Thread : pc[t] \in {"join", "drain", "select", "final"} =>
       "stopInProgress" \in impl[arg[t]]

\* A monitor thread exists only for an installed runtime that records it, and not
\* after the join; perf is released only after the join.
MonitorInv ==
  /\ \A h \in Handle : monitor[h] # "none" =>
       privateActive = h /\ "monitorStarted" \in impl[h] /\ "perf" \in impl[h]
  /\ \A h \in Handle : "monitorStarted" \in impl[h] => monitor[h] # "none"
  /\ \A t \in Thread : pc[t] \in BuildPc => "perf" \in impl[arg[t]]
  /\ \A t \in Thread : pc[t] \in {"drain", "select", "final"} => monitor[arg[t]] = "none"

\* The active configuration is the one of the generation being built or installed.
ConfigInv ==
  /\ \A t \in Thread : pc[t] \in {"activate", "abort"} => config = "inactive"
  /\ \A t \in Thread : pc[t] \in {"lock", "baseline", "create", "publish", "deactivate"} =>
       config = "active" /\ configOf = arg[t]
  /\ publicActive # NoHandle => config = "active" /\ configOf = publicActive

IInv == /\ TypeOK /\ SingleInv /\ HandleInv /\ LockInv /\ ImplInv /\ InstalledInv /\ ClaimInv
        /\ MonitorInv /\ ConfigInv

----------------------------------------------------------------------------
(* The inductive step, one conjunct at a time.                             *)

\* Every step preserves the type invariant.
LEMMA TypeStep ==
  ASSUME IInv, [Next]_vars
  PROVE  TypeOK'
<1> USE NoThreadAssumption, NoHandleAssumption
<1>0. TypeOK
  BY Zenon DEF IInv
<1> USE <1>0 DEF publicVars, configVars, privateVars, signalVars, TypeOK, StartPc,
     StopPc, HandleFlag, ImplFlag, NewHandle, NewImpl
<1>1. CASE UNCHANGED vars
  BY <1>1 DEF vars
<1>2. ASSUME NEW t \in Thread, NEW h \in Handle, StartReserve(t, h) PROVE TypeOK'
  BY <1>2, ZenonT(60) DEF StartReserve, StartBusy, InApplication
<1>3. ASSUME NEW t \in Thread, NEW h \in Handle, RequestStop(t, h) PROVE TypeOK'
  BY <1>3, ZenonT(60) DEF RequestStop, InApplication, Usable, Dereferenceable
<1>4. ASSUME NEW t \in Thread, NEW h \in Handle, StopClaim(t, h) PROVE TypeOK'
  BY <1>4, Zenon DEF StopClaim, InApplication, Usable
<1>5. ASSUME NEW t \in Thread, NEW h \in Handle, Destroy(t, h) PROVE TypeOK'
  BY <1>5, Zenon DEF Destroy, InApplication, Usable
<1>6. ASSUME NEW t \in Thread, StartActivate(t) PROVE TypeOK'
  BY <1>6 DEF StartActivate, Goto
<1>7. ASSUME NEW t \in Thread, StartLock(t)
      PROVE  TypeOK'
  <2>1. arg[t] \in Handle
    BY <1>7, Zenon DEF StartLock
  <2>2. impl' \in [Handle -> SUBSET ImplFlag]
    BY <1>7, <2>1 DEF StartLock, Goto, NewImpl
  <2>3. pc' \in [Thread -> {"idle"} \cup StartPc \cup StopPc] /\ arg' = arg /\ pc'[t] # "idle"
          /\ \A u \in Thread \ {t} : pc'[u] = pc[u]
    BY <1>7, <2>1, Zenon DEF StartLock, Goto, NewImpl
  <2>4. \A u \in Thread : arg'[u] = NoHandle <=> pc'[u] = "idle"
    BY <2>1, <2>3, Zenon
  <2> QED
    BY <1>7, <2>1, <2>2, <2>3, <2>4, ZenonT(60) DEF StartLock
<1>8. ASSUME NEW t \in Thread, StartBaseline(t) PROVE TypeOK'
  BY <1>8 DEF StartBaseline, Goto
<1>9. ASSUME NEW t \in Thread, StartCreate(t)
      PROVE  TypeOK'
  <2>1. arg[t] \in Handle
    BY <1>9, Zenon DEF StartCreate
  <2>2. impl' \in [Handle -> SUBSET ImplFlag]
    BY <1>9, <2>1 DEF StartCreate, Goto
  <2>3. pc' \in [Thread -> {"idle"} \cup StartPc \cup StopPc] /\ arg' = arg /\ pc'[t] # "idle"
          /\ \A u \in Thread \ {t} : pc'[u] = pc[u]
    BY <1>9, <2>1, Zenon DEF StartCreate, Goto
  <2>4. \A u \in Thread : arg'[u] = NoHandle <=> pc'[u] = "idle"
    BY <2>1, <2>3, Zenon
  <2> QED
    BY <1>9, <2>1, <2>2, <2>3, <2>4, ZenonT(60) DEF StartCreate
<1>10. ASSUME NEW t \in Thread, StartPublish(t) PROVE TypeOK'
  BY <1>10, ZenonT(60) DEF StartPublish, Return
<1>11. ASSUME NEW t \in Thread, StartDeactivate(t) PROVE TypeOK'
  BY <1>11, Zenon DEF StartDeactivate, Goto
<1>12. ASSUME NEW t \in Thread, StartAbort(t) PROVE TypeOK'
  BY <1>12, ZenonT(60) DEF StartAbort, Return
<1>13. ASSUME NEW t \in Thread, StopGate(t)
      PROVE  TypeOK'
  <2>1. arg[t] \in Handle
    BY <1>13, Zenon DEF StopGate
  <2>2. impl' \in [Handle -> SUBSET ImplFlag]
    BY <1>13, <2>1 DEF StopGate, Goto
  <2>3. pc' \in [Thread -> {"idle"} \cup StartPc \cup StopPc] /\ arg' = arg /\ pc'[t] # "idle"
          /\ \A u \in Thread \ {t} : pc'[u] = pc[u]
    BY <1>13, <2>1 DEF StopGate, Goto
  <2>4. \A u \in Thread : arg'[u] = NoHandle <=> pc'[u] = "idle"
    BY <2>1, <2>3, Zenon
  <2> QED
    BY <1>13, <2>1, <2>2, <2>3, <2>4, ZenonT(60) DEF StopGate
<1>14. ASSUME NEW t \in Thread, StopJoin(t) PROVE TypeOK'
  BY <1>14 DEF StopJoin, Goto
<1>15. ASSUME NEW t \in Thread, StopDrain(t) PROVE TypeOK'
  BY <1>15 DEF StopDrain, Goto, StopGiveUp
<1>16. ASSUME NEW t \in Thread, StopSelect(t) PROVE TypeOK'
  BY <1>16 DEF StopSelect, Goto, StopGiveUp
<1>17. ASSUME NEW t \in Thread, StopFinal(t)
      PROVE  TypeOK'
  <2>1. arg[t] \in Handle
    BY <1>17, Zenon DEF StopFinal
  <2>2. impl' \in [Handle -> SUBSET ImplFlag]
    BY <1>17, <2>1 DEF StopFinal, Goto
  <2>3. pc' \in [Thread -> {"idle"} \cup StartPc \cup StopPc] /\ arg' = arg /\ pc'[t] # "idle"
          /\ \A u \in Thread \ {t} : pc'[u] = pc[u]
    BY <1>17, <2>1 DEF StopFinal, Goto
  <2>4. \A u \in Thread : arg'[u] = NoHandle <=> pc'[u] = "idle"
    BY <2>1, <2>3, Zenon
  <2> QED
    BY <1>17, <2>1, <2>2, <2>3, <2>4, ZenonT(60) DEF StopFinal
<1>18. ASSUME NEW t \in Thread, StopDone(t) PROVE TypeOK'
  BY <1>18, Zenon DEF StopDone, Return
<1>19. ASSUME NEW t \in Thread, StopFailed(t) PROVE TypeOK'
  BY <1>19 DEF StopFailed, Return
<1>20. ASSUME NEW t \in Thread, StopJoinError(t) PROVE TypeOK'
  BY <1>20 DEF StopJoinError, Goto, StopGiveUp
<1>21. ASSUME NEW h \in Handle, MonitorExit(h) PROVE TypeOK'
  BY <1>21, Zenon DEF MonitorExit
<1>22. ASSUME ShutdownSignal PROVE TypeOK'
  BY <1>22 DEF ShutdownSignal
<1> HIDE <1>0 DEF TypeOK
<1> QED
  BY <1>1, <1>2, <1>3, <1>4, <1>5, <1>6, <1>7, <1>8, <1>9, <1>10, <1>11, <1>12, <1>13,
     <1>14, <1>15, <1>16, <1>17, <1>18, <1>19, <1>20, <1>21, <1>22, Zenon
  DEF Next, Call, StartStep, StopStep

\* The start slot and the stop claim keep calls from overlapping.
LEMMA SingleStep ==
  ASSUME IInv, [Next]_vars
  PROVE  SingleInv'
<1> USE NoThreadAssumption, NoHandleAssumption
<1>0. TypeOK /\ SingleInv /\ HandleInv
  BY Zenon DEF IInv
<1> USE <1>0 DEF publicVars, configVars, privateVars, signalVars, TypeOK, SingleInv,
     HandleInv, StartPc, StopPc
<1>1. CASE UNCHANGED vars
  BY <1>1, Zenon DEF vars
<1>2. ASSUME NEW t \in Thread, NEW h \in Handle, StartReserve(t, h) PROVE SingleInv'
  BY <1>2 DEF StartReserve, StartBusy, NewHandle, InApplication
<1>3. ASSUME NEW t \in Thread, NEW h \in Handle, RequestStop(t, h) PROVE SingleInv'
  BY <1>3, Zenon DEF RequestStop, InApplication, Usable, Dereferenceable
<1>4. ASSUME NEW t \in Thread, NEW h \in Handle, StopClaim(t, h) PROVE SingleInv'
  BY <1>4 DEF StopClaim, InApplication, Usable
<1>5. ASSUME NEW t \in Thread, NEW h \in Handle, Destroy(t, h) PROVE SingleInv'
  BY <1>5, Zenon DEF Destroy, InApplication, Usable
<1>6. ASSUME NEW t \in Thread, StartActivate(t) PROVE SingleInv'
  BY <1>6 DEF StartActivate, Goto
<1>7. ASSUME NEW t \in Thread, StartLock(t) PROVE SingleInv'
  BY <1>7 DEF StartLock, Goto, NewImpl
<1>8. ASSUME NEW t \in Thread, StartBaseline(t) PROVE SingleInv'
  BY <1>8 DEF StartBaseline, Goto
<1>9. ASSUME NEW t \in Thread, StartCreate(t) PROVE SingleInv'
  BY <1>9 DEF StartCreate, Goto
<1>10. ASSUME NEW t \in Thread, StartPublish(t) PROVE SingleInv'
  BY <1>10 DEF StartPublish, Return, NewHandle
<1>11. ASSUME NEW t \in Thread, StartDeactivate(t) PROVE SingleInv'
  BY <1>11 DEF StartDeactivate, Goto
<1>12. ASSUME NEW t \in Thread, StartAbort(t) PROVE SingleInv'
  BY <1>12 DEF StartAbort, Return, NewHandle
<1>13. ASSUME NEW t \in Thread, StopGate(t) PROVE SingleInv'
  BY <1>13 DEF StopGate, Goto
<1>14. ASSUME NEW t \in Thread, StopJoin(t) PROVE SingleInv'
  BY <1>14 DEF StopJoin, Goto
<1>15. ASSUME NEW t \in Thread, StopDrain(t) PROVE SingleInv'
  BY <1>15 DEF StopDrain, Goto, StopGiveUp
<1>16. ASSUME NEW t \in Thread, StopSelect(t) PROVE SingleInv'
  BY <1>16 DEF StopSelect, Goto, StopGiveUp
<1>17. ASSUME NEW t \in Thread, StopFinal(t) PROVE SingleInv'
  BY <1>17 DEF StopFinal, Goto
<1>18. ASSUME NEW t \in Thread, StopDone(t) PROVE SingleInv'
  BY <1>18 DEF StopDone, Return
<1>19. ASSUME NEW t \in Thread, StopFailed(t) PROVE SingleInv'
  BY <1>19 DEF StopFailed, Return
<1>20. ASSUME NEW t \in Thread, StopJoinError(t) PROVE SingleInv'
  BY <1>20 DEF StopJoinError, Goto, StopGiveUp
<1>21. ASSUME NEW h \in Handle, MonitorExit(h) PROVE SingleInv'
  BY <1>21, Zenon DEF MonitorExit
<1>22. ASSUME ShutdownSignal PROVE SingleInv'
  BY <1>22, Zenon DEF ShutdownSignal
<1> HIDE <1>0 DEF SingleInv
<1> QED
  BY <1>1, <1>2, <1>3, <1>4, <1>5, <1>6, <1>7, <1>8, <1>9, <1>10, <1>11, <1>12, <1>13,
     <1>14, <1>15, <1>16, <1>17, <1>18, <1>19, <1>20, <1>21, <1>22, Zenon
  DEF Next, Call, StartStep, StopStep

\* The handle of a call in progress is neither freed nor taken over.
LEMMA HandleStep ==
  ASSUME IInv, [Next]_vars
  PROVE  HandleInv'
<1> USE NoThreadAssumption, NoHandleAssumption
<1>0. TypeOK /\ HandleInv /\ SingleInv
  BY Zenon DEF IInv
<1> USE <1>0 DEF publicVars, configVars, privateVars, signalVars, TypeOK, HandleInv,
     SingleInv, StartPc, StopPc, NewHandle
<1>1. CASE UNCHANGED vars
  BY <1>1 DEF vars
<1>2. ASSUME NEW t \in Thread, NEW h \in Handle, StartReserve(t, h) PROVE HandleInv'
  BY <1>2 DEF StartReserve, StartBusy, InApplication
<1>3. ASSUME NEW t \in Thread, NEW h \in Handle, RequestStop(t, h) PROVE HandleInv'
  BY <1>3, Zenon DEF RequestStop, InApplication, Usable, Dereferenceable
<1>4. ASSUME NEW t \in Thread, NEW h \in Handle, StopClaim(t, h) PROVE HandleInv'
  BY <1>4 DEF StopClaim, InApplication, Usable
<1>5. ASSUME NEW t \in Thread, NEW h \in Handle, Destroy(t, h) PROVE HandleInv'
  BY <1>5 DEF Destroy, InApplication, Usable
<1>6. ASSUME NEW t \in Thread, StartActivate(t) PROVE HandleInv'
  BY <1>6 DEF StartActivate, Goto
<1>7. ASSUME NEW t \in Thread, StartLock(t) PROVE HandleInv'
  BY <1>7 DEF StartLock, Goto, NewImpl
<1>8. ASSUME NEW t \in Thread, StartBaseline(t) PROVE HandleInv'
  BY <1>8 DEF StartBaseline, Goto
<1>9. ASSUME NEW t \in Thread, StartCreate(t) PROVE HandleInv'
  BY <1>9 DEF StartCreate, Goto
<1>10. ASSUME NEW t \in Thread, StartPublish(t) PROVE HandleInv'
  BY <1>10 DEF StartPublish, Return
<1>11. ASSUME NEW t \in Thread, StartDeactivate(t) PROVE HandleInv'
  BY <1>11 DEF StartDeactivate, Goto
<1>12. ASSUME NEW t \in Thread, StartAbort(t) PROVE HandleInv'
  BY <1>12 DEF StartAbort, Return
<1>13. ASSUME NEW t \in Thread, StopGate(t) PROVE HandleInv'
  BY <1>13 DEF StopGate, Goto
<1>14. ASSUME NEW t \in Thread, StopJoin(t) PROVE HandleInv'
  BY <1>14 DEF StopJoin, Goto
<1>15. ASSUME NEW t \in Thread, StopDrain(t) PROVE HandleInv'
  BY <1>15 DEF StopDrain, Goto, StopGiveUp
<1>16. ASSUME NEW t \in Thread, StopSelect(t) PROVE HandleInv'
  BY <1>16 DEF StopSelect, Goto, StopGiveUp
<1>17. ASSUME NEW t \in Thread, StopFinal(t) PROVE HandleInv'
  BY <1>17 DEF StopFinal, Goto
<1>18. ASSUME NEW t \in Thread, StopDone(t) PROVE HandleInv'
  BY <1>18 DEF StopDone, Return
<1>19. ASSUME NEW t \in Thread, StopFailed(t) PROVE HandleInv'
  BY <1>19 DEF StopFailed, Return
<1>20. ASSUME NEW t \in Thread, StopJoinError(t) PROVE HandleInv'
  BY <1>20 DEF StopJoinError, Goto, StopGiveUp
<1>21. ASSUME NEW h \in Handle, MonitorExit(h) PROVE HandleInv'
  BY <1>21 DEF MonitorExit
<1>22. ASSUME ShutdownSignal PROVE HandleInv'
  BY <1>22 DEF ShutdownSignal
<1> HIDE <1>0 DEF HandleInv
<1> QED
  BY <1>1, <1>2, <1>3, <1>4, <1>5, <1>6, <1>7, <1>8, <1>9, <1>10, <1>11, <1>12, <1>13,
     <1>14, <1>15, <1>16, <1>17, <1>18, <1>19, <1>20, <1>21, <1>22, Zenon
  DEF Next, Call, StartStep, StopStep

\* The private lock is taken and released by the same start call.
LEMMA LockStep ==
  ASSUME IInv, [Next]_vars
  PROVE  LockInv'
<1> USE NoThreadAssumption, NoHandleAssumption
<1>0. TypeOK /\ LockInv /\ SingleInv
  BY Zenon DEF IInv
<1> USE <1>0 DEF publicVars, configVars, privateVars, signalVars, TypeOK, LockInv,
     SingleInv, StartPc, StopPc, BuildPc
<1>1. CASE UNCHANGED vars
  BY <1>1, Zenon DEF vars
<1>2. ASSUME NEW t \in Thread, NEW h \in Handle, StartReserve(t, h) PROVE LockInv'
  BY <1>2 DEF StartReserve, StartBusy, NewHandle, InApplication
<1>3. ASSUME NEW t \in Thread, NEW h \in Handle, RequestStop(t, h) PROVE LockInv'
  BY <1>3, Zenon DEF RequestStop, InApplication, Usable, Dereferenceable
<1>4. ASSUME NEW t \in Thread, NEW h \in Handle, StopClaim(t, h) PROVE LockInv'
  BY <1>4 DEF StopClaim, InApplication, Usable
<1>5. ASSUME NEW t \in Thread, NEW h \in Handle, Destroy(t, h) PROVE LockInv'
  BY <1>5, Zenon DEF Destroy, InApplication, Usable
<1>6. ASSUME NEW t \in Thread, StartActivate(t) PROVE LockInv'
  BY <1>6 DEF StartActivate, Goto
<1>7. ASSUME NEW t \in Thread, StartLock(t) PROVE LockInv'
  BY <1>7 DEF StartLock, Goto, NewImpl
<1>8. ASSUME NEW t \in Thread, StartBaseline(t) PROVE LockInv'
  BY <1>8 DEF StartBaseline, Goto
<1>9. ASSUME NEW t \in Thread, StartCreate(t) PROVE LockInv'
  BY <1>9 DEF StartCreate, Goto
<1>10. ASSUME NEW t \in Thread, StartPublish(t) PROVE LockInv'
  BY <1>10 DEF StartPublish, Return, NewHandle
<1>11. ASSUME NEW t \in Thread, StartDeactivate(t) PROVE LockInv'
  BY <1>11, Zenon DEF StartDeactivate, Goto
<1>12. ASSUME NEW t \in Thread, StartAbort(t) PROVE LockInv'
  BY <1>12 DEF StartAbort, Return, NewHandle
<1>13. ASSUME NEW t \in Thread, StopGate(t) PROVE LockInv'
  BY <1>13 DEF StopGate, Goto
<1>14. ASSUME NEW t \in Thread, StopJoin(t) PROVE LockInv'
  BY <1>14, ZenonT(60) DEF StopJoin, Goto
<1>15. ASSUME NEW t \in Thread, StopDrain(t) PROVE LockInv'
  BY <1>15 DEF StopDrain, Goto, StopGiveUp
<1>16. ASSUME NEW t \in Thread, StopSelect(t) PROVE LockInv'
  BY <1>16 DEF StopSelect, Goto, StopGiveUp
<1>17. ASSUME NEW t \in Thread, StopFinal(t) PROVE LockInv'
  BY <1>17 DEF StopFinal, Goto
<1>18. ASSUME NEW t \in Thread, StopDone(t) PROVE LockInv'
  BY <1>18, Zenon DEF StopDone, Return
<1>19. ASSUME NEW t \in Thread, StopFailed(t) PROVE LockInv'
  BY <1>19, Zenon DEF StopFailed, Return
<1>20. ASSUME NEW t \in Thread, StopJoinError(t) PROVE LockInv'
  BY <1>20, Zenon DEF StopJoinError, Goto, StopGiveUp
<1>21. ASSUME NEW h \in Handle, MonitorExit(h) PROVE LockInv'
  BY <1>21, Zenon DEF MonitorExit
<1>22. ASSUME ShutdownSignal PROVE LockInv'
  BY <1>22, Zenon DEF ShutdownSignal
<1> HIDE <1>0 DEF LockInv
<1> QED
  BY <1>1, <1>2, <1>3, <1>4, <1>5, <1>6, <1>7, <1>8, <1>9, <1>10, <1>11, <1>12, <1>13,
     <1>14, <1>15, <1>16, <1>17, <1>18, <1>19, <1>20, <1>21, <1>22, Zenon
  DEF Next, Call, StartStep, StopStep

\* A private runtime is freed exactly when it stops being built or installed.
LEMMA ImplStep ==
  ASSUME IInv, [Next]_vars
  PROVE  ImplInv'
<1> USE NoThreadAssumption, NoHandleAssumption
<1>0. TypeOK /\ ImplInv /\ SingleInv /\ InstalledInv /\ LockInv /\ ClaimInv
  BY Zenon DEF IInv
<1> USE <1>0 DEF publicVars, configVars, privateVars, signalVars, TypeOK, ImplInv,
     SingleInv, InstalledInv, LockInv, ClaimInv, StartPc, StopPc, BuildPc, BarePc
<1>1. CASE UNCHANGED vars
  BY <1>1 DEF vars
<1>2. ASSUME NEW t \in Thread, NEW h \in Handle, StartReserve(t, h) PROVE ImplInv'
  BY <1>2 DEF StartReserve, StartBusy, NewHandle, InApplication
<1>3. ASSUME NEW t \in Thread, NEW h \in Handle, RequestStop(t, h) PROVE ImplInv'
  BY <1>3 DEF RequestStop, InApplication, Usable, Dereferenceable
<1>4. ASSUME NEW t \in Thread, NEW h \in Handle, StopClaim(t, h) PROVE ImplInv'
  BY <1>4 DEF StopClaim, InApplication, Usable
<1>5. ASSUME NEW t \in Thread, NEW h \in Handle, Destroy(t, h) PROVE ImplInv'
  BY <1>5 DEF Destroy, InApplication, Usable
<1>6. ASSUME NEW t \in Thread, StartActivate(t) PROVE ImplInv'
  BY <1>6 DEF StartActivate, Goto
<1>7. ASSUME NEW t \in Thread, StartLock(t) PROVE ImplInv'
  BY <1>7 DEF StartLock, Goto, NewImpl
<1>8. ASSUME NEW t \in Thread, StartBaseline(t) PROVE ImplInv'
  BY <1>8 DEF StartBaseline, Goto
<1>9. ASSUME NEW t \in Thread, StartCreate(t) PROVE ImplInv'
  BY <1>9 DEF StartCreate, Goto
<1>10. ASSUME NEW t \in Thread, StartPublish(t) PROVE ImplInv'
  BY <1>10 DEF StartPublish, Return, NewHandle
<1>11. ASSUME NEW t \in Thread, StartDeactivate(t) PROVE ImplInv'
  BY <1>11 DEF StartDeactivate, Goto
<1>12. ASSUME NEW t \in Thread, StartAbort(t) PROVE ImplInv'
  BY <1>12 DEF StartAbort, Return, NewHandle
<1>13. ASSUME NEW t \in Thread, StopGate(t) PROVE ImplInv'
  BY <1>13 DEF StopGate, Goto
<1>14. ASSUME NEW t \in Thread, StopJoin(t) PROVE ImplInv'
  BY <1>14 DEF StopJoin, Goto
<1>15. ASSUME NEW t \in Thread, StopDrain(t) PROVE ImplInv'
  BY <1>15 DEF StopDrain, Goto, StopGiveUp
<1>16. ASSUME NEW t \in Thread, StopSelect(t) PROVE ImplInv'
  BY <1>16 DEF StopSelect, Goto, StopGiveUp
<1>17. ASSUME NEW t \in Thread, StopFinal(t) PROVE ImplInv'
  BY <1>17 DEF StopFinal, Goto
<1>18. ASSUME NEW t \in Thread, StopDone(t) PROVE ImplInv'
  BY <1>18 DEF StopDone, Return
<1>19. ASSUME NEW t \in Thread, StopFailed(t) PROVE ImplInv'
  BY <1>19 DEF StopFailed, Return
<1>20. ASSUME NEW t \in Thread, StopJoinError(t) PROVE ImplInv'
  BY <1>20 DEF StopJoinError, Goto, StopGiveUp
<1>21. ASSUME NEW h \in Handle, MonitorExit(h) PROVE ImplInv'
  BY <1>21 DEF MonitorExit
<1>22. ASSUME ShutdownSignal PROVE ImplInv'
  BY <1>22 DEF ShutdownSignal
<1> HIDE <1>0 DEF ImplInv
<1> QED
  BY <1>1, <1>2, <1>3, <1>4, <1>5, <1>6, <1>7, <1>8, <1>9, <1>10, <1>11, <1>12, <1>13,
     <1>14, <1>15, <1>16, <1>17, <1>18, <1>19, <1>20, <1>21, <1>22, Zenon
  DEF Next, Call, StartStep, StopStep

\* Public and private views of the active runtime agree outside the two calls.
LEMMA InstalledStep ==
  ASSUME IInv, [Next]_vars
  PROVE  InstalledInv'
<1> USE NoThreadAssumption, NoHandleAssumption
<1>0. TypeOK /\ InstalledInv /\ SingleInv /\ HandleInv
  BY Zenon DEF IInv
<1> USE <1>0 DEF publicVars, configVars, privateVars, signalVars, TypeOK, InstalledInv,
     SingleInv, HandleInv, StartPc, StopPc, BuildPc, BarePc
<1>1. CASE UNCHANGED vars
  BY <1>1, Zenon DEF vars
<1>2. ASSUME NEW t \in Thread, NEW h \in Handle, StartReserve(t, h) PROVE InstalledInv'
  BY <1>2 DEF StartReserve, StartBusy, NewHandle, InApplication
<1>3. ASSUME NEW t \in Thread, NEW h \in Handle, RequestStop(t, h) PROVE InstalledInv'
  BY <1>3, Zenon DEF RequestStop, InApplication, Usable, Dereferenceable
<1>4. ASSUME NEW t \in Thread, NEW h \in Handle, StopClaim(t, h) PROVE InstalledInv'
  BY <1>4 DEF StopClaim, InApplication, Usable
<1>5. ASSUME NEW t \in Thread, NEW h \in Handle, Destroy(t, h) PROVE InstalledInv'
  BY <1>5, Zenon DEF Destroy, InApplication, Usable
<1>6. ASSUME NEW t \in Thread, StartActivate(t) PROVE InstalledInv'
  BY <1>6 DEF StartActivate, Goto
<1>7. ASSUME NEW t \in Thread, StartLock(t) PROVE InstalledInv'
  BY <1>7 DEF StartLock, Goto, NewImpl
<1>8. ASSUME NEW t \in Thread, StartBaseline(t) PROVE InstalledInv'
  BY <1>8 DEF StartBaseline, Goto
<1>9. ASSUME NEW t \in Thread, StartCreate(t) PROVE InstalledInv'
  BY <1>9 DEF StartCreate, Goto
<1>10. ASSUME NEW t \in Thread, StartPublish(t) PROVE InstalledInv'
  BY <1>10 DEF StartPublish, Return, NewHandle
<1>11. ASSUME NEW t \in Thread, StartDeactivate(t) PROVE InstalledInv'
  BY <1>11 DEF StartDeactivate, Goto
<1>12. ASSUME NEW t \in Thread, StartAbort(t) PROVE InstalledInv'
  BY <1>12 DEF StartAbort, Return, NewHandle
<1>13. ASSUME NEW t \in Thread, StopGate(t) PROVE InstalledInv'
  BY <1>13 DEF StopGate, Goto
<1>14. ASSUME NEW t \in Thread, StopJoin(t) PROVE InstalledInv'
  BY <1>14 DEF StopJoin, Goto
<1>15. ASSUME NEW t \in Thread, StopDrain(t) PROVE InstalledInv'
  BY <1>15 DEF StopDrain, Goto, StopGiveUp
<1>16. ASSUME NEW t \in Thread, StopSelect(t) PROVE InstalledInv'
  BY <1>16 DEF StopSelect, Goto, StopGiveUp
<1>17. ASSUME NEW t \in Thread, StopFinal(t) PROVE InstalledInv'
  BY <1>17 DEF StopFinal, Goto
<1>18. ASSUME NEW t \in Thread, StopDone(t) PROVE InstalledInv'
  BY <1>18 DEF StopDone, Return
<1>19. ASSUME NEW t \in Thread, StopFailed(t) PROVE InstalledInv'
  BY <1>19 DEF StopFailed, Return
<1>20. ASSUME NEW t \in Thread, StopJoinError(t) PROVE InstalledInv'
  BY <1>20 DEF StopJoinError, Goto, StopGiveUp
<1>21. ASSUME NEW h \in Handle, MonitorExit(h) PROVE InstalledInv'
  BY <1>21, Zenon DEF MonitorExit
<1>22. ASSUME ShutdownSignal PROVE InstalledInv'
  BY <1>22, Zenon DEF ShutdownSignal
<1> HIDE <1>0 DEF InstalledInv
<1> QED
  BY <1>1, <1>2, <1>3, <1>4, <1>5, <1>6, <1>7, <1>8, <1>9, <1>10, <1>11, <1>12, <1>13,
     <1>14, <1>15, <1>16, <1>17, <1>18, <1>19, <1>20, <1>21, <1>22, Zenon
  DEF Next, Call, StartStep, StopStep

\* The private claim follows the stop call through its failures.
LEMMA ClaimStep ==
  ASSUME IInv, [Next]_vars
  PROVE  ClaimInv'
<1> USE NoThreadAssumption, NoHandleAssumption
<1>0. TypeOK /\ ClaimInv /\ SingleInv /\ InstalledInv /\ ImplInv /\ HandleInv
  BY Zenon DEF IInv
<1> USE <1>0 DEF publicVars, configVars, privateVars, signalVars, TypeOK, ClaimInv,
     SingleInv, InstalledInv, ImplInv, HandleInv, StartPc, StopPc, BuildPc, BarePc
<1>1. CASE UNCHANGED vars
  BY <1>1 DEF vars
<1>2. ASSUME NEW t \in Thread, NEW h \in Handle, StartReserve(t, h) PROVE ClaimInv'
  BY <1>2 DEF StartReserve, StartBusy, NewHandle, InApplication
<1>3. ASSUME NEW t \in Thread, NEW h \in Handle, RequestStop(t, h) PROVE ClaimInv'
  BY <1>3 DEF RequestStop, InApplication, Usable, Dereferenceable
<1>4. ASSUME NEW t \in Thread, NEW h \in Handle, StopClaim(t, h) PROVE ClaimInv'
  BY <1>4 DEF StopClaim, InApplication, Usable
<1>5. ASSUME NEW t \in Thread, NEW h \in Handle, Destroy(t, h) PROVE ClaimInv'
  BY <1>5 DEF Destroy, InApplication, Usable
<1>6. ASSUME NEW t \in Thread, StartActivate(t) PROVE ClaimInv'
  BY <1>6 DEF StartActivate, Goto
<1>7. ASSUME NEW t \in Thread, StartLock(t) PROVE ClaimInv'
  BY <1>7 DEF StartLock, Goto, NewImpl
<1>8. ASSUME NEW t \in Thread, StartBaseline(t) PROVE ClaimInv'
  BY <1>8 DEF StartBaseline, Goto
<1>9. ASSUME NEW t \in Thread, StartCreate(t) PROVE ClaimInv'
  BY <1>9 DEF StartCreate, Goto
<1>10. ASSUME NEW t \in Thread, StartPublish(t) PROVE ClaimInv'
  BY <1>10 DEF StartPublish, Return, NewHandle
<1>11. ASSUME NEW t \in Thread, StartDeactivate(t) PROVE ClaimInv'
  BY <1>11 DEF StartDeactivate, Goto
<1>12. ASSUME NEW t \in Thread, StartAbort(t) PROVE ClaimInv'
  BY <1>12, SMTT(30) DEF StartAbort, Return, NewHandle
<1>13. ASSUME NEW t \in Thread, StopGate(t) PROVE ClaimInv'
  BY <1>13 DEF StopGate, Goto
<1>14. ASSUME NEW t \in Thread, StopJoin(t) PROVE ClaimInv'
  BY <1>14 DEF StopJoin, Goto
<1>15. ASSUME NEW t \in Thread, StopDrain(t) PROVE ClaimInv'
  BY <1>15, SMTT(30) DEF StopDrain, Goto, StopGiveUp
<1>16. ASSUME NEW t \in Thread, StopSelect(t) PROVE ClaimInv'
  BY <1>16, SMTT(30) DEF StopSelect, Goto, StopGiveUp
<1>17. ASSUME NEW t \in Thread, StopFinal(t) PROVE ClaimInv'
  BY <1>17, SMTT(30) DEF StopFinal, Goto
<1>18. ASSUME NEW t \in Thread, StopDone(t) PROVE ClaimInv'
  BY <1>18 DEF StopDone, Return
<1>19. ASSUME NEW t \in Thread, StopFailed(t) PROVE ClaimInv'
  BY <1>19 DEF StopFailed, Return
<1>20. ASSUME NEW t \in Thread, StopJoinError(t) PROVE ClaimInv'
  BY <1>20 DEF StopJoinError, Goto, StopGiveUp
<1>21. ASSUME NEW h \in Handle, MonitorExit(h) PROVE ClaimInv'
  BY <1>21 DEF MonitorExit
<1>22. ASSUME ShutdownSignal PROVE ClaimInv'
  BY <1>22 DEF ShutdownSignal
<1> HIDE <1>0 DEF ClaimInv
<1> QED
  BY <1>1, <1>2, <1>3, <1>4, <1>5, <1>6, <1>7, <1>8, <1>9, <1>10, <1>11, <1>12, <1>13,
     <1>14, <1>15, <1>16, <1>17, <1>18, <1>19, <1>20, <1>21, <1>22, Zenon
  DEF Next, Call, StartStep, StopStep

\* A monitor is created with, and joined before the end of, its runtime.
LEMMA MonitorStep ==
  ASSUME IInv, [Next]_vars
  PROVE  MonitorInv'
<1> USE NoThreadAssumption, NoHandleAssumption
<1>0. TypeOK /\ MonitorInv /\ SingleInv /\ InstalledInv /\ ImplInv /\ ClaimInv /\ LockInv
  BY Zenon DEF IInv
<1> USE <1>0 DEF publicVars, configVars, privateVars, signalVars, TypeOK, MonitorInv,
     SingleInv, InstalledInv, ImplInv, ClaimInv, LockInv, StartPc, StopPc, BuildPc, BarePc
<1>1. CASE UNCHANGED vars
  BY <1>1 DEF vars
<1>2. ASSUME NEW t \in Thread, NEW h \in Handle, StartReserve(t, h) PROVE MonitorInv'
  BY <1>2 DEF StartReserve, StartBusy, NewHandle, InApplication
<1>3. ASSUME NEW t \in Thread, NEW h \in Handle, RequestStop(t, h) PROVE MonitorInv'
  BY <1>3, SMTT(30) DEF RequestStop, InApplication, Usable, Dereferenceable
<1>4. ASSUME NEW t \in Thread, NEW h \in Handle, StopClaim(t, h) PROVE MonitorInv'
  BY <1>4 DEF StopClaim, InApplication, Usable
<1>5. ASSUME NEW t \in Thread, NEW h \in Handle, Destroy(t, h) PROVE MonitorInv'
  BY <1>5 DEF Destroy, InApplication, Usable
<1>6. ASSUME NEW t \in Thread, StartActivate(t) PROVE MonitorInv'
  BY <1>6 DEF StartActivate, Goto
<1>7. ASSUME NEW t \in Thread, StartLock(t) PROVE MonitorInv'
  BY <1>7 DEF StartLock, Goto, NewImpl
<1>8. ASSUME NEW t \in Thread, StartBaseline(t) PROVE MonitorInv'
  BY <1>8, SMTT(30) DEF StartBaseline, Goto
<1>9. ASSUME NEW t \in Thread, StartCreate(t) PROVE MonitorInv'
  BY <1>9 DEF StartCreate, Goto
<1>10. ASSUME NEW t \in Thread, StartPublish(t) PROVE MonitorInv'
  BY <1>10 DEF StartPublish, Return, NewHandle
<1>11. ASSUME NEW t \in Thread, StartDeactivate(t) PROVE MonitorInv'
  BY <1>11, SMTT(30) DEF StartDeactivate, Goto
<1>12. ASSUME NEW t \in Thread, StartAbort(t) PROVE MonitorInv'
  BY <1>12, SMTT(30) DEF StartAbort, Return, NewHandle
<1>13. ASSUME NEW t \in Thread, StopGate(t) PROVE MonitorInv'
  BY <1>13, SMTT(30) DEF StopGate, Goto
<1>14. ASSUME NEW t \in Thread, StopJoin(t) PROVE MonitorInv'
  BY <1>14, SMTT(30) DEF StopJoin, Goto
<1>15. ASSUME NEW t \in Thread, StopDrain(t) PROVE MonitorInv'
  BY <1>15, SMTT(30) DEF StopDrain, Goto, StopGiveUp
<1>16. ASSUME NEW t \in Thread, StopSelect(t) PROVE MonitorInv'
  BY <1>16, SMTT(30) DEF StopSelect, Goto, StopGiveUp
<1>17. ASSUME NEW t \in Thread, StopFinal(t) PROVE MonitorInv'
  BY <1>17, SMTT(30) DEF StopFinal, Goto
<1>18. ASSUME NEW t \in Thread, StopDone(t) PROVE MonitorInv'
  BY <1>18, SMTT(30) DEF StopDone, Return
<1>19. ASSUME NEW t \in Thread, StopFailed(t) PROVE MonitorInv'
  BY <1>19, SMTT(30) DEF StopFailed, Return
<1>20. ASSUME NEW t \in Thread, StopJoinError(t) PROVE MonitorInv'
  BY <1>20, SMTT(30) DEF StopJoinError, Goto, StopGiveUp
<1>21. ASSUME NEW h \in Handle, MonitorExit(h) PROVE MonitorInv'
  BY <1>21, SMTT(30) DEF MonitorExit
<1>22. ASSUME ShutdownSignal PROVE MonitorInv'
  BY <1>22 DEF ShutdownSignal
<1> HIDE <1>0 DEF MonitorInv
<1> QED
  BY <1>1, <1>2, <1>3, <1>4, <1>5, <1>6, <1>7, <1>8, <1>9, <1>10, <1>11, <1>12, <1>13,
     <1>14, <1>15, <1>16, <1>17, <1>18, <1>19, <1>20, <1>21, <1>22, Zenon
  DEF Next, Call, StartStep, StopStep

\* The configuration is activated before and deactivated after its generation.
LEMMA ConfigStep ==
  ASSUME IInv, [Next]_vars
  PROVE  ConfigInv'
<1> USE NoThreadAssumption, NoHandleAssumption
<1>0. TypeOK /\ ConfigInv /\ SingleInv /\ HandleInv
  BY Zenon DEF IInv
<1> USE <1>0 DEF publicVars, configVars, privateVars, signalVars, TypeOK, ConfigInv,
     SingleInv, HandleInv, StartPc, StopPc
<1>1. CASE UNCHANGED vars
  BY <1>1, Zenon DEF vars
<1>2. ASSUME NEW t \in Thread, NEW h \in Handle, StartReserve(t, h) PROVE ConfigInv'
  BY <1>2 DEF StartReserve, StartBusy, NewHandle, InApplication
<1>3. ASSUME NEW t \in Thread, NEW h \in Handle, RequestStop(t, h) PROVE ConfigInv'
  BY <1>3, Zenon DEF RequestStop, InApplication, Usable, Dereferenceable
<1>4. ASSUME NEW t \in Thread, NEW h \in Handle, StopClaim(t, h) PROVE ConfigInv'
  BY <1>4 DEF StopClaim, InApplication, Usable
<1>5. ASSUME NEW t \in Thread, NEW h \in Handle, Destroy(t, h) PROVE ConfigInv'
  BY <1>5, Zenon DEF Destroy, InApplication, Usable
<1>6. ASSUME NEW t \in Thread, StartActivate(t) PROVE ConfigInv'
  BY <1>6 DEF StartActivate, Goto
<1>7. ASSUME NEW t \in Thread, StartLock(t) PROVE ConfigInv'
  BY <1>7 DEF StartLock, Goto, NewImpl
<1>8. ASSUME NEW t \in Thread, StartBaseline(t) PROVE ConfigInv'
  BY <1>8, SMTT(30) DEF StartBaseline, Goto
<1>9. ASSUME NEW t \in Thread, StartCreate(t) PROVE ConfigInv'
  BY <1>9, SMTT(30) DEF StartCreate, Goto
<1>10. ASSUME NEW t \in Thread, StartPublish(t) PROVE ConfigInv'
  BY <1>10 DEF StartPublish, Return, NewHandle
<1>11. ASSUME NEW t \in Thread, StartDeactivate(t) PROVE ConfigInv'
  BY <1>11, SMTT(30) DEF StartDeactivate, Goto
<1>12. ASSUME NEW t \in Thread, StartAbort(t) PROVE ConfigInv'
  BY <1>12, SMTT(30) DEF StartAbort, Return, NewHandle
<1>13. ASSUME NEW t \in Thread, StopGate(t) PROVE ConfigInv'
  BY <1>13, SMTT(30) DEF StopGate, Goto
<1>14. ASSUME NEW t \in Thread, StopJoin(t) PROVE ConfigInv'
  BY <1>14, SMTT(30) DEF StopJoin, Goto
<1>15. ASSUME NEW t \in Thread, StopDrain(t) PROVE ConfigInv'
  BY <1>15, SMTT(30) DEF StopDrain, Goto, StopGiveUp
<1>16. ASSUME NEW t \in Thread, StopSelect(t) PROVE ConfigInv'
  BY <1>16 DEF StopSelect, Goto, StopGiveUp
<1>17. ASSUME NEW t \in Thread, StopFinal(t) PROVE ConfigInv'
  BY <1>17, SMTT(30) DEF StopFinal, Goto
<1>18. ASSUME NEW t \in Thread, StopDone(t) PROVE ConfigInv'
  BY <1>18, SMTT(30) DEF StopDone, Return
<1>19. ASSUME NEW t \in Thread, StopFailed(t) PROVE ConfigInv'
  BY <1>19, SMTT(30) DEF StopFailed, Return
<1>20. ASSUME NEW t \in Thread, StopJoinError(t) PROVE ConfigInv'
  BY <1>20 DEF StopJoinError, Goto, StopGiveUp
<1>21. ASSUME NEW h \in Handle, MonitorExit(h) PROVE ConfigInv'
  BY <1>21, Zenon DEF MonitorExit
<1>22. ASSUME ShutdownSignal PROVE ConfigInv'
  BY <1>22, Zenon DEF ShutdownSignal
<1> HIDE <1>0 DEF ConfigInv
<1> QED
  BY <1>1, <1>2, <1>3, <1>4, <1>5, <1>6, <1>7, <1>8, <1>9, <1>10, <1>11, <1>12, <1>13,
     <1>14, <1>15, <1>16, <1>17, <1>18, <1>19, <1>20, <1>21, <1>22, Zenon
  DEF Next, Call, StartStep, StopStep
\* Initially no call is in progress and nothing is active or installed.
LEMMA InitIInv == Init => IInv
BY NoThreadAssumption, NoHandleAssumption, ZenonT(60)
   DEF Init, IInv, TypeOK, SingleInv, HandleInv, LockInv, ImplInv, InstalledInv, ClaimInv,
       MonitorInv, ConfigInv, StartPc, StopPc, BuildPc, BarePc, HandleFlag, ImplFlag

\* Every step preserves the inductive invariant.
LEMMA StepIInv == IInv /\ [Next]_vars => IInv'
BY TypeStep, SingleStep, HandleStep, LockStep, ImplStep, InstalledStep, ClaimStep, MonitorStep,
   ConfigStep, Zenon DEF IInv

\* The inductive invariant holds of every reachable state.
LEMMA Inductive == Spec => []IInv
BY InitIInv, StepIInv, PTL DEF Spec

----------------------------------------------------------------------------
(* What follows from it.                                                   *)

\* The fields and flags always have one of their values.
THEOREM TypeCorrect == Spec => []TypeOK
<1>1. IInv => TypeOK
  BY Zenon DEF IInv
<1> QED
  BY Inductive, <1>1, PTL

\* No public call, and no start or stop past its unlock, touches freed memory.
THEOREM MemorySafety == Spec => []NoUseAfterFree
<1>1. IInv => NoUseAfterFree
  <2> SUFFICES ASSUME IInv PROVE NoUseAfterFree
    BY Zenon
  <2>0. /\ TypeOK /\ SingleInv /\ HandleInv /\ ImplInv /\ InstalledInv
    BY Zenon DEF IInv
  <2>1. ASSUME NEW h \in Handle, Dereferenceable(h)
        PROVE  "allocated" \in impl[h]
    BY <2>0, <2>1, NoHandleAssumption
       DEF Dereferenceable, TypeOK, SingleInv, HandleInv, ImplInv, InstalledInv, StopPc
  <2>2. ASSUME NEW t \in Thread, pc[t] # "idle"
        PROVE  "allocated" \in handle[arg[t]]
    <3>1. CASE pc[t] \in StartPc
      BY <2>0, <3>1, Zenon DEF HandleInv, NewHandle
    <3>2. CASE pc[t] \in StopPc
      BY <2>0, <2>2, <3>2 DEF TypeOK, SingleInv, HandleInv
    <3> QED
      BY <2>0, <2>2, <3>1, <3>2, Zenon DEF TypeOK
  <2>3. ASSUME NEW t \in Thread, pc[t] \in StopPc \ {"failed", "done"}
        PROVE  "allocated" \in impl[arg[t]]
    BY <2>0, <2>3, NoHandleAssumption, Zenon DEF TypeOK, SingleInv, ImplInv, InstalledInv, StopPc
  <2> QED
    BY <2>1, <2>2, <2>3, Zenon DEF NoUseAfterFree
<1> QED
  BY Inductive, <1>1, PTL

\* The monitor's perf context and configuration outlive it and are its own.
THEOREM MonitorResources == Spec => []MonitorHasResources
<1>1. IInv => MonitorHasResources
  BY NoHandleAssumption
     DEF IInv, TypeOK, InstalledInv, MonitorInv, ConfigInv, MonitorHasResources
<1> QED
  BY Inductive, <1>1, PTL

\* At most one generation is starting, installed or monitored.
THEOREM SingleGeneration == Spec => []OneGeneration
<1>1. IInv => OneGeneration
  BY NoHandleAssumption, SMTT(30)
     DEF IInv, TypeOK, SingleInv, ImplInv, InstalledInv, MonitorInv, OneGeneration, StartPc,
         BuildPc, BarePc
<1> QED
  BY Inductive, <1>1, PTL

\* The stop claim has one holder, is given back by every failure, and is never
\* refused by the private runtime.
THEOREM StopRetryable == Spec => []StopClaimHeld
<1>1. IInv => StopClaimHeld
  <2> SUFFICES ASSUME IInv PROVE StopClaimHeld
    BY Zenon
  <2>0. /\ TypeOK /\ SingleInv /\ HandleInv /\ InstalledInv /\ ClaimInv
    BY Zenon DEF IInv
  <2>1. publicActive # NoHandle => \/ Dereferenceable(publicActive)
                                   \/ "stopInProgress" \in handle[publicActive]
    BY <2>0, Zenon DEF HandleInv, Dereferenceable
  <2>2. ASSUME NEW t \in Thread, pc[t] \in {"gate", "final"}
        PROVE  privateActive = arg[t] /\ ("stopInProgress" \in impl[arg[t]] <=> pc[t] = "final")
    BY <2>0, <2>2 DEF TypeOK, SingleInv, InstalledInv, ClaimInv, StopPc
  <2> QED
    BY <2>0, <2>1, <2>2, Zenon DEF StopClaimHeld, SingleInv, HandleInv
<1> QED
  BY Inductive, <1>1, PTL

\* A call made from the baseline callback never starts to wait.
THEOREM NestedCalls == Spec => NestedCallsReturn
<1>1. IInv /\ [Next]_vars =>
        [\A t \in Thread : pc[t] = "baseline" => pc'[t] \in {"baseline", "create", "deactivate"}]_vars
  <2> SUFFICES ASSUME IInv, Next, NEW t \in Thread, pc[t] = "baseline"
               PROVE  pc'[t] \in {"baseline", "create", "deactivate"}
    BY ZenonT(60)
  <2>0. TypeOK /\ SingleInv /\ starting /\ publicActive = NoHandle
    BY Zenon DEF IInv, SingleInv, StartPc
  <2>1. ASSUME NEW u \in Thread, NEW h \in Handle, Call(u, h)
        PROVE  pc'[t] = "baseline"
    BY <2>0, <2>1, NoHandleAssumption, ZenonT(60)
       DEF Call, StartReserve, StartBusy, RequestStop, Dereferenceable, StopClaim, Destroy
  <2>2. ASSUME NEW u \in Thread, StartStep(u)
        PROVE  pc'[t] \in {"baseline", "create", "deactivate"}
    BY <2>0, <2>2, Zenon DEF TypeOK, StartStep, StartActivate, StartLock, StartBaseline,
       StartCreate, StartPublish, StartDeactivate, StartAbort, Goto, Return
  <2>3. ASSUME NEW u \in Thread, StopStep(u) \/ StopJoinError(u)
        PROVE  pc'[t] = "baseline"
    BY <2>0, <2>3, ZenonT(60)
       DEF TypeOK, StopStep, StopGate, StopJoin, StopDrain, StopSelect, StopFinal, StopDone,
           StopFailed, StopJoinError, StopGiveUp, Goto, Return
  <2>4. CASE (\E h \in Handle : MonitorExit(h)) \/ ShutdownSignal
    BY <2>4, Zenon DEF MonitorExit, ShutdownSignal
  <2> QED
    BY <2>1, <2>2, <2>3, <2>4, ZenonT(60) DEF Next
<1> QED
  BY Inductive, <1>1, PTL DEF Spec, NestedCallsReturn

\* A generation asked to stop never goes live again.
THEOREM StopFinality == Spec => StopRequestIsFinal
<1>1. IInv /\ [Next]_vars =>
        [privateActive # NoHandle /\ privateActive' = privateActive
           => (stopping => stopping') /\ (~running => ~running')]_vars
  <2> SUFFICES ASSUME IInv, Next, privateActive # NoHandle, privateActive' = privateActive
               PROVE  (stopping => stopping') /\ (~running => ~running')
    BY Zenon
  <2>0. TypeOK /\ InstalledInv
    BY Zenon DEF IInv
  <2>1. ASSUME NEW t \in Thread, NEW h \in Handle, Call(t, h)
        PROVE  (stopping => stopping') /\ (~running => ~running')
    BY <2>1, SMTT(30) DEF Call, StartReserve, RequestStop, StopClaim, Destroy, privateVars
  <2>2. ASSUME NEW t \in Thread, StartStep(t)
        PROVE  (stopping => stopping') /\ (~running => ~running')
    <3>1. ~StartCreate(t)
      BY <2>0, Zenon DEF StartCreate, InstalledInv, BuildPc
    <3>2. CASE StartLock(t)
      BY <3>2 DEF StartLock, privateVars
    <3> QED
      BY <2>2, <3>1, <3>2, SMTT(30)
         DEF StartStep, StartActivate, StartBaseline, StartPublish, StartDeactivate, StartAbort,
             privateVars
  <2>3. ASSUME NEW t \in Thread, StopStep(t) \/ StopJoinError(t)
        PROVE  (stopping => stopping') /\ (~running => ~running')
    <3>1. CASE StopFinal(t)
      <4>1. PICK success \in BOOLEAN :
              /\ privateActive' = IF success THEN NoHandle ELSE privateActive
              /\ stopping' = IF success THEN FALSE ELSE stopping
        BY <3>1, Zenon DEF StopFinal
      <4>2. ~success
        BY <4>1, Zenon
      <4>3. stopping' = stopping
        BY <4>1, <4>2, Zenon
      <4> QED
        BY <3>1, <4>3, Zenon DEF StopFinal
    <3>2. CASE StopGate(t)
      BY <3>2, SMTT(30) DEF StopGate
    <3>3. CASE \/ StopJoin(t) \/ StopDrain(t) \/ StopSelect(t) \/ StopDone(t)
               \/ StopFailed(t) \/ StopJoinError(t)
      BY <3>3 DEF StopJoin, StopDrain, StopSelect, StopDone, StopFailed, StopJoinError, privateVars
    <3> QED
      BY <2>3, <3>1, <3>2, <3>3, Zenon DEF StopStep
  <2>4. CASE (\E h \in Handle : MonitorExit(h)) \/ ShutdownSignal
    BY <2>4 DEF MonitorExit, ShutdownSignal, privateVars
  <2> QED
    BY <2>1, <2>2, <2>3, <2>4, Zenon DEF Next
<1> QED
  BY Inductive, <1>1, PTL DEF Spec, StopRequestIsFinal
=============================================================================
