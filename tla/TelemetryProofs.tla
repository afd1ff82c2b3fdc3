-------------------------- MODULE TelemetryProofs --------------------------
(***************************************************************************)
(* Proofs about the telemetry service of fusion_bridge.cpp, for any finite *)
(* set of contexts, any CPUs, window and holding time.  BridgeInv is       *)
(* inductive: it says what exists and who is counted at each place of a    *)
(* call, and how old the cached and the published temperature can be.      *)
(*                                                                         *)
(* And about the telemetry helper, for any hosts and sensors.  TelemetryInv *)
(* follows a detection candidate by candidate: the best so far outranks    *)
(* all that have answered, and is recorded as labelled with the CPU's      *)
(* package exactly when it is.                                             *)
(***************************************************************************)
EXTENDS FusionBridge, TelemetryHelper, FiniteSetTheorems, TLAPS

Holder == {c \in Context : acquired[c]}
SamplePc == {"initial", "publish", "gate", "force", "copy", "rollback"}
EndPc == {"open", "clear"}

\* What exists at each place of a call, and whom the count includes: the call itself
\* is counted from StartCount on, whether or not it is a start.
Service ==
  /\ pc = "free" =>
       /\ users = Cardinality(Holder)
       /\ (users > 0 /\ object = "running" /\ worker = "polling" /\ on)
            \/ (users = 0 /\ object = "absent" /\ worker = "none" /\ ~on)
       /\ \A c \in Context : acquired[c] => cpuOf[c] = cpu
  /\ pc \in {"launch", "count"} => ~on /\ cpuOf[mutex] = cpu
  /\ pc = "launch" => object = "created" /\ worker = "none"
  /\ pc = "count" => object = "running" /\ worker = "polling"
  /\ pc \in SamplePc =>
       /\ object = "running" /\ worker = "polling" /\ on
       /\ users = Cardinality(Holder \cup {mutex})
       /\ \A c \in Context : c = mutex \/ acquired[c] => cpuOf[c] = cpu
  /\ pc = "join" => object = "created" /\ worker \in {"polling", "done"}
  /\ pc = "reset" => object # "running" /\ worker = "none"
  /\ pc \in EndPc => object = "absent" /\ worker = "none" /\ users = 0 /\ ~on
  /\ pc \in {"launch", "count", "initial", "rollback", "join", "reset"} \cup EndPc
       => \A c \in Context : ~acquired[c]

\* What is published, and how old it is.
Published ==
  /\ pc \in {"launch", "count", "initial"} \/ (pc = "free" /\ ~on) => channel.value = "none"
  /\ pc \in {"free", "gate", "force"} /\ ~threw => channel.value \in {"none", raw.value}
  /\ pc = "publish" /\ avail => raw.value # "none" /\ raw.age <= Window + held
  /\ channel.value # "none" => channel.age <= Window + MaxHold + channel.stamp

FlagTypes ==
  /\ mutex \in Context \cup {Nobody}
  /\ object \in {"absent", "created", "running"} /\ worker \in {"none", "polling", "done"}
  /\ cpu \in Cpu \cup {NoCpu}
  /\ on \in BOOLEAN /\ gate \in BOOLEAN /\ avail \in BOOLEAN
  /\ width \in {"sse41", "wide"} /\ refused \in BOOLEAN /\ threw \in BOOLEAN
  /\ acquired \in [Context -> BOOLEAN] /\ cpuOf \in [Context -> Cpu \cup {NoCpu}]
  /\ pc \in {"free", "launch", "count", "initial", "publish", "rollback", "gate", "force", "copy",
             "join", "reset", "open", "clear"}
  /\ pc = "free" <=> mutex = Nobody

NumberTypes ==
  /\ held \in 0 .. MaxHold /\ users \in 0 .. Cardinality(Context)
  /\ raw \in [value : {"none", "cool", "hot"}, age : 0 .. AgeCap]
  /\ channel \in [value : {"none", "cool", "hot"}, age : 0 .. AgeCap, stamp : 0 .. AgeCap]

BridgeInv == FlagTypes /\ NumberTypes /\ Service /\ Published /\ LossNarrows

USE ContextAssumption, CpuAssumption, TimeAssumption

\* The contexts that hold the service are finitely many, and counted one by one.
LEMMA HolderFinite == /\ IsFiniteSet(Holder)
                      /\ Cardinality(Holder) \in Nat /\ Cardinality(Context) \in Nat
                      /\ Cardinality(Holder) <= Cardinality(Context)
<1>1. Holder \in SUBSET Context BY Zenon DEF Holder
<1>2. QED BY <1>1, FS_Subset, FS_CardinalityType, Zenon

LEMMA HolderAdd ==
  ASSUME NEW c \in Context
  PROVE  /\ Cardinality(Holder \cup {c}) = IF c \in Holder THEN Cardinality(Holder)
                                           ELSE Cardinality(Holder) + 1
         /\ Cardinality(Holder \ {c}) = IF c \in Holder THEN Cardinality(Holder) - 1
                                        ELSE Cardinality(Holder)
         /\ Cardinality(Holder \cup {c}) > 0
         /\ Cardinality(Holder \cup {c}) <= Cardinality(Context)
<1>2. Cardinality(Holder \cup {c}) =
         IF c \in Holder THEN Cardinality(Holder) ELSE Cardinality(Holder) + 1
  BY HolderFinite, FS_AddElement, Zenon
<1>3. Cardinality(Holder \ {c}) =
         IF c \in Holder THEN Cardinality(Holder) - 1 ELSE Cardinality(Holder)
  BY HolderFinite, FS_RemoveElement, Zenon
<1>4. Holder \cup {c} \in SUBSET Context BY Zenon DEF Holder
<1>5. /\ IsFiniteSet(Holder \cup {c}) /\ Cardinality(Holder \cup {c}) <= Cardinality(Context)
      /\ Cardinality(Holder \cup {c}) \in Nat
  BY <1>4, FS_Subset, FS_CardinalityType, Zenon
<1>6. Cardinality(Holder \cup {c}) # 0 BY <1>5, FS_EmptySet, Zenon
<1>7. QED BY <1>2, <1>3, <1>5, <1>6, HolderFinite

\* Nobody holds the service exactly when the count is zero.
LEMMA HolderEmpty == Cardinality(Holder) = 0 <=> \A c \in Context : ~acquired[c]
<1>1. Holder = {} <=> \A c \in Context : ~acquired[c] BY Zenon DEF Holder
<1>2. QED BY <1>1, HolderFinite, FS_EmptySet, Zenon

\* Ages never pass their cap.
LEMMA OlderType == \A age \in 0 .. AgeCap : Older(age) \in 0 .. AgeCap /\ Older(age) <= age + 1
BY DEF Older, AgeCap

\* The first state satisfies the invariant.
LEMMA BridgeInit == Init => BridgeInv
<1> SUFFICES ASSUME Init PROVE BridgeInv BY Zenon
<1>1. FlagTypes BY Zenon DEF Init, FlagTypes
<1>2. NumberTypes BY HolderFinite DEF Init, NumberTypes, None, NoChannel, AgeCap
<1>3. Service BY HolderEmpty DEF Init, Service, SamplePc, EndPc
<1>4. Published BY Zenon DEF Init, Published, NoChannel
<1>5. LossNarrows BY Zenon DEF Init, LossNarrows
<1>6. QED BY <1>1, <1>2, <1>3, <1>4, <1>5, Zenon DEF BridgeInv

\* Every step keeps the invariant.
LEMMA BridgeStep == BridgeInv /\ [Next]_vars => BridgeInv'
<1> SUFFICES ASSUME BridgeInv, [Next]_vars PROVE BridgeInv'
  BY Zenon
<1> USE DEF service, selection, contexts, SamplePc, EndPc
<1>0. FlagTypes /\ NumberTypes /\ Service /\ Published /\ LossNarrows BY Zenon DEF BridgeInv
<1>1. ASSUME NEW c \in Context, NEW k \in Cpu, StartShare(c, k) PROVE BridgeInv'
  <2>1. FlagTypes'
    BY <1>0, <1>1 DEF StartShare, FlagTypes
  <2>2. NumberTypes'
    <3>1. pc = "free" /\ users = Cardinality(Holder) /\ ~acquired[c]
      BY <1>0, <1>1, Zenon DEF StartShare, FlagTypes, Service
    <3>2. c \notin Holder BY <3>1, Zenon DEF Holder
    <3>3. users + 1 <= Cardinality(Context) /\ Cardinality(Context) \in Nat
      <4>1. /\ Cardinality(Holder \cup {c}) = Cardinality(Holder) + 1
            /\ Cardinality(Holder \cup {c}) <= Cardinality(Context)
        BY <3>2, HolderAdd, Zenon
      <4>2. QED BY <3>1, <4>1, HolderFinite, Zenon
    <3>4. QED BY <1>0, <1>1, <3>3 DEF StartShare, NumberTypes
  <2>3. Service'
    BY <1>0, <1>1, HolderEmpty, HolderFinite, HolderAdd DEF StartShare, Holder, FlagTypes,
       NumberTypes, Service
  <2>4. Published'
    BY <1>0, <1>1, Zenon DEF StartShare, Published
  <2>5. LossNarrows'
    BY <1>0, <1>1, Zenon DEF StartShare, LossNarrows
  <2>6. QED BY <2>1, <2>2, <2>3, <2>4, <2>5, Zenon DEF BridgeInv
<1>2. ASSUME NEW c \in Context, NEW k \in Cpu, StartCreate(c, k) PROVE BridgeInv'
  <2>1. FlagTypes'
    BY <1>0, <1>2 DEF StartCreate, Lock, None, NoChannel, FlagTypes
  <2>2. NumberTypes'
    BY <1>0, <1>2 DEF StartCreate, Lock, None, NoChannel, AgeCap, NumberTypes
  <2>3. Service'
    BY <1>0, <1>2, HolderEmpty, Zenon DEF StartCreate, Lock, None, NoChannel, Holder, FlagTypes,
       Service
  <2>4. Published'
    BY <1>0, <1>2, Zenon DEF StartCreate, Lock, None, NoChannel, FlagTypes, NumberTypes, Service,
       Published
  <2>5. LossNarrows'
    BY <1>0, <1>2, Zenon DEF StartCreate, Lock, None, NoChannel, LossNarrows
  <2>6. QED BY <2>1, <2>2, <2>3, <2>4, <2>5, Zenon DEF BridgeInv
<1>3. ASSUME NEW c \in Context, SampleRecord(c) PROVE BridgeInv'
  <2>1. FlagTypes'
    BY <1>0, <1>3, Zenon DEF SampleRecord, Lock, FlagTypes
  <2>2. NumberTypes'
    BY <1>0, <1>3 DEF SampleRecord, Lock, AgeCap, NumberTypes
  <2>3. Service'
    BY <1>0, <1>3, HolderEmpty DEF SampleRecord, Lock, Holder, FlagTypes, Service
  <2>4. Published'
    BY <1>0, <1>3, Zenon DEF SampleRecord, Lock, Published
  <2>5. LossNarrows'
    BY <1>0, <1>3, Zenon DEF SampleRecord, Lock, LossNarrows
  <2>6. QED BY <2>1, <2>2, <2>3, <2>4, <2>5, Zenon DEF BridgeInv
<1>4. ASSUME NEW c \in Context, SampleThrow(c) PROVE BridgeInv'
  <2>1. FlagTypes'
    BY <1>0, <1>4 DEF SampleThrow, FlagTypes
  <2>2. NumberTypes'
    BY <1>0, <1>4 DEF SampleThrow, AgeCap, NumberTypes
  <2>3. Service'
    BY <1>0, <1>4, Zenon DEF SampleThrow, Holder, Service
  <2>4. Published'
    BY <1>0, <1>4, Zenon DEF SampleThrow, FlagTypes, Published
  <2>5. LossNarrows'
    BY <1>0, <1>4, Zenon DEF SampleThrow, LossNarrows
  <2>6. QED BY <2>1, <2>2, <2>3, <2>4, <2>5, Zenon DEF BridgeInv
<1>5. ASSUME NEW c \in Context, StopRelease(c) PROVE BridgeInv'
  <2>1. FlagTypes'
    BY <1>0, <1>5 DEF StopRelease, FlagTypes
  <2>2. NumberTypes'
    BY <1>0, <1>5, HolderFinite, SMTT(30) DEF StopRelease, AgeCap, FlagTypes, NumberTypes
  <2>3. Service'
    BY <1>0, <1>5, HolderEmpty, HolderFinite, HolderAdd DEF StopRelease, Holder, FlagTypes,
       NumberTypes, Service
  <2>4. Published'
    BY <1>0, <1>5, Zenon DEF StopRelease, Published
  <2>5. LossNarrows'
    BY <1>0, <1>5, Zenon DEF StopRelease, LossNarrows
  <2>6. QED BY <2>1, <2>2, <2>3, <2>4, <2>5, Zenon DEF BridgeInv
<1>6. ASSUME NEW c \in Context, StopLast(c) PROVE BridgeInv'
  <2>1. FlagTypes'
    BY <1>0, <1>6 DEF StopLast, Lock, FlagTypes
  <2>2. NumberTypes'
    BY <1>0, <1>6, HolderFinite DEF StopLast, Lock, AgeCap, FlagTypes, NumberTypes
  <2>3. Service'
    <3>1. pc = "free" /\ acquired[c] /\ users = Cardinality(Holder) /\ users <= 1
      BY <1>0, <1>6, Zenon DEF StopLast, Lock, FlagTypes, Service
    <3>2. users > 0
      BY <3>1, HolderFinite, HolderEmpty
    <3>3. object = "running" /\ worker = "polling" BY <1>0, <3>1, <3>2 DEF Service
    <3>4. Cardinality(Holder \ {c}) = 0 /\ IsFiniteSet(Holder \ {c})
      <4>1. c \in Holder BY <3>1, Zenon DEF Holder
      <4>2. Cardinality(Holder \ {c}) = Cardinality(Holder) - 1 BY <4>1, HolderAdd, Zenon
      <4>3. IsFiniteSet(Holder \ {c}) BY HolderFinite, FS_RemoveElement, Zenon
      <4>4. QED BY <3>1, <3>2, <4>2, <4>3, HolderFinite
    <3>5. Holder \ {c} = {} BY <3>4, FS_EmptySet
    <3>6. \A d \in Context : ~acquired'[d] BY <1>0, <1>6, <3>5 DEF StopLast, Holder, FlagTypes
    <3>7. QED BY <1>6, <3>3, <3>6 DEF StopLast, Service
  <2>4. Published'
    BY <1>0, <1>6, Zenon DEF StopLast, Lock, Published
  <2>5. LossNarrows'
    BY <1>0, <1>6, Zenon DEF StopLast, Lock, LossNarrows
  <2>6. QED BY <2>1, <2>2, <2>3, <2>4, <2>5, Zenon DEF BridgeInv
<1>7. ASSUME StartLaunch PROVE BridgeInv'
  <2>1. FlagTypes'
    BY <1>0, <1>7 DEF StartLaunch, Goto, FlagTypes
  <2>2. NumberTypes'
    BY <1>0, <1>7, Zenon DEF StartLaunch, Goto, AgeCap, NumberTypes
  <2>3. Service'
    BY <1>0, <1>7, Zenon DEF StartLaunch, Goto, Holder, Service
  <2>4. Published'
    BY <1>0, <1>7, Zenon DEF StartLaunch, Goto, Published
  <2>5. LossNarrows'
    BY <1>0, <1>7, Zenon DEF StartLaunch, Goto, LossNarrows
  <2>6. QED BY <2>1, <2>2, <2>3, <2>4, <2>5, Zenon DEF BridgeInv
<1>8. ASSUME StartCount PROVE BridgeInv'
  <2>1. FlagTypes'
    BY <1>0, <1>8 DEF StartCount, Goto, FlagTypes
  <2>2. NumberTypes'
    <3>1. mutex \in Context BY <1>0, <1>8, Zenon DEF StartCount, FlagTypes
    <3>2. 1 <= Cardinality(Context) /\ Cardinality(Context) \in Nat
      <4>1. /\ Cardinality(Holder \cup {mutex}) > 0
            /\ Cardinality(Holder \cup {mutex}) <= Cardinality(Context)
            /\ Cardinality(Holder \cup {mutex}) = IF mutex \in Holder THEN Cardinality(Holder)
                                                  ELSE Cardinality(Holder) + 1
        BY <3>1, HolderAdd, Zenon
      <4>2. QED BY <4>1, HolderFinite
    <3>3. QED BY <1>0, <1>8, <3>2 DEF StartCount, Goto, NumberTypes
  <2>3. Service'
    BY <1>0, <1>8, HolderEmpty, HolderFinite, HolderAdd DEF StartCount, Goto, Holder, FlagTypes,
       NumberTypes, Service
  <2>4. Published'
    BY <1>0, <1>8, Zenon DEF StartCount, Goto, Published
  <2>5. LossNarrows'
    BY <1>0, <1>8, Zenon DEF StartCount, Goto, FlagTypes, LossNarrows
  <2>6. QED BY <2>1, <2>2, <2>3, <2>4, <2>5, Zenon DEF BridgeInv
<1>9. ASSUME StartInitial PROVE BridgeInv'
  <2>1. FlagTypes'
    BY <1>0, <1>9, ZenonT(60) DEF StartInitial, Goto, FlagTypes
  <2>2. NumberTypes'
    BY <1>0, <1>9 DEF StartInitial, Goto, AgeCap, NumberTypes
  <2>3. Service'
    BY <1>0, <1>9, Zenon DEF StartInitial, Goto, Holder, Service
  <2>4. Published'
    BY <1>0, <1>9 DEF StartInitial, Goto, FlagTypes, NumberTypes, Published
  <2>5. LossNarrows'
    BY <1>0, <1>9, Zenon DEF StartInitial, Goto, LossNarrows
  <2>6. QED BY <2>1, <2>2, <2>3, <2>4, <2>5, Zenon DEF BridgeInv
<1>10. ASSUME StartRollback PROVE BridgeInv'
  <2>1. FlagTypes'
    BY <1>0, <1>10 DEF StartRollback, Goto, FlagTypes
  <2>2. NumberTypes'
    BY <1>0, <1>10, Zenon DEF StartRollback, Goto, AgeCap, NumberTypes
  <2>3. Service'
    BY <1>0, <1>10, Zenon DEF StartRollback, Goto, Holder, Service
  <2>4. Published'
    BY <1>0, <1>10, Zenon DEF StartRollback, Goto, Published
  <2>5. LossNarrows'
    BY <1>0, <1>10, Zenon DEF StartRollback, Goto, LossNarrows
  <2>6. QED BY <2>1, <2>2, <2>3, <2>4, <2>5, Zenon DEF BridgeInv
<1>11. ASSUME PublishChannel PROVE BridgeInv'
  <2>1. FlagTypes'
    BY <1>0, <1>11 DEF PublishChannel, Goto, None, NoChannel, FlagTypes
  <2>2. NumberTypes'
    BY <1>0, <1>11 DEF PublishChannel, Goto, None, NoChannel, AgeCap, NumberTypes
  <2>3. Service'
    BY <1>0, <1>11, Zenon DEF PublishChannel, Goto, None, NoChannel, Holder, Service
  <2>4. Published'
    BY <1>0, <1>11 DEF PublishChannel, Goto, None, NoChannel, FlagTypes, NumberTypes, Published
  <2>5. LossNarrows'
    BY <1>0, <1>11, Zenon DEF PublishChannel, Goto, None, NoChannel, LossNarrows
  <2>6. QED BY <2>1, <2>2, <2>3, <2>4, <2>5, Zenon DEF BridgeInv
<1>12. ASSUME PublishGate PROVE BridgeInv'
  <2>1. FlagTypes'
    BY <1>0, <1>12, ZenonT(60) DEF PublishGate, Goto, Finish, Unlock, FlagTypes
  <2>2. NumberTypes'
    BY <1>0, <1>12 DEF PublishGate, Goto, Finish, Unlock, AgeCap, NumberTypes
  <2>3. Service'
    <3>1. mutex \in Context /\ pc \in SamplePc BY <1>0, <1>12, Zenon DEF PublishGate, FlagTypes
    <3>2. /\ object = "running" /\ worker = "polling" /\ on
          /\ users = Cardinality(Holder \cup {mutex})
          /\ \A c \in Context : c = mutex \/ acquired[c] => cpuOf[c] = cpu
      BY <1>0, <3>1, Zenon DEF Service
    <3>3. users > 0 BY <3>1, <3>2, HolderAdd, Zenon
    <3>4. ASSUME Finish PROVE Service'
      <4>1. acquired' = [acquired EXCEPT ![mutex] = TRUE] /\ pc' = "free"
            /\ UNCHANGED <<object, worker, users, cpu, on, cpuOf>>
        BY <3>4, Zenon DEF Finish, Unlock
      <4>2. Holder' = Holder \cup {mutex} BY <1>0, <3>1, <4>1 DEF Holder, FlagTypes
      <4>3. \A c \in Context : acquired'[c] => c = mutex \/ acquired[c]
        BY <1>0, <4>1, Zenon DEF FlagTypes
      <4>4. QED BY <3>2, <3>3, <4>1, <4>2, <4>3, Zenon DEF Service
    <3>5. CASE avail BY <1>12, <3>4, <3>5, Zenon DEF PublishGate
    <3>6. CASE ~avail
      <4>1. pc' = "force" /\ UNCHANGED <<mutex, service, contexts>>
        BY <1>12, <3>6, Zenon DEF PublishGate, Goto
      <4>2. Holder' = Holder BY <4>1, Zenon DEF Holder
      <4>3. QED BY <3>2, <4>1, <4>2, Zenon DEF Service
    <3>7. QED BY <3>5, <3>6, Zenon
  <2>4. Published'
    BY <1>0, <1>12, Zenon DEF PublishGate, Goto, Finish, Unlock, FlagTypes, NumberTypes, Service, Published
  <2>5. LossNarrows'
    BY <1>0, <1>12, Zenon DEF PublishGate, Goto, Finish, Unlock, FlagTypes, LossNarrows
  <2>6. QED BY <2>1, <2>2, <2>3, <2>4, <2>5, Zenon DEF BridgeInv
<1>13. ASSUME ForceSSE41 PROVE BridgeInv'
  <2>1. FlagTypes'
    BY <1>0, <1>13, ZenonT(60) DEF ForceSSE41, Finish, Unlock, FlagTypes
  <2>2. NumberTypes'
    BY <1>0, <1>13 DEF ForceSSE41, Finish, Unlock, AgeCap, NumberTypes
  <2>3. Service'
    <3>1. mutex \in Context /\ pc \in SamplePc BY <1>0, <1>13, Zenon DEF ForceSSE41, FlagTypes
    <3>2. /\ object = "running" /\ worker = "polling" /\ on
          /\ users = Cardinality(Holder \cup {mutex})
          /\ \A c \in Context : c = mutex \/ acquired[c] => cpuOf[c] = cpu
      BY <1>0, <3>1, Zenon DEF Service
    <3>3. users > 0 BY <3>1, <3>2, HolderAdd, Zenon
    <3>4. ASSUME Finish PROVE Service'
      <4>1. acquired' = [acquired EXCEPT ![mutex] = TRUE] /\ pc' = "free"
            /\ UNCHANGED <<object, worker, users, cpu, on, cpuOf>>
        BY <3>4, Zenon DEF Finish, Unlock
      <4>2. Holder' = Holder \cup {mutex} BY <1>0, <3>1, <4>1, Zenon DEF Holder, FlagTypes
      <4>3. \A c \in Context : acquired'[c] => c = mutex \/ acquired[c]
        BY <1>0, <4>1, Zenon DEF FlagTypes
      <4>4. QED BY <3>2, <3>3, <4>1, <4>2, <4>3, Zenon DEF Service
    <3>5. QED BY <1>13, <3>4, Zenon DEF ForceSSE41
  <2>4. Published'
    BY <1>0, <1>13, Zenon DEF ForceSSE41, Finish, Unlock, FlagTypes, NumberTypes, Service,
       Published
  <2>5. LossNarrows'
    BY <1>0, <1>13, Zenon DEF ForceSSE41, Finish, Unlock, LossNarrows
  <2>6. QED BY <2>1, <2>2, <2>3, <2>4, <2>5, Zenon DEF BridgeInv
<1>14. ASSUME SampleCopy PROVE BridgeInv'
  <2>1. FlagTypes'
    BY <1>0, <1>14 DEF SampleCopy, Fresh, Goto, FlagTypes
  <2>2. NumberTypes'
    BY <1>0, <1>14, Zenon DEF SampleCopy, Fresh, Goto, AgeCap, NumberTypes
  <2>3. Service'
    BY <1>0, <1>14, Zenon DEF SampleCopy, Fresh, Goto, Holder, Service
  <2>4. Published'
    <3>1. /\ pc' = "publish" /\ UNCHANGED <<raw, channel, held, on, threw>>
      BY <1>14, Zenon DEF SampleCopy, Goto
    <3>2. avail' => raw.value # "none" /\ raw.age <= Window BY <1>14, Zenon DEF SampleCopy, Fresh
    <3>3. raw.age \in Nat /\ held \in Nat BY <1>0 DEF NumberTypes, AgeCap
    <3>4. avail' => raw'.value # "none" /\ raw'.age <= Window + held' BY <3>1, <3>2, <3>3
    <3>5. QED BY <1>0, <3>1, <3>4 DEF Published
  <2>5. LossNarrows'
    BY <1>0, <1>14, Zenon DEF SampleCopy, Fresh, Goto, LossNarrows
  <2>6. QED BY <2>1, <2>2, <2>3, <2>4, <2>5, Zenon DEF BridgeInv
<1>15. ASSUME Join PROVE BridgeInv'
  <2>1. FlagTypes'
    BY <1>0, <1>15 DEF Join, Goto, FlagTypes
  <2>2. NumberTypes'
    BY <1>0, <1>15, Zenon DEF Join, Goto, AgeCap, NumberTypes
  <2>3. Service'
    BY <1>0, <1>15, Zenon DEF Join, Goto, Holder, Service
  <2>4. Published'
    BY <1>0, <1>15, Zenon DEF Join, Goto, Published
  <2>5. LossNarrows'
    BY <1>0, <1>15, Zenon DEF Join, Goto, LossNarrows
  <2>6. QED BY <2>1, <2>2, <2>3, <2>4, <2>5, Zenon DEF BridgeInv
<1>16. ASSUME Reset PROVE BridgeInv'
  <2>1. FlagTypes'
    BY <1>0, <1>16, Zenon DEF Reset, Goto, None, NoChannel, FlagTypes
  <2>2. NumberTypes'
    BY <1>0, <1>16, HolderFinite DEF Reset, Goto, None, NoChannel, AgeCap, FlagTypes, NumberTypes
  <2>3. Service'
    BY <1>0, <1>16, Zenon DEF Reset, Goto, None, NoChannel, Holder, Service
  <2>4. Published'
    BY <1>0, <1>16, Zenon DEF Reset, Goto, None, NoChannel, Published
  <2>5. LossNarrows'
    BY <1>0, <1>16, Zenon DEF Reset, Goto, None, NoChannel, LossNarrows
  <2>6. QED BY <2>1, <2>2, <2>3, <2>4, <2>5, Zenon DEF BridgeInv
<1>17. ASSUME OpenGate PROVE BridgeInv'
  <2>1. FlagTypes'
    BY <1>0, <1>17 DEF OpenGate, Goto, FlagTypes
  <2>2. NumberTypes'
    BY <1>0, <1>17, Zenon DEF OpenGate, Goto, AgeCap, NumberTypes
  <2>3. Service'
    BY <1>0, <1>17, Zenon DEF OpenGate, Goto, Holder, Service
  <2>4. Published'
    BY <1>0, <1>17, Zenon DEF OpenGate, Goto, Published
  <2>5. LossNarrows'
    BY <1>0, <1>17, Zenon DEF OpenGate, Goto, LossNarrows
  <2>6. QED BY <2>1, <2>2, <2>3, <2>4, <2>5, Zenon DEF BridgeInv
<1>18. ASSUME ClearChannel PROVE BridgeInv'
  <2>1. FlagTypes'
    BY <1>0, <1>18, ZenonT(60) DEF ClearChannel, Unlock, None, NoChannel, FlagTypes
  <2>2. NumberTypes'
    BY <1>0, <1>18 DEF ClearChannel, Unlock, None, NoChannel, AgeCap, NumberTypes
  <2>3. Service'
    BY <1>0, <1>18, HolderEmpty, Zenon DEF ClearChannel, Unlock, None, NoChannel, Holder,
       FlagTypes, Service
  <2>4. Published'
    BY <1>0, <1>18, Zenon DEF ClearChannel, Unlock, None, NoChannel, Published
  <2>5. LossNarrows'
    BY <1>0, <1>18, Zenon DEF ClearChannel, Unlock, None, NoChannel, FlagTypes, NumberTypes,
       Service, LossNarrows
  <2>6. QED BY <2>1, <2>2, <2>3, <2>4, <2>5, Zenon DEF BridgeInv
<1>19. ASSUME WorkerExit PROVE BridgeInv'
  <2>1. FlagTypes'
    BY <1>0, <1>19 DEF WorkerExit, FlagTypes
  <2>2. NumberTypes'
    BY <1>0, <1>19, Zenon DEF WorkerExit, AgeCap, NumberTypes
  <2>3. Service'
    BY <1>0, <1>19, Zenon DEF WorkerExit, Holder, Service
  <2>4. Published'
    BY <1>0, <1>19, Zenon DEF WorkerExit, Published
  <2>5. LossNarrows'
    BY <1>0, <1>19, Zenon DEF WorkerExit, LossNarrows
  <2>6. QED BY <2>1, <2>2, <2>3, <2>4, <2>5, Zenon DEF BridgeInv
<1>20. ASSUME Tick PROVE BridgeInv'
  <2>1. FlagTypes'
    BY <1>0, <1>20 DEF Tick, FlagTypes
  <2>2. NumberTypes'
    <3>1. /\ UNCHANGED <<mutex, pc, avail, service, gate, threw>>
          /\ raw' = IF raw.value = "none" THEN raw ELSE [raw EXCEPT !.age = Older(raw.age)]
          /\ channel' = IF channel.value = "none" THEN channel
                        ELSE [channel EXCEPT !.age = Older(channel.age), !.stamp = Older(channel.stamp)]
      BY <1>20, Zenon DEF Tick
    <3>2. /\ raw \in [value : {"none", "cool", "hot"}, age : 0 .. AgeCap]
          /\ channel \in [value : {"none", "cool", "hot"}, age : 0 .. AgeCap, stamp : 0 .. AgeCap]
          /\ held \in 0 .. MaxHold /\ AgeCap \in Nat
      BY <1>0 DEF NumberTypes, AgeCap
    <3>3. raw' \in [value : {"none", "cool", "hot"}, age : 0 .. AgeCap] BY <3>1, <3>2, OlderType
    <3>4. channel' \in [value : {"none", "cool", "hot"}, age : 0 .. AgeCap, stamp : 0 .. AgeCap]
      BY <3>1, <3>2, OlderType, Zenon
    <3>5. held' \in 0 .. MaxHold BY <1>20, <3>2 DEF Tick
    <3>6. QED BY <1>0, <3>1, <3>3, <3>4, <3>5 DEF NumberTypes
  <2>3. Service'
    BY <1>0, <1>20, Zenon DEF Tick, Holder, Service
  <2>4. Published'
    <3>1. /\ UNCHANGED <<mutex, pc, avail, service, gate, threw>>
          /\ raw' = IF raw.value = "none" THEN raw ELSE [raw EXCEPT !.age = Older(raw.age)]
          /\ channel' = IF channel.value = "none" THEN channel
                        ELSE [channel EXCEPT !.age = Older(channel.age), !.stamp = Older(channel.stamp)]
      BY <1>20, Zenon DEF Tick
    <3>2. /\ raw \in [value : {"none", "cool", "hot"}, age : 0 .. AgeCap]
          /\ channel \in [value : {"none", "cool", "hot"}, age : 0 .. AgeCap, stamp : 0 .. AgeCap]
          /\ held \in 0 .. MaxHold /\ AgeCap \in Nat
      BY <1>0 DEF NumberTypes, AgeCap
    <3>3. channel'.value = channel.value /\ raw'.value = raw.value BY <3>1, <3>2
    <3>4. channel'.value # "none" => channel'.age <= Window + MaxHold + channel'.stamp
      <4> SUFFICES ASSUME channel.value # "none"
                   PROVE  Older(channel.age) <= Window + MaxHold + Older(channel.stamp)
        BY <3>1, <3>2, Zenon
      <4>1. channel.age <= Window + MaxHold + channel.stamp BY <1>0, Zenon DEF Published
      <4>2. channel.age \in 0 .. AgeCap /\ channel.stamp \in 0 .. AgeCap BY <3>2, Zenon
      <4>3. QED BY <4>1, <4>2 DEF Older, AgeCap
    <3>5. pc = "publish" /\ avail => raw.value # "none" /\ raw'.age <= Window + held'
      <4> SUFFICES ASSUME pc = "publish", avail
                   PROVE  raw.value # "none" /\ raw'.age <= Window + held'
        BY Zenon
      <4>1. raw.value # "none" /\ raw.age <= Window + held BY <1>0, Zenon DEF Published
      <4>2. held' = held + 1 BY <1>0, <1>20, Zenon DEF Tick, FlagTypes
      <4>3. raw.age \in 0 .. AgeCap /\ raw'.age = Older(raw.age) BY <3>1, <3>2, <4>1, Zenon
      <4>4. raw'.age <= raw.age + 1 /\ raw'.age \in Nat BY <3>2, <4>3, OlderType
      <4>5. QED BY <3>2, <4>1, <4>2, <4>3, <4>4
    <3>6. QED BY <1>0, <3>1, <3>3, <3>4, <3>5 DEF Published
  <2>5. LossNarrows'
    BY <1>0, <1>20, Zenon DEF Tick, LossNarrows
  <2>6. QED BY <2>1, <2>2, <2>3, <2>4, <2>5, Zenon DEF BridgeInv
<1>21. ASSUME SelectElsewhere PROVE BridgeInv'
  <2>1. FlagTypes'
    BY <1>0, <1>21, ZenonT(60) DEF SelectElsewhere, Authorized, FlagTypes, NumberTypes, Service
  <2>2. NumberTypes'
    BY <1>0, <1>21, Zenon DEF SelectElsewhere, Authorized, AgeCap, NumberTypes
  <2>3. Service'
    BY <1>0, <1>21, Zenon DEF SelectElsewhere, Authorized, Holder, Service
  <2>4. Published'
    BY <1>0, <1>21, Zenon DEF SelectElsewhere, Authorized, Published
  <2>5. LossNarrows'
    BY <1>0, <1>21, Zenon DEF SelectElsewhere, Authorized, LossNarrows
  <2>6. QED BY <2>1, <2>2, <2>3, <2>4, <2>5, Zenon DEF BridgeInv
<1>22. CASE UNCHANGED vars
  <2>1. FlagTypes'
    BY <1>0, <1>22 DEF vars, FlagTypes
  <2>2. NumberTypes'
    BY <1>0, <1>22, Zenon DEF vars, AgeCap, NumberTypes
  <2>3. Service'
    BY <1>0, <1>22, Zenon DEF vars, Holder, Service
  <2>4. Published'
    BY <1>0, <1>22, Zenon DEF vars, Published
  <2>5. LossNarrows'
    BY <1>0, <1>22, Zenon DEF vars, LossNarrows
  <2>6. QED BY <2>1, <2>2, <2>3, <2>4, <2>5, Zenon DEF BridgeInv
<1>23. QED
  BY <1>1, <1>2, <1>3, <1>4, <1>5, <1>6, <1>7, <1>8, <1>9, <1>10, <1>11, <1>12, <1>13, <1>14,
     <1>15, <1>16, <1>17, <1>18, <1>19, <1>20, <1>21, <1>22, Zenon DEF Next, CallStep

LEMMA BridgeInvariant == Spec => []BridgeInv
BY BridgeInit, BridgeStep, PTL DEF Spec

\* The service's state keeps its types (fusion_bridge.cpp's globals).
THEOREM BridgeTypes == Spec => []TypeOK
<1>1. BridgeInv => TypeOK BY Zenon DEF BridgeInv, FlagTypes, NumberTypes, TypeOK
<1>2. QED BY <1>1, BridgeInvariant, PTL

\* Between calls the count is the number of contexts that hold the service, all for its
\* CPU, and the polling thread runs exactly as long as one does (start_unlocked,
\* rollback_start_unlocked, tsd_telemetry_fusion_stop).
THEOREM ExactUsers == Spec => []UsersCounted
<1>1. BridgeInv => UsersCounted
  <2> SUFFICES ASSUME BridgeInv, mutex = Nobody
               PROVE  /\ users = Cardinality(Holder)
                      /\ users > 0 <=> object = "running" /\ worker = "polling" /\ on
                      /\ users = 0 <=> object = "absent" /\ worker = "none" /\ ~on
                      /\ \A c \in Context : acquired[c] => cpuOf[c] = cpu
    BY Zenon DEF UsersCounted, Holder
  <2>1. pc = "free" /\ Service BY Zenon DEF BridgeInv, FlagTypes
  <2>2. users \in Nat BY HolderFinite DEF BridgeInv, NumberTypes
  <2>3. QED BY <2>1, <2>2 DEF Service
<1>2. QED BY <1>1, BridgeInvariant, PTL

\* What authorizes a wide width is at most two windows and a call old, and between calls
\* it is the newest raw reading (copy_raw_cache_unlocked,
\* update_temperature_observability_unlocked, raw_temperature_upgrade_allowed).
THEOREM CurrentAuthority == Spec => []AuthorityIsCurrent
<1>1. BridgeInv => AuthorityIsCurrent
  <2> SUFFICES ASSUME BridgeInv, Authorized
               PROVE  /\ mutex = Nobody /\ ~threw => on /\ raw.value = "cool"
                      /\ channel.age <= 2 * Window + MaxHold
    BY Zenon DEF AuthorityIsCurrent
  <2>0. FlagTypes /\ NumberTypes /\ Published BY Zenon DEF BridgeInv
  <2>1. channel.value = "cool" /\ channel.stamp <= Window BY Zenon DEF Authorized
  <2>2. mutex = Nobody /\ ~threw => on /\ raw.value = "cool"
    BY <2>0, <2>1, Zenon DEF FlagTypes, Published
  <2>3. channel.age \in Nat /\ channel.stamp \in Nat BY <2>0 DEF NumberTypes, AgeCap
  <2>4. channel.age <= Window + MaxHold + channel.stamp BY <2>0, <2>1 DEF Published
  <2>5. channel.age <= 2 * Window + MaxHold BY <2>1, <2>3, <2>4
  <2>6. QED BY <2>2, <2>5
<1>2. QED BY <1>1, BridgeInvariant, PTL

\* When the raw temperature is lost, no wider selection survives the call that noticed
\* it, unless the forced selection failed (update_temperature_gate_unlocked).
THEOREM NarrowedOnLoss == Spec => []LossNarrows
<1>1. BridgeInv => LossNarrows BY Zenon DEF BridgeInv
<1>2. QED BY <1>1, BridgeInvariant, PTL

----------------------------------------------------------------------------
(* The temperature helper: the inductive invariant.                        *)

\* Where a call is in progress, and what it has found out.
CallState ==
  /\ ~ready => place \in {"idle", "scan"} /\ "msr" \notin open
  /\ ~ready /\ place = "scan" => open = {} /\ \A x \in Source : retry[x] = FreshRetry
  /\ place = "scan" => sensor = NoSensor
  /\ place = "readtemp" => sensor # NoSensor
  /\ place = "readmsr" => "msr" \in open
  /\ place = "readcpufreq" => "cpufreq" \in open

Descriptors == fds = IF "msr" \in open THEN 1 ELSE 0

Retries ==
  ready => /\ sensor # NoSensor => retry["temp"] = FreshRetry
           /\ \A x \in open : retry[x] = FreshRetry

\* A candidate at least as good as s: the fold's order.
NoBetter(s, best) ==
  LET score == CandidateScore(s, host.package)
      explicit == Mentions(s, host.package)
  IN  /\ score <= best.score
      /\ score = best.score => /\ explicit => best.explicit
                               /\ s # best.sensor /\ explicit = best.explicit => best.ambiguous

\* The best candidate so far is one that answered, and no other that did is better;
\* one that is as good has been noticed.
BestSoFar ==
  /\ scan.seen \cap scan.todo = {}
  /\ scan.best.sensor = NoSensor => scan.best = NoBest /\ scan.seen = {}
  /\ scan.best.sensor # NoSensor =>
       /\ scan.best.sensor \in scan.seen
       /\ scan.best.score = CandidateScore(scan.best.sensor, host.package)
       /\ scan.best.explicit = Mentions(scan.best.sensor, host.package)
  /\ \A s \in scan.seen : NoBetter(s, scan.best)

\* On a host with several packages only a sensor labelled with the CPU's is trusted.
Trusted(s) == host.packages > 1 /\ s # NoSensor => Mentions(s, host.package)

TelemetryInv ==
  /\ TelemetryTypeOK /\ CallState /\ Descriptors /\ Retries /\ BestSoFar
  /\ Trusted(sensor) /\ Trusted(out.temp)

\* Scores are numbers.
LEMMA ScoreNumber ==
  ASSUME NEW h \in Hosts, NEW s \in Candidates(h)
  PROVE  CandidateScore(s, h.package) \in Nat
<1>1. s \in Sensors /\ s.driver \in Drivers /\ s.word \in Words
  BY HostsAssumption DEF Candidates, Sensors
<1>2. DriverScore[s.driver] \in Nat BY <1>1 DEF DriverScore, Drivers
<1>3. WordScore[s.word] \in Nat BY <1>1 DEF WordScore, Words
<1>4. QED BY <1>2, <1>3 DEF CandidateScore

\* A label that mentions the CPU's package carries its number, or one that begins
\* with the same digits.
LEMMA MentionedIsOwn ==
  ASSUME NEW h \in Hosts, NEW s \in Candidates(h), Mentions(s, h.package)
  PROVE  s.home = h.package \/ BeginsWith(s.home, h.package)
<1>1. h.package >= 0 /\ (s.id = h.package \/ BeginsWith(s.id, h.package))
  BY Zenon DEF Mentions
<1>2. s.id # -1
  <2>1. h.package \in Int BY HostsAssumption, Zenon
  <2>2. CASE s.id = h.package BY <1>1, <2>1, <2>2
  <2>3. CASE BeginsWith(s.id, h.package)
    <3>1. h.package > 0 /\ s.id > h.package BY <2>3, Zenon DEF BeginsWith
    <3>2. QED BY <2>1, <3>1
  <2>4. QED BY <1>1, <2>2, <2>3, Zenon
<1>3. s.id \in {-1, s.home} BY LabelsAssumption, Zenon DEF Candidates
<1>4. s.id = s.home BY <1>2, <1>3, Zenon
<1>5. QED BY <1>1, <1>4, Zenon

\* The initial delay is in range.
LEMMA FreshType == FreshRetry \in RetryState
BY BackoffAssumption DEF FreshRetry, RetryState

\* However often it doubles, so is a scheduled one.
LEMMA ScheduledType == ASSUME NEW r \in RetryState PROVE Scheduled(r) \in RetryState
BY BackoffAssumption DEF Scheduled, Capped, RetryState

Passed(r) == [r EXCEPT !.wait = IF @ > 0 THEN @ - 1 ELSE 0]

\* A second that passes keeps a delay in range and a fresh one fresh.
LEMMA PassedType ==
  /\ \A r \in RetryState : Passed(r) \in RetryState
  /\ Passed(FreshRetry) = FreshRetry
<1>1. \A r \in RetryState : Passed(r) \in RetryState BY BackoffAssumption DEF Passed, RetryState
<1>2. Passed(FreshRetry) = FreshRetry BY DEF Passed, FreshRetry
<1>3. QED BY <1>1, <1>2, Zenon

\* schedule_retry and reset_retry leave the other sources alone.
LEMMA RetryKept ==
  ASSUME NEW x \in Source, retry \in [Source -> RetryState], Schedule(x) \/ ResetRetry(x)
  PROVE  /\ retry' \in [Source -> RetryState]
         /\ \A y \in Source \ {x} : retry'[y] = retry[y]
         /\ ResetRetry(x) => retry'[x] = FreshRetry
<1>1. retry[x] \in RetryState BY Zenon
<1>2. PICK r \in RetryState : retry' = [retry EXCEPT ![x] = r] /\ (ResetRetry(x) => r = FreshRetry)
  <2>1. CASE Schedule(x) /\ ~ResetRetry(x) BY <1>1, <2>1, ScheduledType, Zenon DEF Schedule
  <2>2. CASE ResetRetry(x) BY <2>2, FreshType, Zenon DEF ResetRetry
  <2>3. QED BY <2>1, <2>2, Zenon
<1>3. QED BY <1>2, Zenon

\* A ratio source that comes into use has a fresh retry; one that is given up, or was
\* not there, has one scheduled.
LEMMA RetriesKept ==
  ASSUME TelemetryTypeOK, Retries, ready' = ready, sensor' = sensor, NEW x \in Ratios,
         \/ ResetRetry(x) /\ open' = open \cup {x}
         \/ Schedule(x) /\ open' = open \ {x}
  PROVE  Retries'
<1>1. retry \in [Source -> RetryState] /\ open \subseteq Ratios BY Zenon DEF TelemetryTypeOK
<1>2. x \in Source /\ "temp" \in Source \ {x} /\ Ratios \subseteq Source
  BY Zenon DEF Source, Ratios
<1>3. /\ \A y \in Source \ {x} : retry'[y] = retry[y]
      /\ ResetRetry(x) => retry'[x] = FreshRetry
  BY <1>1, <1>2, RetryKept, Zenon
<1>4. ASSUME ready, NEW y \in open' PROVE retry'[y] = FreshRetry
  BY <1>1, <1>2, <1>3, <1>4, Zenon DEF Retries
<1>5. QED BY <1>2, <1>3, <1>4, Zenon DEF Retries

\* So it is for the temperature: a sensor comes with a fresh retry, its loss with a
\* scheduled one.
LEMMA TempRetryKept ==
  ASSUME TelemetryTypeOK, Retries, ready' = ready, open' = open,
         ResetRetry("temp") \/ (Schedule("temp") /\ sensor' = NoSensor)
  PROVE  Retries'
<1>1. retry \in [Source -> RetryState] /\ open \subseteq Ratios BY Zenon DEF TelemetryTypeOK
<1>2. "temp" \in Source /\ Ratios \subseteq Source \ {"temp"} BY Zenon DEF Source, Ratios
<1>3. /\ \A y \in Source \ {"temp"} : retry'[y] = retry[y]
      /\ ResetRetry("temp") => retry'["temp"] = FreshRetry
  BY <1>1, <1>2, RetryKept, Zenon
<1>4. ASSUME ready, NEW y \in open' PROVE retry'[y] = FreshRetry
  BY <1>1, <1>2, <1>3, <1>4, Zenon DEF Retries
<1>5. QED BY <1>3, <1>4, Zenon DEF Retries

\* Considering one more candidate keeps the best so far.
LEMMA ConsiderBest ==
  ASSUME TelemetryTypeOK, BestSoFar, NEW s \in scan.todo, host' = host,
         scan'.best = Consider(scan.best, s, host.package),
         scan'.todo = scan.todo \ {s}, scan'.seen = scan.seen \cup {s}
  PROVE  BestSoFar' /\ scan'.best \in BestType
<1> DEFINE b == scan.best
           n == Consider(scan.best, s, host.package)
           score(r) == CandidateScore(r, host.package)
           label(r) == Mentions(r, host.package)
<1>1. /\ s \in Candidates(host) /\ s # NoSensor /\ score(s) \in Nat
      /\ \A r \in scan.seen : score(r) \in Nat
      /\ b \in BestType /\ b.score \in Int
  <2>1. b \in BestType /\ scan.todo \subseteq Candidates(host) /\ scan.seen \subseteq Candidates(host)
    BY Zenon DEF TelemetryTypeOK, ScanType
  <2>2. host \in Hosts BY Zenon DEF TelemetryTypeOK
  <2>3. b.score \in Int BY <2>1, Zenon DEF BestType
  <2>4. s # NoSensor BY <2>1, <2>2, HostsAssumption, Zenon DEF Candidates
  <2>5. QED BY <2>1, <2>2, <2>3, <2>4, ScoreNumber, Zenon
<1>2. s \notin scan.seen BY Zenon DEF BestSoFar
<1>3. CASE score(s) > b.score \/ (score(s) = b.score /\ label(s) /\ ~b.explicit)
  <2>1. n = [sensor |-> s, score |-> score(s), explicit |-> label(s), ambiguous |-> FALSE]
    BY <1>3, Zenon DEF Consider
  <2>2. n.sensor = s /\ n.score = score(s) /\ n.explicit = label(s) /\ n.ambiguous = FALSE
    BY <2>1
  <2>3. ASSUME NEW r \in scan.seen PROVE NoBetter(r, n)
    <3>1. NoBetter(r, b) BY Zenon DEF BestSoFar
    <3>2. score(r) <= b.score /\ (score(r) = b.score => (label(r) => b.explicit))
      BY <3>1, Zenon DEF NoBetter
    <3>3. score(r) <= score(s) BY <1>1, <1>3, <3>2, SMTT(30)
    <3>4. score(r) = score(s) => b.score = score(s) /\ label(s) /\ ~b.explicit /\ ~label(r)
      BY <1>1, <1>3, <3>2, SMTT(30)
    <3>5. QED BY <2>2, <3>3, <3>4, Zenon DEF NoBetter
  <2>4. NoBetter(s, n) BY <1>1, <2>2 DEF NoBetter
  <2>5. label(s) \in BOOLEAN BY Zenon DEF Mentions
  <2>6. n \in BestType BY <1>1, <2>1, <2>5 DEF BestType
  <2>7. QED BY <1>1, <1>2, <2>2, <2>3, <2>4, <2>6, Zenon DEF BestSoFar, NoBetter
<1>4. CASE ~(score(s) > b.score \/ (score(s) = b.score /\ label(s) /\ ~b.explicit))
  <2>0. b.sensor # NoSensor
    <3>1. SUFFICES ASSUME b = NoBest PROVE FALSE BY Zenon DEF BestSoFar
    <3>2. b.score = -1 BY <3>1 DEF NoBest
    <3>3. QED BY <1>1, <1>4, <3>2
  <2>1. n = [b EXCEPT !.ambiguous = @ \/ (score(s) = b.score /\ label(s) = b.explicit)]
    BY <1>4, Zenon DEF Consider
  <2>2. /\ n \in BestType
        /\ n.sensor = b.sensor /\ n.score = b.score /\ n.explicit = b.explicit
        /\ n.ambiguous = (b.ambiguous \/ (score(s) = b.score /\ label(s) = b.explicit))
    BY <1>1, <2>1, Zenon DEF BestType
  <2>3. ASSUME NEW r \in scan.seen PROVE NoBetter(r, n)
    <3>1. NoBetter(r, b) BY Zenon DEF BestSoFar
    <3>2. QED BY <2>2, <3>1, ZenonT(60) DEF NoBetter
  <2>4. score(s) <= b.score BY <1>1, <1>4
  <2>5. NoBetter(s, n) BY <1>4, <2>2, <2>4, Zenon DEF NoBetter
  <2>6. QED BY <1>2, <2>0, <2>2, <2>3, <2>5, ZenonT(60) DEF BestSoFar, NoBetter
<1>5. QED BY <1>3, <1>4, Zenon

\* A detection that has not begun, or that begins, has considered nobody.
LEMMA ScanFresh ==
  ASSUME NEW todo \in SUBSET Candidates(host), host' = host,
         scan' = [best |-> NoBest, todo |-> todo, seen |-> {}]
  PROVE  BestSoFar' /\ scan' \in ScanType'
<1>1. scan'.best = NoBest /\ scan'.seen = {} BY Zenon
<1>2. NoBest.sensor = NoSensor BY DEF NoBest
<1>3. NoBest \in BestType BY DEF NoBest, BestType
<1>4. scan' \in ScanType BY <1>3, Zenon DEF ScanType
<1>5. QED BY <1>1, <1>2, <1>4, Zenon DEF BestSoFar, ScanType, BestType

\* A step that is not of the scan leaves what it has found.
LEMMA ScanKept ==
  ASSUME BestSoFar, scan \in ScanType, host' = host, scan' = scan
  PROVE  BestSoFar' /\ scan' \in ScanType'
BY Zenon DEF BestSoFar, NoBetter, ScanType, BestType

\* The scan considers one more candidate.
LEMMA ScanStep ==
  ASSUME TelemetryTypeOK, BestSoFar, ScanCandidate
  PROVE  BestSoFar' /\ scan' \in ScanType'
<1>0. host' = host /\ scan \in ScanType BY Zenon DEF ScanCandidate, TelemetryTypeOK, ScanType
<1>1. PICK s \in scan.todo :
        scan' = IF s \in up /\ Offers(host, s)
                THEN [best |-> Consider(scan.best, s, host.package),
                      todo |-> scan.todo \ {s}, seen |-> scan.seen \cup {s}]
                ELSE [scan EXCEPT !.todo = @ \ {s}]
  BY Zenon DEF ScanCandidate
<1>2. scan.todo \subseteq Candidates(host) /\ scan.seen \subseteq Candidates(host)
  BY <1>0, Zenon DEF ScanType
<1>3. CASE s \in up /\ Offers(host, s)
  <2>1. scan' = [best |-> Consider(scan.best, s, host.package),
                 todo |-> scan.todo \ {s}, seen |-> scan.seen \cup {s}]
    BY <1>1, <1>3, Zenon
  <2>2. /\ scan'.best = Consider(scan.best, s, host.package)
        /\ scan'.todo = scan.todo \ {s} /\ scan'.seen = scan.seen \cup {s}
    BY <2>1, Zenon
  <2>3. BestSoFar' /\ scan'.best \in BestType BY <1>0, <2>2, ConsiderBest, Zenon
  <2>4. scan' \in ScanType BY <1>2, <2>1, <2>2, <2>3, Zenon DEF ScanType
  <2>5. QED BY <1>0, <2>3, <2>4, Zenon DEF ScanType, BestType
<1>4. CASE ~(s \in up /\ Offers(host, s))
  <2>1. scan' = [scan EXCEPT !.todo = @ \ {s}] BY <1>1, <1>4, Zenon
  <2>2. scan' \in ScanType /\ scan'.best = scan.best /\ scan'.seen = scan.seen /\ scan'.todo = scan.todo \ {s}
    BY <1>0, <1>2, <2>1, Zenon DEF ScanType
  <2>3. QED BY <1>0, <2>2, Zenon DEF BestSoFar, NoBetter, ScanType, BestType
<1>5. QED BY <1>3, <1>4, Zenon

\* The accepted sensor is the best candidate, and on a host with several packages it
\* is labelled with the CPU's.
LEMMA AcceptedBest ==
  ASSUME TelemetryInv
  PROVE  /\ Accepted(host, scan.best) \in Candidates(host) \cup {NoSensor}
         /\ Trusted(Accepted(host, scan.best))
<1>1. scan.best.sensor \in Candidates(host) \cup {NoSensor}
  BY Zenon DEF TelemetryInv, TelemetryTypeOK, ScanType, BestType
<1>2. scan.best.sensor # NoSensor => scan.best.explicit = Mentions(scan.best.sensor, host.package)
  BY Zenon DEF TelemetryInv, BestSoFar
<1>3. QED BY <1>1, <1>2, Zenon DEF Accepted, Trusted

\* No helper runs at first, and nothing is open.
LEMMA TelemetryStart == TelemetryInit => TelemetryInv
<1> SUFFICES ASSUME TelemetryInit PROVE TelemetryInv BY Zenon
<1> USE DEF TelemetryInit
<1>1. NoScan.best = NoBest /\ NoScan.seen = {} /\ NoScan.todo = {} BY Zenon DEF NoScan
<1>2. NoBest.sensor = NoSensor /\ NoBest \in BestType BY DEF NoBest, BestType
<1>3. NoScan \in ScanType BY <1>2, Zenon DEF NoScan, ScanType
<1>4. BestSoFar BY <1>1, <1>2, Zenon DEF BestSoFar
<1>5. out.temp = NoSensor BY Zenon DEF NoData
<1>6. out \in [temp : Candidates(host) \cup {NoSensor}, ratio : Ratios \cup {"none"}]
  BY Zenon DEF NoData
<1>7. retry \in [Source -> RetryState] BY FreshType, Zenon
<1>8. fds \in Nat /\ Descriptors BY DEF Descriptors
<1>9. TelemetryTypeOK BY <1>3, <1>6, <1>7, <1>8, Zenon DEF TelemetryTypeOK, Ratios
<1>10. QED BY <1>4, <1>5, <1>8, <1>9, Zenon DEF TelemetryInv, CallState, Retries, Trusted

\* Every step of the helper, the clock and the sensor files keeps the invariant.
LEMMA TelemetryStep == TelemetryInv /\ [TelemetryNext]_telemetryVars => TelemetryInv'
<1> SUFFICES ASSUME TelemetryInv, [TelemetryNext]_telemetryVars PROVE TelemetryInv' BY Zenon
<1>0. /\ TelemetryTypeOK /\ CallState /\ Descriptors /\ Retries /\ BestSoFar
      /\ Trusted(sensor) /\ Trusted(out.temp)
  BY Zenon DEF TelemetryInv
<1>1. CASE HelperInit
  <2>1. host' = host /\ host \in Hosts
    BY <1>0, <1>1, Zenon DEF HelperInit, StartScan, NoData, TelemetryTypeOK
  <2>2. BestSoFar' /\ scan' \in ScanType'
    BY <1>0, <1>1, <2>1, ScanFresh, Zenon
       DEF HelperInit, StartScan, NoData, TelemetryTypeOK, NoScan
  <2>3. retry' \in [Source -> RetryState]
    BY <1>0, <1>1, FreshType, Zenon
       DEF HelperInit, StartScan, NoData, TelemetryTypeOK, Source, Ratios
  <2>4. Descriptors' /\ fds' \in Nat
    BY <1>0, <1>1 DEF HelperInit, StartScan, NoData, Descriptors, TelemetryTypeOK, CallState
  <2>5. TelemetryTypeOK'
    BY <1>0, <1>1, <2>1, <2>2, <2>3, <2>4, AcceptedBest, Zenon
       DEF HelperInit, StartScan, NoData, TelemetryTypeOK, Ratios
  <2>6. CallState' BY <1>0, <1>1, Zenon DEF HelperInit, StartScan, NoData, CallState
  <2>7. Retries'
    BY <1>0, <1>1, FreshType, Zenon
       DEF HelperInit, StartScan, NoData, Retries, CallState, TelemetryTypeOK, Source, Ratios
  <2>8. Trusted(sensor)' /\ Trusted(out.temp)'
    BY <1>0, <1>1, <2>1, AcceptedBest, Zenon DEF HelperInit, StartScan, NoData, Trusted
  <2>9. QED BY <2>2, <2>4, <2>5, <2>6, <2>7, <2>8, Zenon DEF TelemetryInv
<1>2. CASE HelperReady
  <2>1. host' = host /\ host \in Hosts BY <1>0, <1>2, Zenon DEF HelperReady, TelemetryTypeOK
  <2>2. BestSoFar' /\ scan' \in ScanType'
    BY <1>0, <1>2, <2>1, ScanFresh, Zenon DEF HelperReady, TelemetryTypeOK, NoScan
  <2>3. retry' \in [Source -> RetryState]
    BY <1>0, <1>2, ScheduledType, ZenonT(60) DEF HelperReady, TelemetryTypeOK, Source, Ratios
  <2>4. Descriptors' /\ fds' \in Nat
    BY <1>0, <1>2 DEF HelperReady, Descriptors, TelemetryTypeOK, CallState
  <2>5. TelemetryTypeOK'
    BY <1>0, <1>2, <2>1, <2>2, <2>3, <2>4, AcceptedBest, Zenon
       DEF HelperReady, TelemetryTypeOK, Ratios
  <2>6. CallState' BY <1>0, <1>2, Zenon DEF HelperReady, CallState
  <2>7. Retries'
    BY <1>0, <1>2, ScheduledType, ZenonT(60)
       DEF HelperReady, Retries, CallState, TelemetryTypeOK, Source, Ratios
  <2>8. Trusted(sensor)' /\ Trusted(out.temp)'
    BY <1>0, <1>2, <2>1, AcceptedBest, Zenon DEF HelperReady, Trusted
  <2>9. QED BY <2>2, <2>4, <2>5, <2>6, <2>7, <2>8, Zenon DEF TelemetryInv
<1>3. CASE HelperDestroy
  <2>1. host' = host /\ host \in Hosts BY <1>0, <1>3, Zenon DEF HelperDestroy, TelemetryTypeOK
  <2>2. BestSoFar' /\ scan' \in ScanType'
    BY <1>0, <1>3, <2>1, ScanKept, Zenon DEF HelperDestroy, TelemetryTypeOK, NoScan
  <2>3. retry' \in [Source -> RetryState]
    BY <1>0, <1>3, Zenon DEF HelperDestroy, TelemetryTypeOK, Source, Ratios
  <2>4. Descriptors' /\ fds' \in Nat
    BY <1>0, <1>3 DEF HelperDestroy, Descriptors, TelemetryTypeOK, CallState
  <2>5. TelemetryTypeOK'
    BY <1>0, <1>3, <2>1, <2>2, <2>3, <2>4, AcceptedBest, Zenon
       DEF HelperDestroy, TelemetryTypeOK, Ratios
  <2>6. CallState' BY <1>0, <1>3, Zenon DEF HelperDestroy, CallState
  <2>7. Retries'
    BY <1>0, <1>3, Zenon DEF HelperDestroy, Retries, CallState, TelemetryTypeOK, Source, Ratios
  <2>8. Trusted(sensor)' /\ Trusted(out.temp)'
    BY <1>0, <1>3, <2>1, AcceptedBest, ZenonT(60) DEF HelperDestroy, Trusted
  <2>9. QED BY <2>2, <2>4, <2>5, <2>6, <2>7, <2>8, Zenon DEF TelemetryInv
<1>4. CASE SampleEnter
  <2>1. host' = host /\ host \in Hosts
    BY <1>0, <1>4, Zenon DEF SampleEnter, NoData, TelemetryTypeOK
  <2>2. BestSoFar' /\ scan' \in ScanType'
    BY <1>0, <1>4, <2>1, ScanKept, Zenon DEF SampleEnter, NoData, TelemetryTypeOK, NoScan
  <2>3. retry' \in [Source -> RetryState]
    BY <1>0, <1>4, Zenon DEF SampleEnter, NoData, TelemetryTypeOK, Source, Ratios
  <2>4. Descriptors' /\ fds' \in Nat
    BY <1>0, <1>4 DEF SampleEnter, NoData, Descriptors, TelemetryTypeOK, CallState
  <2>5. TelemetryTypeOK'
    BY <1>0, <1>4, <2>1, <2>2, <2>3, <2>4, AcceptedBest, Zenon
       DEF SampleEnter, NoData, TelemetryTypeOK, Ratios
  <2>6. CallState' BY <1>0, <1>4, Zenon DEF SampleEnter, NoData, CallState
  <2>7. Retries'
    BY <1>0, <1>4, Zenon
       DEF SampleEnter, NoData, Retries, CallState, TelemetryTypeOK, Source, Ratios
  <2>8. Trusted(sensor)' /\ Trusted(out.temp)'
    BY <1>0, <1>4, <2>1, AcceptedBest, Zenon DEF SampleEnter, NoData, Trusted
  <2>9. QED BY <2>2, <2>4, <2>5, <2>6, <2>7, <2>8, Zenon DEF TelemetryInv
<1>5. CASE DetectTemp
  <2>1. host' = host /\ host \in Hosts
    BY <1>0, <1>5, Zenon DEF DetectTemp, StartScan, TelemetryTypeOK
  <2>2. BestSoFar' /\ scan' \in ScanType'
    BY <1>0, <1>5, <2>1, ScanKept, ScanFresh, Zenon
       DEF DetectTemp, StartScan, TelemetryTypeOK, NoScan
  <2>3. retry' \in [Source -> RetryState]
    BY <1>0, <1>5, Zenon DEF DetectTemp, StartScan, TelemetryTypeOK, Source, Ratios
  <2>4. Descriptors' /\ fds' \in Nat
    BY <1>0, <1>5 DEF DetectTemp, StartScan, Descriptors, TelemetryTypeOK, CallState
  <2>5. TelemetryTypeOK'
    BY <1>0, <1>5, <2>1, <2>2, <2>3, <2>4, AcceptedBest, Zenon
       DEF DetectTemp, StartScan, TelemetryTypeOK, Ratios
  <2>6. CallState' BY <1>0, <1>5, Zenon DEF DetectTemp, StartScan, CallState
  <2>7. Retries'
    BY <1>0, <1>5, Zenon
       DEF DetectTemp, StartScan, Retries, CallState, TelemetryTypeOK, Source, Ratios
  <2>8. Trusted(sensor)' /\ Trusted(out.temp)'
    BY <1>0, <1>5, <2>1, AcceptedBest, ZenonT(60) DEF DetectTemp, StartScan, Trusted
  <2>9. QED BY <2>2, <2>4, <2>5, <2>6, <2>7, <2>8, Zenon DEF TelemetryInv
<1>6. CASE ScanCandidate
  <2>1. host' = host /\ host \in Hosts BY <1>0, <1>6, Zenon DEF ScanCandidate, TelemetryTypeOK
  <2>2. BestSoFar' /\ scan' \in ScanType'
    BY <1>0, <1>6, <2>1, ScanStep, Zenon DEF ScanCandidate, TelemetryTypeOK, NoScan
  <2>3. retry' \in [Source -> RetryState]
    BY <1>0, <1>6, Zenon DEF ScanCandidate, TelemetryTypeOK, Source, Ratios
  <2>4. Descriptors' /\ fds' \in Nat
    BY <1>0, <1>6 DEF ScanCandidate, Descriptors, TelemetryTypeOK, CallState
  <2>5. TelemetryTypeOK'
    BY <1>0, <1>6, <2>1, <2>2, <2>3, <2>4, AcceptedBest, Zenon
       DEF ScanCandidate, TelemetryTypeOK, Ratios
  <2>6. CallState' BY <1>0, <1>6, Zenon DEF ScanCandidate, CallState
  <2>7. Retries'
    BY <1>0, <1>6, Zenon DEF ScanCandidate, Retries, CallState, TelemetryTypeOK, Source, Ratios
  <2>8. Trusted(sensor)' /\ Trusted(out.temp)'
    BY <1>0, <1>6, <2>1, AcceptedBest, ZenonT(60) DEF ScanCandidate, Trusted
  <2>9. QED BY <2>2, <2>4, <2>5, <2>6, <2>7, <2>8, Zenon DEF TelemetryInv
<1>7. CASE SensorDetected
  <2>1. host' = host /\ host \in Hosts BY <1>0, <1>7, Zenon DEF SensorDetected, TelemetryTypeOK
  <2>2. BestSoFar' /\ scan' \in ScanType'
    BY <1>0, <1>7, <2>1, ScanFresh, Zenon DEF SensorDetected, TelemetryTypeOK, NoScan
  <2>3. retry' \in [Source -> RetryState]
    BY <1>0, <1>7, RetryKept, ZenonT(60) DEF SensorDetected, TelemetryTypeOK, Source, Ratios
  <2>4. Descriptors' /\ fds' \in Nat
    BY <1>0, <1>7 DEF SensorDetected, Descriptors, TelemetryTypeOK, CallState
  <2>5. TelemetryTypeOK'
    BY <1>0, <1>7, <2>1, <2>2, <2>3, <2>4, AcceptedBest, Zenon
       DEF SensorDetected, TelemetryTypeOK, Ratios
  <2>6. CallState' BY <1>0, <1>7, Zenon DEF SensorDetected, CallState
  <2>7. Retries'
    BY <1>0, <1>7, TempRetryKept, Zenon DEF SensorDetected
  <2>8. Trusted(sensor)' /\ Trusted(out.temp)'
    BY <1>0, <1>7, <2>1, AcceptedBest, ZenonT(60) DEF SensorDetected, Trusted
  <2>9. QED BY <2>2, <2>4, <2>5, <2>6, <2>7, <2>8, Zenon DEF TelemetryInv
<1>8. CASE ReadTemp
  <2>1. host' = host /\ host \in Hosts BY <1>0, <1>8, Zenon DEF ReadTemp, TelemetryTypeOK
  <2>2. BestSoFar' /\ scan' \in ScanType'
    BY <1>0, <1>8, <2>1, ScanKept, Zenon DEF ReadTemp, TelemetryTypeOK, NoScan
  <2>3. retry' \in [Source -> RetryState]
    BY <1>0, <1>8, RetryKept, Zenon DEF ReadTemp, TelemetryTypeOK, Source, Ratios
  <2>4. Descriptors' /\ fds' \in Nat
    BY <1>0, <1>8 DEF ReadTemp, Descriptors, TelemetryTypeOK, CallState
  <2>5. TelemetryTypeOK'
    BY <1>0, <1>8, <2>1, <2>2, <2>3, <2>4, AcceptedBest, Zenon
       DEF ReadTemp, TelemetryTypeOK, Ratios
  <2>6. CallState' BY <1>0, <1>8, Zenon DEF ReadTemp, CallState
  <2>7. Retries'
    <3>1. CASE sensor \in up BY <1>0, <1>8, <3>1, Zenon DEF ReadTemp, Retries
    <3>2. CASE sensor \notin up BY <1>0, <1>8, <3>2, TempRetryKept, Zenon DEF ReadTemp
    <3>3. QED BY <3>1, <3>2, Zenon
  <2>8. Trusted(sensor)' /\ Trusted(out.temp)'
    <3>1. out \in [temp : Candidates(host) \cup {NoSensor}, ratio : Ratios \cup {"none"}]
      BY <1>0, Zenon DEF TelemetryTypeOK
    <3>2. out'.temp \in {sensor, out.temp} BY <1>8, <3>1, ZenonT(60) DEF ReadTemp
    <3>3. QED BY <1>0, <1>8, <2>1, <3>2, Zenon DEF ReadTemp, Trusted
  <2>9. QED BY <2>2, <2>4, <2>5, <2>6, <2>7, <2>8, Zenon DEF TelemetryInv
<1>9. CASE OpenMsr
  <2>1. host' = host /\ host \in Hosts BY <1>0, <1>9, Zenon DEF OpenMsr, TelemetryTypeOK
  <2>2. BestSoFar' /\ scan' \in ScanType'
    BY <1>0, <1>9, <2>1, ScanKept, Zenon DEF OpenMsr, TelemetryTypeOK, NoScan
  <2>3. retry' \in [Source -> RetryState]
    BY <1>0, <1>9, RetryKept, Zenon DEF OpenMsr, TelemetryTypeOK, Source, Ratios
  <2>4. Descriptors' /\ fds' \in Nat
    BY <1>0, <1>9 DEF OpenMsr, Descriptors, TelemetryTypeOK, CallState
  <2>5. TelemetryTypeOK'
    BY <1>0, <1>9, <2>1, <2>2, <2>3, <2>4, AcceptedBest, Zenon
       DEF OpenMsr, TelemetryTypeOK, Ratios
  <2>6. CallState' BY <1>0, <1>9, Zenon DEF OpenMsr, CallState
  <2>7. Retries'
    <3>1. CASE retry' = retry /\ open' = open
      BY <1>0, <1>9, <3>1, Zenon DEF OpenMsr, Retries
    <3>2. CASE \/ ResetRetry("msr") /\ open' = open \cup {"msr"}
               \/ Schedule("msr") /\ open' = open \ {"msr"}
      BY <1>0, <1>9, <3>2, RetriesKept, Zenon DEF OpenMsr, Ratios
    <3>3. QED BY <1>9, <3>1, <3>2, Zenon DEF OpenMsr
  <2>8. Trusted(sensor)' /\ Trusted(out.temp)'
    BY <1>0, <1>9, <2>1, AcceptedBest, Zenon DEF OpenMsr, Trusted
  <2>9. QED BY <2>2, <2>4, <2>5, <2>6, <2>7, <2>8, Zenon DEF TelemetryInv
<1>10. CASE ReadMsr
  <2>1. host' = host /\ host \in Hosts BY <1>0, <1>10, Zenon DEF ReadMsr, DropMsr, TelemetryTypeOK
  <2>2. BestSoFar' /\ scan' \in ScanType'
    BY <1>0, <1>10, <2>1, ScanKept, Zenon DEF ReadMsr, DropMsr, TelemetryTypeOK, NoScan
  <2>3. retry' \in [Source -> RetryState]
    BY <1>0, <1>10, RetryKept, Zenon DEF ReadMsr, DropMsr, TelemetryTypeOK, Source, Ratios
  <2>4. Descriptors' /\ fds' \in Nat
    BY <1>0, <1>10 DEF ReadMsr, DropMsr, Descriptors, TelemetryTypeOK, CallState
  <2>5. TelemetryTypeOK'
    BY <1>0, <1>10, <2>1, <2>2, <2>3, <2>4, AcceptedBest, ZenonT(60)
       DEF ReadMsr, DropMsr, TelemetryTypeOK, Ratios
  <2>6. CallState' BY <1>0, <1>10, Zenon DEF ReadMsr, DropMsr, CallState
  <2>7. Retries'
    <3>1. CASE retry' = retry /\ open' = open BY <1>0, <1>10, <3>1, Zenon DEF ReadMsr, Retries
    <3>2. CASE DropMsr
      BY <1>0, <1>10, <3>2, RetriesKept, Zenon DEF ReadMsr, DropMsr, Ratios
    <3>3. QED BY <1>10, <3>1, <3>2, Zenon DEF ReadMsr
  <2>8. Trusted(sensor)' /\ Trusted(out.temp)'
    <3>1. out \in [temp : Candidates(host) \cup {NoSensor}, ratio : Ratios \cup {"none"}]
      BY <1>0, Zenon DEF TelemetryTypeOK
    <3>2. out'.temp = out.temp BY <1>10, <3>1, Zenon DEF ReadMsr, DropMsr
    <3>3. QED BY <1>0, <1>10, <2>1, <3>2, Zenon DEF ReadMsr, DropMsr, Trusted
  <2>9. QED BY <2>2, <2>4, <2>5, <2>6, <2>7, <2>8, Zenon DEF TelemetryInv
<1>11. CASE DetectCpufreq
  <2>1. host' = host /\ host \in Hosts BY <1>0, <1>11, Zenon DEF DetectCpufreq, TelemetryTypeOK
  <2>2. BestSoFar' /\ scan' \in ScanType'
    BY <1>0, <1>11, <2>1, ScanKept, Zenon DEF DetectCpufreq, TelemetryTypeOK, NoScan
  <2>3. retry' \in [Source -> RetryState]
    BY <1>0, <1>11, RetryKept, ZenonT(60) DEF DetectCpufreq, TelemetryTypeOK, Source, Ratios
  <2>4. Descriptors' /\ fds' \in Nat
    BY <1>0, <1>11 DEF DetectCpufreq, Descriptors, TelemetryTypeOK, CallState
  <2>5. TelemetryTypeOK'
    BY <1>0, <1>11, <2>1, <2>2, <2>3, <2>4, AcceptedBest, Zenon
       DEF DetectCpufreq, TelemetryTypeOK, Ratios
  <2>6. CallState' BY <1>0, <1>11, Zenon DEF DetectCpufreq, CallState
  <2>7. Retries'
    <3>1. CASE retry' = retry /\ open' = open
      BY <1>0, <1>11, <3>1, Zenon DEF DetectCpufreq, Retries
    <3>2. CASE \/ ResetRetry("cpufreq") /\ open' = open \cup {"cpufreq"}
               \/ Schedule("cpufreq") /\ open' = open \ {"cpufreq"}
      BY <1>0, <1>11, <3>2, RetriesKept, Zenon DEF DetectCpufreq, Ratios
    <3>3. QED BY <1>11, <3>1, <3>2, Zenon DEF DetectCpufreq
  <2>8. Trusted(sensor)' /\ Trusted(out.temp)'
    BY <1>0, <1>11, <2>1, AcceptedBest, Zenon DEF DetectCpufreq, Trusted
  <2>9. QED BY <2>2, <2>4, <2>5, <2>6, <2>7, <2>8, Zenon DEF TelemetryInv
<1>12. CASE ReadCpufreq
  <2>1. host' = host /\ host \in Hosts BY <1>0, <1>12, Zenon DEF ReadCpufreq, TelemetryTypeOK
  <2>2. BestSoFar' /\ scan' \in ScanType'
    BY <1>0, <1>12, <2>1, ScanKept, Zenon DEF ReadCpufreq, TelemetryTypeOK, NoScan
  <2>3. retry' \in [Source -> RetryState]
    BY <1>0, <1>12, RetryKept, Zenon DEF ReadCpufreq, TelemetryTypeOK, Source, Ratios
  <2>4. Descriptors' /\ fds' \in Nat
    BY <1>0, <1>12 DEF ReadCpufreq, Descriptors, TelemetryTypeOK, CallState
  <2>5. TelemetryTypeOK'
    BY <1>0, <1>12, <2>1, <2>2, <2>3, <2>4, AcceptedBest, Zenon
       DEF ReadCpufreq, TelemetryTypeOK, Ratios
  <2>6. CallState' BY <1>0, <1>12, Zenon DEF ReadCpufreq, CallState
  <2>7. Retries'
    <3>1. CASE retry' = retry /\ open' = open
      BY <1>0, <1>12, <3>1, Zenon DEF ReadCpufreq, Retries
    <3>2. CASE Schedule("cpufreq") /\ open' = open \ {"cpufreq"}
      BY <1>0, <1>12, <3>2, RetriesKept, Zenon DEF ReadCpufreq, Ratios
    <3>3. QED BY <1>12, <3>1, <3>2, Zenon DEF ReadCpufreq
  <2>8. Trusted(sensor)' /\ Trusted(out.temp)'
    <3>1. out \in [temp : Candidates(host) \cup {NoSensor}, ratio : Ratios \cup {"none"}]
      BY <1>0, Zenon DEF TelemetryTypeOK
    <3>2. out'.temp = out.temp BY <1>12, <3>1, Zenon DEF ReadCpufreq
    <3>3. QED BY <1>0, <1>12, <2>1, <3>2, Zenon DEF ReadCpufreq, Trusted
  <2>9. QED BY <2>2, <2>4, <2>5, <2>6, <2>7, <2>8, Zenon DEF TelemetryInv
<1>13. CASE ClockTick
  <2>1. host' = host /\ host \in Hosts BY <1>0, <1>13, Zenon DEF ClockTick, TelemetryTypeOK
  <2>2. BestSoFar' /\ scan' \in ScanType'
    BY <1>0, <1>13, <2>1, ScanKept, Zenon DEF ClockTick, TelemetryTypeOK, NoScan
  <2>3. retry' \in [Source -> RetryState] /\ \A x \in Source : retry[x] = FreshRetry => retry'[x] = FreshRetry
    <3>1. \A x \in Source : retry[x] \in RetryState BY <1>0, Zenon DEF TelemetryTypeOK
    <3>2. retry' = [x \in Source |-> Passed(retry[x])] BY <1>13, Zenon DEF ClockTick, Passed
    <3>3. QED BY <3>1, <3>2, PassedType, Zenon
  <2>4. Descriptors' /\ fds' \in Nat
    BY <1>0, <1>13 DEF ClockTick, Descriptors, TelemetryTypeOK, CallState
  <2>5. TelemetryTypeOK'
    BY <1>0, <1>13, <2>1, <2>2, <2>3, <2>4, AcceptedBest, Zenon
       DEF ClockTick, TelemetryTypeOK, Ratios
  <2>6. CallState' BY <1>0, <1>13, <2>3, Zenon DEF ClockTick, CallState
  <2>7. Retries' BY <1>0, <1>13, <2>3, Zenon DEF ClockTick, Retries, TelemetryTypeOK, Source
  <2>8. Trusted(sensor)' /\ Trusted(out.temp)'
    BY <1>0, <1>13, <2>1, AcceptedBest, Zenon DEF ClockTick, Trusted
  <2>9. QED BY <2>2, <2>4, <2>5, <2>6, <2>7, <2>8, Zenon DEF TelemetryInv
<1>14. CASE \E s \in Candidates(host) : SensorFails(s) \/ SensorReturns(s)
  <2>1. UNCHANGED <<rest, ratioUp>> /\ up' \subseteq Candidates(host)
    BY <1>0, <1>14, Zenon DEF SensorFails, SensorReturns, TelemetryTypeOK
  <2>2. BestSoFar' /\ scan' \in ScanType' BY <1>0, <2>1, ScanKept, Zenon DEF rest, TelemetryTypeOK
  <2>3. TelemetryTypeOK' BY <1>0, <2>1, <2>2, Zenon DEF rest, TelemetryTypeOK
  <2>4. CallState' /\ Descriptors' /\ Retries'
    BY <1>0, <2>1, Zenon DEF rest, CallState, Descriptors, Retries
  <2>5. Trusted(sensor)' /\ Trusted(out.temp)' BY <1>0, <2>1, Zenon DEF rest, Trusted
  <2>6. QED BY <2>2, <2>3, <2>4, <2>5, Zenon DEF TelemetryInv
<1>15. CASE \E x \in Ratios : RatioFails(x) \/ RatioReturns(x)
  <2>1. UNCHANGED <<rest, up>> /\ ratioUp' \subseteq Ratios
    BY <1>0, <1>15, Zenon DEF RatioFails, RatioReturns, TelemetryTypeOK
  <2>2. BestSoFar' /\ scan' \in ScanType' BY <1>0, <2>1, ScanKept, Zenon DEF rest, TelemetryTypeOK
  <2>3. TelemetryTypeOK' BY <1>0, <2>1, <2>2, Zenon DEF rest, TelemetryTypeOK
  <2>4. CallState' /\ Descriptors' /\ Retries'
    BY <1>0, <2>1, Zenon DEF rest, CallState, Descriptors, Retries
  <2>5. Trusted(sensor)' /\ Trusted(out.temp)' BY <1>0, <2>1, Zenon DEF rest, Trusted
  <2>6. QED BY <2>2, <2>3, <2>4, <2>5, Zenon DEF TelemetryInv
<1>16. CASE UNCHANGED telemetryVars
  <2>1. BestSoFar' /\ scan' \in ScanType'
    BY <1>0, <1>16, ScanKept, Zenon DEF telemetryVars, TelemetryTypeOK
  <2>2. TelemetryTypeOK' BY <1>0, <1>16, <2>1, Zenon DEF telemetryVars, TelemetryTypeOK
  <2>3. CallState' /\ Descriptors' /\ Retries'
    BY <1>0, <1>16, Zenon DEF telemetryVars, CallState, Descriptors, Retries
  <2>4. Trusted(sensor)' /\ Trusted(out.temp)' BY <1>0, <1>16, Zenon DEF telemetryVars, Trusted
  <2>5. QED BY <2>1, <2>2, <2>3, <2>4, Zenon DEF TelemetryInv
<1>17. QED
  BY <1>1, <1>2, <1>3, <1>4, <1>5, <1>6, <1>7, <1>8, <1>9, <1>10, <1>11, <1>12, <1>13, <1>14,
     <1>15, <1>16, ZenonT(60) DEF TelemetryNext, SampleStep

\* What a detection accepts outranks, or rivals only as one of several labelled with
\* the CPU's package, every other candidate that answered.
LEMMA AcceptedOutranks ==
  ASSUME TelemetryInv, NEW new, new = Accepted(host, scan.best), new # NoSensor
  PROVE  /\ new \in scan.seen
         /\ \A s \in scan.seen \ {new} :
              /\ Rank(s) <= Rank(new)
              /\ Rank(s) = Rank(new) => Mentions(new, host.package) \/ host.package < 0
<1> DEFINE b == scan.best
           score(r) == CandidateScore(r, host.package)
           label(r) == Mentions(r, host.package)
<1>1. b.sensor = new BY Zenon DEF Accepted
<1>2. new \in scan.seen /\ b.score = score(new) /\ b.explicit = label(new)
  BY <1>1, Zenon DEF TelemetryInv, BestSoFar
<1>3. \A s \in scan.seen : score(s) \in Nat
  <2>1. host \in Hosts /\ scan.seen \subseteq Candidates(host)
    BY Zenon DEF TelemetryInv, TelemetryTypeOK, ScanType
  <2>2. QED BY <2>1, ScoreNumber, Zenon
<1>4. ASSUME NEW s \in scan.seen \ {new}
      PROVE  /\ Rank(s) <= Rank(new)
             /\ Rank(s) = Rank(new) => label(new) \/ host.package < 0
  <2>1. /\ score(s) <= score(new)
        /\ score(s) = score(new) => (label(s) => label(new))
        /\ score(s) = score(new) /\ label(s) = label(new) => b.ambiguous
    <3>1. NoBetter(s, b) BY Zenon DEF TelemetryInv, BestSoFar
    <3>2. QED BY <1>1, <1>2, <3>1, Zenon DEF NoBetter
  <2>2. label(s) \in BOOLEAN /\ label(new) \in BOOLEAN BY Zenon DEF Mentions
  <2>3. Rank(s) <= Rank(new) BY <1>2, <1>3, <2>1, <2>2, SMTT(30) DEF Rank
  <2>4. Rank(s) = Rank(new) => score(s) = score(new) /\ label(s) = label(new)
    BY <1>2, <1>3, <2>1, <2>2, SMTT(30) DEF Rank
  <2>5. b.ambiguous => label(new) \/ ~(host.package >= 0) BY <1>1, <1>2, ZenonT(60) DEF Accepted
  <2>6. ~(host.package >= 0) => host.package < 0
    BY HostsAssumption DEF TelemetryInv, TelemetryTypeOK
  <2>7. QED BY <2>1, <2>3, <2>4, <2>5, <2>6, Zenon
<1>5. QED BY <1>2, <1>4, Zenon

\* A step that selects a sensor is the end of a detection.
LEMMA NewSensor ==
  ASSUME TelemetryInv, TelemetryNext, sensor' # sensor, sensor' # NoSensor
  PROVE  sensor' = Accepted(host, scan.best)
<1>1. CASE HelperReady \/ SensorDetected BY <1>1, Zenon DEF HelperReady, SensorDetected
<1>2. CASE HelperInit \/ DetectTemp BY <1>2, Zenon DEF HelperInit, DetectTemp, StartScan
<1>3. CASE ReadTemp BY <1>3, Zenon DEF ReadTemp
<1>4. CASE HelperDestroy \/ SampleEnter \/ ScanCandidate \/ ClockTick
  BY <1>4, Zenon DEF HelperDestroy, SampleEnter, ScanCandidate, ClockTick
<1>5. CASE OpenMsr \/ ReadMsr \/ DetectCpufreq \/ ReadCpufreq
  BY <1>5, Zenon DEF OpenMsr, ReadMsr, DetectCpufreq, ReadCpufreq
<1>6. CASE \/ \E s \in Candidates(host) : SensorFails(s) \/ SensorReturns(s)
           \/ \E x \in Ratios : RatioFails(x) \/ RatioReturns(x)
  BY <1>6, Zenon DEF SensorFails, SensorReturns, RatioFails, RatioReturns, rest
<1>7. QED BY <1>1, <1>2, <1>3, <1>4, <1>5, <1>6, Zenon DEF TelemetryNext, SampleStep

\* On any machines, with sensors and devices that fail and come back at any moment:
\* the invariant of the helper.
LEMMA TelemetryInvariant == TelemetrySpec => []TelemetryInv
BY TelemetryStart, TelemetryStep, PTL DEF TelemetrySpec

\* On any machine the process holds one MSR descriptor exactly while the helper counts
\* the device as open, delays stay within MAX_BACKOFF_SEC, and the next loss of a
\* source in use is first retried after INITIAL_BACKOFF_SEC (tsd_telemetry_helper_init,
\* _sample, _destroy).
THEOREM ConsistentSources == TelemetrySpec => []SourcesConsistent
<1>1. TelemetryInv => SourcesConsistent
  BY Zenon DEF TelemetryInv, SourcesConsistent, Descriptors, Retries
<1>2. QED BY <1>1, TelemetryInvariant, PTL

\* On any machine whose labels tell the truth: a selected sensor outranks what else
\* answered or is labelled with the CPU's package, and with several packages a
\* delivered temperature is that of the CPU's own, or of one whose number begins with
\* the digits of the CPU's (detect_temp_sensor, label_mentions_package).
THEOREM OwnSensor == TelemetrySpec => SensorIsOwn
<1>1. TelemetryInv => (host.packages > 1 /\ out.temp # NoSensor =>
                         out.temp.home = host.package \/ BeginsWith(out.temp.home, host.package))
  <2>1. SUFFICES ASSUME TelemetryInv, host.packages > 1, out.temp # NoSensor
                 PROVE  out.temp.home = host.package \/ BeginsWith(out.temp.home, host.package)
    BY Zenon
  <2>2. host \in Hosts /\ out.temp \in Candidates(host)
    BY <2>1, Zenon DEF TelemetryInv, TelemetryTypeOK
  <2>3. Mentions(out.temp, host.package) BY <2>1, Zenon DEF TelemetryInv, Trusted
  <2>4. QED BY <2>2, <2>3, MentionedIsOwn, Zenon
<1>2. TelemetryInv /\ [TelemetryNext]_telemetryVars =>
        [sensor' # sensor /\ sensor' # NoSensor =>
          /\ sensor' \in scan.seen
          /\ \A s \in scan.seen \ {sensor'} :
               /\ Rank(s) <= Rank(sensor')
               /\ Rank(s) = Rank(sensor') =>
                    Mentions(sensor', host.package) \/ host.package < 0]_telemetryVars
  BY NewSensor, AcceptedOutranks, Zenon DEF telemetryVars
<1>3. QED BY <1>1, <1>2, TelemetryInvariant, PTL DEF TelemetrySpec, SensorIsOwn
=============================================================================
