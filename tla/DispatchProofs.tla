--------------------------- MODULE DispatchProofs ---------------------------
(***************************************************************************)
(* Proofs about the selection word, the admissions of kernel execution,    *)
(* and what the executions run and cover, for any set of threads, any      *)
(* kernels, any size_t and any call.                                       *)
(*                                                                         *)
(* TableInv is inductive for every trampoline step, and no other step      *)
(* writes the table: it says who holds the two locks, what the page is and *)
(* how far the word, the mirrors and the hash agree at each place of a     *)
(* call.  AdmissionInv is inductive for the executions beside it.          *)
(*                                                                         *)
(* ExecutionInv is inductive on top of both: every selection asked for or  *)
(* stored is one the policy allows, what a thread is about to run was      *)
(* resolved from the selection it read, and what its call has done so far  *)
(* is exactly the items before its offset, once each, whatever was         *)
(* cancelled or fell back.                                                 *)
(***************************************************************************)
EXTENDS Dispatch, TLAPS

----------------------------------------------------------------------------
(* The selection word and the admissions.                                  *)

AttestPc == {"word", "width", "slot", "ready", "hash", "resetWord", "resetWidth", "resetSlot",
             "resetReady", "resetHash", "report"}
TornPc == {"width", "slot", "resetWidth", "resetSlot"}
ErasingPc == {"resetWidth", "resetSlot", "resetReady", "resetHash"}

\* Whoever is in a call holds the patch lock, and the attestation lock from the
\* first store to the last.
Locks ==
  /\ \A t \in Thread : pc[t] # "idle" => patchLock = t
  /\ patchLock # Nobody => pc[patchLock] # "idle"
  /\ \A t \in Thread : pc[t] \in AttestPc => attestLock = t
  /\ attestLock # Nobody => pc[attestLock] \in AttestPc

\* The page at each place of a call, and that a selection knows its width.
Page ==
  /\ page = "rw" => \E t \in Thread : pc[t] = "protect"
  /\ \A t \in Thread : /\ pc[t] = "map" => page = "none"
                       /\ pc[t] = "protect" => page = "rw"
                       /\ pc[t] \in CommitPc \cup ResetPc => page = "rx"
                       /\ pc[t] \in CommitPc => target[t] # Nobody

\* The mirrors follow the word, except between its store and theirs.
Agreement ==
  /\ initialized => word # Nobody
  /\ (\A t \in Thread : pc[t] \notin TornPc) /\ word # Nobody =>
       width = word.width /\ slot = word.slot
  /\ \A t \in Thread :
       /\ pc[t] \in {"width", "slot", "ready", "hash"} =>
            word = [width |-> target[t], slot |-> target[t]]
       /\ pc[t] = "slot" => width = target[t]
       /\ pc[t] = "hash" => initialized
       /\ pc[t] \in ErasingPc => word = [width |-> 0, slot |-> 0]
       /\ pc[t] = "resetSlot" => width = 0

\* A valid hash is that of the selected slot, except while a reset is erasing it.
Attested ==
  /\ \A t \in Thread : pc[t] \in {"word", "width", "slot", "ready", "hash"} => ~hashValid
  /\ (\A t \in Thread : pc[t] \notin ErasingPc) /\ hashValid =>
       initialized /\ hash # Nobody /\ word = [width |-> hash, slot |-> hash]

TableInv == TrampolineTypeOK /\ Locks /\ Page /\ SnapshotRunnable /\ Agreement /\ Attested

\* Places inside an execution that was admitted or fell back.
AdmittedPc == {"arm", "kernel", "settle", "release", "shimCode"}

\* A step of thread a, seen from the others.
OnlyMoves(a) ==
  \A b \in App \ {a} : apc'[b] = apc[b] /\ chosen'[b] = chosen[b]

ExecutionTypes ==
  /\ DOMAIN apc = App /\ DOMAIN chosen = App /\ inside \in [App -> Nat]

AdmissionInv == ExecutionTypes /\ AdmissionBalanced

USE AllowedAssumption, AppAssumption DEF Width

\* The value for "no thread" and "no slot" is neither.
LEMMA NobodyElse == Nobody \notin Thread /\ Nobody \notin 0..2 /\ Nobody # 0
BY TrampolineNobody

\* A selection is not the word 0.
LEMMA NobodyRecord == \A w, s \in Width : [width |-> w, slot |-> s] # Nobody
BY TrampolineNobody DEF Selection

USE NobodyElse

----------------------------------------------------------------------------
(* What executions run and what they cover.                                *)

\* Only widths the policy allows are asked for, so only such are selected.
Permitted ==
  /\ \A t \in Thread : target[t] # Nobody => target[t] <= AllowedMax
  /\ word # Nobody => word.width <= AllowedMax

CallTypes ==
  /\ apc \in [App -> {"idle", "gone"} \cup CallPc \cup ShimPc]
  /\ call \in [App -> Call] /\ snapshot \in [App -> Selection]
  /\ offset \in [App -> 0..SizeMax] /\ remaining \in [App -> 0..MaxTotal]
  /\ chosen \in [App -> Width] /\ counted \in [App -> 0..MaxTotal]
  /\ DOMAIN executed = App

GateType == open \in BOOLEAN

FlagTypes == enabled \in [App -> BOOLEAN] /\ pending \in [App -> BOOLEAN]

\* What a kernel call is about to run was resolved for what it read, and the
\* shim holds a selection whose code stays mapped.
Resolved(a) ==
  /\ apc[a] \in {"admit", "arm", "kernel"} =>
       chosen[a] \in Variants /\ chosen[a] <= AtMost(snapshot[a].width, HostMax)
  /\ apc[a] \in {"shimAdmit", "shimLast", "shimCode"} =>
       /\ page = "rx" /\ chosen[a] = snapshot[a].slot
       /\ chosen[a] <= AllowedMax

\* The offset follows the work that is left, inside the accepted range.
Advanced(a) ==
  apc[a] \in CallPc \cup {"gone"} =>
    /\ call[a].first + call[a].total <= SizeMax /\ remaining[a] <= call[a].total
    /\ offset[a] = call[a].first + (call[a].total - remaining[a])
    /\ apc[a] \in CallPc \ {"restore"} => remaining[a] > 0

\* ExactCover of one thread.
CoveredBy(first, done) == [i \in 0..SizeMax |-> IF i \in first..(first + done - 1) THEN 1 ELSE 0]

Cover(a) ==
  apc[a] \in CallPc \cup {"gone"} =>
    LET done == call[a].total - remaining[a] + (IF apc[a] = "settle" THEN ChunkOf(a) ELSE 0)
    IN executed[a] = CoveredBy(call[a].first, done) /\ counted[a] = done

ThreadInv(a) == Resolved(a) /\ Advanced(a) /\ Cover(a)

ExecutionInv == Permitted /\ CallTypes /\ FlagTypes /\ \A a \in App : ThreadInv(a)

\* size_t arithmetic below SIZE_MAX does not wrap.
LEMMA NoWrap == \A x \in 0..SizeMax : x % (SizeMax + 1) = x
BY SizeAssumption

\* A width that is no wider stays no wider when both are limited to what the host has.
LEMMA AtMostHost ==
  ASSUME NEW v \in Width, NEW w \in {0, v}
  PROVE  /\ AtMost(w, HostMax) \in Width /\ AtMost(v, HostMax) \in Width
         /\ AtMost(w, HostMax) <= AtMost(v, HostMax)
BY DispatchAssumption DEF AtMost

\* choose_variant finds a registered kernel that is not too wide.
LEMMA VariantFacts ==
  ASSUME NEW w \in Width
  PROVE  Variant(w) \in Variants /\ Variant(w) \in Width /\ Variant(w) <= w
<1>1. \E v \in Variants : v <= w /\ \A u \in Variants : u <= w => u <= v
  <2>0. Variants \subseteq 0..2 /\ 0 \in Variants BY DispatchAssumption, Zenon
  <2> USE <2>0
  <2>1. CASE 2 \in Variants /\ 2 <= w BY <2>1
  <2>2. CASE 1 \in Variants /\ 1 <= w /\ ~(2 \in Variants /\ 2 <= w) BY <2>2
  <2>3. CASE ~(1 \in Variants /\ 1 <= w) /\ ~(2 \in Variants /\ 2 <= w) BY <2>3
  <2>4. QED BY <2>1, <2>2, <2>3
<1>2. Variant(w) \in Variants /\ Variant(w) <= w BY <1>1, Zenon DEF Variant
<1>3. QED BY <1>2, DispatchAssumption, Zenon

\* The next chunk is not empty, ends inside the call and does not wrap.
LEMMA ChunkFacts ==
  ASSUME NEW a \in App, CallTypes, Advanced(a), apc[a] \in CallPc \ {"restore"}
  PROVE  /\ ChunkOf(a) \in 1..remaining[a] /\ offset[a] + ChunkOf(a) <= SizeMax
         /\ offset[a] + ChunkOf(a) \in 0..SizeMax
         /\ (offset[a] + ChunkOf(a)) % (SizeMax + 1) = offset[a] + ChunkOf(a)
<1>1. /\ call[a].first \in 0..SizeMax /\ call[a].total \in 1..MaxTotal
      /\ call[a].chunk \in 1..MaxTotal /\ remaining[a] \in 0..MaxTotal /\ offset[a] \in 0..SizeMax
  BY SizeAssumption, Zenon DEF CallTypes, Call
<1> USE <1>1
<1>2. remaining[a] > 0 /\ offset[a] + remaining[a] <= SizeMax BY SizeAssumption DEF Advanced
<1> USE <1>2
<1>3. ChunkOf(a) \in 1..remaining[a] BY SizeAssumption DEF ChunkOf, AtMost
<1> USE <1>3
<1>4. offset[a] + ChunkOf(a) \in 0..SizeMax BY SizeAssumption
<1>5. QED BY <1>4, NoWrap, SizeAssumption

\* The items of a chunk are the ones from its offset on.
LEMMA ItemsOfChunk ==
  ASSUME NEW a \in App, CallTypes, Advanced(a), apc[a] \in CallPc \ {"restore"}
  PROVE  Items(a) = offset[a]..(offset[a] + ChunkOf(a) - 1)
<1>1. ChunkOf(a) \in 1..remaining[a] /\ offset[a] + ChunkOf(a) <= SizeMax BY ChunkFacts, Zenon
<1> USE <1>1
<1>2. offset[a] \in 0..SizeMax /\ remaining[a] \in 0..MaxTotal BY Zenon DEF CallTypes
<1> USE <1>2
<1>3. \A i \in 0..(ChunkOf(a) - 1) : (offset[a] + i) % (SizeMax + 1) = offset[a] + i
  <2>1. \A i \in 0..(ChunkOf(a) - 1) : offset[a] + i \in 0..SizeMax BY SizeAssumption
  <2>2. QED BY <2>1, NoWrap
<1>4. Items(a) = {offset[a] + i : i \in 0..(ChunkOf(a) - 1)} BY <1>3, Zenon DEF Items
<1>5. ASSUME NEW x \in offset[a]..(offset[a] + ChunkOf(a) - 1)
      PROVE  x \in {offset[a] + i : i \in 0..(ChunkOf(a) - 1)}
  <2> USE <1>5
  <2>1. x - offset[a] \in 0..(ChunkOf(a) - 1) BY SizeAssumption
  <2>2. x = offset[a] + (x - offset[a]) BY SizeAssumption
  <2>3. QED BY <2>1, <2>2
<1>6. QED BY <1>4, <1>5, SizeAssumption

\* A chunk that follows what is covered extends it.
LEMMA CoverGrows ==
  ASSUME NEW first \in Nat, NEW done \in Nat, NEW n \in Nat, first + done + n <= SizeMax, n > 0
  PROVE  [i \in 0..SizeMax |-> CoveredBy(first, done)[i]
                                 + (IF i \in (first + done)..(first + done + n - 1) THEN 1 ELSE 0)]
         = CoveredBy(first, done + n)
BY SizeAssumption DEF CoveredBy

\* The history of a call starts empty.
LEMMA CoverEmpty == ASSUME NEW first \in Nat PROVE CoveredBy(first, 0) = NoItems
BY SizeAssumption DEF CoveredBy, NoItems

\* What a thread's call consists of is as before.
Same(b) ==
  /\ apc'[b] = apc[b] /\ call'[b] = call[b] /\ offset'[b] = offset[b]
  /\ remaining'[b] = remaining[b] /\ chosen'[b] = chosen[b] /\ snapshot'[b] = snapshot[b]
  /\ executed'[b] = executed[b] /\ counted'[b] = counted[b]

\* A thread that does not move keeps its part of the invariant, since a page
\* that is executable stays so.
LEMMA ThreadStutter ==
  ASSUME NEW b \in App, ThreadInv(b), Same(b), page = "rx" => page' = "rx"
  PROVE  ThreadInv(b)'
<1> USE DEF ThreadInv, Same
<1>1. Resolved(b)' BY Zenon DEF Resolved
<1>2. Advanced(b)' BY Zenon DEF Advanced
<1>3. Cover(b)' BY Zenon DEF Cover, ChunkOf
<1>4. QED BY <1>1, <1>2, <1>3, Zenon

\* Progress inside a call that completes no kernel keeps what it covered.
LEMMA SamePlace ==
  ASSUME NEW a \in App, ThreadInv(a), call'[a] = call[a], offset'[a] = offset[a],
         remaining'[a] = remaining[a], executed'[a] = executed[a], counted'[a] = counted[a],
         apc[a] \in CallPc \ {"settle"}, apc'[a] \in (CallPc \ {"settle", "restore"}) \cup {"gone"},
         remaining[a] > 0
  PROVE  Advanced(a)' /\ Cover(a)'
<1>1. Advanced(a) /\ Cover(a) BY Zenon DEF ThreadInv
<1> USE <1>1
<1>2. Advanced(a)' BY Zenon DEF Advanced, CallPc
<1>3. Cover(a)' BY Zenon DEF Cover, CallPc
<1>4. QED BY <1>2, <1>3, Zenon

\* A thread outside kernel calls owes nothing.
LEMMA NoCallOwed ==
  ASSUME NEW a \in App, apc'[a] \in {"idle"} \cup ShimPc
  PROVE  Advanced(a)' /\ Cover(a)'
BY Zenon DEF Advanced, Cover, CallPc, ShimPc

\* A step of an execution concerns its own thread only.
LEMMA OthersKept ==
  ASSUME NEW a \in App, CallTypes,
         \/ \E c \in Call : Begin(a, c)
         \/ CallProgress(a) \/ ShimSnapshot(a) \/ ShimRepair(a) \/ SendCancel(a) \/ CancelDelivered(a)
  PROVE  \A b \in App \ {a} : Same(b)
<1> USE DEF CallTypes, At, Set
<1>1. CASE \E c \in Call : Begin(a, c) BY <1>1, ZenonT(60) DEF Begin, Same
<1>2. CASE ReadSelection(a) BY <1>2, Zenon DEF ReadSelection, Same
<1>3. CASE Resolve(a) BY <1>3, Zenon DEF Resolve, Same
<1>4. CASE Admit(a) BY <1>4, Zenon DEF Admit, Same
<1>5. CASE Arm(a) BY <1>5, Zenon DEF Arm, Same
<1>6. CASE \E ok \in BOOLEAN : KernelReturns(a, ok) BY <1>6 DEF KernelReturns, Same
<1>7. CASE Settle(a) BY <1>7 DEF Settle, Same
<1>8. CASE Finish(a) BY <1>8, Zenon DEF Finish, Same
<1>9. CASE Restore(a) BY <1>8, <1>9, Zenon DEF Restore, Same
<1>10. CASE ShimAdmit(a) BY <1>10, Zenon DEF ShimAdmit, Same
<1>11. CASE ShimSnapshot(a) BY <1>11, Zenon DEF ShimSnapshot, Same
<1>12. CASE ShimRepair(a) BY <1>12, Zenon DEF ShimRepair, Same
<1>13. CASE SendCancel(a) BY <1>13, Zenon DEF SendCancel, Same
<1>14. CASE CancelDelivered(a) BY <1>14, Zenon DEF CancelDelivered, Same
<1>15. QED
  BY <1>1, <1>2, <1>3, <1>4, <1>5, <1>6, <1>7, <1>8, <1>9, <1>10, <1>11, <1>12, <1>13, <1>14,
     Zenon DEF CallProgress, Release, ShimReturn, ShimRefused

\* The types of a call's locals are kept.
LEMMA CallTypesStep ==
  ASSUME NEW a \in App, TrampolineTypeOK, CallTypes, ThreadInv(a),
         \/ \E c \in Call : Begin(a, c)
         \/ CallProgress(a) \/ ShimSnapshot(a) \/ ShimRepair(a) \/ SendCancel(a) \/ CancelDelivered(a)
  PROVE  CallTypes'
<1> USE DEF At, Set
<1>0. Advanced(a) /\ Cover(a) BY Zenon DEF ThreadInv
<1> USE <1>0
<1>a. CurrentWidth \in Width BY Zenon DEF CurrentWidth, TrampolineTypeOK, Selection
<1>b. NoCall \in Call /\ NoSelection \in Selection BY SizeAssumption DEF NoCall, NoSelection, Call, Selection
<1>1. ASSUME NEW c \in Call, Begin(a, c) PROVE CallTypes'
  <2>1. c.first \in 0..SizeMax /\ c.total \in 0..MaxTotal /\ 0 \in 0..MaxTotal
    BY SizeAssumption DEF Call
  <2>2. QED BY <1>1, <2>1 DEF Begin, CallTypes, CallPc
<1>2. CASE ReadSelection(a)
  <2>1. [width |-> CurrentWidth, slot |-> 0] \in Selection BY <1>a DEF Selection
  <2>2. QED BY <1>2, <2>1 DEF ReadSelection, CallTypes, CallPc
<1>3. CASE Resolve(a)
  <2> USE <1>3
  <2>1. PICK w \in {0, snapshot[a].width} : chosen' = Set(chosen, a, Variant(AtMost(w, HostMax)))
    BY Zenon DEF Resolve
  <2>2. AtMost(w, HostMax) \in Width BY DispatchAssumption DEF AtMost, CallTypes, Selection
  <2>3. Variant(AtMost(w, HostMax)) \in Width BY <2>2, VariantFacts
  <2>4. QED BY <2>1, <2>3, Zenon DEF Resolve, CallTypes, CallPc
<1>4. CASE Admit(a) BY <1>4 DEF Admit, CallTypes, CallPc
<1>5. CASE Arm(a) BY <1>5 DEF Arm, CallTypes, CallPc
<1>6. ASSUME NEW ok \in BOOLEAN, KernelReturns(a, ok) PROVE CallTypes'
  <2> USE <1>6
  <2>1. CASE ~ok BY <2>1, Zenon DEF KernelReturns, CallTypes, CallPc
  <2>2. CASE ok
    <3>1. ChunkOf(a) \in 1..remaining[a]
      BY ChunkFacts, Zenon DEF KernelReturns, CallPc
    <3>2. counted[a] + ChunkOf(a) \in 0..MaxTotal
      <4>1. /\ counted[a] = call[a].total - remaining[a] /\ call[a].total \in 1..MaxTotal
            /\ remaining[a] \in 0..MaxTotal /\ remaining[a] <= call[a].total
        BY DEF KernelReturns, Cover, Advanced, CallPc, CallTypes, Call
      <4>2. QED BY <3>1, <4>1, SizeAssumption
    <3>3. QED BY <2>2, <3>2 DEF KernelReturns, CallTypes, CallPc
  <2>3. QED BY <2>1, <2>2
<1>7. CASE Settle(a)
  <2> USE <1>7
  <2>1. /\ ChunkOf(a) \in 1..remaining[a]
        /\ (offset[a] + ChunkOf(a)) % (SizeMax + 1) \in 0..SizeMax
    BY ChunkFacts, Zenon DEF Settle, CallPc
  <2> USE <2>1
  <2>2. remaining[a] - ChunkOf(a) \in 0..MaxTotal BY SizeAssumption DEF CallTypes
  <2>3. QED BY <2>2 DEF Settle, CallTypes, CallPc
<1>8. CASE Finish(a)
  <2>1. 0 \in 0..SizeMax /\ 0 \in 0..MaxTotal BY SizeAssumption
  <2>2. QED BY <1>8, <1>b, <2>1 DEF Finish, CallTypes
<1>9. CASE Restore(a)
  <2> USE <1>9
  <2>1. CASE remaining[a] = 0 BY <1>8, <2>1, Zenon DEF Restore
  <2>2. CASE remaining[a] # 0 BY <2>2, Zenon DEF Restore, CallTypes, CallPc
  <2>3. QED BY <2>1, <2>2, Zenon
<1>10. CASE ShimAdmit(a) BY <1>10, Zenon DEF ShimAdmit, CallTypes, ShimPc
<1>11. CASE ShimSnapshot(a)
  <2> USE <1>11
  <2>1. word \in Selection /\ word.width \in Width
    BY Zenon DEF ShimSnapshot, TrampolineTypeOK, Selection
  <2>2. QED BY <2>1, Zenon DEF ShimSnapshot, CallTypes, ShimPc
<1>12. CASE ShimRepair(a) BY <1>12, Zenon DEF ShimRepair, CallTypes, ShimPc
<1>13. CASE SendCancel(a) BY <1>13, Zenon DEF SendCancel, CallTypes
<1>14. CASE CancelDelivered(a) BY <1>14, Zenon DEF CancelDelivered, CallTypes
<1>15. QED
  BY <1>1, <1>2, <1>3, <1>4, <1>5, <1>6, <1>7, <1>8, <1>9, <1>10, <1>11, <1>12, <1>13, <1>14,
     Zenon DEF CallProgress, Release, ShimReturn, ShimRefused

\* The thread that moves keeps its part of the invariant.
LEMMA ThreadStep ==
  ASSUME NEW a \in App, TrampolineTypeOK, SnapshotRunnable, Permitted, CallTypes, ThreadInv(a),
         page = "rx" => page' = "rx",
         \/ \E c \in Call : Begin(a, c)
         \/ CallProgress(a) \/ ShimSnapshot(a) \/ ShimRepair(a) \/ SendCancel(a) \/ CancelDelivered(a)
  PROVE  ThreadInv(a)'
<1> USE DEF At, Set
<1>0. Resolved(a) /\ Advanced(a) /\ Cover(a) BY Zenon DEF ThreadInv
<1> USE <1>0
<1> SUFFICES Resolved(a)' /\ Advanced(a)' /\ Cover(a)' BY Zenon DEF ThreadInv
<1>1. ASSUME NEW c \in Call, Begin(a, c) PROVE Resolved(a)' /\ Advanced(a)' /\ Cover(a)'
  <2> USE <1>1
  <2>1. /\ apc'[a] = "next" /\ call'[a] = c /\ offset'[a] = c.first /\ remaining'[a] = c.total
        /\ executed'[a] = NoItems /\ counted'[a] = 0
    BY Zenon DEF Begin, CallTypes
  <2> USE <2>1
  <2>2. c.first \in 0..SizeMax /\ c.total \in 1..MaxTotal BY Zenon DEF Call
  <2> USE <2>2
  <2>3. c.first + c.total <= SizeMax BY SizeAssumption, SMTT(30) DEF Begin, Accepted
  <2>4. Resolved(a)' BY SMTT(30) DEF Resolved
  <2>5. Advanced(a)' BY <2>3, SizeAssumption DEF Advanced
  <2>6. Cover(a)'
    <3>1. c.total - c.total + 0 = 0 /\ c.first \in Nat BY SizeAssumption
    <3> USE <3>1
    <3>2. CoveredBy(c.first, 0) = NoItems BY CoverEmpty, Zenon
    <3>3. QED BY <3>2 DEF Cover, CoveredBy
  <2>7. QED BY <2>4, <2>5, <2>6
<1>a. ASSUME apc[a] \in CallPc \ {"settle"}, apc[a] = "restore" => remaining[a] # 0,
             apc'[a] \in (CallPc \ {"settle", "restore"}) \cup {"gone"},
             UNCHANGED <<call, offset, remaining, executed, counted>>
      PROVE  Advanced(a)' /\ Cover(a)'
  <2> USE <1>a
  <2>1. remaining[a] \in Nat BY SizeAssumption DEF CallTypes
  <2>2. remaining[a] > 0 BY <2>1 DEF Advanced
  <2>3. QED BY <2>2, SamePlace
<1>2. CASE ReadSelection(a)
  <2> USE <1>2
  <2>1. apc[a] = "next" /\ apc'[a] = "resolve" BY Zenon DEF ReadSelection, CallTypes
  <2> USE <2>1
  <2>2. Advanced(a)' /\ Cover(a)' BY <1>a, Zenon DEF ReadSelection, CallPc
  <2>3. QED BY <2>2, Zenon DEF Resolved
<1>3. CASE Resolve(a)
  <2> USE <1>3
  <2>1. apc[a] = "resolve" /\ apc'[a] = "admit" BY Zenon DEF Resolve, CallTypes
  <2> USE <2>1
  <2>2. Advanced(a)' /\ Cover(a)' BY <1>a, Zenon DEF Resolve, CallPc
  <2>3. PICK w \in {0, snapshot[a].width} : chosen' = Set(chosen, a, Variant(AtMost(w, HostMax)))
    BY Zenon DEF Resolve
  <2>4. snapshot[a].width \in Width BY Zenon DEF CallTypes, Selection
  <2> USE <2>4
  <2>5. /\ AtMost(w, HostMax) \in Width /\ AtMost(snapshot[a].width, HostMax) \in Width
        /\ AtMost(w, HostMax) <= AtMost(snapshot[a].width, HostMax)
    BY AtMostHost, Zenon
  <2> USE <2>5
  <2>6. chosen'[a] \in Variants /\ chosen'[a] \in Width /\ chosen'[a] <= AtMost(w, HostMax)
    BY <2>3, VariantFacts, Zenon DEF CallTypes
  <2> USE <2>6
  <2>7. chosen'[a] <= AtMost(snapshot[a].width, HostMax)
    BY SMTT(30)
  <2>8. Resolved(a)' BY <2>7 DEF Resolve, Resolved, AtMost
  <2>9. QED BY <2>2, <2>8, Zenon
<1>4. CASE Admit(a)
  <2> USE <1>4
  <2>1. apc[a] = "admit" /\ apc'[a] = "arm" BY Zenon DEF Admit, CallTypes
  <2> USE <2>1
  <2>2. Advanced(a)' /\ Cover(a)' BY <1>a, Zenon DEF Admit, CallPc
  <2>3. snapshot[a].width \in Width BY Zenon DEF CallTypes, Selection
  <2>4. chosen'[a] = chosen[a] \/ chosen'[a] = 0 BY Zenon DEF Admit, CallTypes
  <2>5. chosen'[a] \in Variants /\ chosen'[a] <= AtMost(snapshot[a].width, HostMax)
    BY <2>3, <2>4, DispatchAssumption DEF Resolved, AtMost
  <2>6. Resolved(a)' BY <2>5 DEF Admit, Resolved, AtMost
  <2>7. QED BY <2>2, <2>6, Zenon
<1>5. CASE Arm(a)
  <2> USE <1>5
  <2>1. apc[a] = "arm" /\ apc'[a] = "kernel" BY Zenon DEF Arm, CallTypes
  <2> USE <2>1
  <2>2. Advanced(a)' /\ Cover(a)' BY <1>a, Zenon DEF Arm, CallPc
  <2>3. Resolved(a)' BY Zenon DEF Arm, Resolved
  <2>4. QED BY <2>2, <2>3, Zenon
<1>6. CASE KernelReturns(a, FALSE)
  <2> USE <1>6
  <2>1. apc[a] = "kernel" /\ apc'[a] = "release" BY Zenon DEF KernelReturns, CallTypes
  <2> USE <2>1
  <2>2. Advanced(a)' /\ Cover(a)' BY <1>a, Zenon DEF KernelReturns, CallPc
  <2>3. QED BY <2>2, Zenon DEF Resolved
<1>7. CASE KernelReturns(a, TRUE)
  <2>1. /\ apc[a] = "kernel" /\ apc'[a] = "settle"
        /\ executed'[a] = Covered(a) /\ counted'[a] = counted[a] + ChunkOf(a)
        /\ UNCHANGED <<call, offset, remaining>>
    BY <1>7, Zenon DEF KernelReturns, CallTypes
  <2> USE <2>1
  <2>2. Advanced(a)' BY Zenon DEF Advanced, CallPc
  <2>3. /\ ChunkOf(a) \in 1..remaining[a] /\ offset[a] + ChunkOf(a) <= SizeMax
        /\ Items(a) = offset[a]..(offset[a] + ChunkOf(a) - 1)
    BY ChunkFacts, ItemsOfChunk, Zenon DEF CallPc
  <2> USE <2>3
  <2> DEFINE done == call[a].total - remaining[a]
  <2>4. /\ executed[a] = CoveredBy(call[a].first, done + 0) /\ counted[a] = done + 0
        /\ offset[a] = call[a].first + done
    BY Zenon DEF Cover, Advanced, CallPc
  <2> USE <2>4
  <2>5. /\ call[a].first \in Nat /\ done \in Nat /\ ChunkOf(a) \in Nat /\ ChunkOf(a) > 0
        /\ remaining[a] \in Nat
    <3>1. /\ call[a].first \in Nat /\ call[a].total \in Nat /\ remaining[a] \in Nat
      BY SizeAssumption, SMTT(30) DEF CallTypes, Call
    <3>2. remaining[a] <= call[a].total BY DEF Advanced, CallPc
    <3>3. QED BY <3>1, <3>2, SMTT(30)
  <2> USE <2>5
  <2>6. Covered(a) = CoveredBy(call[a].first, done + ChunkOf(a))
    <3> HIDE DEF done
    <3>1. done + 0 = done OBVIOUS
    <3>2. Items(a) = (call[a].first + done)..(call[a].first + done + ChunkOf(a) - 1)
      BY Zenon
    <3>3. Covered(a) = [i \in 0..SizeMax |-> CoveredBy(call[a].first, done)[i]
             + (IF i \in (call[a].first + done)..(call[a].first + done + ChunkOf(a) - 1)
                THEN 1 ELSE 0)]
      BY <3>1, <3>2, Zenon DEF Covered
    <3>4. call[a].first + done + ChunkOf(a) <= SizeMax BY Zenon
    <3>5. [i \in 0..SizeMax |-> CoveredBy(call[a].first, done)[i]
             + (IF i \in (call[a].first + done)..(call[a].first + done + ChunkOf(a) - 1)
                THEN 1 ELSE 0)]
          = CoveredBy(call[a].first, done + ChunkOf(a))
      BY <3>4, CoverGrows, ZenonT(60)
    <3>6. QED BY <3>3, <3>5, ZenonT(60)
  <2>7. Cover(a)'
    <3>1. ChunkOf(a)' = ChunkOf(a) /\ (call'[a].total - remaining'[a]) = done
      BY Zenon DEF ChunkOf
    <3>2. counted'[a] = done + ChunkOf(a) OBVIOUS
    <3>3. QED BY <2>6, <3>1, <3>2 DEF Cover, CoveredBy
  <2>8. QED BY <2>2, <2>7, Zenon DEF Resolved
<1>8. CASE Settle(a)
  <2>1. /\ apc[a] = "settle" /\ apc'[a] = "restore" /\ remaining'[a] = remaining[a] - ChunkOf(a)
        /\ offset'[a] = (offset[a] + ChunkOf(a)) % (SizeMax + 1)
        /\ UNCHANGED <<call, executed, counted>>
    BY <1>8, Zenon DEF Settle, CallTypes
  <2> USE <2>1
  <2>2. /\ ChunkOf(a) \in 1..remaining[a] /\ offset'[a] = offset[a] + ChunkOf(a)
    BY ChunkFacts, Zenon DEF CallPc
  <2> USE <2>2
  <2>3. /\ call[a].first \in Nat /\ call[a].total \in Nat /\ remaining[a] \in Nat
        /\ ChunkOf(a) \in Nat
    BY SizeAssumption DEF CallTypes, Call
  <2> USE <2>3
  <2>4. Advanced(a)'
    <3>1. /\ call[a].first + call[a].total <= SizeMax /\ remaining[a] <= call[a].total
          /\ offset[a] = call[a].first + (call[a].total - remaining[a])
      BY Zenon DEF Advanced, CallPc
    <3> USE <3>1
    <3>2. remaining'[a] <= call[a].total OBVIOUS
    <3>3. offset'[a] = call[a].first + (call[a].total - remaining'[a]) OBVIOUS
    <3>4. QED BY <3>2, <3>3 DEF Advanced
  <2>5. Cover(a)'
    <3>1. call[a].total - remaining[a] + ChunkOf(a) = call'[a].total - remaining'[a] + 0
      OBVIOUS
    <3>2. QED BY <3>1 DEF Cover, CallPc
  <2>6. QED BY <2>4, <2>5, Zenon DEF Resolved
<1>9. CASE Finish(a)
  <2>1. apc'[a] = "idle" BY <1>9, Zenon DEF Finish, CallTypes
  <2>2. QED BY <2>1, NoCallOwed, Zenon DEF Resolved
<1>10. CASE Restore(a)
  <2> USE <1>10
  <2>1. CASE remaining[a] = 0 BY <1>9, <2>1, Zenon DEF Restore
  <2>2. CASE remaining[a] # 0
    <3> USE <2>2
    <3>1. apc[a] = "restore" /\ apc'[a] = "next" BY Zenon DEF Restore, CallTypes
    <3> USE <3>1
    <3>2. Advanced(a)' /\ Cover(a)' BY <1>a, Zenon DEF Restore, CallPc
    <3>3. QED BY <3>2, Zenon DEF Resolved
  <2>3. QED BY <2>1, <2>2, Zenon
<1>11. CASE ShimAdmit(a)
  <2> USE <1>11
  <2>1. /\ apc[a] \in {"shimAdmit", "shimLast"}
        /\ apc'[a] \in {"shimCode", "shimRepair", "shimGiveUp"}
    BY Zenon DEF ShimAdmit, CallTypes
  <2> USE <2>1
  <2>2. Advanced(a)' /\ Cover(a)' BY NoCallOwed, Zenon DEF ShimPc
  <2>3. Resolved(a)' BY Zenon DEF ShimAdmit, Resolved
  <2>4. QED BY <2>2, <2>3, Zenon
<1>12. CASE ShimSnapshot(a)
  <2>1. /\ apc'[a] \in {"shimAdmit", "shimLast"} /\ chosen'[a] = word.width /\ snapshot'[a] = word
        /\ word # Nobody
    BY <1>12, Zenon DEF ShimSnapshot, CallTypes
  <2> USE <2>1
  <2>2. Advanced(a)' /\ Cover(a)' BY NoCallOwed, Zenon DEF ShimPc
  <2>3. page' = "rx" /\ word.width = word.slot /\ word.width <= AllowedMax
    BY Zenon DEF SnapshotRunnable, Permitted
  <2>4. Resolved(a)' BY <2>3, Zenon DEF Resolved
  <2>5. QED BY <2>2, <2>4, Zenon
<1>13. CASE ShimRepair(a)
  <2>1. apc'[a] \in {"shimRetry", "shimEnd"} BY <1>13, Zenon DEF ShimRepair, CallTypes
  <2> USE <2>1
  <2>2. Advanced(a)' /\ Cover(a)' BY NoCallOwed, Zenon DEF ShimPc
  <2>3. QED BY <2>2, Zenon DEF Resolved
<1>14. CASE SendCancel(a)
  <2>1. Same(a) BY <1>14, Zenon DEF SendCancel, Same
  <2>2. QED BY <2>1, ThreadStutter, Zenon DEF ThreadInv
<1>15. CASE CancelDelivered(a)
  <2> USE <1>15
  <2>1. apc[a] \in {"kernel", "next"} /\ apc'[a] = "gone" BY Zenon DEF CancelDelivered, CallTypes
  <2> USE <2>1
  <2>2. Advanced(a)' /\ Cover(a)' BY <1>a, Zenon DEF CancelDelivered, CallPc
  <2>3. QED BY <2>2, Zenon DEF Resolved
<1>16. QED
  BY <1>1, <1>2, <1>3, <1>4, <1>5, <1>6, <1>7, <1>8, <1>9, <1>10, <1>11, <1>12, <1>13, <1>14,
     <1>15, ZenonT(60) DEF CallProgress, Release, ShimReturn, ShimRefused

\* The flags of a thread's cancellation state stay flags.
LEMMA FlagTypesStep ==
  ASSUME NEW a \in App, FlagTypes,
         \/ \E c \in Call : Begin(a, c)
         \/ CallProgress(a) \/ ShimSnapshot(a) \/ ShimRepair(a) \/ SendCancel(a) \/ CancelDelivered(a)
  PROVE  FlagTypes'
<1>1. CASE UNCHANGED <<enabled, pending>> BY <1>1, Zenon DEF FlagTypes
<1>2. ASSUME NEW b \in BOOLEAN, enabled' = Set(enabled, a, b), UNCHANGED pending PROVE FlagTypes'
  BY <1>2, Zenon DEF FlagTypes, Set
<1>3. CASE pending' = Set(pending, a, TRUE) /\ UNCHANGED enabled
  BY <1>3, Zenon DEF FlagTypes, Set
<1>4. CASE ReadSelection(a) \/ Arm(a) \/ Release(a) \/ Restore(a) \/ \E ok \in BOOLEAN : KernelReturns(a, ok)
  BY <1>2, <1>4, Zenon DEF ReadSelection, Arm, Release, Restore, KernelReturns
<1>5. CASE \E c \in Call : Begin(a, c) BY <1>1, <1>5, Zenon DEF Begin
<1>6. CASE Resolve(a) \/ Admit(a) \/ Settle(a) \/ ShimAdmit(a) \/ ShimReturn(a) \/ ShimRefused(a)
  BY <1>1, <1>6, Zenon DEF Resolve, Admit, Settle, ShimAdmit, ShimReturn, ShimRefused
<1>7. CASE ShimSnapshot(a) \/ ShimRepair(a) \/ CancelDelivered(a)
  BY <1>1, <1>7, Zenon DEF ShimSnapshot, ShimRepair, CancelDelivered
<1>8. CASE SendCancel(a) BY <1>3, <1>8, Zenon DEF SendCancel
<1>9. QED BY <1>4, <1>5, <1>6, <1>7, <1>8, Zenon DEF CallProgress

\* Selections stay within what the policy allows, and a page that is executable
\* is never unmapped.
LEMMA PermittedStep ==
  ASSUME NEW t \in Thread, TrampolineTypeOK, Page, Permitted, CallStep(t) \/ Enter(t)
  PROVE  Permitted' /\ (page = "rx" => page' = "rx")
<1> USE DEF mirrors, attestation, locks
<1>0. DOMAIN target = Thread /\ AllowedMax \in Nat BY DEF TrampolineTypeOK
<1> USE <1>0
<1>1. CASE UNCHANGED <<target, word, page>> BY <1>1, Zenon DEF Permitted
<1>2. ASSUME Leave(t), UNCHANGED word PROVE Permitted' BY <1>2, Zenon DEF Leave, Permitted
<1>3. ASSUME NEW w \in Width, PatchEnter(t, w) PROVE Permitted' /\ (page = "rx" => page' = "rx")
  BY <1>3, Zenon DEF PatchEnter, Permitted
<1>4. CASE InitEnter(t) \/ ValidateEnter(t) \/ AttestLocks(t)
  BY <1>1, <1>4, Zenon DEF InitEnter, ValidateEnter, AttestLocks
<1>5. CASE BuildMap(t)
  <2> USE <1>5
  <2>1. page # "rx" /\ UNCHANGED word BY Zenon DEF BuildMap, Page
  <2> USE <2>1
  <2>2. CASE UNCHANGED target BY <2>2, Zenon DEF Permitted
  <2>3. QED BY <1>2, <2>2, Zenon DEF BuildMap
<1>6. CASE BuildProtect(t)
  <2> USE <1>6
  <2>1. page # "rx" /\ UNCHANGED word BY Zenon DEF BuildProtect, Page
  <2> USE <2>1
  <2>2. CASE UNCHANGED target BY <2>2, Zenon DEF Permitted
  <2>3. QED BY <1>2, <2>2, Zenon DEF BuildProtect
<1>7. CASE PatchVerify(t) \/ Validate(t) \/ AttestReport(t)
  <2> USE <1>7
  <2>1. UNCHANGED <<word, page>> BY Zenon DEF PatchVerify, Validate, AttestReport
  <2>2. QED BY <1>1, <1>2, <2>1, Zenon DEF PatchVerify, Validate, AttestReport
<1>8. CASE CommitHash(t) \/ ResetHash(t)
  <2> USE <1>8
  <2>1. UNCHANGED <<word, page>> BY Zenon DEF CommitHash, ResetHash
  <2>2. QED BY <1>2, <2>1, Zenon DEF CommitHash, ResetHash
<1>9. CASE CommitBegin(t) \/ PublishMirrors(t) \/ ResetBegin(t)
  BY <1>1, <1>9, Zenon DEF CommitBegin, PublishMirrors, ResetBegin
<1>10. CASE PublishWord(t)
  <2> USE <1>10
  <2>1. target[t] # Nobody /\ page = "rx" /\ UNCHANGED <<target, page>>
    BY Zenon DEF PublishWord, Page, CommitPc
  <2> USE <2>1
  <2>2. word' = [width |-> target[t], slot |-> target[t]]
    BY Zenon DEF PublishWord, Encode, SlotOf
  <2>3. word'.width <= AllowedMax BY <2>2, Zenon DEF Permitted
  <2>4. QED BY <2>3, Zenon DEF Permitted
<1>11. CASE Reset(t)
  <2> USE <1>11
  <2>1. page = "rx" /\ UNCHANGED <<target, page>> BY Zenon DEF Reset, Page, ResetPc
  <2> USE <2>1
  <2>2. word' = word \/ word' = [width |-> 0, slot |-> 0]
    BY Zenon DEF Reset, Encode, SlotOf
  <2>3. word' # Nobody => word'.width <= AllowedMax BY <2>2 DEF Permitted
  <2>4. QED BY <2>3 DEF Permitted
<1>12. QED
  BY <1>3, <1>4, <1>5, <1>6, <1>7, <1>8, <1>9, <1>10, <1>11, Zenon DEF CallStep, Enter

\* ExecutionInv is kept by every step of the process.
LEMMA ExecutionStep ==
  ASSUME TableInv, ExecutionInv, [Next]_vars
  PROVE  ExecutionInv'
<1>0. /\ TrampolineTypeOK /\ Page /\ SnapshotRunnable /\ Permitted /\ CallTypes /\ FlagTypes
      /\ \A a \in App : ThreadInv(a)
  BY Zenon DEF TableInv, ExecutionInv
<1> USE <1>0
<1>1. ASSUME UNCHANGED callVars, Permitted', page = "rx" => page' = "rx" PROVE ExecutionInv'
  <2> USE <1>1
  <2>1. CallTypes' BY Zenon DEF callVars, CallTypes
  <2>2. FlagTypes' BY Zenon DEF callVars, FlagTypes
  <2>3. \A a \in App : ThreadInv(a)' BY ThreadStutter, Zenon DEF callVars, Same
  <2>4. QED BY <2>1, <2>2, <2>3, Zenon DEF ExecutionInv
<1>2. ASSUME UNCHANGED trampolineVars PROVE Permitted' /\ (page = "rx" => page' = "rx")
  BY <1>2, Zenon DEF trampolineVars, Permitted
<1>3. CASE SelectorStep
  BY <1>1, <1>3, PermittedStep, Zenon DEF SelectorStep
<1>4. CASE GateStep BY <1>1, <1>2, <1>4, Zenon DEF GateStep
<1>5. CASE UNCHANGED vars BY <1>1, <1>2, <1>5, Zenon DEF vars
<1>6. ASSUME NEW a \in App,
             \/ \E c \in Call : Begin(a, c)
             \/ CallProgress(a) \/ ShimSnapshot(a) \/ ShimRepair(a) \/ SendCancel(a)
             \/ CancelDelivered(a)
      PROVE  ExecutionInv'
  <2> USE <1>6
  <2>1. Permitted' /\ (page = "rx" => page' = "rx")
    <3>1. CASE ShimRepair(a) BY <3>1, PermittedStep DEF ShimRepair, Enter
    <3>2. CASE UNCHANGED trampolineVars BY <1>2, <3>2
    <3>3. CASE \E c \in Call : Begin(a, c) BY <3>2, <3>3, Zenon DEF Begin
    <3>4. CASE CallProgress(a)
      BY <3>2, <3>4, ZenonT(60) DEF CallProgress, ReadSelection, Resolve, Admit, Arm, KernelReturns,
         Settle, Release, Restore, ShimAdmit, ShimReturn, ShimRefused
    <3>5. CASE ShimSnapshot(a) \/ SendCancel(a) \/ CancelDelivered(a)
      BY <3>2, <3>5, Zenon DEF ShimSnapshot, SendCancel, CancelDelivered
    <3>6. QED BY <3>1, <3>3, <3>4, <3>5, Zenon
  <2> USE <2>1
  <2>2. CallTypes' BY CallTypesStep, Zenon
  <2>3. FlagTypes' BY FlagTypesStep, Zenon
  <2>4. ThreadInv(a)' BY ThreadStep, Zenon
  <2>5. \A b \in App \ {a} : ThreadInv(b)' BY OthersKept, ThreadStutter, Zenon
  <2>6. QED BY <2>2, <2>3, <2>4, <2>5, Zenon DEF ExecutionInv
<1>7. QED BY <1>3, <1>4, <1>5, <1>6, Zenon DEF Next

LEMMA ExecutionInit == Init => ExecutionInv
<1> SUFFICES ASSUME Init PROVE ExecutionInv BY Zenon
<1>1. Permitted BY Zenon DEF Init, TrampolineInit, Permitted
<1>2. CallTypes
  <2>1. NoCall \in Call /\ NoSelection \in Selection
    BY SizeAssumption DEF NoCall, NoSelection, Call, Selection
  <2>2. 0 \in 0..SizeMax /\ 0 \in 0..MaxTotal BY SizeAssumption
  <2>3. QED BY <2>1, <2>2 DEF Init, CallTypes
<1>3. FlagTypes BY Zenon DEF Init, FlagTypes
<1>4. ASSUME NEW a \in App PROVE ThreadInv(a)
  <2>1. apc[a] = "idle" BY Zenon DEF Init
  <2>2. QED BY <2>1, Zenon DEF ThreadInv, Resolved, Advanced, Cover, CallPc
<1>5. QED BY <1>1, <1>2, <1>3, <1>4, Zenon DEF ExecutionInv
----------------------------------------------------------------------------
(* The inductive steps of the selection word and of the admissions.        *)

\* The first state satisfies both invariants.
LEMMA TableInit == TrampolineInit => TableInv
<1> SUFFICES ASSUME TrampolineInit PROVE TableInv BY Zenon
<1> USE DEF TrampolineInit
<1>1. TrampolineTypeOK
  <2>1. page \in {"none", "rw", "rx"} /\ word \in Selection \cup {Nobody} BY Zenon
  <2>2. width \in Width /\ slot \in Width \cup {Nobody} /\ hash \in Width \cup {Nobody} OBVIOUS
  <2>3. initialized \in BOOLEAN /\ hashValid \in BOOLEAN BY Zenon
  <2>4. patchLock \in Thread \cup {Nobody} /\ attestLock \in Thread \cup {Nobody} BY Zenon
  <2>5. pc \in [Thread -> {"idle"} \cup BuildPc \cup CommitPc \cup ResetPc \cup ReadPc] BY Zenon
  <2>6. target \in [Thread -> Width \cup {Nobody}] BY Zenon
  <2>7. QED BY <2>1, <2>2, <2>3, <2>4, <2>5, <2>6, Zenon DEF TrampolineTypeOK
<1>2. Locks BY Zenon DEF Locks, AttestPc
<1>3. Page BY Zenon DEF Page, CommitPc, ResetPc
<1>4. SnapshotRunnable BY Zenon DEF SnapshotRunnable
<1>5. Agreement BY Zenon DEF Agreement, TornPc, ErasingPc
<1>6. Attested BY Zenon DEF Attested, ErasingPc
<1>7. QED BY <1>1, <1>2, <1>3, <1>4, <1>5, <1>6, Zenon DEF TableInv

\* Every step of a selection, reset, validation or attestation keeps TableInv.
LEMMA TableStep ==
  ASSUME NEW t \in Thread, TableInv, CallStep(t) \/ Enter(t)
  PROVE  TableInv'
<1> USE DEF mirrors, attestation, locks
<1>0. TrampolineTypeOK /\ Locks /\ Page /\ SnapshotRunnable /\ Agreement /\ Attested
  BY Zenon DEF TableInv
<1> USE <1>0
<1>1. ASSUME NEW w \in Width, PatchEnter(t, w) PROVE TableInv'
  <2> USE <1>1
  <2>1. TrampolineTypeOK'
    BY Zenon DEF PatchEnter, NeedsPage, Goto, TrampolineTypeOK, BuildPc, CommitPc, ResetPc,
       ReadPc, Selection
  <2>2. Locks'
    BY Zenon DEF PatchEnter, NeedsPage, Goto, TrampolineTypeOK, BuildPc, CommitPc, ResetPc,
       ReadPc, Selection, Locks, AttestPc
  <2>3. Page'
    BY ZenonT(60) DEF PatchEnter, NeedsPage, Goto, TrampolineTypeOK, BuildPc, CommitPc, ResetPc,
       ReadPc, Selection, Locks, AttestPc, Page
  <2>4. SnapshotRunnable'
    BY Zenon DEF PatchEnter, NeedsPage, Goto, SnapshotRunnable
  <2>5. Agreement'
    BY DEF PatchEnter, NeedsPage, Goto, Agreement, TornPc, ErasingPc
  <2>6. Attested'
    BY DEF PatchEnter, NeedsPage, Goto, Attested, ErasingPc
  <2>7. QED BY <2>1, <2>2, <2>3, <2>4, <2>5, <2>6 DEF TableInv
<1>2. ASSUME InitEnter(t) PROVE TableInv'
  <2> USE <1>2
  <2>1. TrampolineTypeOK'
    BY Zenon DEF InitEnter, NeedsPage, Goto, TrampolineTypeOK, BuildPc, CommitPc, ResetPc,
       ReadPc, Selection
  <2>2. Locks'
    BY Zenon DEF InitEnter, NeedsPage, Goto, TrampolineTypeOK, BuildPc, CommitPc, ResetPc,
       ReadPc, Selection, Locks, AttestPc
  <2>3. Page'
    BY ZenonT(60) DEF InitEnter, NeedsPage, Goto, TrampolineTypeOK, BuildPc, CommitPc, ResetPc,
       ReadPc, Selection, Locks, AttestPc, Page
  <2>4. SnapshotRunnable'
    BY Zenon DEF InitEnter, NeedsPage, Goto, SnapshotRunnable
  <2>5. Agreement'
    BY DEF InitEnter, NeedsPage, Goto, Agreement, TornPc, ErasingPc
  <2>6. Attested'
    BY DEF InitEnter, NeedsPage, Goto, Attested, ErasingPc
  <2>7. QED BY <2>1, <2>2, <2>3, <2>4, <2>5, <2>6 DEF TableInv
<1>3. ASSUME BuildMap(t) PROVE TableInv'
  <2> USE <1>3
  <2>1. TrampolineTypeOK'
    BY ZenonT(60) DEF BuildMap, Leave, Goto, TrampolineTypeOK, BuildPc, CommitPc, ResetPc, ReadPc,
       Selection
  <2>2. Locks'
    BY DEF BuildMap, Leave, Goto, TrampolineTypeOK, BuildPc, CommitPc, ResetPc, ReadPc, Selection,
         Locks, AttestPc
  <2>3. Page'
    BY DEF BuildMap, Leave, Goto, TrampolineTypeOK, BuildPc, CommitPc, ResetPc, ReadPc, Selection,
         Locks, AttestPc, Page
  <2>4. SnapshotRunnable'
    BY Zenon DEF BuildMap, Leave, Goto, TrampolineTypeOK, BuildPc, CommitPc, ResetPc, ReadPc,
       Selection, Locks, AttestPc, Page, SnapshotRunnable
  <2>5. Agreement'
    BY SMTT(30) DEF BuildMap, Leave, Goto, TrampolineTypeOK, BuildPc, CommitPc, ResetPc, ReadPc, Selection,
         Locks, AttestPc, Page, SnapshotRunnable, Agreement, TornPc, ErasingPc
  <2>6. Attested'
    BY DEF BuildMap, Leave, Goto, TrampolineTypeOK, BuildPc, CommitPc, ResetPc, ReadPc, Selection,
         Locks, AttestPc, Page, SnapshotRunnable, Attested, ErasingPc
  <2>7. QED BY <2>1, <2>2, <2>3, <2>4, <2>5, <2>6, Zenon DEF TableInv
<1>4. ASSUME BuildProtect(t) PROVE TableInv'
  <2> USE <1>4
  <2>1. TrampolineTypeOK'
    BY Zenon DEF BuildProtect, Leave, Goto, TrampolineTypeOK, BuildPc, CommitPc, ResetPc, ReadPc,
       Selection
  <2>2. Locks'
    BY DEF BuildProtect, Leave, Goto, TrampolineTypeOK, BuildPc, CommitPc, ResetPc, ReadPc,
         Selection, Locks, AttestPc
  <2>3. Page'
    BY DEF BuildProtect, Leave, Goto, TrampolineTypeOK, BuildPc, CommitPc, ResetPc, ReadPc,
         Selection, Locks, AttestPc, Page
  <2>4. SnapshotRunnable'
    BY Zenon DEF BuildProtect, Leave, Goto, TrampolineTypeOK, BuildPc, CommitPc, ResetPc, ReadPc,
       Selection, Locks, AttestPc, Page, SnapshotRunnable
  <2>5. Agreement'
    BY SMTT(30) DEF BuildProtect, Leave, Goto, TrampolineTypeOK, BuildPc, CommitPc, ResetPc, ReadPc,
         Selection, Locks, AttestPc, Page, SnapshotRunnable, Agreement, TornPc, ErasingPc
  <2>6. Attested'
    BY DEF BuildProtect, Leave, Goto, TrampolineTypeOK, BuildPc, CommitPc, ResetPc, ReadPc,
         Selection, Locks, AttestPc, Page, SnapshotRunnable, Attested, ErasingPc
  <2>7. QED BY <2>1, <2>2, <2>3, <2>4, <2>5, <2>6, Zenon DEF TableInv
<1>5. ASSUME PatchVerify(t) PROVE TableInv'
  <2> USE <1>5
  <2>1. TrampolineTypeOK'
    BY ZenonT(60) DEF PatchVerify, Leave, Goto, TrampolineTypeOK, BuildPc, CommitPc, ResetPc, ReadPc,
       Selection
  <2>2. Locks'
    BY DEF PatchVerify, Leave, Goto, TrampolineTypeOK, BuildPc, CommitPc, ResetPc, ReadPc,
         Selection, Locks, AttestPc
  <2>3. Page'
    BY DEF PatchVerify, Leave, Goto, TrampolineTypeOK, BuildPc, CommitPc, ResetPc, ReadPc,
         Selection, Locks, AttestPc, Page
  <2>4. SnapshotRunnable'
    BY Zenon DEF PatchVerify, Leave, Goto, SnapshotRunnable
  <2>5. Agreement'
    BY SMTT(30) DEF PatchVerify, Leave, Goto, TrampolineTypeOK, BuildPc, CommitPc, ResetPc, ReadPc,
         Selection, Locks, AttestPc, Page, SnapshotRunnable, Agreement, TornPc, ErasingPc
  <2>6. Attested'
    BY DEF PatchVerify, Leave, Goto, TrampolineTypeOK, BuildPc, CommitPc, ResetPc, ReadPc,
         Selection, Locks, AttestPc, Page, SnapshotRunnable, Attested, ErasingPc
  <2>7. QED BY <2>1, <2>2, <2>3, <2>4, <2>5, <2>6, Zenon DEF TableInv
<1>6. ASSUME CommitBegin(t) PROVE TableInv'
  <2> USE <1>6
  <2>1. TrampolineTypeOK'
    BY Zenon DEF CommitBegin, Goto, TrampolineTypeOK, BuildPc, CommitPc, ResetPc, ReadPc, Selection
  <2>2. Locks'
    BY ZenonT(60) DEF CommitBegin, Goto, TrampolineTypeOK, BuildPc, CommitPc, ResetPc, ReadPc,
       Selection, Locks, AttestPc
  <2>3. Page'
    BY DEF CommitBegin, Goto, Page, CommitPc, ResetPc
  <2>4. SnapshotRunnable'
    BY Zenon DEF CommitBegin, Goto, SnapshotRunnable
  <2>5. Agreement'
    BY DEF CommitBegin, Goto, Agreement, TornPc, ErasingPc
  <2>6. Attested'
    BY Zenon DEF CommitBegin, Goto, Attested, ErasingPc
  <2>7. QED BY <2>1, <2>2, <2>3, <2>4, <2>5, <2>6, Zenon DEF TableInv
<1>7. ASSUME PublishWord(t) PROVE TableInv'
  <2> USE <1>7
  <2>1. TrampolineTypeOK'
    BY Zenon DEF PublishWord, Encode, SlotOf, Goto, TrampolineTypeOK, BuildPc, CommitPc, ResetPc,
       ReadPc, Selection
  <2>2. Locks'
    BY DEF PublishWord, Encode, SlotOf, Goto, Locks, AttestPc
  <2>3. Page'
    BY DEF PublishWord, Encode, SlotOf, Goto, Page, CommitPc, ResetPc
  <2>4. SnapshotRunnable'
    BY Zenon DEF PublishWord, Encode, SlotOf, Goto, TrampolineTypeOK, BuildPc, CommitPc, ResetPc,
       ReadPc, Selection, Locks, AttestPc, Page, SnapshotRunnable
  <2>5. Agreement'
    <3>a. pc \in [Thread -> {"idle"} \cup BuildPc \cup CommitPc \cup ResetPc \cup ReadPc]
      BY Zenon DEF TrampolineTypeOK
    <3> USE <3>a
    <3>b. page = "rx" BY Zenon DEF PublishWord, Page, CommitPc, ResetPc
    <3>c. \A u \in Thread : u # t => pc[u] = "idle" BY Zenon DEF PublishWord, Locks
    <3> USE <3>c
    <3>d. \A u \in Thread : u # t => pc'[u] = "idle" BY Zenon DEF PublishWord, Goto
    <3>1. /\ pc \in [Thread -> {"idle"} \cup BuildPc \cup CommitPc \cup ResetPc \cup ReadPc]
          /\ page = "rx" /\ \A u \in Thread : u # t => pc[u] = "idle" /\ pc'[u] = "idle"
      BY <3>b, <3>d, Zenon
    <3> USE <3>1
    <3>2. target[t] # Nobody BY Zenon DEF PublishWord, Page, CommitPc
    <3> USE <3>2
    <3>3. pc'[t] = "width" /\ word' = [width |-> target[t], slot |-> target[t]]
      BY Zenon DEF PublishWord, Encode, SlotOf, Goto
    <3> USE <3>3
    <3>4. word' # Nobody BY NobodyRecord, Zenon DEF TrampolineTypeOK
    <3>5. UNCHANGED <<target, width, initialized>> BY Zenon DEF PublishWord
    <3>6. QED BY <3>4, <3>5, Zenon DEF Agreement, TornPc, ErasingPc
  <2>6. Attested'
    BY Zenon DEF PublishWord, Encode, SlotOf, Goto, Attested, ErasingPc
  <2>7. QED BY <2>1, <2>2, <2>3, <2>4, <2>5, <2>6, Zenon DEF TableInv
<1>8. ASSUME PublishMirrors(t) PROVE TableInv'
  <2> USE <1>8
  <2>1. TrampolineTypeOK'
    <3>1. pc[t] \in CommitPc /\ page = "rx" /\ target[t] \in Width
      BY Zenon DEF PublishMirrors, Page, CommitPc, TrampolineTypeOK
    <3>2. pc' \in [Thread -> {"idle"} \cup BuildPc \cup CommitPc \cup ResetPc \cup ReadPc]
      BY ZenonT(60) DEF PublishMirrors, Goto, TrampolineTypeOK, BuildPc, CommitPc, ResetPc, ReadPc,
         Selection
    <3>3. width' \in Width /\ slot' \in Width \cup {Nobody}
      BY <3>1, Zenon DEF PublishMirrors, SlotOf, TrampolineTypeOK
    <3>4. initialized' \in BOOLEAN BY Zenon DEF PublishMirrors, TrampolineTypeOK
    <3>5. QED BY <3>2, <3>3, <3>4, Zenon DEF PublishMirrors, TrampolineTypeOK
  <2>2. Locks'
    BY DEF PublishMirrors, SlotOf, Goto, TrampolineTypeOK, BuildPc, CommitPc, ResetPc, ReadPc,
         Selection, Locks, AttestPc
  <2>3. Page'
    BY DEF PublishMirrors, SlotOf, Goto, TrampolineTypeOK, BuildPc, CommitPc, ResetPc, ReadPc,
         Selection, Locks, AttestPc, Page
  <2>4. SnapshotRunnable'
    BY Zenon DEF PublishMirrors, SlotOf, Goto, SnapshotRunnable
  <2>5. Agreement'
    <3>a. pc \in [Thread -> {"idle"} \cup BuildPc \cup CommitPc \cup ResetPc \cup ReadPc]
      BY Zenon DEF TrampolineTypeOK
    <3> USE <3>a
    <3>b. page = "rx" BY Zenon DEF PublishMirrors, Page, CommitPc, ResetPc
    <3>c. \A u \in Thread : u # t => pc[u] = "idle" BY Zenon DEF PublishMirrors, Locks
    <3> USE <3>c
    <3>d. \A u \in Thread : u # t => pc'[u] = "idle" BY Zenon DEF PublishMirrors, Goto
    <3>1. /\ pc \in [Thread -> {"idle"} \cup BuildPc \cup CommitPc \cup ResetPc \cup ReadPc]
          /\ page = "rx" /\ \A u \in Thread : u # t => pc[u] = "idle" /\ pc'[u] = "idle"
      BY <3>b, <3>d, Zenon
    <3> USE <3>1
    <3>2. /\ word = [width |-> target[t], slot |-> target[t]] /\ target[t] # Nobody
          /\ UNCHANGED <<word, target>>
      BY Zenon DEF PublishMirrors, Agreement, Page, CommitPc
    <3> USE <3>2
    <3>3. word # Nobody BY NobodyRecord, Zenon DEF TrampolineTypeOK
    <3> USE <3>3
    <3>4. CASE pc[t] = "width"
      <4>1. pc'[t] = "slot" /\ width' = target[t] BY <3>4, Zenon DEF PublishMirrors, Goto
      <4>2. QED BY <4>1, Zenon DEF Agreement, TornPc, ErasingPc
    <3>5. CASE pc[t] = "slot"
      <4>1. /\ pc'[t] = "ready" /\ width' = width /\ width = target[t] /\ slot' = target[t]
        BY <3>5, Zenon DEF PublishMirrors, Goto, SlotOf, Agreement
      <4>2. QED BY <4>1, Zenon DEF Agreement, TornPc, ErasingPc
    <3>6. CASE pc[t] = "ready"
      <4> USE <3>6
      <4>1. /\ pc'[t] = "hash" /\ UNCHANGED <<width, slot>> /\ initialized'
        BY Zenon DEF PublishMirrors, Goto
      <4>2. width = word.width /\ slot = word.slot
        BY Zenon DEF Agreement, TornPc
      <4>3. QED BY <4>1, <4>2, Zenon DEF Agreement, TornPc, ErasingPc
    <3>7. QED BY <3>4, <3>5, <3>6, Zenon DEF PublishMirrors
  <2>6. Attested'
    BY Zenon DEF PublishMirrors, SlotOf, Goto, Attested, ErasingPc
  <2>7. QED BY <2>1, <2>2, <2>3, <2>4, <2>5, <2>6, Zenon DEF TableInv
<1>9. ASSUME CommitHash(t) PROVE TableInv'
  <2> USE <1>9
  <2>1. TrampolineTypeOK'
    BY Zenon DEF CommitHash, Leave, Goto, TrampolineTypeOK, BuildPc, CommitPc, ResetPc, ReadPc,
       Selection
  <2>2. Locks'
    BY ZenonT(60) DEF CommitHash, Leave, Goto, TrampolineTypeOK, BuildPc, CommitPc, ResetPc, ReadPc,
       Selection, Locks, AttestPc
  <2>3. Page'
    BY Zenon DEF CommitHash, Leave, Goto, TrampolineTypeOK, BuildPc, CommitPc, ResetPc, ReadPc,
       Selection, Locks, AttestPc, Page
  <2>4. SnapshotRunnable'
    BY Zenon DEF CommitHash, Leave, Goto, SnapshotRunnable
  <2>5. Agreement'
    BY ZenonT(60) DEF CommitHash, Leave, Goto, TrampolineTypeOK, BuildPc, CommitPc, ResetPc, ReadPc,
       Selection, Locks, AttestPc, Page, SnapshotRunnable, Agreement, TornPc, ErasingPc
  <2>6. Attested'
    <3>1. initialized /\ word = [width |-> target[t], slot |-> target[t]] /\ target[t] # Nobody
      BY Zenon DEF CommitHash, Agreement, Page, CommitPc
    <3>2. \A u \in Thread : pc'[u] = "idle"
      BY Zenon DEF CommitHash, Leave, Goto, Locks, TrampolineTypeOK
    <3>3. QED BY <3>1, <3>2, Zenon DEF CommitHash, Attested, ErasingPc
  <2>7. QED BY <2>1, <2>2, <2>3, <2>4, <2>5, <2>6, Zenon DEF TableInv
<1>10. ASSUME ResetBegin(t) PROVE TableInv'
  <2> USE <1>10
  <2>1. TrampolineTypeOK'
    BY Zenon DEF ResetBegin, Goto, TrampolineTypeOK, BuildPc, CommitPc, ResetPc, ReadPc, Selection
  <2>2. Locks'
    BY ZenonT(60) DEF ResetBegin, Goto, TrampolineTypeOK, BuildPc, CommitPc, ResetPc, ReadPc,
       Selection, Locks, AttestPc
  <2>3. Page'
    BY DEF ResetBegin, Goto, Page, CommitPc, ResetPc
  <2>4. SnapshotRunnable'
    BY Zenon DEF ResetBegin, Goto, SnapshotRunnable
  <2>5. Agreement'
    BY DEF ResetBegin, Goto, Agreement, TornPc, ErasingPc
  <2>6. Attested'
    BY SMTT(30) DEF ResetBegin, Goto, Attested, ErasingPc
  <2>7. QED BY <2>1, <2>2, <2>3, <2>4, <2>5, <2>6 DEF TableInv
<1>11. ASSUME Reset(t) PROVE TableInv'
  <2> USE <1>11
  <2>1. TrampolineTypeOK'
    <3>1. page = "rx" BY Zenon DEF Reset, Page, ResetPc
    <3> USE <3>1
    <3>2. pc' \in [Thread -> {"idle"} \cup BuildPc \cup CommitPc \cup ResetPc \cup ReadPc]
      BY DEF Reset, Goto, TrampolineTypeOK, BuildPc, CommitPc, ResetPc, ReadPc, Selection
    <3>3. width' \in Width /\ slot' \in Width \cup {Nobody}
      BY DEF Reset, SlotOf, TrampolineTypeOK
    <3>4. initialized' \in BOOLEAN BY Zenon DEF Reset, TrampolineTypeOK
    <3>5. word' \in Selection \cup {Nobody}
      BY SMTT(30) DEF Reset, Encode, SlotOf, Selection, TrampolineTypeOK
    <3>6. QED BY <3>2, <3>3, <3>4, <3>5 DEF Reset, TrampolineTypeOK
  <2>2. Locks'
    BY SMTT(30) DEF Reset, Encode, SlotOf, Goto, TrampolineTypeOK, BuildPc, CommitPc, ResetPc, ReadPc,
         Selection, Locks, AttestPc
  <2>3. Page'
    BY SMTT(30) DEF Reset, Encode, SlotOf, Goto, TrampolineTypeOK, BuildPc, CommitPc, ResetPc, ReadPc,
         Selection, Locks, AttestPc, Page
  <2>4. SnapshotRunnable'
    BY DEF Reset, Encode, SlotOf, Goto, TrampolineTypeOK, BuildPc, CommitPc, ResetPc, ReadPc,
         Selection, Locks, AttestPc, Page, SnapshotRunnable
  <2>5. Agreement'
    <3>a. pc \in [Thread -> {"idle"} \cup BuildPc \cup CommitPc \cup ResetPc \cup ReadPc]
      BY Zenon DEF TrampolineTypeOK
    <3> USE <3>a
    <3>b. page = "rx" BY Zenon DEF Reset, Page, CommitPc, ResetPc
    <3>c. \A u \in Thread : u # t => pc[u] = "idle" BY Zenon DEF Reset, Locks
    <3> USE <3>c
    <3>d. \A u \in Thread : u # t => pc'[u] = "idle" BY ZenonT(60) DEF Reset, Goto
    <3>1. /\ pc \in [Thread -> {"idle"} \cup BuildPc \cup CommitPc \cup ResetPc \cup ReadPc]
          /\ page = "rx" /\ \A u \in Thread : u # t => pc[u] = "idle" /\ pc'[u] = "idle"
      BY <3>b, <3>d, Zenon
    <3> USE <3>1
    <3>2. CASE pc[t] = "resetWord"
      <4>1. /\ pc'[t] = "resetWidth" /\ word' = [width |-> 0, slot |-> 0]
        BY <3>2, ZenonT(60) DEF Reset, Goto, Encode, SlotOf
      <4> USE <4>1
      <4>2. word' # Nobody BY NobodyRecord
      <4>3. QED BY <4>2 DEF Agreement, TornPc, ErasingPc
    <3>3. ASSUME pc[t] \in {"resetWidth", "resetSlot", "resetReady"} PROVE Agreement'
      <4> USE <3>3
      <4>1. word = [width |-> 0, slot |-> 0] /\ UNCHANGED word
        BY Zenon DEF Reset, Agreement, ErasingPc
      <4> USE <4>1
      <4>2. word # Nobody BY NobodyRecord, SMTT(30)
      <4> USE <4>2
      <4>3. CASE pc[t] = "resetWidth"
        <5>1. pc'[t] = "resetSlot" /\ width' = 0 BY <4>3, Zenon DEF Reset, Goto
        <5>2. QED BY <5>1, Zenon DEF Agreement, TornPc, ErasingPc
      <4>4. CASE pc[t] = "resetSlot"
        <5>1. pc'[t] = "resetReady" /\ width' = width /\ width = 0 /\ slot' = 0
          BY <4>4, Zenon DEF Reset, Goto, SlotOf, Agreement
        <5>2. QED BY <5>1, Zenon DEF Agreement, TornPc, ErasingPc
      <4>5. CASE pc[t] = "resetReady"
        <5> USE <4>5
        <5>1. pc'[t] = "resetHash" /\ UNCHANGED <<width, slot>> /\ ~initialized'
          BY Zenon DEF Reset, Goto
        <5>2. width = word.width /\ slot = word.slot
          BY Zenon DEF Agreement, TornPc
        <5>3. QED BY <5>1, <5>2, Zenon DEF Agreement, TornPc, ErasingPc
      <4>6. QED BY <4>3, <4>4, <4>5, Zenon
    <3>4. QED BY <3>2, <3>3, Zenon DEF Reset
  <2>6. Attested'
    BY DEF Reset, Encode, SlotOf, Goto, TrampolineTypeOK, BuildPc, CommitPc, ResetPc, ReadPc,
         Selection, Locks, AttestPc, Page, SnapshotRunnable, Attested, ErasingPc
  <2>7. QED BY <2>1, <2>2, <2>3, <2>4, <2>5, <2>6, Zenon DEF TableInv
<1>12. ASSUME ResetHash(t) PROVE TableInv'
  <2> USE <1>12
  <2>1. TrampolineTypeOK'
    BY Zenon DEF ResetHash, Leave, Goto, TrampolineTypeOK, BuildPc, CommitPc, ResetPc, ReadPc,
         Selection
  <2>2. Locks'
    BY ZenonT(60) DEF ResetHash, Leave, Goto, TrampolineTypeOK, BuildPc, CommitPc, ResetPc, ReadPc,
       Selection, Locks, AttestPc
  <2>3. Page'
    BY DEF ResetHash, Leave, Goto, Page, CommitPc, ResetPc
  <2>4. SnapshotRunnable'
    BY Zenon DEF ResetHash, Leave, Goto, SnapshotRunnable
  <2>5. Agreement'
    BY DEF ResetHash, Leave, Goto, Agreement, TornPc, ErasingPc
  <2>6. Attested'
    BY Zenon DEF ResetHash, Leave, Goto, Attested, ErasingPc
  <2>7. QED BY <2>1, <2>2, <2>3, <2>4, <2>5, <2>6, Zenon DEF TableInv
<1>13. ASSUME ValidateEnter(t) PROVE TableInv'
  <2> USE <1>13
  <2>1. TrampolineTypeOK'
    BY Zenon DEF ValidateEnter, Goto, TrampolineTypeOK, BuildPc, CommitPc, ResetPc, ReadPc,
       Selection
  <2>2. Locks'
    BY Zenon DEF ValidateEnter, Goto, TrampolineTypeOK, BuildPc, CommitPc, ResetPc, ReadPc,
       Selection, Locks, AttestPc
  <2>3. Page'
    BY SMTT(30) DEF ValidateEnter, Goto, Page, CommitPc, ResetPc
  <2>4. SnapshotRunnable'
    BY Zenon DEF ValidateEnter, Goto, SnapshotRunnable
  <2>5. Agreement'
    BY DEF ValidateEnter, Goto, Agreement, TornPc, ErasingPc
  <2>6. Attested'
    BY DEF ValidateEnter, Goto, Attested, ErasingPc
  <2>7. QED BY <2>1, <2>2, <2>3, <2>4, <2>5, <2>6 DEF TableInv
<1>14. ASSUME Validate(t) PROVE TableInv'
  <2> USE <1>14
  <2>1. TrampolineTypeOK'
    BY Zenon DEF Validate, Leave, Goto, TrampolineTypeOK, BuildPc, CommitPc, ResetPc, ReadPc,
       Selection
  <2>2. Locks'
    BY Zenon DEF Validate, Leave, Goto, TrampolineTypeOK, BuildPc, CommitPc, ResetPc, ReadPc,
       Selection, Locks, AttestPc
  <2>3. Page'
    BY DEF Validate, Leave, Goto, Page, CommitPc, ResetPc
  <2>4. SnapshotRunnable'
    BY Zenon DEF Validate, Leave, Goto, SnapshotRunnable
  <2>5. Agreement'
    BY DEF Validate, Leave, Goto, Agreement, TornPc, ErasingPc
  <2>6. Attested'
    BY DEF Validate, Leave, Goto, Attested, ErasingPc
  <2>7. QED BY <2>1, <2>2, <2>3, <2>4, <2>5, <2>6 DEF TableInv
<1>15. ASSUME AttestLocks(t) PROVE TableInv'
  <2> USE <1>15
  <2>1. TrampolineTypeOK'
    BY ZenonT(60) DEF AttestLocks, Goto, TrampolineTypeOK, BuildPc, CommitPc, ResetPc, ReadPc,
       Selection
  <2>2. Locks'
    BY DEF AttestLocks, Goto, TrampolineTypeOK, BuildPc, CommitPc, ResetPc, ReadPc, Selection,
         Locks, AttestPc
  <2>3. Page'
    BY SMTT(30) DEF AttestLocks, Goto, TrampolineTypeOK, BuildPc, CommitPc, ResetPc, ReadPc,
         Selection, Locks, AttestPc, Page
  <2>4. SnapshotRunnable'
    BY ZenonT(60) DEF AttestLocks, Goto, SnapshotRunnable
  <2>5. Agreement'
    BY SMTT(30) DEF AttestLocks, Goto, TrampolineTypeOK, BuildPc, CommitPc, ResetPc, ReadPc,
         Selection, Locks, AttestPc, Page, SnapshotRunnable, Agreement, TornPc, ErasingPc
  <2>6. Attested'
    BY ZenonT(60) DEF AttestLocks, Goto, TrampolineTypeOK, BuildPc, CommitPc, ResetPc, ReadPc,
       Selection, Locks, AttestPc, Page, SnapshotRunnable, Attested, ErasingPc
  <2>7. QED BY <2>1, <2>2, <2>3, <2>4, <2>5, <2>6, Zenon DEF TableInv
<1>16. ASSUME AttestReport(t) PROVE TableInv'
  <2> USE <1>16
  <2>1. TrampolineTypeOK'
    BY Zenon DEF AttestReport, Leave, Goto, TrampolineTypeOK, BuildPc, CommitPc, ResetPc, ReadPc,
       Selection
  <2>2. Locks'
    BY Zenon DEF AttestReport, Leave, Goto, TrampolineTypeOK, BuildPc, CommitPc, ResetPc, ReadPc,
       Selection, Locks, AttestPc
  <2>3. Page'
    BY DEF AttestReport, Leave, Goto, Page, CommitPc, ResetPc
  <2>4. SnapshotRunnable'
    BY Zenon DEF AttestReport, Leave, Goto, SnapshotRunnable
  <2>5. Agreement'
    BY DEF AttestReport, Leave, Goto, Agreement, TornPc, ErasingPc
  <2>6. Attested'
    BY DEF AttestReport, Leave, Goto, Attested, ErasingPc
  <2>7. QED BY <2>1, <2>2, <2>3, <2>4, <2>5, <2>6 DEF TableInv
<1>17. QED
  BY <1>1, <1>2, <1>3, <1>4, <1>5, <1>6, <1>7, <1>8, <1>9, <1>10, <1>11, <1>12, <1>13, <1>14,
     <1>15, <1>16, Zenon DEF CallStep, Enter

\* Steps that leave the table alone.
LEMMA TableStutter == TableInv /\ UNCHANGED trampolineVars => TableInv'
<1> SUFFICES ASSUME TableInv, UNCHANGED trampolineVars PROVE TableInv' BY Zenon
<1> USE DEF TableInv, trampolineVars
<1>1. TrampolineTypeOK' BY Zenon DEF TrampolineTypeOK
<1>2. Locks' BY Zenon DEF Locks
<1>3. Page' BY Zenon DEF Page
<1>4. SnapshotRunnable' BY Zenon DEF SnapshotRunnable
<1>5. Agreement' BY Zenon DEF Agreement
<1>6. Attested' BY Zenon DEF Attested
<1>7. QED BY <1>1, <1>2, <1>3, <1>4, <1>5, <1>6, Zenon

\* A step of kernel execution leaves the table alone or enters a selection of SSE4.1.
LEMMA TableNext == TableInv /\ [Next]_vars => TableInv'
<1> SUFFICES ASSUME TableInv, [Next]_vars PROVE TableInv' BY Zenon
<1>1. CASE SelectorStep BY <1>1, TableStep, Zenon DEF SelectorStep
<1>2. ASSUME NEW a \in App, ShimRepair(a) PROVE TableInv'
  BY <1>2, TableStep DEF ShimRepair, Enter
<1>3. CASE UNCHANGED trampolineVars BY <1>3, TableStutter
<1>4. CASE GateStep BY <1>3, <1>4, Zenon DEF GateStep
<1>5. ASSUME NEW a \in App, NEW c \in Call, Begin(a, c) PROVE TableInv'
  BY <1>3, <1>5, Zenon DEF Begin
<1>6. ASSUME NEW a \in App, CallProgress(a) PROVE TableInv'
  BY <1>3, <1>6, ZenonT(60) DEF CallProgress, ReadSelection, Resolve, Admit, Arm, KernelReturns, Settle,
     Release, Restore, ShimAdmit, ShimReturn, ShimRefused
<1>7. ASSUME NEW a \in App, ShimSnapshot(a) \/ SendCancel(a) \/ CancelDelivered(a) PROVE TableInv'
  BY <1>3, <1>7, Zenon DEF ShimSnapshot, SendCancel, CancelDelivered
<1>8. CASE UNCHANGED vars BY <1>3, <1>8, Zenon DEF vars
<1>9. QED BY <1>1, <1>2, <1>4, <1>5, <1>6, <1>7, <1>8, Zenon DEF Next

LEMMA TableInvariant == Spec => []TableInv
<1>1. Init => TableInv BY TableInit, Zenon DEF Init
<1>2. QED BY <1>1, TableNext, PTL DEF Spec

\* For any number of threads, what a snapshot of the selection word names at any
\* moment is mapped, executable and written for the width it announces
\* (tsd_trampoline_state_snapshot against tsd_trampoline_patch and _init).
THEOREM RunnableSnapshot == Spec => []SnapshotRunnable
<1>1. TableInv => SnapshotRunnable BY Zenon DEF TableInv
<1>2. QED BY <1>1, TableInvariant, PTL

\* For any number of threads, tsd_trampoline_self_validate finds the canonical
\* code of the current width in the active slot, and a hash handed out by
\* tsd_attestation_get_active_hash is that of the selected slot.
THEOREM SoundAttestation == Spec => []AttestationSound
<1>1. TableInv => AttestationSound
  <2> SUFFICES ASSUME TableInv PROVE AttestationSound BY Zenon
  <2>0. TrampolineTypeOK /\ Locks /\ Page /\ SnapshotRunnable /\ Agreement /\ Attested
    BY Zenon DEF TableInv
  <2>1. ASSUME NEW t \in Thread, pc[t] = "validate", initialized
        PROVE  page = "rx" /\ Active = CurrentWidth /\ width = CurrentWidth /\ slot = Active
    <3>1. \A u \in Thread : pc[u] \notin TornPc BY <2>0, <2>1, Zenon DEF Locks, TornPc
    <3>2. word # Nobody /\ width = word.width /\ slot = word.slot
      BY <2>0, <2>1, <3>1, Zenon DEF Agreement
    <3>3. QED BY <2>0, <3>2, Zenon DEF SnapshotRunnable, Active, CurrentWidth
  <2>2. ASSUME NEW t \in Thread, pc[t] = "report", hashValid
        PROVE  initialized /\ word = Encode(hash, hash)
    <3>1. \A u \in Thread : pc[u] \notin ErasingPc BY <2>0, <2>2, Zenon DEF Locks, ErasingPc
    <3>2. QED BY <2>0, <2>2, <3>1, Zenon DEF Attested, Encode
  <2>3. QED BY <2>1, <2>2, Zenon DEF AttestationSound
<1>2. QED BY <1>1, TableInvariant, PTL

----------------------------------------------------------------------------
(* Admissions.                                                             *)

\* A thread outside an execution before and after a step holds no admission.
LEMMA Outside ==
  ASSUME NEW a \in App, AdmissionInv, OnlyMoves(a), UNCHANGED inside,
         apc[a] \notin AdmittedPc, apc'[a] \notin AdmittedPc
  PROVE  AdmissionBalanced'
BY Zenon DEF AdmissionInv, AdmissionBalanced, OnlyMoves, AdmittedPc

\* One that is inside before and after keeps what it holds.
LEMMA Within ==
  ASSUME NEW a \in App, AdmissionInv, OnlyMoves(a), UNCHANGED <<inside, chosen>>,
         apc[a] \in AdmittedPc, apc'[a] \in AdmittedPc
  PROVE  AdmissionBalanced'
BY Zenon DEF AdmissionInv, AdmissionBalanced, OnlyMoves, AdmittedPc

\* SSE4.1 code runs without an admission.
LEMMA Narrow ==
  ASSUME NEW a \in App, AdmissionInv, OnlyMoves(a), UNCHANGED inside,
         apc[a] \notin AdmittedPc, ~(chosen'[a] > 0)
  PROVE  AdmissionBalanced'
BY Zenon DEF AdmissionInv, AdmissionBalanced, OnlyMoves, AdmittedPc

\* An admission adds one for its thread.
LEMMA Admitted ==
  ASSUME NEW a \in App, AdmissionInv, OnlyMoves(a), UNCHANGED chosen, chosen[a] > 0,
         Gate!Admit(a), apc[a] \notin AdmittedPc, apc'[a] \in AdmittedPc
  PROVE  inside' \in [App -> Nat] /\ AdmissionBalanced'
<1>0. inside \in [App -> Nat] /\ AdmissionBalanced BY Zenon DEF AdmissionInv, ExecutionTypes
<1> USE <1>0
<1>1. inside[a] = 0 BY Zenon DEF AdmissionBalanced, AdmittedPc
<1>2. /\ inside' \in [App -> Nat] /\ inside'[a] = 1
      /\ \A b \in App \ {a} : inside'[b] = inside[b]
  BY <1>1 DEF Gate!Admit
<1> USE <1>2
<1>3. AdmissionBalanced' BY Zenon DEF AdmissionBalanced, OnlyMoves, AdmittedPc
<1>4. QED BY <1>3, Zenon

\* tsd_runtime_execution_leave gives the admission back, if there is one.
LEMMA Retired ==
  ASSUME NEW a \in App, AdmissionInv, OnlyMoves(a), Retire(a),
         apc[a] \in AdmittedPc, apc'[a] \notin AdmittedPc
  PROVE  inside' \in [App -> Nat] /\ AdmissionBalanced'
<1>0. inside \in [App -> Nat] /\ AdmissionBalanced BY Zenon DEF AdmissionInv, ExecutionTypes
<1> USE <1>0
<1>1. inside[a] = IF chosen[a] > 0 THEN 1 ELSE 0 BY Zenon DEF AdmissionBalanced, AdmittedPc
<1> USE <1>1
<1>2. /\ inside' \in [App -> Nat] /\ inside'[a] = 0
      /\ \A b \in App \ {a} : inside'[b] = inside[b]
  <2>1. CASE chosen[a] > 0 BY <2>1 DEF Retire, Gate!Retire
  <2>2. CASE ~(chosen[a] > 0) BY <2>2 DEF Retire, gate
  <2>3. QED BY <2>1, <2>2, Zenon
<1> USE <1>2
<1>3. AdmissionBalanced' BY Zenon DEF AdmissionBalanced, OnlyMoves, AdmittedPc
<1>4. QED BY <1>3, Zenon

\* Steps outside every execution.
LEMMA AdmissionStutter == AdmissionInv /\ UNCHANGED <<apc, chosen, inside>> => AdmissionInv'
BY Zenon DEF AdmissionInv, ExecutionTypes, AdmissionBalanced

\* AdmissionInv is kept by every step of a kernel or shim call.
LEMMA AdmissionStep ==
  ASSUME NEW a \in App, AdmissionInv,
         \/ \E c \in Call : Begin(a, c)
         \/ CallProgress(a) \/ ShimSnapshot(a) \/ ShimRepair(a) \/ SendCancel(a) \/ CancelDelivered(a)
  PROVE  AdmissionInv'
<1> USE DEF At, Set, gate
<1>0. DOMAIN apc = App /\ DOMAIN chosen = App /\ inside \in [App -> Nat]
  BY Zenon DEF AdmissionInv, ExecutionTypes
<1> USE <1>0
<1> SUFFICES ExecutionTypes' /\ AdmissionBalanced' BY Zenon DEF AdmissionInv
<1>a. ASSUME apc[a] \notin AdmittedPc, apc'[a] \notin AdmittedPc, OnlyMoves(a), UNCHANGED inside,
             DOMAIN apc' = App, DOMAIN chosen' = App
      PROVE  ExecutionTypes' /\ AdmissionBalanced'
  BY <1>a, Outside, Zenon DEF ExecutionTypes
<1>1. CASE \E c \in Call : Begin(a, c)
  BY <1>1, <1>a, Zenon DEF Begin, OnlyMoves, AdmittedPc
<1>2. CASE ReadSelection(a) BY <1>2, <1>a, Zenon DEF ReadSelection, OnlyMoves, AdmittedPc
<1>3. CASE Resolve(a) BY <1>3, <1>a, Zenon DEF Resolve, OnlyMoves, AdmittedPc
<1>4. CASE Admit(a)
  <2> USE <1>4
  <2>1. /\ DOMAIN apc' = App /\ DOMAIN chosen' = App /\ OnlyMoves(a)
        /\ apc[a] \notin AdmittedPc /\ apc'[a] \in AdmittedPc
    BY Zenon DEF Admit, OnlyMoves, AdmittedPc
  <2> USE <2>1
  <2>2. CASE chosen[a] > 0 /\ Gate!Admit(a) /\ UNCHANGED chosen
    BY <2>2, Admitted, Zenon DEF ExecutionTypes
  <2>3. CASE UNCHANGED gate /\ chosen'[a] = 0
    <3> USE <2>3
    <3>1. ~(chosen'[a] > 0) OBVIOUS
    <3>2. QED BY <3>1, Narrow, SMTT(30) DEF ExecutionTypes
  <2>4. QED BY <2>2, <2>3, Zenon DEF Admit
<1>5. CASE Arm(a)
  <2>1. /\ DOMAIN apc' = App /\ OnlyMoves(a) /\ UNCHANGED <<inside, chosen>>
        /\ apc[a] \in AdmittedPc /\ apc'[a] \in AdmittedPc
    BY <1>5, Zenon DEF Arm, OnlyMoves, AdmittedPc
  <2>2. QED BY <2>1, Within, Zenon DEF ExecutionTypes
<1>6. ASSUME NEW ok \in BOOLEAN, KernelReturns(a, ok) PROVE ExecutionTypes' /\ AdmissionBalanced'
  <2>1. /\ DOMAIN apc' = App /\ OnlyMoves(a) /\ UNCHANGED <<inside, chosen>>
        /\ apc[a] \in AdmittedPc /\ apc'[a] \in AdmittedPc
    BY <1>6, Zenon DEF KernelReturns, OnlyMoves, AdmittedPc
  <2>2. QED BY <2>1, Within, Zenon DEF ExecutionTypes
<1>b. ASSUME apc[a] \in AdmittedPc, apc'[a] \notin AdmittedPc, OnlyMoves(a), Retire(a),
             DOMAIN apc' = App, DOMAIN chosen' = App
      PROVE  ExecutionTypes' /\ AdmissionBalanced'
  BY <1>b, Retired, Zenon DEF ExecutionTypes
<1>7. CASE Settle(a) BY <1>7, <1>b, Zenon DEF Settle, OnlyMoves, AdmittedPc
<1>8. CASE Release(a) BY <1>8, <1>b, Zenon DEF Release, Finish, OnlyMoves, AdmittedPc
<1>9. CASE Restore(a)
  BY <1>9, <1>a, Zenon DEF Restore, Finish, OnlyMoves, AdmittedPc
<1>10. CASE ShimAdmit(a)
  <2> USE <1>10
  <2>1. /\ DOMAIN apc' = App /\ DOMAIN chosen' = App /\ OnlyMoves(a) /\ UNCHANGED chosen
        /\ apc[a] \notin AdmittedPc
    BY Zenon DEF ShimAdmit, OnlyMoves, AdmittedPc
  <2> USE <2>1
  <2>2. CASE chosen[a] > 0 /\ Gate!Admit(a) /\ At(a, "shimCode")
    <3> USE <2>2
    <3>1. apc'[a] \in AdmittedPc BY Zenon DEF AdmittedPc
    <3>2. QED BY <3>1, Admitted, Zenon DEF ExecutionTypes
  <2>3. CASE ~(chosen[a] > 0) /\ UNCHANGED gate
    BY <2>3, Narrow, Zenon DEF ExecutionTypes
  <2>4. CASE UNCHANGED gate /\ At(a, IF apc[a] = "shimAdmit" THEN "shimRepair" ELSE "shimGiveUp")
    BY <2>4, <1>a, Zenon DEF AdmittedPc
  <2>5. QED BY <2>2, <2>3, <2>4, Zenon DEF ShimAdmit
<1>11. CASE ShimReturn(a) BY <1>11, <1>b, Zenon DEF ShimReturn, Finish, OnlyMoves, AdmittedPc
<1>12. CASE ShimRefused(a)
  BY <1>12, <1>a, Zenon DEF ShimRefused, Finish, OnlyMoves, AdmittedPc
<1>13. CASE ShimSnapshot(a)
  BY <1>13, <1>a, Zenon DEF ShimSnapshot, OnlyMoves, AdmittedPc
<1>14. CASE ShimRepair(a)
  BY <1>14, <1>a, Zenon DEF ShimRepair, OnlyMoves, AdmittedPc
<1>15. CASE SendCancel(a) BY <1>15, AdmissionStutter, Zenon DEF SendCancel, AdmissionInv
<1>16. CASE CancelDelivered(a)
  <2> USE <1>16
  <2>1. CASE apc[a] = "kernel"
    BY <2>1, <1>b, Zenon DEF CancelDelivered, Unwind, OnlyMoves, AdmittedPc
  <2>2. CASE apc[a] = "next"
    BY <2>2, <1>a, Zenon DEF CancelDelivered, Unwind, OnlyMoves, AdmittedPc
  <2>3. QED BY <2>1, <2>2, Zenon DEF CancelDelivered
<1>17. QED
  BY <1>1, <1>2, <1>3, <1>4, <1>5, <1>6, <1>7, <1>8, <1>9, <1>10, <1>11, <1>12, <1>13, <1>14,
     <1>15, <1>16, Zenon DEF CallProgress

LEMMA AdmissionInvariant == Spec => []AdmissionInv
<1>1. Init => AdmissionInv
  BY DEF Init, Gate!Init, AdmissionInv, ExecutionTypes, AdmissionBalanced
<1>2. AdmissionInv /\ [Next]_vars => AdmissionInv'
  <2> SUFFICES ASSUME AdmissionInv, [Next]_vars PROVE AdmissionInv' BY Zenon
  <2>1. CASE UNCHANGED <<apc, chosen, inside>> BY <2>1, AdmissionStutter, Zenon
  <2>2. CASE SelectorStep BY <2>1, <2>2, Zenon DEF SelectorStep, gate, callVars
  <2>3. CASE GateStep BY <2>1, <2>3, Zenon DEF GateStep, callVars, Gate!Close, Gate!Reopen
  <2>4. CASE UNCHANGED vars BY <2>1, <2>4, Zenon DEF vars, gate, callVars
  <2>5. QED BY <2>2, <2>3, <2>4, AdmissionStep, Zenon DEF Next
<1>3. QED BY <1>1, <1>2, PTL DEF Spec

\* For any threads, kernels and calls, and with every cancellation, a thread
\* holds exactly one admission while its wide code runs and none otherwise
\* (enter_or_fallback, tsd_runtime_execution_leave, execution_cleanup_handler).
THEOREM BalancedAdmission == Spec => []AdmissionBalanced
<1>1. AdmissionInv => AdmissionBalanced BY Zenon DEF AdmissionInv
<1>2. QED BY <1>1, AdmissionInvariant, PTL

----------------------------------------------------------------------------
(* The executions over the whole system.                                  *)


LEMMA ExecutionInvariant == Spec => []ExecutionInv
BY ExecutionInit, ExecutionStep, TableInvariant, PTL DEF Spec

\* For any threads, kernels, size_t and call, the chunks that completed cover the
\* first items of the range exactly once, in order and without wrapping, and
\* exactly they are added to the work counter
\* (tsd_kernel_dispatch_v2_execute_chunked).
THEOREM CoveredExactly == Spec => []ExactCover
<1>1. ExecutionInv => ExactCover
  <2> SUFFICES ASSUME ExecutionInv, NEW a \in App, apc[a] \in CallPc \cup {"gone"}
               PROVE  LET done == call[a].total - remaining[a]
                                    + (IF apc[a] = "settle" THEN ChunkOf(a) ELSE 0)
                      IN /\ executed[a] = CoveredBy(call[a].first, done) /\ counted[a] = done
                         /\ done > 0 => call[a].first + done - 1 <= SizeMax
    BY Zenon DEF ExactCover, CoveredBy
  <2>0. CallTypes /\ Advanced(a) /\ Cover(a) BY Zenon DEF ExecutionInv, ThreadInv
  <2> DEFINE extra == IF apc[a] = "settle" THEN ChunkOf(a) ELSE 0
  <2>1. /\ call[a].first \in Nat /\ call[a].total \in Nat /\ remaining[a] \in Nat
        /\ call[a].first + call[a].total <= SizeMax
    BY <2>0, SizeAssumption DEF CallTypes, Call, Advanced
  <2>2. extra \in 0..remaining[a]
    <3>1. CASE apc[a] = "settle" BY <2>0, <2>1, <3>1, ChunkFacts, SMTT(30) DEF CallPc
    <3>2. CASE apc[a] # "settle" BY <2>1, <3>2
    <3>3. QED BY <3>1, <3>2, SMTT(30)
  <2>3. call[a].first + (call[a].total - remaining[a] + extra) - 1 <= SizeMax
    BY <2>1, <2>2, SizeAssumption
  <2>4. QED BY <2>0, <2>3 DEF Cover
<1>2. QED BY <1>1, ExecutionInvariant, PTL

\* For any threads, kernels and calls, code that runs is a registered kernel no
\* wider than the selection it was resolved from and the host, or the mapped slot
\* of exactly the width the shim was admitted for (tsd_kernel_dispatch_execute,
\* simd_shim).
THEOREM SupportedCode == Spec => []RunsSupportedCode
<1>1. TableInv /\ AdmissionInv /\ ExecutionInv /\ GateType => RunsSupportedCode
  <2> SUFFICES ASSUME TableInv, AdmissionInv, ExecutionInv, GateType
               PROVE  RunsSupportedCode
    BY Zenon
  <2>1. inside \in [App -> 0..1]
    BY DEF AdmissionInv, ExecutionTypes, AdmissionBalanced
  <2>2. TypeOK
    BY <2>1, Zenon DEF TypeOK, TableInv, ExecutionInv, CallTypes, FlagTypes, GateType
  <2>3. QED BY <2>2, Zenon DEF RunsSupportedCode, TableInv, ExecutionInv, ThreadInv, Resolved
<1>2. Init => GateType BY Zenon DEF Init, Gate!Init, GateType
<1>3. GateType /\ [Next]_vars => GateType'
  <2> SUFFICES ASSUME GateType, [Next]_vars PROVE GateType' BY Zenon
  <2>1. CASE UNCHANGED gate BY <2>1, Zenon DEF gate, GateType
  <2>2. CASE SelectorStep BY <2>1, <2>2, Zenon DEF SelectorStep
  <2>3. CASE GateStep BY <2>3, Zenon DEF GateStep, Gate!Close, Gate!Reopen, GateType
  <2>4. CASE UNCHANGED vars BY <2>1, <2>4, Zenon DEF vars
  <2>5. ASSUME NEW a \in App, \/ \E c \in Call : Begin(a, c)
                              \/ ShimSnapshot(a) \/ ShimRepair(a) \/ SendCancel(a)
        PROVE  GateType'
    BY <2>1, <2>5, Zenon DEF Begin, ShimSnapshot, ShimRepair, SendCancel
  <2>6. ASSUME NEW a \in App, CallProgress(a) \/ CancelDelivered(a) PROVE GateType'
    <3>1. CASE UNCHANGED open BY <3>1, Zenon DEF GateType
    <3>2. QED
      BY <3>1, <2>6, ZenonT(60) DEF CallProgress, ReadSelection, Resolve, Admit, Arm, KernelReturns,
         Settle, Release, Restore, ShimAdmit, ShimReturn, ShimRefused, CancelDelivered, Unwind,
         Retire, Gate!Admit, Gate!Retire, gate
  <2>7. QED BY <2>2, <2>3, <2>4, <2>5, <2>6, Zenon DEF Next
<1>4. QED BY <1>1, <1>2, <1>3, TableInvariant, AdmissionInvariant, ExecutionInvariant, PTL DEF Spec
=============================================================================
