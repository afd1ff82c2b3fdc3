------------------------------ MODULE Dispatch ------------------------------
(***************************************************************************)
(* Kernel execution (src/dispatch/adaptive_dispatch.c and the shim of      *)
(* src/thermal_simd.c) against selections that change and an admission     *)
(* gate that closes under it, with pthread cancellation.                   *)
(*                                                                         *)
(* The gate is the abstract one of WideGate, which RuntimeGuard implements; *)
(* the selection is the one of Trampoline.  A thread may be refused a wide *)
(* width although the gate is open: its authorization may be gone.  size_t *)
(* is 0..SizeMax, and the addition that advances the offset of a v2 call   *)
(* wraps.  The threads are ones whose work is accounted: the owner of the  *)
(* live runtime, or any thread without one.                                *)
(***************************************************************************)
EXTENDS Trampoline

CONSTANTS App,       \* application threads, which also select and validate
          HostMax,   \* host_max of the dispatch object
          Variants,  \* the widths the dispatch object has a kernel for
          SizeMax,   \* SIZE_MAX
          MaxTotal   \* bound on the work items of one call

ASSUME AppAssumption == App \subseteq Thread
ASSUME DispatchAssumption == HostMax \in Width /\ Variants \subseteq Width /\ 0 \in Variants
ASSUME SizeAssumption == SizeMax \in Nat /\ MaxTotal \in 1..SizeMax

VARIABLES open, phase, inside,  \* the gate, see WideGate
          apc,        \* an application thread's place in a call
          call,       \* the call: first item, work items, chunk size
          offset,     \* the next chunk's first item
          remaining,  \* work items not yet passed to a kernel
          chosen,     \* the width resolved for this chunk, then actual
          snapshot,   \* the selection the chunk or the shim call has read
          enabled,    \* cancellation is enabled
          pending,    \* a cancellation request was sent
          executed,   \* history: how often completed kernels covered an item
          counted     \* history: what the call added to the work counter

gate == <<open, phase, inside>>
callVars == <<apc, call, offset, remaining, chosen, snapshot, enabled, pending,
              executed, counted>>
vars == <<trampolineVars, gate, callVars>>

Gate == INSTANCE WideGate WITH Thread <- App

Call == [first : 0..SizeMax, total : 1..MaxTotal, chunk : 1..MaxTotal]
NoCall == [first |-> 0, total |-> 1, chunk |-> 1]
NoSelection == [width |-> 0, slot |-> 0]
NoItems == [i \in 0..SizeMax |-> 0]

CallPc == {"next", "resolve", "admit", "arm", "kernel", "settle", "release", "restore"}
ShimPc == {"shimAdmit", "shimRepair", "shimRetry", "shimLast", "shimGiveUp", "shimEnd", "shimCode"}

Init ==
  /\ TrampolineInit /\ Gate!Init
  /\ apc = [a \in App |-> "idle"]
  /\ call = [a \in App |-> NoCall]
  /\ offset = [a \in App |-> 0] /\ remaining = [a \in App |-> 0]
  /\ chosen = [a \in App |-> 0]
  /\ snapshot = [a \in App |-> NoSelection]
  /\ enabled = [a \in App |-> TRUE] /\ pending = [a \in App |-> FALSE]
  /\ executed = [a \in App |-> NoItems] /\ counted = [a \in App |-> 0]

\* a call returns and its locals are gone
Finish(a) ==
  /\ apc' = [apc EXCEPT ![a] = "idle"]
  /\ call' = [call EXCEPT ![a] = NoCall] /\ snapshot' = [snapshot EXCEPT ![a] = NoSelection]
  /\ offset' = [offset EXCEPT ![a] = 0] /\ remaining' = [remaining EXCEPT ![a] = 0]
  /\ chosen' = [chosen EXCEPT ![a] = 0]
  /\ executed' = [executed EXCEPT ![a] = NoItems] /\ counted' = [counted EXCEPT ![a] = 0]

At(a, label) == apc' = [apc EXCEPT ![a] = label]
Set(f, a, v) == [f EXCEPT ![a] = v]

----------------------------------------------------------------------------
(* tsd_kernel_dispatch_execute_chunked and its v2 form.  A plain execute is *)
(* a call whose chunk is as large as its work; a v1 call starts at item 0  *)
(* and its kernel cannot fail.                                             *)

\* Mutant of Accepted: the end of the range is not compared with SIZE_MAX.
AcceptedAnyRange(c) == TRUE

\* the arguments a call does not refuse with EINVAL
Accepted(c) == c.first <= SizeMax - c.total

Begin(a, c) ==
  /\ apc[a] = "idle" /\ pc[a] = "idle" /\ Accepted(c)
  /\ call' = Set(call, a, c)
  /\ offset' = Set(offset, a, c.first) /\ remaining' = Set(remaining, a, c.total)
  /\ executed' = Set(executed, a, NoItems) /\ counted' = Set(counted, a, 0)
  /\ At(a, "next")
  /\ UNCHANGED <<trampolineVars, gate, chosen, snapshot, enabled, pending>>

\* disable cancellation and read the selected width
ReadSelection(a) ==
  /\ apc[a] = "next"
  /\ enabled' = Set(enabled, a, FALSE)
  /\ snapshot' = Set(snapshot, a, [width |-> CurrentWidth, slot |-> 0])
  /\ At(a, "resolve")
  /\ UNCHANGED <<trampolineVars, gate, call, offset, remaining, chosen, pending,
                 executed, counted>>

AtMost(a, b) == IF a <= b THEN a ELSE b

\* the widest kernel at or below w; sse41 is mandatory
Variant(w) == CHOOSE v \in Variants : v <= w /\ \A u \in Variants : u <= w => u <= v

\* selected_width_snapshot and the clamp of resolve_internal
Resolve(a) ==
  /\ apc[a] = "resolve"
  /\ \E w \in {0, snapshot[a].width} :
       /\ w > 0 => open
       /\ chosen' = Set(chosen, a, Variant(AtMost(w, HostMax)))
  /\ At(a, "admit")
  /\ UNCHANGED <<trampolineVars, gate, call, offset, remaining, snapshot, enabled,
                 pending, executed, counted>>

\* Mutant of Admit: the fallback keeps the wide width in actual.
AdmitStale(a) ==
  /\ apc[a] = "admit"
  /\ \/ chosen[a] = 0 /\ UNCHANGED <<gate, chosen>>
     \/ chosen[a] > 0 /\ Gate!Admit(a) /\ UNCHANGED chosen
     \/ chosen[a] > 0 /\ UNCHANGED <<gate, chosen>>
  /\ At(a, "arm")
  /\ UNCHANGED <<trampolineVars, call, offset, remaining, snapshot, enabled, pending,
                 executed, counted>>

\* enter_or_fallback: admitted, or the SSE4.1 kernel without admission
Admit(a) ==
  /\ apc[a] = "admit"
  /\ \/ chosen[a] = 0 /\ UNCHANGED <<gate, chosen>>
     \/ chosen[a] > 0 /\ Gate!Admit(a) /\ UNCHANGED chosen
     \/ chosen[a] > 0 /\ chosen' = Set(chosen, a, 0) /\ UNCHANGED gate
  /\ At(a, "arm")
  /\ UNCHANGED <<trampolineVars, call, offset, remaining, snapshot, enabled, pending,
                 executed, counted>>

\* the cleanup handler is installed, then the caller's state is restored
Arm(a) ==
  /\ apc[a] = "arm"
  /\ enabled' = Set(enabled, a, TRUE)
  /\ At(a, "kernel")
  /\ UNCHANGED <<trampolineVars, gate, call, offset, remaining, chosen, snapshot,
                 pending, executed, counted>>

\* tsd_runtime_execution_leave
Retire(a) == IF chosen[a] > 0 THEN Gate!Retire(a) ELSE UNCHANGED gate

ChunkOf(a) == AtMost(remaining[a], call[a].chunk)

\* the items a kernel invocation works on
Items(a) == {(offset[a] + i) % (SizeMax + 1) : i \in 0..(ChunkOf(a) - 1)}

Covered(a) == [i \in 0..SizeMax |-> executed[a][i] + (IF i \in Items(a) THEN 1 ELSE 0)]

\* the callback returns; cancellation is disabled again before the accounting,
\* which a failed v2 callback does not reach
KernelReturns(a, ok) ==
  /\ apc[a] = "kernel"
  /\ enabled' = Set(enabled, a, FALSE)
  /\ IF ok THEN /\ executed' = Set(executed, a, Covered(a))
                /\ counted' = Set(counted, a, counted[a] + ChunkOf(a))
     ELSE UNCHANGED <<executed, counted>>
  /\ At(a, IF ok THEN "settle" ELSE "release")
  /\ UNCHANGED <<trampolineVars, gate, call, offset, remaining, chosen, snapshot, pending>>

\* pthread_cleanup_pop(1) after a successful callback, and the loop's advance
Settle(a) ==
  /\ apc[a] = "settle"
  /\ Retire(a)
  /\ offset' = Set(offset, a, (offset[a] + ChunkOf(a)) % (SizeMax + 1))
  /\ remaining' = Set(remaining, a, remaining[a] - ChunkOf(a))
  /\ At(a, "restore")
  /\ UNCHANGED <<trampolineVars, call, chosen, snapshot, enabled, pending, executed,
                 counted>>

\* pthread_cleanup_pop(1) after a failed one
Release(a) ==
  /\ apc[a] = "release"
  /\ Retire(a)
  /\ enabled' = Set(enabled, a, TRUE)
  /\ Finish(a)
  /\ UNCHANGED <<trampolineVars, pending>>

\* restore the caller's cancellation state; the next chunk, or the return
Restore(a) ==
  /\ apc[a] = "restore"
  /\ enabled' = Set(enabled, a, TRUE)
  /\ IF remaining[a] = 0 THEN Finish(a)
     ELSE /\ At(a, "next")
          /\ UNCHANGED <<call, offset, remaining, chosen, snapshot, executed, counted>>
  /\ UNCHANGED <<trampolineVars, gate, pending>>

----------------------------------------------------------------------------
(* simd_shim: at most two attempts.  A refused attempt selects SSE4.1; when *)
(* that fails the call returns without the second attempt.                 *)

\* read the selection, for the first or the second attempt
ShimSnapshot(a) ==
  /\ apc[a] \in {"idle", "shimRetry"} /\ pc[a] = "idle" /\ word # Nobody
  /\ snapshot' = Set(snapshot, a, word) /\ chosen' = Set(chosen, a, word.width)
  /\ At(a, IF apc[a] = "idle" THEN "shimAdmit" ELSE "shimLast")
  /\ UNCHANGED <<trampolineVars, gate, call, offset, remaining, enabled, pending,
                 executed, counted>>

ShimAdmit(a) ==
  /\ apc[a] \in {"shimAdmit", "shimLast"}
  /\ \/ /\ IF chosen[a] > 0 THEN Gate!Admit(a) ELSE UNCHANGED gate
        /\ At(a, "shimCode")
     \/ /\ chosen[a] > 0 /\ UNCHANGED gate
        /\ At(a, IF apc[a] = "shimAdmit" THEN "shimRepair" ELSE "shimGiveUp")
  /\ UNCHANGED <<trampolineVars, call, offset, remaining, chosen, snapshot, enabled, pending,
                 executed, counted>>

\* tsd_trampoline_patch(SIMD_SSE41), which CallStep then carries out
ShimRepair(a) ==
  /\ apc[a] \in {"shimRepair", "shimGiveUp"} /\ PatchEnter(a, 0)
  /\ At(a, IF apc[a] = "shimRepair" THEN "shimRetry" ELSE "shimEnd")
  /\ UNCHANGED <<gate, call, offset, remaining, chosen, snapshot, enabled, pending,
                 executed, counted>>

\* return 0: the second attempt was refused, or the patch failed (whether it
\* did is not kept: a retry after a failed patch is allowed as well)
ShimRefused(a) ==
  /\ apc[a] \in {"shimRetry", "shimEnd"} /\ pc[a] = "idle"
  /\ Finish(a)
  /\ UNCHANGED <<trampolineVars, gate, enabled, pending>>

ShimReturn(a) ==
  /\ apc[a] = "shimCode"
  /\ Retire(a)
  /\ Finish(a)
  /\ UNCHANGED <<trampolineVars, enabled, pending>>

----------------------------------------------------------------------------
(* Cancellation and the rest of the process.                               *)

SendCancel(a) ==
  /\ ~pending[a] /\ apc[a] # "gone"
  /\ pending' = Set(pending, a, TRUE)
  /\ UNCHANGED <<trampolineVars, gate, apc, call, offset, remaining, chosen, snapshot,
                 enabled, executed, counted>>

\* execution_cleanup_handler, if it is installed
Unwind(a) == IF apc[a] = "kernel" THEN Retire(a) ELSE UNCHANGED gate

\* a registered kernel may be cancelled; the shim contains no cancellation point
CancelDelivered(a) ==
  /\ pending[a] /\ enabled[a] /\ apc[a] \in {"kernel", "next"}
  /\ Unwind(a)
  /\ At(a, "gone")
  /\ UNCHANGED <<trampolineVars, call, offset, remaining, chosen, snapshot, enabled,
                 pending, executed, counted>>

GateStep ==
  /\ Gate!Close \/ Gate!Reopen
  /\ UNCHANGED <<trampolineVars, callVars>>

SelectorStep ==
  /\ \E t \in Thread : CallStep(t) \/ ((t \in App => apc[t] = "idle") /\ Enter(t))
  /\ UNCHANGED <<gate, callVars>>

\* a step that may wait for a trampoline lock
LockStep(t) ==
  \/ CallStep(t) /\ UNCHANGED <<gate, callVars>>
  \/ t \in App /\ ShimRepair(t)

CallProgress(a) ==
  \/ ReadSelection(a) \/ Resolve(a) \/ Admit(a) \/ Arm(a)
  \/ \E ok \in BOOLEAN : KernelReturns(a, ok)
  \/ Settle(a) \/ Release(a) \/ Restore(a)
  \/ ShimAdmit(a) \/ ShimReturn(a) \/ ShimRefused(a)

Next ==
  \/ SelectorStep \/ GateStep
  \/ \E a \in App :
       \/ \E c \in Call : Begin(a, c)
       \/ CallProgress(a) \/ ShimSnapshot(a) \/ ShimRepair(a) \/ SendCancel(a) \/ CancelDelivered(a)

Spec == Init /\ [][Next]_vars

\* a thread inside a call keeps running, a kernel returns, and a mutex is
\* granted to a thread that waits for it again and again
FairSpec ==
  /\ Spec
  /\ \A t \in Thread : SF_vars(LockStep(t))
  /\ \A a \in App : WF_vars(CallProgress(a))

----------------------------------------------------------------------------
(* Properties.                                                             *)

TypeOK ==
  /\ TrampolineTypeOK
  /\ open \in BOOLEAN /\ inside \in [App -> 0..1]
  /\ apc \in [App -> {"idle", "gone"} \cup CallPc \cup ShimPc]
  /\ call \in [App -> Call] /\ snapshot \in [App -> Selection]
  /\ offset \in [App -> 0..SizeMax] /\ remaining \in [App -> 0..MaxTotal]
  /\ chosen \in [App -> Width] /\ counted \in [App -> 0..MaxTotal]
  /\ enabled \in [App -> BOOLEAN] /\ pending \in [App -> BOOLEAN]

\* A thread holds one admission while its wide kernel or shim code runs and none
\* at any other moment: not after a fallback, a failed callback, a cancellation
\* before, inside or after the callback, nor once the thread is gone.
AdmissionBalanced ==
  \A a \in App : inside[a] =
    IF chosen[a] > 0 /\ apc[a] \in {"arm", "kernel", "settle", "release", "shimCode"}
    THEN 1 ELSE 0

\* The chunks a call completed cover its first items in order, each exactly once
\* and none outside the range the caller named, and exactly they were added to
\* the work counter, wherever the call was failed, cancelled or completed.
ExactCover ==
  \A a \in App :
    LET done == call[a].total - remaining[a] + (IF apc[a] = "settle" THEN ChunkOf(a) ELSE 0)
    IN apc[a] \in CallPc \cup {"gone"} =>
         /\ executed[a] = [i \in 0..SizeMax |->
                              IF i \in call[a].first..(call[a].first + done - 1) THEN 1 ELSE 0]
         /\ counted[a] = done
         /\ done > 0 => call[a].first + done - 1 <= SizeMax

\* Code that runs is a kernel the application registered, no wider than the
\* selection it was resolved from and the host, or the mapped slot of exactly
\* the width the shim was admitted for; what a snapshot taken at any moment names
\* can be run.
RunsSupportedCode ==
  /\ TypeOK /\ SnapshotRunnable
  /\ \A a \in App :
    /\ apc[a] = "kernel" => chosen[a] \in Variants /\ chosen[a] <= AtMost(snapshot[a].width, HostMax)
    /\ apc[a] = "shimCode" => /\ page = "rx" /\ chosen[a] = snapshot[a].slot
                              /\ chosen[a] <= AllowedMax

\* Every selection, reset, validation, attestation and kernel call returns: the
\* two trampoline locks are always taken in the same order, and nothing waits
\* for the gate.
CallsReturn ==
  /\ \A t \in Thread : pc[t] # "idle" ~> pc[t] = "idle"
  /\ \A a \in App : apc[a] # "idle" ~> apc[a] \in {"idle", "gone"}
=============================================================================
