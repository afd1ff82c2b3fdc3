------------------------------ MODULE WideGate ------------------------------
(***************************************************************************)
(* What src/runtime_guard_internal.h:12-24 promises of the wide-SIMD       *)
(* admission protocol, with the guard lock, the in-flight counter and the  *)
(* two-sided check abstracted to one atomic admission.                     *)
(***************************************************************************)
EXTENDS Naturals

CONSTANT Thread

VARIABLES open,    \* wide invocations may be admitted
          phase,   \* "running", "stopping", or "drained" (nobody is inside)
          inside   \* how many admitted wide invocations each thread is inside

vars == <<open, phase, inside>>

Init == open = FALSE /\ phase = "running" /\ inside = [t \in Thread |-> 0]

\* a wide invocation is let in; it may be nested in others of its thread
Admit(t) ==
  /\ open
  /\ inside' = [inside EXCEPT ![t] = @ + 1]
  /\ UNCHANGED <<open, phase>>

\* a wide invocation ends, or backs out before it reaches user code
Retire(t) ==
  /\ inside[t] > 0
  /\ inside' = [inside EXCEPT ![t] = @ - 1]
  /\ UNCHANGED <<open, phase>>

Close == open' = FALSE /\ UNCHANGED <<phase, inside>>

Reopen == phase = "running" /\ open' = TRUE /\ UNCHANGED <<phase, inside>>

BeginStop ==
  /\ ~open /\ phase # "drained"
  /\ phase' = "stopping"
  /\ UNCHANGED <<open, inside>>

Drain ==
  /\ phase = "stopping" /\ \A t \in Thread : inside[t] = 0
  /\ phase' = "drained"
  /\ UNCHANGED <<open, inside>>

\* a stop call gives up after the drain and may be retried
AbandonStop == phase = "drained" /\ phase' = "stopping" /\ UNCHANGED <<open, inside>>

\* stopping ends: a start going live (no drain needed) or a completed stop
EndStop == phase # "running" /\ phase' = "running" /\ UNCHANGED <<open, inside>>

Next ==
  \/ \E t \in Thread : Admit(t) \/ Retire(t)
  \/ Close \/ Reopen \/ BeginStop \/ Drain \/ AbandonStop \/ EndStop

Spec == Init /\ [][Next]_vars
=============================================================================
