----------------------------- MODULE MCThreads -----------------------------
(***************************************************************************)
(* The two components that own a thread which several callers start and    *)
(* stop, for TLC: the runtime and its monitor (RuntimeLifecycle), with     *)
(* four calling threads and three handle addresses, and a fusion object    *)
(* and its polling thread (FusionWorker), with three callers and two       *)
(* thread identities.  They share no state: a behaviour explores one of    *)
(* them and leaves the other in its initial state.  No symmetry, since the *)
(* run also checks liveness.                                               *)
(***************************************************************************)
EXTENDS RuntimeLifecycle, FusionWorker

ASSUME FusionIdentities == Identities

VARIABLE explored      \* the component this behaviour is about

ThreadsInit == Init /\ FusionInit /\ explored \in {"runtime", "fusion"}

ThreadsNext ==
  /\ \/ explored = "runtime" /\ Next /\ UNCHANGED fusionVars
     \/ explored = "fusion" /\ FusionNext /\ UNCHANGED vars
  /\ UNCHANGED explored

ThreadsSpec ==
  /\ ThreadsInit /\ [][ThreadsNext]_<<vars, fusionVars, explored>>
  /\ explored = "runtime" => Fairness
  /\ explored = "fusion" => FusionFairness
=============================================================================
