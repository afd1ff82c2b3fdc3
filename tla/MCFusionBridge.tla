--------------------------- MODULE MCFusionBridge ---------------------------
(* Three perf contexts and two CPUs for TLC.                               *)
EXTENDS FusionBridge
=============================================================================
