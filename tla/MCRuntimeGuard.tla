--------------------------- MODULE MCRuntimeGuard ---------------------------
(* Thread roles are given in the configurations: a thread may both run     *)
(* kernels and control the runtime.                                        *)
EXTENDS RuntimeGuard
=============================================================================
