----------------------------- MODULE MCDispatch -----------------------------
(* One application thread and one selecting thread for TLC.                  *)
EXTENDS Dispatch
=============================================================================
