--------------------------- MODULE MCMonitorLoop ---------------------------
(* The monitor loop on small counts and short times.                       *)
EXTENDS MonitorLoop
=============================================================================
