-------------------------- MODULE MCMetricsExporter --------------------------
(* One controlling thread, two pool threads and up to three connections.       *)
EXTENDS MetricsExporter
==============================================================================
