------------------------- MODULE MCPolicyController -------------------------
(***************************************************************************)
(* A host with three widths and a horizon of two samples; temperatures     *)
(* below the upgrade limit, inside the guard band and above the emergency  *)
(* limit; performance inside and outside the SLO; and four coefficient     *)
(* files: one whose width steps are hot, one whose steps are free, which   *)
(* needs two samples and has no window, one in which widening cools and    *)
(* one without temperature terms; the last two are refused.                *)
(***************************************************************************)
EXTENDS PolicyController

MCTemps == {60, 78, 90}
MCPerformance == {<<10, 0>>, <<30, 20>>}
MCDefaults == [terms |-> 0, others |-> 0, window |-> 1, heat |-> 3, gain |-> 4]
MCFiles == {[terms |-> 1, others |-> 0, window |-> 2, heat |-> 6, gain |-> 2],
            [terms |-> 1, others |-> 2, window |-> 0, heat |-> 0, gain |-> 8],
            [terms |-> 1, others |-> 0, window |-> 1, heat |-> -3, gain |-> 4],
            [terms |-> 0, others |-> 0, window |-> 2, heat |-> 6, gain |-> 2]}
=============================================================================
