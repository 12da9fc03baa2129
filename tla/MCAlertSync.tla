---------------------------- MODULE MCAlertSync ----------------------------
(***************************************************************************)
(* Instances of AlertSync for TLC.  Event e is charged to day 1 when it is *)
(* odd, to day 2 otherwise.                                                *)
(***************************************************************************)
EXTENDS AlertSync, TLC

CONSTANTS r1, r2

MCDayOf == [e \in Events |-> IF e % 2 = 1 THEN 1 ELSE 2]
MCOneDay == [e \in Events |-> 1]

Symmetry == Permutations({r1, r2})
=============================================================================
