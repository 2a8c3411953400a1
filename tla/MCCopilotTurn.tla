---------------------------- MODULE MCCopilotTurn ----------------------------
(* Small instances of CopilotTurn. *)
EXTENDS CopilotTurn, TLC
CONSTANTS r1, r2, q1, s1, m1, m2
Symmetry == Permutations({r1, r2})
=============================================================================
