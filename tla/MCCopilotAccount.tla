--------------------------- MODULE MCCopilotAccount ---------------------------
(* Small instances of CopilotAccount. *)
EXTENDS CopilotAccount, TLC
CONSTANTS o1, o2, u1, u2
Symmetry == Permutations({u1, u2})
=============================================================================
