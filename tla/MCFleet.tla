------------------------------- MODULE MCFleet -------------------------------
(* Instances of Fleet for TLC: the ids of the agents, and the symmetry of  *)
(* those that nothing in the instance tells apart.                         *)
EXTENDS Fleet, TLC

CONSTANTS p1, p2, c1, c2

CopilotSymmetry == Permutations({p1, p2})
CodexSymmetry == Permutations({c1, c2})
=============================================================================
