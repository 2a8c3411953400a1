----------------------------- MODULE MCCodexTurn -----------------------------
(* Small instances of CodexTurn: the names of calls and prompts mean nothing. *)
EXTENDS CodexTurn, TLC

CONSTANTS r1, r2, q1, a1, a2

Interchangeable == Permutations({r1, r2}) \cup Permutations({a1, a2})
=============================================================================
