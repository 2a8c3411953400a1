----------------------------- MODULE RuntimeTurn -----------------------------
(***************************************************************************)
(* What a runtime promises its callers about the turns of one session,     *)
(* whatever happens below it: one run at a time holds the session, a run   *)
(* that holds it is settled once, by the step that gives the session up,   *)
(* and a settled run never holds it again.                                 *)
(* Source: the turns map of src/src/adapters/copilot.mjs: run() enters a   *)
(* task in it (lines 680-713), #finishTask takes it out (lines 627-661).   *)
(***************************************************************************)
CONSTANTS Calls, Outcomes, None, No     \* No: not settled yet

VARIABLES turn, settled

turnVars == <<turn, settled>>

TurnInit == turn = None /\ settled = [r \in Calls |-> No]

Begin(r) ==
    /\ turn = None /\ settled[r] = No
    /\ turn' = r
    /\ UNCHANGED settled

Settle(r) ==
    /\ turn = r /\ settled[r] = No
    /\ turn' = None
    /\ \E o \in Outcomes : settled' = [settled EXCEPT ![r] = o]

TurnNext == \E r \in Calls : Begin(r) \/ Settle(r)

TurnSpec == TurnInit /\ [][TurnNext]_turnVars
=============================================================================
