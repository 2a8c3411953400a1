------------------------------ MODULE MCEventLog ------------------------------
(* A consumer of one conversation, which subscribes, leaves and resumes    *)
(* any number of times, while another conversation of the same owner is    *)
(* published past its feed.                                                *)
EXTENDS EventLog, TLC

CONSTANTS c1, c2, w1

MCConvOf == w1 :> c1
=============================================================================
