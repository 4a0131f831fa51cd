------------------------------ MODULE MCConsole ------------------------------
(* An instance of Console for TLC: two incidents, the first with two plans. *)
EXTENDS Console

MCIncidentOf == <<1, 1, 2>>
=============================================================================
