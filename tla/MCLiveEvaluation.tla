--------------------------- MODULE MCLiveEvaluation ---------------------------
(* An instance of LiveEvaluation for TLC: in the first trial the journal works *)
(* and the process lives, on the others anything may go wrong.                 *)
EXTENDS LiveEvaluation

MCTrials == 1 .. 3

MCBadDays == 2 .. 3
=============================================================================
