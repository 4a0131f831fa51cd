----------------------------- MODULE MCExperiment -----------------------------
(* The controller alone for TLC: an experiment whose journal works and whose   *)
(* process lives.                                                              *)
EXTENDS ExperimentController
=============================================================================
