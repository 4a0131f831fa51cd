--------------------------- MODULE MCInvestigation ---------------------------
(* Instances of InvestigationLifecycle for TLC. *)
EXTENDS InvestigationLifecycle

CONSTANTS h1, h2, i1, i2

MCHandlers == {h1, h2}
MCIncidents == {i1, i2}

\* Completed or out of budget, and accepted by the database or not.
AllResults == ResultRecord
=============================================================================
