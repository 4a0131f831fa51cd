--------------------------- MODULE MCRemediation ---------------------------
(***************************************************************************)
(* Small instances of Remediation.                                         *)
(***************************************************************************)
EXTENDS Remediation, TLC

CONSTANTS h1, h2

Hypothesis(service, confident, cites) ==
  [service |-> service, confident |-> confident, cites |-> cites]

Diagnosis(status, top) == [status |-> status, top |-> top]

\* A grounded diagnosis, one that ran out of wall time after ranking, one that
\* rests on history only, and one without any hypothesis.
MCDiagnoses ==
  {Diagnosis("completed", Hypothesis("cart", TRUE, {"current"})),
   Diagnosis("completed", Hypothesis("cart", TRUE, {"historical"})),
   Diagnosis("budget_exhausted", None)}

MCBudgetDiagnoses ==
  {Diagnosis("completed", Hypothesis("cart", TRUE, {"current"})),
   Diagnosis("budget_exhausted", Hypothesis("cart", TRUE, {"current"}))}

Proposal(action, namespace, target) ==
  [action |-> action, namespace |-> namespace, target |-> target,
   service |-> "cart"]

\* A restart of a pod, of a stateful pod, of a pod in a second namespace, and a
\* change that is advice only.
MCProposals ==
  {Proposal("restart_pod", "shop", "cart-a"),
   Proposal("restart_pod", "shop", "cart-0"),
   Proposal("restart_pod", "lab", "cart-l"),
   Proposal("restart_deployment", "shop", "cart-a")}

Pod(namespace, name, owner) ==
  [namespace |-> namespace, name |-> name, owner |-> owner, labels |-> {"cart"}]

MCPods == {Pod("shop", "cart-a", "ReplicaSet"),
           Pod("shop", "cart-0", "StatefulSet"),
           Pod("lab", "cart-l", "ReplicaSet")}

MCLabels == {"shop", "lab", "cart-a", "cart-0", "cart-l"}
MCExactNames == MCLabels

\* A rolling change of the settings: both replicas allow one namespace, only the
\* first still allows the other.
MCAllowed == (h1 :> {"shop", "lab"}) @@ (h2 :> {"shop"})
=============================================================================
