--------------------------- MODULE PlanLifecycle ---------------------------
(***************************************************************************)
(* What RootLens promises about a remediation plan, whatever replicas,     *)
(* requests, races and failures there are: a plan is decided once, an      *)
(* executor runs for it at most once and only after an approval, and a     *)
(* plan is reported as succeeded only when its pod really was deleted and  *)
(* a receipt says so.  Remediation.tla implements this module.             *)
(***************************************************************************)
EXTENDS Naturals

CONSTANT Plans              \* identifiers a plan may get

VARIABLES
  status,                   \* status of each plan, "none" before it exists
  attempts,                 \* how often an executor was asked to act for it
  deleted,                  \* plans whose target pod the cluster deleted
  recorded                  \* plans with a stored action receipt

lvars == <<status, attempts, deleted, recorded>>

FinalStatuses == {"rejected", "succeeded", "failed", "recommendation_only"}

PlanStatuses == FinalStatuses \cup {"proposed", "approved", "executing"}

LInit ==
  /\ status = [p \in Plans |-> "none"]
  /\ attempts = [p \in Plans |-> 0]
  /\ deleted = {}
  /\ recorded = {}

Move(p, from, to) ==
  /\ status[p] = from
  /\ status' = [status EXCEPT ![p] = to]

\* A plan appears, executable after an approval or as advice only.
Propose(p) ==
  /\ \E s \in {"proposed", "recommendation_only"} : Move(p, "none", s)
  /\ UNCHANGED <<attempts, deleted, recorded>>

Reject(p) ==
  /\ Move(p, "proposed", "rejected")
  /\ UNCHANGED <<attempts, deleted, recorded>>

Approve(p) ==
  /\ Move(p, "proposed", "approved")
  /\ UNCHANGED <<attempts, deleted, recorded>>

\* Revalidation refuses an approved plan.
Refuse(p) ==
  /\ Move(p, "approved", "failed")
  /\ UNCHANGED <<attempts, deleted, recorded>>

ClaimExecution(p) ==
  /\ Move(p, "approved", "executing")
  /\ UNCHANGED <<attempts, deleted, recorded>>

\* The only attempt a plan ever gets.
Attempt(p) ==
  /\ status[p] = "executing" /\ attempts[p] = 0
  /\ attempts' = [attempts EXCEPT ![p] = 1]
  /\ UNCHANGED <<status, deleted, recorded>>

\* The cluster acts on the attempt, possibly after RootLens stopped waiting.
Delete(p) ==
  /\ attempts[p] = 1 /\ p \notin deleted
  /\ deleted' = deleted \cup {p}
  /\ UNCHANGED <<status, attempts, recorded>>

Record(p) ==
  /\ status[p] = "executing" /\ attempts[p] = 1 /\ p \notin recorded
  /\ recorded' = recorded \cup {p}
  /\ UNCHANGED <<status, attempts, deleted>>

Report(p) ==
  /\ p \in recorded
  /\ \/ p \in deleted /\ Move(p, "executing", "succeeded")
     \/ Move(p, "executing", "failed")
  /\ UNCHANGED <<attempts, deleted, recorded>>

LNext == \E p \in Plans :
  \/ Propose(p) \/ Reject(p) \/ Approve(p) \/ Refuse(p)
  \/ ClaimExecution(p) \/ Attempt(p) \/ Delete(p) \/ Record(p) \/ Report(p)

LSpec == LInit /\ [][LNext]_lvars
=============================================================================
