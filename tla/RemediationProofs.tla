-------------------------- MODULE RemediationProofs --------------------------
(***************************************************************************)
(* Proofs about Remediation for every set of handlers, plans, proposals,   *)
(* pods and diagnoses.  The inductive invariant IInv says what each        *)
(* handler's in-memory plan has to do with the stored one (Locals), who    *)
(* owns an approved plan (Ownership), what an execution leaves behind      *)
(* (Execution, Receipts) and what it rests on (Grounding, Supersession).   *)
(* The theorems, at the end, follow from its invariance.                   *)
(***************************************************************************)
EXTENDS Remediation, FiniteSetTheorems, TLAPS

ApprovedPhase == {"approved", "current", "refusing", "claiming"}
ExecutingPhase == {"executing", "waiting", "recording", "finishing"}

FullyChecked(plan) ==
  DOMAIN plan.checks = ExecutionRules /\ PolicyAllows(plan.checks)

\* Where a plan, stored or prepared, comes from, given the investigations.
Derived(stock, plan) ==
  LET inv == stock[plan.investigation] IN
  /\ inv # None
  /\ inv.incident = plan.incident
  /\ inv.diagnosis.top # None
  /\ plan.evidence = inv.diagnosis.top.cites

SamePlan(a, b) ==
  /\ a.incident = b.incident /\ a.investigation = b.investigation
  /\ a.proposal = b.proposal /\ a.evidence = b.evidence

Locals ==
  \A h \in Handlers :
    /\ pc[h] # "idle" => copy[h] \in RemediationPlan /\ Derived(investigations, copy[h])
    /\ pc[h] = "creating" =>
         copy[h].status \in {"proposed", "recommendation_only"}
    /\ pc[h] \in Deciding =>
         /\ pid[h] \in Plans /\ plans[pid[h]] # None
         /\ SamePlan(copy[h], plans[pid[h]])
         /\ copy[h].decidedBy \in Actors
    /\ pc[h] = "rejecting" => copy[h].status = "rejected"
    /\ pc[h] \in {"approving"} \cup ApprovedPhase =>
         copy[h].status = "approved"
    /\ pc[h] \in {"executing", "waiting"} => copy[h].status = "executing"
    /\ pc[h] \in {"recording", "finishing"} =>
         copy[h].status \in {"succeeded", "failed"}
    /\ pc[h] \in {"claiming"} \cup ExecutingPhase => FullyChecked(copy[h])

Rows == \A p \in Plans : plans[p] # None => Derived(investigations, plans[p])

Ownership ==
  /\ \A h \in Handlers : pc[h] \in Owning => pid[h] \notin abandoned
  /\ \A h \in Handlers :
       pc[h] \in ApprovedPhase => StatusOf(pid[h]) = "approved"
  /\ \A h \in Handlers :
       pc[h] \in ExecutingPhase => StatusOf(pid[h]) = "executing"
  /\ \A g, h \in Handlers :
       pc[g] \in Owning /\ pc[h] \in Owning /\ pid[g] = pid[h] => g = h
  /\ \A p \in Plans \ abandoned :
       StatusOf(p) \in {"approved", "executing"} =>
         \E h \in Handlers : pc[h] \in Owning /\ pid[h] = p
  /\ \A p \in abandoned : StatusOf(p) \in {"approved", "executing"}

Execution ==
  /\ \A p \in Plans : attempts[p] \in {0, 1}
  /\ \A p \in Plans : attempts[p] = 1 =>
       /\ StatusOf(p) \in {"executing", "succeeded", "failed"}
       /\ plans[p].decidedBy \in Actors
       /\ FullyChecked(plans[p])
  /\ \A p \in Plans : kubectl[p] # "none" => attempts[p] = 1
  /\ \A h \in Handlers : pc[h] \in ExecutingPhase =>
       plans[pid[h]].decidedBy \in Actors /\ FullyChecked(plans[pid[h]])
  /\ \A h \in Handlers : pc[h] = "executing" => attempts[pid[h]] = 0
  /\ \A h \in Handlers : pc[h] \in {"waiting", "recording", "finishing"} =>
       attempts[pid[h]] = 1

Receipts ==
  /\ \A r \in receipts : attempts[r.plan] = 1
  /\ \A r, s \in receipts : r.plan = s.plan => r = s
  /\ \A h \in Handlers : pc[h] \in Owning \ {"finishing"} =>
       \A r \in receipts : r.plan # pid[h]
  /\ \A h \in Handlers : pc[h] = "finishing" =>
       \E r \in receipts : r.plan = pid[h] /\ r.status = copy[h].status
  /\ \A h \in Handlers :
       pc[h] \in {"recording", "finishing"} /\ copy[h].status = "succeeded"
         => kubectl[pid[h]] = "deleted"
  /\ \A p \in Plans : attempts[p] = 1 /\ StatusOf(p) \in FinalStatuses =>
       \E r \in receipts : r.plan = p /\ r.status = StatusOf(p)
  /\ \A p \in Plans : StatusOf(p) = "succeeded" => kubectl[p] = "deleted"

\* What the execution checks establish about a plan, for good.
Grounded(stock, plan) ==
  LET top == stock[plan.investigation].diagnosis.top IN
  /\ top.confident /\ top.service = plan.proposal.service
  /\ plan.evidence = {"current"}
  /\ \E pod \in Pods :
       /\ pod.namespace = plan.proposal.namespace
       /\ pod.name = plan.proposal.target
       /\ pod.owner = "ReplicaSet" /\ plan.proposal.service \in pod.labels

Grounding ==
  /\ \A h \in Handlers : pc[h] \in {"claiming"} \cup ExecutingPhase =>
       /\ Grounded(investigations, copy[h])
       /\ copy[h].proposal.namespace \in Allowed[h]
  /\ \A p \in Plans : attempts[p] = 1 => Grounded(investigations, plans[p])
  /\ \A p \in Plans : kubectl[p] = "deleted" =>
       \E pod \in Pods \ running :
         /\ pod.namespace = plans[p].proposal.namespace
         /\ pod.name = plans[p].proposal.target

Overtaken(stock, plan) ==
  \E j \in InvestigationIds :
    /\ plan.investigation < j
    /\ stock[j] # None
    /\ stock[j].incident = plan.incident

Supersession ==
  /\ \A p \in superseded :
       /\ StatusOf(p) \notin {"none", "proposed"}
       /\ Overtaken(investigations, plans[p])
       /\ attempts[p] = 0
  /\ \A h \in Handlers : pc[h] \in Owning /\ pid[h] \in superseded =>
       pc[h] \in {"approved", "refusing"}

IInv ==
  /\ TypeOK /\ Locals /\ Rows /\ Ownership /\ Execution /\ Receipts
  /\ Grounding /\ Supersession

---------------------------------------------------------------------------
(* Records and what the compound steps leave behind *)

\* The policy answers every rule it evaluates with yes or no.
LEMMA ChecksTypes ==
  ASSUME NEW h, NEW plan, NEW top, NEW pod
  PROVE  /\ EvaluateProposal(h, plan, top) \in [ProposalRules -> BOOLEAN]
         /\ EvaluateExecution(h, plan, top, pod) \in [ExecutionRules -> BOOLEAN]
BY DEF EvaluateProposal, EvaluateExecution, Passes

\* model_copy with another status changes nothing else of a plan.
LEMMA WithStatusPlan ==
  ASSUME NEW plan \in RemediationPlan, NEW s \in PlanStatuses
  PROVE  /\ WithStatus(plan, s) \in RemediationPlan
         /\ WithStatus(plan, s).status = s
         /\ SamePlan(WithStatus(plan, s), plan)
         /\ WithStatus(plan, s).checks = plan.checks
         /\ WithStatus(plan, s).decidedBy = plan.decidedBy
BY DEF RemediationPlan, WithStatus, SamePlan

\* model_copy with other checks changes nothing else of a plan.
LEMMA WithChecksPlan ==
  ASSUME NEW plan \in RemediationPlan, NEW checks \in PolicyChecks
  PROVE  /\ WithChecks(plan, checks) \in RemediationPlan
         /\ WithChecks(plan, checks).status = plan.status
         /\ SamePlan(WithChecks(plan, checks), plan)
         /\ WithChecks(plan, checks).checks = checks
         /\ WithChecks(plan, checks).decidedBy = plan.decidedBy
BY DEF RemediationPlan, WithChecks, SamePlan

\* A decision changes a plan's status and decider only.
LEMMA DecidedPlan ==
  ASSUME NEW plan \in RemediationPlan, NEW s \in PlanStatuses, NEW a \in Actors
  PROVE  /\ Decided(plan, s, a) \in RemediationPlan
         /\ Decided(plan, s, a).status = s
         /\ SamePlan(Decided(plan, s, a), plan)
         /\ Decided(plan, s, a).decidedBy = a
BY DEF RemediationPlan, Decided, SamePlan

\* What propose prepares is a plan with the fields it was given.
LEMMA NewPlanPlan ==
  ASSUME NEW inc \in Incidents, NEW i \in InvestigationIds,
         NEW proposal \in Proposals, NEW evidence \in SUBSET Origins,
         NEW checks \in PolicyChecks, NEW s \in PlanStatuses,
         NEW plan, plan = NewPlan(inc, i, proposal, evidence, checks, s)
  PROVE  /\ plan \in RemediationPlan
         /\ plan.incident = inc /\ plan.investigation = i
         /\ plan.proposal = proposal /\ plan.evidence = evidence
         /\ plan.checks = checks /\ plan.status = s /\ plan.decidedBy = None
BY DEF RemediationPlan, NewPlan

\* The fields of a plan have their types, and a plan is not None.
LEMMA PlanFields ==
  ASSUME NEW plan \in RemediationPlan
  PROVE  /\ plan # None /\ plan.status \in PlanStatuses
         /\ plan.checks \in PolicyChecks /\ plan.incident \in Incidents
         /\ plan.investigation \in InvestigationIds
         /\ plan.proposal \in Proposals
BY ConstantsAssumption DEF RemediationPlan

\* What propose leaves in its handler: a plan derived from the investigation it
\* read.
LEMMA ProposeEffect ==
  ASSUME IInv, NEW h \in Handlers, NEW inc \in Incidents,
         NEW i \in InvestigationIds, NEW proposal \in Proposals,
         Propose(h, inc, i, proposal)
  PROVE  /\ copy' = [copy EXCEPT ![h] = copy'[h]]
         /\ copy'[h] \in RemediationPlan /\ Derived(investigations, copy'[h])
         /\ copy'[h].status \in {"proposed", "recommendation_only"}
<1> DEFINE top == investigations[i].diagnosis.top
           draft == [proposal |-> proposal, evidence |-> top.cites,
                     decidedBy |-> None]
           checks == EvaluateProposal(h, draft, top)
           s == IF Elevated(proposal.action) \/ ~PolicyAllows(checks)
                THEN "recommendation_only" ELSE "proposed"
           plan == NewPlan(inc, i, proposal, top.cites, checks, s)
<1>1. /\ investigations[i] # None /\ investigations[i].incident = inc
      /\ top # None /\ top.cites \in SUBSET Origins
  BY ConstantsAssumption DEF Propose, IsLatest, IInv, TypeOK, Investigation
<1>2. checks \in PolicyChecks
  BY ChecksTypes DEF PolicyChecks
<1>3. s \in {"proposed", "recommendation_only"} /\ s \in PlanStatuses
  BY DEF PlanStatuses, FinalStatuses
<1>4. /\ plan \in RemediationPlan
      /\ plan.incident = inc /\ plan.investigation = i
      /\ plan.evidence = top.cites /\ plan.status = s
  <2> HIDE DEF top, checks, s
  <2> QED BY <1>1, <1>2, <1>3, NewPlanPlan
<1>5. copy' = [copy EXCEPT ![h] = plan] /\ copy'[h] = plan
  BY DEF Propose, IInv, TypeOK
<1>6. Derived(investigations, plan)
  BY <1>1, <1>4 DEF Derived
<1> HIDE DEF plan, s
<1> QED BY <1>3, <1>4, <1>5, <1>6

\* What a decision leaves in its handler: the stored plan, decided.
LEMMA DecisionEffect ==
  ASSUME IInv, NEW h \in Handlers, NEW p \in Plans, NEW inc,
         NEW actor \in Actors, NEW s \in PlanStatuses, NEW label,
         BeginDecision(h, p, inc, actor, s, label)
  PROVE  /\ copy' = [copy EXCEPT ![h] = copy'[h]]
         /\ plans[p] \in RemediationPlan /\ plans[p].status = "proposed"
         /\ copy'[h] \in RemediationPlan
         /\ copy'[h].status = s /\ copy'[h].decidedBy = actor
         /\ SamePlan(copy'[h], plans[p])
<1> DEFINE plan == Decided(plans[p], s, actor)
<1>1. plans[p] \in RemediationPlan /\ plans[p].status = "proposed"
  BY DEF BeginDecision, InStatus, IInv, TypeOK
<1>2. /\ plan \in RemediationPlan /\ plan.status = s
      /\ plan.decidedBy = actor /\ SamePlan(plan, plans[p])
  BY <1>1, DecidedPlan
<1>3. copy' = [copy EXCEPT ![h] = plan] /\ copy'[h] = plan
  BY DEF BeginDecision, IInv, TypeOK
<1> HIDE DEF plan
<1> QED BY <1>1, <1>2, <1>3 DEF SamePlan

\* DecisionEffect for reject.
LEMMA RejectEffect ==
  ASSUME IInv, NEW h \in Handlers, NEW p \in Plans, NEW inc,
         NEW actor \in Actors, Reject(h, p, inc, actor)
  PROVE  /\ copy' = [copy EXCEPT ![h] = copy'[h]]
         /\ plans[p] \in RemediationPlan
         /\ copy'[h] \in RemediationPlan
         /\ copy'[h].status = "rejected" /\ copy'[h].decidedBy = actor
         /\ SamePlan(copy'[h], plans[p])
<1>1. "rejected" \in PlanStatuses
  BY DEF PlanStatuses, FinalStatuses
<1>2. BeginDecision(h, p, inc, actor, "rejected", "rejecting")
  BY DEF Reject
<1> QED BY <1>1, <1>2, DecisionEffect

\* DecisionEffect for approve_and_execute.
LEMMA ApproveEffect ==
  ASSUME IInv, NEW h \in Handlers, NEW p \in Plans, NEW inc,
         NEW actor \in Actors, Approve(h, p, inc, actor)
  PROVE  /\ copy' = [copy EXCEPT ![h] = copy'[h]]
         /\ plans[p] \in RemediationPlan
         /\ copy'[h] \in RemediationPlan
         /\ copy'[h].status = "approved" /\ copy'[h].decidedBy = actor
         /\ SamePlan(copy'[h], plans[p])
<1>1. "approved" \in PlanStatuses
  BY DEF PlanStatuses, FinalStatuses
<1>2. BeginDecision(h, p, inc, actor, "approved", "approving")
  BY DEF Approve
<1> QED BY <1>1, <1>2, DecisionEffect

\* A request that arrives disturbs no other request and nothing stored.
LEMMA ArriveEffect ==
  ASSUME IInv, NEW h \in Handlers, Arrive(h)
  PROVE  /\ UNCHANGED <<stored, running, kubectl, history>>
         /\ pc[h] = "idle" /\ pc'[h] \in {"creating", "rejecting", "approving"}
         /\ \A g \in Handlers \ {h} :
              pc'[g] = pc[g] /\ pid'[g] = pid[g] /\ copy'[g] = copy[g]
<1> USE DEF Goto, IInv, TypeOK
<1>1. ASSUME NEW inc \in Incidents, NEW i \in InvestigationIds,
             NEW proposal \in Proposals, Propose(h, inc, i, proposal)
      PROVE  /\ UNCHANGED <<stored, running, kubectl, history, pid>>
             /\ pc[h] = "idle" /\ pc' = [pc EXCEPT ![h] = "creating"]
             /\ copy' = [copy EXCEPT ![h] = copy'[h]]
  BY <1>1, ProposeEffect DEF Propose
<1>2. ASSUME NEW p, NEW inc, NEW actor, NEW decision,
             NEW label \in {"rejecting", "approving"},
             BeginDecision(h, p, inc, actor, decision, label)
      PROVE  /\ UNCHANGED <<stored, running, kubectl, history>>
             /\ pc[h] = "idle" /\ pc' = [pc EXCEPT ![h] = label]
             /\ \E q, plan : /\ copy' = [copy EXCEPT ![h] = plan]
                             /\ pid' = [pid EXCEPT ![h] = q]
  BY <1>2 DEF BeginDecision
<1> QED BY <1>1, <1>2 DEF Arrive, Reject, Approve, stored, history

\* What is known of a plan depends on the fields that never change.
LEMMA SamePlanFacts ==
  ASSUME NEW stock, NEW a, NEW b, SamePlan(a, b)
  PROVE  /\ Derived(stock, a) <=> Derived(stock, b)
         /\ Grounded(stock, a) <=> Grounded(stock, b)
         /\ Overtaken(stock, a) <=> Overtaken(stock, b)
BY DEF SamePlan, Derived, Grounded, Overtaken

\* Storing one more investigation takes nothing away.
LEMMA StockGrows ==
  ASSUME NEW stock \in [InvestigationIds -> Investigation \cup {None}],
         NEW i \in InvestigationIds, NEW inv \in Investigation,
         stock[i] = None, NEW plan \in RemediationPlan, Derived(stock, plan)
  PROVE  LET grown == [stock EXCEPT ![i] = inv] IN
         /\ Derived(grown, plan)
         /\ Grounded(stock, plan) => Grounded(grown, plan)
         /\ Overtaken(stock, plan) => Overtaken(grown, plan)
BY ConstantsAssumption, PlanFields DEF Derived, Grounded, Overtaken

\* Storing one more investigation leaves what is known of the plans known.
LEMMA SaveEffect ==
  ASSUME IInv, NEW i \in InvestigationIds, NEW inc \in Incidents,
         NEW d \in Diagnoses, SaveInvestigation(i, inc, d)
  PROVE  /\ UNCHANGED <<plans, receipts, running, kubectl, local, history>>
         /\ \A plan \in RemediationPlan : Derived(investigations, plan) =>
              /\ Derived(investigations', plan)
              /\ Grounded(investigations, plan) => Grounded(investigations', plan)
              /\ Overtaken(investigations, plan) =>
                   Overtaken(investigations', plan)
<1> DEFINE inv == [incident |-> inc, diagnosis |-> d]
<1>1. inv \in Investigation /\ investigations[i] = None
  BY DEF Investigation, SaveInvestigation
<1>2. investigations' = [investigations EXCEPT ![i] = inv]
  BY DEF SaveInvestigation
<1>3. investigations \in [InvestigationIds -> Investigation \cup {None}]
  BY DEF IInv, TypeOK
<1>4. UNCHANGED <<plans, receipts, running, kubectl, local, history>>
  BY DEF SaveInvestigation
<1> HIDE DEF inv
<1> QED BY <1>1, <1>2, <1>3, <1>4, StockGrows

\* No request owns a plan that is still PROPOSED.
LEMMA ProposedIsUnowned ==
  ASSUME IInv, NEW p \in Plans, InStatus(p, "proposed")
  PROVE  /\ p \notin abandoned
         /\ \A g \in Handlers : pc[g] \in Owning => pid[g] # p
         /\ attempts[p] = 0 /\ kubectl[p] = "none" /\ p \notin superseded
         /\ \A r \in receipts : r.plan # p
BY DEF IInv, TypeOK, Ownership, Execution, Receipts, Supersession, InStatus,
       StatusOf, Owning, ApprovedPhase, ExecutingPhase

\* The claim of an approved plan by its owner cannot fail.
LEMMA ClaimSucceeds ==
  ASSUME IInv, NEW h \in Handlers, pc[h] = "claiming"
  PROVE  InStatus(pid[h], "approved")
BY DEF IInv, Ownership, Locals, InStatus, StatusOf, Deciding, Owning,
     ApprovedPhase

\* A plan whose investigation is not the latest any more has been overtaken.
LEMMA LatestOrOvertaken ==
  ASSUME NEW plan \in RemediationPlan, Derived(investigations, plan),
         ~IsLatest(plan.incident, plan.investigation)
  PROVE  Overtaken(investigations, plan)
BY PlanFields, ConstantsAssumption DEF Derived, IsLatest, Overtaken,
     InvestigationIds

\* A busy handler holds a plan; a deciding one works on a stored plan.
LEMMA HandlerFacts ==
  ASSUME IInv, NEW h \in Handlers
  PROVE  /\ pc[h] # "idle" => copy[h] \in RemediationPlan
         /\ pc[h] \in Deciding =>
              /\ pid[h] \in Plans /\ plans[pid[h]] \in RemediationPlan
BY DEF IInv, TypeOK, Locals

---------------------------------------------------------------------------
(* The invariant holds initially and every step keeps each of its parts *)

\* The invariant holds when the service starts.
LEMMA InitInv == Init => IInv
BY ConstantsAssumption DEF Init, IInv, TypeOK, Locals, Rows, Ownership,
     Execution, Receipts, Grounding, Supersession, Deciding, Owning,
     ApprovedPhase, ExecutingPhase, StatusOf

\* Every step keeps every variable in its type.
LEMMA TypeStep == IInv /\ [Next]_vars => TypeOK'
<1> SUFFICES ASSUME IInv, [Next]_vars PROVE TypeOK'
  OBVIOUS
<1> USE ConstantsAssumption, PlanFields DEF vars, stored, local, history, Goto,
     Leave, Store, IInv, TypeOK, Deciding, Owning, ApprovedPhase,
     ExecutingPhase, PlanStatuses, FinalStatuses, PolicyChecks, SamePlan,
     Locals
<1>1. ASSUME NEW i \in InvestigationIds, NEW inc \in Incidents, NEW d \in
             Diagnoses, SaveInvestigation(i, inc, d)
      PROVE  TypeOK'
  BY <1>1 DEF SaveInvestigation, Investigation
<1>2. ASSUME NEW pod \in Pods, PodGone(pod)
      PROVE  TypeOK'
  BY <1>2 DEF PodGone
<1>3. ASSUME NEW p \in Plans, DeletePod(p)
      PROVE  TypeOK'
  BY <1>3 DEF DeletePod
<1>4. ASSUME NEW p \in Plans, RefuseDelete(p)
      PROVE  TypeOK'
  BY <1>4 DEF RefuseDelete
<1>5. ASSUME NEW h \in Handlers, NEW inc \in Incidents, NEW i \in
             InvestigationIds, NEW proposal \in Proposals, Propose(h, inc, i,
             proposal)
      PROVE  TypeOK'
  <2>1. /\ copy' = [copy EXCEPT ![h] = copy'[h]]
        /\ copy'[h] \in RemediationPlan
        /\ Derived(investigations, copy'[h])
        /\ copy'[h].status \in {"proposed", "recommendation_only"}
    BY <1>5, ProposeEffect
  <2>2. /\ pc' = [pc EXCEPT ![h] = "creating"]
        /\ UNCHANGED <<stored, running, kubectl, pid, history>>
    BY <1>5 DEF Propose
  <2> QED BY <2>1, <2>2
<1>6. ASSUME NEW h \in Handlers, NEW p \in Plans, NEW inc \in Incidents, NEW
             actor \in Actors, Reject(h, p, inc, actor)
      PROVE  TypeOK'
  <2>1. /\ copy' = [copy EXCEPT ![h] = copy'[h]]
        /\ plans[p] \in RemediationPlan
        /\ copy'[h] \in RemediationPlan
        /\ copy'[h].status = "rejected" /\ copy'[h].decidedBy = actor
        /\ SamePlan(copy'[h], plans[p])
    BY <1>6, RejectEffect
  <2> QED BY <1>6, <2>1 DEF Reject, BeginDecision
<1>7. ASSUME NEW h \in Handlers, NEW p \in Plans, NEW inc \in Incidents, NEW
             actor \in Actors, Approve(h, p, inc, actor)
      PROVE  TypeOK'
  <2>1. /\ copy' = [copy EXCEPT ![h] = copy'[h]]
        /\ plans[p] \in RemediationPlan
        /\ copy'[h] \in RemediationPlan
        /\ copy'[h].status = "approved" /\ copy'[h].decidedBy = actor
        /\ SamePlan(copy'[h], plans[p])
    BY <1>7, ApproveEffect
  <2> QED BY <1>7, <2>1 DEF Approve, BeginDecision
<1>8. ASSUME NEW h \in Handlers, NEW p \in Plans, CreatePlan(h, p)
      PROVE  TypeOK'
  BY <1>8, HandlerFacts DEF CreatePlan, InStatus
<1>9. ASSUME NEW h \in Handlers, CommitRejection(h)
      PROVE  TypeOK'
  <2>1. CASE InStatus(pid[h], "proposed")
    BY <2>1, <1>9, HandlerFacts DEF CommitRejection, InStatus
  <2>2. CASE ~InStatus(pid[h], "proposed")
    BY <2>2, <1>9, HandlerFacts DEF CommitRejection
  <2> QED BY <2>1, <2>2
<1>10. ASSUME NEW h \in Handlers, CommitApproval(h)
      PROVE  TypeOK'
  <2>1. CASE InStatus(pid[h], "proposed")
    BY <2>1, <1>10, HandlerFacts DEF CommitApproval, InStatus
  <2>2. CASE ~InStatus(pid[h], "proposed")
    BY <2>2, <1>10, HandlerFacts DEF CommitApproval
  <2> QED BY <2>1, <2>2
<1>11. ASSUME NEW h \in Handlers, CheckCurrent(h)
      PROVE  TypeOK'
  BY <1>11 DEF CheckCurrent
<1>12. ASSUME NEW h \in Handlers, ListPodsFails(h)
      PROVE  TypeOK'
  BY <1>12 DEF ListPodsFails
<1>13. ASSUME NEW h \in Handlers, NEW pod \in Pods \cup {None},
             EvaluatePolicy(h, pod)
      PROVE  TypeOK'
  BY <1>13, HandlerFacts, WithChecksPlan, ChecksTypes DEF EvaluatePolicy
<1>14. ASSUME NEW h \in Handlers, RefuseApproved(h)
      PROVE  TypeOK'
  BY <1>14, HandlerFacts, WithStatusPlan DEF RefuseApproved
<1>15. ASSUME NEW h \in Handlers, ClaimExecution(h)
      PROVE  TypeOK'
  <2>1. CASE InStatus(pid[h], "approved")
    BY <2>1, <1>15, HandlerFacts, WithStatusPlan DEF ClaimExecution, InStatus
  <2>2. CASE ~InStatus(pid[h], "approved")
    BY <2>2, <1>15, HandlerFacts, WithStatusPlan DEF ClaimExecution
  <2> QED BY <2>1, <2>2
<1>16. ASSUME NEW h \in Handlers, SpawnKubectl(h)
      PROVE  TypeOK'
  BY <1>16 DEF SpawnKubectl
<1>17. ASSUME NEW h \in Handlers, ExecutorUnavailable(h)
      PROVE  TypeOK'
  BY <1>17, HandlerFacts, WithStatusPlan DEF ExecutorUnavailable
<1>18. ASSUME NEW h \in Handlers, RestartSucceeds(h)
      PROVE  TypeOK'
  BY <1>18, HandlerFacts, WithStatusPlan DEF RestartSucceeds
<1>19. ASSUME NEW h \in Handlers, RestartFails(h)
      PROVE  TypeOK'
  BY <1>19, HandlerFacts, WithStatusPlan DEF RestartFails
<1>20. ASSUME NEW h \in Handlers, SaveAction(h)
      PROVE  TypeOK'
  <2>1. /\ copy[h] \in RemediationPlan /\ pid[h] \in Plans
        /\ copy[h].status \in {"succeeded", "failed"}
    BY <1>20, HandlerFacts DEF SaveAction
  <2>2. [plan |-> pid[h], target |-> copy[h].proposal.target,
         status |-> copy[h].status] \in ReceiptRecord
    BY <2>1 DEF ReceiptRecord
  <2> QED BY <1>20, <2>2 DEF SaveAction
<1>21. ASSUME NEW h \in Handlers, FinishExecution(h)
      PROVE  TypeOK'
  BY <1>21, HandlerFacts DEF FinishExecution
<1>22. ASSUME NEW h \in Handlers, Abort(h)
      PROVE  TypeOK'
  BY <1>22 DEF Abort
<1>23. CASE UNCHANGED vars
  BY <1>23
<1>24. QED
    BY <1>1, <1>2, <1>3, <1>4, <1>5, <1>6, <1>7, <1>8, <1>9, <1>10, <1>11,
       <1>12, <1>13, <1>14, <1>15, <1>16, <1>17, <1>18, <1>19, <1>20, <1>21,
       <1>22, <1>23 DEF Next, Environment, Proceed, Arrive

\* Every step keeps what a handler's in-memory plan has to do with the stored
\* one.
LEMMA LocalsStep == IInv /\ [Next]_vars => Locals'
<1> SUFFICES ASSUME IInv, [Next]_vars PROVE Locals'
  OBVIOUS
<1> USE ConstantsAssumption, PlanFields, SamePlanFacts DEF vars, stored, local,
     history, Goto, Leave, Store, IInv, TypeOK, Deciding, Owning,
     ApprovedPhase, ExecutingPhase, PlanStatuses, FinalStatuses, PolicyChecks,
     SamePlan, Locals, FullyChecked
<1>1. ASSUME NEW i \in InvestigationIds, NEW inc \in Incidents, NEW d \in
             Diagnoses, SaveInvestigation(i, inc, d)
      PROVE  Locals'
  BY <1>1, SaveEffect
<1>2. ASSUME NEW pod \in Pods, PodGone(pod)
      PROVE  Locals'
  BY <1>2 DEF PodGone
<1>3. ASSUME NEW p \in Plans, DeletePod(p)
      PROVE  Locals'
  BY <1>3 DEF DeletePod
<1>4. ASSUME NEW p \in Plans, RefuseDelete(p)
      PROVE  Locals'
  BY <1>4 DEF RefuseDelete
<1>5. ASSUME NEW h \in Handlers, NEW inc \in Incidents, NEW i \in
             InvestigationIds, NEW proposal \in Proposals, Propose(h, inc, i,
             proposal)
      PROVE  Locals'
  <2>1. /\ copy' = [copy EXCEPT ![h] = copy'[h]]
        /\ copy'[h] \in RemediationPlan
        /\ Derived(investigations, copy'[h])
        /\ copy'[h].status \in {"proposed", "recommendation_only"}
    BY <1>5, ProposeEffect
  <2>2. /\ pc' = [pc EXCEPT ![h] = "creating"]
        /\ UNCHANGED <<stored, running, kubectl, pid, history>>
    BY <1>5 DEF Propose
  <2> QED BY <2>1, <2>2
<1>6. ASSUME NEW h \in Handlers, NEW p \in Plans, NEW inc \in Incidents, NEW
             actor \in Actors, Reject(h, p, inc, actor)
      PROVE  Locals'
  <2>1. /\ copy' = [copy EXCEPT ![h] = copy'[h]]
        /\ plans[p] \in RemediationPlan
        /\ copy'[h] \in RemediationPlan
        /\ copy'[h].status = "rejected" /\ copy'[h].decidedBy = actor
        /\ SamePlan(copy'[h], plans[p])
    BY <1>6, RejectEffect
  <2> QED BY <1>6, <2>1 DEF Reject, BeginDecision, Rows
<1>7. ASSUME NEW h \in Handlers, NEW p \in Plans, NEW inc \in Incidents, NEW
             actor \in Actors, Approve(h, p, inc, actor)
      PROVE  Locals'
  <2>1. /\ copy' = [copy EXCEPT ![h] = copy'[h]]
        /\ plans[p] \in RemediationPlan
        /\ copy'[h] \in RemediationPlan
        /\ copy'[h].status = "approved" /\ copy'[h].decidedBy = actor
        /\ SamePlan(copy'[h], plans[p])
    BY <1>7, ApproveEffect
  <2> QED BY <1>7, <2>1 DEF Approve, BeginDecision, Rows
<1>8. ASSUME NEW h \in Handlers, NEW p \in Plans, CreatePlan(h, p)
      PROVE  Locals'
  BY <1>8, HandlerFacts DEF CreatePlan, InStatus
<1>9. ASSUME NEW h \in Handlers, CommitRejection(h)
      PROVE  Locals'
  <2>1. CASE InStatus(pid[h], "proposed")
    BY <2>1, <1>9, HandlerFacts DEF CommitRejection, InStatus
  <2>2. CASE ~InStatus(pid[h], "proposed")
    BY <2>2, <1>9, HandlerFacts DEF CommitRejection
  <2> QED BY <2>1, <2>2
<1>10. ASSUME NEW h \in Handlers, CommitApproval(h)
      PROVE  Locals'
  <2>1. CASE InStatus(pid[h], "proposed")
    BY <2>1, <1>10, HandlerFacts DEF CommitApproval, InStatus
  <2>2. CASE ~InStatus(pid[h], "proposed")
    BY <2>2, <1>10, HandlerFacts DEF CommitApproval
  <2> QED BY <2>1, <2>2
<1>11. ASSUME NEW h \in Handlers, CheckCurrent(h)
      PROVE  Locals'
  BY <1>11 DEF CheckCurrent
<1>12. ASSUME NEW h \in Handlers, ListPodsFails(h)
      PROVE  Locals'
  BY <1>12 DEF ListPodsFails
<1>13. ASSUME NEW h \in Handlers, NEW pod \in Pods \cup {None},
             EvaluatePolicy(h, pod)
      PROVE  Locals'
  BY <1>13, HandlerFacts, WithChecksPlan, ChecksTypes DEF EvaluatePolicy
<1>14. ASSUME NEW h \in Handlers, RefuseApproved(h)
      PROVE  Locals'
  BY <1>14, HandlerFacts, WithStatusPlan DEF RefuseApproved
<1>15. ASSUME NEW h \in Handlers, ClaimExecution(h)
      PROVE  Locals'
  <2>1. CASE InStatus(pid[h], "approved")
    BY <2>1, <1>15, HandlerFacts, WithStatusPlan DEF ClaimExecution, InStatus
  <2>2. CASE ~InStatus(pid[h], "approved")
    BY <2>2, <1>15, HandlerFacts, WithStatusPlan DEF ClaimExecution
  <2> QED BY <2>1, <2>2
<1>16. ASSUME NEW h \in Handlers, SpawnKubectl(h)
      PROVE  Locals'
  BY <1>16 DEF SpawnKubectl
<1>17. ASSUME NEW h \in Handlers, ExecutorUnavailable(h)
      PROVE  Locals'
  BY <1>17, HandlerFacts, WithStatusPlan DEF ExecutorUnavailable
<1>18. ASSUME NEW h \in Handlers, RestartSucceeds(h)
      PROVE  Locals'
  BY <1>18, HandlerFacts, WithStatusPlan DEF RestartSucceeds
<1>19. ASSUME NEW h \in Handlers, RestartFails(h)
      PROVE  Locals'
  BY <1>19, HandlerFacts, WithStatusPlan DEF RestartFails
<1>20. ASSUME NEW h \in Handlers, SaveAction(h)
      PROVE  Locals'
  BY <1>20 DEF SaveAction
<1>21. ASSUME NEW h \in Handlers, FinishExecution(h)
      PROVE  Locals'
  BY <1>21, HandlerFacts DEF FinishExecution
<1>22. ASSUME NEW h \in Handlers, Abort(h)
      PROVE  Locals'
  BY <1>22 DEF Abort
<1>23. CASE UNCHANGED vars
  BY <1>23
<1>24. QED
    BY <1>1, <1>2, <1>3, <1>4, <1>5, <1>6, <1>7, <1>8, <1>9, <1>10, <1>11,
       <1>12, <1>13, <1>14, <1>15, <1>16, <1>17, <1>18, <1>19, <1>20, <1>21,
       <1>22, <1>23 DEF Next, Environment, Proceed, Arrive

\* Every step keeps each stored plan derived from its investigation.
LEMMA RowsStep == IInv /\ [Next]_vars => Rows'
<1> SUFFICES ASSUME IInv, [Next]_vars PROVE Rows'
  OBVIOUS
<1> USE ConstantsAssumption, PlanFields, SamePlanFacts DEF vars, stored, local,
     history, Goto, Leave, Store, IInv, TypeOK, Deciding, Owning,
     ApprovedPhase, ExecutingPhase, PlanStatuses, FinalStatuses, PolicyChecks,
     SamePlan, Rows, Locals
<1>1. ASSUME NEW i \in InvestigationIds, NEW inc \in Incidents, NEW d \in
             Diagnoses, SaveInvestigation(i, inc, d)
      PROVE  Rows'
  BY <1>1, SaveEffect
<1>2. ASSUME NEW pod \in Pods, PodGone(pod)
      PROVE  Rows'
  BY <1>2 DEF PodGone
<1>3. ASSUME NEW p \in Plans, DeletePod(p)
      PROVE  Rows'
  BY <1>3 DEF DeletePod
<1>4. ASSUME NEW p \in Plans, RefuseDelete(p)
      PROVE  Rows'
  BY <1>4 DEF RefuseDelete
<1>5. ASSUME NEW h \in Handlers, Arrive(h)
      PROVE  Rows'
  BY <1>5, ArriveEffect
<1>6. ASSUME NEW h \in Handlers, NEW p \in Plans, CreatePlan(h, p)
      PROVE  Rows'
  BY <1>6, HandlerFacts DEF CreatePlan, InStatus
<1>7. ASSUME NEW h \in Handlers, CommitRejection(h)
      PROVE  Rows'
  <2>1. CASE InStatus(pid[h], "proposed")
    BY <2>1, <1>7, HandlerFacts DEF CommitRejection, InStatus
  <2>2. CASE ~InStatus(pid[h], "proposed")
    BY <2>2, <1>7, HandlerFacts DEF CommitRejection
  <2> QED BY <2>1, <2>2
<1>8. ASSUME NEW h \in Handlers, CommitApproval(h)
      PROVE  Rows'
  <2>1. CASE InStatus(pid[h], "proposed")
    BY <2>1, <1>8, HandlerFacts DEF CommitApproval, InStatus
  <2>2. CASE ~InStatus(pid[h], "proposed")
    BY <2>2, <1>8, HandlerFacts DEF CommitApproval
  <2> QED BY <2>1, <2>2
<1>9. ASSUME NEW h \in Handlers, CheckCurrent(h)
      PROVE  Rows'
  BY <1>9 DEF CheckCurrent
<1>10. ASSUME NEW h \in Handlers, ListPodsFails(h)
      PROVE  Rows'
  BY <1>10 DEF ListPodsFails
<1>11. ASSUME NEW h \in Handlers, NEW pod \in Pods \cup {None},
             EvaluatePolicy(h, pod)
      PROVE  Rows'
  BY <1>11, HandlerFacts, WithChecksPlan, ChecksTypes DEF EvaluatePolicy
<1>12. ASSUME NEW h \in Handlers, RefuseApproved(h)
      PROVE  Rows'
  BY <1>12, HandlerFacts, WithStatusPlan DEF RefuseApproved
<1>13. ASSUME NEW h \in Handlers, ClaimExecution(h)
      PROVE  Rows'
  <2>1. CASE InStatus(pid[h], "approved")
    BY <2>1, <1>13, HandlerFacts, WithStatusPlan DEF ClaimExecution, InStatus
  <2>2. CASE ~InStatus(pid[h], "approved")
    BY <2>2, <1>13, HandlerFacts, WithStatusPlan DEF ClaimExecution
  <2> QED BY <2>1, <2>2
<1>14. ASSUME NEW h \in Handlers, SpawnKubectl(h)
      PROVE  Rows'
  BY <1>14 DEF SpawnKubectl
<1>15. ASSUME NEW h \in Handlers, ExecutorUnavailable(h)
      PROVE  Rows'
  BY <1>15, HandlerFacts, WithStatusPlan DEF ExecutorUnavailable
<1>16. ASSUME NEW h \in Handlers, RestartSucceeds(h)
      PROVE  Rows'
  BY <1>16, HandlerFacts, WithStatusPlan DEF RestartSucceeds
<1>17. ASSUME NEW h \in Handlers, RestartFails(h)
      PROVE  Rows'
  BY <1>17, HandlerFacts, WithStatusPlan DEF RestartFails
<1>18. ASSUME NEW h \in Handlers, SaveAction(h)
      PROVE  Rows'
  BY <1>18 DEF SaveAction
<1>19. ASSUME NEW h \in Handlers, FinishExecution(h)
      PROVE  Rows'
  BY <1>19, HandlerFacts DEF FinishExecution
<1>20. ASSUME NEW h \in Handlers, Abort(h)
      PROVE  Rows'
  BY <1>20 DEF Abort
<1>21. CASE UNCHANGED vars
  BY <1>21
<1>22. QED
    BY <1>1, <1>2, <1>3, <1>4, <1>5, <1>6, <1>7, <1>8, <1>9, <1>10, <1>11,
       <1>12, <1>13, <1>14, <1>15, <1>16, <1>17, <1>18, <1>19, <1>20, <1>21 DEF
       Next, Environment, Proceed

\* Every step keeps at most one owner of each approved or executing plan, and
\* loses none without a crash.
LEMMA OwnershipStep == IInv /\ [Next]_vars => Ownership'
<1> SUFFICES ASSUME IInv, [Next]_vars PROVE Ownership'
  OBVIOUS
<1> USE ConstantsAssumption, PlanFields DEF vars, stored, local, history, Goto,
     Leave, Store, IInv, TypeOK, Deciding, Owning, ApprovedPhase,
     ExecutingPhase, PlanStatuses, FinalStatuses, PolicyChecks, SamePlan,
     Ownership, Locals, StatusOf
<1>1. ASSUME NEW i \in InvestigationIds, NEW inc \in Incidents, NEW d \in
             Diagnoses, SaveInvestigation(i, inc, d)
      PROVE  Ownership'
  BY <1>1 DEF SaveInvestigation, Investigation
<1>2. ASSUME NEW pod \in Pods, PodGone(pod)
      PROVE  Ownership'
  BY <1>2 DEF PodGone
<1>3. ASSUME NEW p \in Plans, DeletePod(p)
      PROVE  Ownership'
  BY <1>3 DEF DeletePod
<1>4. ASSUME NEW p \in Plans, RefuseDelete(p)
      PROVE  Ownership'
  BY <1>4 DEF RefuseDelete
<1>5. ASSUME NEW h \in Handlers, Arrive(h)
      PROVE  Ownership'
  BY <1>5, ArriveEffect
<1>6. ASSUME NEW h \in Handlers, NEW p \in Plans, CreatePlan(h, p)
      PROVE  Ownership'
  BY <1>6, HandlerFacts DEF CreatePlan, InStatus
<1>7. ASSUME NEW h \in Handlers, CommitRejection(h)
      PROVE  Ownership'
  <2>1. CASE InStatus(pid[h], "proposed")
    <3>1. pid[h] \in Plans /\ copy[h] \in RemediationPlan /\ copy[h].status = "rejected"
      BY <1>7, HandlerFacts DEF CommitRejection
    <3>2. /\ pid[h] \notin abandoned
          /\ \A g \in Handlers : pc[g] \in Owning => pid[g] # pid[h]
          /\ attempts[pid[h]] = 0 /\ kubectl[pid[h]] = "none"
          /\ pid[h] \notin superseded
          /\ \A r \in receipts : r.plan # pid[h]
      BY <2>1, <3>1, ProposedIsUnowned
    <3>3. /\ plans' = [plans EXCEPT ![pid[h]] = copy[h]]
          /\ \A g \in Handlers \ {h} :
               pc'[g] = pc[g] /\ pid'[g] = pid[g] /\ copy'[g] = copy[g]
          /\ pc[h] = "rejecting" /\ pc'[h] = "idle"
          /\ UNCHANGED <<investigations, receipts, running, kubectl, history>>
      BY <1>7, <2>1 DEF CommitRejection
    <3>4. \A p \in Plans : StatusOf(p)' =
            IF p = pid[h] THEN "rejected" ELSE StatusOf(p)
      BY <3>1, <3>3
    <3>5. \A g \in Handlers :
            pc'[g] \in Owning => g # h /\ pc[g] \in Owning /\ pid'[g] # pid[h]
      BY <3>2, <3>3
    <3>6. abandoned' = abandoned /\ abandoned \subseteq Plans
      BY <3>3
    <3>7. \A p \in Plans \ abandoned :
            StatusOf(p)' \in {"approved", "executing"} =>
              \E g \in Handlers : pc'[g] \in Owning /\ pid'[g] = p
      <4> SUFFICES ASSUME NEW p \in Plans \ abandoned,
                          StatusOf(p)' \in {"approved", "executing"}
                   PROVE  \E g \in Handlers : pc'[g] \in Owning /\ pid'[g] = p
        OBVIOUS
      <4>1. StatusOf(p) \in {"approved", "executing"}
        <5> HIDE DEF StatusOf
        <5> QED BY <3>4
      <4>2. PICK g \in Handlers : pc[g] \in Owning /\ pid[g] = p
        <5> HIDE DEF StatusOf
        <5> QED BY <4>1
      <4> QED BY <4>2, <3>3
    <3> HIDE DEF StatusOf
    <3> QED BY <3>2, <3>3, <3>4, <3>5, <3>6, <3>7
  <2>2. CASE ~InStatus(pid[h], "proposed")
    BY <2>2, <1>7, HandlerFacts DEF CommitRejection
  <2> QED BY <2>1, <2>2
<1>8. ASSUME NEW h \in Handlers, CommitApproval(h)
      PROVE  Ownership'
  <2>1. CASE InStatus(pid[h], "proposed")
    <3>1. /\ pid[h] \in Plans /\ copy[h] \in RemediationPlan
          /\ copy[h].status = "approved" /\ copy[h] # None
          /\ SamePlan(copy[h], plans[pid[h]])
      BY <1>8, HandlerFacts DEF CommitApproval
    <3>2. /\ pid[h] \notin abandoned
          /\ \A g \in Handlers : pc[g] \in Owning => pid[g] # pid[h]
          /\ attempts[pid[h]] = 0 /\ kubectl[pid[h]] = "none"
      BY <2>1, <3>1, ProposedIsUnowned
    <3>3. /\ plans' = [plans EXCEPT ![pid[h]] = copy[h]]
          /\ pc' = [pc EXCEPT ![h] = "approved"]
          /\ pc[h] = "approving"
          /\ UNCHANGED <<pid, copy, attempts, kubectl, receipts, running,
                         investigations, abandoned>>
      BY <1>8, <2>1 DEF CommitApproval
    <3>4. \A p \in Plans : StatusOf(p)' =
            IF p = pid[h] THEN "approved" ELSE StatusOf(p)
      BY <3>1, <3>3
    <3>5. \A p \in Plans \ {pid[h]} : plans'[p] = plans[p]
      BY <3>3
    <3>6. /\ \A g \in Handlers \ {h} : pc'[g] = pc[g]
          /\ pc'[h] = "approved"
      BY <3>3
    <3> HIDE DEF StatusOf, FullyChecked, SamePlan
    <3> QED BY <3>1, <3>2, <3>3, <3>4, <3>5, <3>6
  <2>2. CASE ~InStatus(pid[h], "proposed")
    BY <2>2, <1>8, HandlerFacts DEF CommitApproval
  <2> QED BY <2>1, <2>2
<1>9. ASSUME NEW h \in Handlers, CheckCurrent(h)
      PROVE  Ownership'
  BY <1>9 DEF CheckCurrent
<1>10. ASSUME NEW h \in Handlers, ListPodsFails(h)
      PROVE  Ownership'
  BY <1>10 DEF ListPodsFails
<1>11. ASSUME NEW h \in Handlers, NEW pod \in Pods \cup {None},
             EvaluatePolicy(h, pod)
      PROVE  Ownership'
  BY <1>11, HandlerFacts, WithChecksPlan, ChecksTypes DEF EvaluatePolicy
<1>12. ASSUME NEW h \in Handlers, RefuseApproved(h)
      PROVE  Ownership'
  BY <1>12, HandlerFacts, WithStatusPlan DEF RefuseApproved
<1>13. ASSUME NEW h \in Handlers, ClaimExecution(h)
      PROVE  Ownership'
  <2>1. InStatus(pid[h], "approved")
    BY <1>13, ClaimSucceeds DEF ClaimExecution
  <2>2. /\ copy[h] \in RemediationPlan /\ pid[h] \in Plans
        /\ WithStatus(copy[h], "executing") \in RemediationPlan
        /\ WithStatus(copy[h], "executing").status = "executing"
        /\ SamePlan(WithStatus(copy[h], "executing"), copy[h])
        /\ WithStatus(copy[h], "executing").checks = copy[h].checks
        /\ WithStatus(copy[h], "executing").decidedBy = copy[h].decidedBy
    BY <1>13, HandlerFacts, WithStatusPlan DEF ClaimExecution
  <2> QED BY <1>13, <2>1, <2>2 DEF ClaimExecution, InStatus
<1>14. ASSUME NEW h \in Handlers, SpawnKubectl(h)
      PROVE  Ownership'
  BY <1>14 DEF SpawnKubectl
<1>15. ASSUME NEW h \in Handlers, ExecutorUnavailable(h)
      PROVE  Ownership'
  BY <1>15, HandlerFacts, WithStatusPlan DEF ExecutorUnavailable
<1>16. ASSUME NEW h \in Handlers, RestartSucceeds(h)
      PROVE  Ownership'
  BY <1>16, HandlerFacts, WithStatusPlan DEF RestartSucceeds
<1>17. ASSUME NEW h \in Handlers, RestartFails(h)
      PROVE  Ownership'
  BY <1>17, HandlerFacts, WithStatusPlan DEF RestartFails
<1>18. ASSUME NEW h \in Handlers, SaveAction(h)
      PROVE  Ownership'
  BY <1>18 DEF SaveAction
<1>19. ASSUME NEW h \in Handlers, FinishExecution(h)
      PROVE  Ownership'
  BY <1>19, HandlerFacts DEF FinishExecution
<1>20. ASSUME NEW h \in Handlers, Abort(h)
      PROVE  Ownership'
  BY <1>20 DEF Abort
<1>21. CASE UNCHANGED vars
  BY <1>21
<1>22. QED
    BY <1>1, <1>2, <1>3, <1>4, <1>5, <1>6, <1>7, <1>8, <1>9, <1>10, <1>11,
       <1>12, <1>13, <1>14, <1>15, <1>16, <1>17, <1>18, <1>19, <1>20, <1>21 DEF
       Next, Environment, Proceed

\* Every step keeps attempts at one, behind an approval and a full policy
\* check.
LEMMA ExecutionStep == IInv /\ [Next]_vars => Execution'
<1> SUFFICES ASSUME IInv, [Next]_vars PROVE Execution'
  OBVIOUS
<1> USE ConstantsAssumption, PlanFields DEF vars, stored, local, history, Goto,
     Leave, Store, IInv, TypeOK, Deciding, Owning, ApprovedPhase,
     ExecutingPhase, PlanStatuses, FinalStatuses, PolicyChecks, SamePlan,
     Execution, Ownership, Locals, StatusOf, FullyChecked
<1>1. ASSUME NEW i \in InvestigationIds, NEW inc \in Incidents, NEW d \in
             Diagnoses, SaveInvestigation(i, inc, d)
      PROVE  Execution'
  BY <1>1 DEF SaveInvestigation, Investigation
<1>2. ASSUME NEW pod \in Pods, PodGone(pod)
      PROVE  Execution'
  BY <1>2 DEF PodGone
<1>3. ASSUME NEW p \in Plans, DeletePod(p)
      PROVE  Execution'
  BY <1>3 DEF DeletePod
<1>4. ASSUME NEW p \in Plans, RefuseDelete(p)
      PROVE  Execution'
  BY <1>4 DEF RefuseDelete
<1>5. ASSUME NEW h \in Handlers, Arrive(h)
      PROVE  Execution'
  BY <1>5, ArriveEffect
<1>6. ASSUME NEW h \in Handlers, NEW p \in Plans, CreatePlan(h, p)
      PROVE  Execution'
  BY <1>6, HandlerFacts DEF CreatePlan, InStatus
<1>7. ASSUME NEW h \in Handlers, CommitRejection(h)
      PROVE  Execution'
  <2>1. CASE InStatus(pid[h], "proposed")
    <3>1. pid[h] \in Plans /\ copy[h] \in RemediationPlan /\ copy[h].status = "rejected"
      BY <1>7, HandlerFacts DEF CommitRejection
    <3>2. /\ pid[h] \notin abandoned
          /\ \A g \in Handlers : pc[g] \in Owning => pid[g] # pid[h]
          /\ attempts[pid[h]] = 0 /\ kubectl[pid[h]] = "none"
          /\ pid[h] \notin superseded
      BY <2>1, <3>1, ProposedIsUnowned
    <3> QED BY <1>7, <2>1, <3>1, <3>2 DEF CommitRejection
  <2>2. CASE ~InStatus(pid[h], "proposed")
    BY <2>2, <1>7, HandlerFacts DEF CommitRejection
  <2> QED BY <2>1, <2>2
<1>8. ASSUME NEW h \in Handlers, CommitApproval(h)
      PROVE  Execution'
  <2>1. CASE InStatus(pid[h], "proposed")
    <3>1. /\ pid[h] \in Plans /\ copy[h] \in RemediationPlan
          /\ copy[h].status = "approved" /\ copy[h] # None
          /\ SamePlan(copy[h], plans[pid[h]])
      BY <1>8, HandlerFacts DEF CommitApproval
    <3>2. /\ pid[h] \notin abandoned
          /\ \A g \in Handlers : pc[g] \in Owning => pid[g] # pid[h]
          /\ attempts[pid[h]] = 0 /\ kubectl[pid[h]] = "none"
      BY <2>1, <3>1, ProposedIsUnowned
    <3>3. /\ plans' = [plans EXCEPT ![pid[h]] = copy[h]]
          /\ pc' = [pc EXCEPT ![h] = "approved"]
          /\ pc[h] = "approving"
          /\ UNCHANGED <<pid, copy, attempts, kubectl, receipts, running,
                         investigations, abandoned>>
      BY <1>8, <2>1 DEF CommitApproval
    <3>4. \A p \in Plans : StatusOf(p)' =
            IF p = pid[h] THEN "approved" ELSE StatusOf(p)
      BY <3>1, <3>3
    <3>5. \A p \in Plans \ {pid[h]} : plans'[p] = plans[p]
      BY <3>3
    <3>6. /\ \A g \in Handlers \ {h} : pc'[g] = pc[g]
          /\ pc'[h] = "approved"
      BY <3>3
    <3> HIDE DEF StatusOf, FullyChecked, SamePlan
    <3> QED BY <3>1, <3>2, <3>3, <3>4, <3>5, <3>6
  <2>2. CASE ~InStatus(pid[h], "proposed")
    BY <2>2, <1>8, HandlerFacts DEF CommitApproval
  <2> QED BY <2>1, <2>2
<1>9. ASSUME NEW h \in Handlers, CheckCurrent(h)
      PROVE  Execution'
  BY <1>9 DEF CheckCurrent
<1>10. ASSUME NEW h \in Handlers, ListPodsFails(h)
      PROVE  Execution'
  BY <1>10 DEF ListPodsFails
<1>11. ASSUME NEW h \in Handlers, NEW pod \in Pods \cup {None},
             EvaluatePolicy(h, pod)
      PROVE  Execution'
  BY <1>11, HandlerFacts, WithChecksPlan, ChecksTypes DEF EvaluatePolicy
<1>12. ASSUME NEW h \in Handlers, RefuseApproved(h)
      PROVE  Execution'
  BY <1>12, HandlerFacts, WithStatusPlan DEF RefuseApproved
<1>13. ASSUME NEW h \in Handlers, ClaimExecution(h)
      PROVE  Execution'
  <2>1. InStatus(pid[h], "approved")
    BY <1>13, ClaimSucceeds DEF ClaimExecution
  <2>2. /\ copy[h] \in RemediationPlan /\ pid[h] \in Plans
        /\ WithStatus(copy[h], "executing") \in RemediationPlan
        /\ WithStatus(copy[h], "executing").status = "executing"
        /\ SamePlan(WithStatus(copy[h], "executing"), copy[h])
        /\ WithStatus(copy[h], "executing").checks = copy[h].checks
        /\ WithStatus(copy[h], "executing").decidedBy = copy[h].decidedBy
    BY <1>13, HandlerFacts, WithStatusPlan DEF ClaimExecution
  <2>3. /\ attempts[pid[h]] = 0 /\ copy[h].decidedBy \in Actors
        /\ FullyChecked(copy[h])
        /\ \A g \in Handlers \ {h} : pc[g] \in Owning => pid[g] # pid[h]
    BY <1>13, <2>1 DEF ClaimExecution, InStatus
  <2>4. FullyChecked(WithStatus(copy[h], "executing"))
    BY <2>2, <2>3
  <2>5. /\ plans' = [plans EXCEPT ![pid[h]] = WithStatus(copy[h], "executing")]
        /\ pc' = [pc EXCEPT ![h] = "executing"]
        /\ UNCHANGED <<pid, kubectl, attempts>>
    BY <1>13, <2>1 DEF ClaimExecution
  <2> HIDE DEF FullyChecked
  <2> QED BY <2>2, <2>3, <2>4, <2>5
<1>14. ASSUME NEW h \in Handlers, SpawnKubectl(h)
      PROVE  Execution'
  <2>1. /\ attempts[pid[h]] = 0 /\ pid[h] \in Plans
        /\ StatusOf(pid[h]) = "executing"
        /\ plans[pid[h]].decidedBy \in Actors /\ FullyChecked(plans[pid[h]])
        /\ \A g \in Handlers \ {h} : pc[g] \in Owning => pid[g] # pid[h]
    BY <1>14 DEF SpawnKubectl
  <2>2. attempts' = [attempts EXCEPT ![pid[h]] = 1]
    BY <1>14, <2>1 DEF SpawnKubectl
  <2> QED BY <1>14, <2>1, <2>2 DEF SpawnKubectl
<1>15. ASSUME NEW h \in Handlers, ExecutorUnavailable(h)
      PROVE  Execution'
  <2>1. /\ attempts[pid[h]] = 0 /\ pid[h] \in Plans
        /\ StatusOf(pid[h]) = "executing"
        /\ plans[pid[h]].decidedBy \in Actors /\ FullyChecked(plans[pid[h]])
        /\ \A g \in Handlers \ {h} : pc[g] \in Owning => pid[g] # pid[h]
    BY <1>15 DEF ExecutorUnavailable
  <2>2. attempts' = [attempts EXCEPT ![pid[h]] = 1]
    BY <1>15, <2>1 DEF ExecutorUnavailable
  <2> QED BY <1>15, <2>1, <2>2 DEF ExecutorUnavailable
<1>16. ASSUME NEW h \in Handlers, RestartSucceeds(h)
      PROVE  Execution'
  BY <1>16, HandlerFacts, WithStatusPlan DEF RestartSucceeds
<1>17. ASSUME NEW h \in Handlers, RestartFails(h)
      PROVE  Execution'
  BY <1>17, HandlerFacts, WithStatusPlan DEF RestartFails
<1>18. ASSUME NEW h \in Handlers, SaveAction(h)
      PROVE  Execution'
  BY <1>18 DEF SaveAction
<1>19. ASSUME NEW h \in Handlers, FinishExecution(h)
      PROVE  Execution'
  BY <1>19, HandlerFacts DEF FinishExecution
<1>20. ASSUME NEW h \in Handlers, Abort(h)
      PROVE  Execution'
  BY <1>20 DEF Abort
<1>21. CASE UNCHANGED vars
  BY <1>21
<1>22. QED
    BY <1>1, <1>2, <1>3, <1>4, <1>5, <1>6, <1>7, <1>8, <1>9, <1>10, <1>11,
       <1>12, <1>13, <1>14, <1>15, <1>16, <1>17, <1>18, <1>19, <1>20, <1>21 DEF
       Next, Environment, Proceed

\* Every step keeps receipts one per attempt, in agreement with the reported
\* outcome.
LEMMA ReceiptsStep == IInv /\ [Next]_vars => Receipts'
<1> SUFFICES ASSUME IInv, [Next]_vars PROVE Receipts'
  OBVIOUS
<1> USE ConstantsAssumption, PlanFields DEF vars, stored, local, history, Goto,
     Leave, Store, IInv, TypeOK, Deciding, Owning, ApprovedPhase,
     ExecutingPhase, PlanStatuses, FinalStatuses, PolicyChecks, SamePlan,
     Receipts, Execution, Ownership, Locals, StatusOf
<1>1. ASSUME NEW i \in InvestigationIds, NEW inc \in Incidents, NEW d \in
             Diagnoses, SaveInvestigation(i, inc, d)
      PROVE  Receipts'
  BY <1>1 DEF SaveInvestigation, Investigation
<1>2. ASSUME NEW pod \in Pods, PodGone(pod)
      PROVE  Receipts'
  BY <1>2 DEF PodGone
<1>3. ASSUME NEW p \in Plans, DeletePod(p)
      PROVE  Receipts'
  BY <1>3 DEF DeletePod
<1>4. ASSUME NEW p \in Plans, RefuseDelete(p)
      PROVE  Receipts'
  BY <1>4 DEF RefuseDelete
<1>5. ASSUME NEW h \in Handlers, Arrive(h)
      PROVE  Receipts'
  BY <1>5, ArriveEffect
<1>6. ASSUME NEW h \in Handlers, NEW p \in Plans, CreatePlan(h, p)
      PROVE  Receipts'
  BY <1>6, HandlerFacts DEF CreatePlan, InStatus
<1>7. ASSUME NEW h \in Handlers, CommitRejection(h)
      PROVE  Receipts'
  <2>1. CASE InStatus(pid[h], "proposed")
    <3>1. pid[h] \in Plans /\ copy[h] \in RemediationPlan /\ copy[h].status = "rejected"
      BY <1>7, HandlerFacts DEF CommitRejection
    <3>2. /\ pid[h] \notin abandoned
          /\ \A g \in Handlers : pc[g] \in Owning => pid[g] # pid[h]
          /\ attempts[pid[h]] = 0 /\ kubectl[pid[h]] = "none"
          /\ pid[h] \notin superseded
          /\ \A r \in receipts : r.plan # pid[h]
      BY <2>1, <3>1, ProposedIsUnowned
    <3>3. /\ plans' = [plans EXCEPT ![pid[h]] = copy[h]]
          /\ \A g \in Handlers \ {h} :
               pc'[g] = pc[g] /\ pid'[g] = pid[g] /\ copy'[g] = copy[g]
          /\ pc[h] = "rejecting" /\ pc'[h] = "idle"
          /\ UNCHANGED <<investigations, receipts, running, kubectl, history>>
      BY <1>7, <2>1 DEF CommitRejection
    <3>4. \A p \in Plans : StatusOf(p)' =
            IF p = pid[h] THEN "rejected" ELSE StatusOf(p)
      BY <3>1, <3>3
    <3>5. \A p \in Plans \ {pid[h]} : plans'[p] = plans[p]
      BY <3>3
    <3> HIDE DEF StatusOf
    <3> QED BY <3>1, <3>2, <3>3, <3>4, <3>5
  <2>2. CASE ~InStatus(pid[h], "proposed")
    BY <2>2, <1>7, HandlerFacts DEF CommitRejection
  <2> QED BY <2>1, <2>2
<1>8. ASSUME NEW h \in Handlers, CommitApproval(h)
      PROVE  Receipts'
  <2>1. CASE InStatus(pid[h], "proposed")
    <3>1. /\ pid[h] \in Plans /\ copy[h] \in RemediationPlan
          /\ copy[h].status = "approved"
      BY <1>8, HandlerFacts DEF CommitApproval
    <3>2. /\ pid[h] \notin abandoned
          /\ \A g \in Handlers : pc[g] \in Owning => pid[g] # pid[h]
          /\ attempts[pid[h]] = 0 /\ kubectl[pid[h]] = "none"
          /\ pid[h] \notin superseded
          /\ \A r \in receipts : r.plan # pid[h]
      BY <2>1, <3>1, ProposedIsUnowned
    <3> QED BY <1>8, <2>1, <3>1, <3>2 DEF CommitApproval
  <2>2. CASE ~InStatus(pid[h], "proposed")
    <3>1. /\ UNCHANGED <<plans, receipts, kubectl, attempts>>
          /\ pc[h] = "approving" /\ pc'[h] = "idle"
          /\ \A g \in Handlers \ {h} :
               pc'[g] = pc[g] /\ pid'[g] = pid[g] /\ copy'[g] = copy[g]
      BY <2>2, <1>8 DEF CommitApproval
    <3> QED BY <3>1
  <2> QED BY <2>1, <2>2
<1>9. ASSUME NEW h \in Handlers, CheckCurrent(h)
      PROVE  Receipts'
  BY <1>9 DEF CheckCurrent
<1>10. ASSUME NEW h \in Handlers, ListPodsFails(h)
      PROVE  Receipts'
  BY <1>10 DEF ListPodsFails
<1>11. ASSUME NEW h \in Handlers, NEW pod \in Pods \cup {None},
             EvaluatePolicy(h, pod)
      PROVE  Receipts'
  BY <1>11, HandlerFacts, WithChecksPlan, ChecksTypes DEF EvaluatePolicy
<1>12. ASSUME NEW h \in Handlers, RefuseApproved(h)
      PROVE  Receipts'
  <2> DEFINE plan == WithStatus(copy[h], "failed")
  <2>1. /\ pid[h] \in Plans /\ plan # None /\ plan.status = "failed"
        /\ attempts[pid[h]] = 0
    BY <1>12, HandlerFacts, WithStatusPlan DEF RefuseApproved
  <2>2. /\ plans' = [plans EXCEPT ![pid[h]] = plan]
        /\ \A g \in Handlers \ {h} :
             pc'[g] = pc[g] /\ pid'[g] = pid[g] /\ copy'[g] = copy[g]
        /\ pc'[h] = "idle"
        /\ UNCHANGED <<receipts, kubectl, attempts>>
    BY <1>12 DEF RefuseApproved
  <2>3. \A p \in Plans : StatusOf(p)' = IF p = pid[h] THEN "failed" ELSE StatusOf(p)
    BY <2>1, <2>2
  <2> HIDE DEF plan, StatusOf
  <2> QED BY <2>1, <2>2, <2>3
<1>13. ASSUME NEW h \in Handlers, ClaimExecution(h)
      PROVE  Receipts'
  <2>1. InStatus(pid[h], "approved")
    BY <1>13, ClaimSucceeds DEF ClaimExecution
  <2>2. /\ copy[h] \in RemediationPlan /\ pid[h] \in Plans
        /\ WithStatus(copy[h], "executing") \in RemediationPlan
        /\ WithStatus(copy[h], "executing").status = "executing"
        /\ SamePlan(WithStatus(copy[h], "executing"), copy[h])
        /\ WithStatus(copy[h], "executing").checks = copy[h].checks
        /\ WithStatus(copy[h], "executing").decidedBy = copy[h].decidedBy
    BY <1>13, HandlerFacts, WithStatusPlan DEF ClaimExecution
  <2>3. /\ plans' = [plans EXCEPT ![pid[h]] = WithStatus(copy[h], "executing")]
        /\ copy' = [copy EXCEPT ![h] = WithStatus(copy[h], "executing")]
        /\ pc' = [pc EXCEPT ![h] = "executing"]
        /\ UNCHANGED <<pid, kubectl, attempts, receipts>>
    BY <1>13, <2>1 DEF ClaimExecution
  <2>4. /\ \A p \in Plans : StatusOf(p)' =
             IF p = pid[h] THEN "executing" ELSE StatusOf(p)
        /\ pc[h] = "claiming"
    BY <1>13, <2>2, <2>3 DEF ClaimExecution
  <2> HIDE DEF StatusOf
  <2> QED BY <2>2, <2>3, <2>4
<1>14. ASSUME NEW h \in Handlers, SpawnKubectl(h)
      PROVE  Receipts'
  BY <1>14 DEF SpawnKubectl
<1>15. ASSUME NEW h \in Handlers, ExecutorUnavailable(h)
      PROVE  Receipts'
  BY <1>15, HandlerFacts, WithStatusPlan DEF ExecutorUnavailable
<1>16. ASSUME NEW h \in Handlers, RestartSucceeds(h)
      PROVE  Receipts'
  BY <1>16, HandlerFacts, WithStatusPlan DEF RestartSucceeds
<1>17. ASSUME NEW h \in Handlers, RestartFails(h)
      PROVE  Receipts'
  BY <1>17, HandlerFacts, WithStatusPlan DEF RestartFails
<1>18. ASSUME NEW h \in Handlers, SaveAction(h)
      PROVE  Receipts'
  <2> DEFINE r == [plan |-> pid[h], target |-> copy[h].proposal.target,
                    status |-> copy[h].status]
  <2>1. /\ attempts[pid[h]] = 1 /\ pid[h] \in Plans
        /\ \A s \in receipts : s.plan # pid[h]
        /\ StatusOf(pid[h]) = "executing"
        /\ \A g \in Handlers \ {h} : pc[g] \in Owning => pid[g] # pid[h]
    BY <1>18 DEF SaveAction
  <2>2. receipts' = receipts \cup {r} /\ r.plan = pid[h] /\ r.status = copy[h].status
    BY <1>18 DEF SaveAction
  <2> HIDE DEF r
  <2> QED BY <1>18, <2>1, <2>2 DEF SaveAction
<1>19. ASSUME NEW h \in Handlers, FinishExecution(h)
      PROVE  Receipts'
  BY <1>19, HandlerFacts DEF FinishExecution
<1>20. ASSUME NEW h \in Handlers, Abort(h)
      PROVE  Receipts'
  BY <1>20 DEF Abort
<1>21. CASE UNCHANGED vars
  BY <1>21
<1>22. QED
    BY <1>1, <1>2, <1>3, <1>4, <1>5, <1>6, <1>7, <1>8, <1>9, <1>10, <1>11,
       <1>12, <1>13, <1>14, <1>15, <1>16, <1>17, <1>18, <1>19, <1>20, <1>21 DEF
       Next, Environment, Proceed

\* Every step keeps what the execution checks established.
LEMMA GroundingStep == IInv /\ [Next]_vars => Grounding'
<1> SUFFICES ASSUME IInv, [Next]_vars PROVE Grounding'
  OBVIOUS
<1> USE ConstantsAssumption, PlanFields, SamePlanFacts DEF vars, stored, local,
     history, Goto, Leave, Store, IInv, TypeOK, Deciding, Owning,
     ApprovedPhase, ExecutingPhase, PlanStatuses, FinalStatuses, PolicyChecks,
     SamePlan, Grounding, Execution, Ownership, Locals, Rows, StatusOf,
     FullyChecked
<1>1. ASSUME NEW i \in InvestigationIds, NEW inc \in Incidents, NEW d \in
             Diagnoses, SaveInvestigation(i, inc, d)
      PROVE  Grounding'
  BY <1>1, SaveEffect
<1>2. ASSUME NEW pod \in Pods, PodGone(pod)
      PROVE  Grounding'
  BY <1>2 DEF PodGone
<1>3. ASSUME NEW p \in Plans, DeletePod(p)
      PROVE  Grounding'
  <2>1. PICK pod \in running :
          Observed(plans[p].proposal, pod) /\ running' = running \ {pod}
    BY <1>3 DEF DeletePod
  <2>2. /\ pod \in Pods \ running' /\ pod # None
        /\ pod.namespace = plans[p].proposal.namespace
        /\ pod.name = plans[p].proposal.target
    BY <2>1 DEF Observed
  <2> QED BY <1>3, <2>1, <2>2 DEF DeletePod
<1>4. ASSUME NEW p \in Plans, RefuseDelete(p)
      PROVE  Grounding'
  BY <1>4 DEF RefuseDelete
<1>5. ASSUME NEW h \in Handlers, Arrive(h)
      PROVE  Grounding'
  BY <1>5, ArriveEffect
<1>6. ASSUME NEW h \in Handlers, NEW p \in Plans, CreatePlan(h, p)
      PROVE  Grounding'
  BY <1>6, HandlerFacts DEF CreatePlan, InStatus
<1>7. ASSUME NEW h \in Handlers, CommitRejection(h)
      PROVE  Grounding'
  <2>1. CASE InStatus(pid[h], "proposed")
    <3>1. pid[h] \in Plans /\ copy[h] \in RemediationPlan /\ copy[h].status = "rejected"
      BY <1>7, HandlerFacts DEF CommitRejection
    <3>2. /\ pid[h] \notin abandoned
          /\ \A g \in Handlers : pc[g] \in Owning => pid[g] # pid[h]
          /\ attempts[pid[h]] = 0 /\ kubectl[pid[h]] = "none"
          /\ pid[h] \notin superseded
      BY <2>1, <3>1, ProposedIsUnowned
    <3> QED BY <1>7, <2>1, <3>1, <3>2 DEF CommitRejection
  <2>2. CASE ~InStatus(pid[h], "proposed")
    BY <2>2, <1>7, HandlerFacts DEF CommitRejection
  <2> QED BY <2>1, <2>2
<1>8. ASSUME NEW h \in Handlers, CommitApproval(h)
      PROVE  Grounding'
  <2>1. CASE InStatus(pid[h], "proposed")
    <3>1. /\ pid[h] \in Plans /\ copy[h] \in RemediationPlan
          /\ copy[h].status = "approved" /\ copy[h] # None
          /\ SamePlan(copy[h], plans[pid[h]])
      BY <1>8, HandlerFacts DEF CommitApproval
    <3>2. /\ pid[h] \notin abandoned
          /\ \A g \in Handlers : pc[g] \in Owning => pid[g] # pid[h]
          /\ attempts[pid[h]] = 0 /\ kubectl[pid[h]] = "none"
      BY <2>1, <3>1, ProposedIsUnowned
    <3>3. /\ plans' = [plans EXCEPT ![pid[h]] = copy[h]]
          /\ pc' = [pc EXCEPT ![h] = "approved"]
          /\ pc[h] = "approving"
          /\ UNCHANGED <<pid, copy, attempts, kubectl, receipts, running,
                         investigations, abandoned>>
      BY <1>8, <2>1 DEF CommitApproval
    <3>4. \A p \in Plans : StatusOf(p)' =
            IF p = pid[h] THEN "approved" ELSE StatusOf(p)
      BY <3>1, <3>3
    <3>5. \A p \in Plans \ {pid[h]} : plans'[p] = plans[p]
      BY <3>3
    <3>6. /\ \A g \in Handlers \ {h} : pc'[g] = pc[g]
          /\ pc'[h] = "approved"
      BY <3>3
    <3> HIDE DEF StatusOf, FullyChecked, SamePlan
    <3> QED BY <3>1, <3>2, <3>3, <3>4, <3>5, <3>6
  <2>2. CASE ~InStatus(pid[h], "proposed")
    BY <2>2, <1>8, HandlerFacts DEF CommitApproval
  <2> QED BY <2>1, <2>2
<1>9. ASSUME NEW h \in Handlers, CheckCurrent(h)
      PROVE  Grounding'
  BY <1>9 DEF CheckCurrent
<1>10. ASSUME NEW h \in Handlers, ListPodsFails(h)
      PROVE  Grounding'
  BY <1>10 DEF ListPodsFails
<1>11. ASSUME NEW h \in Handlers, NEW pod \in Pods \cup {None},
             EvaluatePolicy(h, pod)
      PROVE  Grounding'
  <2> DEFINE top == investigations[copy[h].investigation].diagnosis.top
             checks == EvaluateExecution(h, copy[h], top, pod)
  <2>1. copy[h] \in RemediationPlan
    BY <1>11, HandlerFacts DEF EvaluatePolicy
  <2>2. checks \in [ExecutionRules -> BOOLEAN]
    BY ChecksTypes
  <2>3. PolicyAllows(checks) =>
          /\ Grounded(investigations, copy[h])
          /\ copy[h].proposal.namespace \in Allowed[h]
    <3>1. PolicyAllows(checks) =>
            \A rule \in ExecutionRules : Passes(rule, h, copy[h], top, pod)
      BY DEF PolicyAllows, EvaluateExecution
        <3> QED BY <3>1, <1>11 DEF EvaluatePolicy, Passes, Grounded,
         ExecutionRules, ProposalRules
  <2>4. /\ copy' = [copy EXCEPT ![h] = WithChecks(copy[h], checks)]
        /\ pc' = [pc EXCEPT ![h] =
                    IF PolicyAllows(checks) THEN "claiming" ELSE "refusing"]
        /\ UNCHANGED <<stored, running, kubectl, pid, history>>
    BY <1>11 DEF EvaluatePolicy
  <2> HIDE DEF checks, top
  <2>5. SamePlan(WithChecks(copy[h], checks), copy[h])
    BY <2>1, <2>2, WithChecksPlan
  <2>6. Grounded(investigations, copy[h]) =>
          Grounded(investigations, WithChecks(copy[h], checks))
    BY <2>5
  <2> QED BY <2>1, <2>3, <2>4, <2>5, <2>6
<1>12. ASSUME NEW h \in Handlers, RefuseApproved(h)
      PROVE  Grounding'
  <2> DEFINE plan == WithStatus(copy[h], "failed")
  <2>1. /\ copy[h] \in RemediationPlan /\ pid[h] \in Plans
        /\ SamePlan(plan, copy[h]) /\ SamePlan(copy[h], plans[pid[h]])
    BY <1>12, HandlerFacts, WithStatusPlan DEF RefuseApproved
  <2>2. SamePlan(plan, plans[pid[h]]) /\ attempts[pid[h]] = 0
    BY <1>12, <2>1 DEF RefuseApproved
  <2>3. /\ plans' = [plans EXCEPT ![pid[h]] = plan]
        /\ \A g \in Handlers \ {h} : pc'[g] = pc[g] /\ copy'[g] = copy[g]
        /\ pc'[h] = "idle"
        /\ UNCHANGED <<running, kubectl, attempts, investigations>>
    BY <1>12 DEF RefuseApproved
  <2> HIDE DEF plan
  <2> QED BY <2>1, <2>2, <2>3
<1>13. ASSUME NEW h \in Handlers, ClaimExecution(h)
      PROVE  Grounding'
  <2>1. InStatus(pid[h], "approved")
    BY <1>13, ClaimSucceeds DEF ClaimExecution
  <2>2. /\ copy[h] \in RemediationPlan /\ pid[h] \in Plans
        /\ WithStatus(copy[h], "executing") \in RemediationPlan
        /\ WithStatus(copy[h], "executing").status = "executing"
        /\ SamePlan(WithStatus(copy[h], "executing"), copy[h])
        /\ WithStatus(copy[h], "executing").checks = copy[h].checks
        /\ WithStatus(copy[h], "executing").decidedBy = copy[h].decidedBy
    BY <1>13, HandlerFacts, WithStatusPlan DEF ClaimExecution
  <2>3. /\ plans' = [plans EXCEPT ![pid[h]] = WithStatus(copy[h], "executing")]
        /\ copy' = [copy EXCEPT ![h] = WithStatus(copy[h], "executing")]
        /\ pc' = [pc EXCEPT ![h] = "executing"]
        /\ UNCHANGED <<pid, kubectl, attempts, running, investigations>>
    BY <1>13, <2>1 DEF ClaimExecution
  <2>4. /\ Grounded(investigations, copy[h])
        /\ copy[h].proposal.namespace \in Allowed[h]
        /\ SamePlan(copy[h], plans[pid[h]])
    BY <1>13 DEF ClaimExecution
  <2>5. /\ Grounded(investigations, WithStatus(copy[h], "executing"))
        /\ SamePlan(WithStatus(copy[h], "executing"), plans[pid[h]])
    BY <2>2, <2>4
  <2> QED BY <2>2, <2>3, <2>4, <2>5
<1>14. ASSUME NEW h \in Handlers, SpawnKubectl(h)
      PROVE  Grounding'
  BY <1>14 DEF SpawnKubectl
<1>15. ASSUME NEW h \in Handlers, ExecutorUnavailable(h)
      PROVE  Grounding'
  <2> DEFINE plan == WithStatus(copy[h], "failed")
  <2>1. /\ copy[h] \in RemediationPlan /\ pid[h] \in Plans
        /\ SamePlan(plan, copy[h]) /\ SamePlan(copy[h], plans[pid[h]])
    BY <1>15, HandlerFacts, WithStatusPlan DEF ExecutorUnavailable
  <2>2. /\ Grounded(investigations, plan)
        /\ Grounded(investigations, plans[pid[h]])
        /\ plan.proposal.namespace \in Allowed[h]
    BY <1>15, <2>1 DEF ExecutorUnavailable
  <2>3. /\ copy' = [copy EXCEPT ![h] = plan]
        /\ pc' = [pc EXCEPT ![h] = "recording"]
        /\ attempts' = [attempts EXCEPT ![pid[h]] = attempts[pid[h]] + 1]
        /\ UNCHANGED <<plans, running, kubectl, investigations, pid>>
    BY <1>15 DEF ExecutorUnavailable
  <2>4. \A p \in Plans : attempts'[p] = 1 => p = pid[h] \/ attempts[p] = 1
    BY <2>3
  <2> HIDE DEF plan
  <2> QED BY <2>1, <2>2, <2>3, <2>4
<1>16. ASSUME NEW h \in Handlers, RestartSucceeds(h)
      PROVE  Grounding'
  <2> DEFINE plan == WithStatus(copy[h], "succeeded")
  <2>1. /\ copy[h] \in RemediationPlan /\ pid[h] \in Plans
        /\ SamePlan(plan, copy[h]) /\ SamePlan(copy[h], plans[pid[h]])
    BY <1>16, HandlerFacts, WithStatusPlan DEF RestartSucceeds
  <2>2. /\ Grounded(investigations, plan)
        /\ Grounded(investigations, plans[pid[h]])
        /\ plan.proposal.namespace \in Allowed[h]
    BY <1>16, <2>1 DEF RestartSucceeds
  <2>3. /\ copy' = [copy EXCEPT ![h] = plan]
        /\ pc' = [pc EXCEPT ![h] = "recording"]
        /\ UNCHANGED <<plans, running, kubectl, attempts, investigations, pid>>
    BY <1>16 DEF RestartSucceeds
  <2> HIDE DEF plan
  <2> QED BY <2>1, <2>2, <2>3
<1>17. ASSUME NEW h \in Handlers, RestartFails(h)
      PROVE  Grounding'
  <2> DEFINE plan == WithStatus(copy[h], "failed")
  <2>1. /\ copy[h] \in RemediationPlan /\ pid[h] \in Plans
        /\ SamePlan(plan, copy[h]) /\ SamePlan(copy[h], plans[pid[h]])
    BY <1>17, HandlerFacts, WithStatusPlan DEF RestartFails
  <2>2. /\ Grounded(investigations, plan)
        /\ Grounded(investigations, plans[pid[h]])
        /\ plan.proposal.namespace \in Allowed[h]
    BY <1>17, <2>1 DEF RestartFails
  <2>3. /\ copy' = [copy EXCEPT ![h] = plan]
        /\ pc' = [pc EXCEPT ![h] = "recording"]
        /\ UNCHANGED <<plans, running, kubectl, attempts, investigations, pid>>
    BY <1>17 DEF RestartFails
  <2> HIDE DEF plan
  <2> QED BY <2>1, <2>2, <2>3
<1>18. ASSUME NEW h \in Handlers, SaveAction(h)
      PROVE  Grounding'
  BY <1>18 DEF SaveAction
<1>19. ASSUME NEW h \in Handlers, FinishExecution(h)
      PROVE  Grounding'
  BY <1>19, HandlerFacts DEF FinishExecution
<1>20. ASSUME NEW h \in Handlers, Abort(h)
      PROVE  Grounding'
  BY <1>20 DEF Abort
<1>21. CASE UNCHANGED vars
  BY <1>21
<1>22. QED
    BY <1>1, <1>2, <1>3, <1>4, <1>5, <1>6, <1>7, <1>8, <1>9, <1>10, <1>11,
       <1>12, <1>13, <1>14, <1>15, <1>16, <1>17, <1>18, <1>19, <1>20, <1>21 DEF
       Next, Environment, Proceed

\* Every step keeps superseded plans unexecuted.
LEMMA SupersessionStep == IInv /\ [Next]_vars => Supersession'
<1> SUFFICES ASSUME IInv, [Next]_vars PROVE Supersession'
  OBVIOUS
<1> USE ConstantsAssumption, PlanFields, SamePlanFacts DEF vars, stored, local,
     history, Goto, Leave, Store, IInv, TypeOK, Deciding, Owning,
     ApprovedPhase, ExecutingPhase, PlanStatuses, FinalStatuses, PolicyChecks,
     SamePlan, Supersession, Execution, Ownership, Locals, Rows, StatusOf
<1>1. ASSUME NEW i \in InvestigationIds, NEW inc \in Incidents, NEW d \in
             Diagnoses, SaveInvestigation(i, inc, d)
      PROVE  Supersession'
  BY <1>1, SaveEffect
<1>2. ASSUME NEW pod \in Pods, PodGone(pod)
      PROVE  Supersession'
  BY <1>2 DEF PodGone
<1>3. ASSUME NEW p \in Plans, DeletePod(p)
      PROVE  Supersession'
  BY <1>3 DEF DeletePod
<1>4. ASSUME NEW p \in Plans, RefuseDelete(p)
      PROVE  Supersession'
  BY <1>4 DEF RefuseDelete
<1>5. ASSUME NEW h \in Handlers, Arrive(h)
      PROVE  Supersession'
  BY <1>5, ArriveEffect
<1>6. ASSUME NEW h \in Handlers, NEW p \in Plans, CreatePlan(h, p)
      PROVE  Supersession'
  BY <1>6, HandlerFacts DEF CreatePlan, InStatus
<1>7. ASSUME NEW h \in Handlers, CommitRejection(h)
      PROVE  Supersession'
  <2>1. CASE InStatus(pid[h], "proposed")
    <3>1. pid[h] \in Plans /\ copy[h] \in RemediationPlan /\ copy[h].status = "rejected"
      BY <1>7, HandlerFacts DEF CommitRejection
    <3>2. /\ pid[h] \notin abandoned
          /\ \A g \in Handlers : pc[g] \in Owning => pid[g] # pid[h]
          /\ attempts[pid[h]] = 0 /\ kubectl[pid[h]] = "none"
          /\ pid[h] \notin superseded
          /\ \A r \in receipts : r.plan # pid[h]
      BY <2>1, <3>1, ProposedIsUnowned
    <3>3. /\ plans' = [plans EXCEPT ![pid[h]] = copy[h]]
          /\ \A g \in Handlers \ {h} :
               pc'[g] = pc[g] /\ pid'[g] = pid[g] /\ copy'[g] = copy[g]
          /\ pc[h] = "rejecting" /\ pc'[h] = "idle"
          /\ UNCHANGED <<investigations, receipts, running, kubectl, history>>
      BY <1>7, <2>1 DEF CommitRejection
    <3>4. \A p \in Plans : StatusOf(p)' =
            IF p = pid[h] THEN "rejected" ELSE StatusOf(p)
      BY <3>1, <3>3
    <3>5. \A p \in Plans \ {pid[h]} : plans'[p] = plans[p]
      BY <3>3
    <3> HIDE DEF StatusOf
    <3> QED BY <3>1, <3>2, <3>3, <3>4, <3>5
  <2>2. CASE ~InStatus(pid[h], "proposed")
    BY <2>2, <1>7, HandlerFacts DEF CommitRejection
  <2> QED BY <2>1, <2>2
<1>8. ASSUME NEW h \in Handlers, CommitApproval(h)
      PROVE  Supersession'
  <2>1. CASE InStatus(pid[h], "proposed")
    <3>1. /\ pid[h] \in Plans /\ copy[h] \in RemediationPlan
          /\ copy[h].status = "approved"
      BY <1>8, HandlerFacts DEF CommitApproval
    <3>2. /\ pid[h] \notin abandoned
          /\ \A g \in Handlers : pc[g] \in Owning => pid[g] # pid[h]
          /\ attempts[pid[h]] = 0 /\ kubectl[pid[h]] = "none"
          /\ pid[h] \notin superseded
          /\ \A r \in receipts : r.plan # pid[h]
      BY <2>1, <3>1, ProposedIsUnowned
    <3>3. /\ superseded' \in {superseded, superseded \cup {pid[h]}}
          /\ superseded' # superseded => Overtaken(investigations, copy[h])
      BY <1>8, <2>1, <3>1, LatestOrOvertaken DEF CommitApproval
    <3> QED BY <1>8, <2>1, <3>1, <3>2, <3>3 DEF CommitApproval
  <2>2. CASE ~InStatus(pid[h], "proposed")
    BY <2>2, <1>8, HandlerFacts DEF CommitApproval
  <2> QED BY <2>1, <2>2
<1>9. ASSUME NEW h \in Handlers, CheckCurrent(h)
      PROVE  Supersession'
  <2>1. /\ copy[h] \in RemediationPlan /\ pid[h] \in Plans
        /\ SamePlan(copy[h], plans[pid[h]])
    BY <1>9, HandlerFacts DEF CheckCurrent
  <2>2. pid[h] \in superseded => ~IsLatest(copy[h].incident, copy[h].investigation)
    BY <1>9, <2>1 DEF CheckCurrent, Overtaken, IsLatest, InvestigationIds
  <2> QED BY <1>9, <2>1, <2>2 DEF CheckCurrent
<1>10. ASSUME NEW h \in Handlers, ListPodsFails(h)
      PROVE  Supersession'
  BY <1>10 DEF ListPodsFails
<1>11. ASSUME NEW h \in Handlers, NEW pod \in Pods \cup {None},
             EvaluatePolicy(h, pod)
      PROVE  Supersession'
  BY <1>11, HandlerFacts, WithChecksPlan, ChecksTypes DEF EvaluatePolicy
<1>12. ASSUME NEW h \in Handlers, RefuseApproved(h)
      PROVE  Supersession'
  <2> DEFINE plan == WithStatus(copy[h], "failed")
  <2>1. /\ pid[h] \in Plans /\ plan # None /\ plan.status = "failed"
        /\ SamePlan(plan, copy[h]) /\ SamePlan(copy[h], plans[pid[h]])
    BY <1>12, HandlerFacts, WithStatusPlan DEF RefuseApproved
  <2>2. SamePlan(plan, plans[pid[h]])
    BY <2>1
  <2>3. /\ plans' = [plans EXCEPT ![pid[h]] = plan]
        /\ \A g \in Handlers \ {h} : pc'[g] = pc[g] /\ pid'[g] = pid[g]
        /\ pc'[h] = "idle"
        /\ UNCHANGED <<attempts, investigations, superseded>>
    BY <1>12 DEF RefuseApproved
  <2>4. \A p \in Plans : StatusOf(p)' = IF p = pid[h] THEN "failed" ELSE StatusOf(p)
    BY <2>1, <2>3
  <2>5. \A p \in superseded : Overtaken(investigations, plans'[p])
    <3>1. Overtaken(investigations, plan) <=> Overtaken(investigations, plans[pid[h]])
      BY <2>2
    <3>2. \A p \in superseded : p \in Plans /\ Overtaken(investigations, plans[p])
      OBVIOUS
    <3> HIDE DEF plan, SamePlan
    <3> QED BY <3>1, <3>2, <2>1, <2>3
  <2> HIDE DEF plan, StatusOf, SamePlan
  <2> QED BY <2>1, <2>3, <2>4, <2>5
<1>13. ASSUME NEW h \in Handlers, ClaimExecution(h)
      PROVE  Supersession'
  <2>1. InStatus(pid[h], "approved")
    BY <1>13, ClaimSucceeds DEF ClaimExecution
  <2>2. /\ copy[h] \in RemediationPlan /\ pid[h] \in Plans
        /\ WithStatus(copy[h], "executing") \in RemediationPlan
        /\ WithStatus(copy[h], "executing").status = "executing"
        /\ SamePlan(WithStatus(copy[h], "executing"), copy[h])
        /\ WithStatus(copy[h], "executing").checks = copy[h].checks
        /\ WithStatus(copy[h], "executing").decidedBy = copy[h].decidedBy
    BY <1>13, HandlerFacts, WithStatusPlan DEF ClaimExecution
  <2> DEFINE plan == WithStatus(copy[h], "executing")
  <2>3. /\ plans' = [plans EXCEPT ![pid[h]] = plan]
        /\ \A g \in Handlers \ {h} : pc'[g] = pc[g]
        /\ pc[h] = "claiming" /\ pc'[h] = "executing"
        /\ SamePlan(copy[h], plans[pid[h]])
        /\ UNCHANGED <<pid, attempts, investigations, superseded>>
    BY <1>13, <2>1, <2>2 DEF ClaimExecution
  <2>4. pid[h] \notin superseded
    BY <2>3
  <2> HIDE DEF StatusOf, SamePlan
  <2> QED BY <2>2, <2>3, <2>4 DEF StatusOf
<1>14. ASSUME NEW h \in Handlers, SpawnKubectl(h)
      PROVE  Supersession'
  BY <1>14 DEF SpawnKubectl
<1>15. ASSUME NEW h \in Handlers, ExecutorUnavailable(h)
      PROVE  Supersession'
  <2>1. /\ copy[h] \in RemediationPlan /\ pid[h] \in Plans
        /\ WithStatus(copy[h], "failed") \in RemediationPlan
        /\ WithStatus(copy[h], "failed").status = "failed"
        /\ SamePlan(WithStatus(copy[h], "failed"), copy[h])
    BY <1>15, HandlerFacts, WithStatusPlan DEF ExecutorUnavailable
  <2> QED BY <1>15, <2>1 DEF ExecutorUnavailable
<1>16. ASSUME NEW h \in Handlers, RestartSucceeds(h)
      PROVE  Supersession'
  <2>1. /\ copy[h] \in RemediationPlan /\ pid[h] \in Plans
        /\ WithStatus(copy[h], "succeeded") \in RemediationPlan
        /\ WithStatus(copy[h], "succeeded").status = "succeeded"
        /\ SamePlan(WithStatus(copy[h], "succeeded"), copy[h])
    BY <1>16, HandlerFacts, WithStatusPlan DEF RestartSucceeds
  <2> QED BY <1>16, <2>1 DEF RestartSucceeds
<1>17. ASSUME NEW h \in Handlers, RestartFails(h)
      PROVE  Supersession'
  <2>1. /\ copy[h] \in RemediationPlan /\ pid[h] \in Plans
        /\ WithStatus(copy[h], "failed") \in RemediationPlan
        /\ WithStatus(copy[h], "failed").status = "failed"
        /\ SamePlan(WithStatus(copy[h], "failed"), copy[h])
    BY <1>17, HandlerFacts, WithStatusPlan DEF RestartFails
  <2> QED BY <1>17, <2>1 DEF RestartFails
<1>18. ASSUME NEW h \in Handlers, SaveAction(h)
      PROVE  Supersession'
  BY <1>18 DEF SaveAction
<1>19. ASSUME NEW h \in Handlers, FinishExecution(h)
      PROVE  Supersession'
  BY <1>19, HandlerFacts DEF FinishExecution
<1>20. ASSUME NEW h \in Handlers, Abort(h)
      PROVE  Supersession'
  BY <1>20 DEF Abort
<1>21. CASE UNCHANGED vars
  BY <1>21
<1>22. QED
    BY <1>1, <1>2, <1>3, <1>4, <1>5, <1>6, <1>7, <1>8, <1>9, <1>10, <1>11,
       <1>12, <1>13, <1>14, <1>15, <1>16, <1>17, <1>18, <1>19, <1>20, <1>21 DEF
       Next, Environment, Proceed

\* Every step keeps the inductive invariant.
LEMMA Step == IInv /\ [Next]_vars => IInv'
BY TypeStep, LocalsStep, RowsStep, OwnershipStep, ExecutionStep, ReceiptsStep,
   GroundingStep, SupersessionStep DEF IInv

\* IInv is an invariant of the service.
THEOREM Invariance == Spec => []IInv
BY InitInv, Step, PTL DEF Spec

---------------------------------------------------------------------------
(* The theorems *)

\* Every variable of the service keeps its type.
THEOREM TypeCorrect == Spec => []TypeOK
<1>1. IInv => TypeOK
  BY DEF IInv
<1> QED BY <1>1, Invariance, PTL

---------------------------------------------------------------------------
(* Execution *)

\* A set whose members are all equal has at most one of them.
LEMMA AtMostOneElement ==
  ASSUME NEW S, \A a, b \in S : a = b
  PROVE  /\ Cardinality(S) <= 1
         /\ S = {} => Cardinality(S) = 0
<1>1. CASE S = {}
  BY <1>1, FS_EmptySet
<1>2. CASE S # {}
  <2>1. PICK a : S = {a}
    BY <1>2
  <2> QED BY <2>1, <1>2, FS_Singleton
<1> QED BY <1>1, <1>2

\* Racing approvals never make an executor act twice for a plan, nor leave two
\* receipts, nor reach the cluster without an attempt.
THEOREM ExecutedAtMostOnce == Spec => []AtMostOnceExecution
<1>1. IInv => AtMostOnceExecution
  <2> SUFFICES ASSUME IInv, NEW p \in Plans
               PROVE  /\ attempts[p] <= 1
                      /\ Cardinality({r \in receipts : r.plan = p}) <= attempts[p]
                      /\ kubectl[p] # "none" => attempts[p] = 1
    BY DEF AtMostOnceExecution
  <2> DEFINE mine == {r \in receipts : r.plan = p}
  <2>1. attempts[p] \in {0, 1} /\ (kubectl[p] # "none" => attempts[p] = 1)
    BY DEF IInv, Execution
  <2>2. /\ \A r, s \in mine : r = s
        /\ attempts[p] = 0 => mine = {}
    BY DEF IInv, Receipts
  <2>3. Cardinality(mine) <= 1 /\ (mine = {} => Cardinality(mine) = 0)
    <3> HIDE DEF mine
    <3> QED BY <2>2, AtMostOneElement
  <2> HIDE DEF mine
  <2>4. Cardinality(mine) <= attempts[p]
    BY <2>1, <2>2, <2>3
  <2> QED BY <2>1, <2>4 DEF mine
<1> QED BY <1>1, Invariance, PTL

\* An approved or executing plan is always in the hands of exactly one request,
\* or that request was lost.
THEOREM EveryApprovalIsOwned == Spec => []ApprovedPlansAreOwned
<1>1. IInv => ApprovedPlansAreOwned
  <2> SUFFICES ASSUME IInv, NEW p \in Plans
               PROVE  /\ Cardinality(Owners(p)) <= 1
                      /\ Owners(p) # {} <=>
                           /\ StatusOf(p) \in {"approved", "executing"}
                           /\ p \notin abandoned
    BY DEF ApprovedPlansAreOwned
  <2>1. \A g, h \in Owners(p) : g = h
    BY DEF IInv, Ownership, Owners
  <2>2. Cardinality(Owners(p)) <= 1
    BY <2>1, AtMostOneElement
  <2>3. Owners(p) # {} =>
          StatusOf(p) \in {"approved", "executing"} /\ p \notin abandoned
    BY DEF IInv, Ownership, Owners, Owning, ApprovedPhase, ExecutingPhase
  <2>4. StatusOf(p) \in {"approved", "executing"} /\ p \notin abandoned =>
          Owners(p) # {}
    BY DEF IInv, Ownership, Owners
  <2> QED BY <2>2, <2>3, <2>4
<1> QED BY <1>1, Invariance, PTL

\* Whatever an executor was asked to do is stored with its approver and with
\* nine passed checks, during the attempt and for ever after.
THEOREM ExecutionAudited == Spec => []ExecutionIsAudited
<1>1. IInv => ExecutionIsAudited
  BY DEF IInv, Execution, ExecutionIsAudited, Executed, FullyChecked
<1> QED BY <1>1, Invariance, PTL

\* kubectl acts only in namespaces that the replica which runs it allows.
THEOREM OwnAllowlist == Spec => []AllowlistOfExecutingReplica
<1>1. IInv => AllowlistOfExecutingReplica
  BY DEF IInv, Grounding, AllowlistOfExecutingReplica, ExecutingPhase
<1> QED BY <1>1, Invariance, PTL

\* An approval that committed on a superseded diagnosis is never executed.
THEOREM SupersededNotExecuted == Spec => []SupersededNeverExecutes
<1>1. IInv => SupersededNeverExecutes
  BY DEF IInv, Supersession, SupersededNeverExecutes, Executed
<1> QED BY <1>1, Invariance, PTL

\* What is reported agrees with the receipt and with the cluster.
THEOREM OutcomesMatch == Spec => []OutcomeMatchesReceipt
<1>1. IInv => OutcomeMatchesReceipt
  <2> SUFFICES ASSUME IInv, NEW p \in Plans
               PROVE  /\ StatusOf(p) = "succeeded" => kubectl[p] = "deleted"
                      /\ Executed(p) /\ StatusOf(p) \in FinalStatuses =>
                           \E r \in receipts :
                             r.plan = p /\ r.status = StatusOf(p)
    BY DEF OutcomeMatchesReceipt
  <2>1. Executed(p) => attempts[p] = 1
    BY DEF IInv, Execution, Executed
  <2> QED BY <2>1 DEF IInv, Receipts
<1> QED BY <1>1, Invariance, PTL

\* Every deleted pod was a ReplicaSet pod of the service that a confident,
\* currently evidenced diagnosis blames.
THEOREM DeletionGrounded == Spec => []DeletionIsGrounded
<1>1. IInv => DeletionIsGrounded
  <2> SUFFICES ASSUME IInv, NEW p \in Plans, kubectl[p] = "deleted"
               PROVE
         LET proposal == plans[p].proposal
             top == investigations[plans[p].investigation].diagnosis.top
         IN /\ top.confident /\ top.cites = {"current"}
            /\ proposal.service = top.service
            /\ \E pod \in Pods \ running :
                 /\ pod.namespace = proposal.namespace
                 /\ pod.name = proposal.target
                 /\ pod.owner = "ReplicaSet" /\ top.service \in pod.labels
    BY DEF DeletionIsGrounded
  <2>1. attempts[p] = 1 /\ plans[p] # None
    BY DEF IInv, Execution, StatusOf
  <2>2. /\ Grounded(investigations, plans[p])
        /\ Derived(investigations, plans[p])
    BY <2>1 DEF IInv, Grounding, Rows
  <2>3. PICK gone \in Pods \ running :
          /\ gone.namespace = plans[p].proposal.namespace
          /\ gone.name = plans[p].proposal.target
    BY DEF IInv, Grounding
  <2> QED BY <2>2, <2>3, PodNamesAssumption DEF Grounded, Derived
<1> QED BY <1>1, Invariance, PTL

---------------------------------------------------------------------------
(* What a step may do to a plan *)

\* Writing row p changes the status of plan p alone.
LEMMA StoreStatus ==
  ASSUME TypeOK, NEW p \in Plans, NEW plan \in RemediationPlan,
         plans' = [plans EXCEPT ![p] = plan]
  PROVE  /\ \A q \in Plans :
              StatusOf(q)' = IF q = p THEN plan.status ELSE StatusOf(q)
         /\ \A q \in Plans \ {p} : plans'[q] = plans[q]
BY PlanFields DEF TypeOK, StatusOf

\* Every write to remediation_plans finds its plan undecided: the two
\* unconditional updates are protected by the ownership of the plan.
LEMMA WritesFindUndecided ==
  ASSUME IInv, [Next]_vars, NEW p \in Plans, plans'[p] # plans[p]
  PROVE  StatusOf(p) \notin FinalStatuses
<1> USE DEF vars, stored, local, history, IInv, TypeOK, Store, FinalStatuses
<1>1. ASSUME NEW h \in Handlers, NEW q \in Plans, CreatePlan(h, q)
      PROVE  StatusOf(p) = "none"
  BY <1>1 DEF CreatePlan, StatusOf
<1>2. ASSUME NEW h \in Handlers, CommitRejection(h) \/ CommitApproval(h)
      PROVE  StatusOf(p) = "proposed"
  BY <1>2 DEF CommitRejection, CommitApproval, InStatus, StatusOf
<1>3. ASSUME NEW h \in Handlers, RefuseApproved(h)
      PROVE  StatusOf(p) = "approved"
  BY <1>3 DEF RefuseApproved, Ownership, ApprovedPhase
<1>4. ASSUME NEW h \in Handlers, ClaimExecution(h)
      PROVE  StatusOf(p) = "approved"
  BY <1>4 DEF ClaimExecution, InStatus, StatusOf
<1>5. ASSUME NEW h \in Handlers, FinishExecution(h)
      PROVE  StatusOf(p) = "executing"
  BY <1>5 DEF FinishExecution, Ownership, ExecutingPhase
<1>6. ASSUME NEW h \in Handlers, Arrive(h) \/ Abort(h)
      PROVE  FALSE
  BY <1>6, ArriveEffect DEF Abort
<1>7. CASE Environment
  BY <1>7 DEF Environment, SaveInvestigation, PodGone, DeletePod, RefuseDelete
<1>8. ASSUME NEW h \in Handlers,
             \/ CheckCurrent(h) \/ ListPodsFails(h)
             \/ \E pod \in Pods \cup {None} : EvaluatePolicy(h, pod)
             \/ SpawnKubectl(h) \/ ExecutorUnavailable(h)
             \/ RestartSucceeds(h) \/ RestartFails(h) \/ SaveAction(h)
      PROVE  FALSE
  BY <1>8 DEF CheckCurrent, ListPodsFails, EvaluatePolicy, SpawnKubectl,
     ExecutorUnavailable, RestartSucceeds, RestartFails, SaveAction
<1>9. CASE UNCHANGED vars
  BY <1>9
<1> QED BY <1>1, <1>2, <1>3, <1>4, <1>5, <1>6, <1>7, <1>8, <1>9
     DEF Next, Proceed

\* A decided plan is never written again.
THEOREM DecisionsAreFinal == Spec => DecidedPlansAreFinal
<1>1. IInv /\ [Next]_vars =>
        [\A p \in Plans : StatusOf(p) \in FinalStatuses =>
                           plans'[p] = plans[p]]_vars
  BY WritesFindUndecided
<1> QED BY <1>1, Invariance, PTL DEF Spec, DecidedPlansAreFinal

---------------------------------------------------------------------------
(* Refinement *)

\* Writing row p is a move of plan p in the life cycle.
LEMMA StoreMoves ==
  ASSUME TypeOK, NEW p \in Plans, NEW plan \in RemediationPlan, NEW from,
         StatusOf(p) = from, plans' = [plans EXCEPT ![p] = plan]
  PROVE  Lifecycle!Move(p, from, plan.status)
<1>1. \A q \in Plans :
        StatusOf(q)' = IF q = p THEN plan.status ELSE StatusOf(q)
  BY StoreStatus
<1> HIDE DEF StatusOf
<1> QED BY <1>1 DEF Lifecycle!Move

\* A step that leaves the rows, the attempts, kubectl and the receipts alone is
\* no step of the life cycle.
LEMMA LifecycleStutters ==
  ASSUME UNCHANGED <<plans, attempts, kubectl, receipts>>
  PROVE  UNCHANGED Lifecycle!lvars
BY DEF Lifecycle!lvars, StatusOf

\* The steps of a request that decides, against the life cycle.
LEMMA DecisionRefines ==
  ASSUME IInv, NEW h \in Handlers,
         CommitRejection(h) \/ CommitApproval(h) \/ RefuseApproved(h)
  PROVE  Lifecycle!LNext \/ UNCHANGED Lifecycle!lvars
<1> USE DEF IInv, Store, Deciding, Owning, ApprovedPhase
<1> TypeOK
  OBVIOUS
<1>1. ASSUME CommitRejection(h), InStatus(pid[h], "proposed")
      PROVE  Lifecycle!Reject(pid[h])
  <2>1. /\ pid[h] \in Plans /\ copy[h] \in RemediationPlan
        /\ copy[h].status = "rejected" /\ StatusOf(pid[h]) = "proposed"
    BY <1>1, HandlerFacts DEF CommitRejection, Locals, InStatus, StatusOf
  <2>2. Lifecycle!Move(pid[h], "proposed", "rejected")
    BY <1>1, <2>1, StoreMoves DEF CommitRejection
  <2> QED BY <1>1, <2>2 DEF CommitRejection, Lifecycle!Reject, history
<1>2. ASSUME CommitApproval(h), InStatus(pid[h], "proposed")
      PROVE  Lifecycle!Approve(pid[h])
  <2>1. /\ pid[h] \in Plans /\ copy[h] \in RemediationPlan
        /\ copy[h].status = "approved" /\ StatusOf(pid[h]) = "proposed"
    BY <1>2, HandlerFacts DEF CommitApproval, Locals, InStatus, StatusOf
  <2>2. Lifecycle!Move(pid[h], "proposed", "approved")
    BY <1>2, <2>1, StoreMoves DEF CommitApproval
  <2> QED BY <1>2, <2>2 DEF CommitApproval, Lifecycle!Approve
<1>3. ASSUME RefuseApproved(h)
      PROVE  Lifecycle!Refuse(pid[h])
  <2>1. /\ pid[h] \in Plans /\ StatusOf(pid[h]) = "approved"
        /\ WithStatus(copy[h], "failed") \in RemediationPlan
        /\ WithStatus(copy[h], "failed").status = "failed"
    BY <1>3, HandlerFacts, WithStatusPlan
       DEF RefuseApproved, Ownership, PlanStatuses, FinalStatuses
  <2>2. Lifecycle!Move(pid[h], "approved", "failed")
    BY <1>3, <2>1, StoreMoves DEF RefuseApproved
  <2> QED BY <1>3, <2>2 DEF RefuseApproved, Lifecycle!Refuse, history
<1>4. ASSUME CommitRejection(h) \/ CommitApproval(h),
             ~InStatus(pid[h], "proposed")
      PROVE  UNCHANGED Lifecycle!lvars
  BY <1>4, LifecycleStutters DEF CommitRejection, CommitApproval, history
<1>5. pid[h] \in Plans
  BY HandlerFacts DEF CommitRejection, CommitApproval, RefuseApproved
<1> QED BY <1>1, <1>2, <1>3, <1>4, <1>5 DEF Lifecycle!LNext

\* The steps of a request that executes, against the life cycle.
LEMMA ExecutionRefines ==
  ASSUME IInv, NEW h \in Handlers,
         \/ ClaimExecution(h) \/ SpawnKubectl(h) \/ ExecutorUnavailable(h)
         \/ SaveAction(h) \/ FinishExecution(h)
  PROVE  Lifecycle!LNext
<1> USE DEF IInv, Store, Deciding, Owning, ApprovedPhase, ExecutingPhase
<1> TypeOK
  OBVIOUS
<1>1. ASSUME ClaimExecution(h)
      PROVE  Lifecycle!LNext
  <2>1. /\ pid[h] \in Plans /\ StatusOf(pid[h]) = "approved"
        /\ WithStatus(copy[h], "executing") \in RemediationPlan
        /\ WithStatus(copy[h], "executing").status = "executing"
    BY <1>1, HandlerFacts, WithStatusPlan
       DEF ClaimExecution, Ownership, PlanStatuses
  <2>2. plans' = [plans EXCEPT ![pid[h]] = WithStatus(copy[h], "executing")]
    BY <1>1, ClaimSucceeds DEF ClaimExecution
  <2>3. Lifecycle!Move(pid[h], "approved", "executing")
    BY <2>1, <2>2, StoreMoves
  <2>4. Lifecycle!ClaimExecution(pid[h])
    BY <1>1, <2>3 DEF ClaimExecution, Lifecycle!ClaimExecution, history
  <2> QED BY <2>1, <2>4 DEF Lifecycle!LNext
<1>2. ASSUME SpawnKubectl(h) \/ ExecutorUnavailable(h)
      PROVE  Lifecycle!LNext
  <2>1. /\ pid[h] \in Plans /\ StatusOf(pid[h]) = "executing"
        /\ attempts[pid[h]] = 0 /\ kubectl[pid[h]] = "none"
    BY <1>2, HandlerFacts DEF SpawnKubectl, ExecutorUnavailable, Ownership,
       Execution
  <2>2. /\ attempts' = [attempts EXCEPT ![pid[h]] = 1]
        /\ UNCHANGED <<plans, receipts>>
    BY <1>2, <2>1 DEF SpawnKubectl, ExecutorUnavailable, stored
  <2>3. \A p \in Plans : kubectl'[p] = "deleted" <=> kubectl[p] = "deleted"
    BY <1>2, <2>1 DEF SpawnKubectl, ExecutorUnavailable, TypeOK
  <2>4. \A p \in Plans : StatusOf(p)' = StatusOf(p)
    BY <2>2 DEF StatusOf
  <2> HIDE DEF StatusOf
  <2>5. Lifecycle!Attempt(pid[h])
    BY <2>1, <2>2, <2>3, <2>4 DEF Lifecycle!Attempt
  <2> QED BY <2>1, <2>5 DEF Lifecycle!LNext
<1>3. ASSUME SaveAction(h)
      PROVE  Lifecycle!LNext
  <2>1. PICK p \in Plans : p = pid[h]
    BY <1>3, HandlerFacts DEF SaveAction
  <2>2. /\ StatusOf(p) = "executing" /\ attempts[p] = 1
        /\ \A r \in receipts : r.plan # p
    BY <1>3, <2>1 DEF SaveAction, Ownership, Execution, Receipts
  <2>3. {r.plan : r \in receipts'} = {r.plan : r \in receipts} \cup {p}
    <3> DEFINE new == [plan |-> pid[h], target |-> copy[h].proposal.target,
                       status |-> copy[h].status]
    <3>1. receipts' = receipts \cup {new} /\ new.plan = p
      BY <1>3, <2>1 DEF SaveAction
    <3> HIDE DEF new
    <3> QED BY <3>1
  <2>4. UNCHANGED <<plans, attempts, kubectl>>
    BY <1>3 DEF SaveAction, history
  <2>5. \A q \in Plans : StatusOf(q)' = StatusOf(q)
    BY <2>4 DEF StatusOf
  <2> HIDE DEF StatusOf
  <2>6. Lifecycle!Record(p)
    BY <2>2, <2>3, <2>4, <2>5 DEF Lifecycle!Record
  <2> QED BY <2>6 DEF Lifecycle!LNext
<1>4. ASSUME FinishExecution(h)
      PROVE  Lifecycle!LNext
  <2>1. /\ pid[h] \in Plans /\ copy[h] \in RemediationPlan
        /\ StatusOf(pid[h]) = "executing"
        /\ copy[h].status \in {"succeeded", "failed"}
        /\ copy[h].status = "succeeded" => kubectl[pid[h]] = "deleted"
        /\ pid[h] \in {r.plan : r \in receipts}
    BY <1>4, HandlerFacts DEF FinishExecution, Ownership, Locals, Receipts
  <2>2. Lifecycle!Move(pid[h], "executing", copy[h].status)
    BY <1>4, <2>1, StoreMoves DEF FinishExecution
  <2>3. Lifecycle!Report(pid[h])
    BY <1>4, <2>1, <2>2 DEF FinishExecution, Lifecycle!Report, history
  <2> QED BY <2>1, <2>3 DEF Lifecycle!LNext
<1> QED BY <1>1, <1>2, <1>3, <1>4

\* The service implements the plan life cycle: every commit, attempt, deletion,
\* receipt and report is one of its steps, everything else is invisible in it.
THEOREM ServiceImplementsLifecycle == Spec => ImplementsLifecycle
<1>1. Init => Lifecycle!LInit
  BY ConstantsAssumption DEF Init, Lifecycle!LInit, StatusOf
<1>2. IInv /\ [Next]_vars => [Lifecycle!LNext]_(Lifecycle!lvars)
  <2> SUFFICES ASSUME IInv, [Next]_vars
               PROVE  Lifecycle!LNext \/ UNCHANGED Lifecycle!lvars
    OBVIOUS
  <2>1. ASSUME NEW h \in Handlers, NEW p \in Plans, CreatePlan(h, p)
        PROVE  Lifecycle!LNext
    <3>1. /\ copy[h] \in RemediationPlan /\ StatusOf(p) = "none"
          /\ copy[h].status \in {"proposed", "recommendation_only"}
          /\ TypeOK
      BY <2>1 DEF CreatePlan, IInv, Locals, StatusOf
    <3>2. Lifecycle!Move(p, "none", copy[h].status)
      BY <2>1, <3>1, StoreMoves DEF CreatePlan, Store
    <3>3. Lifecycle!Propose(p)
      BY <2>1, <3>1, <3>2 DEF CreatePlan, Lifecycle!Propose, history
    <3> QED BY <3>3 DEF Lifecycle!LNext
  <2>2. ASSUME NEW p \in Plans, DeletePod(p)
        PROVE  Lifecycle!LNext
    <3>1. kubectl[p] = "sent" /\ attempts[p] = 1
      BY <2>2 DEF DeletePod, IInv, Execution
    <3>2. /\ kubectl' = [kubectl EXCEPT ![p] = "deleted"]
          /\ UNCHANGED <<plans, attempts, receipts>>
      BY <2>2 DEF DeletePod, stored, history
    <3>3. {q \in Plans : kubectl'[q] = "deleted"} =
            {q \in Plans : kubectl[q] = "deleted"} \cup {p}
      BY <3>2 DEF IInv, TypeOK
    <3>4. \A q \in Plans : StatusOf(q)' = StatusOf(q)
      BY <3>2 DEF StatusOf
    <3>5. Lifecycle!Delete(p)
      <4> HIDE DEF StatusOf
      <4> QED BY <3>1, <3>2, <3>3, <3>4 DEF Lifecycle!Delete
    <3> QED BY <3>5 DEF Lifecycle!LNext
  <2>3. ASSUME NEW p \in Plans, RefuseDelete(p)
        PROVE  UNCHANGED Lifecycle!lvars
    <3>1. /\ kubectl' = [kubectl EXCEPT ![p] = "refused"]
          /\ kubectl[p] = "sent"
          /\ UNCHANGED <<plans, attempts, receipts>>
      BY <2>3 DEF RefuseDelete, stored, history
    <3>2. \A q \in Plans : kubectl'[q] = "deleted" <=> kubectl[q] = "deleted"
      BY <3>1 DEF IInv, TypeOK
    <3> QED BY <3>1, <3>2 DEF Lifecycle!lvars, StatusOf
  <2>4. ASSUME NEW h \in Handlers, Arrive(h) \/ Abort(h)
        PROVE  UNCHANGED <<plans, attempts, kubectl, receipts>>
    BY <2>4, ArriveEffect DEF Abort, stored, history
  <2>5. ASSUME NEW h \in Handlers,
               \/ CheckCurrent(h) \/ ListPodsFails(h)
               \/ \E pod \in Pods \cup {None} : EvaluatePolicy(h, pod)
               \/ RestartSucceeds(h) \/ RestartFails(h)
        PROVE  UNCHANGED <<plans, attempts, kubectl, receipts>>
    BY <2>5 DEF CheckCurrent, ListPodsFails, EvaluatePolicy, RestartSucceeds,
       RestartFails, stored, history
  <2>6. ASSUME \/ \E i \in InvestigationIds, inc \in Incidents, d \in Diagnoses :
                    SaveInvestigation(i, inc, d)
               \/ \E pod \in Pods : PodGone(pod)
               \/ UNCHANGED vars
        PROVE  UNCHANGED <<plans, attempts, kubectl, receipts>>
    BY <2>6 DEF SaveInvestigation, PodGone, vars, stored, history
  <2> QED BY <2>1, <2>2, <2>3, <2>4, <2>5, <2>6, LifecycleStutters,
             DecisionRefines, ExecutionRefines DEF Next, Environment, Proceed
<1> QED BY <1>1, <1>2, Invariance, PTL
        DEF Spec, ImplementsLifecycle, Lifecycle!LSpec
=============================================================================
