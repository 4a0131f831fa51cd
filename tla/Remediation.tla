---------------------------- MODULE Remediation ----------------------------
(***************************************************************************)
(* The guarded-remediation service of RootLens.  Requests run as           *)
(* coroutines of several API replicas over one PostgreSQL database; every  *)
(* await of the service is a step of its own, so requests interleave       *)
(* between any two reads or commits, and a request may be cancelled or     *)
(* lost with its process at any of them.  A request that the code refuses  *)
(* without writing anything is not a step.                                 *)
(***************************************************************************)
EXTENDS Naturals, FiniteSets

CONSTANTS
  Handlers,             \* request coroutines, over all the replicas
  Plans,                \* identifiers a plan may get
  Actors,               \* names of the people who decide
  Incidents,
  MaxInvestigations,    \* bound: investigations that can be stored
  Diagnoses,            \* outcomes an investigation may be stored with
  Proposals,            \* payloads a client may propose
  Pods,                 \* pods of the cluster, see PodRecord
  Allowed,              \* Allowed[h]: namespace allowlist of h's replica
  Labels,               \* names the anchored pattern of a namespace accepts
  ExactNames,           \* and the one of a resource
  ExecutorEnabled,      \* Kubectl executor configured, or the disabled one
  CanAbort,             \* requests may be cancelled or die with a replica
  None                  \* absent value

InvestigationIds == 1 .. MaxInvestigations   \* in order of started_at

ActionTypes == {"restart_pod", "restart_deployment", "scale_deployment",
                "rollback_deployment", "database_change", "secret_change",
                "network_policy_change"}

Origins == {"current", "historical"}

ProposalRules == {"namespace_allowlist", "exact_target", "current_evidence",
                  "diagnosis_confidence", "action_scope"}

ExecutionRules == ProposalRules \cup
  {"human_approval", "stateless_controller", "pod_identity",
   "pod_service_alignment"}

PolicyChecks == [ProposalRules -> BOOLEAN] \cup [ExecutionRules -> BOOLEAN]

FinalStatuses == {"rejected", "succeeded", "failed", "recommendation_only"}

PlanStatuses == FinalStatuses \cup {"proposed", "approved", "executing"}

ProposalRecord(p) ==
  DOMAIN p = {"action", "namespace", "target", "service"}

\* A stored plan; its rationale, reason and clock fields are left out.
RemediationPlan ==
  [incident : Incidents, investigation : InvestigationIds,
   proposal : Proposals, evidence : SUBSET Origins, status : PlanStatuses,
   checks : PolicyChecks, decidedBy : Actors \cup {None}]

Investigation == [incident : Incidents, diagnosis : Diagnoses]

ASSUME ConstantsAssumption ==
  /\ MaxInvestigations \in Nat
  /\ None \notin RemediationPlan /\ None \notin Investigation
  /\ None \notin Plans /\ None \notin Actors /\ None \notin Pods
  /\ \A d \in Diagnoses : d.top # None => d.top.cites \subseteq Origins
  /\ \A p \in Proposals : ProposalRecord(p) /\ p.action \in ActionTypes
  /\ ExecutorEnabled \in BOOLEAN /\ CanAbort \in BOOLEAN

\* A pod's namespace and name identify it for its whole life.
ASSUME PodNamesAssumption ==
  \A a, b \in Pods : a.namespace = b.namespace /\ a.name = b.name => a = b

VARIABLES
  investigations,       \* stored investigations, None when not stored
  plans,                \* rows of remediation_plans, None before the insert
  receipts,             \* rows of remediation_actions
  running,              \* pods that exist in the cluster
  kubectl,              \* delete request of each plan: "none" before it is
                        \* spawned, "sent", then "deleted" or "refused"
  pc,                   \* where each handler is
  pid,                  \* plan a deciding handler works on
  copy,                 \* the handler's in-memory plan
  attempts,             \* history: calls of restart_pod for each plan
  superseded,           \* history: plans whose investigation was no longer
                        \* the latest when their approval committed
  abandoned             \* history: plans whose owner was lost

stored == <<investigations, plans, receipts>>
local == <<pc, pid, copy>>
history == <<attempts, superseded, abandoned>>
vars == <<stored, running, kubectl, local, history>>

---------------------------------------------------------------------------
(* Policy *)

\* risk_for(action) >= RiskLevel.ELEVATED
Elevated(action) == action # "restart_pod"

\* investigation_id is the most recently started stored investigation.
IsLatest(inc, i) ==
  /\ i \in InvestigationIds /\ investigations[i] # None
  /\ investigations[i].incident = inc
  /\ \A j \in InvestigationIds :
       /\ investigations[j] # None
       /\ investigations[j].incident = inc
       => j <= i

\* One rule of the policy for a plan (or draft), the best hypothesis of its
\* investigation and the pod observed, evaluated in the replica of handler h.
Passes(rule, h, plan, top, pod) ==
  LET proposal == plan.proposal IN
  /\ rule = "namespace_allowlist" =>
       proposal.namespace \in Allowed[h] \cap Labels
  /\ rule = "exact_target" => proposal.target \in ExactNames
  /\ rule = "current_evidence" => plan.evidence = {"current"}
  /\ rule = "diagnosis_confidence" =>
       top # None /\ top.confident /\ top.service = proposal.service
  /\ rule = "action_scope" => proposal.action = "restart_pod"
  /\ rule = "human_approval" => plan.decidedBy # None
  /\ rule = "stateless_controller" => pod # None /\ pod.owner = "ReplicaSet"
  /\ rule = "pod_identity" =>
       /\ pod # None /\ pod.name = proposal.target
       /\ pod.namespace = proposal.namespace
  /\ rule = "pod_service_alignment" =>
       pod # None /\ proposal.service \in pod.labels

EvaluateProposal(h, plan, top) ==
  [rule \in ProposalRules |-> Passes(rule, h, plan, top, None)]

\* Mutant: the list of execution checks forgets the proposal's checks.
EvaluateOnlyTarget(h, plan, top, pod) ==
  [rule \in ExecutionRules \ ProposalRules |-> Passes(rule, h, plan, top, pod)]

\* Mutant: the owner of the pod is not looked at.
EvaluateAnyOwner(h, plan, top, pod) ==
  [rule \in ExecutionRules |->
     rule = "stateless_controller" \/ Passes(rule, h, plan, top, pod)]

\* Mutant: the checks stored with the proposal are taken over, not redone.
EvaluateReusingProposal(h, plan, top, pod) ==
  [rule \in ExecutionRules |->
     IF rule \in ProposalRules THEN plan.checks[rule]
     ELSE Passes(rule, h, plan, top, pod)]

EvaluateExecution(h, plan, top, pod) ==
  [rule \in ExecutionRules |-> Passes(rule, h, plan, top, pod)]

PolicyAllows(checks) == \A rule \in DOMAIN checks : checks[rule]

\* The pod that list_pods and the name filter find, None when there is none.
Observed(proposal, pod) ==
  \/ /\ pod \in running
     /\ pod.namespace = proposal.namespace /\ pod.name = proposal.target
  \/ /\ pod = None
     /\ \A q \in running :
          q.namespace = proposal.namespace => q.name # proposal.target

---------------------------------------------------------------------------
(* Initial state and the environment *)

Init ==
  /\ investigations = [i \in InvestigationIds |-> None]
  /\ plans = [p \in Plans |-> None]
  /\ receipts = {}
  /\ running = Pods
  /\ kubectl = [p \in Plans |-> "none"]
  /\ pc = [h \in Handlers |-> "idle"]
  /\ pid = [h \in Handlers |-> None]
  /\ copy = [h \in Handlers |-> None]
  /\ attempts = [p \in Plans |-> 0]
  /\ superseded = {}
  /\ abandoned = {}

\* An investigation is stored when it ends: a later-started one may be first.
SaveInvestigation(i, inc, d) ==
  /\ investigations[i] = None
  /\ investigations' = [investigations EXCEPT
                          ![i] = [incident |-> inc, diagnosis |-> d]]
  /\ UNCHANGED <<plans, receipts, running, kubectl, local, history>>

\* A pod goes away on its own (rescheduled, scaled down).
PodGone(pod) ==
  /\ pod \in running
  /\ running' = running \ {pod}
  /\ UNCHANGED <<stored, kubectl, local, history>>

---------------------------------------------------------------------------
(* Requests: every step of propose, reject and approve_and_execute *)

Goto(h, label) == pc' = [pc EXCEPT ![h] = label]

\* The request returns or raises.
Leave(h) ==
  /\ Goto(h, "idle")
  /\ pid' = [pid EXCEPT ![h] = None]
  /\ copy' = [copy EXCEPT ![h] = None]

NewPlan(inc, i, proposal, evidence, checks, s) ==
  [incident |-> inc, investigation |-> i, proposal |-> proposal,
   evidence |-> evidence, status |-> s, checks |-> checks,
   decidedBy |-> None]

\* Copies of a frozen plan with some fields replaced (model_copy).
WithStatus(plan, s) == [plan EXCEPT !.status = s]
WithChecks(plan, checks) == [plan EXCEPT !.checks = checks]
Decided(plan, s, actor) == [plan EXCEPT !.status = s, !.decidedBy = actor]

\* Row p is written whole: status column and snapshot.
Store(p, plan) == plans' = [plans EXCEPT ![p] = plan]

\* Mutant: the update matches the plan's id alone.
InAnyStatus(p, expected) == plans[p] # None

\* The WHERE clause of the compare-and-set update.
InStatus(p, expected) == plans[p] # None /\ plans[p].status = expected

\* propose reads the latest investigation and prepares the row.
Propose(h, inc, i, proposal) ==
  LET top == investigations[i].diagnosis.top
      draft == [proposal |-> proposal, evidence |-> top.cites,
                decidedBy |-> None]
      checks == EvaluateProposal(h, draft, top)
      advice == Elevated(proposal.action) \/ ~PolicyAllows(checks)
  IN
  /\ pc[h] = "idle"
  /\ IsLatest(inc, i)
  /\ top # None
  /\ copy' = [copy EXCEPT ![h] = NewPlan(inc, i, proposal, top.cites, checks,
       IF advice THEN "recommendation_only" ELSE "proposed")]
  /\ Goto(h, "creating")
  /\ UNCHANGED <<stored, running, kubectl, pid, history>>

\* The insert commits, under an identifier nothing else uses.
CreatePlan(h, p) ==
  /\ pc[h] = "creating"
  /\ plans[p] = None
  /\ Store(p, copy[h])
  /\ Leave(h)
  /\ UNCHANGED <<investigations, receipts, running, kubectl, history>>

\* Both decisions read the plan of the incident and require it PROPOSED.
BeginDecision(h, p, inc, actor, decision, label) ==
  /\ pc[h] = "idle"
  /\ InStatus(p, "proposed")
  /\ plans[p].incident = inc
  /\ pid' = [pid EXCEPT ![h] = p]
  /\ copy' = [copy EXCEPT ![h] = Decided(plans[p], decision, actor)]
  /\ Goto(h, label)
  /\ UNCHANGED <<stored, running, kubectl, history>>

Reject(h, p, inc, actor) ==
  BeginDecision(h, p, inc, actor, "rejected", "rejecting")

\* Only a low-risk pod restart can be approved.
Approve(h, p, inc, actor) ==
  /\ InStatus(p, "proposed") => ~Elevated(plans[p].proposal.action)
  /\ BeginDecision(h, p, inc, actor, "approved", "approving")

\* transition(rejected, expected=PROPOSED)
CommitRejection(h) ==
  /\ pc[h] = "rejecting"
  /\ IF InStatus(pid[h], "proposed")
     THEN Store(pid[h], copy[h])
     ELSE UNCHANGED plans
  /\ Leave(h)
  /\ UNCHANGED <<investigations, receipts, running, kubectl, history>>

\* transition(approved, expected=PROPOSED): the winner owns the plan.
CommitApproval(h) ==
  LET p == pid[h] IN
  /\ pc[h] = "approving"
  /\ IF InStatus(p, "proposed")
     THEN /\ Store(p, copy[h])
          /\ superseded' =
               IF IsLatest(copy[h].incident, copy[h].investigation)
               THEN superseded ELSE superseded \cup {p}
          /\ Goto(h, "approved")
          /\ UNCHANGED <<pid, copy>>
     ELSE /\ Leave(h)
          /\ UNCHANGED <<plans, superseded>>
  /\ UNCHANGED <<investigations, receipts, running, kubectl, attempts,
                 abandoned>>

\* Mutant: the investigation is not compared with the latest one.
CheckNothing(h) ==
  /\ pc[h] = "approved"
  /\ Goto(h, "current")
  /\ UNCHANGED <<stored, running, kubectl, pid, copy, history>>

\* Mutant: an overtaken investigation only raises.
CheckCurrentRaises(h) ==
  /\ pc[h] = "approved"
  /\ IF IsLatest(copy[h].incident, copy[h].investigation)
     THEN Goto(h, "current") /\ UNCHANGED <<pid, copy>>
     ELSE Leave(h)
  /\ UNCHANGED <<stored, running, kubectl, history>>

\* The latest investigation is read again.
CheckCurrent(h) ==
  /\ pc[h] = "approved"
  /\ Goto(h, IF IsLatest(copy[h].incident, copy[h].investigation)
             THEN "current" ELSE "refusing")
  /\ UNCHANGED <<stored, running, kubectl, pid, copy, history>>

\* Mutant: the gateway's exception reaches the client, the plan is not failed.
ListPodsPropagates(h) ==
  /\ pc[h] = "current"
  /\ Leave(h)
  /\ UNCHANGED <<stored, running, kubectl, history>>

\* list_pods raises: the target cannot be verified.
ListPodsFails(h) ==
  /\ pc[h] = "current"
  /\ Goto(h, "refusing")
  /\ UNCHANGED <<stored, running, kubectl, pid, copy, history>>

\* Mutant: the new checks are evaluated but not kept in the plan.
EvaluatePolicySilently(h, pod) ==
  LET top == investigations[copy[h].investigation].diagnosis.top
      checks == EvaluateExecution(h, copy[h], top, pod)
  IN
  /\ pc[h] = "current"
  /\ Observed(copy[h].proposal, pod)
  /\ Goto(h, IF PolicyAllows(checks) THEN "claiming" ELSE "refusing")
  /\ UNCHANGED <<stored, running, kubectl, pid, copy, history>>

\* The target is observed and the whole policy evaluated again.
EvaluatePolicy(h, pod) ==
  LET top == investigations[copy[h].investigation].diagnosis.top
      checks == EvaluateExecution(h, copy[h], top, pod)
  IN
  /\ pc[h] = "current"
  /\ Observed(copy[h].proposal, pod)
  /\ copy' = [copy EXCEPT ![h] = WithChecks(copy[h], checks)]
  /\ Goto(h, IF PolicyAllows(checks) THEN "claiming" ELSE "refusing")
  /\ UNCHANGED <<stored, running, kubectl, pid, history>>

\* The unconditional update to FAILED, then an error to the client.
RefuseApproved(h) ==
  /\ pc[h] = "refusing"
  /\ Store(pid[h], WithStatus(copy[h], "failed"))
  /\ Leave(h)
  /\ UNCHANGED <<investigations, receipts, running, kubectl, history>>

\* transition(executing, expected=APPROVED)
ClaimExecution(h) ==
  LET executing == WithStatus(copy[h], "executing") IN
  /\ pc[h] = "claiming"
  /\ IF InStatus(pid[h], "approved")
     THEN /\ Store(pid[h], executing)
          /\ copy' = [copy EXCEPT ![h] = executing]
          /\ Goto(h, "executing")
          /\ UNCHANGED pid
     ELSE /\ Leave(h)
          /\ UNCHANGED plans
  /\ UNCHANGED <<investigations, receipts, running, kubectl, history>>
---------------------------------------------------------------------------
(* The executor *)

\* kubectl is spawned; the disabled executor raises instead of this.
SpawnKubectl(h) ==
  /\ ExecutorEnabled
  /\ pc[h] = "executing"
  /\ kubectl' = [kubectl EXCEPT ![pid[h]] = "sent"]
  /\ attempts' = [attempts EXCEPT ![pid[h]] = @ + 1]
  /\ Goto(h, "waiting")
  /\ UNCHANGED <<stored, running, pid, copy, superseded, abandoned>>

\* restart_pod raises before anything reached the cluster.
ExecutorUnavailable(h) ==
  /\ pc[h] = "executing"
  /\ attempts' = [attempts EXCEPT ![pid[h]] = @ + 1]
  /\ copy' = [copy EXCEPT ![h] = WithStatus(copy[h], "failed")]
  /\ Goto(h, "recording")
  /\ UNCHANGED <<stored, running, kubectl, pid, superseded, abandoned>>

\* The API server accepts the delete of plan p, awaited or not.
DeletePod(p) ==
  /\ kubectl[p] = "sent"
  /\ \E pod \in running :
       /\ Observed(plans[p].proposal, pod)
       /\ running' = running \ {pod}
  /\ kubectl' = [kubectl EXCEPT ![p] = "deleted"]
  /\ UNCHANGED <<stored, local, history>>

\* kubectl ends without a delete: not found, forbidden, no connection, killed.
RefuseDelete(p) ==
  /\ kubectl[p] = "sent"
  /\ kubectl' = [kubectl EXCEPT ![p] = "refused"]
  /\ UNCHANGED <<stored, running, local, history>>

\* Mutant: only failures leave a receipt.
RestartSucceedsUnrecorded(h) ==
  /\ pc[h] = "waiting"
  /\ kubectl[pid[h]] = "deleted"
  /\ copy' = [copy EXCEPT ![h] = WithStatus(copy[h], "succeeded")]
  /\ Goto(h, "finishing")
  /\ UNCHANGED <<stored, running, kubectl, pid, history>>

\* kubectl exits with 0.
RestartSucceeds(h) ==
  /\ pc[h] = "waiting"
  /\ kubectl[pid[h]] = "deleted"
  /\ copy' = [copy EXCEPT ![h] = WithStatus(copy[h], "succeeded")]
  /\ Goto(h, "recording")
  /\ UNCHANGED <<stored, running, kubectl, pid, history>>

\* Mutant: a restart that timed out is taken for done.
RestartTimeoutSucceeds(h) ==
  /\ pc[h] = "waiting"
  /\ copy' = [copy EXCEPT ![h].status =
                 IF kubectl[pid[h]] = "refused" THEN "failed" ELSE "succeeded"]
  /\ Goto(h, "recording")
  /\ UNCHANGED <<stored, running, kubectl, pid, history>>

\* kubectl fails, or has not answered in 30 s, whatever became of its request.
RestartFails(h) ==
  /\ pc[h] = "waiting"
  /\ copy' = [copy EXCEPT ![h] = WithStatus(copy[h], "failed")]
  /\ Goto(h, "recording")
  /\ UNCHANGED <<stored, running, kubectl, pid, history>>

\* save_action: the receipt is inserted before the plan's final status.
SaveAction(h) ==
  /\ pc[h] = "recording"
  /\ receipts' = receipts \cup
       {[plan |-> pid[h], target |-> copy[h].proposal.target,
         status |-> copy[h].status]}
  /\ Goto(h, "finishing")
  /\ UNCHANGED <<investigations, plans, running, kubectl, pid, copy, history>>

\* The unconditional update to the final status.
FinishExecution(h) ==
  /\ pc[h] = "finishing"
  /\ Store(pid[h], copy[h])
  /\ Leave(h)
  /\ UNCHANGED <<investigations, receipts, running, kubectl, history>>

---------------------------------------------------------------------------
(* Failures *)

\* A handler owns a plan from the commit of its approval to its last update.
Owning == {"approved", "current", "refusing", "claiming", "executing",
           "waiting", "recording", "finishing"}

\* Cancellation, a database error no handler catches (of the queries between the
\* approval and the last update, for instance), or a lost replica ends the request
\* where it is; nothing resumes it.
Abort(h) ==
  /\ CanAbort
  /\ pc[h] # "idle"
  /\ Leave(h)
  /\ abandoned' =
       IF pc[h] \in Owning THEN abandoned \cup {pid[h]} ELSE abandoned
  /\ UNCHANGED <<stored, running, kubectl, attempts, superseded>>

---------------------------------------------------------------------------
(* Specification *)

Environment ==
  \/ \E i \in InvestigationIds, inc \in Incidents, d \in Diagnoses :
       SaveInvestigation(i, inc, d)
  \/ \E pod \in Pods : PodGone(pod)
  \/ \E p \in Plans : DeletePod(p) \/ RefuseDelete(p)

Arrive(h) ==
  \E inc \in Incidents :
    \/ \E i \in InvestigationIds, proposal \in Proposals :
         Propose(h, inc, i, proposal)
    \/ \E p \in Plans, actor \in Actors :
         Reject(h, p, inc, actor) \/ Approve(h, p, inc, actor)

\* A request that has arrived runs on.
Proceed(h) ==
  \/ \E p \in Plans : CreatePlan(h, p)
  \/ CommitRejection(h)
  \/ CommitApproval(h)
  \/ CheckCurrent(h)
  \/ ListPodsFails(h)
  \/ \E pod \in Pods \cup {None} : EvaluatePolicy(h, pod)
  \/ RefuseApproved(h)
  \/ ClaimExecution(h)
  \/ SpawnKubectl(h)
  \/ ExecutorUnavailable(h)
  \/ RestartSucceeds(h)
  \/ RestartFails(h)
  \/ SaveAction(h)
  \/ FinishExecution(h)

Next ==
  \/ Environment
  \/ \E h \in Handlers : Arrive(h) \/ Proceed(h) \/ Abort(h)

Spec == Init /\ [][Next]_vars

\* The event loop keeps running a request, and every await it makes returns.
FairSpec == Spec /\ \A h \in Handlers : WF_vars(Proceed(h))

---------------------------------------------------------------------------
(* Properties *)

ReceiptRecord ==
  [plan : Plans, target : {p.target : p \in Proposals},
   status : {"succeeded", "failed"}]

Deciding == {"rejecting", "approving"} \cup Owning

\* Types of the whole state.
TypeOK ==
  /\ investigations \in [InvestigationIds -> Investigation \cup {None}]
  /\ plans \in [Plans -> RemediationPlan \cup {None}]
  /\ receipts \subseteq ReceiptRecord
  /\ running \subseteq Pods
  /\ kubectl \in [Plans -> {"none", "sent", "deleted", "refused"}]
  /\ pc \in [Handlers -> {"idle", "creating"} \cup Deciding]
  /\ pid \in [Handlers -> Plans \cup {None}]
  /\ copy \in [Handlers -> RemediationPlan \cup {None}]
  /\ attempts \in [Plans -> Nat]
  /\ superseded \subseteq Plans
  /\ abandoned \subseteq Plans

StatusOf(p) == IF plans[p] = None THEN "none" ELSE plans[p].status

Owners(p) == {h \in Handlers : pc[h] \in Owning /\ pid[h] = p}

Executed(p) == attempts[p] > 0

\* However approvals race, an executor acts at most once for a plan, leaves at
\* most one receipt, and nothing but that one attempt ever reaches the cluster.
AtMostOnceExecution ==
  \A p \in Plans :
    /\ attempts[p] <= 1
    /\ Cardinality({r \in receipts : r.plan = p}) <= attempts[p]
    /\ kubectl[p] # "none" => attempts[p] = 1

\* An approved or executing plan is in the hands of exactly one request, unless
\* that request was lost: no error path of approve_and_execute strands a plan.
ApprovedPlansAreOwned ==
  \A p \in Plans :
    /\ Cardinality(Owners(p)) <= 1
    /\ Owners(p) # {} <=>
         StatusOf(p) \in {"approved", "executing"} /\ p \notin abandoned

\* The stored row of every plan an executor acted for names the approver and
\* carries the nine execution checks, all passed: the audit trail precedes the
\* action and is not lost when the request dies after it.
ExecutionIsAudited ==
  \A p \in Plans : Executed(p) =>
    /\ StatusOf(p) \in {"executing", "succeeded", "failed"}
    /\ plans[p].decidedBy \in Actors
    /\ DOMAIN plans[p].checks = ExecutionRules
    /\ PolicyAllows(plans[p].checks)

\* A deleted pod is a ReplicaSet pod of the service that the best hypothesis of
\* the approved investigation blames, with confidence, on current evidence.
DeletionIsGrounded ==
  \A p \in Plans : kubectl[p] = "deleted" =>
    LET proposal == plans[p].proposal
        top == investigations[plans[p].investigation].diagnosis.top
    IN /\ top.confident /\ top.cites = {"current"}
       /\ proposal.service = top.service
       /\ \E pod \in Pods \ running :
            /\ pod.namespace = proposal.namespace
            /\ pod.name = proposal.target
            /\ pod.owner = "ReplicaSet" /\ top.service \in pod.labels

\* While kubectl may act for a request, the plan's namespace is on the allowlist
\* of the replica that runs it, though another replica may have accepted it.
AllowlistOfExecutingReplica ==
  \A h \in Handlers : pc[h] \in {"executing", "waiting"} =>
    copy[h].proposal.namespace \in Allowed[h]

\* A plan whose investigation had been overtaken by a later one when its
\* approval committed is never executed.
SupersededNeverExecutes == \A p \in superseded : ~Executed(p)

\* The final status agrees with the one receipt and with the cluster: success
\* means the pod was deleted, and an executed plan is never closed silently.
OutcomeMatchesReceipt ==
  \A p \in Plans :
    /\ StatusOf(p) = "succeeded" => kubectl[p] = "deleted"
    /\ Executed(p) /\ StatusOf(p) \in FinalStatuses =>
         \E r \in receipts : r.plan = p /\ r.status = StatusOf(p)

\* A decided plan is never written again, whatever unconditional update or late
\* decision is still on its way.
DecidedPlansAreFinal ==
  [][\A p \in Plans : StatusOf(p) \in FinalStatuses => plans'[p] = plans[p]]_vars

\* Every approval comes to an end unless its request is lost: the plan reaches a
\* final status.
ApprovalsConclude ==
  \A p \in Plans :
    StatusOf(p) = "approved" ~> StatusOf(p) \in FinalStatuses \/ p \in abandoned

\* "a completed diagnosis is required before remediation" (service.py:59).
ProposalNeedsCompletedDiagnosis ==
  \A p \in Plans : StatusOf(p) = "proposed" =>
    investigations[plans[p].investigation].diagnosis.status = "completed"

\* The plan life cycle that this service implements.
Lifecycle == INSTANCE PlanLifecycle WITH
  status <- [p \in Plans |-> StatusOf(p)],
  attempts <- attempts,
  deleted <- {p \in Plans : kubectl[p] = "deleted"},
  recorded <- {r.plan : r \in receipts}

ImplementsLifecycle == Lifecycle!LSpec
=============================================================================
