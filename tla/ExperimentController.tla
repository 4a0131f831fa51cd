------------------------- MODULE ExperimentController -------------------------
(***************************************************************************)
(* The fault-injection controller: each experiment journals its plan,      *)
(* applies a Chaos Mesh resource with kubectl, waits for the injection,    *)
(* sleeps, and deletes the resource in a finally clause.  The cluster      *)
(* answers late or not at all, any await may be cancelled, the journal may *)
(* refuse an event, and the process may die between two steps.             *)
(***************************************************************************)
EXTENDS Sequences, SequencesExt

CONSTANTS
  Experiments,
  FailingJournals,      \* experiments whose journal may refuse an event
  Mortal                \* experiments whose process may be killed

ASSUME ControllerAssumption ==
  FailingJournals \subseteq Experiments /\ Mortal \subseteq Experiments

\* GroundTruthEventType; the two details of FAILED are told apart.
Events == {"planned", "applied", "failed", "cleanup_failed", "recovered"}

\* Life of an experiment's resource.  A manifest on its way ("requested") may
\* be admitted even after kubectl, or who waited for it, has given up.
ClusterStates == {"absent", "requested", "present", "deleting", "gone"}

VARIABLES
  journal,              \* the experiment's events, in order
  cluster,              \* its Chaos Mesh resource
  pc,                   \* where run is
  applied,              \* run's variable applied
  run_error,            \* whether run's variable run_error is set
  receipts              \* experiments whose receipt was returned

vars == <<journal, cluster, pc, applied, run_error, receipts>>

Logged(e, event) == Contains(journal[e], event)

---------------------------------------------------------------------------
(* Operations *)

Init ==
  /\ journal = [e \in Experiments |-> <<>>]
  /\ cluster = [e \in Experiments |-> "absent"]
  /\ pc = [e \in Experiments |-> "planning"]
  /\ applied = [e \in Experiments |-> FALSE]
  /\ run_error = [e \in Experiments |-> FALSE]
  /\ receipts = {}

Goto(e, label) == pc' = [pc EXCEPT ![e] = label]

SetCluster(e, state) == cluster' = [cluster EXCEPT ![e] = state]

WriteEvent(e, event) == journal' = [journal EXCEPT ![e] = Append(@, event)]

\* _record: the event is durable, or the append raises, perhaps once it is written.
Record(e, event, then, otherwise) ==
  \/ WriteEvent(e, event) /\ Goto(e, then)
  \/ /\ e \in FailingJournals
     /\ UNCHANGED journal \/ WriteEvent(e, event)
     /\ Goto(e, otherwise)

\* Mutant: the plan's record is best effort.
PlanBestEffort(e) ==
  /\ pc[e] = "planning"
  /\ Record(e, "planned", "targeting", "targeting")
  /\ UNCHANGED <<cluster, applied, run_error, receipts>>

Plan(e) ==
  /\ pc[e] = "planning"
  /\ Record(e, "planned", "targeting", "ended")
  /\ UNCHANGED <<cluster, applied, run_error, receipts>>

\* require_target found a pod, and apply hands the manifest to kubectl.
Apply(e) ==
  /\ pc[e] = "targeting"
  /\ SetCluster(e, "requested")
  /\ Goto(e, "applying")
  /\ UNCHANGED <<journal, applied, run_error, receipts>>

ApplyReturns(e) ==
  /\ pc[e] = "applying"
  /\ cluster[e] = "present"
  /\ applied' = [applied EXCEPT ![e] = TRUE]
  /\ Goto(e, "injecting")
  /\ UNCHANGED <<journal, cluster, run_error, receipts>>

\* wait_injected returns; a refused event is an error of the run like another.
Injected(e) ==
  /\ pc[e] = "injecting"
  /\ Record(e, "applied", "sleeping", "failing")
  /\ run_error' = [run_error EXCEPT ![e] = pc'[e] = "failing"]
  /\ UNCHANGED <<cluster, applied, receipts>>

\* An await of the try block raises: kubectl's error or timeout, cancellation.
Fails(e) ==
  /\ pc[e] \in {"targeting", "applying", "injecting", "sleeping"}
  /\ run_error' = [run_error EXCEPT ![e] = TRUE]
  /\ Goto(e, "failing")
  /\ UNCHANGED <<journal, cluster, applied, receipts>>

\* Mutant: the cleanup is after the failure's record, not in a finally clause.
RecordFailureFirst(e) ==
  /\ pc[e] = "failing"
  /\ LET next == IF applied[e] THEN "cleaning" ELSE "ended"
     IN Record(e, "failed", next, "ended")
  /\ UNCHANGED <<cluster, applied, run_error, receipts>>

RecordFailure(e) ==
  /\ pc[e] = "failing"
  /\ LET next == IF applied[e] THEN "cleaning" ELSE "ended"
     IN Record(e, "failed", next, next)
  /\ UNCHANGED <<cluster, applied, run_error, receipts>>

Slept(e) ==
  /\ pc[e] = "sleeping"
  /\ Goto(e, "cleaning")
  /\ UNCHANGED <<journal, cluster, applied, run_error, receipts>>

Resume(e) == Goto(e, IF run_error[e] THEN "ended" ELSE "recovering")

\* Mutant: kubectl delete without --wait.
DeletedWithoutWait(e) ==
  /\ pc[e] = "cleaning"
  /\ cluster[e] \in {"deleting", "gone"}
  /\ Resume(e)
  /\ UNCHANGED <<journal, cluster, applied, run_error, receipts>>

\* kubectl delete --wait returns: the resource is no more.
Deleted(e) ==
  /\ pc[e] = "cleaning"
  /\ cluster[e] = "gone"
  /\ Resume(e)
  /\ UNCHANGED <<journal, cluster, applied, run_error, receipts>>

\* Mutant: a failed cleanup is logged nowhere.
DeleteFailsSilently(e) ==
  /\ pc[e] = "cleaning"
  /\ Goto(e, "ended")
  /\ UNCHANGED <<journal, cluster, applied, run_error, receipts>>

\* delete raises, with the request accepted or not.  If run_error is set, the
\* first error is the one that propagates; either way run ends.
DeleteFails(e) ==
  /\ pc[e] = "cleaning"
  /\ Record(e, "cleanup_failed", "ended", "ended")
  /\ UNCHANGED <<cluster, applied, run_error, receipts>>

Recover(e) ==
  /\ pc[e] = "recovering"
  /\ Record(e, "recovered", "returned", "ended")
  /\ receipts' = IF pc'[e] = "returned" THEN receipts \cup {e} ELSE receipts
  /\ UNCHANGED <<cluster, applied, run_error>>

---------------------------------------------------------------------------
(* Environment *)

Admit(e) ==
  /\ cluster[e] = "requested"
  /\ SetCluster(e, "present")
  /\ UNCHANGED <<journal, pc, applied, run_error, receipts>>

\* Only the controller's kubectl deletes its resource; a request that it sent may
\* be accepted after run has given it up.
AcceptDelete(e) ==
  /\ pc[e] = "cleaning" \/ (pc[e] = "ended" /\ applied[e])
  /\ cluster[e] = "present"
  /\ SetCluster(e, "deleting")
  /\ UNCHANGED <<journal, pc, applied, run_error, receipts>>

\* Chaos Mesh has undone the fault and removed its finalizer.
Vanish(e) ==
  /\ cluster[e] = "deleting"
  /\ SetCluster(e, "gone")
  /\ UNCHANGED <<journal, pc, applied, run_error, receipts>>

Crash(e) ==
  /\ e \in Mortal
  /\ pc[e] \notin {"ended", "returned", "crashed"}
  /\ Goto(e, "crashed")
  /\ UNCHANGED <<journal, cluster, applied, run_error, receipts>>

Proceed(e) ==
  \/ Apply(e) \/ ApplyReturns(e) \/ Injected(e) \/ Fails(e)
  \/ RecordFailure(e) \/ Slept(e) \/ Deleted(e) \/ DeleteFails(e)
  \/ Recover(e)

Environment(e) == Admit(e) \/ AcceptDelete(e) \/ Vanish(e)

Next == \E e \in Experiments :
  Plan(e) \/ Proceed(e) \/ Environment(e) \/ Crash(e)

Spec == Init /\ [][Next]_vars

\* Every await after apply is bounded: the wait for the injection and the
\* deletion by kubectl's --timeout, the sleep by the experiment's duration.
FairSpec == Spec /\ \A e \in Experiments : WF_vars(Proceed(e))

---------------------------------------------------------------------------
(* Properties *)

\* Types of the whole state.
TypeOK ==
  /\ journal \in [Experiments -> Seq(Events)]
  /\ cluster \in [Experiments -> ClusterStates]
  /\ pc \in [Experiments ->
       {"planning", "targeting", "applying", "injecting", "sleeping", "failing",
        "cleaning", "recovering", "returned", "ended", "crashed"}]
  /\ applied \in [Experiments -> BOOLEAN]
  /\ run_error \in [Experiments -> BOOLEAN]
  /\ receipts \subseteq Experiments

\* No fault can be in the cluster, or on its way there, without its label in
\* the journal, whatever was cancelled, refused or killed in between.
FaultsAreLabelled ==
  \A e \in Experiments : cluster[e] # "absent" => Logged(e, "planned")

\* A recovered lifecycle, which evaluations count on, means what it says: the
\* fault was injected, nothing failed, and the resource is gone for good.
RecoveredIsClean ==
  \A e \in Experiments : Logged(e, "recovered") \/ e \in receipts =>
    /\ cluster[e] = "gone"
    /\ journal[e] = <<"planned", "applied", "recovered">>

\* A run that knows its manifest was accepted ends only through its cleanup,
\* whatever fails on the way, a journal that refuses events included.
CleanupIsUnavoidable ==
  [][\A e \in Experiments : applied[e] /\ pc'[e] \in {"ended", "returned"} =>
       pc[e] \in {"cleaning", "recovering", "ended", "returned"}]_vars

\* Where the journal works, a run that ends with a fault possibly in the cluster
\* says so there: nobody takes a leaked fault for a clean experiment.
LeaksAreLabelled ==
  \A e \in Experiments \ FailingJournals :
    /\ pc[e] = "ended"
    /\ cluster[e] \notin {"absent", "gone"}
    => Last(journal[e]) \in {"failed", "cleanup_failed"}

\* Once a manifest is known to be accepted, the fault ends or its cleanup is
\* reported as failed, if the process lives and the journal works.
FaultsEnd ==
  \A e \in Experiments \ (FailingJournals \cup Mortal) :
    applied[e] ~> cluster[e] = "gone" \/ Logged(e, "cleanup_failed")

\* The fail-safe lifecycle: the Chaos resource is deleted in a finally clause,
\* so a run that ended on its own left no fault it did not try to delete.  The
\* code only deletes after apply has returned.
FailSafe ==
  \A e \in Experiments : pc[e] \in {"ended", "returned"} =>
    \/ cluster[e] # "present"
    \/ Logged(e, "cleanup_failed")
=============================================================================
