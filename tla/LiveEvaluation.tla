---------------------------- MODULE LiveEvaluation ----------------------------
(***************************************************************************)
(* The live evaluation: one experiment after the other, each followed by a *)
(* blind incident and an investigation of it over HTTP, and one report at  *)
(* the end.  It drives ExperimentController, whose steps it interleaves    *)
(* with its own, and gives up at the first error.                          *)
(***************************************************************************)
EXTENDS ExperimentController, Naturals

CONSTANT Trials         \* trials of the evaluation: the experiments are 1..Trials

ASSUME TrialsAssumption == Trials \in Nat \ {0} /\ Experiments = 1 .. Trials

VARIABLES
  trial,                \* ordinal of the running trial
  phase,                \* where run_live_evaluation is
  opened,               \* trials whose incident exists in RootLens
  scored,               \* trials that count for the report
  published             \* whether RootLens has the report

evalVars == <<trial, phase, opened, scored, published>>
liveVars == <<vars, evalVars>>

LiveInit ==
  /\ Init
  /\ trial = 1
  /\ phase = "running"
  /\ opened = {}
  /\ scored = {}
  /\ published = FALSE

\* controller.run of the current trial; no other run has been called or goes on.
RunTrial ==
  /\ phase = "running"
  /\ Plan(trial) \/ Proceed(trial)
  /\ UNCHANGED evalVars

Cluster == (\E e \in Experiments : Environment(e)) /\ UNCHANGED evalVars

\* Mutant: a run that ended is as good as one that returned.
EndedIsRecovered ==
  /\ phase = "running"
  /\ pc[trial] \in {"ended", "returned"}
  /\ phase' = "settled"
  /\ UNCHANGED <<vars, trial, opened, scored, published>>

\* The receipt is in: the evaluation waits for the telemetry to settle.
Recovered ==
  /\ phase = "running"
  /\ trial \in receipts
  /\ phase' = "settled"
  /\ UNCHANGED <<vars, trial, opened, scored, published>>

CreateBlindIncident ==
  /\ phase = "settled"
  /\ opened' = opened \cup {trial}
  /\ phase' = "opened"
  /\ UNCHANGED <<vars, trial, scored, published>>

\* RootLens returned a finished investigation, and the trial is scored.
InvestigateAndScore ==
  /\ phase = "opened"
  /\ scored' = scored \cup {trial}
  /\ IF trial < Trials THEN trial' = trial + 1 /\ phase' = "running"
     ELSE trial' = trial /\ phase' = "reporting"
  /\ UNCHANGED <<vars, opened, published>>

\* The report goes to RootLens only if the command line asks for it.
Publish ==
  /\ phase = "reporting"
  /\ published' \in BOOLEAN
  /\ phase' = "done"
  /\ UNCHANGED <<vars, trial, opened, scored>>

\* Mutant: a trial that fails is skipped.
SkipTrial ==
  /\ phase = "running" /\ pc[trial] = "ended"
  /\ IF trial < Trials THEN trial' = trial + 1 /\ phase' = "running"
     ELSE trial' = trial /\ phase' = "reporting"
  /\ UNCHANGED <<vars, opened, scored, published>>

\* run raised, or a request of the evaluation failed; a request that failed for
\* its caller may have been served.
GiveUp ==
  /\ \/ phase = "running" /\ pc[trial] = "ended" /\ UNCHANGED <<opened, published>>
     \/ phase = "settled" /\ opened' \in {opened, opened \cup {trial}}
                          /\ UNCHANGED published
     \/ phase = "opened" /\ UNCHANGED <<opened, published>>
     \/ phase = "reporting" /\ published' \in BOOLEAN /\ UNCHANGED opened
  /\ phase' = "aborted"
  /\ UNCHANGED <<vars, trial, scored>>

\* The whole process dies, the controller with it.
Die ==
  /\ phase \in {"running", "settled", "opened", "reporting"}
  /\ IF phase = "running" /\ pc[trial] # "returned" THEN Crash(trial)
     ELSE trial \in Mortal /\ UNCHANGED vars
  /\ phase' = "aborted"
  /\ UNCHANGED <<trial, opened, scored, published>>

LiveNext ==
  \/ RunTrial \/ Cluster \/ Recovered \/ CreateBlindIncident
  \/ InvestigateAndScore \/ Publish \/ GiveUp \/ Die

LiveSpec == LiveInit /\ [][LiveNext]_liveVars

\* What is fair of the running trial is fair here too.
LiveFairSpec ==
  LiveSpec /\ \A e \in Experiments :
    WF_liveVars(e = trial /\ phase = "running" /\ Proceed(e) /\ UNCHANGED evalVars)

---------------------------------------------------------------------------
(* Properties *)

\* The trials do not disturb one another: at most one fault is in the cluster
\* or can still get there, even after a failed trial or a lost kubectl.  And an
\* incident is blind: when it is opened its own fault is gone, and no later one
\* has begun or begins before the next trial.
OneFaultAtATime ==
  /\ \A d, e \in Experiments :
       /\ cluster[d] \in {"requested", "present", "deleting"}
       /\ cluster[e] \in {"requested", "present", "deleting"}
       => d = e
  /\ \A e \in opened : cluster[e] = "gone"
  /\ \A e \in Experiments : e > trial => cluster[e] = "absent"

\* What the report's notes promise: it was published only if every trial's
\* fault was injected and recovered, and every trial's investigation ended, within
\* its budget or not.
ReportIsComplete ==
  published =>
    /\ scored = Experiments
    /\ \A e \in Experiments : journal[e] = <<"planned", "applied", "recovered">>
=============================================================================
