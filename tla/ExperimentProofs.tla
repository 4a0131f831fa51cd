--------------------------- MODULE ExperimentProofs ---------------------------
(***************************************************************************)
(* Proofs about ExperimentController, for any set of experiments and for   *)
(* both settings of the two failure switches, and about LiveEvaluation,    *)
(* for any number of trials.  The labels, recoveries and leaks of an       *)
(* experiment are consequences of one inductive invariant that says, for   *)
(* each place run can be in, what journal, cluster and flags are.  The     *)
(* evaluation takes no step that the controller would not take, so that    *)
(* what is proved of the controller holds of its trials; that these do not *)
(* disturb one another follows from what the evaluation waits for: a       *)
(* receipt of each trial before the next.  The proofs about the controller *)
(* use no assumption of the evaluation's.                                  *)
(***************************************************************************)
EXTENDS LiveEvaluation, SequenceTheorems, TLAPS

Planned == <<"planned">>
Applied == <<"planned", "applied">>
RecoveredJournal == <<"planned", "applied", "recovered">>

---------------------------------------------------------------------------
(* The inductive invariant *)

\* Before the manifest is known to be accepted.
Before(e) ==
  /\ pc[e] = "planning" =>
       cluster[e] = "absent" /\ journal[e] = <<>> /\ ~applied[e] /\ ~run_error[e]
  /\ pc[e] = "targeting" =>
       cluster[e] = "absent" /\ journal[e] = Planned /\ ~applied[e] /\ ~run_error[e]
  /\ pc[e] = "applying" =>
       /\ cluster[e] \in {"requested", "present"}
       /\ journal[e] = Planned /\ ~applied[e] /\ ~run_error[e]

\* While the experiment goes well.
During(e) ==
  /\ pc[e] = "injecting" =>
       cluster[e] = "present" /\ journal[e] = Planned /\ applied[e] /\ ~run_error[e]
  /\ pc[e] = "sleeping" =>
       cluster[e] = "present" /\ journal[e] = Applied /\ applied[e] /\ ~run_error[e]

\* On the way out.
After(e) ==
  /\ pc[e] = "failing" =>
       /\ run_error[e]
       /\ applied[e] => cluster[e] = "present"
       /\ ~applied[e] => cluster[e] \in {"absent", "requested", "present"}
  /\ pc[e] = "cleaning" =>
       /\ applied[e]
       /\ cluster[e] \in {"present", "deleting", "gone"}
       /\ ~run_error[e] => journal[e] = Applied
       /\ run_error[e] /\ e \notin FailingJournals =>
            journal[e] # <<>> /\ Last(journal[e]) = "failed"
  /\ pc[e] = "recovering" => cluster[e] = "gone" /\ journal[e] = Applied
  /\ pc[e] = "returned" => cluster[e] = "gone" /\ journal[e] = RecoveredJournal

\* Where a recovery or a fault may be seen at all.
Traces(e) ==
  /\ Logged(e, "recovered") =>
       /\ pc[e] \in {"returned", "ended"}
       /\ cluster[e] = "gone" /\ journal[e] = RecoveredJournal
  /\ e \in receipts => pc[e] = "returned"
  /\ cluster[e] # "absent" => Logged(e, "planned")
  /\ pc[e] = "ended" /\ e \notin FailingJournals /\ cluster[e] \notin {"absent", "gone"} =>
       journal[e] # <<>> /\ Last(journal[e]) \in {"failed", "cleanup_failed"}

Consistent(e) == Before(e) /\ During(e) /\ After(e) /\ Traces(e)

IInv == TypeOK /\ \A e \in Experiments : Consistent(e)

---------------------------------------------------------------------------
(* Journals *)

\* Where an append puts its event.
LEMMA AppendAt ==
  ASSUME NEW s \in Seq(Events), NEW new \in Events
  PROVE  /\ Append(s, new) \in Seq(Events)
         /\ Len(Append(s, new)) = Len(s) + 1 /\ Len(s) \in Nat
         /\ \A i \in 1 .. Len(s) : Append(s, new)[i] = s[i]
         /\ Append(s, new)[Len(s) + 1] = new
  OBVIOUS

\* An append adds its event, as the last, and takes none away.
LEMMA AppendEvent ==
  ASSUME NEW s \in Seq(Events), NEW new \in Events
  PROVE  /\ Append(s, new) \in Seq(Events)
         /\ Append(s, new) # <<>>
         /\ Last(Append(s, new)) = new
         /\ \A event \in Events :
              Contains(Append(s, new), event) <=> Contains(s, event) \/ event = new
<1>1. /\ Append(s, new) \in Seq(Events)
      /\ Len(Append(s, new)) = Len(s) + 1 /\ Len(s) \in Nat
      /\ \A i \in 1 .. Len(s) : Append(s, new)[i] = s[i]
      /\ Append(s, new)[Len(s) + 1] = new
  BY AppendAt
<1>2. Append(s, new) # <<>>
  BY <1>1
<1>3. Last(Append(s, new)) = new
  BY <1>1 DEF Last
<1>4. ASSUME NEW event \in Events
      PROVE  Contains(Append(s, new), event) <=> Contains(s, event) \/ event = new
  <2>1. CASE Contains(Append(s, new), event)
    <3>1. PICK i \in 1 .. Len(s) + 1 : Append(s, new)[i] = event
      BY <1>1, <2>1 DEF Contains
    <3>2. i = Len(s) + 1 \/ i \in 1 .. Len(s)
      BY <1>1
    <3> QED
      BY <1>1, <2>1, <3>1, <3>2 DEF Contains
  <2>2. CASE event = new
    BY <1>1, <2>2 DEF Contains
  <2>3. CASE Contains(s, event)
    <3>1. PICK i \in 1 .. Len(s) : s[i] = event
      BY <2>3 DEF Contains
    <3>2. i \in 1 .. Len(s) + 1 /\ Append(s, new)[i] = event
      BY <1>1, <3>1
    <3> QED
      BY <1>1, <2>3, <3>2 DEF Contains
  <2> QED
    BY <2>1, <2>2, <2>3
<1> QED
  BY <1>1, <1>2, <1>3, <1>4

\* The journals of an experiment that goes well.
LEMMA GoodJournals ==
  /\ Append(<<>>, "planned") = Planned
  /\ Append(Planned, "applied") = Applied
  /\ Append(Applied, "recovered") = RecoveredJournal
<1>1. Append(<<>>, "planned") = Planned
  BY DEF Planned
<1>2. Append(Planned, "applied") = Applied
  <2>1. Planned \in Seq(Events) /\ Len(Planned) = 1 /\ Planned[1] = "planned"
    BY DEF Planned, Events
  <2>2. Applied \in Seq(Events) /\ Len(Applied) = 2
        /\ Applied[1] = "planned" /\ Applied[2] = "applied"
    BY DEF Applied, Events
  <2>3. Append(Planned, "applied") \in Seq(Events)
        /\ Len(Append(Planned, "applied")) = 2
        /\ Append(Planned, "applied")[1] = "planned"
        /\ Append(Planned, "applied")[2] = "applied"
    <3>1. "applied" \in Events /\ 1 \in 1 .. Len(Planned)
      BY <2>1 DEF Events
    <3>2. /\ Append(Planned, "applied") \in Seq(Events)
          /\ Len(Append(Planned, "applied")) = Len(Planned) + 1
          /\ Append(Planned, "applied")[1] = Planned[1]
          /\ Append(Planned, "applied")[Len(Planned) + 1] = "applied"
      BY <2>1, <3>1, AppendAt
    <3> QED
      BY <2>1, <3>2
  <2> QED
    BY <2>2, <2>3, SeqEqual
<1>3. Append(Applied, "recovered") = RecoveredJournal
  <2>1. Applied \in Seq(Events) /\ Len(Applied) = 2
        /\ Applied[1] = "planned" /\ Applied[2] = "applied"
    BY DEF Applied, Events
  <2>2. /\ RecoveredJournal \in Seq(Events) /\ Len(RecoveredJournal) = 3
        /\ RecoveredJournal[1] = "planned" /\ RecoveredJournal[2] = "applied"
        /\ RecoveredJournal[3] = "recovered"
    BY DEF RecoveredJournal, Events
  <2>3. Append(Applied, "recovered") \in Seq(Events)
        /\ Len(Append(Applied, "recovered")) = 3
        /\ Append(Applied, "recovered")[1] = "planned"
        /\ Append(Applied, "recovered")[2] = "applied"
        /\ Append(Applied, "recovered")[3] = "recovered"
    <3>1. "recovered" \in Events /\ 1 \in 1 .. Len(Applied) /\ 2 \in 1 .. Len(Applied)
      BY <2>1 DEF Events
    <3>2. /\ Append(Applied, "recovered") \in Seq(Events)
          /\ Len(Append(Applied, "recovered")) = Len(Applied) + 1
          /\ Append(Applied, "recovered")[1] = Applied[1]
          /\ Append(Applied, "recovered")[2] = Applied[2]
          /\ Append(Applied, "recovered")[Len(Applied) + 1] = "recovered"
      BY <2>1, <3>1, AppendAt
    <3> QED
      BY <2>1, <3>2
  <2> QED
    BY <2>2, <2>3, SeqEqual
<1> QED
  BY <1>1, <1>2, <1>3

\* What they contain.
LEMMA GoodEvents ==
  /\ \A event \in Events : ~Contains(<<>>, event)
  /\ Contains(Planned, "planned") /\ ~Contains(Planned, "recovered")
  /\ Contains(Applied, "planned") /\ ~Contains(Applied, "recovered")
<1>1. \A event \in Events : ~Contains(<<>>, event)
  BY DEF Contains
<1>2. Len(Planned) = 1 /\ Planned[1] = "planned"
  BY DEF Planned
<1>3. Len(Applied) = 2 /\ Applied[1] = "planned" /\ Applied[2] = "applied"
  BY DEF Applied
<1>4. Contains(Planned, "planned") /\ ~Contains(Planned, "recovered")
  BY <1>2 DEF Contains
<1>5. Contains(Applied, "planned")
  BY <1>3 DEF Contains
<1>6. \A i \in 1 .. 2 : Applied[i] # "recovered"
  <2>1. \A i \in 1 .. 2 : i = 1 \/ i = 2
    OBVIOUS
  <2> QED
    BY <1>3, <2>1
<1>7. ~Contains(Applied, "recovered")
  BY <1>3, <1>6 DEF Contains
<1> QED
  BY <1>1, <1>4, <1>5, <1>7

---------------------------------------------------------------------------
(* Steps *)

Labels ==
  {"planning", "targeting", "applying", "injecting", "sleeping", "failing",
   "cleaning", "recovering", "returned", "ended", "crashed"}

\* What an action of another experiment leaves alone.
Untouched(d) ==
  /\ journal'[d] = journal[d] /\ cluster'[d] = cluster[d] /\ pc'[d] = pc[d]
  /\ applied'[d] = applied[d] /\ run_error'[d] = run_error[d]
  /\ d \in receipts' <=> d \in receipts

LEMMA UntouchedIsConsistent ==
  ASSUME NEW d \in Experiments, Consistent(d), Untouched(d)
  PROVE  Consistent(d)'
  BY DEF Consistent, Before, During, After, Traces, Untouched, Logged

\* A step of one experiment keeps the invariant if it keeps the types, its own
\* part, and the others' state.
LEMMA OneStep ==
  ASSUME IInv, NEW e \in Experiments, TypeOK', Consistent(e)',
         \A d \in Experiments \ {e} : Untouched(d)
  PROVE  IInv'
<1>1. ASSUME NEW d \in Experiments \ {e} PROVE Consistent(d)'
  BY UntouchedIsConsistent DEF IInv
<1> QED
  BY <1>1 DEF IInv

\* Recording appends the event and goes on, or raises, with the event appended or
\* not, and goes elsewhere.
LEMMA RecordEffect ==
  ASSUME TypeOK, NEW e \in Experiments, NEW event \in Events,
         NEW then \in Labels, NEW otherwise \in Labels,
         Record(e, event, then, otherwise)
  PROVE  /\ journal' \in [Experiments -> Seq(Events)]
         /\ pc' \in [Experiments -> Labels]
         /\ \A d \in Experiments \ {e} : journal'[d] = journal[d] /\ pc'[d] = pc[d]
         /\ \/ /\ journal'[e] = Append(journal[e], event) /\ pc'[e] = then
               /\ journal'[e] # <<>> /\ Last(journal'[e]) = event
               /\ \A x \in Events : Logged(e, x)' <=> Logged(e, x) \/ x = event
            \/ /\ e \in FailingJournals /\ journal'[e] = journal[e] /\ pc'[e] = otherwise
               /\ \A x \in Events : Logged(e, x)' <=> Logged(e, x)
            \/ /\ e \in FailingJournals
               /\ journal'[e] = Append(journal[e], event) /\ pc'[e] = otherwise
               /\ journal'[e] # <<>> /\ Last(journal'[e]) = event
               /\ \A x \in Events : Logged(e, x)' <=> Logged(e, x) \/ x = event
<1> USE DEF TypeOK, Labels
<1>1. journal[e] \in Seq(Events)
  OBVIOUS
<1>2. ASSUME WriteEvent(e, event)
      PROVE  /\ journal' \in [Experiments -> Seq(Events)]
             /\ \A d \in Experiments \ {e} : journal'[d] = journal[d]
             /\ journal'[e] = Append(journal[e], event)
             /\ journal'[e] # <<>> /\ Last(journal'[e]) = event
             /\ \A x \in Events : Logged(e, x)' <=> Logged(e, x) \/ x = event
  <2>1. /\ journal'[e] = Append(journal[e], event)
        /\ \A d \in Experiments \ {e} : journal'[d] = journal[d]
    BY <1>2 DEF WriteEvent
  <2>2. /\ Append(journal[e], event) \in Seq(Events)
        /\ Append(journal[e], event) # <<>>
        /\ Last(Append(journal[e], event)) = event
        /\ \A x \in Events :
             Contains(Append(journal[e], event), x) <=> Contains(journal[e], x) \/ x = event
    BY <1>1, AppendEvent
  <2>3. \A x \in Events : Logged(e, x)' <=> Logged(e, x) \/ x = event
    BY <2>1, <2>2 DEF Logged
  <2>4. journal' \in [Experiments -> Seq(Events)]
    BY <1>2, <2>2 DEF WriteEvent
  <2> QED
    BY <2>1, <2>2, <2>3, <2>4
<1>3. ASSUME NEW label \in Labels, Goto(e, label)
      PROVE  /\ pc' \in [Experiments -> Labels] /\ pc'[e] = label
             /\ \A d \in Experiments \ {e} : pc'[d] = pc[d]
  BY <1>3 DEF Goto
<1>4. CASE WriteEvent(e, event) /\ Goto(e, then)
  BY <1>2, <1>3, <1>4
<1>5. CASE e \in FailingJournals /\ journal' = journal /\ Goto(e, otherwise)
  BY <1>3, <1>5 DEF Logged
<1>6. CASE e \in FailingJournals /\ WriteEvent(e, event) /\ Goto(e, otherwise)
  BY <1>2, <1>3, <1>6
<1> QED
  BY <1>4, <1>5, <1>6 DEF Record

\* Initially.
LEMMA InitInv == Init => IInv
<1> SUFFICES ASSUME Init PROVE IInv
  OBVIOUS
<1>1. TypeOK
  BY DEF Init, TypeOK, ClusterStates
<1>2. ASSUME NEW e \in Experiments PROVE Consistent(e)
  <2>1. ~Logged(e, "recovered")
    BY GoodEvents DEF Init, Logged, Events
  <2> QED
    BY <2>1 DEF Init, Consistent, Before, During, After, Traces
<1> QED
  BY <1>1, <1>2 DEF IInv

\* The plan is recorded before anything else happens.
LEMMA PlanStep ==
  ASSUME IInv, NEW e \in Experiments, Plan(e)
  PROVE  IInv'
<1> DEFINE then == "targeting"
           otherwise == "ended"
<1>1. "planned" \in Events /\ then \in Labels /\ otherwise \in Labels
  BY DEF Events, Labels
<1>2. TypeOK /\ Consistent(e)
  BY DEF IInv
<1>3. Record(e, "planned", then, otherwise)
  BY DEF Plan
<1> HIDE DEF then, otherwise
<1>4. /\ journal' \in [Experiments -> Seq(Events)]
      /\ pc' \in [Experiments -> Labels]
      /\ \A d \in Experiments \ {e} : journal'[d] = journal[d] /\ pc'[d] = pc[d]
      /\ \/ /\ journal'[e] = Append(journal[e], "planned") /\ pc'[e] = then
            /\ journal'[e] # <<>> /\ Last(journal'[e]) = "planned"
            /\ \A x \in Events : Logged(e, x)' <=> Logged(e, x) \/ x = "planned"
         \/ /\ e \in FailingJournals /\ journal'[e] = journal[e] /\ pc'[e] = otherwise
            /\ \A x \in Events : Logged(e, x)' <=> Logged(e, x)
         \/ /\ e \in FailingJournals
            /\ journal'[e] = Append(journal[e], "planned") /\ pc'[e] = otherwise
            /\ journal'[e] # <<>> /\ Last(journal'[e]) = "planned"
            /\ \A x \in Events : Logged(e, x)' <=> Logged(e, x) \/ x = "planned"
  BY <1>1, <1>2, <1>3, RecordEffect
<1>5. TypeOK'
  BY <1>2, <1>4 DEF Plan, TypeOK, Labels
<1>6. \A d \in Experiments \ {e} : Untouched(d)
  BY <1>2, <1>4 DEF Plan, Untouched, TypeOK
<1>7. Consistent(e)'
  <2>1. "planned" \in Events /\ "recovered" \in Events
    BY DEF Events
  <2>2. CASE /\ journal'[e] = Append(journal[e], "planned") /\ pc'[e] = then
             /\ journal'[e] # <<>> /\ Last(journal'[e]) = "planned"
             /\ \A x \in Events : Logged(e, x)' <=> Logged(e, x) \/ x = "planned"
    BY <1>2, <2>1, <2>2, GoodJournals DEF Plan, then, TypeOK, ClusterStates, Consistent, Before, During, After, Traces
  <2>3. CASE /\ e \in FailingJournals /\ journal'[e] = journal[e] /\ pc'[e] = otherwise
             /\ \A x \in Events : Logged(e, x)' <=> Logged(e, x)
    BY <1>2, <2>1, <2>3 DEF Plan, otherwise, TypeOK, ClusterStates, Consistent, Before, During, After, Traces
  <2>4. CASE /\ e \in FailingJournals
             /\ journal'[e] = Append(journal[e], "planned") /\ pc'[e] = otherwise
             /\ journal'[e] # <<>> /\ Last(journal'[e]) = "planned"
             /\ \A x \in Events : Logged(e, x)' <=> Logged(e, x) \/ x = "planned"
    BY <1>2, <2>1, <2>4, GoodJournals
    DEF Plan, otherwise, TypeOK, ClusterStates, Consistent, Before, During, After, Traces
  <2> QED
    BY <1>4, <2>2, <2>3, <2>4
<1> QED
  BY <1>5, <1>6, <1>7, OneStep

\* The injection is recorded, or its record fails.
LEMMA InjectedStep ==
  ASSUME IInv, NEW e \in Experiments, Injected(e)
  PROVE  IInv'
<1> DEFINE then == "sleeping"
           otherwise == "failing"
<1>1. "applied" \in Events /\ then \in Labels /\ otherwise \in Labels
  BY DEF Events, Labels
<1>2. TypeOK /\ Consistent(e)
  BY DEF IInv
<1>3. Record(e, "applied", then, otherwise)
  BY DEF Injected
<1> HIDE DEF then, otherwise
<1>4. /\ journal' \in [Experiments -> Seq(Events)]
      /\ pc' \in [Experiments -> Labels]
      /\ \A d \in Experiments \ {e} : journal'[d] = journal[d] /\ pc'[d] = pc[d]
      /\ \/ /\ journal'[e] = Append(journal[e], "applied") /\ pc'[e] = then
            /\ journal'[e] # <<>> /\ Last(journal'[e]) = "applied"
            /\ \A x \in Events : Logged(e, x)' <=> Logged(e, x) \/ x = "applied"
         \/ /\ e \in FailingJournals /\ journal'[e] = journal[e] /\ pc'[e] = otherwise
            /\ \A x \in Events : Logged(e, x)' <=> Logged(e, x)
         \/ /\ e \in FailingJournals
            /\ journal'[e] = Append(journal[e], "applied") /\ pc'[e] = otherwise
            /\ journal'[e] # <<>> /\ Last(journal'[e]) = "applied"
            /\ \A x \in Events : Logged(e, x)' <=> Logged(e, x) \/ x = "applied"
  BY <1>1, <1>2, <1>3, RecordEffect
<1>5. TypeOK'
  BY <1>2, <1>4 DEF Injected, TypeOK, Labels
<1>6. \A d \in Experiments \ {e} : Untouched(d)
  BY <1>2, <1>4 DEF Injected, Untouched, TypeOK
<1>7. Consistent(e)'
  <2>1. "planned" \in Events /\ "recovered" \in Events
    BY DEF Events
  <2>2. CASE /\ journal'[e] = Append(journal[e], "applied") /\ pc'[e] = then
             /\ journal'[e] # <<>> /\ Last(journal'[e]) = "applied"
             /\ \A x \in Events : Logged(e, x)' <=> Logged(e, x) \/ x = "applied"
    BY <1>2, <2>1, <2>2, GoodJournals DEF Injected, then, TypeOK, ClusterStates, Consistent, Before, During, After, Traces
  <2>3. CASE /\ e \in FailingJournals /\ journal'[e] = journal[e] /\ pc'[e] = otherwise
             /\ \A x \in Events : Logged(e, x)' <=> Logged(e, x)
    BY <1>2, <2>1, <2>3 DEF Injected, otherwise, TypeOK, ClusterStates, Consistent, Before, During, After, Traces
  <2>4. CASE /\ e \in FailingJournals
             /\ journal'[e] = Append(journal[e], "applied") /\ pc'[e] = otherwise
             /\ journal'[e] # <<>> /\ Last(journal'[e]) = "applied"
             /\ \A x \in Events : Logged(e, x)' <=> Logged(e, x) \/ x = "applied"
    BY <1>2, <2>1, <2>4, GoodJournals
    DEF Injected, otherwise, TypeOK, ClusterStates, Consistent, Before, During, After, Traces
  <2> QED
    BY <1>4, <2>2, <2>3, <2>4
<1> QED
  BY <1>5, <1>6, <1>7, OneStep

\* The failure is recorded if the journal allows it, and run goes on.
LEMMA RecordFailureStep ==
  ASSUME IInv, NEW e \in Experiments, RecordFailure(e)
  PROVE  IInv'
<1> DEFINE then == IF applied[e] THEN "cleaning" ELSE "ended"
           otherwise == IF applied[e] THEN "cleaning" ELSE "ended"
<1>1. "failed" \in Events /\ then \in Labels /\ otherwise \in Labels
  BY DEF Events, Labels
<1>2. TypeOK /\ Consistent(e)
  BY DEF IInv
<1>3. Record(e, "failed", then, otherwise)
  BY DEF RecordFailure
<1> HIDE DEF then, otherwise
<1>4. /\ journal' \in [Experiments -> Seq(Events)]
      /\ pc' \in [Experiments -> Labels]
      /\ \A d \in Experiments \ {e} : journal'[d] = journal[d] /\ pc'[d] = pc[d]
      /\ \/ /\ journal'[e] = Append(journal[e], "failed") /\ pc'[e] = then
            /\ journal'[e] # <<>> /\ Last(journal'[e]) = "failed"
            /\ \A x \in Events : Logged(e, x)' <=> Logged(e, x) \/ x = "failed"
         \/ /\ e \in FailingJournals /\ journal'[e] = journal[e] /\ pc'[e] = otherwise
            /\ \A x \in Events : Logged(e, x)' <=> Logged(e, x)
         \/ /\ e \in FailingJournals
            /\ journal'[e] = Append(journal[e], "failed") /\ pc'[e] = otherwise
            /\ journal'[e] # <<>> /\ Last(journal'[e]) = "failed"
            /\ \A x \in Events : Logged(e, x)' <=> Logged(e, x) \/ x = "failed"
  BY <1>1, <1>2, <1>3, RecordEffect
<1>5. TypeOK'
  BY <1>2, <1>4 DEF RecordFailure, TypeOK, Labels
<1>6. \A d \in Experiments \ {e} : Untouched(d)
  BY <1>2, <1>4 DEF RecordFailure, Untouched, TypeOK
<1>7. Consistent(e)'
  <2>1. "planned" \in Events /\ "recovered" \in Events
    BY DEF Events
  <2>2. CASE /\ journal'[e] = Append(journal[e], "failed") /\ pc'[e] = then
             /\ journal'[e] # <<>> /\ Last(journal'[e]) = "failed"
             /\ \A x \in Events : Logged(e, x)' <=> Logged(e, x) \/ x = "failed"
    BY <1>2, <2>1, <2>2, GoodJournals DEF RecordFailure, then, TypeOK, ClusterStates, Consistent, Before, During, After, Traces
  <2>3. CASE /\ e \in FailingJournals /\ journal'[e] = journal[e] /\ pc'[e] = otherwise
             /\ \A x \in Events : Logged(e, x)' <=> Logged(e, x)
    BY <1>2, <2>1, <2>3 DEF RecordFailure, otherwise, TypeOK, ClusterStates, Consistent, Before, During, After, Traces
  <2>4. CASE /\ e \in FailingJournals
             /\ journal'[e] = Append(journal[e], "failed") /\ pc'[e] = otherwise
             /\ journal'[e] # <<>> /\ Last(journal'[e]) = "failed"
             /\ \A x \in Events : Logged(e, x)' <=> Logged(e, x) \/ x = "failed"
    BY <1>2, <2>1, <2>4, GoodJournals
    DEF RecordFailure, otherwise, TypeOK, ClusterStates, Consistent, Before, During, After, Traces
  <2> QED
    BY <1>4, <2>2, <2>3, <2>4
<1> QED
  BY <1>5, <1>6, <1>7, OneStep

\* A failed cleanup ends the run.
LEMMA DeleteFailsStep ==
  ASSUME IInv, NEW e \in Experiments, DeleteFails(e)
  PROVE  IInv'
<1> DEFINE then == "ended"
           otherwise == "ended"
<1>1. "cleanup_failed" \in Events /\ then \in Labels /\ otherwise \in Labels
  BY DEF Events, Labels
<1>2. TypeOK /\ Consistent(e)
  BY DEF IInv
<1>3. Record(e, "cleanup_failed", then, otherwise)
  BY DEF DeleteFails
<1> HIDE DEF then, otherwise
<1>4. /\ journal' \in [Experiments -> Seq(Events)]
      /\ pc' \in [Experiments -> Labels]
      /\ \A d \in Experiments \ {e} : journal'[d] = journal[d] /\ pc'[d] = pc[d]
      /\ \/ /\ journal'[e] = Append(journal[e], "cleanup_failed") /\ pc'[e] = then
            /\ journal'[e] # <<>> /\ Last(journal'[e]) = "cleanup_failed"
            /\ \A x \in Events : Logged(e, x)' <=> Logged(e, x) \/ x = "cleanup_failed"
         \/ /\ e \in FailingJournals /\ journal'[e] = journal[e] /\ pc'[e] = otherwise
            /\ \A x \in Events : Logged(e, x)' <=> Logged(e, x)
         \/ /\ e \in FailingJournals
            /\ journal'[e] = Append(journal[e], "cleanup_failed") /\ pc'[e] = otherwise
            /\ journal'[e] # <<>> /\ Last(journal'[e]) = "cleanup_failed"
            /\ \A x \in Events : Logged(e, x)' <=> Logged(e, x) \/ x = "cleanup_failed"
  BY <1>1, <1>2, <1>3, RecordEffect
<1>5. TypeOK'
  BY <1>2, <1>4 DEF DeleteFails, TypeOK, Labels
<1>6. \A d \in Experiments \ {e} : Untouched(d)
  BY <1>2, <1>4 DEF DeleteFails, Untouched, TypeOK
<1>7. Consistent(e)'
  <2>1. "planned" \in Events /\ "recovered" \in Events
    BY DEF Events
  <2>2. CASE /\ journal'[e] = Append(journal[e], "cleanup_failed") /\ pc'[e] = then
             /\ journal'[e] # <<>> /\ Last(journal'[e]) = "cleanup_failed"
             /\ \A x \in Events : Logged(e, x)' <=> Logged(e, x) \/ x = "cleanup_failed"
    BY <1>2, <2>1, <2>2, GoodJournals DEF DeleteFails, then, TypeOK, ClusterStates, Consistent, Before, During, After, Traces
  <2>3. CASE /\ e \in FailingJournals /\ journal'[e] = journal[e] /\ pc'[e] = otherwise
             /\ \A x \in Events : Logged(e, x)' <=> Logged(e, x)
    BY <1>2, <2>1, <2>3 DEF DeleteFails, otherwise, TypeOK, ClusterStates, Consistent, Before, During, After, Traces
  <2>4. CASE /\ e \in FailingJournals
             /\ journal'[e] = Append(journal[e], "cleanup_failed") /\ pc'[e] = otherwise
             /\ journal'[e] # <<>> /\ Last(journal'[e]) = "cleanup_failed"
             /\ \A x \in Events : Logged(e, x)' <=> Logged(e, x) \/ x = "cleanup_failed"
    BY <1>2, <2>1, <2>4, GoodJournals
    DEF DeleteFails, otherwise, TypeOK, ClusterStates, Consistent, Before, During, After, Traces
  <2> QED
    BY <1>4, <2>2, <2>3, <2>4
<1> QED
  BY <1>5, <1>6, <1>7, OneStep

\* The recovery is the third and last event of a good journal.
LEMMA RecoverStep ==
  ASSUME IInv, NEW e \in Experiments, Recover(e)
  PROVE  IInv'
<1> DEFINE then == "returned"
           otherwise == "ended"
<1>1. "recovered" \in Events /\ then \in Labels /\ otherwise \in Labels
  BY DEF Events, Labels
<1>2. TypeOK /\ Consistent(e)
  BY DEF IInv
<1>3. Record(e, "recovered", then, otherwise)
  BY DEF Recover
<1> HIDE DEF then, otherwise
<1>4. /\ journal' \in [Experiments -> Seq(Events)]
      /\ pc' \in [Experiments -> Labels]
      /\ \A d \in Experiments \ {e} : journal'[d] = journal[d] /\ pc'[d] = pc[d]
      /\ \/ /\ journal'[e] = Append(journal[e], "recovered") /\ pc'[e] = then
            /\ journal'[e] # <<>> /\ Last(journal'[e]) = "recovered"
            /\ \A x \in Events : Logged(e, x)' <=> Logged(e, x) \/ x = "recovered"
         \/ /\ e \in FailingJournals /\ journal'[e] = journal[e] /\ pc'[e] = otherwise
            /\ \A x \in Events : Logged(e, x)' <=> Logged(e, x)
         \/ /\ e \in FailingJournals
            /\ journal'[e] = Append(journal[e], "recovered") /\ pc'[e] = otherwise
            /\ journal'[e] # <<>> /\ Last(journal'[e]) = "recovered"
            /\ \A x \in Events : Logged(e, x)' <=> Logged(e, x) \/ x = "recovered"
  BY <1>1, <1>2, <1>3, RecordEffect
<1>5. TypeOK'
  BY <1>2, <1>4 DEF Recover, TypeOK, Labels
<1>6. \A d \in Experiments \ {e} : Untouched(d)
  BY <1>2, <1>4 DEF Recover, Untouched, TypeOK
<1>7. Consistent(e)'
  <2>1. "planned" \in Events /\ "recovered" \in Events
    BY DEF Events
  <2>2. CASE /\ journal'[e] = Append(journal[e], "recovered") /\ pc'[e] = then
             /\ journal'[e] # <<>> /\ Last(journal'[e]) = "recovered"
             /\ \A x \in Events : Logged(e, x)' <=> Logged(e, x) \/ x = "recovered"
    BY <1>2, <2>1, <2>2, GoodJournals DEF Recover, then, TypeOK, ClusterStates, Consistent, Before, During, After, Traces
  <2>3. CASE /\ e \in FailingJournals /\ journal'[e] = journal[e] /\ pc'[e] = otherwise
             /\ \A x \in Events : Logged(e, x)' <=> Logged(e, x)
    BY <1>2, <2>1, <2>3 DEF Recover, otherwise, TypeOK, ClusterStates, Consistent, Before, During, After, Traces
  <2>4. CASE /\ e \in FailingJournals
             /\ journal'[e] = Append(journal[e], "recovered") /\ pc'[e] = otherwise
             /\ journal'[e] # <<>> /\ Last(journal'[e]) = "recovered"
             /\ \A x \in Events : Logged(e, x)' <=> Logged(e, x) \/ x = "recovered"
    BY <1>2, <2>1, <2>4, GoodJournals
    DEF Recover, otherwise, TypeOK, ClusterStates, Consistent, Before, During, After, Traces
  <2> QED
    BY <1>4, <2>2, <2>3, <2>4
<1> QED
  BY <1>5, <1>6, <1>7, OneStep

LEMMA ApplyStep ==
  ASSUME IInv, NEW e \in Experiments, Apply(e)
  PROVE  IInv'
<1> USE DEF Apply, Goto, SetCluster
<1>1. TypeOK /\ Consistent(e)
  BY DEF IInv
<1>2. TypeOK'
  BY <1>1 DEF TypeOK, ClusterStates
<1>3. \A d \in Experiments \ {e} : Untouched(d)
  BY <1>1 DEF Untouched, TypeOK
<1>4. Consistent(e)'
  BY <1>1, GoodEvents DEF TypeOK, Logged, Consistent, Before, During, After, Traces
<1> QED
  BY <1>2, <1>3, <1>4, OneStep

LEMMA ApplyReturnsStep ==
  ASSUME IInv, NEW e \in Experiments, ApplyReturns(e)
  PROVE  IInv'
<1> USE DEF ApplyReturns, Goto, SetCluster
<1>1. TypeOK /\ Consistent(e)
  BY DEF IInv
<1>2. TypeOK'
  BY <1>1 DEF TypeOK, ClusterStates
<1>3. \A d \in Experiments \ {e} : Untouched(d)
  BY <1>1 DEF Untouched, TypeOK
<1>4. Consistent(e)'
  BY <1>1, GoodEvents DEF TypeOK, Logged, Consistent, Before, During, After, Traces
<1> QED
  BY <1>2, <1>3, <1>4, OneStep

LEMMA FailsStep ==
  ASSUME IInv, NEW e \in Experiments, Fails(e)
  PROVE  IInv'
<1> USE DEF Fails, Goto, SetCluster
<1>1. TypeOK /\ Consistent(e)
  BY DEF IInv
<1>2. TypeOK'
  BY <1>1 DEF TypeOK, ClusterStates
<1>3. \A d \in Experiments \ {e} : Untouched(d)
  BY <1>1 DEF Untouched, TypeOK
<1>4. Consistent(e)'
  BY <1>1, GoodEvents DEF TypeOK, Logged, Consistent, Before, During, After, Traces
<1> QED
  BY <1>2, <1>3, <1>4, OneStep

LEMMA SleptStep ==
  ASSUME IInv, NEW e \in Experiments, Slept(e)
  PROVE  IInv'
<1> USE DEF Slept, Goto, SetCluster
<1>1. TypeOK /\ Consistent(e)
  BY DEF IInv
<1>2. TypeOK'
  BY <1>1 DEF TypeOK, ClusterStates
<1>3. \A d \in Experiments \ {e} : Untouched(d)
  BY <1>1 DEF Untouched, TypeOK
<1>4. Consistent(e)'
  BY <1>1, GoodEvents DEF TypeOK, Logged, Consistent, Before, During, After, Traces
<1> QED
  BY <1>2, <1>3, <1>4, OneStep

LEMMA DeletedStep ==
  ASSUME IInv, NEW e \in Experiments, Deleted(e)
  PROVE  IInv'
<1> USE DEF Deleted, Resume, Goto
<1>1. TypeOK /\ Consistent(e)
  BY DEF IInv
<1>2. TypeOK'
  BY <1>1 DEF TypeOK, ClusterStates
<1>3. \A d \in Experiments \ {e} : Untouched(d)
  BY <1>1 DEF Untouched, TypeOK
<1>4. Consistent(e)'
  BY <1>1, GoodEvents DEF TypeOK, Logged, Consistent, Before, During, After, Traces
<1> QED
  BY <1>2, <1>3, <1>4, OneStep

LEMMA AdmitStep ==
  ASSUME IInv, NEW e \in Experiments, Admit(e)
  PROVE  IInv'
<1> USE DEF Admit, Goto, SetCluster
<1>1. TypeOK /\ Consistent(e)
  BY DEF IInv
<1>2. TypeOK'
  BY <1>1 DEF TypeOK, ClusterStates
<1>3. \A d \in Experiments \ {e} : Untouched(d)
  BY <1>1 DEF Untouched, TypeOK
<1>4. Consistent(e)'
  BY <1>1, GoodEvents DEF TypeOK, Logged, Consistent, Before, During, After, Traces
<1> QED
  BY <1>2, <1>3, <1>4, OneStep

LEMMA AcceptDeleteStep ==
  ASSUME IInv, NEW e \in Experiments, AcceptDelete(e)
  PROVE  IInv'
<1> USE DEF AcceptDelete, Goto, SetCluster
<1>1. TypeOK /\ Consistent(e)
  BY DEF IInv
<1>2. TypeOK'
  BY <1>1 DEF TypeOK, ClusterStates
<1>3. \A d \in Experiments \ {e} : Untouched(d)
  BY <1>1 DEF Untouched, TypeOK
<1>4. Consistent(e)'
  BY <1>1, GoodEvents DEF TypeOK, Logged, Consistent, Before, During, After, Traces
<1> QED
  BY <1>2, <1>3, <1>4, OneStep

LEMMA VanishStep ==
  ASSUME IInv, NEW e \in Experiments, Vanish(e)
  PROVE  IInv'
<1> USE DEF Vanish, Goto, SetCluster
<1>1. TypeOK /\ Consistent(e)
  BY DEF IInv
<1>2. TypeOK'
  BY <1>1 DEF TypeOK, ClusterStates
<1>3. \A d \in Experiments \ {e} : Untouched(d)
  BY <1>1 DEF Untouched, TypeOK
<1>4. Consistent(e)'
  BY <1>1, GoodEvents DEF TypeOK, Logged, Consistent, Before, During, After, Traces
<1> QED
  BY <1>2, <1>3, <1>4, OneStep

LEMMA CrashStep ==
  ASSUME IInv, NEW e \in Experiments, Crash(e)
  PROVE  IInv'
<1> USE DEF Crash, Goto, SetCluster
<1>1. TypeOK /\ Consistent(e)
  BY DEF IInv
<1>2. TypeOK'
  BY <1>1 DEF TypeOK, ClusterStates
<1>3. \A d \in Experiments \ {e} : Untouched(d)
  BY <1>1 DEF Untouched, TypeOK
<1>4. Consistent(e)'
  BY <1>1, GoodEvents DEF TypeOK, Logged, Consistent, Before, During, After, Traces
<1> QED
  BY <1>2, <1>3, <1>4, OneStep

\* Every step keeps the invariant.
LEMMA Step == IInv /\ [Next]_vars => IInv'
<1> SUFFICES ASSUME IInv, [Next]_vars PROVE IInv'
  OBVIOUS
<1>1. CASE UNCHANGED vars
  BY <1>1 DEF IInv, vars, TypeOK, Consistent, Before, During, After, Traces, Logged
<1>2. CASE Next
  <2>1. PICK e \in Experiments :
          Plan(e) \/ Proceed(e) \/ Environment(e) \/ Crash(e)
    BY <1>2 DEF Next
  <2>2. CASE Plan(e)
    BY <2>2, PlanStep
  <2>3. CASE Proceed(e)
    BY <2>3, ApplyStep, ApplyReturnsStep, InjectedStep, FailsStep,
       RecordFailureStep, SleptStep, DeletedStep, DeleteFailsStep, RecoverStep
       DEF Proceed
  <2>4. CASE Environment(e)
    BY <2>4, AdmitStep, AcceptDeleteStep, VanishStep DEF Environment
  <2>5. CASE Crash(e)
    BY <2>5, CrashStep
  <2> QED
    BY <2>1, <2>2, <2>3, <2>4, <2>5
<1> QED
  BY <1>1, <1>2

\* The invariant holds in every reachable state.
THEOREM Invariance == Spec => []IInv
<1> QED
  BY InitInv, Step, PTL DEF Spec

---------------------------------------------------------------------------
(* What follows *)

\* Every variable keeps its type.
THEOREM TypeCorrect == Spec => []TypeOK
<1>1. IInv => TypeOK
  BY DEF IInv
<1> QED
  BY <1>1, Invariance, PTL

\* A fault in the cluster, or on its way there, always has its plan in the
\* journal: for any number of experiments, cancellations and crashes.
THEOREM LabelledFaults == Spec => []FaultsAreLabelled
<1>1. IInv => FaultsAreLabelled
  BY DEF IInv, Consistent, Traces, FaultsAreLabelled
<1> QED
  BY <1>1, Invariance, PTL

\* A recovered lifecycle, journaled or returned, is an injected fault that is
\* gone, with nothing failed in between.
THEOREM CleanRecoveries == Spec => []RecoveredIsClean
<1>1. IInv => RecoveredIsClean
  BY DEF IInv, Consistent, Traces, After, RecoveredIsClean, RecoveredJournal
<1> QED
  BY <1>1, Invariance, PTL

\* Where the journal works, a run that may leave a fault behind says so last.
THEOREM LabelledLeaks == Spec => []LeaksAreLabelled
<1>1. IInv => LeaksAreLabelled
  BY DEF IInv, Consistent, Traces, LeaksAreLabelled
<1> QED
  BY <1>1, Invariance, PTL

\* A run that knows its manifest was accepted ends only through its cleanup.
THEOREM UnavoidableCleanup == Spec => CleanupIsUnavoidable
<1> DEFINE Ends ==
      \A e \in Experiments : applied[e] /\ pc'[e] \in {"ended", "returned"} =>
        pc[e] \in {"cleaning", "recovering", "ended", "returned"}
<1>1. IInv /\ [Next]_vars => [Ends]_vars
  <2> SUFFICES ASSUME IInv, Next, NEW d \in Experiments, applied[d],
                      pc'[d] \in {"ended", "returned"}
               PROVE  pc[d] \in {"cleaning", "recovering", "ended", "returned"}
    OBVIOUS
  <2>1. PICK e \in Experiments :
          Plan(e) \/ Proceed(e) \/ Environment(e) \/ Crash(e)
    BY DEF Next
  <2>2. TypeOK /\ Consistent(d)
    BY DEF IInv
  <2>3. CASE d # e
    <3>1. pc'[d] = pc[d]
      BY <2>1, <2>2, <2>3 DEF TypeOK, Plan, Proceed, Environment, Crash, Apply,
         ApplyReturns, Injected, Fails, RecordFailure, Slept, Deleted, Resume,
         DeleteFails, Recover, Record, Goto, Admit, AcceptDelete, Vanish
    <3> QED
      BY <3>1
  <2>4. CASE d = e
    <3>1. CASE Plan(e) \/ Crash(e) \/ Environment(e)
      BY <2>2, <2>4, <3>1 DEF TypeOK, Consistent, Before, Plan, Record, Goto,
         Crash, Environment, Admit, AcceptDelete, Vanish
    <3>2. CASE Proceed(e)
      BY <2>2, <2>4, <3>2 DEF TypeOK, Proceed, Apply, ApplyReturns, Injected,
         Fails, RecordFailure, Slept, Deleted, Resume, DeleteFails, Recover,
         Record, Goto
    <3> QED
      BY <2>1, <3>1, <3>2
  <2> QED
    BY <2>3, <2>4
<1> QED
  BY <1>1, Invariance, PTL DEF Spec, CleanupIsUnavoidable

---------------------------------------------------------------------------
(* The evaluation: its inductive invariant *)

Phases == {"running", "settled", "opened", "reporting", "done", "aborted"}

EvalTypeOK ==
  /\ trial \in Experiments
  /\ phase \in Phases
  /\ opened \subseteq Experiments
  /\ scored \subseteq Experiments
  /\ published \in BOOLEAN

\* How far the evaluation has come: trials are over, running, or not begun.
Sequential ==
  /\ \A e \in Experiments : e < trial => e \in receipts /\ e \in scored
  /\ \A e \in Experiments : e > trial => pc[e] = "planning"
  /\ phase \in {"settled", "opened", "reporting", "done"} => trial \in receipts
  /\ phase \in {"reporting", "done"} => trial = Trials /\ trial \in scored
  /\ opened \subseteq receipts
  /\ published => scored = Experiments /\ Experiments \subseteq receipts

LiveInv == IInv /\ EvalTypeOK /\ Sequential

---------------------------------------------------------------------------
(* Steps of the controller *)

\* A step of one experiment takes no receipt back, and leaves the place of the
\* others, and the environment every place.
LEMMA StepsOfOthers ==
  ASSUME TypeOK, NEW e \in Experiments,
         Plan(e) \/ Proceed(e) \/ Environment(e) \/ Crash(e)
  PROVE  /\ receipts \subseteq receipts'
         /\ \A d \in Experiments \ {e} : pc'[d] = pc[d]
         /\ Environment(e) => pc' = pc
  BY DEF TypeOK, Plan, Proceed, Environment, Crash, Apply, ApplyReturns, Injected,
     Fails, RecordFailure, Slept, Deleted, Resume, DeleteFails, Recover, Record,
     Goto, Admit, AcceptDelete, Vanish

\* The evaluation's steps are steps of the running trial, of the cluster, or none
\* of the controller's.
LEMMA LiveStepIsStep ==
  ASSUME EvalTypeOK, [LiveNext]_liveVars
  PROVE  [Next]_vars
<1>1. CASE RunTrial
  BY <1>1 DEF RunTrial, Next, EvalTypeOK
<1>2. CASE Cluster
  BY <1>2 DEF Cluster, Next
<1>3. CASE Die
  BY <1>3 DEF Die, Next, EvalTypeOK
<1>4. CASE Recovered \/ CreateBlindIncident \/ InvestigateAndScore \/ Publish \/ GiveUp
  BY <1>4 DEF Recovered, CreateBlindIncident, InvestigateAndScore, Publish, GiveUp
<1>5. CASE UNCHANGED liveVars
  BY <1>5 DEF liveVars
<1> QED
  BY <1>1, <1>2, <1>3, <1>4, <1>5 DEF LiveNext

---------------------------------------------------------------------------
(* Steps of the evaluation *)

\* Whatever the controller does in a step of the running trial, of the cluster or
\* of a dying process, the evaluation's place stays what it is.
LEMMA ControllerStep ==
  ASSUME LiveInv, NEW e \in Experiments, IInv',
         Plan(e) \/ Proceed(e) \/ Environment(e) \/ Crash(e),
         e = trial \/ Environment(e),
         UNCHANGED <<trial, opened, scored, published>>,
         phase' = phase \/ phase' = "aborted"
  PROVE  LiveInv'
<1>1. /\ receipts \subseteq receipts'
      /\ \A d \in Experiments \ {e} : pc'[d] = pc[d]
      /\ Environment(e) => pc' = pc
  BY StepsOfOthers DEF LiveInv, IInv
<1>2. EvalTypeOK'
  BY DEF LiveInv, EvalTypeOK, Phases
<1>3. \A d \in Experiments : d > trial => pc'[d] = "planning"
  <2> SUFFICES ASSUME NEW d \in Experiments, d > trial PROVE pc'[d] = "planning"
    OBVIOUS
  <2>1. pc[d] = "planning"
    BY DEF LiveInv, Sequential
  <2>2. d # trial
    BY TrialsAssumption DEF LiveInv, EvalTypeOK
  <2> QED
    BY <1>1, <2>1, <2>2
<1>4. /\ \A d \in Experiments : d < trial' => d \in receipts' /\ d \in scored'
      /\ phase' \in {"settled", "opened", "reporting", "done"} => trial' \in receipts'
      /\ phase' \in {"reporting", "done"} => trial' = Trials /\ trial' \in scored'
  BY <1>1 DEF LiveInv, Sequential
<1>5. /\ opened' \subseteq receipts'
      /\ published' => scored' = Experiments /\ Experiments \subseteq receipts'
  BY <1>1 DEF LiveInv, Sequential
<1>6. Sequential'
  BY <1>3, <1>4, <1>5 DEF Sequential
<1> QED
  BY <1>2, <1>6 DEF LiveInv

LEMMA LiveInitInv == LiveInit => LiveInv
<1> SUFFICES ASSUME LiveInit PROVE LiveInv
  OBVIOUS
<1>1. IInv
  BY InitInv DEF LiveInit
<1>2. EvalTypeOK
  <2>1. trial \in Experiments
    BY TrialsAssumption DEF LiveInit
  <2>2. published \in BOOLEAN /\ opened = {} /\ scored = {} /\ phase = "running"
    BY DEF LiveInit
  <2> QED
    BY <2>1, <2>2 DEF EvalTypeOK, Phases
<1>3. Sequential
  BY TrialsAssumption DEF LiveInit, Init, Sequential
<1> QED
  BY <1>1, <1>2, <1>3 DEF LiveInv

LEMMA LiveStep == LiveInv /\ [LiveNext]_liveVars => LiveInv'
<1> SUFFICES ASSUME LiveInv, [LiveNext]_liveVars PROVE LiveInv'
  OBVIOUS
<1>1. IInv'
  BY LiveStepIsStep, Step DEF LiveInv
<1> USE DEF EvalTypeOK, Sequential, Phases
<1>2. CASE RunTrial
  BY <1>1, <1>2, ControllerStep DEF RunTrial, evalVars, LiveInv
<1>3. CASE Cluster
  <2>1. PICK e \in Experiments : Environment(e)
    BY <1>3 DEF Cluster
  <2> QED
    BY <1>1, <1>3, <2>1, ControllerStep DEF Cluster, evalVars
<1>4. CASE Die
  <2>1. CASE Crash(trial)
    BY <1>1, <1>4, <2>1, ControllerStep DEF Die, LiveInv
  <2>2. CASE UNCHANGED vars
    BY <1>1, <1>4, <2>2 DEF Die, vars, LiveInv
  <2> QED
    BY <1>4, <2>1, <2>2 DEF Die
<1>5. CASE Recovered
  BY <1>1, <1>5 DEF Recovered, vars, LiveInv
<1>6. CASE CreateBlindIncident
  BY <1>1, <1>6 DEF CreateBlindIncident, vars, LiveInv
<1>7. CASE InvestigateAndScore
  <2>1. CASE trial < Trials
    <3>1. trial + 1 \in Experiments /\ trial' = trial + 1
      BY <1>7, <2>1, TrialsAssumption DEF InvestigateAndScore, LiveInv
    <3>2. \A e \in Experiments : e < trial' => e < trial \/ e = trial
      BY <3>1, TrialsAssumption DEF LiveInv
    <3>3. \A e \in Experiments : e > trial' => e > trial
      BY <3>1, TrialsAssumption DEF LiveInv
    <3>4. UNCHANGED <<vars, opened, published>> /\ phase' = "running"
          /\ scored' = scored \cup {trial} /\ phase = "opened"
      BY <1>7, <2>1 DEF InvestigateAndScore
    <3>5. EvalTypeOK'
      BY <3>1, <3>4 DEF LiveInv
    <3>6. receipts' = receipts /\ pc' = pc
      BY <3>4 DEF vars
    <3>7. Sequential'
      BY <3>2, <3>3, <3>4, <3>5, <3>6 DEF LiveInv
    <3> QED
      BY <1>1, <3>5, <3>7 DEF LiveInv
  <2>2. CASE ~(trial < Trials)
    <3>1. trial = Trials
      BY <2>2, TrialsAssumption DEF LiveInv
    <3> QED
      BY <1>1, <1>7, <2>2, <3>1 DEF InvestigateAndScore, vars, LiveInv
  <2> QED
    BY <2>1, <2>2
<1>8. ASSUME phase \in {"reporting", "done"}
      PROVE  scored = Experiments /\ Experiments \subseteq receipts
  <2>1. \A e \in Experiments : e < trial \/ e = trial
    BY <1>8, TrialsAssumption DEF LiveInv
  <2> QED
    BY <1>8, <2>1 DEF LiveInv
<1>9. CASE Publish
  BY <1>1, <1>8, <1>9 DEF Publish, vars, LiveInv
<1>10. CASE GiveUp
  BY <1>1, <1>8, <1>10 DEF GiveUp, vars, LiveInv
<1>11. CASE UNCHANGED liveVars
  BY <1>1, <1>11 DEF liveVars, evalVars, vars, LiveInv
<1> QED
  BY <1>2, <1>3, <1>4, <1>5, <1>6, <1>7, <1>9, <1>10, <1>11 DEF LiveNext

\* The invariant holds in every reachable state of the evaluation.
LEMMA LiveInvariance == LiveSpec => []LiveInv
  BY LiveInitInv, LiveStep, PTL DEF LiveSpec

---------------------------------------------------------------------------
(* What follows *)

\* The evaluation (run_live_evaluation) uses the controller as anybody may: its
\* behaviours are behaviours of ExperimentController, whose theorems therefore hold
\* of every trial.
THEOREM TrialsAreExperiments == LiveSpec => Spec
<1>1. LiveInit => Init
  BY DEF LiveInit
<1>2. LiveInv /\ [LiveNext]_liveVars => [Next]_vars
  BY LiveStepIsStep DEF LiveInv
<1> QED
  BY <1>1, <1>2, LiveInvariance, PTL DEF LiveSpec, Spec

\* At most one fault is in the cluster or on its way, incidents open when their
\* own fault is gone, and later trials have not begun.
THEOREM SeparateTrials == LiveSpec => []OneFaultAtATime
<1>1. LiveInv => OneFaultAtATime
  <2> SUFFICES ASSUME LiveInv PROVE OneFaultAtATime
    OBVIOUS
  <2>1. \A e \in receipts : e \in Experiments /\ cluster[e] = "gone"
    BY DEF LiveInv, IInv, TypeOK, Consistent, Traces, After
  <2>2. \A e \in Experiments : e > trial => cluster[e] = "absent"
    BY DEF LiveInv, Sequential, IInv, Consistent, Before
  <2>3. \A e \in Experiments : e < trial => cluster[e] = "gone"
    BY <2>1 DEF LiveInv, Sequential
  <2>4. ASSUME NEW e \in Experiments,
               cluster[e] \in {"requested", "present", "deleting"}
        PROVE  e = trial
    BY <2>2, <2>3, <2>4, TrialsAssumption DEF LiveInv, EvalTypeOK
  <2>5. \A e \in opened : cluster[e] = "gone"
    BY <2>1 DEF LiveInv, Sequential
  <2> QED
    BY <2>2, <2>4, <2>5 DEF OneFaultAtATime
<1> QED
  BY <1>1, LiveInvariance, PTL

\* A published report rests on the scores of all trials, each with a journal that
\* says planned, applied and recovered and nothing else.
THEOREM CompleteReports == LiveSpec => []ReportIsComplete
<1>1. LiveInv => ReportIsComplete
  <2>1. ASSUME LiveInv, NEW e \in receipts
        PROVE  journal[e] = <<"planned", "applied", "recovered">>
    BY <2>1 DEF LiveInv, IInv, TypeOK, Consistent, Traces, After, RecoveredJournal
  <2> QED
    BY <2>1 DEF LiveInv, Sequential, ReportIsComplete
<1> QED
  BY <1>1, LiveInvariance, PTL
=============================================================================
