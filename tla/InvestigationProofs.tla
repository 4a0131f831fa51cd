-------------------------- MODULE InvestigationProofs --------------------------
(***************************************************************************)
(* Proofs about InvestigationLifecycle, for any requests, incidents and    *)
(* results.  What a status announces is tied to what is stored through     *)
(* the requests in between: which start each of them has, that no two have *)
(* the same, and, as long as they do not overlap, that the one under way   *)
(* started after everything that is stored.                                *)
(***************************************************************************)
EXTENDS InvestigationLifecycle, FiniteSetTheorems, SequenceTheorems, TLAPS

---------------------------------------------------------------------------
(* Least and greatest numbers *)

\* The greatest element is what Max finds.
LEMMA GreatestIsMax ==
  ASSUME NEW S \in SUBSET Nat, NEW m \in S, \A x \in S : m >= x
  PROVE  Max(S) = m
<1>1. Max(S) \in S /\ \A x \in S : Max(S) >= x
  BY DEF Max
<1>2. Max(S) >= m /\ m >= Max(S)
  BY <1>1
<1>3. m \in Nat /\ Max(S) \in Nat
  BY <1>1
<1> QED
  BY <1>2, <1>3

\* One more element is the greatest, or changes nothing.
LEMMA MaxExtends ==
  ASSUME NEW S \in SUBSET Nat, Max(S) \in S, \A x \in S : Max(S) >= x, NEW s \in Nat
  PROVE  /\ Max(S \cup {s}) = IF s > Max(S) THEN s ELSE Max(S)
         /\ Max(S \cup {s}) \in S \cup {s}
         /\ \A x \in S \cup {s} : Max(S \cup {s}) >= x
<1> DEFINE m == IF s > Max(S) THEN s ELSE Max(S)
<1>1. S \cup {s} \in SUBSET Nat /\ m \in S \cup {s} /\ Max(S) \in Nat
  OBVIOUS
<1>2. ASSUME NEW x \in S \cup {s} PROVE m >= x
  <2>1. m >= Max(S) /\ m >= s /\ m \in Nat
    BY <1>1
  <2>2. CASE x \in S
    <3>1. Max(S) >= x /\ x \in Nat
      BY <2>2
    <3> QED
      BY <1>1, <2>1, <3>1
  <2> QED
    BY <2>1, <2>2
<1>3. Max(S \cup {s}) = m
  <2> HIDE DEF m
  <2> QED BY <1>1, <1>2, GreatestIsMax
<1> QED
  BY <1>1, <1>2, <1>3

---------------------------------------------------------------------------
(* The inductive invariant *)

Row == [incident : Incidents, started : Ids, result : Results]

Jobs == [incident : Incidents \cup {None}, started : Ids \cup {None},
         result : Results \cup {None}]

Places == Marked \cup {"idle", "marking", "remembering"}

TypeOK ==
  /\ incidents \in [Incidents -> IncidentStatuses \cup {None}]
  /\ rows \in Seq(Row)
  /\ accepted \in 0 .. MaxInvestigations
  /\ clock \in Nat
  /\ pc \in [Handlers -> Places]
  /\ job \in [Handlers -> Jobs]
  /\ stranded \subseteq Incidents /\ overlapped \subseteq Incidents

\* What a request knows at each place.
Knows(h) ==
  /\ pc[h] # "idle" =>
       job[h].incident \in Incidents /\ incidents[job[h].incident] # None
  /\ pc[h] \in {"running", "saving", "closing"} =>
       job[h].started \in Ids /\ job[h].started <= clock
  /\ pc[h] \in {"saving", "closing"} => job[h].result \in Results
  /\ pc[h] = "closing" => \E k \in DOMAIN rows : rows[k] = job[h]

\* Requests that have a start and have not stored it.
UnderWay == {h \in Handlers : pc[h] \in {"running", "saving"}}

\* No start is given twice.
Distinct ==
  /\ \A k, l \in DOMAIN rows : rows[k].started = rows[l].started => k = l
  /\ \A k \in DOMAIN rows : rows[k].started <= clock
  /\ \A h \in UnderWay, k \in DOMAIN rows : rows[k].started # job[h].started
  /\ \A g, h \in UnderWay : job[g].started = job[h].started => g = h

\* Requests that are still to get a start, of which there are enough.
Waiting == {h \in Handlers : pc[h] \in {"marking", "starting"}}

Bounded == IsFiniteSet(Waiting) /\ clock + Cardinality(Waiting) <= accepted

Starts(inc) == {rows[k].started : k \in RowsOf(inc)}

\* There is a latest investigation, wherever there is one at all.
HasLatest(inc) ==
  /\ Latest(inc) \in Starts(inc) \cup {0}
  /\ \A s \in Starts(inc) : Latest(inc) >= s

\* What the status of an incident means.
Truthful(inc) ==
  /\ inc \notin stranded /\ incidents[inc] = "investigating" =>
       Investigators(inc) # {}
  /\ incidents[inc] = "diagnosed" =>
       \E k \in RowsOf(inc) : rows[k].result.status = "completed"

\* The same while its investigations have not overlapped.
Undisturbed(inc) ==
  /\ \A g, h \in Investigators(inc) : g = h
  /\ Investigators(inc) # {} => incidents[inc] = "investigating"
  /\ \A h \in Investigators(inc) :
       /\ pc[h] \in {"running", "saving"} =>
            \A k \in RowsOf(inc) : rows[k].started < job[h].started
       /\ pc[h] = "closing" => Latest(inc) = job[h].started
  /\ incidents[inc] = "diagnosed" =>
       \E k \in RowsOf(inc) :
         rows[k].result.status = "completed" /\ rows[k].started = Latest(inc)

Sound(inc) ==
  HasLatest(inc) /\ Truthful(inc) /\ (inc \notin overlapped => Undisturbed(inc))

IInv ==
  /\ TypeOK
  /\ \A h \in Handlers : Knows(h)
  /\ Distinct
  /\ Bounded
  /\ \A inc \in Incidents : Sound(inc)

---------------------------------------------------------------------------
(* Lemmas about the latest investigation and the table *)

\* Latest is the greatest of the starts, for which 0 stands in.
LEMMA LatestOfStarts ==
  ASSUME NEW inc \in Incidents
  PROVE  Latest(inc) = Max(Starts(inc) \cup {0})
  BY DEF Latest, Starts

\* The table holds rows.
LEMMA RowType ==
  ASSUME TypeOK
  PROVE  \A k \in DOMAIN rows : rows[k] \in Row /\ rows[k].started \in Nat
<1>1. rows \in Seq(Row)
  BY DEF TypeOK
<1>2. \A k \in DOMAIN rows : rows[k] \in Row
  BY <1>1
<1>3. \A row \in Row : row.started \in Nat
  BY DEF Row, Ids
<1> QED
  BY <1>2, <1>3

\* While the table stays, so does what is read from it.
LEMMA SameRows ==
  ASSUME rows' = rows, NEW inc \in Incidents
  PROVE  /\ RowsOf(inc)' = RowsOf(inc)
         /\ Starts(inc)' = Starts(inc)
         /\ Latest(inc)' = Latest(inc)
  BY DEF RowsOf, Starts, Latest

\* What an insert does to the table and to what is read from it.
LEMMA Insert ==
  ASSUME TypeOK, NEW row \in Row, rows' = Append(rows, row)
  PROVE  /\ rows' \in Seq(Row)
         /\ DOMAIN rows = 1 .. Len(rows) /\ Len(rows) \in Nat
         /\ DOMAIN rows' = DOMAIN rows \cup {Len(rows) + 1}
         /\ Len(rows) + 1 \notin DOMAIN rows
         /\ rows'[Len(rows) + 1] = row
         /\ \A k \in DOMAIN rows : rows'[k] = rows[k]
         /\ \A inc \in Incidents :
              RowsOf(inc)' = IF inc = row.incident THEN RowsOf(inc) \cup {Len(rows) + 1}
                             ELSE RowsOf(inc)
         /\ \A inc \in Incidents :
              Starts(inc)' = IF inc = row.incident THEN Starts(inc) \cup {row.started}
                             ELSE Starts(inc)
<1>1. rows \in Seq(Row)
  BY DEF TypeOK
<1>2. /\ rows' \in Seq(Row) /\ Len(rows') = Len(rows) + 1 /\ Len(rows) \in Nat
      /\ DOMAIN rows = 1 .. Len(rows) /\ DOMAIN rows' = 1 .. Len(rows')
      /\ \A k \in 1 .. Len(rows) : rows'[k] = rows[k]
      /\ rows'[Len(rows) + 1] = row
  BY <1>1
<1>3. DOMAIN rows' = DOMAIN rows \cup {Len(rows) + 1} /\ Len(rows) + 1 \notin DOMAIN rows
  BY <1>2
<1>4. ASSUME NEW inc \in Incidents
      PROVE  RowsOf(inc)' = IF inc = row.incident THEN RowsOf(inc) \cup {Len(rows) + 1}
                            ELSE RowsOf(inc)
  BY <1>2, <1>3 DEF RowsOf
<1>5. ASSUME NEW inc \in Incidents
      PROVE  Starts(inc)' = IF inc = row.incident THEN Starts(inc) \cup {row.started}
                            ELSE Starts(inc)
  <2>1. \A k \in RowsOf(inc) : rows'[k] = rows[k]
    BY <1>2 DEF RowsOf
  <2>2. CASE inc = row.incident
    <3>1. RowsOf(inc)' = RowsOf(inc) \cup {Len(rows) + 1}
      BY <1>4, <2>2
    <3>2. Starts(inc)' = {rows'[k].started : k \in RowsOf(inc)'}
      BY DEF Starts
    <3>3. \A x : x \in Starts(inc)' <=>
                x = rows'[Len(rows) + 1].started \/ \E k \in RowsOf(inc) : x = rows'[k].started
      BY <3>1, <3>2
    <3>4. \A x : x \in Starts(inc) <=> \E k \in RowsOf(inc) : x = rows[k].started
      BY DEF Starts
    <3>5. rows'[Len(rows) + 1].started = row.started
      BY <1>2
    <3>6. \A x : x \in Starts(inc)' <=> x = row.started \/ x \in Starts(inc)
      <4>1. \A k \in RowsOf(inc) : rows'[k].started = rows[k].started
        BY <2>1
      <4>2. ASSUME NEW x, x \in Starts(inc)' PROVE x = row.started \/ x \in Starts(inc)
        <5>1. CASE x = rows'[Len(rows) + 1].started
          BY <3>5, <5>1
        <5>2. ASSUME NEW k \in RowsOf(inc), x = rows'[k].started
              PROVE  x \in Starts(inc)
          <6>1. x = rows[k].started
            BY <4>1, <5>2
          <6> QED
            BY <3>4, <6>1
        <5> QED
          BY <3>3, <4>2, <5>1, <5>2
      <4>3. ASSUME NEW x, x \in Starts(inc) PROVE x \in Starts(inc)'
        <5>1. PICK k \in RowsOf(inc) : x = rows[k].started
          BY <3>4, <4>3
        <5>2. x = rows'[k].started
          BY <4>1, <5>1
        <5> QED
          BY <3>3, <5>2
      <4>4. row.started \in Starts(inc)'
        BY <3>3, <3>5
      <4> QED
        BY <4>2, <4>3, <4>4
    <3> QED
      BY <2>2, <3>6
  <2>3. CASE inc # row.incident
    BY <1>4, <2>1, <2>3 DEF Starts
  <2> QED
    BY <2>2, <2>3
<1> QED
  BY <1>2, <1>3, <1>4, <1>5

---------------------------------------------------------------------------
(* What a step leaves alone *)

\* A step of request h.
StepOf(h) == \A g \in Handlers \ {h} : pc'[g] = pc[g] /\ job'[g] = job[g]

\* No incident disappears, and time goes on.
Forward ==
  /\ \A inc \in Incidents : incidents[inc] # None => incidents'[inc] # None
  /\ clock' >= clock

\* The other requests still know what they knew.
LEMMA OthersKnow ==
  ASSUME IInv, TypeOK', NEW h \in Handlers, StepOf(h), Forward,
         DOMAIN rows \subseteq DOMAIN rows', \A k \in DOMAIN rows : rows'[k] = rows[k],
         Knows(h)'
  PROVE  \A g \in Handlers : Knows(g)'
<1> SUFFICES ASSUME NEW g \in Handlers, g # h PROVE Knows(g)'
  OBVIOUS
<1>1. Knows(g) /\ pc'[g] = pc[g] /\ job'[g] = job[g]
  BY DEF IInv, StepOf
<1>2. clock \in Nat /\ clock' \in Nat /\ Ids \subseteq Nat
  BY DEF IInv, TypeOK, Ids
<1>3. ASSUME job[g].started \in Ids, job[g].started <= clock
      PROVE  job[g].started <= clock'
  <2>1. clock' >= clock /\ job[g].started \in Nat
    BY <1>2, <1>3 DEF Forward
  <2> QED
    BY <1>2, <1>3, <2>1
<1>4. pc[g] # "idle" =>
        job'[g].incident \in Incidents /\ incidents'[job'[g].incident] # None
  BY <1>1 DEF Knows, Forward
<1>5. pc[g] = "closing" => \E k \in DOMAIN rows' : rows'[k] = job'[g]
  BY <1>1 DEF Knows
<1> QED
  BY <1>1, <1>3, <1>4, <1>5 DEF Knows

\* A request that gets no start, and may give its own up, leaves starts distinct.
LEMMA DistinctStays ==
  ASSUME IInv, TypeOK', NEW h \in Handlers, StepOf(h), rows' = rows, clock' >= clock,
         h \in UnderWay' => h \in UnderWay /\ job'[h].started = job[h].started
  PROVE  Distinct'
<1>1. UnderWay' \subseteq UnderWay
  BY DEF UnderWay, StepOf
<1>2. \A g \in UnderWay' : job'[g].started = job[g].started
  BY <1>1 DEF UnderWay, StepOf
<1>3. \A k \in DOMAIN rows : rows[k] \in Row /\ rows[k].started \in Nat
  BY RowType DEF IInv
<1>4. clock \in Nat /\ clock' \in Nat
  BY DEF IInv, TypeOK
<1> QED
  BY <1>1, <1>2, <1>3, <1>4 DEF IInv, Distinct

\* An incident that request h is not in charge of, before or after its step.
LEMMA OthersSound ==
  ASSUME IInv, NEW h \in Handlers, StepOf(h), NEW inc \in Incidents,
         h \notin Investigators(inc), h \notin Investigators(inc)',
         incidents'[inc] = incidents[inc],
         RowsOf(inc)' = RowsOf(inc), \A k \in RowsOf(inc) : rows'[k] = rows[k],
         Starts(inc)' = Starts(inc),
         inc \in stranded' <=> inc \in stranded,
         inc \in overlapped' <=> inc \in overlapped
  PROVE  Sound(inc)'
<1>1. Sound(inc)
  BY DEF IInv
<1>2. Investigators(inc)' = Investigators(inc)
  BY DEF Investigators, StepOf
<1>3. \A g \in Investigators(inc) : pc'[g] = pc[g] /\ job'[g] = job[g]
  BY DEF Investigators, StepOf
<1>4. Latest(inc)' = Latest(inc)
  <2>1. Latest(inc) = Max(Starts(inc) \cup {0}) /\ Latest(inc)' = Max(Starts(inc)' \cup {0})
    BY DEF Latest, Starts
  <2> QED
    BY <2>1
<1>5. HasLatest(inc)'
  BY <1>1, <1>4 DEF Sound, HasLatest
<1>6. Truthful(inc)'
  BY <1>1, <1>2 DEF Sound, Truthful
<1>7. ASSUME inc \notin overlapped PROVE Undisturbed(inc)'
  BY <1>1, <1>2, <1>3, <1>4, <1>7 DEF Sound, Undisturbed
<1> QED
  BY <1>5, <1>6, <1>7 DEF Sound

\* Without a new request or start there are starts enough.
LEMMA BoundedStays ==
  ASSUME IInv, TypeOK', NEW h \in Handlers, StepOf(h), clock' = clock, accepted' = accepted,
         h \in Waiting' => h \in Waiting
  PROVE  Bounded'
<1>1. Waiting' \in SUBSET Waiting
  BY DEF Waiting, StepOf
<1>2. IsFiniteSet(Waiting) /\ clock + Cardinality(Waiting) <= accepted
  BY DEF IInv, Bounded
<1>3. /\ IsFiniteSet(Waiting') /\ Cardinality(Waiting') <= Cardinality(Waiting)
      /\ Cardinality(Waiting) \in Nat /\ Cardinality(Waiting') \in Nat
  BY <1>1, <1>2, FS_Subset, FS_CardinalityType
<1>4. clock \in Nat /\ accepted \in Nat
  BY LifecycleAssumption DEF IInv, TypeOK
<1> QED
  BY <1>2, <1>3, <1>4 DEF Bounded

\* The parts of a request's step on one incident, when the table stays.
LEMMA RequestStep ==
  ASSUME IInv, TypeOK', NEW h \in Handlers, StepOf(h), Forward, rows' = rows,
         Knows(h)', Distinct', Bounded',
         NEW i \in Incidents, Sound(i)',
         \A inc \in Incidents \ {i} :
           /\ h \notin Investigators(inc) /\ h \notin Investigators(inc)'
           /\ incidents'[inc] = incidents[inc]
           /\ inc \in stranded' <=> inc \in stranded
           /\ inc \in overlapped' <=> inc \in overlapped
  PROVE  IInv'
<1>1. \A g \in Handlers : Knows(g)'
  BY OthersKnow
<1>2. ASSUME NEW inc \in Incidents, inc # i PROVE Sound(inc)'
  BY <1>2, SameRows, OthersSound
<1> QED
  BY <1>1, <1>2 DEF IInv

\* A request that is in charge of no incident leaves all of them alone.
LEMMA BystanderStep ==
  ASSUME IInv, TypeOK', NEW h \in Handlers, StepOf(h), rows' = rows,
         incidents' = incidents, clock' = clock, stranded' = stranded,
         overlapped' = overlapped,
         pc[h] \notin Marked, pc'[h] \notin Marked, Knows(h)', Bounded'
  PROVE  IInv'
<1>1. Forward
  BY DEF Forward, IInv, TypeOK
<1>2. Distinct'
  <2>1. h \notin UnderWay'
    BY DEF UnderWay, Marked
  <2>2. clock' >= clock
    BY DEF IInv, TypeOK
  <2> QED
    BY <2>1, <2>2, DistinctStays
<1>3. \A g \in Handlers : Knows(g)'
  BY <1>1, OthersKnow
<1>4. ASSUME NEW inc \in Incidents PROVE Sound(inc)'
  <2>1. h \notin Investigators(inc) /\ h \notin Investigators(inc)'
    BY DEF Investigators
  <2> QED
    BY <2>1, SameRows, OthersSound
<1> QED
  BY <1>2, <1>3, <1>4 DEF IInv

\* Who is in charge of the incident of request h, which is in charge itself.
LEMMA InCharge ==
  ASSUME IInv, NEW h \in Handlers, pc[h] \in Marked
  PROVE  /\ job[h].incident \in Incidents
         /\ h \in Investigators(job[h].incident)
         /\ \A inc \in Incidents \ {job[h].incident} : h \notin Investigators(inc)
         /\ job[h].incident \notin overlapped =>
              /\ Investigators(job[h].incident) = {h}
              /\ incidents[job[h].incident] = "investigating"
<1>1. Knows(h) /\ pc[h] # "idle"
  BY DEF IInv, Marked
<1>2. job[h].incident \in Incidents
  BY <1>1 DEF Knows
<1>3. h \in Investigators(job[h].incident)
  BY DEF Investigators
<1>4. Sound(job[h].incident)
  BY <1>2 DEF IInv
<1>5. job[h].incident \notin overlapped =>
        /\ \A g \in Investigators(job[h].incident) : g = h
        /\ incidents[job[h].incident] = "investigating"
  BY <1>3, <1>4 DEF Sound, Undisturbed
<1> QED
  BY <1>2, <1>3, <1>5 DEF Investigators

---------------------------------------------------------------------------
(* Steps *)

LEMMA InitInv == Init => IInv
<1> SUFFICES ASSUME Init PROVE IInv
  OBVIOUS
<1>1. TypeOK
  BY LifecycleAssumption DEF Init, TypeOK, NoJob, Jobs, Places
<1>2. \A h \in Handlers : Knows(h)
  BY DEF Init, Knows
<1>3. UnderWay = {} /\ Waiting = {} /\ \A inc \in Incidents : Investigators(inc) = {}
  BY DEF Init, UnderWay, Waiting, Investigators, Marked
<1>4. Distinct
  BY <1>3 DEF Init, Distinct
<1>5. Bounded
  BY <1>3, FS_EmptySet DEF Init, Bounded
<1>6. ASSUME NEW inc \in Incidents PROVE Sound(inc)
  <2>1. RowsOf(inc) = {}
    BY DEF Init, RowsOf
  <2>2. Starts(inc) = {}
    BY <2>1 DEF Starts
  <2>3. Latest(inc) = 0
    <3>1. Starts(inc) \cup {0} = {0}
      BY <2>2
    <3>2. Max({0}) = 0
      BY GreatestIsMax
    <3> QED
      BY <3>1, <3>2, LatestOfStarts
  <2>4. incidents[inc] = None
    BY DEF Init
  <2> QED
    BY <1>3, <2>1, <2>2, <2>3, <2>4, LifecycleAssumption
    DEF Sound, HasLatest, Truthful, Undisturbed, IncidentStatuses
<1> QED
  BY <1>1, <1>2, <1>4, <1>5, <1>6 DEF IInv

\* A new incident has no requests and no rows that speak of it.
LEMMA CreateIncidentStep ==
  ASSUME IInv, NEW i \in Incidents, CreateIncident(i)
  PROVE  IInv'
<1>1. /\ incidents[i] = None /\ incidents' = [incidents EXCEPT ![i] = "open"]
      /\ stranded' = stranded \ {i}
      /\ UNCHANGED <<rows, accepted, clock, pc, job, overlapped>>
  BY DEF CreateIncident, SaveIncident
<1>2. TypeOK'
  BY <1>1 DEF IInv, TypeOK, IncidentStatuses
<1>3. /\ \A inc \in Incidents \ {i} : incidents'[inc] = incidents[inc]
      /\ incidents'[i] = "open"
  BY <1>1 DEF IInv, TypeOK
<1>4. ASSUME NEW h \in Handlers PROVE Knows(h)'
  <2>1. Knows(h)
    BY DEF IInv
  <2> QED
    BY <1>1, <1>3, <2>1 DEF Knows
<1>5. Distinct' /\ Bounded'
  BY <1>1 DEF IInv, Distinct, Bounded, UnderWay, Waiting
<1>6. ASSUME NEW inc \in Incidents PROVE Sound(inc)'
  <2>1. Sound(inc)
    BY DEF IInv
  <2>2. Investigators(inc)' = Investigators(inc)
    BY <1>1 DEF Investigators
  <2>3. /\ RowsOf(inc)' = RowsOf(inc) /\ Starts(inc)' = Starts(inc)
        /\ Latest(inc)' = Latest(inc)
    BY <1>1, SameRows
  <2>4. CASE inc # i
    BY <1>1, <1>3, <2>1, <2>2, <2>3, <2>4
    DEF Sound, HasLatest, Truthful, Undisturbed
  <2>5. CASE inc = i
    <3>1. Investigators(inc) = {}
      BY <1>1, <2>5 DEF Investigators, IInv, Knows, Marked
    <3> QED
      BY <1>1, <1>3, <2>1, <2>2, <2>3, <2>5, <3>1
      DEF Sound, HasLatest, Truthful, Undisturbed
  <2> QED
    BY <2>4, <2>5
<1> QED
  BY <1>2, <1>4, <1>5, <1>6 DEF IInv

\* An accepted request waits for its mark.
LEMMA InvestigateStep ==
  ASSUME IInv, NEW h \in Handlers, NEW i \in Incidents, Investigate(h, i)
  PROVE  IInv'
<1>1. /\ pc[h] = "idle" /\ accepted < MaxInvestigations /\ incidents[i] # None
      /\ accepted' = accepted + 1
      /\ job' = [job EXCEPT ![h].incident = i]
      /\ pc' = [pc EXCEPT ![h] = "marking"]
      /\ UNCHANGED <<incidents, rows, clock, stranded, overlapped>>
  BY DEF Investigate, Goto, history
<1>2. TypeOK
  BY DEF IInv
<1>3. accepted \in Nat /\ accepted' \in 0 .. MaxInvestigations
  BY <1>1, <1>2, LifecycleAssumption DEF TypeOK
<1>4. TypeOK'
  BY <1>1, <1>2, <1>3 DEF TypeOK, Jobs, Places
<1>5. StepOf(h) /\ pc'[h] = "marking" /\ job'[h].incident = i
  BY <1>1, <1>2 DEF StepOf, TypeOK, Jobs
<1>6. Knows(h)'
  BY <1>1, <1>5 DEF Knows
<1>7. Bounded'
  <2>1. Waiting' = Waiting \cup {h} /\ h \notin Waiting
    BY <1>1, <1>5 DEF Waiting, StepOf
  <2>2. IsFiniteSet(Waiting) /\ clock + Cardinality(Waiting) <= accepted
    BY DEF IInv, Bounded
  <2>3. /\ IsFiniteSet(Waiting') /\ Cardinality(Waiting') = Cardinality(Waiting) + 1
        /\ Cardinality(Waiting) \in Nat
    BY <2>1, <2>2, FS_AddElement, FS_CardinalityType
  <2>4. clock \in Nat
    BY <1>2 DEF TypeOK
  <2> QED
    BY <1>1, <1>3, <2>2, <2>3, <2>4 DEF Bounded
<1> QED
  BY <1>1, <1>4, <1>5, <1>6, <1>7, BystanderStep DEF Marked

\* The mark: from here on the request is in charge of its incident.
LEMMA MarkStep ==
  ASSUME IInv, NEW h \in Handlers, MarkInvestigating(h)
  PROVE  IInv'
<1>0. PICK i \in Incidents : i = job[h].incident
  BY DEF IInv, Knows, MarkInvestigating
<1>1. /\ pc[h] = "marking" /\ pc' = [pc EXCEPT ![h] = "starting"]
      /\ incidents' = [incidents EXCEPT ![i] = "investigating"]
      /\ overlapped' = IF Investigators(i) = {} THEN overlapped ELSE overlapped \cup {i}
      /\ stranded' = stranded \ {i}
      /\ UNCHANGED <<rows, accepted, clock, job>>
  BY <1>0 DEF MarkInvestigating, SaveIncident, Goto
<1>2. TypeOK /\ Knows(h)
  BY DEF IInv
<1>3. TypeOK'
  BY <1>1, <1>2 DEF TypeOK, Places, Marked, IncidentStatuses
<1>4. StepOf(h) /\ pc'[h] = "starting" /\ job' = job
  BY <1>1, <1>2 DEF StepOf, TypeOK
<1>5. /\ incidents'[i] = "investigating"
      /\ \A inc \in Incidents \ {i} : incidents'[inc] = incidents[inc]
  BY <1>1, <1>2 DEF TypeOK
<1>6. Forward
  BY <1>1, <1>2, <1>5, LifecycleAssumption DEF Forward, TypeOK, IncidentStatuses
<1>7. Knows(h)'
  BY <1>0, <1>1, <1>2, <1>4, <1>5, LifecycleAssumption DEF Knows, IncidentStatuses
<1>8. Bounded'
  BY <1>1, <1>3, <1>4, BoundedStays DEF Waiting
<1>9. Distinct'
  <2>1. clock' >= clock /\ h \notin UnderWay'
    BY <1>1, <1>2, <1>4 DEF UnderWay, TypeOK
  <2> QED
    BY <1>1, <1>3, <1>4, <2>1, DistinctStays
<1>10. \A inc \in Incidents \ {i} :
         h \notin Investigators(inc) /\ h \notin Investigators(inc)'
  BY <1>0, <1>1, <1>4 DEF Investigators, Marked
<1>11. Sound(i)'
  <2>1. Investigators(i)' = Investigators(i) \cup {h}
    BY <1>0, <1>1, <1>4 DEF Investigators, StepOf, Marked
  <2>2. /\ RowsOf(i)' = RowsOf(i) /\ Starts(i)' = Starts(i) /\ Latest(i)' = Latest(i)
    BY <1>1, <1>2, SameRows
  <2>3. HasLatest(i)'
    BY <1>2, <2>2 DEF IInv, Sound, HasLatest
  <2>4. Truthful(i)'
    BY <1>5, <2>1 DEF Truthful
  <2>5. ASSUME i \notin overlapped' PROVE Undisturbed(i)'
    <3>1. Investigators(i)' = {h}
      BY <1>1, <2>1, <2>5
    <3> QED
      BY <1>4, <1>5, <3>1 DEF Undisturbed
  <2> QED
    BY <2>3, <2>4, <2>5 DEF Sound
<1> QED
  BY <1>1, <1>2, <1>3, <1>4, <1>5, <1>6, <1>7, <1>8, <1>9, <1>10, <1>11, RequestStep

\* The run gets a start after all others.
LEMMA StartRunStep ==
  ASSUME IInv, NEW h \in Handlers, StartRun(h)
  PROVE  IInv'
<1>1. /\ pc[h] = "starting" /\ pc' = [pc EXCEPT ![h] = "running"]
      /\ clock' = clock + 1
      /\ job' = [job EXCEPT ![h].started = clock + 1]
      /\ UNCHANGED <<incidents, rows, accepted, stranded, overlapped>>
  BY DEF StartRun, Goto, history
<1>2. TypeOK /\ Knows(h) /\ Distinct /\ Bounded
  BY DEF IInv
<1>3. PICK i \in Incidents :
        /\ i = job[h].incident /\ h \in Investigators(i)
        /\ \A inc \in Incidents \ {i} : h \notin Investigators(inc)
        /\ i \notin overlapped => Investigators(i) = {h}
  BY <1>1, InCharge DEF Marked
<1>4. /\ Waiting' = Waiting \ {h} /\ h \in Waiting
  BY <1>1, <1>2 DEF Waiting, TypeOK
<1>5. /\ IsFiniteSet(Waiting') /\ Cardinality(Waiting') = Cardinality(Waiting) - 1
      /\ Cardinality(Waiting') \in Nat
      /\ clock + Cardinality(Waiting) <= accepted
      /\ clock \in Nat /\ accepted \in Nat /\ accepted <= MaxInvestigations
      /\ Cardinality(Waiting) \in Nat
  BY <1>2, <1>4, FS_RemoveElement, FS_CardinalityType, LifecycleAssumption
  DEF Bounded, TypeOK
<1>6. clock + 1 \in Ids /\ Bounded'
  BY <1>1, <1>5, LifecycleAssumption DEF Bounded, Ids
<1>7. TypeOK'
  <2>1. job' \in [Handlers -> Jobs]
    BY <1>1, <1>2, <1>6 DEF TypeOK, Jobs
  <2>2. pc' \in [Handlers -> Places] /\ clock' \in Nat
    BY <1>1, <1>2, <1>5 DEF TypeOK, Places, Marked
  <2> QED
    BY <1>1, <1>2, <2>1, <2>2 DEF TypeOK
<1>8. /\ StepOf(h) /\ pc'[h] = "running" /\ job'[h].started = clock + 1
      /\ job'[h].incident = i
  BY <1>1, <1>2, <1>3 DEF StepOf, TypeOK, Jobs
<1>9. Forward
  BY <1>1, <1>5 DEF Forward
<1>10. Knows(h)'
  BY <1>1, <1>2, <1>3, <1>5, <1>6, <1>8 DEF Knows
<1>11. \A k \in DOMAIN rows : rows[k].started \in Nat /\ rows[k].started <= clock
  BY <1>2, RowType DEF Distinct
<1>12. Distinct'
  <2>1. UnderWay' = UnderWay \cup {h} /\ h \notin UnderWay
    BY <1>1, <1>8 DEF UnderWay, StepOf
  <2>2. \A g \in UnderWay : job'[g] = job[g] /\ job[g].started <= clock
                              /\ job[g].started \in Nat
    BY <1>8, <2>1 DEF UnderWay, StepOf, IInv, Knows, Ids
  <2>3. \A k \in DOMAIN rows : rows[k].started <= clock + 1 /\ rows[k].started # clock + 1
    BY <1>5, <1>11
  <2>4. \A g \in UnderWay : job'[g].started = job[g].started /\ job[g].started # clock + 1
    BY <1>5, <2>2
  <2>5. \A k, l \in DOMAIN rows : rows[k].started = rows[l].started => k = l
    BY <1>2 DEF Distinct
  <2>6. \A g \in UnderWay, k \in DOMAIN rows : rows[k].started # job[g].started
    BY <1>2 DEF Distinct
  <2>7. \A f, g \in UnderWay : job[f].started = job[g].started => f = g
    BY <1>2 DEF Distinct
  <2> QED
    BY <1>1, <1>8, <2>1, <2>3, <2>4, <2>5, <2>6, <2>7 DEF Distinct
<1>13. \A inc \in Incidents \ {i} : h \notin Investigators(inc)'
  BY <1>8 DEF Investigators
<1>14. Sound(i)'
  <2>1. Investigators(i)' = Investigators(i)
    BY <1>1, <1>3, <1>8 DEF Investigators, StepOf, Marked
  <2>2. /\ RowsOf(i)' = RowsOf(i) /\ Starts(i)' = Starts(i) /\ Latest(i)' = Latest(i)
    BY <1>1, <1>3, SameRows
  <2>3. HasLatest(i)' /\ Truthful(i)'
    BY <1>1, <1>3, <2>1, <2>2 DEF IInv, Sound, HasLatest, Truthful
  <2>4. ASSUME i \notin overlapped' PROVE Undisturbed(i)'
    <3>1. Investigators(i) = {h} /\ Undisturbed(i)
      BY <1>1, <1>3, <2>4 DEF IInv, Sound
    <3>2. \A k \in RowsOf(i) : rows[k].started < clock + 1
      BY <1>5, <1>11 DEF RowsOf
    <3> QED
      BY <1>1, <1>8, <2>1, <2>2, <3>1, <3>2 DEF Undisturbed
  <2> QED
    BY <2>3, <2>4 DEF Sound
<1> QED
  BY <1>1, <1>3, <1>6, <1>7, <1>8, <1>9, <1>10, <1>12, <1>13, <1>14, RequestStep

\* The run is over: it goes on to store its result, or to reopen the incident.
LEMMA OnwardStep ==
  ASSUME IInv, TypeOK', NEW h \in Handlers, StepOf(h), Knows(h)',
         pc[h] = "running", pc'[h] \in {"saving", "reopening"},
         job'[h].incident = job[h].incident, job'[h].started = job[h].started,
         UNCHANGED <<incidents, rows, accepted, clock, stranded, overlapped>>
  PROVE  IInv'
<1>1. PICK i \in Incidents :
        /\ i = job[h].incident /\ h \in Investigators(i)
        /\ \A inc \in Incidents \ {i} : h \notin Investigators(inc)
  BY InCharge DEF Marked
<1>2. Forward
  BY DEF Forward, IInv, TypeOK
<1>3. Distinct'
  <2>1. clock' >= clock /\ h \in UnderWay
    BY DEF UnderWay, IInv, TypeOK
  <2> QED
    BY <2>1, DistinctStays
<1>4. Bounded'
  BY BoundedStays DEF Waiting
<1>5. \A inc \in Incidents \ {i} : h \notin Investigators(inc)'
  BY <1>1 DEF Investigators
<1>6. Sound(i)'
  <2>1. Investigators(i)' = Investigators(i)
    BY <1>1 DEF Investigators, StepOf, Marked
  <2>2. /\ RowsOf(i)' = RowsOf(i) /\ Starts(i)' = Starts(i) /\ Latest(i)' = Latest(i)
    BY SameRows
  <2>3. HasLatest(i)' /\ Truthful(i)'
    BY <2>1, <2>2 DEF IInv, Sound, HasLatest, Truthful
  <2>4. ASSUME i \notin overlapped' PROVE Undisturbed(i)'
    <3>1. Undisturbed(i)
      BY <2>4 DEF IInv, Sound
    <3>2. \A g \in Investigators(i) : job'[g].started = job[g].started
      BY DEF Investigators, StepOf
    <3>3. \A g \in Investigators(i) :
            /\ pc'[g] \in {"running", "saving"} => pc[g] \in {"running", "saving"}
            /\ pc'[g] = "closing" => pc[g] = "closing"
      BY DEF Investigators, StepOf
    <3> QED
      BY <2>1, <2>2, <3>1, <3>2, <3>3 DEF Undisturbed
  <2> QED
    BY <2>3, <2>4 DEF Sound
<1> QED
  BY <1>1, <1>2, <1>3, <1>4, <1>5, <1>6, RequestStep

LEMMA RunEndsStep ==
  ASSUME IInv, NEW h \in Handlers, NEW r \in Results, RunEnds(h, r)
  PROVE  IInv'
<1>1. /\ pc[h] = "running" /\ pc' = [pc EXCEPT ![h] = "saving"]
      /\ job' = [job EXCEPT ![h].result = r]
      /\ UNCHANGED <<incidents, rows, accepted, clock, stranded, overlapped>>
  BY DEF RunEnds, Goto, history
<1>2. TypeOK /\ Knows(h)
  BY DEF IInv
<1>3. TypeOK'
  <2>1. job' \in [Handlers -> Jobs] /\ pc' \in [Handlers -> Places]
    BY <1>1, <1>2 DEF TypeOK, Jobs, Places, Marked
  <2> QED
    BY <1>1, <1>2, <2>1 DEF TypeOK
<1>4. /\ StepOf(h) /\ pc'[h] = "saving" /\ job'[h].result = r
      /\ job'[h].incident = job[h].incident /\ job'[h].started = job[h].started
  BY <1>1, <1>2 DEF StepOf, TypeOK, Jobs
<1>5. Knows(h)'
  BY <1>1, <1>2, <1>4 DEF Knows
<1> QED
  BY <1>1, <1>3, <1>4, <1>5, OnwardStep

LEMMA RunRaisesStep ==
  ASSUME IInv, NEW h \in Handlers, RunRaises(h)
  PROVE  IInv'
<1>1. /\ pc[h] = "running" /\ pc' = [pc EXCEPT ![h] = "reopening"]
      /\ UNCHANGED <<incidents, rows, accepted, clock, job, stranded, overlapped>>
  BY DEF RunRaises, Goto, history
<1>2. TypeOK /\ Knows(h)
  BY DEF IInv
<1>3. TypeOK'
  BY <1>1, <1>2 DEF TypeOK, Places, Marked
<1>4. StepOf(h) /\ pc'[h] = "reopening"
  BY <1>1, <1>2 DEF StepOf, TypeOK
<1>5. Knows(h)'
  BY <1>1, <1>2, <1>4 DEF Knows
<1> QED
  BY <1>1, <1>3, <1>4, <1>5, OnwardStep

\* A request that gives its incident up leaves a status that is true of it.
LEMMA LeaveStep ==
  ASSUME IInv, NEW h \in Handlers, pc[h] \in Marked, Leave(h),
         NEW i \in Incidents, i = job[h].incident,
         NEW s \in IncidentStatuses, incidents' = [incidents EXCEPT ![i] = s],
         UNCHANGED <<rows, accepted, clock, overlapped>>,
         stranded' = stranded \ {i} \/ stranded' = stranded \cup {i},
         s = "investigating" => i \in stranded',
         s = "diagnosed" =>
           \E k \in RowsOf(i) : /\ rows[k].result.status = "completed"
                                /\ i \notin overlapped => rows[k].started = Latest(i)
  PROVE  IInv'
<1>1. /\ pc' = [pc EXCEPT ![h] = "idle"] /\ job' = [job EXCEPT ![h] = NoJob]
      /\ TypeOK
  BY DEF Leave, Goto, IInv
<1>2. TypeOK'
  <2>1. job' \in [Handlers -> Jobs] /\ pc' \in [Handlers -> Places]
    BY <1>1 DEF TypeOK, Jobs, NoJob, Places
  <2>2. incidents' \in [Incidents -> IncidentStatuses \cup {None}]
    BY <1>1 DEF TypeOK
  <2> QED
    BY <1>1, <2>1, <2>2 DEF TypeOK
<1>3. StepOf(h) /\ pc'[h] = "idle"
  BY <1>1 DEF StepOf, TypeOK
<1>4. /\ incidents'[i] = s
      /\ \A inc \in Incidents \ {i} : incidents'[inc] = incidents[inc]
  BY <1>1 DEF TypeOK
<1>5. Forward
  BY <1>1, <1>4, LifecycleAssumption DEF Forward, TypeOK
<1>6. Knows(h)'
  BY <1>3 DEF Knows
<1>7. Distinct'
  <2>1. clock' >= clock /\ h \notin UnderWay'
    BY <1>1, <1>3 DEF UnderWay, TypeOK
  <2> QED
    BY <1>2, <1>3, <2>1, DistinctStays
<1>8. Bounded'
  BY <1>2, <1>3, BoundedStays DEF Waiting
<1>9. \A inc \in Incidents \ {i} :
        h \notin Investigators(inc) /\ h \notin Investigators(inc)'
  BY <1>3 DEF Investigators, Marked
<1>10. Sound(i)'
  <2>1. Sound(i) /\ Investigators(i)' \subseteq Investigators(i) \ {h}
    BY <1>3 DEF IInv, Investigators, StepOf, Marked
  <2>2. /\ RowsOf(i)' = RowsOf(i) /\ Starts(i)' = Starts(i) /\ Latest(i)' = Latest(i)
    BY SameRows
  <2>3. HasLatest(i)' /\ Truthful(i)'
    BY <1>4, <2>1, <2>2 DEF Sound, HasLatest, Truthful
  <2>4. ASSUME i \notin overlapped' PROVE Undisturbed(i)'
    <3>1. Investigators(i)' = {}
      BY <2>1, <2>4, InCharge
    <3>2. s = "diagnosed" =>
            \E k \in RowsOf(i)' :
              rows'[k].result.status = "completed" /\ rows'[k].started = Latest(i)'
      BY <2>2, <2>4
    <3> QED
      BY <1>4, <3>1, <3>2 DEF Undisturbed
  <2> QED
    BY <2>3, <2>4 DEF Sound
<1> QED
  BY <1>2, <1>3, <1>4, <1>5, <1>6, <1>7, <1>8, <1>9, <1>10, RequestStep

\* A request that is lost, or whose result is refused, strands its incident.
LEMMA StrandStep ==
  ASSUME IInv, NEW h \in Handlers, pc[h] \in Marked, Leave(h),
         UNCHANGED <<incidents, rows, accepted, clock, overlapped>>,
         stranded' = stranded \cup {job[h].incident}
  PROVE  IInv'
<1>1. PICK i \in Incidents :
        /\ i = job[h].incident
        /\ i \notin overlapped => incidents[i] = "investigating"
  BY InCharge
<1>2. TypeOK /\ Knows(h) /\ Sound(i)
  BY DEF IInv
<1>3. PICK s \in IncidentStatuses : s = incidents[i]
  BY <1>1, <1>2 DEF TypeOK, Knows, Marked
<1>4. incidents' = [incidents EXCEPT ![i] = s]
  BY <1>2, <1>3 DEF TypeOK
<1>5. s = "diagnosed" =>
        \E k \in RowsOf(i) : /\ rows[k].result.status = "completed"
                             /\ i \notin overlapped => rows[k].started = Latest(i)
  BY <1>1, <1>2, <1>3 DEF Sound, Truthful
<1> QED
  BY <1>1, <1>4, <1>5, LeaveStep

LEMMA SaveRefusedStep ==
  ASSUME IInv, NEW h \in Handlers, SaveRefused(h)
  PROVE  IInv'
  BY StrandStep DEF SaveRefused, Marked

LEMMA ReopenStep ==
  ASSUME IInv, NEW h \in Handlers, Reopen(h)
  PROVE  IInv'
<1>1. PICK i \in Incidents : i = job[h].incident
  BY InCharge DEF Reopen, Marked
<1>2. /\ pc[h] \in Marked /\ Leave(h) /\ incidents' = [incidents EXCEPT ![i] = "open"]
      /\ stranded' = stranded \ {i}
      /\ UNCHANGED <<rows, accepted, clock, overlapped>>
  BY <1>1 DEF Reopen, SaveIncident, Marked
<1> QED
  BY <1>1, <1>2, LeaveStep DEF IncidentStatuses

\* The row that the request stored bears the status out.
LEMMA CloseIncidentStep ==
  ASSUME IInv, NEW h \in Handlers, CloseIncident(h)
  PROVE  IInv'
<1>1. PICK i \in Incidents : i = job[h].incident /\ h \in Investigators(i)
  BY InCharge DEF CloseIncident, Marked
<1>2. PICK s \in IncidentStatuses :
        s = IF job[h].result.status = "completed" THEN "diagnosed" ELSE "open"
  BY DEF IncidentStatuses
<1>3. /\ pc[h] = "closing" /\ Leave(h) /\ incidents' = [incidents EXCEPT ![i] = s]
      /\ stranded' = stranded \ {i}
      /\ UNCHANGED <<rows, accepted, clock, overlapped>>
  BY <1>1, <1>2 DEF CloseIncident, SaveIncident
<1>4. ASSUME s = "diagnosed"
      PROVE  \E k \in RowsOf(i) : /\ rows[k].result.status = "completed"
                                  /\ i \notin overlapped => rows[k].started = Latest(i)
  <2>1. PICK k \in DOMAIN rows : rows[k] = job[h]
    BY <1>3 DEF IInv, Knows
  <2>2. k \in RowsOf(i) /\ rows[k].result.status = "completed"
    BY <1>1, <1>2, <1>4, <2>1 DEF RowsOf
  <2>3. i \notin overlapped => Latest(i) = job[h].started
    BY <1>1, <1>3 DEF IInv, Sound, Undisturbed
  <2> QED
    BY <2>1, <2>2, <2>3
<1> QED
  BY <1>1, <1>2, <1>3, <1>4, LeaveStep DEF Marked

\* The insert: the request's start joins the starts of its incident, as the
\* latest of them unless another investigation overtook this one.
LEMMA SaveInvestigationStep ==
  ASSUME IInv, NEW h \in Handlers, SaveInvestigation(h)
  PROVE  IInv'
<1>1. /\ pc[h] = "saving" /\ pc' = [pc EXCEPT ![h] = "closing"]
      /\ rows' = Append(rows, job[h])
      /\ UNCHANGED <<incidents, accepted, clock, job, stranded, overlapped>>
  BY DEF SaveInvestigation, Goto, history
<1>2. TypeOK /\ Knows(h) /\ Distinct
  BY DEF IInv
<1>3. PICK i \in Incidents :
        /\ i = job[h].incident /\ h \in Investigators(i)
        /\ \A inc \in Incidents \ {i} : h \notin Investigators(inc)
        /\ i \notin overlapped =>
             Investigators(i) = {h} /\ incidents[i] = "investigating"
  BY <1>1, InCharge DEF Marked
<1>4. PICK row \in Row : row = job[h]
  BY <1>1, <1>2 DEF TypeOK, Knows, Jobs, Row
<1>5. /\ row.incident = i /\ row.started = job[h].started
      /\ row.started \in Nat /\ row.started > 0
  BY <1>3, <1>4 DEF Row, Ids
<1>6. /\ rows' \in Seq(Row)
      /\ DOMAIN rows' = DOMAIN rows \cup {Len(rows) + 1}
      /\ Len(rows) + 1 \notin DOMAIN rows
      /\ rows'[Len(rows) + 1] = row
      /\ \A k \in DOMAIN rows : rows'[k] = rows[k]
      /\ \A inc \in Incidents :
           RowsOf(inc)' = IF inc = i THEN RowsOf(inc) \cup {Len(rows) + 1} ELSE RowsOf(inc)
      /\ \A inc \in Incidents :
           Starts(inc)' = IF inc = i THEN Starts(inc) \cup {row.started} ELSE Starts(inc)
  <2>1. rows' = Append(rows, row)
    BY <1>1, <1>4
  <2> QED
    BY <1>2, <1>5, <2>1, Insert
<1>7. TypeOK'
  BY <1>1, <1>2, <1>6 DEF TypeOK, Places, Marked
<1>8. StepOf(h) /\ pc'[h] = "closing" /\ job' = job
  BY <1>1, <1>2 DEF StepOf, TypeOK
<1>9. Forward
  BY <1>1, <1>2 DEF Forward, TypeOK
<1>10. \A g \in Handlers : Knows(g)'
  <2>1. Knows(h)'
    <3>1. \E k \in DOMAIN rows' : rows'[k] = job[h]
      BY <1>4, <1>6
    <3> QED
      BY <1>1, <1>2, <1>8, <3>1 DEF Knows
  <2> QED
    BY <1>6, <1>7, <1>8, <1>9, <2>1, OthersKnow
<1>11. Distinct'
  <2>1. UnderWay' = UnderWay \ {h} /\ h \in UnderWay
    BY <1>1, <1>8 DEF UnderWay, StepOf
  <2>2. \A k \in DOMAIN rows : rows[k].started # row.started
    BY <1>2, <1>5, <2>1 DEF Distinct
  <2>3. \A g \in UnderWay \ {h} : job[g].started # row.started
    BY <1>2, <1>5, <2>1 DEF Distinct
  <2>4. row.started <= clock
    BY <1>1, <1>2, <1>5 DEF Knows
  <2>5. \A k, l \in DOMAIN rows : rows[k].started = rows[l].started => k = l
    BY <1>2 DEF Distinct
  <2>6. /\ \A k \in DOMAIN rows : rows[k].started <= clock
        /\ \A g \in UnderWay, k \in DOMAIN rows : rows[k].started # job[g].started
        /\ \A f, g \in UnderWay : job[f].started = job[g].started => f = g
    BY <1>2 DEF Distinct
  <2>7. \A k, l \in DOMAIN rows' : rows'[k].started = rows'[l].started => k = l
    BY <1>6, <2>2, <2>5
  <2>8. \A k \in DOMAIN rows' : rows'[k].started <= clock'
    BY <1>1, <1>6, <2>4, <2>6
  <2>9. \A g \in UnderWay', k \in DOMAIN rows' : rows'[k].started # job'[g].started
    BY <1>6, <1>8, <2>1, <2>3, <2>6
  <2>10. \A f, g \in UnderWay' : job'[f].started = job'[g].started => f = g
    BY <1>8, <2>1, <2>6
  <2> QED
    BY <2>7, <2>8, <2>9, <2>10 DEF Distinct
<1>12. Bounded'
  BY <1>1, <1>7, <1>8, BoundedStays DEF Waiting
<1>13. ASSUME NEW inc \in Incidents, inc # i PROVE Sound(inc)'
  <2>1. h \notin Investigators(inc) /\ h \notin Investigators(inc)'
    BY <1>3, <1>8, <1>13 DEF Investigators
  <2>2. RowsOf(inc)' = RowsOf(inc) /\ Starts(inc)' = Starts(inc)
    BY <1>6, <1>13
  <2>3. \A k \in RowsOf(inc) : rows'[k] = rows[k]
    BY <1>6 DEF RowsOf
  <2> QED
    BY <1>1, <1>8, <2>1, <2>2, <2>3, OthersSound
<1>14. Sound(i)'
  <2>1. HasLatest(i) /\ Truthful(i)
    BY DEF IInv, Sound
  <2>2. Starts(i) \cup {0} \in SUBSET Nat
    BY <1>2, RowType DEF Starts, RowsOf
  <2>3. /\ Latest(i) = Max(Starts(i) \cup {0}) /\ Latest(i) \in Starts(i) \cup {0}
        /\ \A x \in Starts(i) \cup {0} : Latest(i) >= x
    BY <2>1, <2>2, LatestOfStarts DEF HasLatest
  <2>4. Latest(i)' = Max((Starts(i) \cup {0}) \cup {row.started})
    <3>1. Latest(i)' = Max(Starts(i)' \cup {0})
      BY DEF Latest, Starts
    <3>2. Starts(i)' \cup {0} = (Starts(i) \cup {0}) \cup {row.started}
      BY <1>6
    <3> QED
      BY <3>1, <3>2
  <2>5. /\ Latest(i)' = IF row.started > Latest(i) THEN row.started ELSE Latest(i)
        /\ Latest(i)' \in (Starts(i) \cup {0}) \cup {row.started}
        /\ \A x \in (Starts(i) \cup {0}) \cup {row.started} : Latest(i)' >= x
    BY <1>5, <2>2, <2>3, <2>4, MaxExtends
  <2>6. HasLatest(i)'
    BY <1>6, <2>5 DEF HasLatest
  <2>7. Investigators(i)' = Investigators(i)
    BY <1>1, <1>3, <1>8 DEF Investigators, StepOf, Marked
  <2>8. Truthful(i)'
    <3>1. \A k \in RowsOf(i) : k \in RowsOf(i)' /\ rows'[k] = rows[k]
      BY <1>6 DEF RowsOf
    <3> QED
      BY <1>1, <2>1, <2>7, <3>1 DEF Truthful
  <2>9. ASSUME i \notin overlapped' PROVE Undisturbed(i)'
    <3>1. Investigators(i) = {h} /\ incidents[i] = "investigating" /\ Undisturbed(i)
      BY <1>1, <1>3, <2>9 DEF IInv, Sound
    <3>2. \A x \in Starts(i) : x < row.started
      BY <1>1, <1>5, <3>1 DEF Undisturbed, Starts
    <3>3. row.started > Latest(i)
      BY <1>5, <2>3, <3>2
    <3>4. Latest(i)' = job'[h].started
      BY <1>5, <1>8, <2>5, <3>3
    <3> QED
      BY <1>1, <1>8, <2>7, <3>1, <3>4 DEF Undisturbed
  <2> QED
    BY <2>6, <2>8, <2>9 DEF Sound
<1> QED
  BY <1>7, <1>10, <1>11, <1>12, <1>13, <1>14 DEF IInv

LEMMA RememberStep ==
  ASSUME IInv, NEW h \in Handlers, NEW i \in Incidents, Remember(h, i)
  PROVE  IInv'
<1>1. /\ pc[h] = "idle" /\ pc' = [pc EXCEPT ![h] = "remembering"]
      /\ incidents[i] # None
      /\ job' = [job EXCEPT ![h].incident = i,
                            ![h].started = IF Latest(i) = 0 THEN None ELSE Latest(i)]
      /\ UNCHANGED <<incidents, rows, accepted, clock, stranded, overlapped>>
  BY DEF Remember, Goto, history
<1>2. TypeOK
  BY DEF IInv
<1>3. Latest(i) \in Ids \cup {0}
  <2>1. Latest(i) \in Starts(i) \cup {0}
    BY DEF IInv, Sound, HasLatest
  <2>2. Starts(i) \subseteq Ids
    BY <1>2, RowType DEF Starts, RowsOf, Row
  <2> QED
    BY <2>1, <2>2
<1>4. TypeOK'
  <2>1. PICK s \in Ids \cup {None} : s = IF Latest(i) = 0 THEN None ELSE Latest(i)
    BY <1>3
  <2>2. job' = [job EXCEPT ![h] = [job[h] EXCEPT !.incident = i, !.started = s]]
    BY <1>1, <1>2, <2>1 DEF TypeOK
  <2>3. [job[h] EXCEPT !.incident = i, !.started = s] \in Jobs
    BY <1>2, <2>1 DEF TypeOK, Jobs
  <2>4. job' \in [Handlers -> Jobs]
    BY <1>2, <2>2, <2>3 DEF TypeOK
  <2>5. pc' \in [Handlers -> Places]
    BY <1>1, <1>2 DEF TypeOK, Places
  <2> QED
    BY <1>1, <1>2, <2>4, <2>5 DEF TypeOK
<1>5. StepOf(h) /\ pc'[h] = "remembering" /\ job'[h].incident = i
  BY <1>1, <1>2 DEF StepOf, TypeOK, Jobs
<1>6. Knows(h)'
  BY <1>1, <1>5 DEF Knows
<1>7. Bounded'
  BY <1>1, <1>4, <1>5, BoundedStays DEF Waiting
<1> QED
  BY <1>1, <1>4, <1>5, <1>6, <1>7, BystanderStep DEF Marked

\* A request that is in charge of nothing leaves.
LEMMA UnmarkedLeaveStep ==
  ASSUME IInv, NEW h \in Handlers, pc[h] \notin Marked, Leave(h),
         UNCHANGED <<incidents, rows, accepted, clock, stranded, overlapped>>
  PROVE  IInv'
<1>1. /\ pc' = [pc EXCEPT ![h] = "idle"] /\ job' = [job EXCEPT ![h] = NoJob]
      /\ TypeOK
  BY DEF Leave, Goto, IInv
<1>2. TypeOK'
  <2>1. job' \in [Handlers -> Jobs] /\ pc' \in [Handlers -> Places]
    BY <1>1 DEF TypeOK, Jobs, NoJob, Places
  <2> QED
    BY <1>1, <2>1 DEF TypeOK
<1>3. StepOf(h) /\ pc'[h] = "idle"
  BY <1>1 DEF StepOf, TypeOK
<1>4. Knows(h)'
  BY <1>3 DEF Knows
<1>5. Bounded'
  BY <1>2, <1>3, BoundedStays DEF Waiting
<1> QED
  BY <1>2, <1>3, <1>4, <1>5, BystanderStep DEF Marked

LEMMA SaveMemoryStep ==
  ASSUME IInv, NEW h \in Handlers, SaveMemory(h)
  PROVE  IInv'
  BY UnmarkedLeaveStep DEF SaveMemory, history, Marked

LEMMA AbortStep ==
  ASSUME IInv, NEW h \in Handlers, Abort(h)
  PROVE  IInv'
<1>1. CASE pc[h] \in Marked
  BY <1>1, StrandStep DEF Abort
<1>2. CASE pc[h] \notin Marked
  BY <1>2, UnmarkedLeaveStep DEF Abort
<1> QED
  BY <1>1, <1>2

LEMMA StepInv == IInv /\ [Next]_vars => IInv'
<1> SUFFICES ASSUME IInv, [Next]_vars PROVE IInv'
  OBVIOUS
<1>1. CASE UNCHANGED vars
  <2>1. /\ UNCHANGED <<incidents, rows, accepted, clock, pc, job, stranded, overlapped>>
    BY <1>1 DEF vars, history
  <2>2. ASSUME NEW inc \in Incidents PROVE Sound(inc)'
    <3>1. /\ RowsOf(inc)' = RowsOf(inc) /\ Starts(inc)' = Starts(inc)
          /\ Latest(inc)' = Latest(inc) /\ Investigators(inc)' = Investigators(inc)
      BY <2>1, SameRows DEF Investigators
    <3> QED
      BY <2>1, <3>1 DEF IInv, Sound, HasLatest, Truthful, Undisturbed
  <2>3. \A h \in Handlers : Knows(h)'
    BY <2>1 DEF IInv, Knows
  <2>4. TypeOK' /\ Distinct' /\ Bounded'
    BY <2>1 DEF IInv, TypeOK, Distinct, Bounded, UnderWay, Waiting
  <2> QED
    BY <2>2, <2>3, <2>4 DEF IInv
<1>2. ASSUME NEW i \in Incidents, CreateIncident(i) PROVE IInv'
  BY <1>2, CreateIncidentStep
<1>3. ASSUME NEW h \in Handlers, NEW i \in Incidents, Investigate(h, i) \/ Remember(h, i)
      PROVE  IInv'
  BY <1>3, InvestigateStep, RememberStep
<1>4. ASSUME NEW h \in Handlers, Proceed(h) PROVE IInv'
  BY <1>4, MarkStep, StartRunStep, RunEndsStep, RunRaisesStep, ReopenStep,
     SaveInvestigationStep, SaveRefusedStep, CloseIncidentStep, SaveMemoryStep DEF Proceed
<1>5. ASSUME NEW h \in Handlers, Abort(h) PROVE IInv'
  BY <1>5, AbortStep
<1> QED
  BY <1>1, <1>2, <1>3, <1>4, <1>5 DEF Next

LEMMA Invariance == Spec => []IInv
  BY InitInv, StepInv, PTL DEF Spec

---------------------------------------------------------------------------
(* Theorems *)

\* However many requests overlap on an incident, the last of them to finish
\* settles its status: the mark outlives its investigations only where a request
\* was lost or could not store its result, and only until the row is next written.
THEOREM MarksAreHonest == Spec => []MarkedIsInvestigated
<1>1. IInv => MarkedIsInvestigated
  BY DEF IInv, Sound, Truthful, MarkedIsInvestigated
<1> QED
  BY <1>1, Invariance, PTL

\* An incident is never published as diagnosed without a completed
\* investigation, and shows the latest one unless two of them overlapped.
THEOREM DiagnosesAreStored == Spec => []DiagnosedHasDiagnosis
<1>1. ASSUME IInv PROVE DiagnosedHasDiagnosis
  <2> SUFFICES ASSUME NEW inc \in Incidents, incidents[inc] = "diagnosed"
               PROVE  \E k \in RowsOf(inc) :
                        /\ rows[k].result.status = "completed"
                        /\ inc \notin overlapped /\ Investigators(inc) = {} =>
                             rows[k].started = Latest(inc)
    BY DEF DiagnosedHasDiagnosis
  <2>1. CASE inc \in overlapped
    BY <1>1, <2>1 DEF IInv, Sound, Truthful
  <2>2. CASE inc \notin overlapped
    BY <1>1, <2>2 DEF IInv, Sound, Undisturbed
  <2> QED
    BY <2>1, <2>2
<1> QED
  BY <1>1, Invariance, PTL

---------------------------------------------------------------------------
(* The service implements its store *)

Known == {inc \in Incidents : incidents[inc] # None}
Latests == [inc \in Incidents |-> Latest(inc)]

\* What the store holds of an investigation is its one row.
LEMMA StoredRow ==
  ASSUME TypeOK, Distinct, NEW k \in DOMAIN rows
  PROVE  StoredAs(rows[k].started) =
           [incident |-> rows[k].incident, result |-> rows[k].result]
<1>1. PICK s : s = rows[k].started
  OBVIOUS
<1>2. \A l \in DOMAIN rows : rows[l].started = s => l = k
  BY <1>1 DEF Distinct
<1>3. (CHOOSE l \in DOMAIN rows : rows[l].started = s) = k
  BY <1>1, <1>2
<1>4. StoredAs(s) = [incident |-> rows[k].incident, result |-> rows[k].result]
  BY <1>1, <1>3 DEF StoredAs
<1> QED
  BY <1>1, <1>4

\* Steps that neither open an incident nor insert a row.
LEMMA NothingStored ==
  ASSUME rows' = rows, Known' = Known
  PROVE  UNCHANGED Store!svars
<1>1. \A i \in Ids : StoredAs(i)' = StoredAs(i)
  BY DEF StoredAs
<1>2. \A inc \in Incidents : Latest(inc)' = Latest(inc)
  BY SameRows
<1> QED
  BY <1>1, <1>2 DEF Store!svars, Known

\* A status that is written is a status: the incident stays known.
LEMMA StillKnown ==
  ASSUME TypeOK, NEW i \in Incidents, incidents[i] # None, NEW s \in IncidentStatuses,
         incidents' = [incidents EXCEPT ![i] = s]
  PROVE  Known' = Known
  BY LifecycleAssumption DEF TypeOK, Known

\* A request that is in its course works on a known incident.
LEMMA WorksOnKnown ==
  ASSUME IInv, NEW h \in Handlers, pc[h] # "idle"
  PROVE  job[h].incident \in Incidents /\ incidents[job[h].incident] # None
  BY DEF IInv, Knows

\* An insert stores the investigation, whose start was not stored before, and
\* displaces the latest only if it started later.
LEMMA InsertStores ==
  ASSUME IInv, NEW h \in Handlers, SaveInvestigation(h)
  PROVE  Store!SNext
<1>1. /\ pc[h] = "saving" /\ rows' = Append(rows, job[h]) /\ incidents' = incidents
      /\ IInv' /\ TypeOK /\ Distinct /\ Distinct' /\ TypeOK' /\ Knows(h)
  BY SaveInvestigationStep DEF SaveInvestigation, IInv
<1>2. PICK row \in Row : row = job[h]
  BY <1>1 DEF TypeOK, Knows, Jobs, Row
<1>3. PICK inc \in Incidents, i \in Ids, r \in Results :
        inc = row.incident /\ i = row.started /\ r = row.result
  BY DEF Row
<1>4. /\ DOMAIN rows' = DOMAIN rows \cup {Len(rows) + 1}
      /\ rows'[Len(rows) + 1] = row
      /\ \A k \in DOMAIN rows : rows'[k] = rows[k]
      /\ \A j \in Incidents :
           Starts(j)' = IF j = inc THEN Starts(j) \cup {i} ELSE Starts(j)
  <2>1. rows' = Append(rows, row)
    BY <1>1, <1>2
  <2> QED
    BY <1>1, <1>3, <2>1, Insert
<1>5. inc \in Known
  BY <1>1, <1>2, <1>3, WorksOnKnown DEF Known
<1>6. \A k \in DOMAIN rows : rows[k].started # i
  BY <1>1, <1>2, <1>3 DEF Distinct, UnderWay
<1>7. StoredAs(i) = None
  BY <1>6 DEF StoredAs
<1>8. StoredAs(i)' = [incident |-> inc, result |-> r]
  <2>1. PICK n \in DOMAIN rows' : rows'[n] = row
    BY <1>4
  <2>2. \A l \in DOMAIN rows' : rows'[l].started = i => l = n
    BY <1>1, <1>3, <2>1 DEF Distinct
  <2>3. (CHOOSE l \in DOMAIN rows' : rows'[l].started = i) = n
    BY <1>3, <2>1, <2>2
  <2> QED
    BY <1>3, <2>1, <2>3 DEF StoredAs
<1>9. ASSUME NEW j \in Ids, j # i PROVE StoredAs(j)' = StoredAs(j)
  <2>1. ASSUME NEW k \in DOMAIN rows, rows[k].started = j
        PROVE  StoredAs(j)' = StoredAs(j)
    <3>1. StoredAs(j) = [incident |-> rows[k].incident, result |-> rows[k].result]
      BY <1>1, <2>1, StoredRow
    <3>2. k \in DOMAIN rows' /\ rows'[k] = rows[k]
      BY <1>4
    <3>3. \A l \in DOMAIN rows' : rows'[l].started = j => l = k
      BY <1>1, <2>1, <3>2 DEF Distinct
    <3>4. (CHOOSE l \in DOMAIN rows' : rows'[l].started = j) = k
      BY <2>1, <3>2, <3>3
    <3> QED
      BY <2>1, <3>1, <3>2, <3>4 DEF StoredAs
  <2>2. ASSUME \A k \in DOMAIN rows : rows[k].started # j
        PROVE  StoredAs(j)' = StoredAs(j)
    <3>1. \A k \in DOMAIN rows' : rows'[k].started # j
      BY <1>3, <1>4, <1>9, <2>2
    <3> QED
      BY <2>2, <3>1 DEF StoredAs
  <2> QED
    BY <2>1, <2>2
<1>10. ASSUME NEW j \in Incidents
       PROVE  Latest(j)' = IF j = inc /\ i > Latest(j) THEN i ELSE Latest(j)
  <2>1. /\ Latest(j) = Max(Starts(j) \cup {0}) /\ Latest(j)' = Max(Starts(j)' \cup {0})
    BY DEF Latest, Starts
  <2>2. CASE j # inc
    BY <1>4, <2>1, <2>2
  <2>3. CASE j = inc
    <3>1. Starts(j) \cup {0} \in SUBSET Nat
      BY <1>1, RowType DEF Starts, RowsOf
    <3>2. /\ Max(Starts(j) \cup {0}) \in Starts(j) \cup {0}
          /\ \A x \in Starts(j) \cup {0} : Max(Starts(j) \cup {0}) >= x
      <4>1. HasLatest(j) /\ Latest(j) \in Nat
        BY <2>1, <3>1 DEF IInv, Sound, HasLatest
      <4> QED
        BY <2>1, <4>1 DEF HasLatest
    <3>3. i \in Nat
      BY DEF Ids
    <3>4. Max((Starts(j) \cup {0}) \cup {i}) =
            IF i > Max(Starts(j) \cup {0}) THEN i ELSE Max(Starts(j) \cup {0})
      BY <3>1, <3>2, <3>3, MaxExtends
    <3>5. Starts(j)' \cup {0} = (Starts(j) \cup {0}) \cup {i}
      BY <1>4, <2>3
    <3> QED
      BY <2>1, <2>3, <3>4, <3>5
  <2> QED
    BY <2>2, <2>3
<1>11. Store!Store(i, inc, r)
  <2>1. [j \in Ids |-> StoredAs(j)]' =
          [[j \in Ids |-> StoredAs(j)] EXCEPT ![i] = [incident |-> inc, result |-> r]]
    BY <1>8, <1>9
  <2>2. Latests' = [Latests EXCEPT ![inc] = IF i > @ THEN i ELSE @]
    BY <1>10 DEF Latests
  <2>3. Known' = Known
    BY <1>1 DEF Known
  <2> HIDE DEF StoredAs, Latest
  <2> QED
    BY <1>5, <1>7, <2>1, <2>2, <2>3 DEF Store!Store, Known, Latests
<1> QED
  BY <1>11 DEF Store!SNext

\* For any number of requests, incidents and crashes the service implements its
\* store: investigations appear once, whole, for known incidents, never change,
\* and the latest that is read never goes back.
THEOREM ServiceImplementsStore == Spec => ImplementsStore
<1>1. Init => Store!SInit
  <2> SUFFICES ASSUME Init PROVE Store!SInit
    OBVIOUS
  <2>1. ASSUME NEW inc \in Incidents PROVE Latest(inc) = 0
    <3>1. RowsOf(inc) = {}
      BY DEF Init, RowsOf
    <3>2. Starts(inc) \cup {0} = {0}
      BY <3>1 DEF Starts
    <3>3. Max({0}) = 0
      BY GreatestIsMax
    <3> QED
      BY <3>2, <3>3, LatestOfStarts
  <2>2. \A i \in Ids : StoredAs(i) = None
    BY DEF Init, StoredAs
  <2>3. Known = {}
    BY DEF Init, Known
  <2> QED
    BY <2>1, <2>2, <2>3 DEF Store!SInit, Known
<1>2. IInv /\ [Next]_vars => [Store!SNext]_(Store!svars)
  <2> SUFFICES ASSUME IInv, [Next]_vars
               PROVE  Store!SNext \/ UNCHANGED Store!svars
    OBVIOUS
  <2>1. TypeOK
    BY DEF IInv
  <2>2. ASSUME NEW i \in Incidents, CreateIncident(i) PROVE Store!SNext
    <3>1. /\ incidents[i] = None /\ incidents' = [incidents EXCEPT ![i] = "open"]
          /\ rows' = rows
      BY <2>2 DEF CreateIncident, SaveIncident
    <3>2. i \notin Known /\ Known' = Known \cup {i}
      BY <2>1, <3>1, LifecycleAssumption DEF Known, TypeOK, IncidentStatuses
    <3>3. \A j \in Ids : StoredAs(j)' = StoredAs(j)
      BY <3>1 DEF StoredAs
    <3>4. \A inc \in Incidents : Latest(inc)' = Latest(inc)
      BY <3>1, SameRows
    <3>5. Store!Open(i)
      BY <3>2, <3>3, <3>4 DEF Store!Open, Known
    <3> QED
      BY <3>5 DEF Store!SNext
  <2>3. ASSUME NEW h \in Handlers, NEW i \in Incidents, NEW s \in IncidentStatuses,
               pc[h] # "idle", i = job[h].incident,
               incidents' = [incidents EXCEPT ![i] = s], rows' = rows
        PROVE  UNCHANGED Store!svars
    BY <2>1, <2>3, WorksOnKnown, StillKnown, NothingStored
  <2>4. ASSUME NEW h \in Handlers,
               MarkInvestigating(h) \/ Reopen(h) \/ CloseIncident(h)
        PROVE  UNCHANGED Store!svars
    <3>1. pc[h] # "idle" /\ rows' = rows
      BY <2>4 DEF MarkInvestigating, Reopen, CloseIncident
    <3>2. PICK i \in Incidents : i = job[h].incident
      BY <3>1, WorksOnKnown
    <3>3. PICK s \in IncidentStatuses : incidents' = [incidents EXCEPT ![i] = s]
      BY <2>4, <3>2
      DEF MarkInvestigating, Reopen, CloseIncident, SaveIncident, IncidentStatuses
    <3> QED
      BY <2>3, <3>1, <3>2, <3>3
  <2>5. ASSUME UNCHANGED <<incidents, rows>> PROVE UNCHANGED Store!svars
    BY <2>5, NothingStored DEF Known
  <2>6. ASSUME NEW h \in Handlers, Proceed(h)
        PROVE  Store!SNext \/ UNCHANGED Store!svars
    <3>1. CASE SaveInvestigation(h)
      BY <3>1, InsertStores
    <3>2. CASE MarkInvestigating(h) \/ Reopen(h) \/ CloseIncident(h)
      BY <2>4, <3>2
    <3>3. CASE StartRun(h) \/ (\E r \in Results : RunEnds(h, r)) \/ RunRaises(h)
                 \/ SaveRefused(h) \/ SaveMemory(h)
      BY <2>5, <3>3 DEF StartRun, RunEnds, RunRaises, SaveRefused, SaveMemory
    <3> QED
      BY <2>6, <3>1, <3>2, <3>3 DEF Proceed
  <2>7. ASSUME NEW h \in Handlers, NEW i \in Incidents, Investigate(h, i) \/ Remember(h, i)
        PROVE  UNCHANGED Store!svars
    BY <2>5, <2>7 DEF Investigate, Remember
  <2>8. ASSUME NEW h \in Handlers, Abort(h) PROVE UNCHANGED Store!svars
    BY <2>5, <2>8 DEF Abort
  <2>9. CASE UNCHANGED vars
    BY <2>5, <2>9 DEF vars
  <2> QED
    BY <2>2, <2>6, <2>7, <2>8, <2>9 DEF Next
<1> QED
  BY <1>1, <1>2, Invariance, PTL DEF Spec, ImplementsStore, Store!SSpec
=============================================================================
