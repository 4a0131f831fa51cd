------------------------ MODULE InvestigationLifecycle ------------------------
(***************************************************************************)
(* The investigation service of RootLens: incidents are opened, and        *)
(* requests of several replicas investigate them.  An investigation marks  *)
(* its incident, runs for minutes, and then writes the investigation and   *)
(* the incident in two transactions; nothing keeps two requests from       *)
(* investigating one incident at once, and the incident's row is           *)
(* overwritten whole each time.  Every await is a step of its own.         *)
(***************************************************************************)
EXTENDS Naturals, Sequences, SequencesExt

CONSTANTS
  Handlers,             \* request coroutines, over all the replicas
  Incidents,
  MaxInvestigations,    \* bound: investigate requests accepted
  Results,              \* what the runner may return, see ResultRecord
  CanAbort,             \* requests may be cancelled or die with a replica
  None                  \* absent value

Ids == 1 .. MaxInvestigations           \* started_at, in order

IncidentStatuses == {"open", "investigating", "diagnosed"}

\* The runner's result: its status, and whether the database accepts its rows
\* (two hypotheses with one identifier violate their table's primary key).
ResultRecord == [status : {"completed", "budget_exhausted"}, storable : BOOLEAN]

ASSUME LifecycleAssumption ==
  /\ MaxInvestigations \in Nat
  /\ Results \subseteq ResultRecord
  /\ CanAbort \in BOOLEAN
  /\ None \notin IncidentStatuses
  /\ None \notin Ids /\ None \notin Incidents /\ None \notin Results
  /\ None \notin [incident : Incidents, result : Results]

VARIABLES
  incidents,            \* status column of each incident, None before it exists
  rows,                 \* table investigations, in the order of the inserts
  memory,               \* table historical_incidents
  accepted,             \* number of investigate requests so far
  clock,                \* started_at of the last investigation started
  pc,                   \* where each handler is
  job,                  \* incident, start and result of each handler
  stranded,             \* history: incidents left behind and not written since
  overlapped            \* history: incidents with two investigations at once

history == <<stranded, overlapped>>
vars == <<incidents, rows, memory, accepted, clock, pc, job, history>>

NoJob == [incident |-> None, started |-> None, result |-> None]

---------------------------------------------------------------------------
(* Reads *)

RowsOf(inc) == {k \in DOMAIN rows : rows[k].incident = inc}

\* Mutant: the row inserted last is taken for the latest investigation.
LatestInserted(inc) ==
  IF RowsOf(inc) = {} THEN 0 ELSE rows[Max(RowsOf(inc))].started

\* ORDER BY started_at DESC LIMIT 1: the start of the latest investigation.
Latest(inc) == Max({rows[k].started : k \in RowsOf(inc)} \cup {0})

---------------------------------------------------------------------------
(* Operations *)

Init ==
  /\ incidents = [inc \in Incidents |-> None]
  /\ rows = <<>>
  /\ memory = {}
  /\ accepted = 0
  /\ clock = 0
  /\ pc = [h \in Handlers |-> "idle"]
  /\ job = [h \in Handlers |-> NoJob]
  /\ stranded = {} /\ overlapped = {}

Goto(h, label) == pc' = [pc EXCEPT ![h] = label]

\* The request returns or raises.
Leave(h) == Goto(h, "idle") /\ job' = [job EXCEPT ![h] = NoJob]

\* save_incident: the whole row is written, whatever it holds by now, and the
\* incident is in somebody's hands again.
SaveIncident(inc, s) ==
  /\ incidents' = [incidents EXCEPT ![inc] = s]
  /\ stranded' = stranded \ {inc}

CreateIncident(inc) ==
  /\ incidents[inc] = None
  /\ SaveIncident(inc, "open")
  /\ UNCHANGED <<rows, memory, accepted, clock, pc, job, overlapped>>

\* investigate reads the incident.
Investigate(h, inc) ==
  /\ pc[h] = "idle"
  /\ accepted < MaxInvestigations
  /\ incidents[inc] # None
  /\ accepted' = accepted + 1
  /\ job' = [job EXCEPT ![h].incident = inc]
  /\ Goto(h, "marking")
  /\ UNCHANGED <<incidents, rows, memory, clock, history>>

\* A request is in charge of its incident from the mark to its last write.
Marked == {"starting", "running", "reopening", "saving", "closing"}

Investigators(inc) == {h \in Handlers : pc[h] \in Marked /\ job[h].incident = inc}

\* Mutant: the incident keeps its status while it is investigated anew.
RunUnmarked(h) ==
  /\ pc[h] = "marking"
  /\ Goto(h, "starting")
  /\ overlapped' = IF Investigators(job[h].incident) = {} THEN overlapped
                   ELSE overlapped \cup {job[h].incident}
  /\ UNCHANGED <<incidents, rows, memory, accepted, clock, job, stranded>>

MarkInvestigating(h) ==
  /\ pc[h] = "marking"
  /\ SaveIncident(job[h].incident, "investigating")
  /\ Goto(h, "starting")
  /\ overlapped' = IF Investigators(job[h].incident) = {} THEN overlapped
                   ELSE overlapped \cup {job[h].incident}
  /\ UNCHANGED <<rows, memory, accepted, clock, job>>

\* The runner takes its identifier and started_at.
StartRun(h) ==
  /\ pc[h] = "starting"
  /\ clock' = clock + 1
  /\ job' = [job EXCEPT ![h].started = clock + 1]
  /\ Goto(h, "running")
  /\ UNCHANGED <<incidents, rows, memory, accepted, history>>

RunEnds(h, result) ==
  /\ pc[h] = "running"
  /\ job' = [job EXCEPT ![h].result = result]
  /\ Goto(h, "saving")
  /\ UNCHANGED <<incidents, rows, memory, accepted, clock, history>>

\* Mutant: a failed run only raises.
RunRaisesToClient(h) ==
  /\ pc[h] = "running"
  /\ Leave(h)
  /\ UNCHANGED <<incidents, rows, memory, accepted, clock, history>>

\* The runner raises: model provider, memory search, an invalid value.
RunRaises(h) ==
  /\ pc[h] = "running"
  /\ Goto(h, "reopening")
  /\ UNCHANGED <<incidents, rows, memory, accepted, clock, job, history>>

Reopen(h) ==
  /\ pc[h] = "reopening"
  /\ SaveIncident(job[h].incident, "open")
  /\ Leave(h)
  /\ UNCHANGED <<rows, memory, accepted, clock, overlapped>>

\* Mutant: the new investigation takes the place of the incident's earlier one.
SaveReplacing(h) ==
  /\ pc[h] = "saving"
  /\ job[h].result.storable
  /\ LET Others(row) == row.incident # job[h].incident
     IN rows' = Append(SelectSeq(rows, Others), job[h])
  /\ Goto(h, "closing")
  /\ UNCHANGED <<incidents, memory, accepted, clock, job, history>>

\* save_investigation: one transaction over the six tables.
SaveInvestigation(h) ==
  /\ pc[h] = "saving"
  /\ job[h].result.storable
  /\ rows' = Append(rows, job[h])
  /\ Goto(h, "closing")
  /\ UNCHANGED <<incidents, memory, accepted, clock, job, history>>

\* The transaction is rolled back and the error reaches the client: this write
\* is not inside the try block that reopens the incident.
SaveRefused(h) ==
  /\ pc[h] = "saving"
  /\ ~job[h].result.storable
  /\ Leave(h)
  /\ stranded' = stranded \cup {job[h].incident}
  /\ UNCHANGED <<incidents, rows, memory, accepted, clock, overlapped>>

\* Mutant: every finished run counts as a diagnosis.
CloseAlwaysDiagnosed(h) ==
  /\ pc[h] = "closing"
  /\ SaveIncident(job[h].incident, "diagnosed")
  /\ Leave(h)
  /\ UNCHANGED <<rows, memory, accepted, clock, overlapped>>

CloseIncident(h) ==
  /\ pc[h] = "closing"
  /\ SaveIncident(job[h].incident,
       IF job[h].result.status = "completed" THEN "diagnosed" ELSE "open")
  /\ Leave(h)
  /\ UNCHANGED <<rows, memory, accepted, clock, overlapped>>

\* remember reads the incident and its latest investigation.
Remember(h, inc) ==
  /\ pc[h] = "idle"
  /\ incidents[inc] # None
  /\ job' = [job EXCEPT ![h].incident = inc,
                        ![h].started = IF Latest(inc) = 0 THEN None ELSE Latest(inc)]
  /\ Goto(h, "remembering")
  /\ UNCHANGED <<incidents, rows, memory, accepted, clock, history>>

SaveMemory(h) ==
  /\ pc[h] = "remembering"
  /\ memory' = memory \cup
       {[incident |-> job[h].incident, evidence |-> job[h].started]}
  /\ Leave(h)
  /\ UNCHANGED <<incidents, rows, accepted, clock, history>>

\* Cancellation is no Exception: no handler of investigate sees it.
Abort(h) ==
  /\ CanAbort
  /\ pc[h] # "idle"
  /\ Leave(h)
  /\ stranded' = IF pc[h] \in Marked THEN stranded \cup {job[h].incident}
                 ELSE stranded
  /\ UNCHANGED <<incidents, rows, memory, accepted, clock, overlapped>>

Proceed(h) ==
  \/ MarkInvestigating(h) \/ StartRun(h)
  \/ \E r \in Results : RunEnds(h, r)
  \/ RunRaises(h) \/ Reopen(h)
  \/ SaveInvestigation(h) \/ SaveRefused(h) \/ CloseIncident(h)
  \/ SaveMemory(h)

Next ==
  \/ \E inc \in Incidents : CreateIncident(inc)
  \/ \E h \in Handlers :
       \/ \E inc \in Incidents : Investigate(h, inc) \/ Remember(h, inc)
       \/ Proceed(h) \/ Abort(h)

Spec == Init /\ [][Next]_vars

\* The event loop keeps running a request; every await of it has a timeout.
FairSpec == Spec /\ \A h \in Handlers : WF_vars(Proceed(h))

---------------------------------------------------------------------------
(* Properties *)

\* An incident that says "investigating" is being investigated, or its row was
\* not written since a request for it was lost or could not store its result:
\* overlapping investigations do not leave the mark behind by themselves, and
\* the next investigation is in charge of a mark that was left behind.
MarkedIsInvestigated ==
  \A inc \in Incidents \ stranded : incidents[inc] = "investigating" =>
    Investigators(inc) # {}

\* A diagnosed incident has a completed investigation to show: the status is
\* never published before, or without, the diagnosis it announces.  At rest, and
\* if its investigations never overlapped, that diagnosis is the latest.
DiagnosedHasDiagnosis ==
  \A inc \in Incidents : incidents[inc] = "diagnosed" =>
    \E k \in RowsOf(inc) :
      /\ rows[k].result.status = "completed"
      /\ inc \notin overlapped /\ Investigators(inc) = {} =>
           rows[k].started = Latest(inc)

\* An incident does not stay "investigating", unless a request for it was lost
\* or its result could not be stored: a mark that was left behind goes with the
\* next investigation.
InvestigationsConclude ==
  \A inc \in Incidents :
    incidents[inc] = "investigating" ~>
      incidents[inc] # "investigating" \/ inc \in stranded

\* The stored investigations, as the rest of the system sees them.
StoredAs(i) ==
  IF \E k \in DOMAIN rows : rows[k].started = i
  THEN LET k == CHOOSE k \in DOMAIN rows : rows[k].started = i
       IN [incident |-> rows[k].incident, result |-> rows[k].result]
  ELSE None

Store == INSTANCE InvestigationStore WITH
  known <- {inc \in Incidents : incidents[inc] # None},
  stored <- [i \in Ids |-> StoredAs(i)],
  latest <- [inc \in Incidents |-> Latest(inc)]

\* Investigations appear once, whole, for known incidents, and never change, and
\* one that is stored late never displaces the diagnosis that operators and
\* remediation see.
ImplementsStore == Store!SSpec
=============================================================================
