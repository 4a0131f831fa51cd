---------------------------- MODULE EvidenceTools ----------------------------
(***************************************************************************)
(* The four tools that turn telemetry into evidence, at work for one       *)
(* investigation: their queries, which end in any order or fail, the       *)
(* anomaly snapshot they save, their bundles and audits, and the runner's  *)
(* timer.  Times are minutes, confidences 600ths.                          *)
(***************************************************************************)
EXTENDS AnomalyEngine

CONSTANTS
  Worlds,               \* what the backends may hold, numbered
  WindowStart, WindowEnd,
  Lookback,             \* how far before the window a change may be
  Cap                   \* evidence a tool returns at most

ASSUME ToolsAssumption ==
  /\ WindowStart \in Nat /\ WindowEnd \in Nat /\ WindowStart < WindowEnd
  /\ Lookback \in Nat /\ Cap \in Nat \ {0}
  /\ Signals \in Seq((Names \cap STRING) \ {"graph", "lines"})
  /\ MinimumScore <= 210    \* the metrics tool asks for 0.35

VARIABLES
  mode,                 \* whether one agent uses the tools, or four
  world,                \* the number of what the backends hold
  query,                \* idle, pending, answered, failed or cancelled
  tool,                 \* idle, running, saving, success, error or cut off
  bundle,               \* each tool's evidence and audit
  saved                 \* anomaly snapshots in the database

vars == <<mode, world, query, tool, bundle, saved>>

ToolOrder == <<"metrics", "traces", "logs", "changes">>

Tools == ToSet(ToolOrder)

\* The order in which the metric queries are gathered.
MetricQueries ==
  [i \in 1 .. 2 * Len(Signals) |->
     <<Signals[(i + 1) \div 2], IF i % 2 = 1 THEN "baseline" ELSE "incident">>]

QueriesOf(t) ==
  CASE t = "metrics" -> ToSet(MetricQueries)
    [] t = "traces" -> {<<"graph", "incident">>}
    [] t = "logs" -> {<<"lines", "incident">>}
    [] t = "changes" -> {<<"events", "now">>, <<"deployments", "now">>}

Queries == UNION {QueriesOf(t) : t \in Tools}

\* What the clients return for the backends' answers in world w.
Parsed(w, q) ==
  CASE q \in QueriesOf("metrics") -> ParseQueryResponse(w.metrics[q])
    [] q = <<"graph", "incident">> -> w.edges
    [] q = <<"lines", "incident">> -> ParseStreamResponse(w.lines)
    [] q = <<"events", "now">> -> ListChangeEvents(w.events)
    [] q = <<"deployments", "now">> -> ListDeployments(w.deployments)

Data == [n \in DOMAIN Worlds |-> [q \in Queries |-> Parsed(Worlds[n], q)]]

Usable(n, t) == \A q \in QueriesOf(t) : Data[n][q] # Invalid

\* The items of usable answers.
ItemsOf(q) ==
  CASE q \in QueriesOf("metrics") ->
         [service : Names \cup {None},
          samples : Seq([at : Nat, value : Int \cup {NotFinite}])]
    [] q = <<"graph", "incident">> ->
         [caller : STRING, callee : STRING, errors : Nat, p95 : Nat, requests : Nat, first : Nat]
    [] q = <<"lines", "incident">> ->
         [service : STRING \cup {None}, entries : Seq([at : Nat, words : SUBSET STRING])]
    [] q = <<"events", "now">> -> [at : Nat \cup {None}, name : STRING, type : STRING]
    [] q = <<"deployments", "now">> ->
         [name : STRING, replicas : Nat \cup {None}, ready : Nat \cup {None}]

\* The queries of the catalog aggregate by service: an answer has one series of
\* each. The forest's scores are percentiles, in tenths.
ASSUME AnswersAssumption ==
  \A n \in DOMAIN Worlds :
    /\ \A q \in Queries : Data[n][q] # Invalid => Data[n][q] \in Seq(ItemsOf(q))
    /\ \A q \in QueriesOf("metrics") : Data[n][q] # Invalid =>
         /\ \A i, j \in DOMAIN Data[n][q] :
              Data[n][q][i].service = Data[n][q][j].service
                => i = j \/ Data[n][q][i].service = None
         /\ \A x \in ToSet(Data[n][q]) : q[2] = "incident" /\ x.service # None =>
              \A y \in ToSet(x.samples) : Worlds[n].percentile[x.service][y.at] \in 0 .. 10

Init ==
  /\ mode \in {"single_agent", "multi_agent"}
  /\ world \in DOMAIN Worlds
  /\ query = [q \in Queries |-> "idle"]
  /\ tool = [t \in Tools |-> "idle"]
  /\ bundle = [t \in Tools |-> None]
  /\ saved = {}

---------------------------------------------------------------------------
(* Evidence *)

\* The items at some places, in the order before of the places.
Arranged(items, places, before) ==
  [k \in 1 .. Cardinality(places) |-> items[InOrder(places, before)[k]]]

\* And in the order they have.
Selected(items, places) ==
  Arranged(items, places, [i \in places |-> {j \in places : j < i}])

Map(items, Make(_)) == [k \in DOMAIN items |-> Make(items[k])]

Evidence(source, service, signal, reference, confidence, at) ==
  [source |-> source, service |-> service, signal |-> signal, reference |-> reference,
   confidence |-> confidence, at |-> at]

\* The analysis of world n, if its windows have a series in common.
Analysis(n) ==
  LET responses == [i \in DOMAIN MetricQueries |->
                      [reference |-> MetricQueries[i], data |-> Data[n][MetricQueries[i]]]]
      collected == Collect(responses)
  IN IF collected = {} THEN None
     ELSE [Analyze(collected, Worlds[n].percentile) EXCEPT
             !.warnings = @ \cup Absent(responses)]

Snapshot ==
  [n \in DOMAIN Worlds |-> IF Usable(n, "metrics") THEN Analysis(n) ELSE None]

FromMetrics(n) ==
  Map(IF Snapshot[n] = None THEN <<>> ELSE Snapshot[n].anomalies,
      LAMBDA a : Evidence("metrics", a.service, a.signal,
        a.references[Len(a.references)], a.score, a.start))

\* Rates are percents and latencies milliseconds.
Significant(edge) == edge.errors >= 5 \/ edge.p95 >= 500

WorseEdge(a, b) ==
  \/ a.errors > b.errors
  \/ a.errors = b.errors /\ a.p95 > b.p95
  \/ a.errors = b.errors /\ a.p95 = b.p95 /\ a.requests > b.requests

EdgeConfidence(edge) == Min({600, 210 + 6 * edge.errors + (3 * edge.p95) \div 25})

\* The significant edges, the worst first; those as bad keep their order.
WorstEdges(edges) ==
  LET significant == {i \in DOMAIN edges : Significant(edges[i])}
      before == [i \in significant |->
        {j \in significant : \/ WorseEdge(edges[j], edges[i])
                             \/ j < i /\ ~WorseEdge(edges[i], edges[j])}]
  IN Arranged(edges, significant, before)

\* The caller, an attribute of the evidence, stands for its signal, which is
\* service_dependency for every edge.
FromTraces(n) ==
  Map(WorstEdges(Data[n][<<"graph", "incident">>]),
      LAMBDA edge : Evidence("traces", edge.callee, edge.caller, <<"graph", "incident">>,
                             EdgeConfidence(edge), edge.first))

\* A line's words are the failure categories it matches.
Matches(stream) == {i \in DOMAIN stream.entries : stream.entries[i].words # {}}

FromLogs(n) ==
  LET streams == Data[n][<<"lines", "incident">>]
  IN Map(Selected(streams, {i \in DOMAIN streams : Matches(streams[i]) # {}}),
      LAMBDA stream : Evidence("logs", stream.service, "error_log_pattern",
        <<"lines", "incident">>, Min({540, 240 + 6 * Cardinality(Matches(stream))}),
        Min({stream.entries[i].at : i \in Matches(stream)})))

\* Times can be compared: all have a zone, as the API server's have.
Recent(change) ==
  /\ change.at # None
  /\ WindowStart - Lookback <= change.at /\ change.at <= WindowEnd

\* Mutant: a deployment without any ready replica is not looked at.
UnreadyInPart(deployment) ==
  /\ deployment.replicas # None /\ deployment.ready # None
  /\ deployment.ready # deployment.replicas

Unready(deployment) ==
  deployment.replicas # None /\ deployment.ready # deployment.replicas

FromEvents(n) ==
  LET changes == Data[n][<<"events", "now">>]
  IN Map(Selected(changes, {i \in DOMAIN changes : Recent(changes[i])}),
      LAMBDA change : Evidence("changes", change.name, change.type, <<"events", "now">>,
                               330, change.at))

FromDeployments(n) ==
  LET deployments == Data[n][<<"deployments", "now">>]
  IN Map(Selected(deployments, {i \in DOMAIN deployments : Unready(deployments[i])}),
      LAMBDA deployment : Evidence("kubernetes", deployment.name, "deployment_readiness",
                                   <<"deployments", "now">>, 540, None))

FromChanges(n) == FromEvents(n) \o FromDeployments(n)

EvidenceOf(n, t) ==
  CASE t = "metrics" -> FromMetrics(n)
    [] t = "traces" -> FromTraces(n)
    [] t = "logs" -> FromLogs(n)
    [] t = "changes" -> FromChanges(n)

\* What the tools make of usable answers.
Found ==
  [n \in DOMAIN Worlds |-> [t \in Tools |->
     IF Usable(n, t) THEN EvidenceOf(n, t) ELSE <<>>]]

---------------------------------------------------------------------------
(* Tools *)

Kept(evidence) == SubSeq(evidence, 1, IF Len(evidence) < Cap THEN Len(evidence) ELSE Cap)

\* A bundle and its audit.
ToolBundle(status, evidence) ==
  [evidence |-> evidence,
   audit |-> [status |-> status, evidence_ids |-> ToSet(evidence)]]

ASSUME BundleAssumption ==
  \A n \in DOMAIN Worlds, t \in Tools :
    None \notin {ToolBundle("success", Kept(Found[n][t])), ToolBundle("error", <<>>)}

Bundle(t, status, evidence) ==
  /\ tool' = [tool EXCEPT ![t] = status]
  /\ bundle' = [bundle EXCEPT ![t] = ToolBundle(status, evidence)]

Succeed(t) == Bundle(t, "success", Kept(Found[world][t]))

Fail(t) == Bundle(t, "error", <<>>)

Begin(queries) ==
  query' = [q \in Queries |-> IF q \in queries THEN "pending" ELSE query[q]]

Start(tools) ==
  /\ \A t \in tools : tool[t] = "idle"
  /\ tool' = [t \in Tools |-> IF t \in tools THEN "running" ELSE tool[t]]
  /\ Begin(UNION {QueriesOf(t) : t \in tools} \ {<<"deployments", "now">>})
  /\ UNCHANGED <<mode, world, bundle, saved>>

\* Four agents use their tools at once, a single agent one after the other.
StartTools ==
  \/ mode = "multi_agent" /\ Start(Tools)
  \/ /\ mode = "single_agent"
     /\ \E i \in 1 .. 4 :
          /\ Start({ToolOrder[i]})
          /\ \A j \in 1 .. i - 1 : tool[ToolOrder[j]] \in {"success", "error"}

\* The deployments are asked for only once the events are there.
ListDeploymentsNext ==
  /\ tool["changes"] = "running"
  /\ query[<<"events", "now">>] = "answered"
  /\ query[<<"deployments", "now">>] = "idle"
  /\ Begin({<<"deployments", "now">>})
  /\ UNCHANGED <<mode, world, tool, bundle, saved>>

\* A query ends: with the parsed answer, or with the error of its transport or of
\* its parser.
EndQuery(q) ==
  /\ query[q] = "pending"
  /\ \/ Data[world][q] # Invalid /\ query' = [query EXCEPT ![q] = "answered"]
     \/ query' = [query EXCEPT ![q] = "failed"]
  /\ UNCHANGED <<mode, world, tool, bundle, saved>>

AllAnswered(t) == \A q \in QueriesOf(t) : query[q] = "answered"

\* The first error is the tool's; the queries gathered with it run on.
QueryRaises(t) ==
  /\ tool[t] = "running"
  /\ \E q \in QueriesOf(t) : query[q] = "failed"
  /\ Fail(t)
  /\ UNCHANGED <<mode, world, query, saved>>

\* Mutant: nothing to compare ends the analysis silently.
AnalyzeSomething ==
  /\ tool["metrics"] = "running"
  /\ AllAnswered("metrics")
  /\ Snapshot[world] # None
  /\ tool' = [tool EXCEPT !["metrics"] = "saving"]
  /\ UNCHANGED <<mode, world, query, bundle, saved>>

\* The baseline window is computed before the tool's try block; it exists for every
\* incident but one of the calendar's first days.
AnalyzeMetrics ==
  /\ tool["metrics"] = "running"
  /\ AllAnswered("metrics")
  /\ IF Snapshot[world] = None THEN Fail("metrics")
     ELSE tool' = [tool EXCEPT !["metrics"] = "saving"] /\ UNCHANGED bundle
  /\ UNCHANGED <<mode, world, query, saved>>

\* Mutant: a failed save is not the tool's failure.
SaveIfPossible ==
  /\ tool["metrics"] = "saving"
  /\ Succeed("metrics")
  /\ saved' = saved \cup {Snapshot[world]} \/ UNCHANGED saved
  /\ UNCHANGED <<mode, world, query>>

\* The snapshot is stored or not; the tool succeeds only if it hears that it is.
SaveSnapshot ==
  /\ tool["metrics"] = "saving"
  /\ \/ Succeed("metrics") /\ saved' = saved \cup {Snapshot[world]}
     \/ Fail("metrics") /\ (saved' = saved \cup {Snapshot[world]} \/ UNCHANGED saved)
  /\ UNCHANGED <<mode, world, query>>

Collected(t) ==
  /\ t # "metrics"
  /\ tool[t] = "running"
  /\ AllAnswered(t)
  /\ Succeed(t)
  /\ UNCHANGED <<mode, world, query, saved>>

Unfinished == {t \in Tools : tool[t] \in {"idle", "running", "saving"}}

\* The investigation's time is over: unfinished tools and the queries they wait
\* for are cancelled, which a commit under way may not hear in time.
CutOff ==
  /\ Unfinished # {}
  /\ tool' = [t \in Tools |-> IF t \in Unfinished THEN "cut off" ELSE tool[t]]
  /\ query' = [q \in Queries |->
       IF query[q] = "pending" /\ \E t \in Unfinished : q \in QueriesOf(t)
       THEN "cancelled" ELSE query[q]]
  /\ \/ UNCHANGED saved
     \/ tool["metrics"] = "saving" /\ saved' = saved \cup {Snapshot[world]}
  /\ UNCHANGED <<mode, world, bundle>>

Next ==
  \/ StartTools
  \/ \E t \in Tools : QueryRaises(t) \/ Collected(t)
  \/ ListDeploymentsNext
  \/ \E q \in Queries : EndQuery(q)
  \/ AnalyzeMetrics \/ SaveSnapshot
  \/ CutOff

Spec == Init /\ [][Next]_vars

\* The clients' timeouts end every query, and a coroutine that waits for nothing
\* goes on.
FairSpec ==
  /\ Spec
  /\ WF_vars(StartTools)
  /\ \A t \in Tools : WF_vars(QueryRaises(t)) /\ WF_vars(Collected(t))
  /\ \A q \in Queries : WF_vars(EndQuery(q))
  /\ WF_vars(ListDeploymentsNext) /\ WF_vars(AnalyzeMetrics) /\ WF_vars(SaveSnapshot)

---------------------------------------------------------------------------
(* Properties *)

Finished(t) == tool[t] \in {"success", "error"}

\* What the answers show of the incident, told without the tools' computation:
\* service, signal and time.
MetricSymptoms(n) ==
  LET Of(signal, window) == ToSet(Data[n][<<signal, window>>])
      Long(series) == Cardinality(Finite(series.samples)) >= MinimumBaseline
      Screened(signal) == {x.service : x \in {y \in Of(signal, "baseline") : Long(y)}}
  IN UNION {UNION {{<<x.service, signal, y.at>> :
                      y \in {z \in Finite(x.samples) : Magnitude(z.value) >= 3}} :
                   x \in {y \in Of(signal, "incident") :
                            y.service \in Screened(signal) \ {None}}} :
            signal \in ToSet(Signals)}

LogSymptoms(n) ==
  UNION {{<<x.service, "error_log_pattern", y.at>> :
            y \in {z \in ToSet(x.entries) : z.words # {}}} :
         x \in ToSet(Data[n][<<"lines", "incident">>])}

ChangeSymptoms(n) ==
  {<<x.name, x.type, x.at>> : x \in {y \in ToSet(Data[n][<<"events", "now">>]) :
     y.at \in WindowStart - Lookback .. WindowEnd}}
  \cup
  {<<x.name, "deployment_readiness", None>> :
     x \in {y \in ToSet(Data[n][<<"deployments", "now">>]) :
              y.replicas # None /\ y.ready # y.replicas}}

TraceSymptoms(n) ==
  {<<e.callee, e.caller, e.first>> :
     e \in {x \in ToSet(Worlds[n].edges) : x.errors >= 5 \/ x.p95 >= 500}}

Symptoms ==
  [n \in DOMAIN Worlds |-> [t \in Tools |->
     CASE ~Usable(n, t) -> {}
       [] t = "metrics" -> MetricSymptoms(n)
       [] t = "traces" -> TraceSymptoms(n)
       [] t = "logs" -> LogSymptoms(n)
       [] t = "changes" -> ChangeSymptoms(n)]]

\* Every piece of evidence cites an answered query, and that answer shows the
\* symptom it tells of, for its service and signal and from its time on: the
\* responses that asyncio.gather returns by position are not mistaken for one
\* another, and an onset is the first of its series.
EvidenceIsObserved ==
  \A t \in Tools : bundle[t] # None =>
    \A e \in ToSet(bundle[t].evidence) :
      /\ query[e.reference] = "answered"
      /\ <<e.service, e.signal, e.at>> \in Symptoms[world][t]
      /\ e.source = "metrics" => /\ e.reference = <<e.signal, "incident">>
                                 /\ e.confidence \in MinimumScore .. 600
      /\ t = "metrics" => \A other \in Symptoms[world][t] :
           other[1] = e.service /\ other[2] = e.signal => e.at <= other[3]

\* A tool that succeeds reports every symptom that its queries' answers show, or
\* as much evidence as fits, and of dependencies then the worst: neither the
\* forest, which may lower a score, nor the minimum score loses one.
SymptomsAreReported ==
  \A t \in Tools : tool[t] = "success" =>
    \A symptom \in Symptoms[world][t] :
      \/ \E e \in ToSet(bundle[t].evidence) :
           e.service = symptom[1] /\ e.signal = symptom[2]
      \/ /\ Len(bundle[t].evidence) = Cap
         /\ t = "traces" =>
              \A e \in ToSet(bundle[t].evidence), edge \in ToSet(Worlds[world].edges) :
                symptom = <<edge.callee, edge.caller, edge.first>>
                  => e.confidence >= Min({600, 210 + 6 * edge.errors})

\* Every tool that ended, well or not, has one audit that tells which: a success
\* had all its queries answered, lists its evidence and, for metrics, is backed
\* by the snapshot in the database; an error has no evidence and something that
\* went wrong.  Missing data never passes for the absence of symptoms.
AuditsAccount ==
  \A t \in Tools :
    /\ Finished(t) <=> bundle[t] # None
    /\ Finished(t) =>
         /\ bundle[t].audit.status = tool[t]
         /\ bundle[t].audit.evidence_ids = ToSet(bundle[t].evidence)
    /\ tool[t] = "success" =>
         /\ AllAnswered(t)
         /\ t = "metrics" => \E snapshot \in saved :
              \A e \in ToSet(bundle[t].evidence) : \E a \in ToSet(snapshot.anomalies) :
                a.service = e.service /\ a.signal = e.signal /\ a.score = e.confidence
    /\ tool[t] = "error" =>
         /\ bundle[t].evidence = <<>>
         /\ AllAnswered(t) => t = "metrics"

\* In the end every tool has ended or was cut off, and no query is left running,
\* the siblings of a failed one included.
ToolsEnd ==
  <>[](Unfinished = {} /\ \A q \in Queries : query[q] # "pending")
=============================================================================
