----------------------------- MODULE ServiceGraph -----------------------------
(***************************************************************************)
(* From spans to a service graph, from the graph to its traversals and to  *)
(* the scores the causal ranker takes from it.  Services are numbered, 0   *)
(* is no service and no parent; times are milliseconds, latencies are kept *)
(* in hundredths and scores in basis points, both exact up to rounding.    *)
(***************************************************************************)
EXTENDS Ordering, FiniteSetsExt, Sequences, SequencesExt

Span(trace, id, parent, service, start, finish, error) ==
  [trace |-> trace, id |-> id, parent |-> parent, service |-> service,
   start |-> start, finish |-> finish, error |-> error]

\* The spans that may occur in some traces.
SpansIn(traces) ==
  [trace : traces, id : Nat, parent : Nat, service : Nat,
   start : Int, finish : Int, error : BOOLEAN]

---------------------------------------------------------------------------
(* Builder *)

\* Mutant: parents are looked up by their identifier alone.
ParentAnywhere(spans, i) ==
  Max({j \in DOMAIN spans : spans[j].id = spans[i].parent} \cup {0})

\* spans_by_id holds the last span with an identifier of a trace.
Parent(spans, i) ==
  Max({j \in DOMAIN spans : /\ spans[j].trace = spans[i].trace
                            /\ spans[j].id = spans[i].parent} \cup {0})

Of(spans, s) == {i \in DOMAIN spans : spans[i].service = s}
ServicesOf(spans) == {spans[i].service : i \in DOMAIN spans} \ {0}

\* The spans that are calls from one service to another.
Calls(spans, caller, callee) ==
  {i \in Of(spans, callee) : /\ Parent(spans, i) # 0
                             /\ spans[Parent(spans, i)].service = caller}

CallPairs(spans) ==
  {p \in ServicesOf(spans) \X ServicesOf(spans) :
     p[1] # p[2] /\ Calls(spans, p[1], p[2]) # {}}

Counts(spans, I) ==
  [spans |-> Cardinality(I),
   traces |-> Cardinality({spans[i].trace : i \in I}),
   errors |-> Cardinality({i \in I : spans[i].error})]

\* In hundredths, q in hundredths too.
Percentile(values, q) ==
  LET position == (Len(values) - 1) * q
      lower == position \div 100 + 1
      upper == Min({lower + 1, Len(values)})
  IN 100 * values[lower] + (values[upper] - values[lower]) * (position % 100)

Latencies(spans, I) ==
  LET took == [i \in I |-> Max({spans[i].finish - spans[i].start, 0})]
      shorter == [i \in I |-> {j \in I : took[j] < took[i] \/ (took[j] = took[i] /\ j < i)}]
  IN [k \in 1 .. Cardinality(I) |-> took[InOrder(I, shorter)[k]]]

Edge(spans, p) ==
  LET I == Calls(spans, p[1], p[2])
  IN [calls |-> Counts(spans, I),
      p50 |-> Percentile(Latencies(spans, I), 50),
      p95 |-> Percentile(Latencies(spans, I), 95),
      p99 |-> Percentile(Latencies(spans, I), 99),
      first_seen |-> Min({spans[i].start : i \in I}),
      last_seen |-> Max({spans[i].finish : i \in I})]

Build(spans) ==
  [trace_count |-> Cardinality({spans[i].trace : i \in DOMAIN spans}),
   nodes |-> [s \in ServicesOf(spans) |-> Counts(spans, Of(spans, s))],
   edges |-> [p \in CallPairs(spans) |-> Edge(spans, p)]]

---------------------------------------------------------------------------
(* Traversal *)

Nodes(graph) == DOMAIN graph.nodes
Edges(graph) == DOMAIN graph.edges

Successors(graph, s) == {t \in Nodes(graph) : <<s, t>> \in Edges(graph)}

\* The services at most n calls away.
Within(graph, s, n) ==
  LET ball[k \in 0 .. n] ==
        IF k = 0 THEN {s}
        ELSE ball[k - 1] \cup UNION {Successors(graph, t) : t \in ball[k - 1]}
  IN ball[n]

Reachable(graph, s) == Within(graph, s, Cardinality(Nodes(graph)))

Dependencies(graph, s) == Reachable(graph, s) \ {s}
Callers(graph, s) == {t \in Nodes(graph) \ {s} : s \in Reachable(graph, t)}

\* The number of calls on a shortest path; only where there is a path.
Distance(graph, s, t) ==
  Min({n \in 0 .. Cardinality(Nodes(graph)) : t \in Within(graph, s, n)})

---------------------------------------------------------------------------
(* Scores *)

Points == 0 .. 10000    \* 0.0 to 1.0

Degree(graph, s) == Cardinality({e \in Edges(graph) : s \in {e[1], e[2]}})
RequestsTo(graph, s) ==
  MapThenSumSet(LAMBDA e : graph.edges[e].calls.spans,
                {e \in Edges(graph) : e[2] = s})

\* A part of the largest of some numbers, 0 when all are 0.
Share(n, all) == IF n = 0 THEN 0 ELSE (10000 * n) \div Max(all)

DegreeScore(graph, s) ==
  Share(Degree(graph, s), {Degree(graph, t) : t \in Nodes(graph)})
TrafficScore(graph, s) ==
  Share(RequestsTo(graph, s), {RequestsTo(graph, t) : t \in Nodes(graph)})

\* Mutant: the direction of the calls does not matter.
ConsistencyEitherWay(graph, affected, s) ==
  IF affected \notin Nodes(graph) THEN <<DegreeScore(graph, s), 10000>>
  ELSE IF s \in Reachable(graph, affected) THEN <<1, 1 + Distance(graph, affected, s)>>
  ELSE IF affected \in Reachable(graph, s) THEN <<1, 1 + Distance(graph, s, affected)>>
  ELSE <<0, 1>>

\* A fraction, <<part, whole>>.
Consistency(graph, affected, s) ==
  IF affected \notin Nodes(graph) THEN <<DegreeScore(graph, s), 10000>>
  ELSE IF s \in Reachable(graph, affected) THEN <<1, 1 + Distance(graph, affected, s)>>
  ELSE IF affected \in Reachable(graph, s) THEN <<8, 10 * (1 + Distance(graph, s, affected))>>
  ELSE <<0, 1>>

GraphScores(graph, affected) ==
  [s \in Nodes(graph) |->
     LET consistency == Consistency(graph, affected, s)
     IN [criticality |-> (DegreeScore(graph, s) + TrafficScore(graph, s)) \div 2,
         consistency |-> (10000 * consistency[1]) \div consistency[2]]]
=============================================================================
