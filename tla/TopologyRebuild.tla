--------------------------- MODULE TopologyRebuild ---------------------------
(***************************************************************************)
(* Rebuilding the service graph: a search, one request per trace it found, *)
(* all at once and through the transport's semaphore, the graph of what    *)
(* was retrieved, and the snapshot's row.  Rebuilds for the API and for    *)
(* investigations share the client of Tempo; an investigation's timeout    *)
(* cancels its rebuild.  A rebuild that raises leaves the requests of its  *)
(* other traces running.                                                   *)
(***************************************************************************)
EXTENDS TelemetryHttp, ServiceGraph

CONSTANTS
  Rebuilds,
  Traces,               \* numbers, in the order the search returns them
  Malformed,            \* those whose identifier get_trace refuses
  Payloads              \* what the document of each trace may hold

\* A trace's document has spans of that trace only: the parser takes Tempo's word.
ASSUME RebuildAssumption ==
  /\ Traces \subseteq Nat \ {0} /\ Malformed \subseteq Traces
  /\ Requests = Rebuilds \X (Traces \cup {0})
  /\ \A t \in Traces : Payloads[t] \subseteq Seq(SpansIn({t}))

Search(b) == <<b, 0>>

VARIABLES
  stage,                \* where rebuild is
  found,                \* the traces the search returned
  spans,                \* those of the retrieved traces
  snapshot,             \* what builder.build returned
  saved                 \* the rebuilds whose snapshot is stored

rebuild == <<stage, found, spans, snapshot, saved>>
vars == <<http, rebuild>>

Init ==
  /\ HttpInit
  /\ stage = [b \in Rebuilds |-> "new"]
  /\ found = [b \in Rebuilds |-> {}]
  /\ spans = [b \in Rebuilds |-> <<>>]
  /\ snapshot = [b \in Rebuilds |-> None]
  /\ saved = {}

---------------------------------------------------------------------------

Go(b, s) == stage' = [stage EXCEPT ![b] = s]

\* The answers a rebuild awaited are its no longer.
Consume(b) ==
  /\ answer' = [r \in Requests |-> IF r[1] = b THEN None ELSE answer[r]]
  /\ UNCHANGED <<at, attempt, received, slots, waiting>>

\* Its local variables are gone when it ends.
Forget(b) ==
  /\ spans' = [spans EXCEPT ![b] = <<>>]
  /\ snapshot' = [snapshot EXCEPT ![b] = None]
  /\ Consume(b)

Start(b) ==
  /\ stage[b] = "new"
  /\ Go(b, "searching")
  /\ Get(Search(b))
  /\ UNCHANGED <<found, spans, snapshot, saved>>

\* No traces raise TopologyBuildError, errors of the search leave as they are.
Searched(b) ==
  /\ stage[b] = "searching"
  /\ at[Search(b)] = "answered"
  /\ \/ /\ answer[Search(b)] = "document"
        /\ \E T \in SUBSET Traces \ {{}} : found' = [found EXCEPT ![b] = T]
        /\ Go(b, "fetching")
     \/ /\ Go(b, "raised")
        /\ UNCHANGED found
  /\ Consume(b)
  /\ UNCHANGED <<spans, snapshot, saved>>

\* The tasks of gather run in order up to their first pause; one whose trace
\* identifier is refused ends there. They run on when rebuild has raised.
Fetch(b, t) ==
  /\ stage[b] \in {"fetching", "raised"}
  /\ t \in found[b]
  /\ at[<<b, t>>] = "idle"
  /\ \A u \in found[b] : u < t => at[<<b, u>>] # "idle"
  /\ \/ t \notin Malformed /\ Get(<<b, t>>)
     \/ /\ t \in Malformed
        /\ at' = [at EXCEPT ![<<b, t>>] = "answered"]
        /\ answer' = [answer EXCEPT ![<<b, t>>] = "exception"]
        /\ UNCHANGED <<attempt, received, slots, waiting>>
  /\ UNCHANGED rebuild

Answer(b, t) == answer[<<b, t>>]

\* gather raises the first exception that _fetch_trace does not catch.
Raise(b) ==
  /\ stage[b] = "fetching"
  /\ \E t \in found[b] : Answer(b, t) = "exception"
  /\ Go(b, "raised")
  /\ Consume(b)
  /\ UNCHANGED <<found, spans, snapshot, saved>>

\* Of every trace: its payload, or None when it is skipped with a warning.
Retrieved(b) ==
  {p \in [found[b] -> UNION {Payloads[t] : t \in found[b]} \cup {None}] :
     \A t \in found[b] :
       IF Answer(b, t) = "document" THEN p[t] \in Payloads[t] \cup {None}
       ELSE p[t] = None}

Spans(b, p) == FlattenSeq([k \in 1 .. Cardinality(found[b]) |->
  LET before == [t \in found[b] |-> {u \in found[b] : u < t}]
      t == InOrder(found[b], before)[k]
  IN IF p[t] = None THEN <<>> ELSE p[t]])

\* Mutant: a document that is no trace is skipped without a warning.
SnapshotWithoutWarnings(b, p) ==
  [graph |-> Build(Spans(b, p)),
   references |-> {t \in found[b] : p[t] # None},
   warnings |-> {t \in found[b] : Answer(b, t) \in QueryErrors}]

Snapshot(b, p) ==
  [graph |-> Build(Spans(b, p)),
   references |-> {t \in found[b] : p[t] # None},
   warnings |-> {t \in found[b] : p[t] = None}]

Gathered(b) ==
  /\ stage[b] = "fetching"
  /\ \A t \in found[b] : at[<<b, t>>] = "answered" /\ Answer(b, t) # "exception"
  /\ \E p \in Retrieved(b) :
       \/ /\ Spans(b, p) = <<>>
          /\ Go(b, "raised")
          /\ Consume(b)
          /\ UNCHANGED <<spans, snapshot>>
       \/ /\ Spans(b, p) # <<>>
          /\ spans' = [spans EXCEPT ![b] = Spans(b, p)]
          /\ snapshot' = [snapshot EXCEPT ![b] = Snapshot(b, p)]
          /\ Go(b, "saving")
          /\ UNCHANGED http
  /\ UNCHANGED <<found, saved>>

Save(b) ==
  /\ stage[b] = "saving"
  /\ \/ Go(b, "saved") /\ saved' = saved \cup {b}
     \/ Go(b, "raised") /\ UNCHANGED saved
  /\ Forget(b)
  /\ UNCHANGED found

\* The collection's timeout cancels the rebuild, and gather its tasks: each
\* ends when it runs next. An insert under way may still be committed.
Timeout(b) ==
  /\ stage[b] \in {"searching", "fetching", "saving"}
  /\ Go(b, "cancelled")
  /\ \/ UNCHANGED saved
     \/ stage[b] = "saving" /\ saved' = saved \cup {b}
  /\ Forget(b)
  /\ UNCHANGED found

Cancelled(r) ==
  /\ stage[r[1]] = "cancelled"
  /\ Cancel(r)
  /\ UNCHANGED rebuild

Query(r) ==
  /\ stage[r[1]] # "cancelled"
  /\ Http(r)
  /\ UNCHANGED rebuild

Advance(b) ==
  \/ Start(b) \/ Searched(b) \/ (\E t \in Traces : Fetch(b, t))
  \/ Raise(b) \/ Gathered(b) \/ Save(b)

Progress ==
  \/ \E b \in Rebuilds : Advance(b)
  \/ \E r \in Requests : Query(r) \/ Cancelled(r)

Next == Progress \/ \E b \in Rebuilds : Timeout(b)

Spec == Init /\ [][Next]_vars

\* Timeouts bound every step of a request and the database's bound an insert.
\* That something always goes on is enough: no step is ever taken back.
FairSpec == Spec /\ WF_vars(Progress)

---------------------------------------------------------------------------
(* Properties *)

\* An edge is a call someone observed: in as many traces as it says, spans of both
\* services are found, it has no more calls than its callee has spans, no more
\* failures than the callee has errors, and its percentiles are in order.
Observed(graph, found_spans, e) ==
  LET edge == graph.edges[e]
      callee == graph.nodes[e[2]]
      TracesOf(s) == {found_spans[i].trace : i \in Of(found_spans, s)}
  IN /\ e[1] # e[2]
     /\ edge.calls.traces \in 1 .. Cardinality(TracesOf(e[1]) \cap TracesOf(e[2]))
     /\ edge.calls.traces <= edge.calls.spans
     /\ edge.calls.spans <= callee.spans
     /\ edge.calls.errors <= callee.errors
     /\ 0 <= edge.p50 /\ edge.p50 <= edge.p95 /\ edge.p95 <= edge.p99

\* A snapshot never passes for more than was retrieved: every trace the search
\* found is a reference or a warning, and never both, and one at least was
\* retrieved; its graph counts exactly those, and has no edge that nobody
\* observed (rebuild's loop over retrieved, ServiceGraphBuilder.build).
SnapshotIsAccountable ==
  \A b \in Rebuilds : snapshot[b] # None =>
    LET s == snapshot[b]
    IN /\ s.references \cup s.warnings = found[b]
       /\ s.references \cap s.warnings = {}
       /\ \A t \in s.references : Answer(b, t) = "document"
       /\ s.graph.trace_count \in 1 .. Cardinality(s.references)
       /\ \A e \in Edges(s.graph) : Observed(s.graph, spans[b], e)

\* What a graph answers of two services agrees: one depends on the other if that
\* has it as a caller, and then on all that this calls; the affected service and
\* only it is fully consistent, one without a path to or from it not at all, and a
\* dependency more than a caller at the same distance.
Agree(graph, s, t) ==
  LET of_t == Consistency(graph, s, t)
  IN /\ t \in Dependencies(graph, s) <=> s \in Callers(graph, t)
     /\ t \in Dependencies(graph, s) \cup {s}
          => Successors(graph, t) \subseteq Dependencies(graph, s) \cup {s}
     /\ GraphScores(graph, s)[t].criticality \in Points
     /\ of_t[1] = of_t[2] <=> t = s
     /\ of_t[1] = 0 <=> t \notin Dependencies(graph, s) \cup Callers(graph, s) \cup {s}
     /\ \A u \in Callers(graph, s) \ Dependencies(graph, s) :
          LET of_u == Consistency(graph, s, u)
          IN /\ t \in Dependencies(graph, s)
             /\ Distance(graph, s, t) = Distance(graph, u, s)
             => of_t[1] * of_u[2] > of_u[1] * of_t[2]

\* What a snapshot's graph answers agrees with itself, for all its services
\* (ServiceGraph and _graph_scores).
AnswersAgree ==
  \A b \in Rebuilds : snapshot[b] # None =>
    \A s, t \in Nodes(snapshot[b].graph) : Agree(snapshot[b].graph, s, t)

\* Whatever Tempo does, every rebuild ends, and so does every request, the
\* ones a raised or cancelled rebuild left behind included: they give their
\* slots back to the rebuilds that wait.
RebuildsEnd ==
  <>[](/\ \A b \in Rebuilds : stage[b] \in {"saved", "raised", "cancelled"}
       /\ \A r \in Requests : at[r] \in {"idle", "answered"})
=============================================================================
