------------------------------ MODULE MCEvidence ------------------------------
(* Two services, two signals and hand-picked states of the backends.         *)
EXTENDS EvidenceTools

MCSignals == <<"errors", "latency">>
MCPlace == "auth" :> 1 @@ "errors" :> 2 @@ "latency" :> 3 @@ "shop" :> 4

Sample(at, value) == [at |-> at, value |-> value]
Series(service, samples) == [metric |-> service, values |-> samples]
Answer(type, result) == [status |-> "success", resultType |-> type, result |-> result]

Level(from, values) == [i \in DOMAIN values |-> Sample(from + 5 * (i - 1), values[i])]
Baseline == Level(50, <<0, 1>>)
Before(services) == Answer("matrix", [i \in DOMAIN services |-> Series(services[i], Baseline)])
Calm(service) == Series(service, Level(60, <<1, -1>>))

Metrics(eb, ei, lb, li) ==
  <<"errors", "baseline">> :> eb @@ <<"errors", "incident">> :> ei
  @@ <<"latency", "baseline">> :> lb @@ <<"latency", "incident">> :> li

Both == <<"auth", "shop">>
CalmBoth == Answer("matrix", <<Calm("auth"), Calm("shop")>>)

\* Metrics: an outlier in a baseline and an onset on the edge of the screen; a rise in every
\* series, out of order; samples that are not finite; services that one window
\* lacks; an unlabelled series; answers that cannot be used.
MetricWorlds ==
  <<Metrics(Before(Both), Answer("matrix", <<Series("auth", Level(60, <<2, 3, 3>>)), Calm("shop")>>),
           Answer("matrix", <<Series("auth", Level(50, <<5, 0>>)), Series("shop", Baseline)>>),
           Answer("matrix", <<Calm("auth"), Series("shop", Level(60, <<-4, 9, -9>>))>>)),
   Metrics(Before(Both), Answer("matrix", <<Series("shop", Level(60, <<5, 3>>)), Series("auth", Level(60, <<7, 8>>))>>),
           Before(<<"shop">>), Answer("matrix", <<Series("shop", <<Sample(65, 4), Sample(60, 3)>>), Calm("auth")>>)),
   Metrics(Before(Both), Answer("matrix", <<Series("auth", Level(60, <<NotFinite, 6, NotFinite>>)), Calm("shop")>>),
           Before(<<"auth">>), Answer("matrix", <<Series("auth", Level(60, <<NotFinite>>))>>)),
   Metrics(Answer("matrix", <<Series("auth", Level(50, <<0, NotFinite>>)), Series("shop", Baseline)>>),
           Answer("matrix", <<Series("auth", Level(60, <<6, 6>>)), Series("shop", <<Sample(70, 5)>>)>>),
           Before(Both), CalmBoth),
   Metrics(Before(<<"auth">>), Answer("matrix", <<Calm("shop")>>), Before(<<>>), CalmBoth),
   Metrics(Before(Both), Answer("scalar", <<Sample(60, 9)>>), Before(Both), CalmBoth),
   Metrics(Before(Both), Answer("matrix", <<Series("auth", Malformed)>>), Before(Both), Malformed)>>

\* Dependencies: one on each edge of significance, and more than fit.
Edge(caller, callee, errors, p95, requests) ==
  [caller |-> caller, callee |-> callee, errors |-> errors, p95 |-> p95,
   requests |-> requests, first |-> 61]

EdgeWorlds ==
  <<<<Edge("web", "auth", 4, 499, 9), Edge("web", "shop", 5, 0, 9)>>,
   <<Edge("web", "auth", 0, 500, 9), Edge("web", "shop", 60, 10, 9), Edge("shop", "auth", 60, 900, 1)>>>>

Stream(name, service, entries) ==
  [service_name |-> name, service |-> service, values |-> entries]
Line(at, words) == [at |-> at, words |-> words]

LineWorlds ==
  <<Answer("streams", <<Stream("auth", None, <<Line(66, {"error"}), Line(62, {"timeout"}), Line(60, {})>>),
                       Stream(None, "shop", <<Line(61, {})>>), Stream(None, None, <<Line(60, {"fatal"})>>)>>),
   Answer("streams", [i \in 1 .. 3 |-> Stream(Both[1 + (i % 2)], None, <<Line(60 + i, {"panic"})>>)]),
   Answer("matrix", <<>>),
   Answer("streams", <<Stream("auth", None, <<Malformed>>)>>)>>

Event(kind, name, last, first) ==
  [name |-> "event", involvedKind |-> kind, involvedName |-> name, reason |-> "ScalingReplicaSet",
   type |-> "Normal", lastTimestamp |-> last, eventTime |-> None, firstTimestamp |-> first]
Deployment(name, replicas, ready) == [name |-> name, replicas |-> replicas, ready |-> ready]

ChangeWorlds ==
  <<[events |-> [items |-> <<Event("Deployment", "auth", 30, None), Event("Deployment", "shop", 29, None),
                            Event("Pod", "auth", 65, None), Event("ReplicaSet", None, None, 70)>>],
    deployments |-> [items |-> <<Deployment("shop", 2, 1)>>]],
   [events |-> [items |-> <<Event("Deployment", "auth", None, None)>>],
    deployments |-> [items |-> <<Deployment("auth", 1, None), Deployment("shop", None, 1)>>]],
   [events |-> [items |-> <<>>], deployments |-> [items |-> <<Deployment("auth", 0, None), Deployment("shop", 2, 2)>>]],
   [events |-> [items |-> Malformed], deployments |-> [items |-> <<>>]]>>

At(worlds, i) == worlds[1 + (i % Len(worlds))]

MCWorlds ==
  [i \in DOMAIN MetricWorlds |->
   [metrics |-> MetricWorlds[i],
    percentile |-> [s \in {"auth", "shop"} |-> [at \in 60 .. 70 |-> IF i = 2 THEN 10 ELSE 0]],
    edges |-> At(EdgeWorlds, i), lines |-> At(LineWorlds, i),
    events |-> At(ChangeWorlds, i).events,
    deployments |-> At(ChangeWorlds, i).deployments]]
=============================================================================
