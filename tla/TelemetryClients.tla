--------------------------- MODULE TelemetryClients ---------------------------
(***************************************************************************)
(* What the clients of Prometheus, Loki and Kubernetes make of a backend's *)
(* JSON.  Malformed stands for a value that is not of the type the parser  *)
(* asks for: of what an answer must have, one such value refuses the whole *)
(* answer; what it may have is absent when it is malformed.                *)
(***************************************************************************)
EXTENDS Integers, Sequences

CONSTANTS
  Malformed,            \* a value of another type
  Invalid,              \* the error for an answer that cannot be used
  None                  \* what a field holds that is absent

\* An array, and each of its items is as it must be.
Array(value, Good(_)) ==
  /\ value # Malformed
  /\ \A i \in DOMAIN value : value[i] # Malformed /\ Good(value[i])

\* The first that is present: Python's chain of "or".
FirstOf(a, b) == IF a # None THEN a ELSE b

Successful(payload) == payload # Malformed /\ payload.status = "success"

---------------------------------------------------------------------------
(* Prometheus: series of samples, with the service their label names.  The *)
(* result of a scalar is its one sample.                                  *)

Anything(pair) == TRUE

ParseQueryResponse(payload) ==
  LET WellFormed(item) == Array(item.values, Anything)
      Series(item) == [service |-> item.metric, samples |-> item.values]
  IN IF ~Successful(payload) THEN Invalid
     ELSE IF payload.resultType \in {"scalar", "string"} THEN
       IF ~Array(payload.result, Anything) THEN Invalid
       ELSE <<[service |-> None, samples |-> payload.result]>>
     ELSE IF payload.resultType \in {"vector", "matrix"} /\ Array(payload.result, WellFormed)
     THEN [i \in DOMAIN payload.result |-> Series(payload.result[i])]
     ELSE Invalid

---------------------------------------------------------------------------
(* Loki: streams of lines, a line being the failure words it holds *)

ParseStreamResponse(payload) ==
  LET WellFormed(item) == Array(item.values, Anything)
      Stream(item) == [service |-> FirstOf(item.service_name, item.service),
                       entries |-> item.values]
  IN IF /\ Successful(payload)
        /\ payload.resultType = "streams"
        /\ Array(payload.result, WellFormed)
     THEN [i \in DOMAIN payload.result |-> Stream(payload.result[i])]
     ELSE Invalid

---------------------------------------------------------------------------
(* Kubernetes: deployments, and events of the workloads' controllers *)

Items(payload) ==
  LET HasMetadata(item) == item.name # Malformed
  IN IF payload # Malformed /\ Array(payload.items, HasMetadata)
     THEN payload.items ELSE Invalid

ListDeployments(payload) == Items(payload)

Change(event) ==
  [at |-> FirstOf(FirstOf(event.lastTimestamp, event.eventTime), event.firstTimestamp),
   name |-> FirstOf(event.involvedName, "unknown"),
   type |-> FirstOf(FirstOf(event.reason, event.type), "event")]

ListChangeEvents(payload) ==
  LET OfController(event) == event.involvedKind \in {"Deployment", "ReplicaSet"}
  IN IF Items(payload) = Invalid THEN Invalid
     ELSE LET events == SelectSeq(payload.items, OfController)
          IN [i \in DOMAIN events |-> Change(events[i])]
=============================================================================
