-------------------------------- MODULE MCApi --------------------------------
(* An instance of Api for TLC. *)
EXTENDS Api, TLC

CONSTANTS r1, r2

Deployment(production, auth, execution) ==
  [production |-> production, auth |-> auth, mounted |-> TRUE,
   execution |-> execution, hardened |-> production]

\* Development, staging with execution, and two that Settings refuses.
MCDeployments ==
  {Deployment(FALSE, FALSE, FALSE), Deployment(TRUE, TRUE, TRUE),
   Deployment(FALSE, FALSE, TRUE), Deployment(TRUE, FALSE, FALSE)}

Credential(principal, token, permissions) ==
  [principal |-> principal, token |-> token, permissions |-> permissions]

Sensor == Credential("alertmanager", "ta", {"ingest"})

\* Alice's token passes to Bob, who may not remediate; another file, which is not
\* loadable, gives the sensor's token a second principal.
MCFirstFile ==
  {Sensor, Credential("alice", "tb", {"read", "investigate", "remediate"})}

MCFiles ==
  {MCFirstFile,
   {Sensor, Credential("bob", "tb", {"read", "investigate", "publish"})},
   {Sensor, Credential("carol", "ta", {"read"})}}

At(t) == Aware(t)
Naive(t) == [at |-> t, aware |-> FALSE]
Alert(starts, ends) == [starts |-> starts, ends |-> ends]

Request(method, path, token, actor) ==
  [method |-> method, path |-> path, token |-> token, actor |-> actor,
   alerts |-> <<>>, window |-> None]

Webhook(alertSeq) ==
  [Request("POST", "alerts/prometheus", "ta", None) EXCEPT !.alerts = alertSeq]

NewIncident(start, end) ==
  [Request("POST", "incidents", "tb", None) EXCEPT
     !.window = [start |-> At(start), end |-> At(end)]]

\* A resolved alert and one that began a minute ago; one with the zero time that
\* stands for "still firing"; one without a zone; none at all.
MCWebhooks ==
  {Webhook(<<Alert(At(2), At(9)), Alert(At(19), None)>>),
   Webhook(<<Alert(None, None), Alert(At(12), At(0))>>),
   Webhook(<<Alert(Naive(12), None)>>), Webhook(<<>>)}

MCRequests ==
  MCWebhooks \cup
  {NewIncident(5, 6), NewIncident(5, 14), NewIncident(5, 15),
   Request("POST", "approve-remediation", "tb", "alice"),
   Request("POST", "approve-remediation", "short", "alice"),
   Request("POST", "reject-remediation", "tb", "bob"),
   Request("POST", "remediation", "tb", None),
   Request("POST", "investigate", "tb", None),
   Request("POST", "memory", "ta", None),
   Request("POST", "anomalies/analyze", "tb", None),
   Request("POST", "topology/rebuild", "tb", None),
   Request("POST", "evaluations", "tb", None),
   Request("GET", "auth/me", "tb", None)}

Symmetry == Permutations(Replicas)
=============================================================================
