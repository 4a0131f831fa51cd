-------------------------------- MODULE Api --------------------------------
(***************************************************************************)
(* Requests to the replicas of the API: the middleware admits them, the    *)
(* handlers run with the principal it recorded, and a caller whose request *)
(* failed, or who tires of waiting, repeats it, as Alertmanager does.      *)
(* Alert intake is modelled write by write; every other route calls one    *)
(* operation, which a module of its own models.  Times are minutes.        *)
(***************************************************************************)
EXTENDS ApiSecurity, Integers, FiniteSets

CONSTANTS
  Callers,              \* clients, each with one request to get served
  Requests,             \* what they may ask
  Now,                  \* the handlers' clock
  Day,                  \* 24 hours
  MaxAttempts           \* how often a caller tries

ASSUME ApiAssumption == Now \in Nat /\ Day \in Nat /\ MaxAttempts \in Nat \ {0}

\* Times come from request bodies, where none is before the year 1.
Times == [at : Nat, aware : BOOLEAN]

AlertBodies == [starts : Times \cup {None}, ends : Times \cup {None}]

ASSUME RequestsAssumption ==
  \A q \in Requests :
    /\ q.alerts \in Seq(AlertBodies)
    /\ q.path = "incidents" => q.window \in [start : Times, end : Times]

\* Who a request may come from, and what is known of one that has arrived.
Known ==
  {Development} \cup UNION {Authenticate(f, t) : f \in CredentialFiles,
                                                 t \in {q.token : q \in Requests}}

Statuses == {"running", "200", "201", "401", "403", "404", "422", "500", "lost"}

Calls ==
  [request : Requests, replica : Replicas, loaded : Nat, sender : SUBSET Known,
   status : Statuses, awaited : BOOLEAN, index : Nat \ {0}, at : {"incident", "alert"}]

ASSUME CallsAssumption == None \notin Calls

VARIABLES
  call,                 \* each caller's attempts, and where their handlers are
  incidents,            \* stored incidents
  alerts,               \* stored alerts
  effects               \* the operations that handlers carried out

apiVars == <<call, incidents, alerts, effects>>
vars == <<securityVars, apiVars>>

Attempts == Callers \X (1 .. MaxAttempts)

Init ==
  /\ SecurityInit
  /\ call = [k \in Attempts |-> None]
  /\ incidents = {}
  /\ alerts = {}
  /\ effects = {}

---------------------------------------------------------------------------
(* Callers *)

\* A request reaches a replica; only what the middleware admits gets a handler.
Arrive(k, request) ==
  /\ call[k] = None
  /\ \E r \in Replicas :
       /\ process[r] # None
       /\ \E refusal \in {Refusal(process[r], request)} :
            call' = [call EXCEPT ![k] =
              [request |-> request, replica |-> r, loaded |-> process[r].loaded,
               sender |-> SendersOf(process[r], request.token),
               status |-> IF refusal = None THEN "running" ELSE refusal,
               awaited |-> TRUE, index |-> 1, at |-> "incident"]]
  /\ UNCHANGED <<securityVars, incidents, alerts, effects>>

Failed(k) == call[k].status \in {"500", "lost"} \/ ~call[k].awaited

Send(c) == \E request \in Requests : Arrive(<<c, 1>>, request)

Retry(c, n) ==
  /\ call[<<c, n>>] # None
  /\ Failed(<<c, n>>)
  /\ Arrive(<<c, n + 1>>, call[<<c, n>>].request)

\* The caller gives up waiting; the handler does not notice.
TimeOut(k) ==
  /\ call[k] # None
  /\ call[k].status = "running" /\ call[k].awaited
  /\ call' = [call EXCEPT ![k].awaited = FALSE]
  /\ UNCHANGED <<securityVars, incidents, alerts, effects>>

\* A replica stops, and with it the handlers that run on it.
Stop(r) ==
  /\ StopProcess(r)
  /\ call' = [k \in Attempts |->
       IF call[k] # None /\ call[k].status = "running" /\ call[k].replica = r
       THEN [call[k] EXCEPT !.status = "lost"] ELSE call[k]]
  /\ UNCHANGED <<incidents, alerts, effects>>

---------------------------------------------------------------------------
(* What every handler does *)

Handling(k, paths) ==
  /\ call[k] # None
  /\ call[k].status = "running"
  /\ call[k].request.method = "POST"
  /\ call[k].request.path \in paths

Answer(k, status) == call' = [call EXCEPT ![k].status = status]

Settings(k) == process[call[k].replica].settings

Sender(k) == CHOOSE p \in call[k].sender : TRUE

\* The actor that a decision is recorded for.
VerifiedActor(k) ==
  IF Sender(k).authenticated THEN Sender(k).name ELSE call[k].request.actor

ActorIsForeign(k) ==
  Sender(k).authenticated /\ call[k].request.actor # Sender(k).name

Effect(k, actor) ==
  [caller |-> k, path |-> call[k].request.path, token |-> call[k].request.token,
   actor |-> actor, loaded |-> call[k].loaded, settings |-> Settings(k)]

Perform(k, actor) == effects' = effects \cup {Effect(k, actor)}

\* A route that calls one operation: it is carried out and answered with the
\* route's status, refused with another, or fails, perhaps after it took effect.
Operate(k, actor, success, refusals) ==
  /\ \/ Answer(k, success) /\ Perform(k, actor)
     \/ \E status \in refusals : Answer(k, status) /\ UNCHANGED effects
     \/ Answer(k, "500") /\ (Perform(k, actor) \/ UNCHANGED effects)
  /\ UNCHANGED <<securityVars, incidents, alerts>>

\* A write is stored or not, and the handler hears of it only if it is.
Written(stored, heard) == heard => stored

---------------------------------------------------------------------------
(* Incidents and alert intake *)

Duration(w) == w.end.at - w.start.at

\* CreateIncidentRequest: zones are given, and 2 minutes to 24 hours.
ValidWindow(w) ==
  /\ w.start.aware /\ w.end.aware
  /\ Duration(w) \in 2 .. Day

\* A body that fits no model is refused before the handler runs.
RejectBody(k) ==
  /\ \/ Handling(k, {"incidents"}) /\ ~ValidWindow(call[k].request.window)
     \/ Handling(k, {"alerts/prometheus"}) /\ call[k].request.alerts = <<>>
  /\ Answer(k, "422")
  /\ UNCHANGED <<securityVars, incidents, alerts, effects>>

StoreIncident(k, index, window) ==
  /\ incidents' = incidents \cup {[caller |-> k, index |-> index, window |-> window]}
  /\ Perform(k, Sender(k).name)

CreateIncident(k) ==
  /\ Handling(k, {"incidents"})
  /\ ValidWindow(call[k].request.window)
  /\ \E stored, heard \in BOOLEAN :
       /\ Written(stored, heard)
       /\ IF stored THEN StoreIncident(k, 1, call[k].request.window)
          ELSE UNCHANGED <<incidents, effects>>
       /\ Answer(k, IF heard THEN "201" ELSE "500")
  /\ UNCHANGED <<securityVars, alerts>>

Aware(t) == [at |-> t, aware |-> TRUE]

\* Mutant: a short alert is not widened.
NarrowWindow(alert) ==
  [start |-> IF alert.starts = None THEN Aware(Now - 10) ELSE alert.starts,
   end |-> IF alert.ends = None THEN Aware(Now) ELSE alert.ends]

\* The window of an alert, at least two minutes before its end.
AlertWindow(alert) ==
  LET start == IF alert.starts = None THEN Aware(Now - 10) ELSE alert.starts
      end == IF alert.ends = None THEN Aware(Now) ELSE alert.ends
  IN  [start |-> IF end.at - start.at < 2 THEN [end EXCEPT !.at = @ - 2] ELSE start,
       end |-> end]

\* Time begins at 0, the year 1, and only times with zones can be compared.
Representable(alert) ==
  LET w == AlertWindow(alert)
  IN  w.start.aware /\ w.end.aware /\ w.start.at >= 0 /\ Duration(w) > 0

CurrentAlert(k) == call[k].request.alerts[call[k].index]

\* First write for an alert: its incident.
CreateAlertIncident(k) ==
  /\ Handling(k, {"alerts/prometheus"})
  /\ call[k].at = "incident"
  /\ call[k].index \in DOMAIN call[k].request.alerts
  /\ \E stored, heard \in BOOLEAN :
       /\ Written(stored, heard)
       /\ stored => Representable(CurrentAlert(k))
       /\ IF stored THEN StoreIncident(k, call[k].index, AlertWindow(CurrentAlert(k)))
          ELSE UNCHANGED <<incidents, effects>>
       /\ IF heard THEN call' = [call EXCEPT ![k].at = "alert"] ELSE Answer(k, "500")
  /\ UNCHANGED <<securityVars, alerts>>

GoOn(k) ==
  IF call[k].index = Len(call[k].request.alerts) THEN Answer(k, "201")
  ELSE call' = [call EXCEPT ![k].at = "incident", ![k].index = @ + 1]

\* Mutant: an alert that cannot be stored is passed over.
RecordAlertIfPossible(k) ==
  /\ Handling(k, {"alerts/prometheus"})
  /\ call[k].at = "alert"
  /\ alerts' \in {alerts, alerts \cup {[caller |-> k, index |-> call[k].index,
                    starts |-> AlertWindow(CurrentAlert(k)).start]}}
  /\ GoOn(k)
  /\ UNCHANGED <<securityVars, incidents, effects>>

\* Second write: the alert itself; then the next alert, or the answer.
RecordAlert(k) ==
  /\ Handling(k, {"alerts/prometheus"})
  /\ call[k].at = "alert"
  /\ \E stored, heard \in BOOLEAN :
       /\ Written(stored, heard)
       /\ alerts' = IF ~stored THEN alerts
                    ELSE alerts \cup {[caller |-> k, index |-> call[k].index,
                           starts |-> AlertWindow(CurrentAlert(k)).start]}
       /\ IF heard THEN GoOn(k) ELSE Answer(k, "500")
  /\ UNCHANGED <<securityVars, incidents, effects>>

---------------------------------------------------------------------------
(* The other routes *)

Investigate(k) ==
  Handling(k, {"investigate"}) /\ Operate(k, Sender(k).name, "200", {"404", "422"})

Remember(k) ==
  Handling(k, {"memory"}) /\ Operate(k, Sender(k).name, "201", {"404", "422"})

\* Not even an unknown incident is a 404 here.
Propose(k) ==
  Handling(k, {"remediation"}) /\ Operate(k, Sender(k).name, "201", {"422"})

Decide(k) ==
  /\ Handling(k, {"approve-remediation", "reject-remediation"})
  /\ IF ActorIsForeign(k)
     THEN Answer(k, "403") /\ UNCHANGED <<securityVars, incidents, alerts, effects>>
     ELSE Operate(k, VerifiedActor(k), "200", {"422"})

Analyze(k) ==
  Handling(k, {"anomalies/analyze"}) /\ Operate(k, Sender(k).name, "201", {"422"})

Rebuild(k) ==
  Handling(k, {"topology/rebuild"}) /\ Operate(k, Sender(k).name, "201", {"422"})

\* A report that was published already cannot be inserted again.
Publish(k) == Handling(k, {"evaluations"}) /\ Operate(k, Sender(k).name, "201", {})

\* The reading routes.
Read(k) ==
  /\ call[k] # None /\ call[k].status = "running" /\ call[k].request.method = "GET"
  /\ \E status \in {"200", "404", "500"} : Answer(k, status)
  /\ UNCHANGED <<securityVars, incidents, alerts, effects>>

Handle(k) ==
  \/ RejectBody(k) \/ CreateIncident(k) \/ CreateAlertIncident(k) \/ RecordAlert(k)
  \/ Investigate(k) \/ Remember(k) \/ Propose(k) \/ Decide(k) \/ Analyze(k)
  \/ Rebuild(k) \/ Publish(k) \/ Read(k)

Next ==
  \/ \E r \in Replicas : StartProcess(r) /\ UNCHANGED apiVars
  \/ \E r \in Replicas : Stop(r)
  \/ ReplaceFile /\ UNCHANGED apiVars
  \/ \E c \in Callers : Send(c)
  \/ \E c \in Callers, n \in 1 .. MaxAttempts - 1 : Retry(c, n)
  \/ \E k \in Attempts : TimeOut(k) \/ Handle(k)

Spec == Init /\ [][Next]_vars

---------------------------------------------------------------------------
(* Properties *)

\* The permission that each operation is for.
Duty(path) ==
  CASE path = "alerts/prometheus" -> "ingest"
    [] path = "evaluations" -> "publish"
    [] path \in {"remediation", "approve-remediation", "reject-remediation"} ->
         "remediate"
    [] OTHER -> "investigate"

\* In production, and wherever authentication is on, a handler carries out an
\* operation only for a token that the credential file of its process's start
\* lists with the permission for that operation, whatever replaced the file,
\* restarted or was repeated since.
EffectsAreAuthorised ==
  \A e \in effects :
    e.settings.production \/ e.settings.auth =>
      \E c \in files[e.loaded] :
        c.token = e.token /\ e.token \in UsableTokens /\ Duty(e.path) \in c.permissions

\* Every replica that checks tokens does so against the mounted credential file.
RolledOut ==
  \A r \in Replicas :
    process[r] # None /\ process[r].settings.auth => process[r].loaded = Len(files)

\* Taking a credential or a permission out of the file takes hold with the restart
\* of the last replica: from then on nothing is done for a token that the mounted
\* file does not list with the permission, neither by a handler that was admitted
\* before nor for a request that is repeated.
RevocationTakesHold ==
  [][\A e \in effects' \ effects :
       (e.settings.production \/ e.settings.auth) /\ RolledOut =>
         \E c \in files[Len(files)] :
           c.token = e.token /\ Duty(e.path) \in c.permissions]_vars

\* Where kubectl may run, the approver that the plan records is the principal
\* whose token was presented, never a name that the body chose.
ExecutionsAreAttributed ==
  \A e \in effects :
    /\ e.settings.execution
    /\ e.path = "approve-remediation"
    => \E c \in files[e.loaded] : c.token = e.token /\ c.principal = e.actor

StoredOf(rows, k) == {row.index : row \in {x \in rows : x.caller = k}}

\* What an attempt stored is a prefix of its webhook; only the last incident may
\* lack its alert; an accepted webhook is stored as a whole, and a refused
\* request leaves nothing.  Every stored window is two minutes or more, in order,
\* and not before the first year, and every alert has its incident.
AcceptedIsStored ==
  /\ \A k \in Attempts : call[k] # None =>
       LET stored == StoredOf(incidents, k)
           recorded == StoredOf(alerts, k)
       IN  /\ stored = 1 .. Cardinality(stored)
           /\ call[k].request.path = "alerts/prometheus" =>
                \/ recorded = stored
                \/ recorded = stored \ {Cardinality(stored)}
           /\ call[k].status = "201" /\ call[k].request.path = "alerts/prometheus" =>
                recorded = DOMAIN call[k].request.alerts
           /\ call[k].status \in {"401", "403", "422"} => stored = {}
  /\ \A i \in incidents : i.window.start.at >= 0 /\ Duration(i.window) >= 2
  /\ \A a \in alerts : \E i \in incidents :
       i.caller = a.caller /\ i.index = a.index /\ i.window.start = a.starts

\* The intake is Alertmanager-compatible: of a webhook whose times have zones, as
\* Alertmanager's have, every alert can be stored, one that fires still and
\* therefore has the zero time as its end among them.  The code extends the window
\* of such an alert to a time that does not exist, and answers 500 every time.
AlertmanagerIsServed ==
  \A k \in Attempts :
    /\ call[k] # None
    /\ call[k].status = "running"
    /\ call[k].request.path = "alerts/prometheus"
    /\ call[k].index \in DOMAIN call[k].request.alerts
    /\ LET alert == CurrentAlert(k)
       IN \A t \in {alert.starts, alert.ends} \ {None} : t.aware
    => Representable(CurrentAlert(k))
=============================================================================
