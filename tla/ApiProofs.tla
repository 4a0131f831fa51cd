------------------------------ MODULE ApiProofs ------------------------------
(***************************************************************************)
(* Proofs about Api, for any replicas, settings, credential files, callers *)
(* and requests.  Authorisation follows from what the middleware saw when  *)
(* it admitted a request: the replica that runs the handler still has the  *)
(* settings and the file version it had then, as stopping it takes the     *)
(* handler along.  Intake follows from how far each handler has come.      *)
(***************************************************************************)
EXTENDS Api, FiniteSetTheorems, TLAPS

---------------------------------------------------------------------------
(* The inductive invariant *)

IntTimes == [at : Int, aware : BOOLEAN]

Windows == [start : IntTimes, end : IntTimes]

TypeOK ==
  /\ files \in Seq(CredentialFiles) \ {<<>>}
  /\ process \in [Replicas -> {None} \cup [settings : Deployments, loaded : Nat]]
  /\ call \in [Attempts -> {None} \cup Calls]
  /\ incidents \subseteq [caller : Attempts, index : Nat, window : Windows]
  /\ alerts \subseteq [caller : Attempts, index : Nat, starts : IntTimes]

Started(p) == p.loaded \in 1 .. Len(files) /\ ValidSettings(p.settings)

\* A running handler has passed the middleware of the process it runs in.
Admitted(c) ==
  /\ process[c.replica] # None
  /\ c.loaded = process[c.replica].loaded
  /\ c.sender = SendersOf(process[c.replica], c.request.token)
  /\ c.sender # {}
  /\ \A q \in c.sender :
       RequiredPermission(c.request.method, c.request.path) \in q.permissions

Entitled(e) ==
  /\ e.loaded \in 1 .. Len(files)
  /\ e.settings.production \/ e.settings.auth =>
       \E c \in files[e.loaded] :
         c.token = e.token /\ e.token \in UsableTokens /\ Duty(e.path) \in c.permissions
  /\ e.settings.execution /\ e.path = "approve-remediation" =>
       \E c \in files[e.loaded] : c.token = e.token /\ c.principal = e.actor

Secure ==
  /\ \A r \in Replicas : process[r] # None => Started(process[r])
  /\ \A k \in Attempts :
       call[k] # None /\ call[k].status = "running" => Admitted(call[k])
  /\ \A e \in effects : Entitled(e)

\* An attempt has stored m incidents and n alerts.
Progress(k, m, n) ==
  /\ StoredOf(incidents, k) = 1 .. m /\ StoredOf(alerts, k) = 1 .. n
  /\ call[k] = None => m = 0 /\ n = 0
  /\ call[k] # None =>
       /\ call[k].request.path = "alerts/prometheus" => n = m \/ n = m - 1
       /\ call[k].status = "running" =>
            /\ n = call[k].index - 1
            /\ m = IF call[k].at = "incident" THEN n ELSE n + 1
       /\ call[k].status = "201" /\ call[k].request.path = "alerts/prometheus" =>
            m = n /\ n = Len(call[k].request.alerts)
       /\ call[k].status \in {"401", "403", "422"} => m = 0

\* Only a webhook's handler comes further than its first write.
Position(k) ==
  call[k] # None /\ call[k].status = "running" =>
    /\ call[k].request.path # "alerts/prometheus" =>
         call[k].index = 1 /\ call[k].at = "incident"
    /\ call[k].index = 1 \/ call[k].index <= Len(call[k].request.alerts)
    /\ call[k].at = "alert" =>
         /\ call[k].index <= Len(call[k].request.alerts)
         /\ \E i \in incidents :
              /\ i.caller = k /\ i.index = call[k].index
              /\ i.window.start = AlertWindow(CurrentAlert(k)).start

Sound ==
  /\ \A i \in incidents : i.window.start.at >= 0 /\ Duration(i.window) >= 2
  /\ \A a \in alerts : \E i \in incidents :
       i.caller = a.caller /\ i.index = a.index /\ i.window.start = a.starts

Orderly ==
  /\ \A k \in Attempts : (\E m, n \in Nat : Progress(k, m, n)) /\ Position(k)
  /\ Sound

IInv == TypeOK /\ Secure /\ Orderly

---------------------------------------------------------------------------
(* Handlers in general *)

\* An attempt that was made has a record of a request.
LEMMA MadeIsCall ==
  ASSUME TypeOK, NEW k \in Attempts, call[k] # None
  PROVE  call[k] \in Calls
  BY DEF TypeOK

\* The window of an alert has times, and is long enough if it can be stored.
LEMMA WindowOfAlert ==
  ASSUME NEW alert \in AlertBodies
  PROVE  /\ AlertWindow(alert) \in Windows
         /\ Representable(alert) =>
              /\ AlertWindow(alert).start.at >= 0
              /\ Duration(AlertWindow(alert)) >= 2
<1> DEFINE start == IF alert.starts = None THEN Aware(Now - 10) ELSE alert.starts
           end == IF alert.ends = None THEN Aware(Now) ELSE alert.ends
<1>1. start \in IntTimes
  BY ApiAssumption DEF AlertBodies, IntTimes, Times, Aware
<1>2. end \in IntTimes
  BY ApiAssumption DEF AlertBodies, IntTimes, Times, Aware
<1>3. [end EXCEPT !.at = @ - 2] \in IntTimes /\ [end EXCEPT !.at = @ - 2].at = end.at - 2
  BY <1>2 DEF IntTimes
<1>4. AlertWindow(alert) =
        [start |-> IF end.at - start.at < 2 THEN [end EXCEPT !.at = @ - 2] ELSE start,
         end |-> end]
  BY DEF AlertWindow
<1>5. start.at \in Int /\ end.at \in Int
  BY <1>1, <1>2 DEF IntTimes
<1> HIDE DEF start, end
<1>6. AlertWindow(alert) \in Windows
  BY <1>1, <1>2, <1>3, <1>4 DEF Windows
<1>7. end.at - AlertWindow(alert).start.at >= 2
  <2>1. CASE end.at - start.at < 2
    <3>1. AlertWindow(alert).start = [end EXCEPT !.at = @ - 2]
      BY <2>1, <1>4
    <3>2. AlertWindow(alert).start.at = end.at - 2
      BY <3>1, <1>3
    <3> QED BY <3>2, <1>5
  <2>2. CASE ~(end.at - start.at < 2)
    BY <2>2, <1>4, <1>5
  <2> QED BY <2>1, <2>2
<1> QED BY <1>4, <1>6, <1>7 DEF Representable, Duration

\* Going on to the next alert changes the position alone.
LEMMA NextAlert ==
  ASSUME NEW c \in Calls
  PROVE  LET next == [c EXCEPT !.at = "incident", !.index = @ + 1]
         IN  /\ next \in Calls
             /\ next.request = c.request /\ next.replica = c.replica
             /\ next.loaded = c.loaded /\ next.sender = c.sender
             /\ next.status = c.status
             /\ next.at = "incident" /\ next.index = c.index + 1
<1> DEFINE moved == [c EXCEPT !.at = "incident"]
           next == [moved EXCEPT !.index = @ + 1]
<1>1. /\ moved \in Calls /\ moved.index = c.index /\ moved.at = "incident"
      /\ moved.request = c.request /\ moved.replica = c.replica
      /\ moved.loaded = c.loaded /\ moved.sender = c.sender /\ moved.status = c.status
  BY DEF Calls
<1> HIDE DEF moved
<1>2. moved.index + 1 \in Nat \ {0}
  BY <1>1 DEF Calls
<1>3. /\ next \in Calls /\ next.index = moved.index + 1 /\ next.at = moved.at
      /\ next.request = moved.request /\ next.replica = moved.replica
      /\ next.loaded = moved.loaded /\ next.sender = moved.sender
      /\ next.status = moved.status
  BY <1>1, <1>2 DEF Calls
<1>4. next = [c EXCEPT !.at = "incident", !.index = @ + 1]
  BY DEF moved, Calls
<1> QED BY <1>1, <1>3, <1>4

\* What any step of a handler does to its attempt and to the operations: the
\* request and its sender stay, and only a POST has an effect, whose actor is
\* verified where it decides a plan.
Handled(k) ==
  /\ call[k] # None /\ call[k].status = "running"
  /\ UNCHANGED securityVars
  /\ \E c \in Calls :
       /\ call' = [call EXCEPT ![k] = c]
       /\ c.request = call[k].request /\ c.replica = call[k].replica
       /\ c.loaded = call[k].loaded /\ c.sender = call[k].sender
  /\ \/ effects' = effects
     \/ /\ call[k].request.method = "POST"
        /\ \E actor :
             /\ effects' = effects \cup {Effect(k, actor)}
             /\ call[k].request.path = "approve-remediation" => actor = VerifiedActor(k)

\* Answering changes the status and nothing else.
LEMMA AnswerHandled ==
  ASSUME TypeOK, NEW k \in Attempts, call[k] # None,
         NEW status \in Statuses, Answer(k, status)
  PROVE  \E c \in Calls :
           /\ call' = [call EXCEPT ![k] = c]
           /\ c.request = call[k].request /\ c.replica = call[k].replica
           /\ c.loaded = call[k].loaded /\ c.sender = call[k].sender
           /\ c.index = call[k].index /\ c.at = call[k].at
           /\ c.status = status
<1>1. call[k] \in Calls BY MadeIsCall
<1>2. [call[k] EXCEPT !.status = status] \in Calls BY <1>1 DEF Calls
<1>3. call' = [call EXCEPT ![k] = [call[k] EXCEPT !.status = status]]
  BY DEF Answer
<1>4. /\ [call[k] EXCEPT !.status = status].request = call[k].request
      /\ [call[k] EXCEPT !.status = status].replica = call[k].replica
      /\ [call[k] EXCEPT !.status = status].loaded = call[k].loaded
      /\ [call[k] EXCEPT !.status = status].sender = call[k].sender
      /\ [call[k] EXCEPT !.status = status].index = call[k].index
      /\ [call[k] EXCEPT !.status = status].at = call[k].at
      /\ [call[k] EXCEPT !.status = status].status = status
  BY <1>1 DEF Calls
<1> QED BY <1>2, <1>3, <1>4

LEMMA OperateHandled ==
  ASSUME TypeOK, NEW k \in Attempts, NEW actor, NEW success \in Statuses,
         NEW refusals \in SUBSET Statuses,
         call[k] # None, call[k].status = "running", call[k].request.method = "POST",
         Operate(k, actor, success, refusals),
         call[k].request.path = "approve-remediation" => actor = VerifiedActor(k)
  PROVE  Handled(k)
<1>1. \E status \in Statuses : Answer(k, status)
  <2>1. CASE Answer(k, success) BY <2>1
  <2>2. CASE \E status \in refusals : Answer(k, status)
    <3>1. PICK status \in refusals : Answer(k, status) BY <2>2
    <3> QED BY <3>1
  <2>3. CASE Answer(k, "500") BY <2>3 DEF Statuses
  <2> QED BY <2>1, <2>2, <2>3 DEF Operate
<1>2. \E c \in Calls :
        /\ call' = [call EXCEPT ![k] = c]
        /\ c.request = call[k].request /\ c.replica = call[k].replica
        /\ c.loaded = call[k].loaded /\ c.sender = call[k].sender
  BY <1>1, AnswerHandled
<1>3. UNCHANGED securityVars
  BY DEF Operate
<1>4. effects' = effects \/ effects' = effects \cup {Effect(k, actor)}
  BY DEF Operate, Perform
<1> QED BY <1>2, <1>3, <1>4 DEF Handled

\* Nothing but the two decisions is for an approval.
LEMMA HandleHandled ==
  ASSUME TypeOK, NEW k \in Attempts, Handle(k)
  PROVE  Handled(k)
<1>1. CASE RejectBody(k)
  <2>1. call[k] # None /\ call[k].status = "running" /\ Answer(k, "422")
    BY <1>1 DEF RejectBody, Handling
  <2>2. UNCHANGED securityVars /\ effects' = effects
    BY <1>1 DEF RejectBody
  <2> QED BY <2>1, <2>2, AnswerHandled DEF Handled, Statuses
<1>2. CASE CreateIncident(k)
  <2>1. /\ call[k] # None /\ call[k].status = "running" /\ UNCHANGED securityVars
        /\ call[k].request.method = "POST" /\ call[k].request.path = "incidents"
    BY <1>2 DEF CreateIncident, Handling, securityVars
  <2>2. \E status \in {"201", "500"} : Answer(k, status)
    BY <1>2 DEF CreateIncident
  <2>3. effects' = effects \/ effects' = effects \cup {Effect(k, Sender(k).name)}
    BY <1>2 DEF CreateIncident, StoreIncident, Perform
  <2> QED BY <2>1, <2>2, <2>3, AnswerHandled DEF Handled, Statuses
<1>3. CASE CreateAlertIncident(k)
  <2>1. /\ call[k] # None /\ call[k].status = "running" /\ UNCHANGED securityVars
        /\ call[k].request.method = "POST" /\ call[k].request.path = "alerts/prometheus"
    BY <1>3 DEF CreateAlertIncident, Handling, securityVars
  <2>2. CASE Answer(k, "500")
    <3>1. effects' = effects \/ effects' = effects \cup {Effect(k, Sender(k).name)}
      BY <1>3 DEF CreateAlertIncident, StoreIncident, Perform
    <3> QED BY <2>1, <2>2, <3>1, AnswerHandled DEF Handled, Statuses
  <2>3. CASE call' = [call EXCEPT ![k].at = "alert"]
    <3>1. call[k] \in Calls BY <2>1, MadeIsCall
    <3>2. [call[k] EXCEPT !.at = "alert"] \in Calls BY <3>1 DEF Calls
    <3>3. /\ [call[k] EXCEPT !.at = "alert"].request = call[k].request
          /\ [call[k] EXCEPT !.at = "alert"].replica = call[k].replica
          /\ [call[k] EXCEPT !.at = "alert"].loaded = call[k].loaded
          /\ [call[k] EXCEPT !.at = "alert"].sender = call[k].sender
      BY <3>1 DEF Calls
    <3>4. effects' = effects \/ effects' = effects \cup {Effect(k, Sender(k).name)}
      BY <1>3 DEF CreateAlertIncident, StoreIncident, Perform
    <3>5. call' = [call EXCEPT ![k] = [call[k] EXCEPT !.at = "alert"]]
      BY <2>3
    <3> QED BY <2>1, <3>2, <3>3, <3>4, <3>5 DEF Handled
  <2> QED BY <1>3, <2>2, <2>3 DEF CreateAlertIncident
<1>4. CASE RecordAlert(k)
  <2>1. /\ call[k] # None /\ call[k].status = "running" /\ UNCHANGED securityVars
        /\ effects' = effects
    BY <1>4 DEF RecordAlert, Handling, securityVars
  <2>2. CASE \E status \in {"201", "500"} : Answer(k, status)
    BY <2>1, <2>2, AnswerHandled DEF Handled, Statuses
  <2>3. CASE call' = [call EXCEPT ![k].at = "incident", ![k].index = @ + 1]
    <3> DEFINE next == [call[k] EXCEPT !.at = "incident", !.index = @ + 1]
    <3>1. call[k] \in Calls BY <2>1, MadeIsCall
    <3>2. /\ next \in Calls
          /\ next.request = call[k].request /\ next.replica = call[k].replica
          /\ next.loaded = call[k].loaded /\ next.sender = call[k].sender
      BY <3>1, NextAlert
    <3>4. call' = [call EXCEPT ![k] = next]
      BY <2>3, <3>1 DEF TypeOK, Calls
    <3> HIDE DEF next
    <3> QED BY <2>1, <3>2, <3>4 DEF Handled
  <2> QED BY <1>4, <2>2, <2>3 DEF RecordAlert, GoOn
<1>5. CASE Investigate(k)
  BY <1>5, OperateHandled DEF Investigate, Handling, Statuses
<1>6. CASE Remember(k)
  BY <1>6, OperateHandled DEF Remember, Handling, Statuses
<1>7. CASE Propose(k)
  BY <1>7, OperateHandled DEF Propose, Handling, Statuses
<1>8. CASE Decide(k)
  <2>1. CASE ActorIsForeign(k)
    <3>1. call[k] # None /\ call[k].status = "running" /\ Answer(k, "403")
      BY <1>8, <2>1 DEF Decide, Handling
    <3>2. UNCHANGED securityVars /\ effects' = effects
      BY <1>8, <2>1 DEF Decide
    <3> QED BY <3>1, <3>2, AnswerHandled DEF Handled, Statuses
  <2>2. CASE ~ActorIsForeign(k)
    BY <1>8, <2>2, OperateHandled DEF Decide, Handling, Statuses
  <2> QED BY <2>1, <2>2
<1>9. CASE Analyze(k)
  BY <1>9, OperateHandled DEF Analyze, Handling, Statuses
<1>10. CASE Rebuild(k)
  BY <1>10, OperateHandled DEF Rebuild, Handling, Statuses
<1>11. CASE Publish(k)
  BY <1>11, OperateHandled DEF Publish, Handling, Statuses
<1>12. CASE Read(k)
  <2>1. call[k] # None /\ call[k].status = "running"
    BY <1>12 DEF Read
  <2>2. \E status \in {"200", "404", "500"} : Answer(k, status)
    BY <1>12 DEF Read
  <2>3. UNCHANGED securityVars /\ effects' = effects
    BY <1>12 DEF Read
  <2> QED BY <2>1, <2>2, <2>3, AnswerHandled DEF Handled, Statuses
<1> QED
  BY <1>1, <1>2, <1>3, <1>4, <1>5, <1>6, <1>7, <1>8, <1>9, <1>10, <1>11, <1>12
  DEF Handle

---------------------------------------------------------------------------
(* Authorisation *)

\* Whoever a process of an existing file version takes a sender for is known.
LEMMA SendersAreKnown ==
  ASSUME TypeOK, Secure, NEW r \in Replicas, process[r] # None, NEW q \in Requests
  PROVE  SendersOf(process[r], q.token) \in SUBSET Known
<1>1. files[process[r].loaded] \in CredentialFiles
  BY DEF TypeOK, Secure, Started
<1>2. Authenticate(files[process[r].loaded], q.token) \in
        {Authenticate(f, t) : f \in CredentialFiles, t \in {x.token : x \in Requests}}
  BY <1>1
<1>3. Authenticate(files[process[r].loaded], q.token) \subseteq Known
  BY <1>2 DEF Known
<1>4. {Development} \subseteq Known
  BY DEF Known
<1> QED BY <1>3, <1>4 DEF SendersOf

\* What an admitted handler does, its sender is entitled to.
LEMMA EffectIsEntitled ==
  ASSUME TypeOK, Secure, NEW k \in Attempts, NEW actor,
         call[k] # None, call[k].status = "running", call[k].request.method = "POST",
         call[k].request.path = "approve-remediation" => actor = VerifiedActor(k)
  PROVE  Entitled(Effect(k, actor))
<1> DEFINE p == process[call[k].replica]
           credentials == files[p.loaded]
           token == call[k].request.token
           path == call[k].request.path
<1>1. call[k].replica \in Replicas /\ Admitted(call[k])
  BY MadeIsCall DEF Calls, Secure
<1>2. p # None /\ Started(p) /\ p.settings \in Deployments
  BY <1>1 DEF TypeOK, Secure, Admitted
<1>3. /\ Effect(k, actor).loaded = p.loaded /\ Effect(k, actor).settings = p.settings
      /\ Effect(k, actor).token = token /\ Effect(k, actor).path = path
      /\ Effect(k, actor).actor = actor
  BY <1>1 DEF Effect, Settings, Admitted
<1>4. /\ p.settings.production \in BOOLEAN /\ p.settings.auth \in BOOLEAN
      /\ p.settings.execution \in BOOLEAN
  BY <1>2, SecurityAssumption
<1>5. /\ p.settings.production \/ p.settings.auth => p.settings.auth
      /\ p.settings.execution => p.settings.auth
  BY <1>2, <1>4 DEF Started, ValidSettings
<1>6. Duty(path) = RequiredPermission(call[k].request.method, path)
  BY DEF Duty, RequiredPermission
<1>7. /\ Sender(k) \in call[k].sender
      /\ Duty(path) \in Sender(k).permissions
  <2>1. call[k].sender # {}
    BY <1>1 DEF Admitted
  <2>2. Sender(k) \in call[k].sender
    BY <2>1 DEF Sender
  <2> QED BY <1>1, <1>6, <2>2 DEF Admitted
<1>8. ASSUME p.settings.auth
      PROVE  \E c \in credentials :
               /\ c.token = token /\ token \in UsableTokens
               /\ Duty(path) \in c.permissions
               /\ Sender(k).authenticated /\ Sender(k).name = c.principal
  <2>1. Sender(k) \in Authenticate(credentials, token)
    BY <1>1, <1>7, <1>8 DEF Admitted, SendersOf
  <2>2. PICK c \in {x \in credentials : x.token = token /\ token \in UsableTokens} :
          Sender(k) = Principal(c.principal, c.permissions, TRUE)
    BY <2>1 DEF Authenticate
  <2>3. Sender(k).permissions = c.permissions /\ Sender(k).name = c.principal
        /\ Sender(k).authenticated
    BY <2>2 DEF Principal
  <2> QED BY <1>7, <2>2, <2>3
<1>9. ASSUME p.settings.auth, path = "approve-remediation"
      PROVE  \E c \in credentials : c.token = token /\ c.principal = actor
  BY <1>8, <1>9 DEF VerifiedActor
<1> HIDE DEF p, credentials, token, path
<1>10. p.loaded \in 1 .. Len(files)
  BY <1>2 DEF Started
<1> QED
  BY <1>3, <1>5, <1>8, <1>9, <1>10 DEF Entitled, credentials

\* Handlers keep the invariant: what they do is entitled, and they stay admitted.
LEMMA HandledIsSecure ==
  ASSUME TypeOK, Secure, NEW k \in Attempts, Handled(k)
  PROVE  Secure'
<1>1. PICK c \in Calls :
        /\ call' = [call EXCEPT ![k] = c]
        /\ c.request = call[k].request /\ c.replica = call[k].replica
        /\ c.loaded = call[k].loaded /\ c.sender = call[k].sender
  BY DEF Handled
<1>2. call[k] # None /\ call[k].status = "running" /\ Admitted(call[k])
  BY DEF Handled, Secure
<1>3. files' = files /\ process' = process
  BY DEF Handled, securityVars
<1>4. Admitted(c)' /\ c' = c
  BY <1>1, <1>2, <1>3 DEF Admitted, SendersOf
<1>5. (\A r \in Replicas : process[r] # None => Started(process[r]))'
  BY <1>3 DEF Secure, Started
<1>6. ASSUME NEW j \in Attempts, call'[j] # None, call'[j].status = "running"
      PROVE  Admitted(call[j])'
  <2>1. CASE j = k
    <3>1. call'[j] = c BY <1>1, <2>1 DEF TypeOK
    <3> QED BY <1>4, <3>1 DEF Admitted
  <2>2. CASE j # k
    <3>1. call'[j] = call[j] BY <1>1, <2>2 DEF TypeOK
    <3>2. Admitted(call[j]) BY <1>6, <3>1 DEF Secure
    <3> QED BY <1>3, <3>1, <3>2 DEF Admitted, SendersOf
  <2> QED BY <2>1, <2>2
<1>7. ASSUME NEW e \in effects' PROVE Entitled(e)'
  <2>1. Entitled(e)
    BY <1>7, <1>2, EffectIsEntitled DEF Handled, Secure
  <2> QED BY <2>1, <1>3 DEF Entitled
<1> QED BY <1>5, <1>6, <1>7 DEF Secure

LEMMA SecurityOfInit == Init => Secure
  BY DEF Init, SecurityInit, Secure

LEMMA SecurityOfStart ==
  ASSUME TypeOK, Secure, NEW r \in Replicas, StartProcess(r), UNCHANGED apiVars
  PROVE  Secure'
<1>1. PICK s \in Deployments :
        /\ ValidSettings(s)
        /\ process' = [process EXCEPT ![r] = [settings |-> s, loaded |-> Len(files)]]
  BY DEF StartProcess
<1>2. process[r] = None /\ files' = files /\ call' = call /\ effects' = effects
  BY DEF StartProcess, apiVars
<1>3. Len(files) \in 1 .. Len(files)
  BY DEF TypeOK
<1>4. ASSUME NEW q \in Replicas, process'[q] # None PROVE Started(process[q])'
  <2>1. CASE q = r
    <3>1. process'[q] = [settings |-> s, loaded |-> Len(files)]
      BY <1>1, <2>1 DEF TypeOK
    <3> QED BY <1>1, <1>2, <1>3, <3>1 DEF Started
  <2>2. CASE q # r
    <3>1. process'[q] = process[q] BY <1>1, <2>2 DEF TypeOK
    <3> QED BY <1>2, <1>4, <3>1 DEF Secure, Started
  <2> QED BY <2>1, <2>2
<1>5. ASSUME NEW k \in Attempts, call'[k] # None, call'[k].status = "running"
      PROVE  Admitted(call[k])'
  <2>1. Admitted(call[k]) /\ call[k].replica \in Replicas
    BY <1>2, <1>5, MadeIsCall DEF Secure, Calls
  <2>2. process'[call[k].replica] = process[call[k].replica]
    BY <1>1, <1>2, <2>1 DEF TypeOK, Admitted
  <2> QED BY <1>2, <2>1, <2>2 DEF Admitted, SendersOf
<1>6. (\A e \in effects : Entitled(e))'
  BY <1>2 DEF Secure, Entitled
<1> QED BY <1>4, <1>5, <1>6 DEF Secure

LEMMA SecurityOfStop ==
  ASSUME TypeOK, Secure, NEW r \in Replicas, Stop(r)
  PROVE  Secure'
<1>1. process' = [process EXCEPT ![r] = None] /\ files' = files /\ effects' = effects
  BY DEF Stop, StopProcess
<1>2. ASSUME NEW q \in Replicas, process'[q] # None PROVE Started(process[q])'
  <2>1. process'[q] = process[q] BY <1>1, <1>2 DEF TypeOK
  <2> QED BY <1>1, <1>2, <2>1 DEF Secure, Started
<1>3. ASSUME NEW k \in Attempts, call'[k] # None, call'[k].status = "running"
      PROVE  Admitted(call[k])'
  <2>1. call'[k] = IF call[k] # None /\ call[k].status = "running" /\ call[k].replica = r
                   THEN [call[k] EXCEPT !.status = "lost"] ELSE call[k]
    BY DEF Stop
  <2>2. call[k] # None => [call[k] EXCEPT !.status = "lost"].status = "lost"
    BY MadeIsCall DEF Calls
  <2>3. call'[k] = call[k] /\ call[k].replica # r
    BY <1>3, <2>1, <2>2
  <2>4. Admitted(call[k]) /\ call[k].replica \in Replicas
    BY <1>3, <2>3, MadeIsCall DEF Secure, Calls
  <2>5. process'[call[k].replica] = process[call[k].replica]
    BY <1>1, <2>3, <2>4 DEF TypeOK
  <2> QED BY <1>1, <2>3, <2>4, <2>5 DEF Admitted, SendersOf
<1>4. (\A e \in effects : Entitled(e))'
  BY <1>1 DEF Secure, Entitled
<1> QED BY <1>2, <1>3, <1>4 DEF Secure

\* A new version of the file leaves the versions in use alone.
LEMMA SecurityOfReplaceFile ==
  ASSUME TypeOK, Secure, ReplaceFile, UNCHANGED apiVars
  PROVE  Secure'
<1>1. PICK f \in CredentialFiles : files' = Append(files, f)
  BY DEF ReplaceFile
<1>2. process' = process /\ call' = call /\ effects' = effects
  BY DEF ReplaceFile, apiVars
<1>3. \A i \in 1 .. Len(files) : i \in 1 .. Len(files') /\ files'[i] = files[i]
  BY <1>1 DEF TypeOK
<1>4. ASSUME NEW r \in Replicas, process'[r] # None PROVE Started(process[r])'
  BY <1>2, <1>3, <1>4 DEF Secure, Started
<1>5. ASSUME NEW k \in Attempts, call'[k] # None, call'[k].status = "running"
      PROVE  Admitted(call[k])'
  <2>1. Admitted(call[k]) /\ call[k].replica \in Replicas
    BY <1>2, <1>5, MadeIsCall DEF Secure, Calls
  <2>2. process[call[k].replica].loaded \in 1 .. Len(files)
    BY <2>1 DEF Secure, Started, Admitted
  <2> QED BY <1>2, <1>3, <2>1, <2>2 DEF Admitted, SendersOf
<1>6. ASSUME NEW e \in effects' PROVE Entitled(e)'
  <2>1. Entitled(e) BY <1>2, <1>6 DEF Secure
  <2> QED BY <1>3, <2>1 DEF Entitled
<1> QED BY <1>4, <1>5, <1>6 DEF Secure

\* The record that a request gets when it arrives.
LEMMA ArrivedIsCall ==
  ASSUME TypeOK, Secure, NEW k \in Attempts, NEW request \in Requests, Arrive(k, request)
  PROVE  \E c \in Calls :
           /\ call[k] = None /\ call' = [call EXCEPT ![k] = c]
           /\ c.request = request /\ c.index = 1 /\ c.at = "incident"
           /\ c.status \in {"running", "401", "403"}
           /\ c.status = "running" => Admitted(c)
<1>1. PICK r \in Replicas : \E refusal \in {Refusal(process[r], request)} :
        /\ process[r] # None
        /\ call' = [call EXCEPT ![k] =
             [request |-> request, replica |-> r, loaded |-> process[r].loaded,
              sender |-> SendersOf(process[r], request.token),
              status |-> IF refusal = None THEN "running" ELSE refusal,
              awaited |-> TRUE, index |-> 1, at |-> "incident"]]
  BY DEF Arrive
<1> DEFINE refusal == Refusal(process[r], request)
           senders == SendersOf(process[r], request.token)
           status == IF refusal = None THEN "running" ELSE refusal
           c == [request |-> request, replica |-> r, loaded |-> process[r].loaded,
                 sender |-> senders, status |-> status,
                 awaited |-> TRUE, index |-> 1, at |-> "incident"]
<1>2. senders \in SUBSET Known
  BY <1>1, SendersAreKnown
<1>3. process[r].loaded \in Nat
  BY <1>1 DEF TypeOK
<1>4. refusal = IF senders = {} THEN "401"
                ELSE IF \E q \in senders :
                          RequiredPermission(request.method, request.path)
                            \notin q.permissions
                THEN "403" ELSE None
  BY DEF Refusal
<1>5. status \in {"running", "401", "403"}
  BY <1>4
<1>6. status = "running" =>
        /\ senders # {}
        /\ \A q \in senders :
             RequiredPermission(request.method, request.path) \in q.permissions
  BY <1>4, SecurityAssumption
<1> HIDE DEF senders, status, refusal
<1>7. c \in Calls
  BY <1>2, <1>3, <1>5 DEF Calls, Statuses
<1>8. c.status = "running" => Admitted(c)
  BY <1>1, <1>6 DEF Admitted, senders
<1>9. call[k] = None /\ call' = [call EXCEPT ![k] = c]
  BY <1>1 DEF Arrive, senders, status, refusal
<1> QED BY <1>5, <1>7, <1>8, <1>9

LEMMA SecurityOfArrive ==
  ASSUME TypeOK, Secure, NEW k \in Attempts, NEW request \in Requests, Arrive(k, request)
  PROVE  Secure'
<1>1. PICK c \in Calls :
        call' = [call EXCEPT ![k] = c] /\ (c.status = "running" => Admitted(c))
  BY ArrivedIsCall
<1>2. files' = files /\ process' = process /\ effects' = effects
  BY DEF Arrive, securityVars
<1>3. ASSUME NEW j \in Attempts, call'[j] # None, call'[j].status = "running"
      PROVE  Admitted(call[j])'
  <2>1. Admitted(call'[j])
    BY <1>1, <1>3 DEF TypeOK, Secure
  <2> QED BY <1>2, <2>1 DEF Admitted, SendersOf
<1>4. (\A r \in Replicas : process[r] # None => Started(process[r]))'
  BY <1>2 DEF Secure, Started
<1>5. (\A e \in effects : Entitled(e))'
  BY <1>2 DEF Secure, Entitled
<1> QED BY <1>3, <1>4, <1>5 DEF Secure

\* Giving up changes whether anyone waits, which no handler looks at.
LEMMA TimedOutIsCall ==
  ASSUME TypeOK, NEW k \in Attempts, TimeOut(k)
  PROVE  \E c \in Calls :
           /\ call[k] # None /\ call' = [call EXCEPT ![k] = c]
           /\ c = [call[k] EXCEPT !.awaited = FALSE]
           /\ c.request = call[k].request /\ c.replica = call[k].replica
           /\ c.loaded = call[k].loaded /\ c.sender = call[k].sender
           /\ c.index = call[k].index /\ c.at = call[k].at
           /\ c.status = "running" /\ call[k].status = "running"
<1>1. call[k] \in Calls /\ call[k].status = "running" /\ call[k] # None
  BY MadeIsCall DEF TimeOut
<1>2. call' = [call EXCEPT ![k] = [call[k] EXCEPT !.awaited = FALSE]]
  BY DEF TimeOut
<1> DEFINE c == [call[k] EXCEPT !.awaited = FALSE]
<1>3. c \in Calls
  BY <1>1 DEF Calls
<1>4. /\ c.request = call[k].request /\ c.replica = call[k].replica
      /\ c.loaded = call[k].loaded /\ c.sender = call[k].sender
      /\ c.index = call[k].index /\ c.at = call[k].at /\ c.status = call[k].status
  BY <1>1 DEF Calls
<1>5. call' = [call EXCEPT ![k] = c]
  BY <1>2
<1> QED BY <1>1, <1>3, <1>4, <1>5

LEMMA SecurityOfTimeOut ==
  ASSUME TypeOK, Secure, NEW k \in Attempts, TimeOut(k)
  PROVE  Secure'
<1>1. files' = files /\ process' = process /\ effects' = effects
  BY DEF TimeOut, securityVars
<1>2. Handled(k)
  BY <1>1, TimedOutIsCall DEF Handled, securityVars
<1> QED BY <1>2, HandledIsSecure

LEMMA SecurityOfStep ==
  ASSUME TypeOK, Secure, [Next]_vars
  PROVE  Secure'
<1>1. ASSUME NEW r \in Replicas, StartProcess(r), UNCHANGED apiVars PROVE Secure'
  BY <1>1, SecurityOfStart
<1>2. ASSUME NEW r \in Replicas, Stop(r) PROVE Secure'
  BY <1>2, SecurityOfStop
<1>3. ASSUME ReplaceFile, UNCHANGED apiVars PROVE Secure'
  BY <1>3, SecurityOfReplaceFile
<1>4. ASSUME NEW c \in Callers, Send(c) PROVE Secure'
  <2>1. <<c, 1>> \in Attempts
    BY ApiAssumption DEF Attempts
  <2> QED BY <1>4, <2>1, SecurityOfArrive DEF Send
<1>5. ASSUME NEW c \in Callers, NEW n \in 1 .. MaxAttempts - 1, Retry(c, n) PROVE Secure'
  <2>1. <<c, n>> \in Attempts /\ <<c, n + 1>> \in Attempts
    BY ApiAssumption DEF Attempts
  <2>2. call[<<c, n>>].request \in Requests
    BY <1>5, <2>1, MadeIsCall DEF Retry, Calls
  <2> QED BY <1>5, <2>1, <2>2, SecurityOfArrive DEF Retry
<1>6. ASSUME NEW k \in Attempts, TimeOut(k) PROVE Secure'
  BY <1>6, SecurityOfTimeOut
<1>7. ASSUME NEW k \in Attempts, Handle(k) PROVE Secure'
  BY <1>7, HandleHandled, HandledIsSecure
<1>8. CASE UNCHANGED vars
  BY <1>8 DEF vars, securityVars, apiVars, Secure, Started, Admitted, Entitled, SendersOf
<1> QED
  BY <1>1, <1>2, <1>3, <1>4, <1>5, <1>6, <1>7, <1>8 DEF Next

---------------------------------------------------------------------------
(* Intake *)

\* What is stored for an attempt after one more row of its own.
LEMMA StoredMore ==
  ASSUME NEW rows, NEW row, NEW k
  PROVE  /\ row.caller = k => StoredOf(rows \cup {row}, k) = StoredOf(rows, k) \cup {row.index}
         /\ row.caller # k => StoredOf(rows \cup {row}, k) = StoredOf(rows, k)
  BY DEF StoredOf

\* A step adds rows of its own attempt only.
Adds(k) ==
  /\ incidents' = incidents \/ \E i : i.caller = k /\ incidents' = incidents \cup {i}
  /\ alerts' = alerts \/ \E a : a.caller = k /\ alerts' = alerts \cup {a}

\* So the other attempts are where they were.
LEMMA OthersStay ==
  ASSUME TypeOK, Orderly, NEW k \in Attempts, NEW c \in Calls,
         call' = [call EXCEPT ![k] = c], Adds(k), NEW j \in Attempts, j # k
  PROVE  (\E m, n \in Nat : Progress(j, m, n))' /\ Position(j)'
<1>1. call'[j] = call[j]
  BY DEF TypeOK
<1>2. StoredOf(incidents', j) = StoredOf(incidents, j)
  BY StoredMore DEF Adds
<1>3. StoredOf(alerts', j) = StoredOf(alerts, j)
  <2>1. CASE alerts' = alerts
    BY <2>1
  <2>2. ASSUME NEW a, a.caller = k, alerts' = alerts \cup {a}
        PROVE  StoredOf(alerts', j) = StoredOf(alerts, j)
    BY <2>2, StoredMore
  <2> QED BY <2>1, <2>2 DEF Adds
<1>4. PICK m \in Nat, n \in Nat : Progress(j, m, n)
  BY DEF Orderly
<1>5. Progress(j, m, n)'
  BY <1>1, <1>2, <1>3, <1>4 DEF Progress, StoredOf
<1>6. incidents \subseteq incidents'
  BY DEF Adds
<1>7. Position(j)'
  BY <1>1, <1>6 DEF Orderly, Position, CurrentAlert
<1> QED BY <1>5, <1>7

\* A handler that answers without storing anything.
LEMMA AnswerIsOrderly ==
  ASSUME TypeOK, Orderly, NEW k \in Attempts,
         call[k] # None, call[k].status = "running",
         NEW status \in Statuses \ {"running"}, Answer(k, status),
         UNCHANGED <<incidents, alerts>>,
         status = "201" => call[k].request.path # "alerts/prometheus",
         status \in {"401", "403", "422"} => call[k].index = 1 /\ call[k].at = "incident"
  PROVE  Orderly'
<1>1. PICK c \in Calls :
        /\ call' = [call EXCEPT ![k] = c] /\ c.request = call[k].request
        /\ c.status = status
  BY AnswerHandled
<1>2. Adds(k)
  BY DEF Adds
<1>3. PICK m \in Nat, n \in Nat : Progress(k, m, n)
  BY DEF Orderly
<1>4. call'[k] = c
  BY <1>1 DEF TypeOK
<1>5. c # None
  BY CallsAssumption
<1>6. Progress(k, m, n)'
  BY <1>1, <1>3, <1>4, <1>5 DEF Progress, StoredOf
<1>7. Position(k)'
  BY <1>1, <1>4 DEF Position
<1>8. \A j \in Attempts : (\E x, y \in Nat : Progress(j, x, y))' /\ Position(j)'
  BY <1>1, <1>2, <1>6, <1>7, OthersStay
<1>9. Sound'
  BY DEF Orderly, Sound
<1> QED BY <1>8, <1>9 DEF Orderly

LEMMA IntakeOfInit == Init => Orderly
<1> SUFFICES ASSUME Init PROVE Orderly OBVIOUS
<1>1. incidents = {} /\ alerts = {} /\ \A k \in Attempts : call[k] = None
  BY DEF Init
<1>2. \A k \in Attempts : Progress(k, 0, 0)
  BY <1>1 DEF Progress, StoredOf
<1> QED BY <1>1, <1>2 DEF Orderly, Position, Sound

LEMMA IntakeOfArrive ==
  ASSUME TypeOK, Secure, Orderly, NEW k \in Attempts, NEW request \in Requests,
         Arrive(k, request)
  PROVE  Orderly'
<1>1. PICK c \in Calls :
        /\ call[k] = None /\ call' = [call EXCEPT ![k] = c]
        /\ c.index = 1 /\ c.at = "incident" /\ c.status \in {"running", "401", "403"}
  BY ArrivedIsCall
<1>2. incidents' = incidents /\ alerts' = alerts
  BY DEF Arrive
<1>3. call'[k] = c /\ c # None
  BY <1>1, CallsAssumption DEF TypeOK
<1>4. Progress(k, 0, 0)
  BY <1>1 DEF Orderly, Progress
<1>5. Progress(k, 0, 0)'
  <2>1. StoredOf(incidents, k)' = 1 .. 0 /\ StoredOf(alerts, k)' = 1 .. 0
    BY <1>2, <1>4 DEF Progress, StoredOf
  <2>2. /\ call'[k].status \in {"running", "401", "403"}
        /\ call'[k].index = 1 /\ call'[k].at = "incident" /\ call'[k] # None
    BY <1>1, <1>3
  <2>3. call'[k].status # "201"
    BY <2>2
  <2> QED BY <2>1, <2>2, <2>3 DEF Progress
<1>6. Position(k)'
  BY <1>1, <1>3 DEF Position
<1>7. \A j \in Attempts : (\E m, n \in Nat : Progress(j, m, n))' /\ Position(j)'
  BY <1>1, <1>2, <1>5, <1>6, OthersStay DEF Adds
<1>8. Sound'
  BY <1>2 DEF Orderly, Sound
<1> QED BY <1>7, <1>8 DEF Orderly

LEMMA IntakeOfTimeOut ==
  ASSUME TypeOK, Orderly, NEW k \in Attempts, TimeOut(k)
  PROVE  Orderly'
<1>1. PICK c \in Calls :
        /\ call[k] # None /\ call' = [call EXCEPT ![k] = c]
        /\ c.request = call[k].request /\ c.index = call[k].index /\ c.at = call[k].at
        /\ c.status = "running" /\ call[k].status = "running"
  BY TimedOutIsCall
<1>2. incidents' = incidents /\ alerts' = alerts
  BY DEF TimeOut
<1>3. call'[k] = c /\ c # None
  BY <1>1, CallsAssumption DEF TypeOK
<1>4. PICK m \in Nat, n \in Nat : Progress(k, m, n)
  BY DEF Orderly
<1>5. Progress(k, m, n)'
  BY <1>1, <1>2, <1>3, <1>4 DEF Progress, StoredOf
<1>6. Position(k)'
  BY <1>1, <1>2, <1>3 DEF Orderly, Position, CurrentAlert
<1>7. \A j \in Attempts : (\E x, y \in Nat : Progress(j, x, y))' /\ Position(j)'
  BY <1>1, <1>2, <1>5, <1>6, OthersStay DEF Adds
<1>8. Sound'
  BY <1>2 DEF Orderly, Sound
<1> QED BY <1>7, <1>8 DEF Orderly

\* A handler that is lost with its replica leaves what it has stored.
LEMMA IntakeOfStop ==
  ASSUME TypeOK, Orderly, NEW r \in Replicas, Stop(r)
  PROVE  Orderly'
<1>1. incidents' = incidents /\ alerts' = alerts
  BY DEF Stop
<1>2. ASSUME NEW k \in Attempts
      PROVE  (\E m, n \in Nat : Progress(k, m, n))' /\ Position(k)'
  <2>1. PICK m \in Nat, n \in Nat : Progress(k, m, n)
    BY DEF Orderly
  <2>2. CASE call'[k] = call[k]
    <3>1. Progress(k, m, n)' BY <1>1, <2>1, <2>2 DEF Progress, StoredOf
    <3>2. Position(k)' BY <1>1, <2>2 DEF Orderly, Position, CurrentAlert
    <3> QED BY <3>1, <3>2
  <2>3. CASE /\ call[k] # None /\ call[k].status = "running"
             /\ call'[k] = [call[k] EXCEPT !.status = "lost"]
    <3>1. call[k] \in Calls BY <2>3, MadeIsCall
    <3>2. /\ call'[k].request = call[k].request /\ call'[k].status = "lost"
          /\ call'[k] \in Calls
      BY <2>3, <3>1 DEF Calls, Statuses
    <3>3. call'[k] # None BY <3>2, CallsAssumption
    <3>4. Progress(k, m, n)' BY <1>1, <2>1, <2>3, <3>2, <3>3 DEF Progress, StoredOf
    <3>5. Position(k)' BY <3>2 DEF Position
    <3> QED BY <3>4, <3>5
  <2> QED BY <2>2, <2>3 DEF Stop
<1>3. Sound'
  BY <1>1 DEF Orderly, Sound
<1> QED BY <1>2, <1>3 DEF Orderly

\* A route that calls one operation stores nothing here.
LEMMA IntakeOfOperate ==
  ASSUME TypeOK, Orderly, NEW k \in Attempts, NEW actor, NEW success \in {"200", "201"},
         NEW refusals,
         call[k] # None, call[k].status = "running",
         call[k].request.path # "alerts/prometheus",
         refusals \subseteq {"404", "422"}, Operate(k, actor, success, refusals)
  PROVE  Orderly'
<1>1. call[k].index = 1 /\ call[k].at = "incident"
  BY DEF Orderly, Position
<1>2. incidents' = incidents /\ alerts' = alerts
  BY DEF Operate
<1>3. \E status \in {"200", "201", "404", "422", "500"} : Answer(k, status)
  <2>1. CASE Answer(k, success) BY <2>1
  <2>2. CASE \E status \in refusals : Answer(k, status)
    <3>1. PICK status \in refusals : Answer(k, status) BY <2>2
    <3> QED BY <3>1
  <2>3. CASE Answer(k, "500") BY <2>3
  <2> QED BY <2>1, <2>2, <2>3 DEF Operate
<1>4. PICK status \in {"200", "201", "404", "422", "500"} : Answer(k, status)
  BY <1>3
<1>5. status \in Statuses \ {"running"}
  BY <1>4 DEF Statuses
<1> QED BY <1>1, <1>2, <1>4, <1>5, AnswerIsOrderly

LEMMA IntakeOfRejectBody ==
  ASSUME TypeOK, Orderly, NEW k \in Attempts, RejectBody(k)
  PROVE  Orderly'
<1>1. /\ call[k] # None /\ call[k].status = "running" /\ Answer(k, "422")
      /\ UNCHANGED <<incidents, alerts>>
  BY DEF RejectBody, Handling
<1>2. call[k].index = 1 /\ call[k].at = "incident"
  <2>1. call[k].index \in Nat \ {0} /\ call[k].at \in {"incident", "alert"}
    BY <1>1, MadeIsCall DEF Calls
  <2>2. CASE call[k].request.path # "alerts/prometheus"
    BY <1>1, <2>2 DEF Orderly, Position
  <2>3. CASE call[k].request.alerts = <<>>
    BY <1>1, <2>1, <2>3 DEF Orderly, Position
  <2> QED BY <2>2, <2>3 DEF RejectBody, Handling
<1> QED BY <1>1, <1>2, AnswerIsOrderly DEF Statuses

LEMMA IntakeOfCreateIncident ==
  ASSUME TypeOK, Orderly, NEW k \in Attempts, CreateIncident(k)
  PROVE  Orderly'
<1>1. /\ call[k] # None /\ call[k].status = "running" /\ alerts' = alerts
      /\ call[k].request.path = "incidents" /\ ValidWindow(call[k].request.window)
  BY DEF CreateIncident, Handling
<1> DEFINE row == [caller |-> k, index |-> 1, window |-> call[k].request.window]
<1>2. PICK status \in {"201", "500"} : Answer(k, status)
  BY DEF CreateIncident
<1>3. incidents' = incidents \/ incidents' = incidents \cup {row}
  BY DEF CreateIncident, StoreIncident
<1>4. CASE incidents' = incidents
  BY <1>1, <1>2, <1>4, AnswerIsOrderly DEF Statuses
<1>5. CASE incidents' = incidents \cup {row}
  <2>1. PICK c \in Calls :
          /\ call' = [call EXCEPT ![k] = c] /\ c.request = call[k].request
          /\ c.status = status
    BY <1>1, <1>2, AnswerHandled DEF Statuses
  <2>2. call'[k] = c /\ c # None
    BY <2>1, CallsAssumption DEF TypeOK
  <2>3. PICK m \in Nat, n \in Nat : Progress(k, m, n)
    BY DEF Orderly
  <2>4. m = 0 /\ n = 0
    BY <1>1, <2>3 DEF Progress, Orderly, Position
  <2>5. StoredOf(incidents', k) = 1 .. 1 /\ StoredOf(alerts', k) = 1 .. 0
    <3>1. StoredOf(incidents', k) = StoredOf(incidents, k) \cup {1}
      <4>1. row.caller = k /\ row.index = 1 OBVIOUS
      <4> HIDE DEF row
      <4> QED BY <1>5, <4>1, StoredMore
    <3> QED BY <1>1, <2>3, <2>4, <3>1 DEF Progress
  <2>6. Progress(k, 1, 0)'
    BY <1>1, <1>2, <2>1, <2>2, <2>5 DEF Progress, StoredOf
  <2>7. Position(k)'
    BY <1>2, <2>1, <2>2 DEF Position
  <2>8. Adds(k)
    BY <1>1, <1>5 DEF Adds
  <2>9. \A j \in Attempts : (\E x, y \in Nat : Progress(j, x, y))' /\ Position(j)'
    BY <2>1, <2>6, <2>7, <2>8, OthersStay
  <2>10. row.window.start.at >= 0 /\ Duration(row.window) >= 2
    <3>1. row.window \in [start : Times, end : Times]
      BY <1>1, MadeIsCall, RequestsAssumption DEF Calls
    <3> QED BY <1>1, <3>1, ApiAssumption DEF ValidWindow, Times, Duration
  <2>11. Sound'
    BY <1>1, <1>5, <2>10 DEF Orderly, Sound
  <2> QED BY <2>9, <2>11 DEF Orderly
<1> QED BY <1>3, <1>4, <1>5

\* The alert at hand is one of the request's.
LEMMA CurrentIsBody ==
  ASSUME TypeOK, NEW k \in Attempts, call[k] # None,
         call[k].index <= Len(call[k].request.alerts)
  PROVE  CurrentAlert(k) \in AlertBodies
<1>1. call[k].request.alerts \in Seq(AlertBodies) /\ call[k].index \in Nat \ {0}
  BY MadeIsCall, RequestsAssumption DEF Calls
<1> QED BY <1>1 DEF CurrentAlert

LEMMA IntakeOfAlertIncident ==
  ASSUME TypeOK, Orderly, NEW k \in Attempts, CreateAlertIncident(k)
  PROVE  Orderly'
<1>0. PICK index : index = call[k].index
  OBVIOUS
<1> DEFINE window == AlertWindow(CurrentAlert(k))
           row == [caller |-> k, index |-> index, window |-> window]
<1>1. /\ call[k] # None /\ call[k].status = "running" /\ alerts' = alerts
      /\ call[k].request.path = "alerts/prometheus" /\ call[k].at = "incident"
      /\ index \in DOMAIN call[k].request.alerts
  BY <1>0 DEF CreateAlertIncident, Handling
<1>2. /\ call[k] \in Calls /\ index \in Nat \ {0}
      /\ call[k].request.alerts \in Seq(AlertBodies)
  BY <1>0, <1>1, MadeIsCall, RequestsAssumption DEF Calls
<1>3. index <= Len(call[k].request.alerts)
  BY <1>1, <1>2
<1>4. PICK stored \in BOOLEAN, heard \in BOOLEAN :
        /\ Written(stored, heard)
        /\ stored => Representable(CurrentAlert(k))
        /\ IF stored THEN incidents' = incidents \cup {row} ELSE incidents' = incidents
        /\ IF heard THEN call' = [call EXCEPT ![k].at = "alert"] ELSE Answer(k, "500")
  BY <1>0 DEF CreateAlertIncident, StoreIncident
<1>5. PICK m \in Nat, n \in Nat : Progress(k, m, n)
  BY DEF Orderly
<1>6. m = index - 1 /\ n = index - 1
  BY <1>0, <1>1, <1>2, <1>5 DEF Progress
<1>7. CASE ~stored
  <2>1. incidents' = incidents /\ Answer(k, "500")
    BY <1>4, <1>7 DEF Written
  <2> QED BY <1>1, <2>1, AnswerIsOrderly DEF Statuses
<1>8. CASE stored
  <2>1. incidents' = incidents \cup {row}
    BY <1>4, <1>8
  <2>2. StoredOf(incidents', k) = 1 .. index /\ StoredOf(alerts', k) = 1 .. (index - 1)
    <3>1. StoredOf(incidents', k) = StoredOf(incidents, k) \cup {index}
      <4>1. row.caller = k /\ row.index = index OBVIOUS
      <4> HIDE DEF row
      <4> QED BY <2>1, <4>1, StoredMore
    <3>2. StoredOf(incidents, k) = 1 .. (index - 1)
      BY <1>5, <1>6 DEF Progress
    <3>3. 1 .. (index - 1) \cup {index} = 1 .. index
      BY <1>2
    <3>4. StoredOf(alerts', k) = 1 .. (index - 1)
      BY <1>1, <1>5, <1>6 DEF Progress
    <3> QED BY <3>1, <3>2, <3>3, <3>4
  <2>3. \E c \in Calls :
          /\ call' = [call EXCEPT ![k] = c] /\ c.request = call[k].request
          /\ c.index = index
          /\ \/ c.status = "running" /\ c.at = "alert"
             \/ c.status = "500"
    <3>1. CASE heard
      <4> DEFINE c == [call[k] EXCEPT !.at = "alert"]
      <4>1. c \in Calls BY <1>2 DEF Calls
      <4>2. /\ c.request = call[k].request /\ c.index = index
            /\ c.status = call[k].status /\ c.at = "alert"
        BY <1>0, <1>2 DEF Calls
      <4>3. call' = [call EXCEPT ![k] = c]
        BY <1>4, <3>1
      <4> QED BY <1>1, <4>1, <4>2, <4>3
    <3>2. CASE ~heard
      BY <1>0, <1>1, <1>4, <3>2, AnswerHandled DEF Statuses
    <3> QED BY <3>1, <3>2
  <2>4. PICK c \in Calls :
          /\ call' = [call EXCEPT ![k] = c] /\ c.request = call[k].request
          /\ c.index = index
          /\ \/ c.status = "running" /\ c.at = "alert"
             \/ c.status = "500"
    BY <2>3
  <2>5. call'[k] = c /\ c # None
    BY <2>4, CallsAssumption DEF TypeOK
  <2>6. Progress(k, index, index - 1)'
    <3>1. index - 1 = index - 1 /\ index = (index - 1) + 1
      BY <1>2
    <3>2. c.status = "running" => c.at # "incident"
      BY <2>4
    <3>3. c.status \notin {"201", "401", "403", "422"}
      BY <2>4
    <3>4. StoredOf(incidents, k)' = 1 .. index /\ StoredOf(alerts, k)' = 1 .. (index - 1)
      BY <2>2 DEF StoredOf
    <3> QED BY <2>4, <2>5, <3>1, <3>2, <3>3, <3>4 DEF Progress
  <2>7. Position(k)'
    <3>1. row \in incidents' /\ row.caller = k /\ row.index = index /\ row.window = window
      BY <2>1
    <3>2. CurrentAlert(k)' = CurrentAlert(k)
      BY <1>0, <2>4, <2>5 DEF CurrentAlert
    <3> QED
      BY <1>1, <1>3, <2>4, <2>5, <3>1, <3>2 DEF Position, AlertWindow
  <2>8. Adds(k)
    BY <1>1, <2>1 DEF Adds
  <2>9. \A j \in Attempts : (\E x, y \in Nat : Progress(j, x, y))' /\ Position(j)'
    <3>1. index \in Nat /\ index - 1 \in Nat
      BY <1>2
    <3>2. (\E x, y \in Nat : Progress(k, x, y))'
      BY <2>6, <3>1
    <3> QED BY <2>4, <2>7, <2>8, <3>2, OthersStay
  <2>10. window.start.at >= 0 /\ Duration(window) >= 2
    <3>1. CurrentAlert(k) \in AlertBodies
      BY <1>0, <1>1, <1>3, CurrentIsBody
    <3> QED BY <1>4, <1>8, <3>1, WindowOfAlert
  <2>11. Sound'
    BY <1>1, <2>1, <2>10 DEF Orderly, Sound
  <2> QED BY <2>9, <2>11 DEF Orderly
<1> QED BY <1>7, <1>8

LEMMA IntakeOfRecordAlert ==
  ASSUME TypeOK, Orderly, NEW k \in Attempts, RecordAlert(k)
  PROVE  Orderly'
<1>0. PICK index : index = call[k].index
  OBVIOUS
<1> DEFINE row == [caller |-> k, index |-> index,
                   starts |-> AlertWindow(CurrentAlert(k)).start]
           total == Len(call[k].request.alerts)
<1>1. /\ call[k] # None /\ call[k].status = "running" /\ incidents' = incidents
      /\ call[k].request.path = "alerts/prometheus" /\ call[k].at = "alert"
  BY DEF RecordAlert, Handling
<1>2. call[k] \in Calls /\ index \in Nat \ {0}
  BY <1>0, <1>1, MadeIsCall DEF Calls
<1>3. /\ index <= total
      /\ \E i \in incidents : /\ i.caller = k /\ i.index = index
                              /\ i.window.start = AlertWindow(CurrentAlert(k)).start
  BY <1>0, <1>1 DEF Orderly, Position
<1>4. PICK stored \in BOOLEAN, heard \in BOOLEAN :
        /\ Written(stored, heard)
        /\ alerts' = IF ~stored THEN alerts ELSE alerts \cup {row}
        /\ IF heard THEN GoOn(k) ELSE Answer(k, "500")
  BY <1>0 DEF RecordAlert
<1>5. PICK m \in Nat, n \in Nat : Progress(k, m, n)
  BY DEF Orderly
<1>6. m = index /\ n = index - 1
  BY <1>0, <1>1, <1>2, <1>5 DEF Progress
<1>7. CASE ~stored
  <2>1. alerts' = alerts /\ Answer(k, "500")
    BY <1>4, <1>7 DEF Written
  <2> QED BY <1>1, <2>1, AnswerIsOrderly DEF Statuses
<1>8. CASE stored
  <2>1. alerts' = alerts \cup {row}
    BY <1>4, <1>8
  <2>2. StoredOf(incidents', k) = 1 .. index /\ StoredOf(alerts', k) = 1 .. index
    <3>1. StoredOf(alerts', k) = StoredOf(alerts, k) \cup {index}
      <4>1. row.caller = k /\ row.index = index OBVIOUS
      <4> HIDE DEF row
      <4> QED BY <2>1, <4>1, StoredMore
    <3>2. StoredOf(alerts, k) = 1 .. (index - 1)
      BY <1>5, <1>6 DEF Progress
    <3>3. 1 .. (index - 1) \cup {index} = 1 .. index
      BY <1>2
    <3>4. StoredOf(incidents', k) = 1 .. index
      BY <1>1, <1>5, <1>6 DEF Progress
    <3> QED BY <3>1, <3>2, <3>3, <3>4
  <2>3. \E c \in Calls :
          /\ call' = [call EXCEPT ![k] = c] /\ c.request = call[k].request
          /\ \/ c.status = "201" /\ index = total
             \/ c.status = "500"
             \/ /\ c.status = "running" /\ c.at = "incident"
                /\ c.index = index + 1 /\ index + 1 <= total
    <3>1. CASE ~heard
      BY <1>1, <1>4, <3>1, AnswerHandled DEF Statuses
    <3>2. CASE heard /\ index = total
      <4>1. Answer(k, "201")
        BY <1>0, <1>4, <3>2 DEF GoOn
      <4> QED BY <1>1, <3>2, <4>1, AnswerHandled DEF Statuses
    <3>3. CASE heard /\ index # total
      <4> DEFINE next == [call[k] EXCEPT !.at = "incident", !.index = @ + 1]
      <4>1. call' = [call EXCEPT ![k].at = "incident", ![k].index = @ + 1]
        BY <1>0, <1>4, <3>3 DEF GoOn
      <4>2. call' = [call EXCEPT ![k] = next]
        BY <4>1, <1>2 DEF TypeOK, Calls
      <4>3. /\ next \in Calls /\ next.request = call[k].request
            /\ next.status = call[k].status /\ next.at = "incident"
            /\ next.index = call[k].index + 1
        BY <1>2, NextAlert
      <4>4. total \in Nat
        BY <1>2, RequestsAssumption DEF Calls
      <4>5. index + 1 <= total
        BY <1>2, <1>3, <3>3, <4>4
      <4> HIDE DEF next
      <4> QED BY <1>0, <1>1, <4>2, <4>3, <4>5
    <3> QED BY <3>1, <3>2, <3>3
  <2>4. PICK c \in Calls :
          /\ call' = [call EXCEPT ![k] = c] /\ c.request = call[k].request
          /\ \/ c.status = "201" /\ index = total
             \/ c.status = "500"
             \/ /\ c.status = "running" /\ c.at = "incident"
                /\ c.index = index + 1 /\ index + 1 <= total
    BY <2>3
  <2>5. call'[k] = c /\ c # None
    BY <2>4, CallsAssumption DEF TypeOK
  <2>6. Progress(k, index, index)'
    <3>1. c.status = "running" => index = c.index - 1 /\ c.at = "incident"
      BY <1>2, <2>4
    <3>2. c.status = "201" => index = Len(c.request.alerts)
      BY <2>4
    <3>3. c.status \notin {"401", "403", "422"}
      BY <2>4
    <3>4. StoredOf(incidents, k)' = 1 .. index /\ StoredOf(alerts, k)' = 1 .. index
      BY <2>2 DEF StoredOf
    <3> QED BY <2>5, <3>1, <3>2, <3>3, <3>4 DEF Progress
  <2>7. Position(k)'
    BY <1>1, <2>4, <2>5 DEF Position
  <2>8. Adds(k)
    BY <1>1, <2>1 DEF Adds
  <2>9. \A j \in Attempts : (\E x, y \in Nat : Progress(j, x, y))' /\ Position(j)'
    <3>1. (\E x, y \in Nat : Progress(k, x, y))'
      BY <1>2, <2>6
    <3> QED BY <2>4, <2>7, <2>8, <3>1, OthersStay
  <2>10. Sound'
    BY <1>1, <1>3, <2>1 DEF Orderly, Sound
  <2> QED BY <2>9, <2>10 DEF Orderly
<1> QED BY <1>7, <1>8

LEMMA IntakeOfHandle ==
  ASSUME TypeOK, Orderly, NEW k \in Attempts, Handle(k)
  PROVE  Orderly'
<1>1. CASE RejectBody(k) BY <1>1, IntakeOfRejectBody
<1>2. CASE CreateIncident(k) BY <1>2, IntakeOfCreateIncident
<1>3. CASE CreateAlertIncident(k) BY <1>3, IntakeOfAlertIncident
<1>4. CASE RecordAlert(k) BY <1>4, IntakeOfRecordAlert
<1>5. CASE Investigate(k) BY <1>5, IntakeOfOperate DEF Investigate, Handling
<1>6. CASE Remember(k) BY <1>6, IntakeOfOperate DEF Remember, Handling
<1>7. CASE Propose(k) BY <1>7, IntakeOfOperate DEF Propose, Handling
<1>8. CASE Decide(k)
  <2>1. /\ call[k] # None /\ call[k].status = "running"
        /\ call[k].request.path # "alerts/prometheus"
    BY <1>8 DEF Decide, Handling
  <2>2. CASE ActorIsForeign(k)
    <3>1. Answer(k, "403") /\ UNCHANGED <<incidents, alerts>>
      BY <1>8, <2>2 DEF Decide
    <3>2. call[k].index = 1 /\ call[k].at = "incident"
      BY <2>1 DEF Orderly, Position
    <3> QED BY <2>1, <3>1, <3>2, AnswerIsOrderly DEF Statuses
  <2>3. CASE ~ActorIsForeign(k)
    BY <1>8, <2>1, <2>3, IntakeOfOperate DEF Decide
  <2> QED BY <2>2, <2>3
<1>9. CASE Analyze(k) BY <1>9, IntakeOfOperate DEF Analyze, Handling
<1>10. CASE Rebuild(k) BY <1>10, IntakeOfOperate DEF Rebuild, Handling
<1>11. CASE Publish(k) BY <1>11, IntakeOfOperate DEF Publish, Handling
<1>12. CASE Read(k)
  <2>1. /\ call[k] # None /\ call[k].status = "running"
        /\ UNCHANGED <<incidents, alerts>>
    BY <1>12 DEF Read
  <2>2. PICK status \in {"200", "404", "500"} : Answer(k, status)
    BY <1>12 DEF Read
  <2>3. status \in Statuses \ {"running"} /\ status \notin {"201", "401", "403", "422"}
    BY <2>2 DEF Statuses
  <2> QED BY <2>1, <2>2, <2>3, AnswerIsOrderly
<1> QED
  BY <1>1, <1>2, <1>3, <1>4, <1>5, <1>6, <1>7, <1>8, <1>9, <1>10, <1>11, <1>12
  DEF Handle

LEMMA IntakeOfStep ==
  ASSUME TypeOK, Secure, Orderly, [Next]_vars
  PROVE  Orderly'
<1>1. CASE UNCHANGED apiVars
  <2>1. call' = call /\ incidents' = incidents /\ alerts' = alerts
    BY <1>1 DEF apiVars
  <2>2. ASSUME NEW k \in Attempts
        PROVE  (\E m, n \in Nat : Progress(k, m, n))' /\ Position(k)'
    <3>1. PICK m \in Nat, n \in Nat : Progress(k, m, n)
      BY DEF Orderly
    <3>2. Progress(k, m, n)'
      BY <2>1, <3>1 DEF Progress, StoredOf
    <3>3. Position(k)'
      BY <2>1 DEF Orderly, Position, CurrentAlert
    <3> QED BY <3>2, <3>3
  <2>3. Sound'
    BY <2>1 DEF Orderly, Sound
  <2> QED BY <2>2, <2>3 DEF Orderly
<1>2. ASSUME NEW r \in Replicas, Stop(r) PROVE Orderly'
  BY <1>2, IntakeOfStop
<1>3. ASSUME NEW c \in Callers, Send(c) PROVE Orderly'
  <2>1. <<c, 1>> \in Attempts
    BY ApiAssumption DEF Attempts
  <2> QED BY <1>3, <2>1, IntakeOfArrive DEF Send
<1>4. ASSUME NEW c \in Callers, NEW n \in 1 .. MaxAttempts - 1, Retry(c, n) PROVE Orderly'
  <2>1. <<c, n>> \in Attempts /\ <<c, n + 1>> \in Attempts
    BY ApiAssumption DEF Attempts
  <2>2. call[<<c, n>>].request \in Requests
    BY <1>4, <2>1, MadeIsCall DEF Retry, Calls
  <2> QED BY <1>4, <2>1, <2>2, IntakeOfArrive DEF Retry
<1>5. ASSUME NEW k \in Attempts, TimeOut(k) PROVE Orderly'
  BY <1>5, IntakeOfTimeOut
<1>6. ASSUME NEW k \in Attempts, Handle(k) PROVE Orderly'
  BY <1>6, IntakeOfHandle
<1>7. CASE UNCHANGED vars
  BY <1>1, <1>7 DEF vars, apiVars
<1> QED
  BY <1>1, <1>2, <1>3, <1>4, <1>5, <1>6, <1>7 DEF Next

---------------------------------------------------------------------------
(* Types *)

LEMMA TypeOfInit == Init => TypeOK
<1> SUFFICES ASSUME Init PROVE TypeOK OBVIOUS
<1>1. files \in Seq(CredentialFiles) \ {<<>>}
  BY SecurityAssumption DEF Init, SecurityInit
<1> QED BY <1>1 DEF Init, SecurityInit, TypeOK

\* Where only one attempt changes, to a call.
LEMMA CallTyped ==
  ASSUME TypeOK, NEW k \in Attempts, NEW c \in Calls, call' = [call EXCEPT ![k] = c]
  PROVE  call' \in [Attempts -> {None} \cup Calls]
  BY DEF TypeOK

\* What a handler stores has times.
LEMMA RowsTyped ==
  ASSUME TypeOK, Orderly, NEW k \in Attempts, Handle(k)
  PROVE  /\ incidents' \subseteq [caller : Attempts, index : Nat, window : Windows]
         /\ alerts' \subseteq [caller : Attempts, index : Nat, starts : IntTimes]
<1>1. CASE CreateIncident(k)
  <2>1. /\ call[k] # None /\ alerts' = alerts /\ call[k].request.path = "incidents"
        /\ \/ incidents' = incidents
           \/ incidents' = incidents \cup
                {[caller |-> k, index |-> 1, window |-> call[k].request.window]}
    BY <1>1 DEF CreateIncident, Handling, StoreIncident
  <2>2. call[k].request.window \in [start : Times, end : Times]
    BY <2>1, MadeIsCall, RequestsAssumption DEF Calls
  <2>3. call[k].request.window \in Windows
    BY <2>2 DEF Windows, Times, IntTimes
  <2> QED BY <2>1, <2>3 DEF TypeOK
<1>2. CASE CreateAlertIncident(k)
  <2> DEFINE window == AlertWindow(CurrentAlert(k))
  <2>1. /\ call[k] # None /\ alerts' = alerts
        /\ call[k].index \in DOMAIN call[k].request.alerts
        /\ \/ incidents' = incidents
           \/ incidents' = incidents \cup
                {[caller |-> k, index |-> call[k].index, window |-> window]}
    BY <1>2 DEF CreateAlertIncident, Handling, StoreIncident
  <2>2. call[k].index \in Nat /\ call[k].request.alerts \in Seq(AlertBodies)
    BY <2>1, MadeIsCall, RequestsAssumption DEF Calls
  <2>3. CurrentAlert(k) \in AlertBodies
    BY <2>1, <2>2, CurrentIsBody
  <2>4. window \in Windows
    BY <2>3, WindowOfAlert
  <2> HIDE DEF window
  <2> QED BY <2>1, <2>2, <2>4 DEF TypeOK
<1>3. CASE RecordAlert(k)
  <2> DEFINE window == AlertWindow(CurrentAlert(k))
  <2>1. /\ call[k] # None /\ call[k].status = "running" /\ call[k].at = "alert"
        /\ incidents' = incidents
        /\ \/ alerts' = alerts
           \/ alerts' = alerts \cup
                {[caller |-> k, index |-> call[k].index, starts |-> window.start]}
    BY <1>3 DEF RecordAlert, Handling
  <2>2. call[k].index \in Nat
    BY <2>1, MadeIsCall DEF Calls
  <2>3. CurrentAlert(k) \in AlertBodies
    BY <2>1, CurrentIsBody DEF Orderly, Position
  <2>4. window.start \in IntTimes
    BY <2>3, WindowOfAlert DEF Windows
  <2> HIDE DEF window
  <2> QED BY <2>1, <2>2, <2>4 DEF TypeOK
<1>4. ASSUME incidents' = incidents, alerts' = alerts
      PROVE  /\ incidents' \subseteq [caller : Attempts, index : Nat, window : Windows]
             /\ alerts' \subseteq [caller : Attempts, index : Nat, starts : IntTimes]
  BY <1>4 DEF TypeOK
<1>5. CASE RejectBody(k) BY <1>4, <1>5 DEF RejectBody
<1>6. CASE Investigate(k) BY <1>4, <1>6 DEF Investigate, Operate
<1>7. CASE Remember(k) BY <1>4, <1>7 DEF Remember, Operate
<1>8. CASE Propose(k) BY <1>4, <1>8 DEF Propose, Operate
<1>9. CASE Decide(k)
  <2>1. CASE ActorIsForeign(k) BY <1>4, <1>9, <2>1 DEF Decide
  <2>2. CASE ~ActorIsForeign(k) BY <1>4, <1>9, <2>2 DEF Decide, Operate
  <2> QED BY <2>1, <2>2
<1>10. CASE Analyze(k) BY <1>4, <1>10 DEF Analyze, Operate
<1>11. CASE Rebuild(k) BY <1>4, <1>11 DEF Rebuild, Operate
<1>12. CASE Publish(k) BY <1>4, <1>12 DEF Publish, Operate
<1>13. CASE Read(k) BY <1>4, <1>13 DEF Read
<1> QED
  BY <1>1, <1>2, <1>3, <1>5, <1>6, <1>7, <1>8, <1>9, <1>10, <1>11, <1>12, <1>13
  DEF Handle

LEMMA TypeOfArrive ==
  ASSUME TypeOK, Secure, NEW k \in Attempts, NEW request \in Requests, Arrive(k, request)
  PROVE  TypeOK'
<1>1. call' \in [Attempts -> {None} \cup Calls]
  BY ArrivedIsCall, CallTyped
<1>2. UNCHANGED <<files, process, incidents, alerts>>
  BY DEF Arrive, securityVars
<1> QED BY <1>1, <1>2 DEF TypeOK

LEMMA TypeOfStep ==
  ASSUME IInv, [Next]_vars
  PROVE  TypeOK'
<1> USE DEF IInv
<1>1. ASSUME NEW r \in Replicas, StartProcess(r), UNCHANGED apiVars PROVE TypeOK'
  <2>1. PICK s \in Deployments :
          process' = [process EXCEPT ![r] = [settings |-> s, loaded |-> Len(files)]]
    BY <1>1 DEF StartProcess
  <2>2. UNCHANGED <<files, call, incidents, alerts>>
    BY <1>1 DEF StartProcess, apiVars
  <2>3. [settings |-> s, loaded |-> Len(files)] \in [settings : Deployments, loaded : Nat]
    BY DEF TypeOK
  <2>4. process' \in [Replicas -> {None} \cup [settings : Deployments, loaded : Nat]]
    BY <2>1, <2>3 DEF TypeOK
  <2> QED BY <2>2, <2>4 DEF TypeOK
<1>2. ASSUME NEW r \in Replicas, Stop(r) PROVE TypeOK'
  <2>1. UNCHANGED <<files, incidents, alerts>>
    BY <1>2 DEF Stop, StopProcess
  <2>2. process' \in [Replicas -> {None} \cup [settings : Deployments, loaded : Nat]]
    BY <1>2 DEF Stop, StopProcess, TypeOK
  <2>3. \A k \in Attempts :
          call[k] # None => [call[k] EXCEPT !.status = "lost"] \in Calls
    BY MadeIsCall DEF Calls, Statuses
  <2>4. call' \in [Attempts -> {None} \cup Calls]
    BY <1>2, <2>3 DEF Stop, TypeOK
  <2> QED BY <2>1, <2>2, <2>4 DEF TypeOK
<1>3. ASSUME ReplaceFile, UNCHANGED apiVars PROVE TypeOK'
  <2>1. UNCHANGED <<process, call, incidents, alerts>>
    BY <1>3 DEF ReplaceFile, apiVars
  <2>2. PICK f \in CredentialFiles : files' = Append(files, f)
    BY <1>3 DEF ReplaceFile
  <2>3. files' \in Seq(CredentialFiles) \ {<<>>}
    BY <2>2 DEF TypeOK
  <2> QED BY <2>1, <2>3 DEF TypeOK
<1>4. ASSUME NEW c \in Callers, Send(c) PROVE TypeOK'
  <2>1. <<c, 1>> \in Attempts
    BY ApiAssumption DEF Attempts
  <2> QED BY <1>4, <2>1, TypeOfArrive DEF Send
<1>5. ASSUME NEW c \in Callers, NEW n \in 1 .. MaxAttempts - 1, Retry(c, n) PROVE TypeOK'
  <2>1. <<c, n>> \in Attempts /\ <<c, n + 1>> \in Attempts
    BY ApiAssumption DEF Attempts
  <2>2. call[<<c, n>>].request \in Requests
    BY <1>5, <2>1, MadeIsCall DEF Retry, Calls
  <2> QED BY <1>5, <2>1, <2>2, TypeOfArrive DEF Retry
<1>6. ASSUME NEW k \in Attempts, TimeOut(k) PROVE TypeOK'
  <2>1. call' \in [Attempts -> {None} \cup Calls]
    BY <1>6, TimedOutIsCall, CallTyped
  <2>2. UNCHANGED <<files, process, incidents, alerts>>
    BY <1>6 DEF TimeOut, securityVars
  <2> QED BY <2>1, <2>2 DEF TypeOK
<1>7. ASSUME NEW k \in Attempts, Handle(k) PROVE TypeOK'
  <2>1. Handled(k)
    BY <1>7, HandleHandled
  <2>2. call' \in [Attempts -> {None} \cup Calls]
    BY <2>1, CallTyped DEF Handled
  <2>3. UNCHANGED <<files, process>>
    BY <2>1 DEF Handled, securityVars
  <2> QED BY <1>7, <2>2, <2>3, RowsTyped DEF TypeOK
<1>8. CASE UNCHANGED vars
  BY <1>8 DEF vars, securityVars, apiVars, TypeOK
<1> QED
  BY <1>1, <1>2, <1>3, <1>4, <1>5, <1>6, <1>7, <1>8 DEF Next

---------------------------------------------------------------------------
(* Theorems *)

LEMMA Invariant == Spec => []IInv
<1>1. Init => IInv
  BY TypeOfInit, SecurityOfInit, IntakeOfInit DEF IInv
<1>2. IInv /\ [Next]_vars => IInv'
  BY TypeOfStep, SecurityOfStep, IntakeOfStep DEF IInv
<1> QED BY <1>1, <1>2, PTL DEF Spec

\* Whatever is replaced, restarted, lost or repeated, and however many do it, an
\* operation is carried out only for a token that holds the permission for it.
THEOREM AuthorisedEffects == Spec => []EffectsAreAuthorised
<1>1. IInv => EffectsAreAuthorised
  BY DEF IInv, Secure, Entitled, EffectsAreAuthorised
<1> QED BY <1>1, Invariant, PTL

\* A handler works with the file version of its own process, so that once every
\* replica has loaded the mounted file, no other version authorises anything.
THEOREM RevokedTokens == Spec => RevocationTakesHold
<1>1. ASSUME IInv, [Next]_vars, NEW e \in effects' \ effects,
             e.settings.production \/ e.settings.auth, RolledOut
      PROVE  \E c \in files[Len(files)] : c.token = e.token /\ Duty(e.path) \in c.permissions
  <2>1. PICK k \in Attempts : Handle(k)
    <3>1. effects' # effects
      BY <1>1
    <3>2. ASSUME NEW j \in Attempts, NEW q, Arrive(j, q) PROVE FALSE
      BY <3>1, <3>2 DEF Arrive
    <3>3. ASSUME NEW c \in Callers, Send(c) PROVE FALSE
      BY <3>2, <3>3, ApiAssumption DEF Send, Attempts
    <3>4. ASSUME NEW c \in Callers, NEW n \in 1 .. MaxAttempts - 1, Retry(c, n) PROVE FALSE
      <4>1. <<c, n + 1>> \in Attempts
        BY ApiAssumption DEF Attempts
      <4> QED BY <3>2, <3>4, <4>1 DEF Retry
    <3> QED
      BY <1>1, <3>1, <3>3, <3>4 DEF Next, vars, apiVars, Stop, TimeOut
  <2>2. Handled(k)
    BY <1>1, <2>1, HandleHandled DEF IInv
  <2>3. PICK actor : e = Effect(k, actor) /\ Entitled(e)
    BY <1>1, <2>2, EffectIsEntitled DEF Handled, IInv
  <2>4. /\ call[k].replica \in Replicas /\ Admitted(call[k])
        /\ Started(process[call[k].replica])
        /\ process[call[k].replica].settings \in Deployments
    <3>1. call[k] \in Calls /\ call[k].status = "running"
      BY <1>1, <2>2, MadeIsCall DEF Handled, IInv
    <3>2. call[k].replica \in Replicas /\ Admitted(call[k])
      BY <1>1, <2>2, <3>1 DEF Handled, IInv, Secure, Calls
    <3> QED BY <1>1, <3>2 DEF IInv, Secure, TypeOK, Admitted
  <2>5. /\ e.settings = process[call[k].replica].settings
        /\ e.loaded = process[call[k].replica].loaded
    BY <2>3, <2>4 DEF Effect, Settings, Admitted
  <2>6. e.settings.auth
    BY <1>1, <2>4, <2>5, SecurityAssumption DEF Started, ValidSettings
  <2>7. e.loaded = Len(files)
    BY <1>1, <2>4, <2>5, <2>6 DEF RolledOut, Admitted
  <2> QED BY <2>3, <2>6, <2>7 DEF Entitled
<1>2. IInv /\ [Next]_vars => [\A e \in effects' \ effects :
        (e.settings.production \/ e.settings.auth) /\ RolledOut =>
          \E c \in files[Len(files)] :
            c.token = e.token /\ Duty(e.path) \in c.permissions]_vars
  BY <1>1
<1> QED BY <1>2, Invariant, PTL DEF Spec, RevocationTakesHold

\* Where kubectl may run, an approval carries the name of its token's principal.
THEOREM AttributedExecutions == Spec => []ExecutionsAreAttributed
<1>1. IInv => ExecutionsAreAttributed
  BY DEF IInv, Secure, Entitled, ExecutionsAreAttributed
<1> QED BY <1>1, Invariant, PTL

\* Webhooks of any length are stored alert by alert, as a whole when accepted,
\* with windows of two minutes or more.
THEOREM StoredAlerts == Spec => []AcceptedIsStored
<1>1. IInv => AcceptedIsStored
  <2>1. SUFFICES ASSUME IInv PROVE AcceptedIsStored
    OBVIOUS
  <2>2. ASSUME NEW k \in Attempts, call[k] # None
        PROVE  LET stored == StoredOf(incidents, k)
                   recorded == StoredOf(alerts, k)
               IN  /\ stored = 1 .. Cardinality(stored)
                   /\ call[k].request.path = "alerts/prometheus" =>
                        \/ recorded = stored
                        \/ recorded = stored \ {Cardinality(stored)}
                   /\ call[k].status = "201" /\ call[k].request.path = "alerts/prometheus" =>
                        recorded = DOMAIN call[k].request.alerts
                   /\ call[k].status \in {"401", "403", "422"} => stored = {}
    <3>1. PICK m \in Nat, n \in Nat : Progress(k, m, n)
      BY <2>1 DEF IInv, Orderly
    <3>2. StoredOf(incidents, k) = 1 .. m /\ StoredOf(alerts, k) = 1 .. n
      BY <3>1 DEF Progress
    <3>3. Cardinality(1 .. m) = m
      <4>1. 1 \in Int /\ m \in Int /\ Cardinality(1 .. m) = IF 1 > m THEN 0 ELSE m - 1 + 1
        BY FS_Interval
      <4> QED BY <4>1
    <3>4. DOMAIN call[k].request.alerts = 1 .. Len(call[k].request.alerts)
      <4>1. call[k].request.alerts \in Seq(AlertBodies)
        BY <2>1, <2>2, MadeIsCall, RequestsAssumption DEF IInv, Calls
      <4> QED BY <4>1
    <3>5. /\ call[k].request.path = "alerts/prometheus" => n = m \/ n = m - 1
          /\ call[k].status = "201" /\ call[k].request.path = "alerts/prometheus" =>
               n = Len(call[k].request.alerts)
          /\ call[k].status \in {"401", "403", "422"} => m = 0
      BY <2>2, <3>1 DEF Progress
    <3>6. ASSUME n = m - 1 PROVE 1 .. n = (1 .. m) \ {m}
      BY <3>6
    <3>7. ASSUME m = 0 PROVE 1 .. m = {}
      BY <3>7
    <3> QED BY <3>2, <3>3, <3>4, <3>5, <3>6, <3>7
  <2> QED BY <2>1, <2>2 DEF AcceptedIsStored, IInv, Orderly, Sound
<1> QED BY <1>1, Invariant, PTL
=============================================================================
