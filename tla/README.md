# RootLens in TLA+

RootLens is a FastAPI service that opens incidents, lets agents collect
telemetry about them, ranks hypotheses, and restarts a pod when a person
approves it. Several replicas share one PostgreSQL database; within a replica,
requests are asyncio coroutines that interleave at every `await`. Beside the
service the repository has a command line that injects faults with Chaos Mesh
and an evaluation that drives both.

This directory holds specifications of that code, instances of them for TLC, and
proofs for TLAPS. Paths below are those of the repository.

## 1. Inventory

| Component | State it keeps | Operations | Modules |
|---|---|---|---|
| Remediation (`src/rootlens/remediation`) | plans and receipts in the database, the process running kubectl | propose, reject, approve_and_execute | `Remediation`, `PlanLifecycle`, proofs |
| Investigation service (`src/rootlens/investigation/service.py`, `repository.py`) | incidents, investigations, historical incidents | create, investigate, remember | `InvestigationLifecycle`, `InvestigationStore`, proofs |
| Investigation runner (`agents.py`, `provider.py`, `causal.py`, `verifier.py`, `tools.py`) | the state of one run: phase, budgets, audits, evidence, hypotheses | run, with tools, memory, provider, ranker and verifier | `InvestigationRun`, `Hypotheses`, proofs |
| Incident memory (`memory.py`) | historical incidents with an embedding | save, search | as steps of the two above |
| Fault injection (`experiment_controller`) | a journal per experiment, a Chaos Mesh resource | run | `ExperimentController`, proofs |
| Live evaluation (`evaluation_harness/live.py`) | the trial, its incident and score | run_live_evaluation | `LiveEvaluation`, proofs |
| Telemetry transport (`telemetry/http.py`) | a semaphore per backend, the attempt of each request | get_json | `TelemetryHttp`, proofs |
| Telemetry clients (`telemetry/prometheus.py`, `loki.py`, `kubernetes.py`) | none | range queries, events, deployments, and their parsers | `TelemetryClients` |
| Evidence tools (`investigation/tools.py`) | the queries under way, bundles and audits | the four collectors | `EvidenceTools`, proofs |
| Alert intake and incident API (`api/incidents.py`) | nothing of its own; writes incidents and alerts | create, ingest_prometheus_alerts, the routes | `Api`, proofs |
| API security (`security.py`, `config.py`, `api/remediation.py`) | settings and credentials, read once when a process starts | start, the middleware, _verified_actor | `ApiSecurity`, `Api`, proofs |
| Topology (`topology`) | snapshots, written once | rebuild, latest, traversals | `TopologyRebuild`, `ServiceGraph`, proofs |
| Anomaly analysis (`anomaly`) | snapshots, written once | collect, analyze, save | `AnomalyEngine`, `EvidenceTools`, proofs |
| Operator console (`ui/app.js`) | the selection, the investigation shown, a plan identifier | select, create, investigate, decide | `Console`, proofs |
| Offline evaluation, reports, wiring, probes, migrations, deployment | none that changes, or one insert | | not modelled (section 8) |

How they interact: the middleware admits a request and its handler calls one service; `InvestigationService` calls the
runner, which lets tools query the telemetry, and writes what it returns; `RemediationService` reads the latest
investigation, proposes against it, and reads it again before it executes; the
executor runs `kubectl delete pod`. The live evaluation runs one experiment after
the other and is a client of the API. Nothing in the service holds a lock: what
keeps requests apart is a conditional update of one status column.

What is hard here, and what must hold:

- Remediation: decisions race, the diagnosis may be overtaken between proposal
  and execution, replicas may be configured differently, kubectl may time out
  after it has acted, and any request may die at any await. A pod is deleted at
  most once per plan, only with an approval on record, only for a diagnosis that
  is still current when the claim is prepared, and a final status tells the truth.
- Investigation service: nothing keeps two requests from investigating one
  incident, and each overwrites the incident's whole row. The published status
  must have a stored diagnosis behind it, and a mark must not outlive its
  requests.
- Investigation run: four tools and a memory fail or hang one by one, models
  claim anything, budgets run out between any two calls. Conclusions rest on
  current evidence, and partial collections never pass for completed ones.
- Fault injection: cancellation, a refused journal event or a crash at any
  point. No fault without a label, and no label that lies.
- Live evaluation: trials must not disturb one another.
- Telemetry and topology: requests are retried, refused, cancelled or left
  behind by a rebuild that raised, while they share a semaphore. No slot may be
  lost, no document put together from two attempts, and no graph claim more than
  was retrieved.
- Evidence tools: queries of several backends end in any order, fail singly, are
  cut off, or answer with something malformed, and what one tool makes of them
  passes through pairing, screening, ranking and truncation. Evidence must be
  what its source showed, a symptom must not be lost on the way, and missing data
  must not pass for good news.
- API: credential files are replaced while replicas run, webhooks are repeated
  after failures half-way, and callers give up on handlers that go on. Nothing may
  be done without its permission, no approval under a chosen name, and an accepted
  webhook is stored as a whole.
- Console: calls return in any order and overwrite one page. What an operator
  decides must be what the operator saw.

`PROJECT.json` lists each hazard at its line, also those no property covers: what the code does when
two investigations overlap or a bundle is full, which no document rules out (section 7), and
the window of a trial (section 8).

## 2. Modules

| Module | Models |
|---|---|
| `PlanLifecycle` | what remediation promises of a plan: statuses in order, one attempt, a receipt per outcome, a deleted pod only after an attempt |
| `Remediation` | requests of all replicas over the shared tables and the cluster; implements `PlanLifecycle` |
| `InvestigationStore` | what the rest of the system reads: incidents appear, investigations are added whole and never change |
| `InvestigationLifecycle` | create, investigate and remember of several requests; implements `InvestigationStore` |
| `Ordering` | sorting, as the operators that sort use it |
| `Hypotheses` | providers' conversions, causal ranker and verifier as operators |
| `InvestigationRun` | one run of the investigation runner |
| `ExperimentController` | experiments over the journal and the cluster |
| `LiveEvaluation` | the evaluation's loop, composed with `ExperimentController`, whose actions it uses for the running trial |
| `TelemetryHttp` | the transport's requests: semaphore, attempts, size limit, classes of errors |
| `ServiceGraph` | the graph builder, its traversals and the ranker's graph scores as operators |
| `TopologyRebuild` | rebuilds over `TelemetryHttp`, whose graph `ServiceGraph` builds |
| `TelemetryClients` | what the parsers of Prometheus, Loki and Kubernetes make of an answer, as operators |
| `AnomalyEngine` | pairing of series, screening, alignment for the forest, combination and ranking, as operators |
| `EvidenceTools` | the four tools over their queries, the save of the snapshot, and the runner's timer |
| `ApiSecurity` | settings, credential files and their rotation, the middleware's verdict |
| `Api` | callers, retries and handlers over `ApiSecurity` |
| `Console` | the operator's page, its calls, and the service as it answers them |
| `RemediationProofs`, `InvestigationProofs`, `RunProofs`, `ExperimentProofs`, `TopologyProofs`, `EvidenceProofs`, `ApiProofs`, `ConsoleProofs` | inductive invariants, lemmas and theorems of each component (section 5) |
| `MC...` | values of the constants for TLC |

### Remediation

A handler is one request coroutine on some replica. `pc[h]` names the await it is
at, `pid[h]` and `copy[h]` are its plan and the Python object it holds, which may
differ from the row. `plans`, `receipts` and `investigations` are the tables;
`running` and `kubectl` are the cluster as the code can affect it. One action
per await: `Propose` reads and evaluates the policy, `CreatePlan` inserts;
`Approve` and `Reject` read, `CommitApproval` and `CommitRejection` are the
conditional updates; then `CheckCurrent`, `EvaluatePolicy` (after `list_pods`),
`ClaimExecution`, `SpawnKubectl`, the restart's outcome, `SaveAction` and
`FinishExecution`. A request refused before it writes anything is not a step,
since it changes nothing. kubectl and the API server are separate
actors: after a timeout of 30 seconds the deletion may still happen or not.
`attempts`, `superseded` and `abandoned` are history variables. A plan is abandoned when its
request ends without handling the end: cancelled, lost with its replica, or stopped by a
database error that nothing catches, such as one of the query for the latest investigation
after the approval (`service.py:121`).

### Investigation service

`job[h]` is the request's incident, the start of its run and its result. Rows are
kept in the order of their inserts; `started` orders them as `latest_investigation`
does. `RunEnds` takes any result the runner may return; a result whose
hypotheses share an identifier (a model chose it) is not storable, because the
identifier is their table's primary key. `stranded` and `overlapped` are history
variables: an incident is stranded from the loss of its request, or the refusal of its result,
until its row is written again, so that the next investigation has to clear the mark. That identifiers of runs follow their start times ignores clock skew
between replicas.

### Investigation run

Time is counted in ticks while the run waits, up to one past its duration, which
stands for any later time. Tools end in any order with several agents and in
their order with one; each finds a subset of what its source may have, or fails.
The memory may raise a `TimeoutError` of its own at any time (`MemoryTimesOut`), which the run
takes for its timer's.
`wait_for` is a timer that may fire late but cuts off what waits. With the
offline provider the synthesis cannot be cut off, for it never suspends. The code's check of the tool
budget after the collection is not an action: it can never be true, which
`BudgetsAreKept` shows. Confidences are integers in basis points,
so that the code's floating-point values are rounded down. The graph's scores
are an input of the run. The three sorts put a hypothesis at the place that the number of
those before it says (`InOrder`), which is what the provers can count. `MCInvestigationRun` takes one and assumes, which TLC
evaluates, that it is what `ServiceGraph` makes of a call between two services.

### Fault injection and live evaluation

An experiment's `pc` follows `ExperimentController.run`, with each await, each
append to the journal and each outcome a step. The cluster is Chaos Mesh's view of
one resource: a manifest may be admitted after its kubectl has given up, and the
deletion takes effect later than it is accepted. `FailingJournals` and `Mortal`
are the experiments whose journal may refuse an event and whose process may die; an event
may also be written and then fail to be synced, which the run takes for a refusal (`Record`). A
deletion may be accepted after its kubectl was cancelled.
Torn journal writes are not modelled. `LiveEvaluation` never has two controller runs at a time.

### Telemetry and topology

`at[r]` is where `get_json` is for request `r`; `slots` and `waiting` are asyncio's
semaphore, which hands a released slot to the first that waits. `received` keeps
for every chunk the attempt that sent it, so that a mixed document can be told
from a whole one. Errors are `"retryable"` or `"final"` as `TelemetryQueryError` is,
or an `"exception"` no handler expects (an encoding httpx cannot undo).
A request of `TopologyRebuild` is a rebuild and a trace, 0 for the search. The tasks of `gather` start in
order; an unexpected exception raises at once and leaves the others
running, a cancellation reaches each of them when it runs next. A payload is a
sequence of spans from a small set, or nothing when it cannot be parsed. Spans,
services and times are numbers; latencies and scores are integers, exact in
hundredths and rounded down to basis points.

### Evidence tools and anomaly analysis

`query[q]` is one call of a client, `tool[t]` the coroutine that waits for its
queries, `bundle[t]` what it returned. `EndQuery` is a backend's answer with all
retries behind it, so a usable answer may fail too. `gather` passes on the first
error and lets the other queries run (`QueryRaises`); the runner's timer
cancels both (`CutOff`). The list of deployments is asked for after the
events. `world` numbers what the backends hold; the evidence of a world is a
function of it (`Found`), built by the operators of `TelemetryClients` and
`AnomalyEngine`. A malformed required field refuses the answer, a malformed
optional one counts as absent. Times can be compared: Kubernetes' have a zone. An edge's caller,
an attribute in the code, stands for the signal of its evidence. A sample's value is given as its z-score: how the
three z-scores and the forest's percentiles are computed is data of the world,
what is done with them is the model's. Scores are exact in 600ths. Filters and sorts are
choices of places: `Selected` keeps the items at some places in their order, `Arranged`
puts them in the order that says of each place which come before it.

### API

`process[r]` is what `create_app` read: settings, which are refused unless they
are consistent, and the version of the credential file (`files` keeps every version). Of the settings only those are modelled that
decide who may do what; the rule about a model provider's key (`config.py:65`) is not.
`call[<<c, n>>]` is caller `c`'s `n`th attempt: its request, the principal the
middleware recorded (a set of one; empty for a stranger), the handler's place in the
list of alerts, and its status. `Arrive` is the middleware; `CreateAlertIncident` and
`RecordAlert` are the two transactions of each alert, each of which can be stored
without being heard of. A stopped replica takes its handlers along; a caller that
times out does not. The other routes call one operation, whose steps are another
module's (`Operate`), with the status of its route. `effects` is a history variable: what handlers did, with the
token and the settings that applied.

### Console

`calls` are the calls under way, each with its handler's continuation; `Serve`
answers in the service, `Returns` runs the rest of the handler when the answer
arrives, and both may be overtaken. A call can be refused, or its answer
lost after it took effect (`Fails`). The service's side is a summary of
`Remediation` and `InvestigationLifecycle`: plans are proposed by others for investigated
incidents and decided once. `raced` and `decisions` are history variables, as is
`shown` of a call. Identical reads that follow from one click count as one.

## 3. Runs

| Run | Instance | Shows |
|---|---|---|
| `remediation_races` | 2 requests on replicas with different allowlists, 1 plan, 2 investigations, 3 pods, 4 proposals, 3 diagnoses; 247 k states | execution at most once, the executing replica's policy, ownership, audit, grounding, supersession, outcomes, refinement of `PlanLifecycle`, approvals end |
| `remediation_diagnosis` | a diagnosis that exhausted its budget | finding, see section 7 |
| `investigations` | 2 requests, 2 incidents, 2 investigations, all results, storable or not; 96 k states | statuses, marks, latest investigation, refinement of `InvestigationStore`, investigations end |
| `investigation_run` | both providers and modes, 3 budgets, 4 pieces of evidence, about 170 model answers; 63 k states | grounding, contradiction, suspects, budgets, termination |
| `evidence_audit` | the same with few answers | finding |
| `evidence` | 7 states of the backends, 2 services, 2 signals, both modes, at most 2 pieces of evidence per tool; 328 k states | observed evidence, reported symptoms, audits, tools and queries end |
| `live_evaluation` | 3 trials, the first with a working journal and a living process, the others with failures of every kind; 325 states | one fault at a time, complete reports; labels, recoveries, leaks, cleanup, faults end |
| `fail_safe` | one experiment, no crash, a working journal | finding |
| `topology` | 2 rebuilds, 2 traces and one with a refused identifier, 1 slot, 1 retry, 1 chunk; 310 k states | slots, whole documents, retries, accountable snapshots, consistent answers, everything ends |
| `api` | 2 replicas, 4 settings (2 refused), 3 credential files (1 not loadable), 1 rotation, 17 requests of 1 caller, 2 attempts; 1.28 M states | revocation of tokens and permissions, attributed approvals, stored alerts |
| `alertmanager` | the same | finding |
| `console` | 2 incidents, 3 plans, 2 clicks beside the page's first load; 506 k states | decisions are on what is shown, an unhurried page agrees with itself |

`CHECK_DEADLOCK FALSE` is set everywhere: plans, investigations, experiments, rebuilds,
clicks and runs are bounded in number, and when the last of them is over the system rests.

Why the bounds suffice. The races of remediation are between two requests for one
plan, or between a request and a newer investigation, so that two handlers, one
plan and two investigations contain them; plans share nothing but the pods. The two
handlers run under different allowlists, so that a policy checked by one replica and
executed by another is among the interleavings. An overlap takes two
investigations of one incident, and the second incident shows that reads and
writes do not mix incidents. The ranker compares hypotheses in pairs, and two drafts with
evidence for and against from two services, history and the cluster reach every
branch; that the limit of five hypotheses keeps the best is left to the proof
(`NoSuspectIsLost`), since two services never exceed it. Trials never overlap, so that three of them have a first, a middle and a last, and
the properties of a single experiment are checked on each; several
experiments at once, which two command lines could start, are covered by the proofs only. With one slot all requests but one wait, those of the other
rebuild among them; a body of one chunk is enough to be mixed with the empty
rest of another. The states of the backends are picked so that each branch of the
tools is taken: edges of significance and of the screen, an outlier in a baseline,
series out of order or not finite, services that one window lacks, more symptoms than
fit, and every kind of refused answer. Attempts at the API share nothing but
replicas, files and tables, where rows of different callers never meet; one
caller with a repetition contains the race between an abandoned handler and its retry.
The page's first load and two clicks put three selections, or
two selections and a decision, under way at once.

Every property of a passing run has a mutant: a definition changed as a
plausible bug would change the code, with which TLC finds the property violated.
The mutated operators stand before the ones they change, marked "Mutant".

## 4. Fairness

`FairSpec` in `Remediation` and `InvestigationLifecycle` is weak fairness of
`Proceed(h)`: the event loop runs a coroutine that is ready, and every await of
these handlers has a bound (database and HTTP timeouts, 30 seconds for kubectl).
Neither the arrival of requests nor the environment is fair. A request
that is cancelled or dies with its replica is never resumed; the liveness
properties except just the plans and incidents such a request left behind
(`abandoned`, `stranded`), since the code really leaves these where they are.

In `InvestigationRun` only the first step, the clock, the timers and code that
waits for nothing are fair: tools, memory and model may never answer.
In `TopologyRebuild` it is enough that something goes on as long as something can,
since no step is taken back; HTTP timeouts bound each step of a request.
In `EvidenceTools` timeouts bound every query, the save is a bounded database
write, and a coroutine that waits for nothing goes on; the timer needs no fairness.
In `ExperimentController` every await after `apply` is bounded by kubectl's
timeout or the experiment's duration. The planning step has no fairness: nobody
need start an experiment. `LiveFairSpec` keeps just that for the running trial.
`Api` states no liveness: callers and operators are free, and a retry is never promised.

## 5. Proofs

All for every value of the constants, from the named assumptions on
them (finiteness is not assumed except where an assumption says so).

`RemediationProofs` proves `Invariance: Spec => []IInv`. None of the safety properties is
inductive: that a plan is executed once depends on which handler owns it and on
what its copy says. `IInv` therefore relates each label of `pc` to the stored row,
the handler's copy, the attempts, the receipts and kubectl: types; copies
(what a handler holds agrees with its row); ownership (at most one handler
past the approval, and which rows have one); execution (attempts and kubectl per
label); receipts; grounding (the checks a copy carries were really evaluated for
its pod and diagnosis); supersession. The proof has one step per action.
From it follow

- `TypeCorrect`, `ExecutedAtMostOnce`, `EveryApprovalIsOwned`, `ExecutionAudited`,
  `OwnAllowlist`, `SupersededNotExecuted`, `OutcomesMatch`, `DeletionGrounded` (which
  needs that pod names are not reused), the action property
  `DecisionsAreFinal` (which no run repeats; `ImplementsLifecycle` covers its statuses), and
- `ServiceImplementsLifecycle`: initial states map to initial states of
  `PlanLifecycle` and every step to a step of it or a stutter.

`InvestigationProofs`: the statuses of an incident are overwritten by whoever comes last, so
what they announce is not inductive. `IInv` says which requests are in charge of a marked
incident (`Truthful`), that no two runs have the same start and that there are enough starts
left for those that wait (`Distinct`, `Bounded`, which needs a count of the waiting requests),
and, for incidents whose investigations never overlapped, that the one under way started
after everything stored (`Undisturbed`). From it follow `MarksAreHonest`, `DiagnosesAreStored` and
the refinement `ServiceImplementsStore`, whose abstract variable "latest" is a maximum over the
table: lemmas show what one more row does to it.

`RunProofs` is about the algorithms of one run as much as about its steps. A sort puts the
members of a finite set in their places: that no two have as many before them, and so every place
is taken exactly once, is a counting argument over injections (`InOrderIs`, from which
the three sorts are shown to reorder and lose nothing). Then, for every evidence, graph and
model answer, each hypothesis is followed through conversion, ranking and verification:
scores stay in basis points, citations stay within the known evidence, and what has no current
support is rejected. `IInv` says what a run has gathered and spent in each of its phases. From it
follow `ClaimsAreGrounded`, `SupportWins`, `RunsKeepBudgets` and `NoSuspectIsLost`; the last needs
that `InOrder` respects the order, so that a suspect beyond the limit comes after those within it.

`ExperimentProofs` proves `Invariance` for the controller in the same way as for remediation: for
each label, what the journal holds, what the cluster may hold and which of run's variables are set
(`Before`, `During`, `After`), and where a recovery or a fault may be seen
(`Traces`). From it follow `TypeCorrect`, `LabelledFaults`, `CleanRecoveries`,
`LabelledLeaks` and `UnavoidableCleanup`. For the live evaluation it shows that the controller
inside the loop takes only the controller's steps (`TrialsAreExperiments`), so that these theorems
hold of trials, and that receipts come before the next trial (`Sequential`), from which
`SeparateTrials` and `CompleteReports` follow.

`TopologyProofs` has two parts. Of the transport, `SlotsComeBack` needs that the
queue holds each waiting request once (`Waits`, with lemmas for joining at the end, leaving at the
head and leaving from the middle when cancelled) and that taking or handing on a slot changes the number of
holders by one. `AnswersTakeTheirAttempts` is an action property; it needs that all that is read
comes from the attempt under way (`Bodies`).
Of the snapshots, `SnapshotsAreAccountable` and `GraphAnswersAgree` follow from one small invariant,
`SnapshotInv`: a snapshot that exists was built (`Taken`) from what answers that are still there gave,
by a rebuild that is at its save. The steps of the transport must not touch the answers
of such a rebuild (`TransportSpares`), though those of other rebuilds go on. The rest is about the
algorithms, for all spans: latencies are sorted and percentiles of
a sorted list grow (`LatenciesGrow`, `PercentilesAre`), a subset is counted by smaller numbers
(`CountsGrow`), an edge's calls are spans of its callee whose parents are spans of its
caller in the same trace (`EdgesAreObserved`). The traversal is a function defined by recursion; `RecursionIs`
shows that it satisfies its equation and `ReachableIsClosed` that a ball of
as many steps as there are services is closed under calls, because one that still grows has a service more
with each step. `GraphsAgree` then compares distances forwards and backwards.

`EvidenceProofs` has `IInv` for the tools' steps: no two tools share a query, so what one tool starts
leaves the settled queries of the others settled, and a success keeps its answers. `AuditsTell`
follows; that metrics evidence is the stored snapshot's needs that anomalies of finitely many series
are a sequence. `ObservationInv` adds that what is answered is usable (`AnswersUsable`: no step
takes a refused answer for data). `EvidenceIsOfAnswers` and `NoSymptomIsLost` then rest
on one fact per tool, `Complete`: of usable answers its evidence is a sequence
that tells of symptoms only, and of each symptom once at least. For
logs and changes this is a lemma about filters (`LogsAre`, `EventsAre`, `DeploymentsAre`, `JoinedIs`). For
traces the worst are kept: an edge that is cut off is no worse than any that is
reported, so a report's confidence is at least what the lost edge's errors give (`WorstAreKept`). For metrics the proof follows the
engine: queries and responses pair by position (`QueryPairs`), a service has one series on each
side (`ByServiceIs`, `CollectedAre`), a series with a sample beyond three deviations passes the
screen with its first such sample (`ScreenIs`), the forest's row nearest to the peak moves the score to
between 210 and 600 (`NearestIs`, `CombinedIs`), which the minimum score 0.35 = 210 / 600 admits,
and the ranking is a total order of the candidates (`RankingOrders`).

`ApiProofs` proves `Invariant` for any replicas, settings, credential files, callers and
requests. That an effect was authorised is not inductive: the middleware saw the permission
several steps before. `IInv` keeps what it saw: a running handler's replica still has
the settings and the file version it was admitted with, since stopping the replica stops the
handler (`Secure`); and for the intake how far each handler has come, as the numbers of
incidents and alerts its attempt has stored (`Orderly`). From it follow
`AuthorisedEffects`, `AttributedExecutions`, `StoredAlerts` and the action property `RevokedTokens`:
once every running replica has read a credential file without a token, nothing is done with it.
(`EffectsAreAuthorised`, by the file that each process has read, is proved only; while all have read
the same file, the property that is run says as much.)

`ConsoleProofs` proves `DecisionsAreSeen` from a small part of its invariant (what the panel shows is
`remediationId`, and a decision carries it) and `WaitingIsEnough` from the rest: until an
operator has clicked too early, there is one call that leads or only calls that
follow a selection (`Course`), a disabled button has a call that will enable it (`Button`), and
incidents are created in order (`Oldest`).

Where an algorithm on data seems to need induction, the proofs take a least counterexample
instead: the order of the naturals is well-founded and a non-empty set of them has a least
member (`LeastNatural`). Sorts are covered by one lemma, `InOrderIs`: where
`before` is a strict total order of a finite set, `InOrder` takes each member exactly once, and
earlier members first. It is restated in each module of proofs that needs it.

Assumptions on the constants say that data has the shape the models give it (records, numbers,
finite sets of services, requests and series; incidents and plans of the console are numbered),
and that the value for "none" is no other value. Those that say more:

- `RebuildAssumption`: Tempo answers a request for a trace with spans of that trace only. The code relies on it
  without a check: the parser takes the identifiers from the spans (`telemetry/tempo.py:141`).
- `EngineAssumption`: services have distinct places in the alphabet.
- `ToolsAssumption`: no metric signal has the name of another tool's query, and the minimum score is at most
  the 0.35 that the metrics tool asks for (`tools.py:69`).
- `AnswersAssumption`: usable answers have the fields their parsers set; a metrics answer has one
  series per service, as the catalog's queries aggregate by server (series without a service may be many);
  the forest's percentiles are tenths from 0 to 10.

TLC evaluates each of them on the instances. All inductive invariants were checked with TLC on the instances
above before they were proved.

## 6. Only model-checked

Liveness under fairness is out of the prover's reach: `ApprovalsConclude`,
`InvestigationsConclude`, `RunEnds`, `FaultsEnd`, `ToolsEnd` and `RebuildsEnd`. Every invariant and
every action property of the passing runs is stated by a theorem. The z-scores and the forest themselves are not
modelled, so that nothing is proved of them.

Limits a reader should know: the diagnosis is checked for currency before the
claim, so an investigation stored between that check and the deletion does not
stop it (`SupersededNeverExecutes` speaks of the time of the approval).
Pods are assumed not to be recreated under their old name. Who may act as which operator is
decided in the API, not in the service: `ExecutionsAreAttributed` is stated there, and how
the handler's operation then races others in `Remediation`. Wall-clock windows of incidents, which start two
minutes early and may reach back into an earlier trial, are not modelled.

## 7. Findings

- `fail_safe`: the controller promises a fail-safe lifecycle with a deletion in
  `finally`, but deletes only if `apply` had returned. An interrupted or unanswered
  `apply` may leave a fault that no deletion was attempted for.
- `remediation_diagnosis`: "a completed diagnosis is required before remediation",
  yet the guard accepts an investigation that exhausted its budget, with its hypotheses.
- `evidence_audit`: the early return after a timeout in the memory passes on the
  evidence but not the tool calls that found it.

- `alertmanager`: the intake is "Alertmanager-compatible", yet the zero time that Alertmanager sends
  as the end of an alert that is still firing makes the window overflow: the webhook fails with 500,
  and so does each repetition.

Other things seen while modelling, which no run refutes:

- Overlapping investigations may leave an incident "diagnosed" whose latest investigation
  exhausted its budget (`DiagnosedHasDiagnosis` speaks of the latest only for incidents
  without overlap). `max_rounds` of the investigation budget is never read.
- The page can show the plan or the investigation of another incident than the selected one when
  an operator clicks before earlier calls have returned (`QuietPageAgrees` is stated for one
  who waits); the service refuses the decision then.
- `docs/investigation.md:59` says that without a key the service keeps to the deterministic
  synthesis; `config.py:65` refuses to start instead.
- A deployment scaled to zero on purpose is reported as not ready, with confidence 0.9
  (`tools.py:270`), and the event of a replica set names the replica set, never a service. With
  many events, the limit of 20 cuts off unready deployments, which come last (`tools.py:300`);
  `SymptomsAreReported` exempts a full bundle.
- Replicas started before and after a rotation of the credentials disagree until the last old
  one is gone; `RevocationTakesHold` speaks of the time from then on.
- An incident of the calendar's first days has no baseline window; its computation stands
  before the tool's `try` (`tools.py:53`), so that the tool raises without an audit. The model's
  windows all have one.
- An alert's window has no upper bound, while `CreateIncidentRequest` allows 24 hours.
- The rate of hallucinated evidence counts repeated citations of one valid piece
  (`evaluation_harness/runner.py:216`, compare `docs/evaluation.md:14`).
- The least anomaly that the screen admits scores exactly the minimum score 0.35 when the forest
  sees nothing; a smaller weight of the statistics would lose it (`SymptomsAreReported`).

## 8. Not modelled, and what would come next

Not modelled, and why:

- The computations of the z-scores and of the isolation forest, the statistics of the offline
  evaluation, feature hashing and vector search of the memory: floating point, without state.
- The generated dataset, the fault catalog, manifests, rendering and deployment scripts:
  constructions of data from tables.
- Migrations, wiring, probes, the static routes of the console and its token, response headers:
  declarations or single statements. The keys and constraints the code relies on are in the actions.
- Instant queries and pods of the telemetry clients, which no investigation asks for.
- Wall-clock windows of trials (`live.py:64`, a hazard without a property): a trial's window reaches two minutes
  back, whatever was there.

What would come next: a refinement of the tools' traces query by `TopologyRebuild`,
whose graph `EvidenceTools` takes as an input, and the window of a trial over
several trials, so that the hazard at `live.py:64` has a property.
