--------------------------- MODULE InvestigationRun ---------------------------
(***************************************************************************)
(* One run of the investigation runner: four telemetry tools, one after    *)
(* the other or at once, the memory, the provider with its retries, the    *)
(* ranker and the verifier, under budgets of time, tools and model calls.  *)
(* Time is counted in ticks, and every wait is cut off by what remains of  *)
(* the run's duration.                                                     *)
(***************************************************************************)
EXTENDS Hypotheses

CONSTANTS
  HasMemory,            \* whether the runner was given a memory
  Providers,            \* of hypotheses the application may be configured with
  Modes,                \* modes a request may ask for
  Budgets,              \* budgets it may set, durations in ticks
  MaxRetries,           \* of the provider's requests
  Drafts,               \* answers of the model
  Graphs,               \* scores the service graph may give the services
  None

NoGraph == [s \in Services \cup {0} |-> [criticality |-> 0, consistency |-> 0]]

ASSUME RunAssumption ==
  /\ HasMemory \in BOOLEAN
  /\ Providers \subseteq {"deterministic", "openai"}
  /\ Modes \subseteq {"single_agent", "multi_agent"}
  /\ Budgets \subseteq
       [max_tool_calls : Nat, max_llm_calls : Nat, max_duration : Nat \ {0}]
  /\ MaxRetries \in Nat
  /\ Drafts \subseteq
       Seq([service : Services \cup {0}, for : SUBSET Evidence,
            against : SUBSET Evidence, confidence : Points, status : HypothesisStatuses])
  /\ Graphs \subseteq
       [Services \cup {0} -> [criticality : Points, consistency : Points]]

Tools == <<"metrics", "traces", "logs", "changes">>

\* What a tool may find; the tool for changes also reads the cluster.
Findings(tool) ==
  From(Evidence, IF tool = "changes" THEN {"changes", "kubernetes"} ELSE {tool})

\* What the calls of some tools account for.
Audited(calls) == UNION {Findings(tool) : tool \in calls}

VARIABLES
  provider,             \* the configured provider
  mode,                 \* the request's mode
  budget,               \* and budget
  phase,                \* where run is
  elapsed,              \* ticks since its start; max_duration + 1 is any later time
  audits,               \* tools whose call ended, with or without an error
  evidence,             \* what they found
  graph,                \* scores from the service graph
  posts,                \* requests sent to the model in this run
  result                \* the investigation returned

input == <<provider, mode, budget>>
vars == <<input, phase, elapsed, audits, evidence, graph, posts, result>>

UsesMemory == mode = "multi_agent" /\ HasMemory
RequiredTools == 4 + (IF UsesMemory THEN 1 ELSE 0)

---------------------------------------------------------------------------
(* Operations *)

Init ==
  /\ provider \in Providers
  /\ mode \in Modes
  /\ budget \in Budgets
  /\ phase = "starting"
  /\ elapsed = 0
  /\ audits = {} /\ evidence = {} /\ graph = NoGraph
  /\ posts = 0
  /\ result = None

Return(status, found, calls, hypotheses) ==
  /\ phase' = "returned"
  /\ result' = [status |-> status, evidence |-> found, audits |-> calls,
                hypotheses |-> hypotheses]

Exhausted(found, calls) == Return("budget_exhausted", found, calls, <<>>)

Raise == phase' = "raised" /\ UNCHANGED result

\* Mutant: the memory is not part of the tool plan.
StartWithFour ==
  /\ phase = "starting"
  /\ IF budget.max_tool_calls < 4 THEN Exhausted({}, {})
     ELSE phase' = "collecting" /\ UNCHANGED result
  /\ UNCHANGED <<input, elapsed, audits, evidence, graph, posts>>

Start ==
  /\ phase = "starting"
  /\ IF budget.max_tool_calls < RequiredTools THEN Exhausted({}, {})
     ELSE phase' = "collecting" /\ UNCHANGED result
  /\ UNCHANGED <<input, elapsed, audits, evidence, graph, posts>>

\* Model calls are paid for only if the budget has any.
GoOnToSynthesis(found, calls) ==
  IF provider = "openai" /\ budget.max_llm_calls = 0 THEN Exhausted(found, calls)
  ELSE phase' = "synthesizing" /\ UNCHANGED result

\* A tool's call ends; one that fails finds nothing, and without traces there
\* is no graph.  A single agent's tools run in order.  When the last one has
\* ended, run goes on at once.
ToolReturns(k, found, scores) ==
  /\ phase = "collecting"
  /\ Tools[k] \notin audits
  /\ mode = "single_agent" => \A j \in 1 .. k - 1 : Tools[j] \in audits
  /\ found \subseteq Findings(Tools[k])
  /\ IF Tools[k] = "traces" THEN scores # graph \/ found = {} ELSE scores = graph
  /\ graph' = scores
  /\ audits' = audits \cup {Tools[k]}
  /\ evidence' = evidence \cup found
  /\ IF Cardinality(audits') < 4 THEN UNCHANGED <<phase, result>>
     ELSE IF UsesMemory THEN phase' = "remembering" /\ UNCHANGED result
     ELSE GoOnToSynthesis(evidence', audits')
  /\ UNCHANGED <<input, elapsed, posts>>

\* Mutant: only gathered tools are cut off.
MultiAgentTimeout ==
  /\ phase = "collecting" /\ mode = "multi_agent"
  /\ elapsed >= budget.max_duration
  /\ Exhausted({}, {})
  /\ UNCHANGED <<input, elapsed, audits, evidence, graph, posts>>

\* What the tools have found by then is lost with their tasks.
CollectionTimeout ==
  /\ phase = "collecting"
  /\ elapsed >= budget.max_duration
  /\ Exhausted({}, {})
  /\ UNCHANGED <<input, elapsed, audits, evidence, graph, posts>>

MemoryReturns(found) ==
  /\ phase = "remembering"
  /\ found \subseteq Historical(Evidence)
  /\ audits' = audits \cup {"memory"}
  /\ evidence' = evidence \cup found
  /\ GoOnToSynthesis(evidence', audits')
  /\ UNCHANGED <<input, elapsed, graph, posts>>

\* A TimeoutError, whose ever it is: the current evidence is returned, without the
\* calls that found it.
MemoryTimesOut ==
  /\ phase = "remembering"
  /\ Exhausted(evidence, {})
  /\ UNCHANGED <<input, elapsed, audits, evidence, graph, posts>>

\* The one that is sure to come is the timer's.
MemoryTimeout == elapsed >= budget.max_duration /\ MemoryTimesOut

\* Any other error of the memory is the run's.
MemoryRaises ==
  /\ phase = "remembering"
  /\ Raise
  /\ UNCHANGED <<input, elapsed, audits, evidence, graph, posts>>

\* Mutant: the time that ranking and verifying took is not looked at.
ConcludeInAnyTime(hypotheses) ==
  \E ranked \in {Rank(hypotheses, evidence, graph)} :
    \E final \in {IF mode = "multi_agent" THEN Verify(ranked, evidence) ELSE ranked} :
      Return("completed", evidence, audits, final)

\* Hypotheses are ranked and, with several agents, verified; a run that took
\* too long has exhausted its budget, its hypotheses notwithstanding.  (Bound
\* by \E, what a singleton holds is computed once.)
Conclude(hypotheses) ==
  \E ranked \in {Rank(hypotheses, evidence, graph)} :
    \E final \in {IF mode = "multi_agent" THEN Verify(ranked, evidence) ELSE ranked} :
      Return(IF elapsed > budget.max_duration THEN "budget_exhausted" ELSE "completed",
             evidence, audits, final)

SynthesizeOffline ==
  /\ phase = "synthesizing" /\ provider = "deterministic"
  /\ \E hypotheses \in {DeterministicHypotheses(evidence)} : Conclude(hypotheses)
  /\ UNCHANGED <<input, elapsed, audits, evidence, graph, posts>>

\* The model is asked, for the first time or again.
Post ==
  /\ phase = "synthesizing" /\ provider = "openai"
  /\ posts' = posts + 1
  /\ phase' = "asking"
  /\ UNCHANGED <<input, elapsed, audits, evidence, graph, result>>

ModelAnswers(drafts) ==
  /\ phase = "asking"
  /\ \E hypotheses \in {ModelHypotheses(drafts, evidence)} : Conclude(hypotheses)
  /\ UNCHANGED <<input, elapsed, audits, evidence, graph, posts>>

\* Mutant: the last attempt is retried as well.
RetryOnceMore ==
  /\ phase = "asking"
  /\ posts <= MaxRetries + 1
  /\ phase' = "synthesizing"
  /\ UNCHANGED <<input, elapsed, audits, evidence, graph, posts, result>>

\* A transient failure, and the backoff before the next attempt.
Retry ==
  /\ phase = "asking"
  /\ posts <= MaxRetries
  /\ phase' = "synthesizing"
  /\ UNCHANGED <<input, elapsed, audits, evidence, graph, posts, result>>

\* The request is refused, its answer is not the schema's, or it failed for
\* the last time.
ModelRaises ==
  /\ phase = "asking"
  /\ Raise
  /\ UNCHANGED <<input, elapsed, audits, evidence, graph, posts>>

\* Only a provider that waits can be cut off.
SynthesisTimeout ==
  /\ phase \in {"synthesizing", "asking"} /\ provider = "openai"
  /\ elapsed >= budget.max_duration
  /\ Exhausted(evidence, audits)
  /\ UNCHANGED <<input, elapsed, audits, evidence, graph, posts>>

\* Time goes by while run waits; a timer may fire late.
Tick ==
  /\ phase \in {"collecting", "remembering", "synthesizing", "asking"}
  /\ elapsed <= budget.max_duration
  /\ elapsed' = elapsed + 1
  /\ UNCHANGED <<input, phase, audits, evidence, graph, posts, result>>

Timeout == CollectionTimeout \/ MemoryTimeout \/ SynthesisTimeout

Next ==
  \/ Start \/ Timeout \/ MemoryTimesOut \/ MemoryRaises
  \/ \E k \in 1 .. 4 : \E found \in SUBSET Findings(Tools[k]) :
       \E scores \in Graphs \cup {graph} : ToolReturns(k, found, scores)
  \/ \E found \in SUBSET Historical(Evidence) : MemoryReturns(found)
  \/ SynthesizeOffline \/ Post \/ Retry \/ ModelRaises
  \/ \E drafts \in Drafts : ModelAnswers(drafts)
  \/ Tick

Spec == Init /\ [][Next]_vars

\* Only the clock, the timers of wait_for and code that waits for nothing can be
\* relied on.
FairSpec ==
  /\ Spec
  /\ WF_vars(Start) /\ WF_vars(Tick) /\ WF_vars(Timeout)
  /\ WF_vars(SynthesizeOffline)

---------------------------------------------------------------------------
(* Properties *)

\* What a hypothesis cites in its favour is returned with it and is current, and
\* a positive one cites something, whatever the model claims and in both modes:
\* history may suggest a candidate but never supports one.
PositiveIsGrounded ==
  result # None => \A k \in DOMAIN result.hypotheses :
    LET h == result.hypotheses[k]
    IN /\ h.for \subseteq Current(result.evidence)
       /\ h.status \in Positive => h.for # {}

\* After verification, the support of a positive hypothesis is stronger than
\* everything that is known against it.
SupportOutweighsOpposition ==
  mode = "multi_agent" /\ result # None => \A k \in DOMAIN result.hypotheses :
    LET h == result.hypotheses[k]
    IN h.status \in Positive /\ h.against # {} =>
         Strongest(h.for) > Strongest(h.against)

\* The run never uses more tools than its budget has, which a check after the
\* collection could not undo, nor asks the model more often than the retries
\* allow; and a completed investigation kept its time and
\* used its whole tool plan: no partial collection and no late conclusion passes
\* for a diagnosis.
BudgetsAreKept ==
  /\ Cardinality(audits) <= budget.max_tool_calls
  /\ posts <= MaxRetries + 1
  /\ result # None /\ result.status = "completed" =>
       /\ elapsed <= budget.max_duration
       /\ Cardinality(result.audits) = RequiredTools
       /\ result.evidence \subseteq Audited(result.audits)

\* The five best of the suspects, or all of fewer: none that is left out scores
\* higher than one that is not.
Foremost(named, suspects, E) ==
  /\ named \subseteq suspects
  /\ Cardinality(named) = Least(5, Cardinality(suspects))
  /\ \A s \in named, t \in suspects \ named : Score(E, t) <= Score(E, s)

\* Offline, the ranked hypotheses are about the best of the services that current
\* evidence is about: the limit, the ranking and the verification lose no suspect
\* that scores higher, and history adds none.
SuspectsAreHeard ==
  provider = "deterministic" /\ result # None =>
    LET suspects == {s \in Services : About(Current(result.evidence), s) # {}}
        named == {result.hypotheses[k].service : k \in DOMAIN result.hypotheses}
    IN suspects # {} /\ result.hypotheses # <<>> =>
         Foremost(named, suspects, result.evidence)

\* A run ends, returned or raised, whatever its tools, memory and model do.
RunEnds == <>(phase \in {"returned", "raised"})

\* The architecture's words: the specialists produce audited evidence objects.
\* A run that times out in the memory returns evidence without any audit.
EvidenceIsAudited ==
  result # None => result.evidence \subseteq Audited(result.audits)
=============================================================================
