-------------------------- MODULE MCInvestigationRun --------------------------
(* Instances of InvestigationRun for TLC: two services, the first affected. *)
EXTENDS InvestigationRun, TLC

Ev(source, service, confidence, precedence) ==
  [source |-> source, service |-> service, confidence |-> confidence,
   precedence |-> precedence]

m1 == Ev("metrics", 1, 9000, 9000)
l2 == Ev("logs", 2, 6000, 4000)
k0 == Ev("kubernetes", 0, 7000, 0)
h2 == Ev("memory", 2, 9500, 0)

MCEvidence == {m1, l2, k0, h2}

Budget(tools, llm, duration) ==
  [max_tool_calls |-> tools, max_llm_calls |-> llm, max_duration |-> duration]

\* One round of everything, a plan the memory does not fit in, no model calls.
MCBudgets == {Budget(5, 1, 2), Budget(4, 1, 2), Budget(5, 0, 2)}
BothModes == {"single_agent", "multi_agent"}

\* Scores of a graph in which the first service calls the second, as the
\* model of the service graph has them.
MCGraphs == {[s \in Services \cup {0} |->
                [criticality |-> IF s = 0 THEN 0 ELSE 5000 * s,
                 consistency |-> IF s = 0 THEN 0 ELSE 10000 \div s]]}

Topology == INSTANCE ServiceGraph

OneCall == Topology!Build(
  <<Topology!Span(1, 1, 0, 1, 0, 90, FALSE), Topology!Span(1, 2, 1, 2, 5, 80, TRUE)>>)

ASSUME GraphsAreTheTopologys ==
  MCGraphs = {Topology!GraphScores(OneCall, Affected) @@ (0 :> NoGraph[0])}

\* What a model may answer: citations current and historical, none, or of
\* evidence that was not collected; claims of every kind.
Claims ==
  {Hypothesis(s, for, against, confidence, status) :
     s \in Services, for \in {{}, {m1}, {l2}, {h2}, {l2, h2}},
     against \in {{}, {m1}, {l2}, {h2}},
     confidence \in {2500, 10000}, status \in HypothesisStatuses}

Bold == {c \in Claims : c.confidence = 10000 /\ c.against \in {{}, {l2}}
                        /\ c.status \in {"confirmed", "rejected"}}
Modest == Hypothesis(1, {l2}, {}, 8000, "supported")
ManyDrafts == {<<c>> : c \in Claims} \cup {<<b, c>> : b, c \in Bold}
              \cup {<<b, Modest>> : b \in Bold}

FewDrafts == {<<>>, <<Hypothesis(2, {l2}, {}, 9000, "supported")>>}
=============================================================================
