------------------------------ MODULE Hypotheses ------------------------------
(***************************************************************************)
(* From evidence to ranked hypotheses: the deterministic provider, the     *)
(* filter on a model's drafts, the causal ranker and the verifier.  Scores *)
(* and confidences are in basis points.  Evidence is its own identifier,   *)
(* services are numbered in the order of their names (0 is no service),    *)
(* and a hypothesis's rank is its place in the sequence.                   *)
(***************************************************************************)
EXTENDS Ordering, Sequences, FiniteSetsExt

CONSTANTS
  Services,
  Affected,             \* the incident's affected service, or 0
  Evidence              \* the evidence there may be

Points == 0 .. 10000

Sources == {"metrics", "traces", "logs", "changes", "kubernetes", "memory"}

HypothesisStatuses == {"active", "supported", "confirmed", "weak", "rejected"}

EvidenceRecord ==
  [source : Sources, service : Services \cup {0}, confidence : Points,
   precedence : Points]     \* 1 - offset into the incident / its duration

ASSUME EvidenceAssumption ==
  /\ Services \subseteq Nat \ {0} /\ Affected \in Services \cup {0}
  /\ Evidence \subseteq EvidenceRecord
  /\ IsFiniteSet(Services) /\ IsFiniteSet(Evidence)

\* Only the memory makes evidence whose origin is historical_prior.
Current(E) == {x \in E : x.source # "memory"}
Historical(E) == E \ Current(E)
About(E, s) == {x \in E : x.service = s}
From(E, sources) == {x \in E : x.source \in sources}

Least(a, b) == IF a < b THEN a ELSE b
Strongest(E) == Max({x.confidence : x \in E} \cup {0})

\* Hypotheses by their order.
Sorted(hs, before) ==
  LET order == InOrder(DOMAIN hs, before)
  IN [k \in DOMAIN hs |-> hs[order[k]]]

---------------------------------------------------------------------------
(* Providers *)

Hypothesis(s, for, against, confidence, status) ==
  [service |-> s, for |-> for, against |-> against,
   confidence |-> confidence, status |-> status]

Score(E, s) ==
  LET now == About(Current(E), s)
      diversity == Least(4, Cardinality({x.source : x \in now}))
  IN Least(10000, (7 * Strongest(now)) \div 10 + 625 * diversity
                  + Strongest(About(Historical(E), s)) \div 20)

\* With no current evidence: one weak guess, perhaps from history.
Guess(E) ==
  LET priors == {x \in Historical(E) : x.service # 0}
      best == {x \in priors : x.confidence = Strongest(priors)}
      service == IF priors = {} THEN Affected ELSE (CHOOSE x \in best : TRUE).service
  IN <<Hypothesis(service, {}, {}, 500, "weak")>>

\* The suspects with a higher score than each, or the same and a name before it.
Stronger(E, suspects) ==
  LET score == [s \in suspects |-> Score(E, s)]
  IN [s \in suspects |-> {t \in suspects :
        score[t] > score[s] \/ (score[t] = score[s] /\ t < s)}]

\* Mutant: a service that only history knows is a suspect too.
HypothesesFromHistory(E) ==
  LET suspects == {s \in Services : About(E, s) # {}}
      order == InOrder(suspects, Stronger(E, suspects))
      Candidate(s) == Hypothesis(s, About(E, s), {}, Score(E, s),
        IF Score(E, s) >= 5500 THEN "supported" ELSE "weak")
  IN IF suspects = {} THEN Guess(E)
     ELSE [k \in 1 .. Least(5, Cardinality(suspects)) |-> Candidate(order[k])]

DeterministicHypotheses(E) ==
  LET suspects == {s \in Services : About(Current(E), s) # {}}
      order == InOrder(suspects, Stronger(E, suspects))
      Candidate(s) == Hypothesis(s, About(Current(E), s), {}, Score(E, s),
        IF Score(E, s) >= 5500 THEN "supported" ELSE "weak")
  IN IF suspects = {} THEN Guess(E)
     ELSE [k \in 1 .. Least(5, Cardinality(suspects)) |-> Candidate(order[k])]

Positive == {"supported", "confirmed"}

\* A model's drafts: identifiers of unknown evidence are dropped, and positive
\* claims that cite nothing known are rejected.
ModelHypotheses(drafts, E) ==
  [k \in DOMAIN drafts |->
     LET d == drafts[k]
         for == d.for \cap E
     IN Hypothesis(d.service, for, d.against \cap E,
          IF for # {} THEN d.confidence ELSE Least(d.confidence, 2000),
          IF d.status \in Positive /\ for = {} THEN "rejected" ELSE d.status)]

---------------------------------------------------------------------------
(* The causal ranker.  graph[s] holds a service's criticality and consistency, *)
(* both 0 if the tool for traces brought no graph.                           *)

CausalScore(h, E, graph) ==
  LET support == Current(h.for \cap E)
      raw == 25 * Strongest(From(support, {"metrics"}))
           + 20 * Max({x.precedence : x \in support} \cup {0})
           + 20 * graph[h.service].criticality
           + 15 * graph[h.service].consistency
           + 10 * Strongest(From(support, {"logs"}))
           + 5 * Strongest(From(support, {"changes", "kubernetes"}))
           + 5 * Strongest(About(Historical(E), h.service))
  IN ((raw \div 100) * (20000 - Strongest(h.against \cap E))) \div 20000

Ranked(h, E, graph) ==
  LET confidence ==
        Least(10000, (7 * CausalScore(h, E, graph) + 3 * h.confidence) \div 10)
      status == IF h.for = {} THEN "weak"
                ELSE IF h.status = "rejected" THEN "rejected"
                ELSE IF confidence >= 4500 THEN "supported"
                ELSE "weak"
  IN [h EXCEPT !.confidence = confidence, !.status = status]

\* The hypotheses that the ranking puts before each; the sort is stable.
Ahead(hs) ==
  [k \in DOMAIN hs |-> {j \in DOMAIN hs :
     \/ hs[j].confidence > hs[k].confidence
     \/ /\ hs[j].confidence = hs[k].confidence
        /\ \/ hs[j].service < hs[k].service
           \/ hs[j].service = hs[k].service /\ j < k}]

Rank(hs, E, graph) ==
  LET ranked == [k \in DOMAIN hs |-> Ranked(hs[k], E, graph)]
  IN Sorted(ranked, Ahead(ranked))

---------------------------------------------------------------------------
(* The verifier *)

\* Mutant: any known evidence may support.
VerifiedByAnything(h, E) ==
  LET for == h.for \cap E
      against == h.against \cap E
      contradicted == against # {} /\ Strongest(against) >= Strongest(for)
  IN [h EXCEPT !.for = for, !.against = against,
        !.status = IF for = {} THEN "rejected"
                   ELSE IF contradicted THEN "weak" ELSE @,
        !.confidence = IF for = {} THEN Least(@, 1000)
                       ELSE IF contradicted THEN Least(@, Strongest(for) \div 2)
                       ELSE @]

\* Mutant: an opposition as strong as the support does not count.
VerifiedOnTies(h, E) ==
  LET for == Current(h.for \cap E)
      against == h.against \cap E
      contradicted == against # {} /\ Strongest(against) > Strongest(for)
  IN [h EXCEPT !.for = for, !.against = against,
        !.status = IF for = {} THEN "rejected"
                   ELSE IF contradicted THEN "weak" ELSE @,
        !.confidence = IF for = {} THEN Least(@, 1000)
                       ELSE IF contradicted THEN Least(@, Strongest(for) \div 2)
                       ELSE @]

Verified(h, E) ==
  LET for == Current(h.for \cap E)
      against == h.against \cap E
      contradicted == against # {} /\ Strongest(against) >= Strongest(for)
  IN [h EXCEPT !.for = for, !.against = against,
        !.status = IF for = {} THEN "rejected"
                   ELSE IF contradicted THEN "weak" ELSE @,
        !.confidence = IF for = {} THEN Least(@, 1000)
                       ELSE IF contradicted THEN Least(@, Strongest(for) \div 2)
                       ELSE @]

\* By falling confidence; what is equal keeps its order.
MoreConfident(hs) ==
  [k \in DOMAIN hs |-> {j \in DOMAIN hs :
     \/ hs[j].confidence > hs[k].confidence
     \/ hs[j].confidence = hs[k].confidence /\ j < k}]

Verify(hs, E) ==
  LET verified == [k \in DOMAIN hs |-> Verified(hs[k], E)]
  IN Sorted(verified, MoreConfident(verified))
=============================================================================
