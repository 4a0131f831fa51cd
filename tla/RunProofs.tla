------------------------------- MODULE RunProofs -------------------------------
(***************************************************************************)
(* Proofs about InvestigationRun and the algorithms of Hypotheses, for any *)
(* evidence, services, budgets, graphs and answers of a model.             *)
(*                                                                         *)
(* The sorts reorder hypotheses and lose none, which takes a counting      *)
(* argument; verification and ranking are then looked at one hypothesis at *)
(* a time; and what a run has gathered at each of its phases is the        *)
(* inductive invariant under which its result is what it promises.         *)
(***************************************************************************)
EXTENDS InvestigationRun, FiniteSetTheorems, WellFoundedInduction, TLAPS

---------------------------------------------------------------------------
(* Least and greatest numbers *)

\* A set of naturals has a least element.
LEMMA LeastNatural ==
  ASSUME NEW S \in SUBSET Nat, S # {}
  PROVE  \E m \in S : \A x \in S : m <= x
<1>1. \A x, y \in Nat : x < y => <<x, y>> \in OpToRel(<, Nat)
  <2>1. OpToRel(<, Nat) = {ss \in Nat \X Nat : ss[1] < ss[2]}
    BY Zenon DEF OpToRel
  <2>2. \A x, y \in Nat : x < y => <<x, y>> \in {ss \in Nat \X Nat : ss[1] < ss[2]}
    OBVIOUS
  <2> QED
    BY Zenon, <2>1, <2>2
<1>2. \E m \in S : \A x \in S : ~ (<<x, m>> \in OpToRel(<, Nat))
  BY Zenon, WFMin, NatLessThanWellFounded
<1>3. \E m \in S : \A x \in S : ~ (x < m)
  BY Zenon, <1>1, <1>2
<1> QED
  BY <1>3

\* What Max finds among bounded numbers: what is least below the bound.
LEMMA MaxIs ==
  ASSUME NEW n \in Nat, NEW S \in SUBSET (0 .. n), S # {}
  PROVE  Max(S) \in S /\ \A x \in S : Max(S) >= x
<1> DEFINE Below == {n - x : x \in S}
<1>1. \A x \in S : x \in Nat /\ n - x \in Nat
  OBVIOUS
<1>2. Below \in SUBSET Nat /\ Below # {}
  BY <1>1
<1>3. PICK m \in Below : \A x \in Below : m <= x
  <2> HIDE DEF Below
  <2> QED
    BY <1>2, LeastNatural
<1>4. PICK y \in S : m = n - y
  BY <1>3
<1>5. ASSUME NEW x \in S PROVE y >= x
  <2>1. n - y <= n - x
    BY <1>3, <1>4
  <2> QED
    BY <1>1, <2>1
<1> QED
  BY <1>5 DEF Max

---------------------------------------------------------------------------
(* The inductive invariant *)

Waits == {"collecting", "remembering", "synthesizing", "asking"}

Scores == [Services \cup {0} -> [criticality : Points, consistency : Points]]

ToolNames == {"metrics", "traces", "logs", "changes"}

\* The calls of the whole tool plan.
Plan == ToolNames \cup (IF UsesMemory THEN {"memory"} ELSE {})

TypeOK ==
  /\ provider \in Providers /\ mode \in Modes /\ budget \in Budgets
  /\ phase \in Waits \cup {"starting", "returned", "raised"}
  /\ elapsed \in Nat /\ posts \in Nat
  /\ audits \subseteq Plan
  /\ evidence \subseteq Evidence
  /\ graph \in Scores

\* What a run has, and may still spend, in each of its phases.
Progress ==
  /\ phase = "starting" => audits = {} /\ evidence = {}
  /\ phase # "starting" => audits = {} \/ RequiredTools <= budget.max_tool_calls
  /\ phase \in Waits => RequiredTools <= budget.max_tool_calls
  /\ phase \in {"starting", "collecting", "remembering"} => posts = 0
  /\ phase = "collecting" => audits \subseteq ToolNames
  /\ phase = "remembering" => audits = ToolNames /\ UsesMemory
  /\ phase \in {"synthesizing", "asking"} => audits = Plan
  /\ phase = "synthesizing" => posts <= MaxRetries
  /\ phase = "asking" => provider = "openai"
  /\ posts <= MaxRetries + 1
  /\ phase \in Waits \cup {"starting"} => result = None

\* Everything found has its call, and history is found by the memory only.
Accounted ==
  /\ evidence \subseteq Audited(audits)
  /\ ~UsesMemory => evidence = Current(evidence)

Base == TypeOK /\ Progress /\ Accounted

\* What the runs check.
Promises ==
  /\ PositiveIsGrounded /\ SupportOutweighsOpposition
  /\ BudgetsAreKept /\ SuspectsAreHeard

IInv == Base /\ Promises

---------------------------------------------------------------------------
(* Lemmas about orders *)

\* before[x] are the members of S that a strict total order puts before x.
Orders(S, before) ==
  /\ before \in [S -> SUBSET S]
  /\ \A x \in S : x \notin before[x]
  /\ \A x, y \in S : y \in before[x] => before[y] \subseteq before[x]
  /\ \A x, y \in S : x = y \/ x \in before[y] \/ y \in before[x]

\* The members of a finite set have one place each: how many come before them says
\* where they are, no two have as many, so that all places are taken.
LEMMA InOrderIs ==
  ASSUME NEW S, IsFiniteSet(S), NEW before, Orders(S, before)
  PROVE  /\ Cardinality(S) \in Nat
         /\ \A n \in 1 .. Cardinality(S) : InOrder(S, before)[n] \in S
         /\ \A m, n \in 1 .. Cardinality(S) :
              InOrder(S, before)[m] = InOrder(S, before)[n] => m = n
         /\ \A x \in S : \E n \in 1 .. Cardinality(S) : InOrder(S, before)[n] = x
         /\ \A m, n \in 1 .. Cardinality(S) :
              InOrder(S, before)[m] \in before[InOrder(S, before)[n]] => m < n
<1> DEFINE N == Cardinality(S)
           place == [x \in S |-> Cardinality(before[x]) + 1]
<1>1. N \in Nat
  BY FS_CardinalityType
<1>2. ASSUME NEW x \in S
      PROVE  /\ IsFiniteSet(before[x]) /\ Cardinality(before[x]) \in Nat
             /\ Cardinality(before[x]) + 1 <= N
  <2>1. before[x] \in SUBSET (S \ {x})
    BY DEF Orders
  <2>2. IsFiniteSet(S \ {x}) /\ Cardinality(S \ {x}) = N - 1
    BY FS_RemoveElement
  <2>3. IsFiniteSet(before[x]) /\ Cardinality(before[x]) <= N - 1
    BY <2>1, <2>2, FS_Subset
  <2>4. Cardinality(before[x]) \in Nat
    BY <2>3, FS_CardinalityType
  <2> QED
    BY <1>1, <2>3, <2>4
<1>3. \A x \in S : place[x] \in 1 .. N /\ place[x] = Cardinality(before[x]) + 1
  BY <1>1, <1>2
<1>4. ASSUME NEW x \in S, NEW y \in S, x \in before[y]
      PROVE  Cardinality(before[x]) < Cardinality(before[y])
  <2>1. before[x] \in SUBSET (before[y] \ {x})
    BY <1>4 DEF Orders
  <2>2. /\ IsFiniteSet(before[y] \ {x})
        /\ Cardinality(before[y] \ {x}) = Cardinality(before[y]) - 1
    BY <1>2, <1>4, FS_RemoveElement
  <2>3. Cardinality(before[x]) <= Cardinality(before[y]) - 1
    BY <2>1, <2>2, FS_Subset
  <2> QED
    BY <1>2, <2>3
<1>5. \A x, y \in S : place[x] = place[y] => x = y
  <2> SUFFICES ASSUME NEW x \in S, NEW y \in S, place[x] = place[y], x # y PROVE FALSE
    OBVIOUS
  <2>1. Cardinality(before[x]) = Cardinality(before[y])
    BY <1>2, <1>3
  <2>2. x \in before[y] \/ y \in before[x]
    BY DEF Orders
  <2>3. \/ Cardinality(before[x]) < Cardinality(before[y])
        \/ Cardinality(before[y]) < Cardinality(before[x])
    BY <1>4, <2>2
  <2> QED
    BY <1>2, <2>1, <2>3
<1>6. place \in [S -> 1 .. N]
  BY <1>3
<1> HIDE DEF place
<1>7. place \in Injection(S, 1 .. N)
  BY <1>5, <1>6 DEF Injection, IsInjective
<1>8. IsFiniteSet(1 .. N) /\ Cardinality(1 .. N) = N
  <2>1. 1 \in Int /\ N \in Int
    BY <1>1
  <2> HIDE DEF N
  <2>2. /\ IsFiniteSet(1 .. N)
        /\ Cardinality(1 .. N) = IF 1 > N THEN 0 ELSE N - 1 + 1
    BY <2>1, FS_Interval
  <2> QED
    BY <1>1, <2>2
<1>9. place \in Surjection(S, 1 .. N)
  BY <1>7, <1>8, FS_Injection
<1>10. ASSUME NEW n \in 1 .. N
       PROVE  InOrder(S, before)[n] \in S /\ place[InOrder(S, before)[n]] = n
  <2>1. PICK x \in S : place[x] = n
    BY <1>9 DEF Surjection
  <2>2. Cardinality(before[x]) = n - 1
    BY <1>1, <1>2, <1>3, <2>1
  <2>3. InOrder(S, before)[n] = CHOOSE y \in S : Cardinality(before[y]) = n - 1
    BY DEF InOrder
  <2>4. /\ InOrder(S, before)[n] \in S
        /\ Cardinality(before[InOrder(S, before)[n]]) = n - 1
    BY <2>2, <2>3
  <2> QED
    BY <1>1, <1>3, <2>4
<1>11. \A m, n \in 1 .. N : InOrder(S, before)[m] = InOrder(S, before)[n] => m = n
  BY <1>10
<1>12. ASSUME NEW x \in S PROVE \E n \in 1 .. N : InOrder(S, before)[n] = x
  <2>1. place[x] \in 1 .. N
    BY <1>3
  <2>2. InOrder(S, before)[place[x]] = x
    BY <1>5, <1>10, <2>1
  <2> QED
    BY <2>1, <2>2
<1>13. ASSUME NEW m \in 1 .. N, NEW n \in 1 .. N,
              InOrder(S, before)[m] \in before[InOrder(S, before)[n]]
       PROVE  m < n
  <2>1. PICK x, y : x = InOrder(S, before)[m] /\ y = InOrder(S, before)[n]
    OBVIOUS
  <2>2. x \in S /\ y \in S /\ place[x] = m /\ place[y] = n
    BY <1>10, <2>1
  <2>3. Cardinality(before[x]) < Cardinality(before[y])
    BY <1>4, <1>13, <2>1, <2>2
  <2> QED
    BY <1>2, <1>3, <2>2, <2>3
<1> QED
  BY <1>1, <1>10, <1>11, <1>12, <1>13

\* The places of a sequence.
Places(D) == IsFiniteSet(D) /\ D = 1 .. Cardinality(D)

\* Two sequences have the same members.
Reorders(new, old, D) ==
  \E order \in [D -> D] : /\ new = [k \in D |-> old[order[k]]]
                          /\ \A j \in D : \E k \in D : order[k] = j

\* What is sorted is what there was.
LEMMA SortedIs ==
  ASSUME NEW D, Places(D), NEW hs, DOMAIN hs = D, NEW before, Orders(D, before)
  PROVE  Reorders(Sorted(hs, before), hs, D)
<1>2. IsFiniteSet(D)
  BY DEF Places
<1>3. /\ \A k \in D : InOrder(D, before)[k] \in D
      /\ \A j \in D : \E k \in D : InOrder(D, before)[k] = j
  <2>1. /\ \A k \in 1 .. Cardinality(D) : InOrder(D, before)[k] \in D
        /\ \A j \in D : \E k \in 1 .. Cardinality(D) : InOrder(D, before)[k] = j
    BY <1>2, InOrderIs
  <2>2. PICK P : P = 1 .. Cardinality(D)
    OBVIOUS
  <2>3. P = D
    BY <2>2 DEF Places
  <2> QED
    BY <2>1, <2>2, <2>3
<1>4. PICK order : order = [k \in D |-> InOrder(D, before)[k]]
  OBVIOUS
<1>5. order \in [D -> D] /\ \A j \in D : \E k \in D : order[k] = j
  BY <1>3, <1>4
<1>6. Sorted(hs, before) = [k \in D |-> hs[order[k]]]
  BY <1>4 DEF Sorted
<1> QED
  BY <1>5, <1>6 DEF Reorders

---------------------------------------------------------------------------
(* Lemmas about one hypothesis *)

Hyp == [service : Services \cup {0}, for : SUBSET Evidence, against : SUBSET Evidence,
        confidence : Int, status : HypothesisStatuses]

LEMMA EvidenceFields ==
  ASSUME NEW x \in Evidence
  PROVE  /\ x.source \in Sources /\ x.service \in Services \cup {0}
         /\ x.confidence \in Points /\ x.precedence \in Points
  BY EvidenceAssumption DEF EvidenceRecord

LEMMA PointsAre ==
  /\ 0 \in Points /\ IsFiniteSet(Points)
  /\ \A x \in Points : x \in Nat /\ x \in Int
<1>1. IsFiniteSet(0 .. 10000)
  <2>1. \A b \in Int : IsFiniteSet(0 .. b)
    BY FS_Interval
  <2>2. PICK b \in Int : b = 10000
    OBVIOUS
  <2>3. IsFiniteSet(0 .. b)
    BY <2>1
  <2> QED
    BY <2>2, <2>3
<1>2. \A x \in 0 .. 10000 : x \in Nat /\ x \in Int
  OBVIOUS
<1>3. 0 \in 0 .. 10000
  OBVIOUS
<1> QED
  BY <1>1, <1>2, <1>3 DEF Points

\* The greatest of some points, or 0.
LEMMA GreatestPoint ==
  ASSUME NEW P \in SUBSET Points
  PROVE  /\ Max(P \cup {0}) \in Points /\ Max(P \cup {0}) \in P \cup {0}
         /\ \A x \in P : Max(P \cup {0}) >= x
<1> DEFINE Q == P \cup {0}
<1>1. Q # {} /\ Q \subseteq Points
  BY PointsAre
<1>2. PICK n \in Nat : n = 10000
  OBVIOUS
<1>3. Q \in SUBSET (0 .. n)
  BY <1>1, <1>2 DEF Points
<1> HIDE DEF Q
<1>4. Max(Q) \in Q /\ \A x \in Q : Max(Q) >= x
  BY <1>1, <1>3, MaxIs
<1> QED
  BY <1>1, <1>4 DEF Q

LEMMA StrongestType ==
  ASSUME NEW E \in SUBSET Evidence
  PROVE  Strongest(E) \in Points /\ Strongest(E) \in Int
<1>1. {x.confidence : x \in E} \in SUBSET Points
  BY EvidenceFields
<1>2. Strongest(E) \in Points
  BY <1>1, GreatestPoint DEF Strongest
<1> QED
  BY <1>2, PointsAre

LEMMA ScoreType ==
  ASSUME NEW E \in SUBSET Evidence, NEW s
  PROVE  Score(E, s) \in Int
<1> DEFINE now == About(Current(E), s)
           sources == {x.source : x \in now}
           then == About(Historical(E), s)
<1>1. now \in SUBSET Evidence /\ then \in SUBSET Evidence
  BY DEF About, Current, Historical
<1>2. IsFiniteSet(sources)
  <2>1. sources \subseteq Sources
    BY <1>1, EvidenceFields
  <2>2. IsFiniteSet(Sources)
    <3>1. Sources = {} \cup {"metrics"} \cup {"traces"} \cup {"logs"} \cup {"changes"}
                    \cup {"kubernetes"} \cup {"memory"}
      BY DEF Sources
    <3>2. \A S, x : IsFiniteSet(S) => IsFiniteSet(S \cup {x})
      BY FS_AddElement
    <3>3. IsFiniteSet({} \cup {"metrics"} \cup {"traces"})
      BY <3>2, FS_EmptySet
    <3> QED
      BY <3>1, <3>2, <3>3
  <2> QED
    BY <2>1, <2>2, FS_Subset
<1>3. Cardinality(sources) \in Nat
  BY <1>2, FS_CardinalityType
<1>4. Least(4, Cardinality(sources)) \in Int
  BY <1>3 DEF Least
<1>5. Strongest(now) \in Int /\ Strongest(then) \in Int
  BY <1>1, StrongestType
<1>6. Score(E, s) = Least(10000, (7 * Strongest(now)) \div 10
                     + 625 * Least(4, Cardinality(sources)) + Strongest(then) \div 20)
  BY DEF Score
<1>7. \A a, b, c \in Int :
        Least(10000, (7 * a) \div 10 + 625 * b + c \div 20) \in Int
  BY DEF Least
<1> HIDE DEF now, sources, then
<1> QED
  BY <1>4, <1>5, <1>6, <1>7

LEMMA CausalScoreType ==
  ASSUME NEW h \in Hyp, NEW E \in SUBSET Evidence, NEW g \in Scores
  PROVE  CausalScore(h, E, g) \in Int
<1> DEFINE support == Current(h.for \cap E)
           a == Strongest(From(support, {"metrics"}))
           b == Max({x.precedence : x \in support} \cup {0})
           c == g[h.service].criticality
           d == g[h.service].consistency
           e == Strongest(From(support, {"logs"}))
           f == Strongest(From(support, {"changes", "kubernetes"}))
           p == Strongest(About(Historical(E), h.service))
           o == Strongest(h.against \cap E)
<1>1. support \in SUBSET Evidence
  BY DEF Hyp, Current
<1>2. a \in Int /\ e \in Int /\ f \in Int
  <2> HIDE DEF support
  <2> QED BY <1>1, StrongestType DEF From
<1>3. b \in Int
  <2>1. {x.precedence : x \in support} \in SUBSET Points
    BY <1>1, EvidenceFields
  <2>2. b \in Points
    BY <2>1, GreatestPoint
  <2> HIDE DEF b
  <2> QED BY <2>2, PointsAre
<1>4. c \in Int /\ d \in Int
  <2>1. h.service \in Services \cup {0}
    BY DEF Hyp
  <2>2. c \in Points /\ d \in Points
    BY <2>1 DEF Scores
  <2> HIDE DEF c, d
  <2> QED BY <2>2, PointsAre
<1>5. p \in Int
  BY StrongestType DEF About, Historical
<1>6. o \in Int
  BY StrongestType DEF Hyp
<1>7. CausalScore(h, E, g) =
        (((25 * a + 20 * b + 20 * c + 15 * d + 10 * e + 5 * f + 5 * p) \div 100)
           * (20000 - o)) \div 20000
  BY DEF CausalScore
<1> HIDE DEF a, b, c, d, e, f, p, o
<1>8. PICK raw \in Int : raw = 25 * a + 20 * b + 20 * c + 15 * d + 10 * e + 5 * f + 5 * p
  BY <1>2, <1>3, <1>4, <1>5
<1>9. PICK r \in Int : r = raw \div 100
  OBVIOUS
<1>10. PICK t \in Int : t = r * (20000 - o)
  BY <1>6
<1>11. CausalScore(h, E, g) = t \div 20000
  BY <1>7, <1>8, <1>9, <1>10
<1> QED
  BY <1>11

\* The ranking leaves a positive status to hypotheses with support only, and
\* changes the score and the status alone.
LEMMA RankedIs ==
  ASSUME NEW h \in Hyp, NEW E \in SUBSET Evidence, NEW g \in Scores
  PROVE  /\ Ranked(h, E, g) \in Hyp
         /\ Ranked(h, E, g).service = h.service
         /\ Ranked(h, E, g).for = h.for
         /\ Ranked(h, E, g).status \in Positive => h.for # {}
<1>1. PICK score \in Int : score = CausalScore(h, E, g)
  BY CausalScoreType
<1>2. h.confidence \in Int
  BY DEF Hyp
<1>3. PICK c \in Int : c = Least(10000, (7 * score + 3 * h.confidence) \div 10)
  <2>1. \A a, b \in Int : Least(10000, (7 * a + 3 * b) \div 10) \in Int
    BY DEF Least
  <2> QED
    BY <1>2, <2>1
<1>4. PICK status : status = IF h.for = {} THEN "weak"
                ELSE IF h.status = "rejected" THEN "rejected"
                ELSE IF c >= 4500 THEN "supported"
                ELSE "weak"
  OBVIOUS
<1>5. Ranked(h, E, g) = [[h EXCEPT !.confidence = c] EXCEPT !.status = status]
  BY <1>1, <1>3, <1>4 DEF Ranked
<1>6. status \in HypothesisStatuses /\ (status \in Positive => h.for # {})
  BY <1>4 DEF HypothesisStatuses, Positive
<1> QED
  BY <1>5, <1>6 DEF Hyp

\* A verified hypothesis cites current evidence; it is positive only if it cites
\* some, stronger than all that opposes it.
LEMMA VerifiedIs ==
  ASSUME NEW h \in Hyp, NEW E \in SUBSET Evidence
  PROVE  LET v == Verified(h, E)
         IN /\ v \in Hyp /\ v.service = h.service
            /\ v.for \subseteq Current(E)
            /\ v.status \in Positive =>
                 /\ h.status \in Positive /\ v.for # {}
                 /\ v.against # {} => Strongest(v.for) > Strongest(v.against)
<1> DEFINE for == Current(h.for \cap E)
           against == h.against \cap E
           contradicted == against # {} /\ Strongest(against) >= Strongest(for)
           status == IF for = {} THEN "rejected"
                     ELSE IF contradicted THEN "weak" ELSE h.status
           c == IF for = {} THEN Least(h.confidence, 1000)
                ELSE IF contradicted THEN Least(h.confidence, Strongest(for) \div 2)
                ELSE h.confidence
<1>1. Verified(h, E) = [h EXCEPT !.for = for, !.against = against,
                                 !.status = status, !.confidence = c]
  BY DEF Verified
<1>2. h = [service |-> h.service, for |-> h.for, against |-> h.against,
           confidence |-> h.confidence, status |-> h.status]
  BY DEF Hyp
<1>3. for \in SUBSET Evidence /\ against \in SUBSET Evidence /\ for \subseteq Current(E)
  BY DEF Current
<1>4. Strongest(for) \in Int /\ Strongest(against) \in Int
  BY <1>3, StrongestType
<1>5. h.confidence \in Int
  BY DEF Hyp
<1>6. c \in Int
  <2>1. \A a, b \in Int : Least(a, 1000) \in Int /\ Least(a, b \div 2) \in Int
    BY DEF Least
  <2> QED
    BY <1>4, <1>5, <2>1
<1>7. status \in HypothesisStatuses
  BY DEF Hyp, HypothesisStatuses
<1>8. status \in Positive => for # {} /\ ~ contradicted /\ status = h.status
  BY DEF Positive
<1>9. ~ contradicted => against = {} \/ Strongest(for) > Strongest(against)
  BY <1>4
<1> HIDE DEF for, against, contradicted, status, c
<1>10. Verified(h, E) = [service |-> h.service, for |-> for, against |-> against,
                         confidence |-> c, status |-> status]
  BY <1>1, <1>2
<1>11. h.service \in Services \cup {0}
  BY DEF Hyp
<1>12. Verified(h, E) \in Hyp
  BY <1>3, <1>6, <1>7, <1>10, <1>11 DEF Hyp
<1> QED
  BY <1>3, <1>8, <1>9, <1>10, <1>12

---------------------------------------------------------------------------
(* Lemmas about what a run concludes *)

ServicesAreNumbers == \A s \in Services \cup {0} : s \in Int

LEMMA Numbers == ServicesAreNumbers
  BY EvidenceAssumption DEF ServicesAreNumbers

\* Both sorts' orders are total: ties are broken by the place.
LEMMA RankingOrders ==
  ASSUME NEW D, Places(D), NEW hs \in [D -> Hyp]
  PROVE  Orders(D, Ahead(hs)) /\ Orders(D, MoreConfident(hs))
<1> DEFINE c == [k \in D |-> hs[k].confidence]
           s == [k \in D |-> hs[k].service]
<1>1. DOMAIN hs = D /\ \A k \in D : k \in Int
  <2>1. \A k \in D : k \in 1 .. Cardinality(D)
    BY DEF Places
  <2> QED
    BY <2>1, FS_CardinalityType DEF Places
<1>2. \A k \in D : /\ c[k] = hs[k].confidence /\ c[k] \in Int
                        /\ s[k] = hs[k].service /\ s[k] \in Int /\ k \in Int
  BY <1>1, Numbers DEF Hyp, ServicesAreNumbers
<1> HIDE DEF c, s
<1>3. PICK a : a = Ahead(hs)
  OBVIOUS
<1>4. /\ a \in [D -> SUBSET (D)]
      /\ \A j, k \in D : j \in a[k] <=>
           \/ c[j] > c[k]
           \/ c[j] = c[k] /\ (s[j] < s[k] \/ (s[j] = s[k] /\ j < k))
  BY <1>1, <1>2, <1>3 DEF Ahead
<1>5. PICK b : b = MoreConfident(hs)
  OBVIOUS
<1>6. /\ b \in [D -> SUBSET (D)]
      /\ \A j, k \in D : j \in b[k] <=>
           c[j] > c[k] \/ (c[j] = c[k] /\ j < k)
  BY <1>1, <1>2, <1>5 DEF MoreConfident
<1>7. Orders(D, a)
  <2>1. \A x \in D : x \notin a[x]
    BY <1>2, <1>4
  <2>2. ASSUME NEW x \in D, NEW y \in D, NEW z \in D, y \in a[x], z \in a[y]
        PROVE  z \in a[x]
    <3>1. \/ c[y] > c[x]
          \/ c[y] = c[x] /\ (s[y] < s[x] \/ (s[y] = s[x] /\ y < x))
      BY <1>4, <2>2
    <3>2. \/ c[z] > c[y]
          \/ c[z] = c[y] /\ (s[z] < s[y] \/ (s[z] = s[y] /\ z < y))
      BY <1>4, <2>2
    <3>3. \/ c[z] > c[x]
          \/ c[z] = c[x] /\ (s[z] < s[x] \/ (s[z] = s[x] /\ z < x))
      BY <1>2, <3>1, <3>2
    <3> QED
      BY <1>4, <3>3
  <2>3. \A x, y \in D : y \in a[x] => a[y] \subseteq a[x]
    BY <1>4, <2>2
  <2>4. ASSUME NEW x \in D, NEW y \in D PROVE x = y \/ x \in a[y] \/ y \in a[x]
    <3>1. \/ x = y
          \/ c[x] > c[y] \/ (c[x] = c[y] /\ (s[x] < s[y] \/ (s[x] = s[y] /\ x < y)))
          \/ c[y] > c[x] \/ (c[y] = c[x] /\ (s[y] < s[x] \/ (s[y] = s[x] /\ y < x)))
      BY <1>2
    <3> QED
      BY <1>4, <3>1
  <2> QED
    BY <1>4, <2>1, <2>3, <2>4 DEF Orders
<1>8. Orders(D, b)
  <2>1. \A x \in D : x \notin b[x]
    BY <1>2, <1>6
  <2>2. ASSUME NEW x \in D, NEW y \in D, NEW z \in D, y \in b[x], z \in b[y]
        PROVE  z \in b[x]
    BY <1>2, <1>6, <2>2
  <2>3. \A x, y \in D : y \in b[x] => b[y] \subseteq b[x]
    BY <1>6, <2>2
  <2>4. \A x, y \in D : x = y \/ x \in b[y] \/ y \in b[x]
    BY <1>2, <1>6
  <2> QED
    BY <1>6, <2>1, <2>3, <2>4 DEF Orders
<1> QED
  BY <1>3, <1>5, <1>7, <1>8

\* The ranking ranks every hypothesis and adds none.
LEMMA RankIs ==
  ASSUME NEW D, Places(D), NEW hs \in [D -> Hyp],
         NEW E \in SUBSET Evidence, NEW g \in Scores
  PROVE  /\ Rank(hs, E, g) \in [D -> Hyp]
         /\ \A k \in D : \E j \in D : Rank(hs, E, g)[k] = Ranked(hs[j], E, g)
         /\ \A j \in D : \E k \in D : Rank(hs, E, g)[k] = Ranked(hs[j], E, g)
<1>1. PICK ranked : ranked = [k \in D |-> Ranked(hs[k], E, g)]
  OBVIOUS
<1>2. ranked \in [D -> Hyp] /\ \A k \in D : ranked[k] = Ranked(hs[k], E, g)
  BY <1>1, RankedIs
<1>3. Rank(hs, E, g) = Sorted(ranked, Ahead(ranked))
  BY <1>1 DEF Rank
<1>4. PICK before : before = Ahead(ranked)
  OBVIOUS
<1>5. Orders(D, before)
  BY <1>2, <1>4, RankingOrders
<1>6. PICK order \in [D -> D] : /\ Sorted(ranked, before) = [k \in D |-> ranked[order[k]]]
                                 /\ \A j \in D : \E k \in D : order[k] = j
  <2>1. DOMAIN ranked = D
    BY <1>2
  <2>2. Reorders(Sorted(ranked, before), ranked, D)
    BY <1>5, <2>1, SortedIs
  <2> QED
    BY <2>2 DEF Reorders
<1>7. Rank(hs, E, g) = [k \in D |-> ranked[order[k]]]
  BY <1>3, <1>4, <1>6
<1> QED
  BY <1>2, <1>6, <1>7

\* The verification verifies every hypothesis and adds none.
VerifiesAll(new, old, D, E) ==
  /\ new \in [D -> Hyp]
  /\ \A k \in D : \E j \in D : new[k] = Verified(old[j], E)
  /\ \A j \in D : \E k \in D : new[k] = Verified(old[j], E)

LEMMA VerifyIs ==
  ASSUME NEW D, Places(D), NEW hs \in [D -> Hyp], NEW E \in SUBSET Evidence
  PROVE  VerifiesAll(Verify(hs, E), hs, D, E)
<1>1. PICK verified : verified = [k \in D |-> Verified(hs[k], E)]
  OBVIOUS
<1>2. verified \in [D -> Hyp] /\ \A k \in D : verified[k] = Verified(hs[k], E)
  BY <1>1, VerifiedIs
<1>3. Verify(hs, E) = Sorted(verified, MoreConfident(verified))
  BY <1>1 DEF Verify
<1>4. PICK before : before = MoreConfident(verified)
  OBVIOUS
<1>5. Orders(D, before)
  BY <1>2, <1>4, RankingOrders
<1>6. PICK order \in [D -> D] : /\ Sorted(verified, before) = [k \in D |-> verified[order[k]]]
                                 /\ \A j \in D : \E k \in D : order[k] = j
  <2>1. DOMAIN verified = D
    BY <1>2
  <2>2. Reorders(Sorted(verified, before), verified, D)
    BY <1>5, <2>1, SortedIs
  <2> QED
    BY <2>2 DEF Reorders
<1>7. Verify(hs, E) = [k \in D |-> verified[order[k]]]
  BY <1>3, <1>4, <1>6
<1> QED
  BY <1>2, <1>6, <1>7 DEF VerifiesAll

\* What run concludes from the provider's hypotheses.
Final(m, hs, E, g) ==
  IF m = "multi_agent" THEN Verify(Rank(hs, E, g), E) ELSE Rank(hs, E, g)

Named(hs, D) == {hs[k].service : k \in D}

\* A hypothesis that may be shown: what it cites is current, and if it is positive
\* it cites something, stronger than its opposition when it was verified.
Shown(h, m, E) ==
  /\ h \in Hyp /\ h.for \subseteq Current(E)
  /\ h.status \in Positive =>
       /\ h.for # {}
       /\ m = "multi_agent" /\ h.against # {} => Strongest(h.for) > Strongest(h.against)

LEMMA SameNames ==
  ASSUME NEW D, NEW new, NEW old,
         \A k \in D : \E j \in D : new[k].service = old[j].service,
         \A j \in D : \E k \in D : new[k].service = old[j].service
  PROVE  Named(new, D) = Named(old, D)
<1>1. ASSUME NEW s \in Named(new, D) PROVE s \in Named(old, D)
  <2>1. PICK k \in D : s = new[k].service
    BY Zenon DEF Named
  <2>2. PICK j \in D : s = old[j].service
    BY Zenon, <2>1
  <2> QED
    BY Zenon, <2>2 DEF Named
<1>2. ASSUME NEW s \in Named(old, D) PROVE s \in Named(new, D)
  <2>1. PICK j \in D : s = old[j].service
    BY Zenon DEF Named
  <2>2. PICK k \in D : s = new[k].service
    BY Zenon, <2>1
  <2> QED
    BY Zenon, <2>2 DEF Named
<1> QED
  BY Zenon, <1>1, <1>2

\* Whatever the provider proposes is shown once ranked and verified; a single agent's
\* is if it cites current evidence.  No service is lost and none is added.
LEMMA ConclusionIs ==
  ASSUME NEW D, Places(D), NEW hs \in [D -> Hyp],
         NEW E \in SUBSET Evidence, NEW g \in Scores, NEW m,
         m # "multi_agent" => \A k \in D : hs[k].for \subseteq Current(E)
  PROVE  /\ DOMAIN Final(m, hs, E, g) = D
         /\ \A k \in D : Shown(Final(m, hs, E, g)[k], m, E)
         /\ Named(Final(m, hs, E, g), D) = Named(hs, D)
<1>1. PICK ranked : ranked = Rank(hs, E, g)
  OBVIOUS
<1>2. /\ ranked \in [D -> Hyp]
      /\ \A k \in D : \E j \in D : ranked[k] = Ranked(hs[j], E, g)
      /\ \A j \in D : \E k \in D : ranked[k] = Ranked(hs[j], E, g)
  BY <1>1, RankIs
<1>3. \A h \in Hyp : Ranked(h, E, g).service = h.service
  BY RankedIs
<1>4. Named(ranked, D) = Named(hs, D)
  <2>1. ASSUME NEW j \in D PROVE \E k \in D : ranked[k].service = hs[j].service
    <3>1. PICK k \in D : ranked[k] = Ranked(hs[j], E, g)
      BY <1>2
    <3>2. hs[j] \in Hyp
      BY <1>2
    <3> QED
      BY Zenon, <1>3, <3>1, <3>2
  <2>2. ASSUME NEW k \in D PROVE \E j \in D : ranked[k].service = hs[j].service
    <3>1. PICK j \in D : ranked[k] = Ranked(hs[j], E, g)
      BY <1>2
    <3>2. hs[j] \in Hyp
      BY <1>2
    <3> QED
      BY Zenon, <1>3, <3>1, <3>2
  <2> QED
    BY Zenon, <2>1, <2>2, SameNames
<1>5. CASE m # "multi_agent"
  <2>1. Final(m, hs, E, g) = ranked
    BY <1>1, <1>5 DEF Final
  <2>2. ASSUME NEW k \in D PROVE Shown(ranked[k], m, E)
    <3>1. PICK j \in D : ranked[k] = Ranked(hs[j], E, g)
      BY <1>2
    <3>2. PICK h \in Hyp : h = hs[j]
      OBVIOUS
    <3>3. /\ Ranked(h, E, g).for = h.for
          /\ Ranked(h, E, g).status \in Positive => h.for # {}
      BY RankedIs
    <3>4. h.for \subseteq Current(E)
      BY <1>5, <3>2
    <3> QED
      BY <1>2, <1>5, <3>1, <3>2, <3>3, <3>4 DEF Shown
  <2> QED
    BY <1>2, <1>4, <2>1, <2>2
<1>6. CASE m = "multi_agent"
  <2>1. PICK final : final = Verify(ranked, E)
    OBVIOUS
  <2>2. Final(m, hs, E, g) = final
    BY <1>1, <1>6, <2>1 DEF Final
  <2>3. /\ final \in [D -> Hyp]
        /\ \A k \in D : \E j \in D : final[k] = Verified(ranked[j], E)
        /\ \A j \in D : \E k \in D : final[k] = Verified(ranked[j], E)
    <3>1. ranked \in [D -> Hyp]
      BY <1>2
    <3>2. VerifiesAll(final, ranked, D, E)
      BY <2>1, <3>1, VerifyIs
    <3> QED
      BY <3>2 DEF VerifiesAll
  <2>4. \A h \in Hyp : Verified(h, E).service = h.service
    BY VerifiedIs
  <2>5. Named(final, D) = Named(ranked, D)
    <3>1. ASSUME NEW j \in D PROVE \E k \in D : final[k].service = ranked[j].service
      <4>1. PICK k \in D : final[k] = Verified(ranked[j], E)
        BY <2>3
      <4>2. ranked[j] \in Hyp
        BY <1>2
      <4> QED
        BY Zenon, <2>4, <4>1, <4>2
    <3>2. ASSUME NEW k \in D PROVE \E j \in D : final[k].service = ranked[j].service
      <4>1. PICK j \in D : final[k] = Verified(ranked[j], E)
        BY <2>3
      <4>2. ranked[j] \in Hyp
        BY <1>2
      <4> QED
        BY Zenon, <2>4, <4>1, <4>2
    <3> QED
      BY Zenon, <3>1, <3>2, SameNames
  <2>6. \A h \in Hyp : Shown(Verified(h, E), m, E)
    BY VerifiedIs DEF Shown
  <2>7. \A k \in D : Shown(final[k], m, E)
    BY <1>2, <2>3, <2>6
  <2> QED
    BY <1>4, <2>2, <2>3, <2>5, <2>7
<1> QED
  BY <1>5, <1>6

\* A model's drafts, as hypotheses, cite evidence of the run only.
LEMMA ModelHypothesesAre ==
  ASSUME NEW drafts \in Drafts, NEW E \in SUBSET Evidence
  PROVE  /\ Places(DOMAIN drafts)
         /\ ModelHypotheses(drafts, E) \in [DOMAIN drafts -> Hyp]
         /\ \A k \in DOMAIN drafts : ModelHypotheses(drafts, E)[k].for \subseteq E
<1> DEFINE Draft == [service : Services \cup {0}, for : SUBSET Evidence,
                     against : SUBSET Evidence, confidence : Points,
                     status : HypothesisStatuses]
           D == DOMAIN drafts
<1>1. drafts \in Seq(Draft)
  BY RunAssumption
<1>2. Len(drafts) \in Nat /\ D = 1 .. Len(drafts) /\ \A k \in D : drafts[k] \in Draft
  <2> HIDE DEF Draft
  <2> QED BY <1>1
<1>3. Places(D)
  <2>1. PICK n \in Nat : n = Len(drafts)
    BY <1>2
  <2>2. 1 \in Int /\ n \in Int
    OBVIOUS
  <2>3. /\ IsFiniteSet(1 .. n)
        /\ Cardinality(1 .. n) = IF 1 > n THEN 0 ELSE n - 1 + 1
    BY <2>2, FS_Interval
  <2>4. IsFiniteSet(1 .. n) /\ Cardinality(1 .. n) = n
    BY <2>3
  <2> HIDE DEF D
  <2> QED
    BY <1>2, <2>1, <2>4 DEF Places
<1>4. ASSUME NEW k \in D
      PROVE  /\ ModelHypotheses(drafts, E)[k] \in Hyp
             /\ ModelHypotheses(drafts, E)[k].for \subseteq E
  <2>1. PICK d \in Draft : d = drafts[k]
    BY <1>2
  <2>2. PICK for \in SUBSET Evidence : for = d.for \cap E
    OBVIOUS
  <2>3. PICK c \in Int : c = IF for # {} THEN d.confidence ELSE Least(d.confidence, 2000)
    <3>1. d.confidence \in Int
      BY PointsAre
    <3> QED
      BY <3>1 DEF Least
  <2>4. PICK status \in HypothesisStatuses :
          status = IF d.status \in Positive /\ for = {} THEN "rejected" ELSE d.status
    BY DEF HypothesisStatuses
  <2>5. ModelHypotheses(drafts, E)[k] =
          Hypothesis(d.service, for, d.against \cap E, c, status)
    BY <2>1, <2>2, <2>3, <2>4 DEF ModelHypotheses
  <2> QED
    BY <2>1, <2>2, <2>5 DEF Hypothesis, Hyp
<1>5. ModelHypotheses(drafts, E) \in [D -> Hyp]
  <2>1. ModelHypotheses(drafts, E) = [k \in D |-> ModelHypotheses(drafts, E)[k]]
    BY DEF ModelHypotheses
  <2> QED
    BY <1>4, <2>1
<1> QED
  BY <1>3, <1>4, <1>5

\* The services that current evidence is about.
Suspects(E) == {s \in Services : About(Current(E), s) # {}}

LEMMA PlacesTo ==
  ASSUME NEW n \in Nat
  PROVE  Places(1 .. n) /\ IsFiniteSet(1 .. n) /\ Cardinality(1 .. n) = n
<1>1. 1 \in Int /\ n \in Int
  OBVIOUS
<1>2. /\ IsFiniteSet(1 .. n)
      /\ Cardinality(1 .. n) = IF 1 > n THEN 0 ELSE n - 1 + 1
  BY <1>1, FS_Interval
<1>3. Cardinality(1 .. n) = n
  BY <1>2
<1> QED
  BY <1>2, <1>3 DEF Places

\* The guess is one weak hypothesis that cites nothing.
LEMMA GuessIs ==
  ASSUME NEW E \in SUBSET Evidence
  PROVE  /\ Guess(E) \in [1 .. 1 -> Hyp]
         /\ \A k \in 1 .. 1 : Guess(E)[k].for = {}
<1> DEFINE priors == {x \in Historical(E) : x.service # 0}
           best == {x \in priors : x.confidence = Strongest(priors)}
           service == IF priors = {} THEN Affected ELSE (CHOOSE x \in best : TRUE).service
<1>1. priors \in SUBSET Evidence
  BY DEF Historical
<1>2. priors # {} => best # {}
  <2> SUFFICES ASSUME priors # {} PROVE best # {}
    OBVIOUS
  <2>1. PICK P \in SUBSET Points : P = {x.confidence : x \in priors}
    BY <1>1, EvidenceFields
  <2>2. PICK top : top = Max(P \cup {0})
    OBVIOUS
  <2>3. top \in P \cup {0} /\ \A c \in P : top >= c
    BY <2>2, GreatestPoint
  <2>4. PICK c \in P : TRUE
    BY <2>1
  <2>5. top \in P
    <3>1. CASE top = 0
      <4>1. \A p \in Points : 0 >= p => p = 0
        BY PointsAre
      <4>2. c = 0
        BY <2>3, <2>4, <3>1, <4>1
      <4> QED
        BY <2>4, <3>1, <4>2
    <3> QED
      BY <2>3, <3>1
  <2>6. PICK x \in priors : x.confidence = top
    BY <2>1, <2>5
  <2>7. Strongest(priors) = top
    BY <2>1, <2>2 DEF Strongest
  <2> QED
    BY <2>6, <2>7
<1>3. service \in Services \cup {0}
  <2>1. CASE priors = {}
    BY <2>1, EvidenceAssumption
  <2>2. CASE priors # {}
    <3>1. PICK x : x = CHOOSE y \in best : TRUE
      OBVIOUS
    <3>2. x \in best
      BY <1>2, <2>2, <3>1
    <3>3. x.service \in Services \cup {0}
      BY <1>1, <3>2, EvidenceFields
    <3>4. service = x.service
      BY <2>2, <3>1
    <3> QED
      BY <3>3, <3>4
  <2> QED
    BY <2>1, <2>2
<1>4. Guess(E) = <<Hypothesis(service, {}, {}, 500, "weak")>>
  BY DEF Guess
<1> HIDE DEF service
<1>5. PICK h : h = Hypothesis(service, {}, {}, 500, "weak")
  OBVIOUS
<1>6. h \in Hyp /\ h.for = {}
  BY <1>3, <1>5 DEF Hypothesis, Hyp, HypothesisStatuses
<1>7. Guess(E) = [k \in 1 .. 1 |-> h]
  BY <1>4, <1>5
<1> QED
  BY <1>6, <1>7

\* Suspects are ordered by their scores, then by their names.
LEMMA SuspectsAreOrdered ==
  ASSUME NEW E \in SUBSET Evidence
  PROVE  /\ IsFiniteSet(Suspects(E)) /\ Cardinality(Suspects(E)) \in Nat
         /\ Orders(Suspects(E), Stronger(E, Suspects(E)))
<1> DEFINE S == Suspects(E)
           score == [s \in S |-> Score(E, s)]
           before == Stronger(E, S)
<1>1. S \subseteq Services /\ IsFiniteSet(S) /\ Cardinality(S) \in Nat
  <2>1. S \subseteq Services
    BY DEF Suspects
  <2>2. IsFiniteSet(Services)
    BY EvidenceAssumption
  <2> HIDE DEF S
  <2>3. IsFiniteSet(S)
    BY <2>1, <2>2, FS_Subset
  <2> QED
    BY <2>1, <2>3, FS_CardinalityType
<1>2. \A s \in S : s \in Int /\ score[s] \in Int
  <2> HIDE DEF S
  <2> QED BY <1>1, ScoreType, EvidenceAssumption
<1>3. before = [s \in S |-> {t \in S : score[t] > score[s] \/ (score[t] = score[s] /\ t < s)}]
  BY DEF Stronger
<1> HIDE DEF S, score, before
<1>4. /\ before \in [S -> SUBSET S]
      /\ \A s, t \in S : t \in before[s] <=>
           score[t] > score[s] \/ (score[t] = score[s] /\ t < s)
  BY <1>3
<1>5. \A x \in S : x \notin before[x]
  BY <1>2, <1>4
<1>6. ASSUME NEW x \in S, NEW y \in S, NEW z \in S, y \in before[x], z \in before[y]
      PROVE  z \in before[x]
  <2>1. score[y] > score[x] \/ (score[y] = score[x] /\ y < x)
    BY <1>4, <1>6
  <2>2. score[z] > score[y] \/ (score[z] = score[y] /\ z < y)
    BY <1>4, <1>6
  <2>3. score[z] > score[x] \/ (score[z] = score[x] /\ z < x)
    BY <1>2, <2>1, <2>2
  <2> QED
    BY <1>4, <2>3
<1>7. \A x, y \in S : y \in before[x] => before[y] \subseteq before[x]
  BY <1>4, <1>6
<1>8. ASSUME NEW x \in S, NEW y \in S PROVE x = y \/ x \in before[y] \/ y \in before[x]
  <2>1. \/ x = y
        \/ score[x] > score[y] \/ (score[x] = score[y] /\ x < y)
        \/ score[y] > score[x] \/ (score[y] = score[x] /\ y < x)
    BY <1>2
  <2> QED
    BY <1>4, <2>1
<1>9. Orders(S, before)
  BY <1>4, <1>5, <1>7, <1>8 DEF Orders
<1> QED
  BY <1>1, <1>9 DEF S, before

\* Offline, the best five suspects have a hypothesis each, supported by the current
\* evidence about them.
LEMMA OfflineIs ==
  ASSUME NEW E \in SUBSET Evidence
  PROVE  \E D : /\ Places(D) /\ DeterministicHypotheses(E) \in [D -> Hyp]
                /\ \A k \in D : DeterministicHypotheses(E)[k].for \subseteq Current(E)
                /\ Suspects(E) # {} =>
                     Foremost(Named(DeterministicHypotheses(E), D), Suspects(E), E)
<1>1. CASE Suspects(E) = {}
  <2>1. DeterministicHypotheses(E) = Guess(E)
    BY <1>1 DEF DeterministicHypotheses, Suspects
  <2>2. Places(1 .. 1)
    BY PlacesTo
  <2> QED
    BY <1>1, <2>1, <2>2, GuessIs
<1>2. CASE Suspects(E) # {}
  <2> DEFINE S == Suspects(E)
             n == Least(5, Cardinality(S))
             before == Stronger(E, S)
             order == InOrder(S, before)
             D == 1 .. n
             hs == DeterministicHypotheses(E)
             Candidate(s) == Hypothesis(s, About(Current(E), s), {}, Score(E, s),
                               IF Score(E, s) >= 5500 THEN "supported" ELSE "weak")
  <2>1. /\ IsFiniteSet(S) /\ Cardinality(S) \in Nat /\ Orders(S, before)
    BY SuspectsAreOrdered
  <2>2. n \in Nat /\ n <= Cardinality(S)
    BY <2>1 DEF Least
  <2>3. hs = [k \in D |-> Candidate(order[k])]
    BY <1>2 DEF DeterministicHypotheses, Suspects
  <2>4. \A s \in S : Candidate(s) \in Hyp /\ Candidate(s).service = s
                     /\ Candidate(s).for \subseteq Current(E)
    <3> SUFFICES ASSUME NEW s \in S
                 PROVE  /\ Candidate(s) \in Hyp /\ Candidate(s).service = s
                        /\ Candidate(s).for \subseteq Current(E)
      OBVIOUS
    <3>1. s \in Services
      BY DEF Suspects
    <3>2. About(Current(E), s) \in SUBSET Evidence /\ About(Current(E), s) \subseteq Current(E)
      BY DEF About, Current
    <3>3. PICK c \in Int : c = Score(E, s)
      BY ScoreType
    <3>4. PICK status \in HypothesisStatuses :
            status = IF c >= 5500 THEN "supported" ELSE "weak"
      BY DEF HypothesisStatuses
    <3>5. Candidate(s) = Hypothesis(s, About(Current(E), s), {}, c, status)
      BY <3>3, <3>4
    <3> QED
      BY <3>1, <3>2, <3>5 DEF Hypothesis, Hyp
  <2>5. /\ \A k \in 1 .. Cardinality(S) : order[k] \in S
        /\ \A j, k \in 1 .. Cardinality(S) : order[j] = order[k] => j = k
        /\ \A s \in S : \E k \in 1 .. Cardinality(S) : order[k] = s
        /\ \A j, k \in 1 .. Cardinality(S) : order[j] \in before[order[k]] => j < k
    <3> HIDE DEF S, before
    <3> QED BY <2>1, InOrderIs
  <2>6. \A k \in D : k \in 1 .. Cardinality(S)
    <3> HIDE DEF n, S
    <3> QED BY <2>1, <2>2
  <2> HIDE DEF S, n, before, order, Candidate, hs
  <2>7. \A k \in D : order[k] \in S
    BY <2>5, <2>6
  <2>8. \A j, k \in D : order[j] = order[k] => j = k
    BY <2>5, <2>6
  <2>9. Places(D) /\ IsFiniteSet(D) /\ Cardinality(D) = n
    BY <2>2, PlacesTo
  <2> HIDE DEF D
  <2>10. hs \in [D -> Hyp] /\ \A k \in D : hs[k].service = order[k]
                             /\ hs[k].for \subseteq Current(E)
    BY <2>3, <2>4, <2>7
  <2>11. Named(hs, D) = {order[k] : k \in D}
    BY <2>10 DEF Named
  <2>12. Named(hs, D) \subseteq S
    BY <2>7, <2>11
  <2>13. Cardinality(Named(hs, D)) = n
    <3>1. PICK f : f = [k \in D |-> order[k]]
      OBVIOUS
    <3>2. f \in Surjection(D, Named(hs, D))
      BY <2>11, <3>1 DEF Surjection
    <3>3. \A j, k \in D : f[j] = f[k] => j = k
      BY <2>8, <3>1
    <3>4. Cardinality(Named(hs, D)) = Cardinality(D)
      <4>1. f \in Injection(D, Named(hs, D))
        BY <3>2, <3>3 DEF Surjection, Injection, IsInjective
      <4> QED
        BY <2>9, <3>2, <4>1, FS_Surjection
    <3> QED
      BY <2>9, <3>4
  <2>14. ASSUME NEW s \in Named(hs, D), NEW t \in S \ Named(hs, D)
         PROVE  Score(E, t) <= Score(E, s)
    <3>1. PICK k \in D : order[k] = s
      BY <2>11
    <3>2. PICK j \in 1 .. Cardinality(S) : order[j] = t
      BY <2>5
    <3>3. j \notin D
      BY <2>11, <2>14, <3>2
    <3>4. k \in 1 .. Cardinality(S) /\ ~ (j < k)
      BY <2>1, <2>2, <2>6, <3>1, <3>2, <3>3 DEF D
    <3>5. t \notin before[s]
      BY <2>5, <3>1, <3>2, <3>4
    <3>6. s \in S /\ t \in S
      BY <2>12
    <3>7. ~ (Score(E, t) > Score(E, s))
      BY <3>5, <3>6 DEF before, Stronger
    <3> QED
      BY <3>7, ScoreType
  <2> QED
    BY <2>9, <2>10, <2>12, <2>13, <2>14 DEF Foremost, hs, S, n
<1> QED
  BY <1>1, <1>2

---------------------------------------------------------------------------
(* The steps, and what the run has *)

\* What the tool plan costs.
LEMMA PlanIs ==
  /\ IsFiniteSet(ToolNames) /\ Cardinality(ToolNames) = 4
  /\ IsFiniteSet(Plan) /\ Cardinality(Plan) = RequiredTools
  /\ RequiredTools \in {4, 5} /\ ToolNames \subseteq Plan
<1> DEFINE T1 == {} \cup {"metrics"}
           T2 == T1 \cup {"traces"}
           T3 == T2 \cup {"logs"}
           T4 == T3 \cup {"changes"}
           T5 == T4 \cup {"memory"}
<1>1. \A S, x : IsFiniteSet(S) /\ x \notin S =>
        IsFiniteSet(S \cup {x}) /\ Cardinality(S \cup {x}) = Cardinality(S) + 1
  BY FS_AddElement
<1>2. IsFiniteSet({}) /\ Cardinality({}) = 0
  BY FS_EmptySet
<1>3. IsFiniteSet(T1) /\ Cardinality(T1) = 1
  BY <1>1, <1>2
<1>4. "traces" \notin T1 /\ "logs" \notin T2 /\ "changes" \notin T3 /\ "memory" \notin T4
  OBVIOUS
<1>5. ToolNames = T4 /\ Plan = IF UsesMemory THEN T5 ELSE T4
  BY DEF ToolNames, Plan
<1> HIDE DEF T1
<1>6. IsFiniteSet(T2) /\ Cardinality(T2) = 2
  BY <1>1, <1>3, <1>4
<1> HIDE DEF T2
<1>7. IsFiniteSet(T3) /\ Cardinality(T3) = 3
  BY <1>1, <1>4, <1>6
<1> HIDE DEF T3
<1>8. IsFiniteSet(T4) /\ Cardinality(T4) = 4
  BY <1>1, <1>4, <1>7
<1> HIDE DEF T4
<1>9. IsFiniteSet(T5) /\ Cardinality(T5) = 5
  BY <1>1, <1>4, <1>8
<1>10. T4 \subseteq T5
  OBVIOUS
<1> HIDE DEF T5
<1> QED
  BY <1>5, <1>8, <1>9, <1>10 DEF RequiredTools

LEMMA BudgetIs ==
  ASSUME NEW b \in Budgets
  PROVE  b.max_tool_calls \in Nat /\ b.max_llm_calls \in Nat /\ b.max_duration \in Nat
  BY RunAssumption

LEMMA InitBase == Init => Base
<1> SUFFICES ASSUME Init PROVE Base
  OBVIOUS
<1>1. NoGraph \in Scores
  BY PointsAre DEF NoGraph, Scores
<1>2. TypeOK
  BY <1>1 DEF Init, TypeOK, Waits
<1>3. Progress
  BY RunAssumption DEF Init, Progress, Waits
<1>4. Accounted
  BY DEF Init, Accounted, Current
<1> QED
  BY <1>2, <1>3, <1>4 DEF Base

LEMMA StartKeeps ==
  ASSUME Base, Start
  PROVE  Base'
<1>1. UNCHANGED <<provider, mode, budget, elapsed, audits, evidence, graph, posts>>
  BY DEF Start, input
<1>2. Plan' = Plan /\ RequiredTools' = RequiredTools /\ UsesMemory' = UsesMemory
  BY <1>1 DEF Plan, RequiredTools, UsesMemory
<1>3. \/ phase' = "returned"
      \/ phase' = "collecting" /\ result' = result /\ ~ (budget.max_tool_calls < RequiredTools)
  BY DEF Start, Exhausted, Return
<1>4. budget.max_tool_calls \in Nat /\ RequiredTools \in Nat
  BY BudgetIs, PlanIs DEF Base, TypeOK
<1>5. TypeOK'
  BY <1>1, <1>2, <1>3 DEF Base, TypeOK, Waits
<1>6. Progress'
  BY <1>1, <1>2, <1>3, <1>4 DEF Base, Progress, Waits, Start
<1>7. Accounted'
  BY <1>1, <1>2 DEF Base, Accounted
<1> QED
  BY <1>5, <1>6, <1>7 DEF Base

\* The tools that are not the memory find what is not history, and their calls
\* account for it.
LEMMA FindingsAre ==
  /\ \A k \in 1 .. 4 : Tools[k] \in ToolNames
  /\ \A tool \in ToolNames : \A x \in Findings(tool) : x \in Evidence /\ x.source # "memory"
  /\ Findings("memory") = Historical(Evidence)
<1>1. \A k \in 1 .. 4 : Tools[k] \in ToolNames
  BY DEF Tools, ToolNames
<1>2. \A tool \in ToolNames : \A x \in Findings(tool) : x \in Evidence /\ x.source # "memory"
  BY DEF ToolNames, Findings, From
<1>3. Findings("memory") = Historical(Evidence)
  BY DEF Findings, From, Historical, Current
<1> QED
  BY <1>1, <1>2, <1>3

LEMMA ToolReturnsKeeps ==
  ASSUME Base, NEW k \in 1 .. 4, NEW found \in SUBSET Findings(Tools[k]),
         NEW scores \in Graphs \cup {graph}, ToolReturns(k, found, scores)
  PROVE  Base'
<1>1. /\ UNCHANGED <<provider, mode, budget, elapsed, posts>>
      /\ phase = "collecting" /\ graph' = scores
      /\ audits' = audits \cup {Tools[k]} /\ evidence' = evidence \cup found
  BY DEF ToolReturns, input
<1>2. Plan' = Plan /\ RequiredTools' = RequiredTools /\ UsesMemory' = UsesMemory
  BY <1>1 DEF Plan, RequiredTools, UsesMemory
<1>3. audits' \subseteq ToolNames /\ audits' \subseteq Plan
  BY <1>1, FindingsAre, PlanIs DEF Base, Progress
<1>4. \/ phase' = "collecting" /\ result' = result
      \/ audits' = ToolNames /\ UsesMemory /\ phase' = "remembering" /\ result' = result
      \/ audits' = ToolNames /\ ~UsesMemory /\ phase' = "returned"
      \/ audits' = ToolNames /\ ~UsesMemory /\ phase' = "synthesizing" /\ result' = result
  <2>1. PICK calls : calls = audits'
    OBVIOUS
  <2>2. IsFiniteSet(calls) /\ Cardinality(calls) <= 4
        /\ (Cardinality(calls) = 4 => calls = ToolNames) /\ Cardinality(calls) \in Nat
    BY <1>3, <2>1, PlanIs, FS_Subset, FS_CardinalityType
  <2>3. Cardinality(calls) < 4 \/ calls = ToolNames
    BY <2>2
  <2>4. CASE Cardinality(calls) < 4
    BY <1>1, <2>1, <2>4 DEF ToolReturns
  <2>5. CASE ~ (Cardinality(calls) < 4)
    <3>1. \/ UsesMemory /\ phase' = "remembering" /\ result' = result
          \/ ~UsesMemory /\ phase' = "returned"
          \/ ~UsesMemory /\ phase' = "synthesizing" /\ result' = result
      BY <2>1, <2>5 DEF ToolReturns, GoOnToSynthesis, Exhausted, Return
    <3> QED
      BY <2>1, <2>3, <2>5, <3>1
  <2> QED
    BY <2>4, <2>5
<1>5. found \subseteq Evidence /\ \A x \in found : x.source # "memory"
  BY FindingsAre
<1>6. scores \in Scores
  BY RunAssumption DEF Base, TypeOK, Scores
<1>7. ~UsesMemory => Plan = ToolNames
  BY DEF Plan
<1>8. TypeOK'
  BY <1>1, <1>2, <1>3, <1>4, <1>5, <1>6 DEF Base, TypeOK, Waits
<1>9. Progress'
  BY <1>1, <1>2, <1>3, <1>4, <1>7, RunAssumption DEF Base, Progress, Waits
<1>10. Accounted'
  <2>1. evidence' \subseteq Audited(audits')
    BY <1>1 DEF Base, Accounted, Audited
  <2>2. ~UsesMemory => evidence' = Current(evidence')
    BY <1>1, <1>5 DEF Base, Accounted, Current
  <2> QED
    BY <1>2, <2>1, <2>2 DEF Accounted
<1> QED
  BY <1>8, <1>9, <1>10 DEF Base

LEMMA MemoryReturnsKeeps ==
  ASSUME Base, NEW found \in SUBSET Historical(Evidence), MemoryReturns(found)
  PROVE  Base'
<1>1. /\ UNCHANGED <<provider, mode, budget, elapsed, graph, posts>>
      /\ phase = "remembering"
      /\ audits' = audits \cup {"memory"} /\ evidence' = evidence \cup found
  BY DEF MemoryReturns, input
<1>2. Plan' = Plan /\ RequiredTools' = RequiredTools /\ UsesMemory' = UsesMemory
  BY <1>1 DEF Plan, RequiredTools, UsesMemory
<1>3. UsesMemory /\ audits' = Plan
  BY <1>1 DEF Base, Progress, Plan
<1>4. phase' = "returned" \/ (phase' = "synthesizing" /\ result' = result)
  BY DEF MemoryReturns, GoOnToSynthesis, Exhausted, Return
<1>5. found \subseteq Evidence
  BY DEF Historical
<1>6. TypeOK'
  BY <1>1, <1>2, <1>3, <1>4, <1>5 DEF Base, TypeOK, Waits
<1>7. Progress'
  BY <1>1, <1>2, <1>3, <1>4, RunAssumption DEF Base, Progress, Waits
<1>8. Accounted'
  <2>1. evidence' \subseteq Audited(audits')
    BY <1>1, FindingsAre DEF Base, Accounted, Audited
  <2> QED
    BY <1>2, <1>3, <2>1 DEF Accounted
<1> QED
  BY <1>6, <1>7, <1>8 DEF Base

\* The other steps gather nothing.
LEMMA OthersKeep ==
  ASSUME Base, UNCHANGED <<provider, mode, budget, audits, evidence, graph>>,
         elapsed' \in Nat, posts' \in Nat,
         \/ phase' \in {"returned", "raised"} /\ phase # "starting" /\ posts' = posts
         \/ /\ phase' \in Waits /\ result' = result
            /\ \/ phase' = phase /\ posts' = posts
               \/ phase = "synthesizing" /\ phase' = "asking" /\ posts' = posts + 1
                  /\ provider = "openai"
               \/ phase = "asking" /\ phase' = "synthesizing" /\ posts' = posts
                  /\ posts <= MaxRetries
  PROVE  Base'
<1>1. Plan' = Plan /\ RequiredTools' = RequiredTools /\ UsesMemory' = UsesMemory
  BY DEF Plan, RequiredTools, UsesMemory
<1>2. TypeOK'
  BY <1>1 DEF Base, TypeOK, Waits
<1>3. Progress'
  BY <1>1, RunAssumption DEF Base, TypeOK, Progress, Waits
<1>4. Accounted'
  BY <1>1 DEF Base, Accounted
<1> QED
  BY <1>2, <1>3, <1>4 DEF Base

---------------------------------------------------------------------------
(* The steps, and what the run promises *)

\* The plan fits the budget of a run that called any of it.
CostsKept == Cardinality(audits) <= budget.max_tool_calls /\ posts <= MaxRetries + 1

LEMMA CostsAreKept == Base => CostsKept
<1> SUFFICES ASSUME Base PROVE CostsKept
  OBVIOUS
<1>1. posts <= MaxRetries + 1
  BY DEF Base, Progress
<1>2. budget.max_tool_calls \in Nat
  BY BudgetIs DEF Base, TypeOK
<1>3. Cardinality(audits) <= budget.max_tool_calls
  <2>1. CASE audits = {}
    BY <1>2, <2>1, FS_EmptySet
  <2>2. CASE audits # {}
    <3>1. RequiredTools <= budget.max_tool_calls
      BY <2>2 DEF Base, Progress
    <3>2. audits \in SUBSET Plan
      BY DEF Base, TypeOK
    <3>3. IsFiniteSet(audits) /\ Cardinality(audits) <= RequiredTools
      BY <3>2, PlanIs, FS_Subset
    <3>4. Cardinality(audits) \in Nat /\ RequiredTools \in Nat
      BY <3>3, PlanIs, FS_CardinalityType
    <3> QED
      BY <1>2, <3>1, <3>3, <3>4
  <2> QED
    BY <2>1, <2>2
<1> QED
  BY <1>1, <1>3 DEF CostsKept

LEMMA CostsAreKeptNext == Base' => CostsKept'
  BY CostsAreKept, PTL

\* A run that has not returned anything breaks no promise.
LEMMA NothingReturned ==
  ASSUME Base', result' = None
  PROVE  Promises'
  BY CostsAreKeptNext
     DEF CostsKept, Promises, PositiveIsGrounded, SupportOutweighsOpposition, BudgetsAreKept,
         SuspectsAreHeard

\* Nor does one that has exhausted its budget before it had hypotheses.
LEMMA ExhaustedIsHonest ==
  ASSUME Base', NEW found, NEW calls, Exhausted(found, calls)
  PROVE  Promises'
<1>1. result'.hypotheses = <<>> /\ result'.status = "budget_exhausted"
  BY DEF Exhausted, Return
<1>2. DOMAIN result'.hypotheses = {}
  BY <1>1
<1> QED
  BY <1>1, <1>2, CostsAreKeptNext
     DEF CostsKept, Promises, PositiveIsGrounded, SupportOutweighsOpposition, BudgetsAreKept,
         SuspectsAreHeard

\* Hypotheses that are shown keep the promises, a late conclusion included.
LEMMA ConclusionIsHonest ==
  ASSUME Base, Base', UNCHANGED <<provider, mode, budget, elapsed, audits, evidence>>,
         phase \in {"synthesizing", "asking"},
         NEW D, Places(D), NEW hs \in [D -> Hyp],
         \A k \in D : hs[k].for \subseteq evidence,
         provider = "deterministic" /\ Suspects(evidence) # {} =>
           Foremost(Named(hs, D), Suspects(evidence), evidence),
         Conclude(hs)
  PROVE  Promises'
<1>1. PICK E \in SUBSET Evidence : E = evidence
  BY DEF Base, TypeOK
<1>2. PICK m : m = mode
  OBVIOUS
<1>3. PICK g \in Scores : g = graph
  BY DEF Base, TypeOK
<1>4. PICK final : final = Final(m, hs, E, g)
  OBVIOUS
<1>5. m # "multi_agent" => \A k \in D : hs[k].for \subseteq Current(E)
  <2> SUFFICES ASSUME m # "multi_agent" PROVE \A k \in D : hs[k].for \subseteq Current(E)
    OBVIOUS
  <2>1. ~ UsesMemory
    BY <1>2 DEF UsesMemory
  <2>2. Current(E) = E
    BY <1>1, <2>1 DEF Base, Accounted
  <2> QED
    BY <1>1, <2>2
<1>6. /\ DOMAIN final = D /\ \A k \in D : Shown(final[k], m, E)
      /\ Named(final, D) = Named(hs, D)
  BY <1>4, <1>5, ConclusionIs
<1>7. PICK status : status = IF elapsed > budget.max_duration
                             THEN "budget_exhausted" ELSE "completed"
  OBVIOUS
<1>8. result' = [status |-> status, evidence |-> E, audits |-> audits, hypotheses |-> final]
  BY <1>1, <1>2, <1>3, <1>4, <1>7 DEF Conclude, Return, Final
<1>9. PositiveIsGrounded'
  BY <1>6, <1>8 DEF PositiveIsGrounded, Shown
<1>10. SupportOutweighsOpposition'
  BY <1>2, <1>6, <1>8 DEF SupportOutweighsOpposition, Shown
<1>11. BudgetsAreKept'
  <2>1. elapsed \in Nat /\ budget.max_duration \in Nat
    BY BudgetIs DEF Base, TypeOK
  <2>2. status = "completed" => elapsed <= budget.max_duration
    BY <1>7, <2>1
  <2>3. audits = Plan /\ evidence \subseteq Audited(audits)
    BY DEF Base, Progress, Accounted
  <2>4. Cardinality(audits) = RequiredTools
    BY <2>3, PlanIs
  <2>5. RequiredTools' = RequiredTools
    BY DEF RequiredTools, UsesMemory
  <2>6. /\ result'.status = status /\ result'.evidence = evidence
        /\ result'.audits = audits
    BY <1>1, <1>8
  <2> QED
    BY <2>2, <2>3, <2>4, <2>5, <2>6, CostsAreKeptNext DEF CostsKept, BudgetsAreKept
<1>12. SuspectsAreHeard'
  <2>1. PICK names : names = Named(final, D)
    OBVIOUS
  <2>2. {result'.hypotheses[k].service : k \in DOMAIN result'.hypotheses} = names
    BY <1>6, <1>8, <2>1 DEF Named
  <2>3. {s \in Services : About(Current(result'.evidence), s) # {}} = Suspects(E)
    BY <1>8 DEF Suspects
  <2>4. provider' = "deterministic" /\ Suspects(E) # {} =>
          Foremost(names, Suspects(E), E)
    BY <1>1, <1>6, <2>1
  <2>5. result'.evidence = E
    BY <1>8
  <2> QED
    BY <2>2, <2>3, <2>4, <2>5 DEF SuspectsAreHeard
<1> QED
  BY <1>9, <1>10, <1>11, <1>12 DEF Promises

---------------------------------------------------------------------------
(* The invariant, and the theorems *)

LEMMA InitInv == Init => IInv
<1> SUFFICES ASSUME Init PROVE IInv
  OBVIOUS
<1>1. Base
  BY InitBase
<1>2. result = None /\ CostsKept
  BY <1>1, CostsAreKept DEF Init
<1> QED
  BY <1>1, <1>2
     DEF IInv, CostsKept, Promises, PositiveIsGrounded, SupportOutweighsOpposition,
         BudgetsAreKept, SuspectsAreHeard

\* While the run waits, it has returned nothing.
LEMMA WaitingIsHonest ==
  ASSUME Base', phase' \in Waits
  PROVE  Promises'
<1>1. result' = None
  BY DEF Base, Progress
<1> QED
  BY <1>1, NothingReturned

\* An error of the memory or the model is the run's, which returns nothing.
LEMMA RaisingIsHonest ==
  ASSUME Base, phase \in Waits, Raise,
         UNCHANGED <<input, elapsed, audits, evidence, graph, posts>>
  PROVE  Base' /\ Promises'
<1>1. UNCHANGED <<provider, mode, budget, elapsed, audits, evidence, graph, posts>>
  BY DEF input
<1>2. phase' = "raised" /\ result' = None /\ phase # "starting"
  BY DEF Raise, Base, Progress, Waits
<1>3. elapsed' \in Nat /\ posts' \in Nat
  BY <1>1 DEF Base, TypeOK
<1>4. Base'
  BY <1>1, <1>2, <1>3, OthersKeep
<1> QED
  BY <1>2, <1>4, NothingReturned

\* A budget that runs out while the run waits.
LEMMA TimingOutIsHonest ==
  ASSUME Base, phase \in Waits, NEW found, NEW calls, Exhausted(found, calls),
         UNCHANGED <<input, elapsed, audits, evidence, graph, posts>>
  PROVE  Base' /\ Promises'
<1>1. UNCHANGED <<provider, mode, budget, elapsed, audits, evidence, graph, posts>>
  BY DEF input
<1>2. phase' = "returned" /\ phase # "starting"
  BY DEF Exhausted, Return, Waits
<1>3. elapsed' \in Nat /\ posts' \in Nat
  BY <1>1 DEF Base, TypeOK
<1>4. Base'
  BY <1>1, <1>2, <1>3, OthersKeep
<1> QED
  BY <1>4, ExhaustedIsHonest

\* The provider's hypotheses, offline or the model's.
LEMMA ConcludingIsHonest ==
  ASSUME Base, phase \in {"synthesizing", "asking"},
         NEW D, Places(D), NEW hs \in [D -> Hyp],
         \A k \in D : hs[k].for \subseteq evidence,
         provider = "deterministic" /\ Suspects(evidence) # {} =>
           Foremost(Named(hs, D), Suspects(evidence), evidence),
         Conclude(hs), UNCHANGED <<input, elapsed, audits, evidence, graph, posts>>
  PROVE  Base' /\ Promises'
<1>1. UNCHANGED <<provider, mode, budget, elapsed, audits, evidence, graph, posts>>
  BY DEF input
<1>2. phase' = "returned" /\ phase # "starting"
  BY DEF Conclude, Return
<1>3. elapsed' \in Nat /\ posts' \in Nat
  BY <1>1 DEF Base, TypeOK
<1>4. Base'
  BY <1>1, <1>2, <1>3, OthersKeep
<1> QED
  BY <1>1, <1>4, ConclusionIsHonest

LEMMA StepInv == IInv /\ [Next]_vars => IInv'
<1> SUFFICES ASSUME Base, Promises, [Next]_vars PROVE Base' /\ Promises'
  BY DEF IInv
<1>1. CASE Start
  <2>1. Base'
    BY <1>1, StartKeeps
  <2>2. Exhausted({}, {}) \/ phase' \in Waits
    BY <1>1 DEF Start, Waits
  <2> QED
    BY <2>1, <2>2, ExhaustedIsHonest, WaitingIsHonest
<1>2. ASSUME NEW k \in 1 .. 4, NEW found \in SUBSET Findings(Tools[k]),
             NEW scores \in Graphs \cup {graph}, ToolReturns(k, found, scores)
      PROVE  Base' /\ Promises'
  <2>1. Base'
    BY <1>2, ToolReturnsKeeps
  <2>2. Exhausted(evidence', audits') \/ phase' \in Waits
    BY <1>2 DEF ToolReturns, GoOnToSynthesis, Waits
  <2>3. Exhausted(evidence', audits') => Promises'
    <3> SUFFICES ASSUME Exhausted(evidence', audits') PROVE Promises'
      OBVIOUS
    <3>1. PICK E, calls : E = evidence' /\ calls = audits'
      OBVIOUS
    <3>2. Exhausted(E, calls)
      BY <3>1 DEF Exhausted, Return
    <3> QED
      BY <2>1, <3>2, ExhaustedIsHonest
  <2> QED
    BY <2>1, <2>2, <2>3, WaitingIsHonest
<1>3. ASSUME NEW found \in SUBSET Historical(Evidence), MemoryReturns(found)
      PROVE  Base' /\ Promises'
  <2>1. Base'
    BY <1>3, MemoryReturnsKeeps
  <2>2. Exhausted(evidence', audits') \/ phase' \in Waits
    BY <1>3 DEF MemoryReturns, GoOnToSynthesis, Waits
  <2>3. Exhausted(evidence', audits') => Promises'
    <3> SUFFICES ASSUME Exhausted(evidence', audits') PROVE Promises'
      OBVIOUS
    <3>1. PICK E, calls : E = evidence' /\ calls = audits'
      OBVIOUS
    <3>2. Exhausted(E, calls)
      BY <3>1 DEF Exhausted, Return
    <3> QED
      BY <2>1, <3>2, ExhaustedIsHonest
  <2> QED
    BY <2>1, <2>2, <2>3, WaitingIsHonest
<1>4. CASE Timeout \/ MemoryTimesOut
  <2>1. PICK E, calls : E = evidence /\ calls = audits
    OBVIOUS
  <2>2. phase \in Waits
    BY <1>4 DEF Timeout, CollectionTimeout, MemoryTimeout, MemoryTimesOut, SynthesisTimeout, Waits
  <2>3. UNCHANGED <<input, elapsed, audits, evidence, graph, posts>>
    BY <1>4 DEF Timeout, CollectionTimeout, MemoryTimeout, MemoryTimesOut, SynthesisTimeout
  <2>4. Exhausted({}, {}) \/ Exhausted(E, {}) \/ Exhausted(E, calls)
    BY <1>4, <2>1
       DEF Timeout, CollectionTimeout, MemoryTimeout, MemoryTimesOut, SynthesisTimeout, Exhausted, Return
  <2> QED
    BY <2>2, <2>3, <2>4, TimingOutIsHonest
<1>5. CASE MemoryRaises \/ ModelRaises
  <2>1. /\ phase \in Waits /\ Raise
        /\ UNCHANGED <<input, elapsed, audits, evidence, graph, posts>>
    BY <1>5 DEF MemoryRaises, ModelRaises, Waits
  <2> QED
    BY <2>1, RaisingIsHonest
<1>6. CASE SynthesizeOffline
  <2>1. PICK E \in SUBSET Evidence : E = evidence
    BY DEF Base, TypeOK
  <2>2. PICK hs : hs = DeterministicHypotheses(E)
    OBVIOUS
  <2>3. /\ phase \in {"synthesizing", "asking"} /\ Conclude(hs)
        /\ UNCHANGED <<input, elapsed, audits, evidence, graph, posts>>
    BY <1>6, <2>1, <2>2 DEF SynthesizeOffline
  <2>4. PICK D : /\ Places(D) /\ hs \in [D -> Hyp]
                 /\ \A k \in D : hs[k].for \subseteq Current(E)
                 /\ Suspects(E) # {} =>
                      Foremost(Named(hs, D), Suspects(E), E)
    BY <2>2, OfflineIs
  <2>5. \A k \in D : hs[k].for \subseteq evidence
    BY <2>1, <2>4 DEF Current
  <2> QED
    BY <2>1, <2>3, <2>4, <2>5, ConcludingIsHonest
<1>7. CASE Post
  <2>1. /\ UNCHANGED <<provider, mode, budget, audits, evidence, graph>>
        /\ elapsed' \in Nat /\ posts' \in Nat
    BY <1>7 DEF Post, input, Base, TypeOK
  <2>2. /\ phase = "synthesizing" /\ phase' = "asking" /\ phase' \in Waits
        /\ posts' = posts + 1 /\ result' = result /\ provider = "openai"
    BY <1>7 DEF Post, Waits
  <2>3. Base'
    BY <2>1, <2>2, OthersKeep
  <2> QED
    BY <2>2, <2>3, WaitingIsHonest
<1>8. CASE Retry
  <2>1. /\ UNCHANGED <<provider, mode, budget, audits, evidence, graph>>
        /\ elapsed' \in Nat /\ posts' \in Nat
    BY <1>8 DEF Retry, input, Base, TypeOK
  <2>2. /\ phase = "asking" /\ phase' = "synthesizing" /\ phase' \in Waits
        /\ posts' = posts /\ posts <= MaxRetries /\ result' = result
    BY <1>8 DEF Retry, Waits
  <2>3. Base'
    BY <2>1, <2>2, OthersKeep
  <2> QED
    BY <2>2, <2>3, WaitingIsHonest
<1>9. ASSUME NEW drafts \in Drafts, ModelAnswers(drafts)
      PROVE  Base' /\ Promises'
  <2>1. PICK E \in SUBSET Evidence : E = evidence
    BY DEF Base, TypeOK
  <2>2. PICK hs : hs = ModelHypotheses(drafts, E)
    OBVIOUS
  <2>3. /\ phase \in {"synthesizing", "asking"} /\ Conclude(hs)
        /\ UNCHANGED <<input, elapsed, audits, evidence, graph, posts>>
    BY <1>9, <2>1, <2>2 DEF ModelAnswers
  <2>4. PICK D : /\ Places(D) /\ hs \in [D -> Hyp]
                 /\ \A k \in D : hs[k].for \subseteq evidence
    BY <2>1, <2>2, ModelHypothesesAre
  <2>5. provider # "deterministic"
    BY <1>9 DEF ModelAnswers, Base, Progress
  <2> QED
    BY <2>3, <2>4, <2>5, ConcludingIsHonest
<1>10. CASE Tick
  <2>1. /\ UNCHANGED <<provider, mode, budget, audits, evidence, graph>>
        /\ elapsed' \in Nat /\ posts' \in Nat
    BY <1>10 DEF Tick, input, Base, TypeOK
  <2>2. phase' = phase /\ posts' = posts /\ phase' \in Waits /\ result' = result
    BY <1>10 DEF Tick, Waits
  <2>3. Base'
    BY <2>1, <2>2, OthersKeep
  <2> QED
    BY <2>2, <2>3, WaitingIsHonest
<1>11. CASE UNCHANGED vars
  <2>1. /\ UNCHANGED <<provider, mode, budget, phase, elapsed, audits, evidence, graph>>
        /\ UNCHANGED <<posts, result>>
    BY <1>11 DEF vars, input
  <2>2. Plan' = Plan /\ RequiredTools' = RequiredTools /\ UsesMemory' = UsesMemory
    BY <2>1 DEF Plan, RequiredTools, UsesMemory
  <2>3. Base'
    BY <2>1, <2>2 DEF Base, TypeOK, Progress, Accounted
  <2>4. Promises'
    BY <2>1, <2>2 DEF Promises, PositiveIsGrounded, SupportOutweighsOpposition,
                      BudgetsAreKept, SuspectsAreHeard
  <2> QED
    BY <2>3, <2>4
<1> QED
  BY <1>1, <1>2, <1>3, <1>4, <1>5, <1>6, <1>7, <1>8, <1>9, <1>10, <1>11 DEF Next

LEMMA RunInvariant == Spec => []IInv
  BY InitInv, StepInv, PTL DEF Spec

\* What a returned hypothesis cites in its favour is current evidence that the result
\* holds, and a positive one cites some: for every evidence, graph and answer of a
\* model, in both modes (the verifier, and the ranker's "weak" for what cites nothing).
THEOREM ClaimsAreGrounded == Spec => []PositiveIsGrounded
<1>1. IInv => PositiveIsGrounded
  BY DEF IInv, Promises
<1> QED
  BY <1>1, RunInvariant, PTL

\* Several agents conclude nothing positive that known evidence opposes as strongly.
THEOREM SupportWins == Spec => []SupportOutweighsOpposition
<1>1. IInv => SupportOutweighsOpposition
  BY DEF IInv, Promises
<1> QED
  BY <1>1, RunInvariant, PTL

\* No run exceeds its budgets of tools and requests, whatever they are, and one that
\* counts as completed kept its time, used its whole plan and accounts for what it found.
THEOREM RunsKeepBudgets == Spec => []BudgetsAreKept
<1>1. IInv => BudgetsAreKept
  BY DEF IInv, Promises
<1> QED
  BY <1>1, RunInvariant, PTL

\* Offline, ranking and verification return the provider's five best suspects, and
\* none with a higher score is left out, for any number of services.
THEOREM NoSuspectIsLost == Spec => []SuspectsAreHeard
<1>1. IInv => SuspectsAreHeard
  BY DEF IInv, Promises
<1> QED
  BY <1>1, RunInvariant, PTL
=============================================================================
