---------------------------- MODULE EvidenceProofs ----------------------------
(***************************************************************************)
(* Proofs about EvidenceTools, for any signals, answers of the backends,   *)
(* windows and limits.  What a tool's audit says of it is what its queries *)
(* came to, in whatever order they end, fail or are cut off.  And of       *)
(* usable answers each tool makes the evidence of the symptoms they show,  *)
(* of all of them and of nothing else: a lemma per tool says so, Complete  *)
(* is the fact, and the invariant ObservationInv brings it to the states.  *)
(***************************************************************************)
EXTENDS EvidenceTools, FiniteSetTheorems, SequenceTheorems, WellFoundedInduction, TLAPS

---------------------------------------------------------------------------
(* Lemmas about orders *)

\* before[x] are the members of S that a strict total order puts before x.
Orders(S, before) ==
  /\ before \in [S -> SUBSET S]
  /\ \A x \in S : x \notin before[x]
  /\ \A x, y \in S : y \in before[x] => before[y] \subseteq before[x]
  /\ \A x, y \in S : x = y \/ x \in before[y] \/ y \in before[x]

\* The members of a finite set have one place each: how many come before them says
\* where they are, no two have as many, so that all places are taken.
LEMMA InOrderIs ==
  ASSUME NEW S, IsFiniteSet(S), NEW before, Orders(S, before)
  PROVE  /\ Cardinality(S) \in Nat
         /\ \A n \in 1 .. Cardinality(S) : InOrder(S, before)[n] \in S
         /\ \A m, n \in 1 .. Cardinality(S) :
              InOrder(S, before)[m] = InOrder(S, before)[n] => m = n
         /\ \A x \in S : \E n \in 1 .. Cardinality(S) : InOrder(S, before)[n] = x
         /\ \A m, n \in 1 .. Cardinality(S) :
              InOrder(S, before)[m] \in before[InOrder(S, before)[n]] => m < n
<1> DEFINE N == Cardinality(S)
           place == [x \in S |-> Cardinality(before[x]) + 1]
<1>1. N \in Nat
  BY FS_CardinalityType
<1>2. ASSUME NEW x \in S
      PROVE  /\ IsFiniteSet(before[x]) /\ Cardinality(before[x]) \in Nat
             /\ Cardinality(before[x]) + 1 <= N
  <2>1. before[x] \in SUBSET (S \ {x})
    BY DEF Orders
  <2>2. IsFiniteSet(S \ {x}) /\ Cardinality(S \ {x}) = N - 1
    BY FS_RemoveElement
  <2>3. IsFiniteSet(before[x]) /\ Cardinality(before[x]) <= N - 1
    BY <2>1, <2>2, FS_Subset
  <2>4. Cardinality(before[x]) \in Nat
    BY <2>3, FS_CardinalityType
  <2> QED
    BY <1>1, <2>3, <2>4
<1>3. \A x \in S : place[x] \in 1 .. N /\ place[x] = Cardinality(before[x]) + 1
  BY <1>1, <1>2
<1>4. ASSUME NEW x \in S, NEW y \in S, x \in before[y]
      PROVE  Cardinality(before[x]) < Cardinality(before[y])
  <2>1. before[x] \in SUBSET (before[y] \ {x})
    BY <1>4 DEF Orders
  <2>2. /\ IsFiniteSet(before[y] \ {x})
        /\ Cardinality(before[y] \ {x}) = Cardinality(before[y]) - 1
    BY <1>2, <1>4, FS_RemoveElement
  <2>3. Cardinality(before[x]) <= Cardinality(before[y]) - 1
    BY <2>1, <2>2, FS_Subset
  <2> QED
    BY <1>2, <2>3
<1>5. \A x, y \in S : place[x] = place[y] => x = y
  <2> SUFFICES ASSUME NEW x \in S, NEW y \in S, place[x] = place[y], x # y PROVE FALSE
    OBVIOUS
  <2>1. Cardinality(before[x]) = Cardinality(before[y])
    BY <1>2, <1>3
  <2>2. x \in before[y] \/ y \in before[x]
    BY DEF Orders
  <2>3. \/ Cardinality(before[x]) < Cardinality(before[y])
        \/ Cardinality(before[y]) < Cardinality(before[x])
    BY <1>4, <2>2
  <2> QED
    BY <1>2, <2>1, <2>3
<1>6. place \in [S -> 1 .. N]
  BY <1>3
<1> HIDE DEF place
<1>7. place \in Injection(S, 1 .. N)
  BY <1>5, <1>6 DEF Injection, IsInjective
<1>8. IsFiniteSet(1 .. N) /\ Cardinality(1 .. N) = N
  <2>1. 1 \in Int /\ N \in Int
    BY <1>1
  <2> HIDE DEF N
  <2>2. /\ IsFiniteSet(1 .. N)
        /\ Cardinality(1 .. N) = IF 1 > N THEN 0 ELSE N - 1 + 1
    BY <2>1, FS_Interval
  <2> QED
    BY <1>1, <2>2
<1>9. place \in Surjection(S, 1 .. N)
  BY <1>7, <1>8, FS_Injection
<1>10. ASSUME NEW n \in 1 .. N
       PROVE  InOrder(S, before)[n] \in S /\ place[InOrder(S, before)[n]] = n
  <2>1. PICK x \in S : place[x] = n
    BY <1>9 DEF Surjection
  <2>2. Cardinality(before[x]) = n - 1
    BY <1>1, <1>2, <1>3, <2>1
  <2>3. InOrder(S, before)[n] = CHOOSE y \in S : Cardinality(before[y]) = n - 1
    BY DEF InOrder
  <2>4. /\ InOrder(S, before)[n] \in S
        /\ Cardinality(before[InOrder(S, before)[n]]) = n - 1
    BY <2>2, <2>3
  <2> QED
    BY <1>1, <1>3, <2>4
<1>11. \A m, n \in 1 .. N : InOrder(S, before)[m] = InOrder(S, before)[n] => m = n
  BY <1>10
<1>12. ASSUME NEW x \in S PROVE \E n \in 1 .. N : InOrder(S, before)[n] = x
  <2>1. place[x] \in 1 .. N
    BY <1>3
  <2>2. InOrder(S, before)[place[x]] = x
    BY <1>5, <1>10, <2>1
  <2> QED
    BY <2>1, <2>2
<1>13. ASSUME NEW m \in 1 .. N, NEW n \in 1 .. N,
              InOrder(S, before)[m] \in before[InOrder(S, before)[n]]
       PROVE  m < n
  <2>1. PICK x \in S, y \in S : x = InOrder(S, before)[m] /\ y = InOrder(S, before)[n]
    BY <1>10
  <2>2. place[x] = m /\ place[y] = n
    BY <1>10, <2>1
  <2>3. Cardinality(before[x]) < Cardinality(before[y])
    BY <1>4, <1>13, <2>1
  <2> QED
    BY <1>2, <1>3, <2>2, <2>3
<1> QED
  BY <1>1, <1>10, <1>11, <1>12, <1>13


\* A set of naturals has a least element.
LEMMA LeastNatural ==
  ASSUME NEW S \in SUBSET Nat, S # {}
  PROVE  \E m \in S : \A x \in S : m <= x
<1>1. \A x, y \in Nat : x < y => <<x, y>> \in OpToRel(<, Nat)
  <2>1. OpToRel(<, Nat) = {ss \in Nat \X Nat : ss[1] < ss[2]}
    BY Zenon DEF OpToRel
  <2>2. \A x, y \in Nat : x < y => <<x, y>> \in {ss \in Nat \X Nat : ss[1] < ss[2]}
    OBVIOUS
  <2> QED
    BY Zenon, <2>1, <2>2
<1>2. \E m \in S : \A x \in S : ~ (<<x, m>> \in OpToRel(<, Nat))
  BY Zenon, WFMin, NatLessThanWellFounded
<1>3. \E m \in S : \A x \in S : ~ (x < m)
  BY Zenon, <1>1, <1>2
<1> QED
  BY <1>3

LEMMA MinIs ==
  ASSUME NEW S \in SUBSET Nat, S # {}
  PROVE  Min(S) \in S /\ \A x \in S : Min(S) <= x
BY LeastNatural DEF Min

\* A finite set of integers has a greatest and a least element: of the smallest set
\* without one, all but one member would have one.
LEMMA MaxIs ==
  ASSUME NEW S \in SUBSET Int, IsFiniteSet(S), S # {}
  PROVE  Max(S) \in S /\ \A x \in S : x <= Max(S)
<1> DEFINE Bounded(X) == \E m \in X : \A x \in X : x <= m
           T == {X \in SUBSET S : X # {} /\ ~Bounded(X)}
<1>1. T = {}
  <2> SUFFICES ASSUME T # {} PROVE FALSE
    OBVIOUS
  <2>1. IsWellFoundedOn(StrictSubsetOrdering(S), SUBSET S)
    BY FS_StrictSubsetOrderingWellFounded, FS_FiniteSubsetsOfFinite
  <2>2. PICK X \in T : \A Y \in T : <<Y, X>> \notin StrictSubsetOrdering(S)
    <3> HIDE DEF T
    <3>1. T # {} 
      OBVIOUS
    <3>2. T \subseteq SUBSET S
      BY DEF T
    <3> QED
      BY <2>1, <3>1, <3>2, WFMin
  <2>3. PICK x \in X : x \in Int
    OBVIOUS
  <2>4. X \ {x} \in SUBSET S /\ X \ {x} # X
    BY <2>3
  <2>5. <<X \ {x}, X>> \in StrictSubsetOrdering(S)
    BY <2>4 DEF StrictSubsetOrdering
  <2>6. X \ {x} \notin T
    BY <2>2, <2>5
  <2>7. X \ {x} = {} \/ Bounded(X \ {x})
    BY <2>4, <2>6
  <2>8. CASE X \ {x} = {}
    BY <2>3, <2>8
  <2>9. CASE Bounded(X \ {x})
    <3>1. PICK m \in X \ {x} : \A y \in X \ {x} : y <= m
      BY <2>9
    <3>2. m \in Int
      OBVIOUS
    <3>3. Bounded(X)
      BY <2>3, <3>1, <3>2
    <3> QED
      BY <3>3
  <2> QED
    BY <2>7, <2>8, <2>9
<1>2. Bounded(S)
  BY <1>1
<1> QED
  BY <1>2 DEF Max

---------------------------------------------------------------------------
(* Finite sets and sequences *)

LEMMA FiniteImage ==
  ASSUME NEW f, IsFiniteSet(DOMAIN f)
  PROVE  IsFiniteSet({f[x] : x \in DOMAIN f})
<1> DEFINE image == {f[x] : x \in DOMAIN f}
<1>1. PICK g : g = [x \in DOMAIN f |-> f[x]]
  OBVIOUS
<1>2. g \in Surjection(DOMAIN f, image)
  BY <1>1 DEF Surjection
<1> HIDE DEF image
<1>3. IsFiniteSet(image)
  BY <1>2, FS_Surjection
<1> QED
  BY <1>3 DEF image

LEMMA ItemsAre ==
  ASSUME NEW S, NEW items \in Seq(S)
  PROVE  /\ Len(items) \in Nat /\ DOMAIN items = 1 .. Len(items)
         /\ IsFiniteSet(DOMAIN items) /\ DOMAIN items \in SUBSET Nat
         /\ \A i \in DOMAIN items : items[i] \in S /\ items[i] \in ToSet(items)
         /\ \A x \in ToSet(items) : x \in S /\ \E i \in DOMAIN items : x = items[i]
<1>1. /\ Len(items) \in Nat /\ DOMAIN items = 1 .. Len(items)
      /\ \A i \in 1 .. Len(items) : items[i] \in S
  BY LenProperties, ElementOfSeq
<1>2. PICK n \in Nat : n = Len(items)
  BY <1>1
<1>3. IsFiniteSet(1 .. n)
  BY FS_Interval
<1> QED
  BY <1>1, <1>2, <1>3 DEF ToSet

\* What is arranged are the items at the places, each once.
ArrangedAs(list, items, places, before, order) ==
  \E m \in Nat :
    /\ DOMAIN list = 1 .. m
    /\ \A k \in 1 .. m : order[k] \in places /\ list[k] = items[order[k]]
    /\ \A i \in places : \E k \in 1 .. m : order[k] = i
    /\ \A j, k \in 1 .. m : order[j] \in before[order[k]] => j < k

LEMMA ArrangedIs ==
  ASSUME NEW items, NEW places, IsFiniteSet(places), NEW before, Orders(places, before)
  PROVE  ArrangedAs(Arranged(items, places, before), items, places, before,
                    InOrder(places, before))
<1>1. PICK m \in Nat : m = Cardinality(places)
  BY FS_CardinalityType
<1>2. PICK order : order = InOrder(places, before)
  OBVIOUS
<1>3. /\ \A k \in 1 .. m : order[k] \in places
      /\ \A i \in places : \E k \in 1 .. m : order[k] = i
      /\ \A j, k \in 1 .. m : order[j] \in before[order[k]] => j < k
  BY <1>1, <1>2, InOrderIs
<1>4. Arranged(items, places, before) = [k \in 1 .. m |-> items[order[k]]]
  BY <1>1, <1>2 DEF Arranged
<1> QED
  BY <1>2, <1>3, <1>4 DEF ArrangedAs

\* Evidence as it is made of items: of each place one piece, and none else.
Covers(found, items, places) ==
  \E m \in Nat : /\ DOMAIN found = 1 .. m
                 /\ \A k \in 1 .. m : \E i \in places : found[k] = items[i]
                 /\ \A i \in places : \E k \in 1 .. m : found[k] = items[i]

LEMMA SelectedIs ==
  ASSUME NEW S, NEW items \in Seq(S), NEW places \in SUBSET DOMAIN items
  PROVE  Covers(Selected(items, places), items, places)
<1> DEFINE before == [i \in places |-> {j \in places : j < i}]
<1>1. IsFiniteSet(places) /\ places \in SUBSET Nat
  BY ItemsAre, FS_Subset
<1>2. Orders(places, before)
  BY <1>1 DEF Orders
<1>3. Selected(items, places) = Arranged(items, places, before)
  BY DEF Selected
<1> HIDE DEF before
<1>4. ArrangedAs(Arranged(items, places, before), items, places, before,
                InOrder(places, before))
  BY <1>1, <1>2, ArrangedIs
<1> QED
  BY <1>3, <1>4 DEF Covers, ArrangedAs

\* A function on a first part of the numbers is a sequence.
IsList(found, m) == found = [k \in 1 .. m |-> found[k]]

LEMMA ListsAre ==
  ASSUME NEW found, NEW m \in Nat, IsList(found, m)
  PROVE  /\ Len(found) = m /\ found \in Seq(ToSet(found))
         /\ \A k \in 1 .. m : found[k] \in ToSet(found)
         /\ \A e \in ToSet(found) : \E k \in 1 .. m : e = found[k]
<1>1. DOMAIN found = 1 .. m
  BY DEF IsList
<1>2. /\ \A k \in 1 .. m : found[k] \in ToSet(found)
      /\ \A e \in ToSet(found) : \E k \in 1 .. m : e = found[k]
  BY <1>1 DEF ToSet
<1>3. found \in [1 .. m -> ToSet(found)]
  BY <1>2 DEF IsList
<1>4. found \in Seq(ToSet(found))
  <2> DEFINE S == ToSet(found)
  <2>1. found \in [1 .. m -> S]
    BY <1>3
  <2> HIDE DEF S
  <2>2. found \in Seq(S)
    BY <2>1, SeqDef
  <2> QED
    BY <2>2 DEF S
<1>5. Len(found) = m
  BY <1>1, <1>4, LenProperties
<1> QED
  BY <1>2, <1>4, <1>5

\* The first of the pieces are kept.
LEMMA KeptIs ==
  ASSUME NEW found, NEW m \in Nat, IsList(found, m)
  PROVE  \E c \in Nat : /\ c = (IF m < Cap THEN m ELSE Cap) /\ Len(Kept(found)) = c
                        /\ \A k \in 1 .. c : k \in 1 .. m /\ found[k] \in ToSet(Kept(found))
                        /\ \A e \in ToSet(Kept(found)) : \E k \in 1 .. c : e = found[k]
<1>1. /\ Len(found) = m /\ found \in Seq(ToSet(found))
      /\ \A k \in 1 .. m : found[k] \in ToSet(found)
  BY ListsAre
<1>2. PICK c \in Nat : c = IF m < Cap THEN m ELSE Cap
  BY ToolsAssumption
<1>3. c <= m
  BY <1>2, ToolsAssumption
<1>4. PICK kept : kept = SubSeq(found, 1, c)
  OBVIOUS
<1>5. Kept(found) = kept
  BY <1>1, <1>2, <1>4 DEF Kept
<1>6. /\ kept \in Seq(ToSet(found)) /\ Len(kept) = c
      /\ \A k \in 1 .. c : kept[k] = found[k]
  <2>1. \A k \in 1 .. c : found[k] \in ToSet(found)
    BY <1>1, <1>3
  <2>2. /\ SubSeq(found, 1, c) \in Seq(ToSet(found))
        /\ Len(SubSeq(found, 1, c)) = IF 1 <= c THEN c - 1 + 1 ELSE 0
        /\ \A k \in 1 .. c - 1 + 1 : SubSeq(found, 1, c)[k] = found[1 + k - 1]
    BY <2>1, SubSeqProperties
  <2> QED
    BY <1>4, <2>2
<1>7. DOMAIN kept = 1 .. c
  BY <1>6, LenProperties
<1>8. \A k \in 1 .. c : k \in 1 .. m
  BY <1>3
<1>9. ASSUME NEW k \in 1 .. c PROVE found[k] \in ToSet(kept)
  <2>1. k \in DOMAIN kept /\ found[k] = kept[k]
    BY <1>6, <1>7
  <2> QED
    BY <2>1 DEF ToSet
<1>10. ASSUME NEW e \in ToSet(kept) PROVE \E k \in 1 .. c : e = found[k]
  <2>1. PICK k \in DOMAIN kept : e = kept[k]
    BY DEF ToSet
  <2> QED
    BY <1>6, <1>7, <2>1
<1>11. Len(Kept(found)) = c
  BY <1>5, <1>6
<1> QED
  BY <1>2, <1>5, <1>8, <1>9, <1>10, <1>11

---------------------------------------------------------------------------
(* Tools and their queries *)

LEMMA ToolsAre == Tools = {"metrics", "traces", "logs", "changes"}
<1>1. Len(ToolOrder) = 4
  BY DEF ToolOrder
<1>2. DOMAIN ToolOrder = 1 .. 4
  BY <1>1 DEF ToolOrder
<1>3. 1 .. 4 = {1, 2, 3, 4}
  OBVIOUS
<1>4. /\ ToolOrder[1] = "metrics" /\ ToolOrder[2] = "traces"
      /\ ToolOrder[3] = "logs" /\ ToolOrder[4] = "changes"
  BY DEF ToolOrder
<1>5. Tools = {ToolOrder[i] : i \in {1, 2, 3, 4}}
  BY <1>2, <1>3 DEF Tools, ToSet
<1>6. \A i \in {1, 2, 3, 4} : ToolOrder[i] \in {"metrics", "traces", "logs", "changes"}
  BY <1>4
<1>7. \A x \in {"metrics", "traces", "logs", "changes"} :
        \E i \in {1, 2, 3, 4} : ToolOrder[i] = x
  BY <1>4
<1> QED
  BY <1>5, <1>6, <1>7

\* The metric queries are those of the signals, in both windows.
LEMMA MetricQueriesAre ==
  ASSUME NEW q \in QueriesOf("metrics")
  PROVE  /\ q[1] \in ToSet(Signals) /\ q[1] \notin {"graph", "lines"}
         /\ q[2] \in {"baseline", "incident"}
         /\ q = <<q[1], q[2]>>
<1>1. QueriesOf("metrics") = ToSet(MetricQueries)
  BY DEF QueriesOf
<1>2. /\ Signals \in Seq(STRING \ {"graph", "lines"}) /\ Len(Signals) \in Nat
      /\ DOMAIN Signals = 1 .. Len(Signals)
  BY ToolsAssumption, LenProperties
<1>3. PICK n \in Nat : n = Len(Signals)
  BY <1>2
<1>4. PICK i \in 1 .. 2 * n :
        q = <<Signals[(i + 1) \div 2], IF i % 2 = 1 THEN "baseline" ELSE "incident">>
  BY <1>1, <1>3 DEF MetricQueries, ToSet
<1>5. (i + 1) \div 2 \in 1 .. n
  BY <1>4
<1>6. /\ q[1] = Signals[(i + 1) \div 2] /\ q[2] \in {"baseline", "incident"}
      /\ q = <<q[1], q[2]>>
  BY <1>4
<1>7. Signals[(i + 1) \div 2] \in STRING \ {"graph", "lines"}
  BY <1>2, <1>3, <1>5, ElementOfSeq
<1>8. Signals[(i + 1) \div 2] \in ToSet(Signals)
  BY <1>2, <1>3, <1>5 DEF ToSet
<1> QED
  BY <1>6, <1>7, <1>8

\* No two tools share a query.
LEMMA QueriesAreOwn ==
  ASSUME NEW t \in Tools, NEW u \in Tools, NEW q \in QueriesOf(t), q \in QueriesOf(u)
  PROVE  t = u
<1>1. t \in {"metrics", "traces", "logs", "changes"} /\ u \in {"metrics", "traces", "logs", "changes"}
  BY ToolsAre
<1>2. QueriesOf("traces") = {<<"graph", "incident">>}
  BY DEF QueriesOf
<1>3. QueriesOf("logs") = {<<"lines", "incident">>}
  BY DEF QueriesOf
<1>4. QueriesOf("changes") = {<<"events", "now">>, <<"deployments", "now">>}
  BY DEF QueriesOf
<1>5. \A x \in QueriesOf("metrics") :
        x[1] \notin {"graph", "lines"} /\ x[2] \in {"baseline", "incident"}
  BY MetricQueriesAre
<1> QED
  BY <1>1, <1>2, <1>3, <1>4, <1>5

LEMMA QueriesAreOfTools ==
  ASSUME NEW t \in Tools
  PROVE  QueriesOf(t) \subseteq Queries
BY DEF Queries

---------------------------------------------------------------------------
(* The inductive invariant *)

Settled == {"answered", "failed"}

QueryStates == Settled \cup {"idle", "pending", "cancelled"}
ToolStates == {"idle", "running", "saving", "success", "error", "cut off"}

TypeOK ==
  /\ world \in DOMAIN Worlds
  /\ query \in [Queries -> QueryStates]
  /\ tool \in [Tools -> ToolStates]
  /\ bundle = [t \in Tools |-> bundle[t]]

\* What a tool has come to, and what that took.
Accounted(t) ==
  /\ ~Finished(t) => bundle[t] = None
  /\ tool[t] = "saving" => t = "metrics" /\ AllAnswered(t) /\ Snapshot[world] # None
  /\ tool[t] = "success" =>
       /\ AllAnswered(t)
       /\ bundle[t] = ToolBundle("success", Kept(Found[world][t]))
       /\ t = "metrics" => Snapshot[world] # None /\ Snapshot[world] \in saved
  /\ tool[t] = "error" =>
       /\ bundle[t] = ToolBundle("error", <<>>)
       /\ t = "metrics" \/ \E q \in QueriesOf(t) : query[q] = "failed"

IInv == TypeOK /\ \A t \in Tools : Accounted(t)

LEMMA InitInv == Init => IInv
<1> SUFFICES ASSUME Init PROVE IInv
  OBVIOUS
<1>1. TypeOK
  BY DEF Init, TypeOK, QueryStates, ToolStates
<1>2. \A t \in Tools : Accounted(t)
  BY DEF Init, Accounted, Finished
<1> QED
  BY <1>1, <1>2 DEF IInv

---------------------------------------------------------------------------
(* Steps *)

\* What a step leaves of a tool that it does not move: its queries stay settled.
Stays(t) ==
  /\ tool'[t] = tool[t] /\ bundle'[t] = bundle[t]
  /\ tool[t] # "idle" =>
       \A q \in QueriesOf(t) : query[q] \in Settled => query'[q] = query[q]

LEMMA StayingAccounts ==
  ASSUME NEW t \in Tools, Accounted(t), Stays(t), world' = world, saved \subseteq saved'
  PROVE  Accounted(t)'
BY DEF Accounted, Stays, Finished, AllAnswered, Settled

\* Where no query begins again, what is settled stays so.
LEMMA EndingStays ==
  ASSUME NEW t \in Tools, tool'[t] = tool[t], bundle'[t] = bundle[t],
         \A q \in Queries : query[q] \in Settled => query'[q] = query[q]
  PROVE  Stays(t)
BY QueriesAreOfTools DEF Stays

LEMMA StartKeeps ==
  ASSUME IInv, NEW tools \in SUBSET Tools, Start(tools)
  PROVE  IInv'
<1> DEFINE queries == UNION {QueriesOf(t) : t \in tools} \ {<<"deployments", "now">>}
<1>1. /\ \A t \in tools : tool[t] = "idle"
      /\ tool' = [t \in Tools |-> IF t \in tools THEN "running" ELSE tool[t]]
      /\ query' = [q \in Queries |-> IF q \in queries THEN "pending" ELSE query[q]]
      /\ UNCHANGED <<mode, world, bundle, saved>>
  BY DEF Start, Begin
<1>2. TypeOK'
  BY <1>1 DEF IInv, TypeOK, QueryStates, ToolStates
<1>3. ASSUME NEW t \in Tools PROVE Accounted(t)'
  <2>1. CASE t \in tools
    <3>1. tool[t] = "idle" /\ tool'[t] = "running" /\ bundle'[t] = bundle[t]
      BY <1>1, <2>1
    <3> QED
      BY <3>1 DEF IInv, Accounted, Finished
  <2>2. CASE t \notin tools
    <3>1. ASSUME NEW q \in QueriesOf(t) PROVE q \notin queries
      BY <2>2, QueriesAreOwn
    <3>2. \A q \in QueriesOf(t) : query'[q] = query[q]
      <4> HIDE DEF queries
      <4> QED
        BY <1>1, <3>1, QueriesAreOfTools
    <3>3. Stays(t)
      BY <1>1, <2>2, <3>2 DEF Stays
    <3> QED
      BY <1>1, <3>3, StayingAccounts DEF IInv
  <2> QED
    BY <2>1, <2>2
<1> QED
  BY <1>2, <1>3 DEF IInv

LEMMA ListKeeps ==
  ASSUME IInv, ListDeploymentsNext
  PROVE  IInv'
<1>1. /\ query[<<"deployments", "now">>] = "idle"
      /\ query' = [q \in Queries |-> IF q \in {<<"deployments", "now">>} THEN "pending"
                                     ELSE query[q]]
      /\ UNCHANGED <<mode, world, tool, bundle, saved>>
  BY DEF ListDeploymentsNext, Begin
<1>2. TypeOK'
  BY <1>1 DEF IInv, TypeOK, QueryStates
<1>3. \A q \in Queries : query[q] \in Settled => query'[q] = query[q]
  BY <1>1 DEF Settled
<1> QED
  BY <1>1, <1>2, <1>3, EndingStays, StayingAccounts DEF IInv

LEMMA EndQueryKeeps ==
  ASSUME IInv, NEW q \in Queries, EndQuery(q)
  PROVE  IInv'
<1>1. PICK s \in Settled : query' = [query EXCEPT ![q] = s]
  BY DEF EndQuery, Settled
<1>2. query[q] = "pending" /\ UNCHANGED <<mode, world, tool, bundle, saved>>
  BY DEF EndQuery
<1>3. TypeOK'
  BY <1>1, <1>2 DEF IInv, TypeOK, QueryStates
<1>4. \A x \in Queries : query[x] \in Settled => query'[x] = query[x]
  BY <1>1, <1>2 DEF Settled, IInv, TypeOK
<1> QED
  BY <1>2, <1>3, <1>4, EndingStays, StayingAccounts DEF IInv

\* A tool ends, and its bundle is what its audit says; the others stay.
LEMMA BundleKeeps ==
  ASSUME IInv, NEW t \in Tools, NEW status \in {"success", "error"}, NEW evidence,
         Bundle(t, status, evidence),
         status = "success" =>
           /\ evidence = Kept(Found[world][t]) /\ AllAnswered(t)
           /\ t = "metrics" => Snapshot[world] # None /\ Snapshot[world] \in saved',
         status = "error" =>
           /\ evidence = <<>>
           /\ t = "metrics" \/ \E q \in QueriesOf(t) : query[q] = "failed",
         UNCHANGED <<mode, world, query>>, saved \subseteq saved'
  PROVE  IInv'
<1>1. /\ tool' = [tool EXCEPT ![t] = status]
      /\ bundle' = [bundle EXCEPT ![t] = ToolBundle(status, evidence)]
  BY DEF Bundle
<1>2. TypeOK'
  BY <1>1 DEF IInv, TypeOK, ToolStates
<1>3. tool'[t] = status /\ bundle'[t] = ToolBundle(status, evidence)
  BY <1>1 DEF IInv, TypeOK
<1>4. Accounted(t)'
  BY <1>3 DEF Accounted, Finished, AllAnswered
<1>5. ASSUME NEW u \in Tools, u # t PROVE Accounted(u)'
  <2>1. tool'[u] = tool[u] /\ bundle'[u] = bundle[u]
    BY <1>1, <1>5 DEF IInv, TypeOK
  <2> QED
    BY <2>1, EndingStays, StayingAccounts DEF IInv
<1> QED
  BY <1>2, <1>4, <1>5 DEF IInv

LEMMA RaiseKeeps ==
  ASSUME IInv, NEW t \in Tools, QueryRaises(t)
  PROVE  IInv'
BY BundleKeeps DEF QueryRaises, Fail

LEMMA CollectedKeeps ==
  ASSUME IInv, NEW t \in Tools, Collected(t)
  PROVE  IInv'
BY BundleKeeps DEF Collected, Succeed

LEMMA AnalyzeKeeps ==
  ASSUME IInv, AnalyzeMetrics
  PROVE  IInv'
<1>1. "metrics" \in Tools
  BY ToolsAre
<1>2. CASE Fail("metrics")
  BY <1>1, <1>2, BundleKeeps DEF AnalyzeMetrics, Fail
<1>3. CASE /\ Snapshot[world] # None /\ UNCHANGED bundle
           /\ tool' = [tool EXCEPT !["metrics"] = "saving"]
  <2>1. /\ AllAnswered("metrics") /\ tool["metrics"] = "running"
        /\ UNCHANGED <<mode, world, query, saved>>
    BY DEF AnalyzeMetrics
  <2>2. TypeOK'
    BY <1>3, <2>1 DEF IInv, TypeOK, ToolStates
  <2>3. ASSUME NEW u \in Tools PROVE Accounted(u)'
    <3>1. CASE u = "metrics"
      <4>1. tool'[u] = "saving" /\ bundle'[u] = None
        BY <1>1, <1>3, <2>1, <3>1 DEF IInv, TypeOK, Accounted, Finished
      <4> QED
        BY <1>3, <2>1, <3>1, <4>1 DEF Accounted, Finished, AllAnswered
    <3>2. CASE u # "metrics"
      <4>1. tool'[u] = tool[u] /\ bundle'[u] = bundle[u]
        BY <1>3, <3>2 DEF IInv, TypeOK
      <4> QED
        BY <2>1, <4>1, EndingStays, StayingAccounts DEF IInv
    <3> QED
      BY <3>1, <3>2
  <2> QED
    BY <2>2, <2>3 DEF IInv
<1> QED
  BY <1>2, <1>3 DEF AnalyzeMetrics

LEMMA SaveKeeps ==
  ASSUME IInv, SaveSnapshot
  PROVE  IInv'
<1>1. "metrics" \in Tools
  BY ToolsAre
<1>2. /\ AllAnswered("metrics") /\ Snapshot[world] # None
      /\ UNCHANGED <<mode, world, query>>
  BY <1>1 DEF SaveSnapshot, IInv, Accounted
<1>3. CASE Succeed("metrics") /\ saved' = saved \cup {Snapshot[world]}
  BY <1>1, <1>2, <1>3, BundleKeeps DEF Succeed
<1>4. CASE /\ Fail("metrics")
           /\ saved' = saved \cup {Snapshot[world]} \/ UNCHANGED saved
  BY <1>1, <1>2, <1>4, BundleKeeps DEF Fail
<1> QED
  BY <1>3, <1>4 DEF SaveSnapshot

LEMMA CutOffKeeps ==
  ASSUME IInv, CutOff
  PROVE  IInv'
<1>1. /\ tool' = [t \in Tools |-> IF t \in Unfinished THEN "cut off" ELSE tool[t]]
      /\ query' = [q \in Queries |->
           IF query[q] = "pending" /\ \E t \in Unfinished : q \in QueriesOf(t)
           THEN "cancelled" ELSE query[q]]
      /\ saved \subseteq saved' /\ UNCHANGED <<mode, world, bundle>>
  BY DEF CutOff
<1>2. TypeOK'
  BY <1>1 DEF IInv, TypeOK, QueryStates, ToolStates
<1>3. \A q \in Queries : query[q] \in Settled => query'[q] = query[q]
  BY <1>1 DEF Settled
<1>4. ASSUME NEW t \in Tools PROVE Accounted(t)'
  <2>1. CASE t \in Unfinished
    <3>1. ~Finished(t) /\ tool'[t] = "cut off"
      BY <1>1, <2>1 DEF Unfinished, Finished
    <3> QED
      BY <1>1, <3>1 DEF IInv, Accounted, Finished
  <2>2. CASE t \notin Unfinished
    BY <1>1, <1>3, <2>2, EndingStays, StayingAccounts DEF IInv
  <2> QED
    BY <2>1, <2>2
<1> QED
  BY <1>2, <1>4 DEF IInv

LEMMA StepKeeps ==
  ASSUME IInv, [Next]_vars
  PROVE  IInv'
<1>1. CASE UNCHANGED vars
  BY <1>1 DEF vars, IInv, TypeOK, Accounted, Finished, AllAnswered
<1>2. CASE StartTools
  <2>1. CASE Start(Tools)
    BY <2>1, StartKeeps
  <2>2. ASSUME NEW i \in 1 .. 4, Start({ToolOrder[i]}) PROVE IInv'
    <3>1. DOMAIN ToolOrder = 1 .. 4
      BY DEF ToolOrder
    <3>2. {ToolOrder[i]} \in SUBSET Tools
      BY <3>1 DEF Tools, ToSet
    <3> QED
      BY <2>2, <3>2, StartKeeps
  <2> QED
    BY <1>2, <2>1, <2>2 DEF StartTools
<1> QED
  BY <1>1, <1>2, RaiseKeeps, CollectedKeeps, ListKeeps, EndQueryKeeps, AnalyzeKeeps, SaveKeeps,
     CutOffKeeps DEF Next

LEMMA Invariance == Spec => []IInv
BY InitInv, StepKeeps, PTL DEF Spec

---------------------------------------------------------------------------
(* What answers show and tools find *)

\* The piece e is of a symptom in an answer that the tool t asks for.
Observed(n, t, e) ==
  /\ e.reference \in QueriesOf(t)
  /\ <<e.service, e.signal, e.at>> \in Symptoms[n][t]
  /\ e.source = "metrics" => /\ e.reference = <<e.signal, "incident">>
                             /\ e.confidence \in MinimumScore .. 600
  /\ t = "metrics" => \A other \in Symptoms[n][t] :
       other[1] = e.service /\ other[2] = e.signal => e.at <= other[3]

\* A tool finds symptoms only, and every one.
Complete(n, t) ==
  \E m \in Nat : /\ IsList(Found[n][t], m)
                 /\ \A k \in 1 .. m : Observed(n, t, Found[n][t][k])
                 /\ \A s \in Symptoms[n][t] : \E k \in 1 .. m :
                      Found[n][t][k].service = s[1] /\ Found[n][t][k].signal = s[2]

LEMMA AnswerIs ==
  ASSUME NEW n \in DOMAIN Worlds, NEW t \in Tools, Usable(n, t), NEW q \in QueriesOf(t)
  PROVE  Data[n][q] \in Seq(ItemsOf(q))
<1>1. q \in Queries /\ Data[n][q] # Invalid
  BY DEF Queries, Usable
<1> QED
  BY <1>1, AnswersAssumption

LEMMA OtherItems ==
  /\ ItemsOf(<<"graph", "incident">>) =
       [caller : STRING, callee : STRING, errors : Nat, p95 : Nat, requests : Nat, first : Nat]
  /\ ItemsOf(<<"lines", "incident">>) =
       [service : STRING \cup {None}, entries : Seq([at : Nat, words : SUBSET STRING])]
  /\ ItemsOf(<<"events", "now">>) = [at : Nat \cup {None}, name : STRING, type : STRING]
  /\ ItemsOf(<<"deployments", "now">>) =
       [name : STRING, replicas : Nat \cup {None}, ready : Nat \cup {None}]
<1>1. /\ <<"graph", "incident">> \notin QueriesOf("metrics")
      /\ <<"lines", "incident">> \notin QueriesOf("metrics")
      /\ <<"events", "now">> \notin QueriesOf("metrics")
      /\ <<"deployments", "now">> \notin QueriesOf("metrics")
  BY MetricQueriesAre
<1>2. ItemsOf(<<"graph", "incident">>) =
       [caller : STRING, callee : STRING, errors : Nat, p95 : Nat, requests : Nat, first : Nat]
  BY <1>1 DEF ItemsOf
<1>3. ItemsOf(<<"lines", "incident">>) =
       [service : STRING \cup {None}, entries : Seq([at : Nat, words : SUBSET STRING])]
  BY <1>1 DEF ItemsOf
<1>4. ItemsOf(<<"events", "now">>) = [at : Nat \cup {None}, name : STRING, type : STRING]
  BY <1>1 DEF ItemsOf
<1>5. ItemsOf(<<"deployments", "now">>) =
       [name : STRING, replicas : Nat \cup {None}, ready : Nat \cup {None}]
  BY <1>1 DEF ItemsOf
<1> QED
  BY <1>2, <1>3, <1>4, <1>5

LEMMA LogsAre ==
  ASSUME NEW n \in DOMAIN Worlds, Usable(n, "logs")
  PROVE  Complete(n, "logs")
<1> DEFINE streams == Data[n][<<"lines", "incident">>]
           places == {i \in DOMAIN streams : Matches(streams[i]) # {}}
           chosen == Selected(streams, places)
           piece(x) == Evidence("logs", x.service, "error_log_pattern",
             <<"lines", "incident">>, Min({540, 240 + 6 * Cardinality(Matches(x))}),
             Min({x.entries[i].at : i \in Matches(x)}))
           found == Found[n]["logs"]
           ItemSet == [service : STRING \cup {None}, entries : Seq([at : Nat, words : SUBSET STRING])]
           Lines == [at : Nat, words : SUBSET STRING]
<1>1. "logs" \in Tools /\ QueriesOf("logs") = {<<"lines", "incident">>}
  BY ToolsAre DEF QueriesOf
<1>2. streams \in Seq(ItemSet)
  BY <1>1, AnswerIs, OtherItems
<1>3. found = [k \in DOMAIN chosen |-> piece(chosen[k])]
  BY <1>1 DEF Found, EvidenceOf, FromLogs, Map
<1>4. Symptoms[n]["logs"] = LogSymptoms(n)
  BY <1>1 DEF Symptoms
<1>5. LogSymptoms(n) =
        UNION {{<<x.service, "error_log_pattern", y.at>> :
                  y \in {z \in ToSet(x.entries) : z.words # {}}} : x \in ToSet(streams)}
  BY DEF LogSymptoms
<1> HIDE DEF streams, found, places, chosen, piece, ItemSet
<1>6. PICK m \in Nat : /\ DOMAIN chosen = 1 .. m
                       /\ \A k \in 1 .. m : \E i \in places : chosen[k] = streams[i]
                       /\ \A i \in places : \E k \in 1 .. m : chosen[k] = streams[i]
  <2>1. places \in SUBSET DOMAIN streams
    BY DEF places
  <2>2. Covers(chosen, streams, places)
    BY <1>2, <2>1, SelectedIs DEF chosen
  <2> QED
    BY <2>2 DEF Covers
<1>7. ASSUME NEW i \in DOMAIN streams
      PROVE  /\ streams[i] \in ToSet(streams)
             /\ streams[i].entries \in Seq(Lines)
  <2>1. streams[i] \in ItemSet /\ streams[i] \in ToSet(streams)
    BY <1>2, ItemsAre
  <2> QED
    BY <2>1 DEF ItemSet
<1>8. ASSUME NEW k \in 1 .. m PROVE Observed(n, "logs", found[k])
  <2>1. PICK i \in places : chosen[k] = streams[i]
    BY <1>6
  <2>2. PICK x : x = streams[i]
    OBVIOUS
  <2>3. found[k] = piece(x)
    BY <1>3, <1>6, <2>1, <2>2
  <2>4. /\ x.entries \in Seq(Lines) /\ x \in ToSet(streams)
        /\ Matches(x) # {} /\ Matches(x) = {j \in DOMAIN x.entries : x.entries[j].words # {}}
    BY <1>7, <2>1, <2>2 DEF Matches, places
  <2>5. \A j \in DOMAIN x.entries : /\ x.entries[j].at \in Nat
                                    /\ x.entries[j] \in ToSet(x.entries)
    <3> DEFINE entries == x.entries
    <3>1. entries \in Seq(Lines)
      BY <2>4
    <3> HIDE DEF Lines, entries
    <3>2. \A j \in DOMAIN entries : entries[j] \in Lines /\ entries[j] \in ToSet(entries)
      BY <3>1, ItemsAre
    <3> QED
      BY <3>2 DEF Lines, entries
  <2> DEFINE times == {x.entries[j].at : j \in Matches(x)}
  <2>6. times \in SUBSET Nat /\ times # {}
    BY <2>4, <2>5
  <2>7. Min(times) \in times
    <3> HIDE DEF times
    <3> QED
      BY <2>6, MinIs
  <2>8. PICK j \in Matches(x) : Min(times) = x.entries[j].at
    BY <2>7
  <2>9. PICK at : at = Min(times)
    OBVIOUS
  <2>10. /\ found[k].source = "logs" /\ found[k].service = x.service
         /\ found[k].signal = "error_log_pattern"
         /\ found[k].reference = <<"lines", "incident">> /\ found[k].at = at
    BY <2>3, <2>9 DEF Evidence, piece
  <2>11. <<x.service, "error_log_pattern", at>> \in LogSymptoms(n)
    <3> HIDE DEF times
    <3>1. /\ x \in ToSet(streams) /\ at = x.entries[j].at
          /\ x.entries[j] \in {z \in ToSet(x.entries) : z.words # {}}
      BY <2>4, <2>5, <2>8, <2>9
    <3> QED
      BY <1>5, <3>1
  <2> QED
    BY <1>1, <1>4, <2>10, <2>11 DEF Observed
<1>9. ASSUME NEW s \in LogSymptoms(n)
      PROVE  \E k \in 1 .. m : found[k].service = s[1] /\ found[k].signal = s[2]
  <2>1. PICK x \in ToSet(streams) : \E y \in ToSet(x.entries) :
          y.words # {} /\ s = <<x.service, "error_log_pattern", y.at>>
    BY <1>5
  <2>2. PICK i \in DOMAIN streams : x = streams[i]
    BY DEF ToSet
  <2>3. PICK j \in DOMAIN x.entries :
          /\ x.entries[j].words # {}
          /\ s = <<x.service, "error_log_pattern", x.entries[j].at>>
    BY <2>1 DEF ToSet
  <2>4. i \in places
    BY <2>2, <2>3 DEF Matches, places
  <2>5. PICK k \in 1 .. m : chosen[k] = x
    BY <1>6, <2>2, <2>4
  <2>6. found[k] = piece(x)
    BY <1>3, <1>6, <2>5
  <2>7. found[k].service = s[1] /\ found[k].signal = s[2]
    BY <2>3, <2>6 DEF Evidence, piece
  <2> QED
    BY <2>7
<1>10. IsList(found, m)
  BY <1>3, <1>6 DEF IsList
<1> QED
  BY <1>4, <1>8, <1>9, <1>10 DEF Complete, found

\* One sequence after the other.
Joined(c, a, m, b, p) ==
  \E h \in Nat :
    /\ IsList(c, h)
    /\ \A k \in 1 .. m : k \in 1 .. h /\ c[k] = a[k]
    /\ \A k \in 1 .. p : m + k \in 1 .. h /\ c[m + k] = b[k]
    /\ \A k \in 1 .. h : (k \in 1 .. m) \/ \E j \in 1 .. p : k = m + j

LEMMA JoinedIs ==
  ASSUME NEW m \in Nat, NEW p \in Nat, NEW a, NEW b,
         IsList(a, m), IsList(b, p), NEW c, c = a \o b
  PROVE  Joined(c, a, m, b, p)
<1>1. PICK h \in Nat : h = m + p
  OBVIOUS
<1>2. Len(a) = m /\ a \in Seq(ToSet(a))
  BY ListsAre
<1>3. Len(b) = p /\ b \in Seq(ToSet(b))
  BY ListsAre
<1>4. PICK S : ToSet(a) \cup ToSet(b) \subseteq S
  OBVIOUS
<1>5. a \in Seq(S) /\ b \in Seq(S)
  <2>1. \A k \in 1 .. m : a[k] \in S
    BY <1>2, <1>4, ListsAre
  <2>2. \A k \in 1 .. p : b[k] \in S
    BY <1>3, <1>4, ListsAre
  <2>3. a \in [1 .. m -> S] /\ b \in [1 .. p -> S]
    BY <2>1, <2>2 DEF IsList
  <2> QED
    BY <2>3, SeqDef
<1>6. /\ c \in Seq(S) /\ Len(c) = h
      /\ \A k \in 1 .. h : c[k] = IF k <= m THEN a[k] ELSE b[k - m]
  <2>1. /\ a \o b \in Seq(S) /\ Len(a \o b) = Len(a) + Len(b)
        /\ \A k \in 1 .. Len(a) + Len(b) :
             (a \o b)[k] = IF k <= Len(a) THEN a[k] ELSE b[k - Len(a)]
    BY <1>5, ConcatProperties
  <2> QED
    BY <1>1, <1>2, <1>3, <2>1
<1>7. DOMAIN c = 1 .. h
  BY <1>6, LenProperties
<1>8. \A k \in 1 .. m : k \in 1 .. h /\ c[k] = a[k]
  <2> TAKE k \in 1 .. m
  <2>1. k \in 1 .. h /\ k <= m
    BY <1>1
  <2> QED
    BY <1>6, <2>1
<1>9. \A k \in 1 .. p : m + k \in 1 .. h /\ c[m + k] = b[k]
  <2> TAKE k \in 1 .. p
  <2>1. m + k \in 1 .. h /\ ~(m + k <= m) /\ (m + k) - m = k
    BY <1>1
  <2> QED
    BY <1>6, <2>1
<1>10. \A k \in 1 .. h : (k \in 1 .. m) \/ \E j \in 1 .. p : k = m + j
  <2> TAKE k \in 1 .. h
  <2>1. CASE k <= m
    BY <2>1
  <2>2. CASE ~(k <= m)
    <3>1. (k - m) \in 1 .. p /\ k = m + (k - m)
      BY <1>1, <2>2
    <3> QED
      BY <3>1
  <2> QED
    BY <2>1, <2>2
<1>11. IsList(c, h)
  <2>1. c \in [1 .. h -> S]
    BY <1>6, LenProperties
  <2> QED
    BY <2>1 DEF IsList
<1> QED
  BY <1>8, <1>9, <1>10, <1>11 DEF Joined

EventSymptoms(n) ==
  {<<x.name, x.type, x.at>> : x \in {y \in ToSet(Data[n][<<"events", "now">>]) :
     y.at \in WindowStart - Lookback .. WindowEnd}}

DeploymentSymptoms(n) ==
  {<<x.name, "deployment_readiness", None>> :
     x \in {y \in ToSet(Data[n][<<"deployments", "now">>]) :
              y.replicas # None /\ y.ready # y.replicas}}

\* Pieces of evidence of the symptoms, and none else.
Pieces(pieces, source, reference, symptoms) ==
  \E m \in Nat :
    /\ IsList(pieces, m)
    /\ \A k \in 1 .. m :
         /\ pieces[k].source = source /\ pieces[k].reference = reference
         /\ <<pieces[k].service, pieces[k].signal, pieces[k].at>> \in symptoms
    /\ \A s \in symptoms : \E k \in 1 .. m :
         pieces[k].service = s[1] /\ pieces[k].signal = s[2]

LEMMA EventsAre ==
  ASSUME NEW n \in DOMAIN Worlds, Usable(n, "changes")
  PROVE  Pieces(FromEvents(n), "changes", <<"events", "now">>, EventSymptoms(n))
<1> DEFINE changes == Data[n][<<"events", "now">>]
           places == {i \in DOMAIN changes : Recent(changes[i])}
           chosen == Selected(changes, places)
           piece(x) == Evidence("changes", x.name, x.type, <<"events", "now">>, 330, x.at)
           ItemSet == [at : Nat \cup {None}, name : STRING, type : STRING]
<1>1. "changes" \in Tools /\ <<"events", "now">> \in QueriesOf("changes")
  BY ToolsAre DEF QueriesOf
<1>2. changes \in Seq(ItemSet)
  BY <1>1, AnswerIs, OtherItems
<1>3. FromEvents(n) = [k \in DOMAIN chosen |-> piece(chosen[k])]
  BY DEF FromEvents, Map
<1>4. EventSymptoms(n) = {<<x.name, x.type, x.at>> : x \in {y \in ToSet(changes) :
                            y.at \in WindowStart - Lookback .. WindowEnd}}
  BY DEF EventSymptoms
<1> HIDE DEF changes, places, chosen, piece, ItemSet
<1>5. PICK m \in Nat : /\ DOMAIN chosen = 1 .. m
                       /\ \A k \in 1 .. m : \E i \in places : chosen[k] = changes[i]
                       /\ \A i \in places : \E k \in 1 .. m : chosen[k] = changes[i]
  <2>1. places \in SUBSET DOMAIN changes
    BY DEF places
  <2>2. Covers(chosen, changes, places)
    BY <1>2, <2>1, SelectedIs DEF chosen
  <2> QED
    BY <2>2 DEF Covers
<1>6. ASSUME NEW i \in DOMAIN changes
      PROVE  /\ changes[i] \in ToSet(changes)
             /\ Recent(changes[i])
                  <=> changes[i].at \in WindowStart - Lookback .. WindowEnd
  <2>1. changes[i] \in ItemSet /\ changes[i] \in ToSet(changes)
    BY <1>2, ItemsAre
  <2>2. changes[i].at \in Nat \cup {None}
    BY <2>1 DEF ItemSet
  <2>3. Recent(changes[i]) <=> changes[i].at \in WindowStart - Lookback .. WindowEnd
    BY <2>2, ToolsAssumption, EngineAssumption DEF Recent
  <2> QED
    BY <2>1, <2>3
<1>7. ASSUME NEW k \in 1 .. m
      PROVE  /\ FromEvents(n)[k].source = "changes"
             /\ FromEvents(n)[k].reference = <<"events", "now">>
             /\ <<FromEvents(n)[k].service, FromEvents(n)[k].signal, FromEvents(n)[k].at>>
                  \in EventSymptoms(n)
  <2>1. PICK i \in places : chosen[k] = changes[i]
    BY <1>5
  <2>2. PICK x : x = changes[i]
    OBVIOUS
  <2>3. FromEvents(n)[k] = piece(x)
    BY <1>3, <1>5, <2>1, <2>2
  <2>4. x \in ToSet(changes) /\ x.at \in WindowStart - Lookback .. WindowEnd
    BY <1>6, <2>2 DEF places
  <2>5. <<x.name, x.type, x.at>> \in EventSymptoms(n)
    BY <1>4, <2>4
  <2> QED
    BY <2>3, <2>5 DEF piece, Evidence
<1>8. ASSUME NEW s \in EventSymptoms(n)
      PROVE  \E k \in 1 .. m :
               FromEvents(n)[k].service = s[1] /\ FromEvents(n)[k].signal = s[2]
  <2>1. PICK x \in ToSet(changes) : /\ x.at \in WindowStart - Lookback .. WindowEnd
                                    /\ s = <<x.name, x.type, x.at>>
    BY <1>4
  <2>2. PICK i \in DOMAIN changes : x = changes[i]
    BY DEF ToSet
  <2>3. i \in places
    BY <1>6, <2>1, <2>2 DEF places
  <2>4. PICK k \in 1 .. m : chosen[k] = x
    BY <1>5, <2>2, <2>3
  <2>5. FromEvents(n)[k] = piece(x)
    BY <1>3, <1>5, <2>4
  <2> QED
    BY <2>1, <2>5 DEF piece, Evidence
<1>9. IsList(FromEvents(n), m)
  BY <1>3, <1>5 DEF IsList
<1> QED
  BY <1>7, <1>8, <1>9 DEF Pieces

LEMMA DeploymentsAre ==
  ASSUME NEW n \in DOMAIN Worlds, Usable(n, "changes")
  PROVE  Pieces(FromDeployments(n), "kubernetes", <<"deployments", "now">>,
                DeploymentSymptoms(n))
<1> DEFINE deployments == Data[n][<<"deployments", "now">>]
           places == {i \in DOMAIN deployments : Unready(deployments[i])}
           chosen == Selected(deployments, places)
           piece(x) == Evidence("kubernetes", x.name, "deployment_readiness",
                                <<"deployments", "now">>, 540, None)
           ItemSet == [name : STRING, replicas : Nat \cup {None}, ready : Nat \cup {None}]
<1>1. "changes" \in Tools /\ <<"deployments", "now">> \in QueriesOf("changes")
  BY ToolsAre DEF QueriesOf
<1>2. deployments \in Seq(ItemSet)
  BY <1>1, AnswerIs, OtherItems
<1>3. FromDeployments(n) = [k \in DOMAIN chosen |-> piece(chosen[k])]
  BY DEF FromDeployments, Map
<1>4. DeploymentSymptoms(n) = {<<x.name, "deployment_readiness", None>> :
        x \in {y \in ToSet(deployments) : y.replicas # None /\ y.ready # y.replicas}}
  BY DEF DeploymentSymptoms
<1> HIDE DEF deployments, places, chosen, piece, ItemSet
<1>5. PICK m \in Nat : /\ DOMAIN chosen = 1 .. m
                       /\ \A k \in 1 .. m : \E i \in places : chosen[k] = deployments[i]
                       /\ \A i \in places : \E k \in 1 .. m : chosen[k] = deployments[i]
  <2>1. places \in SUBSET DOMAIN deployments
    BY DEF places
  <2>2. Covers(chosen, deployments, places)
    BY <1>2, <2>1, SelectedIs DEF chosen
  <2> QED
    BY <2>2 DEF Covers
<1>6. \A i \in DOMAIN deployments : deployments[i] \in ToSet(deployments)
  BY DEF ToSet
<1>7. ASSUME NEW k \in 1 .. m
      PROVE  /\ FromDeployments(n)[k].source = "kubernetes"
             /\ FromDeployments(n)[k].reference = <<"deployments", "now">>
             /\ <<FromDeployments(n)[k].service, FromDeployments(n)[k].signal,
                  FromDeployments(n)[k].at>> \in DeploymentSymptoms(n)
  <2>1. PICK i \in places : chosen[k] = deployments[i]
    BY <1>5
  <2>2. PICK x : x = deployments[i]
    OBVIOUS
  <2>3. FromDeployments(n)[k] = piece(x)
    BY <1>3, <1>5, <2>1, <2>2
  <2>4. x \in ToSet(deployments) /\ x.replicas # None /\ x.ready # x.replicas
    BY <1>6, <2>2 DEF places, Unready
  <2>5. <<x.name, "deployment_readiness", None>> \in DeploymentSymptoms(n)
    BY <1>4, <2>4
  <2> QED
    BY <2>3, <2>5 DEF piece, Evidence
<1>8. ASSUME NEW s \in DeploymentSymptoms(n)
      PROVE  \E k \in 1 .. m : /\ FromDeployments(n)[k].service = s[1]
                               /\ FromDeployments(n)[k].signal = s[2]
  <2>1. PICK x \in ToSet(deployments) : /\ x.replicas # None /\ x.ready # x.replicas
                                        /\ s = <<x.name, "deployment_readiness", None>>
    BY <1>4
  <2>2. PICK i \in DOMAIN deployments : x = deployments[i]
    BY DEF ToSet
  <2>3. i \in places
    BY <2>1, <2>2 DEF places, Unready
  <2>4. PICK k \in 1 .. m : chosen[k] = x
    BY <1>5, <2>2, <2>3
  <2>5. FromDeployments(n)[k] = piece(x)
    BY <1>3, <1>5, <2>4
  <2> QED
    BY <2>1, <2>5 DEF piece, Evidence
<1>9. IsList(FromDeployments(n), m)
  BY <1>3, <1>5 DEF IsList
<1> QED
  BY <1>7, <1>8, <1>9 DEF Pieces

LEMMA ChangesAre ==
  ASSUME NEW n \in DOMAIN Worlds, Usable(n, "changes")
  PROVE  Complete(n, "changes")
<1>1. /\ "changes" \in Tools
      /\ QueriesOf("changes") = {<<"events", "now">>, <<"deployments", "now">>}
  BY ToolsAre DEF QueriesOf
<1>2. PICK a, b : a = FromEvents(n) /\ b = FromDeployments(n)
  OBVIOUS
<1>3. Found[n]["changes"] = a \o b
  BY <1>1, <1>2 DEF Found, EvidenceOf, FromChanges
<1>4. Symptoms[n]["changes"] = EventSymptoms(n) \cup DeploymentSymptoms(n)
  BY <1>1 DEF Symptoms, ChangeSymptoms, EventSymptoms, DeploymentSymptoms
<1>5. PICK m \in Nat :
        /\ IsList(a, m)
        /\ \A k \in 1 .. m : /\ a[k].source = "changes" /\ a[k].reference = <<"events", "now">>
                             /\ <<a[k].service, a[k].signal, a[k].at>> \in EventSymptoms(n)
        /\ \A s \in EventSymptoms(n) : \E k \in 1 .. m :
             a[k].service = s[1] /\ a[k].signal = s[2]
  BY <1>2, EventsAre DEF Pieces
<1>6. PICK p \in Nat :
        /\ IsList(b, p)
        /\ \A k \in 1 .. p : /\ b[k].source = "kubernetes"
                             /\ b[k].reference = <<"deployments", "now">>
                             /\ <<b[k].service, b[k].signal, b[k].at>> \in DeploymentSymptoms(n)
        /\ \A s \in DeploymentSymptoms(n) : \E k \in 1 .. p :
             b[k].service = s[1] /\ b[k].signal = s[2]
  BY <1>2, DeploymentsAre DEF Pieces
<1>7. PICK c : c = a \o b
  OBVIOUS
<1>8. IsList(a, m) /\ IsList(b, p)
  BY <1>5, <1>6
<1>9. PICK h \in Nat : /\ IsList(c, h)
                       /\ \A k \in 1 .. m : k \in 1 .. h /\ c[k] = a[k]
                       /\ \A k \in 1 .. p : m + k \in 1 .. h /\ c[m + k] = b[k]
                       /\ \A k \in 1 .. h : (k \in 1 .. m) \/ \E j \in 1 .. p : k = m + j
  <2>1. Joined(c, a, m, b, p)
    BY <1>7, <1>8, JoinedIs
  <2> QED
    BY <2>1 DEF Joined
<1>10. ASSUME NEW k \in 1 .. h PROVE Observed(n, "changes", c[k])
  <2>1. CASE k \in 1 .. m
    BY <1>1, <1>4, <1>5, <1>9, <2>1 DEF Observed
  <2>2. ASSUME NEW j \in 1 .. p, k = m + j PROVE Observed(n, "changes", c[k])
    <3>1. c[k] = b[j]
      BY <1>9, <2>2
    <3> QED
      BY <1>1, <1>4, <1>6, <3>1 DEF Observed
  <2> QED
    BY <1>9, <2>1, <2>2
<1>11. ASSUME NEW s \in EventSymptoms(n) \cup DeploymentSymptoms(n)
       PROVE  \E k \in 1 .. h : c[k].service = s[1] /\ c[k].signal = s[2]
  <2>1. CASE s \in EventSymptoms(n)
    <3>1. PICK k \in 1 .. m : a[k].service = s[1] /\ a[k].signal = s[2]
      BY <1>5, <2>1
    <3>2. k \in 1 .. h /\ c[k].service = s[1] /\ c[k].signal = s[2]
      BY <1>9, <3>1
    <3> QED
      BY <3>2
  <2>2. CASE s \in DeploymentSymptoms(n)
    <3>1. PICK j \in 1 .. p : b[j].service = s[1] /\ b[j].signal = s[2]
      BY <1>6, <2>2
    <3>2. m + j \in 1 .. h /\ c[m + j].service = s[1] /\ c[m + j].signal = s[2]
      BY <1>9, <3>1
    <3> QED
      BY <3>2
  <2> QED
    BY <2>1, <2>2
<1> QED
  <2>1. Found[n]["changes"] = c
    BY <1>3, <1>7
  <2>2. IsList(c, h)
    BY <1>9
  <2> QED
    BY <1>4, <1>10, <1>11, <2>1, <2>2 DEF Complete

---------------------------------------------------------------------------
(* Traces *)

Edges == [caller : STRING, callee : STRING, errors : Nat, p95 : Nat, requests : Nat, first : Nat]

LEMMA GraphIs ==
  ASSUME NEW n \in DOMAIN Worlds, Usable(n, "traces")
  PROVE  /\ Data[n][<<"graph", "incident">>] = Worlds[n].edges
         /\ Worlds[n].edges \in Seq(Edges)
<1>1. "traces" \in Tools /\ <<"graph", "incident">> \in QueriesOf("traces")
  BY ToolsAre DEF QueriesOf
<1>2. <<"graph", "incident">> \in Queries
  BY <1>1 DEF Queries
<1>3. <<"graph", "incident">> \notin QueriesOf("metrics")
  BY MetricQueriesAre
<1>4. Data[n][<<"graph", "incident">>] = Parsed(Worlds[n], <<"graph", "incident">>)
  BY <1>2 DEF Data
<1>5. Parsed(Worlds[n], <<"graph", "incident">>) = Worlds[n].edges
  BY <1>3 DEF Parsed
<1>6. Data[n][<<"graph", "incident">>] \in Seq(Edges)
  BY <1>1, AnswerIs, OtherItems DEF Edges
<1> QED
  BY <1>4, <1>5, <1>6

LEMMA WorseIs ==
  ASSUME NEW a \in Edges, NEW b \in Edges, NEW c \in Edges
  PROVE  /\ WorseEdge(a, b) => ~WorseEdge(b, a)
         /\ WorseEdge(a, b) /\ ~WorseEdge(c, b) => WorseEdge(a, c)
         /\ ~WorseEdge(b, a) => a.errors >= b.errors
BY DEF Edges, WorseEdge

LEMMA MinPair ==
  ASSUME NEW a \in Nat, NEW b \in Nat
  PROVE  Min({a, b}) \in {a, b} /\ Min({a, b}) <= a /\ Min({a, b}) <= b
<1> DEFINE S == {a, b}
<1>1. S \in SUBSET Nat /\ S # {} /\ a \in S /\ b \in S
  OBVIOUS
<1> HIDE DEF S
<1>2. Min(S) \in S /\ Min(S) <= a /\ Min(S) <= b
  BY <1>1, MinIs
<1> QED
  BY <1>2 DEF S

\* The significant edges in the order of Arranged.
SignificantOf(edges) == {i \in DOMAIN edges : Significant(edges[i])}

WorseThan(edges) ==
  [i \in SignificantOf(edges) |->
     {j \in SignificantOf(edges) : \/ WorseEdge(edges[j], edges[i])
                                   \/ j < i /\ ~WorseEdge(edges[i], edges[j])}]

LEMMA WorstEdgesAre ==
  ASSUME NEW edges \in Seq(Edges)
  PROVE  /\ IsFiniteSet(SignificantOf(edges)) /\ SignificantOf(edges) \in SUBSET DOMAIN edges
         /\ Orders(SignificantOf(edges), WorseThan(edges))
         /\ WorstEdges(edges) = Arranged(edges, SignificantOf(edges), WorseThan(edges))
<1> DEFINE S == SignificantOf(edges)
           W == WorseThan(edges)
<1>1. DOMAIN edges \in SUBSET Nat /\ \A i \in DOMAIN edges : edges[i] \in Edges
  BY ItemsAre
<1>2. IsFiniteSet(S)
  <2>1. S \in SUBSET DOMAIN edges /\ IsFiniteSet(DOMAIN edges)
    BY ItemsAre DEF SignificantOf
  <2> QED
    BY <2>1, FS_Subset
<1>3. WorstEdges(edges) = Arranged(edges, S, W)
  BY DEF WorstEdges, SignificantOf, WorseThan
<1>4. S \in SUBSET DOMAIN edges
  BY DEF SignificantOf
<1>5. ASSUME NEW i \in S, NEW j \in S
      PROVE  j \in W[i] <=> \/ WorseEdge(edges[j], edges[i])
                            \/ j < i /\ ~WorseEdge(edges[i], edges[j])
  BY DEF WorseThan
<1>6. W \in [S -> SUBSET S]
  BY DEF WorseThan
<1> HIDE DEF S, W
<1>7. \A i \in S : i \in Nat /\ edges[i] \in Edges
  BY <1>1, <1>4
<1>8. \A i \in S : i \notin W[i]
  BY <1>5, <1>7, WorseIs
<1>9. \A i, j \in S : i = j \/ i \in W[j] \/ j \in W[i]
  BY <1>5, <1>7
<1>10. ASSUME NEW i \in S, NEW j \in W[i], NEW k \in W[j] PROVE k \in W[i]
  <2>1. j \in S /\ k \in S
    BY <1>6
  <2>2. i \in Nat /\ j \in Nat /\ k \in Nat
    BY <1>7, <2>1
  <2>3. PICK a \in Edges, b \in Edges, c \in Edges : a = edges[i] /\ b = edges[j] /\ c = edges[k]
    BY <1>7, <2>1
  <2>4. WorseEdge(b, a) \/ (j < i /\ ~WorseEdge(a, b))
    BY <1>5, <2>1, <2>3
  <2>5. WorseEdge(c, b) \/ (k < j /\ ~WorseEdge(b, c))
    BY <1>5, <2>1, <2>3
  <2>6. WorseEdge(c, a) \/ (k < i /\ ~WorseEdge(a, c))
    BY <2>2, <2>4, <2>5, WorseIs
  <2> QED
    BY <1>5, <2>1, <2>3, <2>6
<1>11. Orders(S, W)
  BY <1>6, <1>8, <1>9, <1>10 DEF Orders
<1> QED
  BY <1>2, <1>3, <1>4, <1>11 DEF S, W

\* The pieces found[k] are made of the edges at the places order[k].
TracedAs(found, edges, m, order) ==
  /\ IsList(found, m)
  /\ \A k \in 1 .. m : /\ order[k] \in SignificantOf(edges)
                       /\ found[k].source = "traces"
                       /\ found[k].reference = <<"graph", "incident">>
                       /\ found[k].service = edges[order[k]].callee
                       /\ found[k].signal = edges[order[k]].caller
                       /\ found[k].at = edges[order[k]].first
                       /\ found[k].confidence = EdgeConfidence(edges[order[k]])
  /\ \A i \in SignificantOf(edges) : \E k \in 1 .. m : order[k] = i
  /\ \A i, k \in 1 .. m : order[i] \in WorseThan(edges)[order[k]] => i < k

LEMMA TracesAre ==
  ASSUME NEW n \in DOMAIN Worlds, Usable(n, "traces")
  PROVE  \E m \in Nat : \E order : TracedAs(Found[n]["traces"], Worlds[n].edges, m, order)
<1> DEFINE edges == Worlds[n].edges
           S == SignificantOf(edges)
           W == WorseThan(edges)
           chosen == Arranged(edges, S, W)
           found == Found[n]["traces"]
           piece(x) == Evidence("traces", x.callee, x.caller, <<"graph", "incident">>,
                                EdgeConfidence(x), x.first)
<1>1. "traces" \in Tools
  BY ToolsAre
<1>2. edges \in Seq(Edges) /\ Data[n][<<"graph", "incident">>] = edges
  BY GraphIs
<1>3. IsFiniteSet(S) /\ Orders(S, W) /\ WorstEdges(edges) = chosen
  BY <1>2, WorstEdgesAre
<1>4. found = [k \in DOMAIN chosen |-> piece(chosen[k])]
  BY <1>1, <1>2, <1>3 DEF Found, EvidenceOf, FromTraces, Map
<1> HIDE DEF found, S, W, edges
<1>5. PICK order : ArrangedAs(chosen, edges, S, W, order)
  BY <1>3, ArrangedIs
<1> HIDE DEF chosen, piece
<1>6. PICK m \in Nat :
        /\ DOMAIN chosen = 1 .. m
        /\ \A k \in 1 .. m : order[k] \in S /\ chosen[k] = edges[order[k]]
        /\ \A i \in S : \E k \in 1 .. m : order[k] = i
        /\ \A i, k \in 1 .. m : order[i] \in W[order[k]] => i < k
  BY <1>5 DEF ArrangedAs
<1>7. IsList(found, m)
  BY <1>4, <1>6 DEF IsList
<1>8. ASSUME NEW k \in 1 .. m
      PROVE  /\ order[k] \in S
             /\ found[k].source = "traces" /\ found[k].reference = <<"graph", "incident">>
             /\ found[k].service = edges[order[k]].callee
             /\ found[k].signal = edges[order[k]].caller
             /\ found[k].at = edges[order[k]].first
             /\ found[k].confidence = EdgeConfidence(edges[order[k]])
  <2>1. PICK x : x = edges[order[k]]
    OBVIOUS
  <2>2. found[k] = piece(x)
    BY <1>4, <1>6, <2>1
  <2> QED
    BY <1>6, <2>1, <2>2 DEF piece, Evidence
<1>9. /\ \A i \in S : \E k \in 1 .. m : order[k] = i
      /\ \A i, k \in 1 .. m : order[i] \in W[order[k]] => i < k
  BY <1>6
<1>10. TracedAs(found, edges, m, order)
  BY <1>7, <1>8, <1>9 DEF TracedAs, S, W
<1> QED
  BY <1>10 DEF found, edges

LEMMA TracesAreComplete ==
  ASSUME NEW n \in DOMAIN Worlds, Usable(n, "traces")
  PROVE  Complete(n, "traces")
<1> DEFINE edges == Worlds[n].edges
           found == Found[n]["traces"]
<1>1. "traces" \in Tools /\ QueriesOf("traces") = {<<"graph", "incident">>}
  BY ToolsAre DEF QueriesOf
<1>2. Symptoms[n]["traces"] =
        {<<e.callee, e.caller, e.first>> :
           e \in {x \in ToSet(edges) : x.errors >= 5 \/ x.p95 >= 500}}
  BY <1>1 DEF Symptoms, TraceSymptoms
<1>7. PICK m \in Nat : \E order : TracedAs(found, edges, m, order)
  BY TracesAre
<1>3. PICK order : TracedAs(found, edges, m, order)
  BY <1>7
<1>4. \A i \in SignificantOf(edges) :
        edges[i] \in {x \in ToSet(edges) : x.errors >= 5 \/ x.p95 >= 500}
  BY DEF SignificantOf, Significant, ToSet
<1> HIDE DEF edges, found
<1>5. ASSUME NEW k \in 1 .. m PROVE Observed(n, "traces", found[k])
  <2>1. <<found[k].service, found[k].signal, found[k].at>> \in Symptoms[n]["traces"]
    BY <1>2, <1>3, <1>4 DEF TracedAs
  <2> QED
    BY <1>1, <1>3, <2>1 DEF Observed, TracedAs
<1>6. ASSUME NEW s \in Symptoms[n]["traces"]
      PROVE  \E k \in 1 .. m : found[k].service = s[1] /\ found[k].signal = s[2]
  <2>1. PICK x \in ToSet(edges) : /\ x.errors >= 5 \/ x.p95 >= 500
                                  /\ s = <<x.callee, x.caller, x.first>>
    BY <1>2
  <2>2. PICK i \in DOMAIN edges : x = edges[i]
    BY DEF ToSet
  <2>3. i \in SignificantOf(edges)
    BY <2>1, <2>2 DEF SignificantOf, Significant
  <2>4. PICK k \in 1 .. m : order[k] = i
    BY <1>3, <2>3 DEF TracedAs
  <2>5. found[k].service = s[1] /\ found[k].signal = s[2]
    BY <1>3, <2>1, <2>2, <2>4 DEF TracedAs
  <2> QED
    BY <2>5
<1> QED
  BY <1>3, <1>5, <1>6 DEF Complete, found, TracedAs

\* Of an edge that is as bad as another, or significant where the other is not, the
\* confidence is what the other's errors give at least.
LEMMA ConfidenceIs ==
  ASSUME NEW a \in Edges, NEW b \in Edges, Significant(a),
         a.errors >= b.errors \/ ~Significant(b)
  PROVE  EdgeConfidence(a) >= Min({600, 210 + 6 * b.errors})
<1>1. PICK x \in Nat, y \in Nat, z \in Nat : x = a.errors /\ y = a.p95 /\ z = b.errors
  BY DEF Edges
<1>2. PICK w \in Nat : w = (3 * y) \div 25 /\ (y >= 500 => w >= 60)
  OBVIOUS
<1>3. PICK u \in Nat, v \in Nat : u = 210 + 6 * x + w /\ v = 210 + 6 * z
  OBVIOUS
<1>4. EdgeConfidence(a) = Min({600, u})
  BY <1>1, <1>2, <1>3 DEF EdgeConfidence
<1>5. u >= v
  BY <1>1, <1>2, <1>3 DEF Significant
<1>6. Min({600, u}) \in {600, u} /\ Min({600, v}) <= 600 /\ Min({600, v}) <= v
      /\ Min({600, v}) \in {600, v}
  BY MinPair
<1>7. Min({600, u}) >= Min({600, v})
  BY <1>5, <1>6
<1> QED
  BY <1>1, <1>3, <1>4, <1>7

\* Where the pieces are cut, it is the worst edges that are left.
LEMMA WorstAreKept ==
  ASSUME NEW n \in DOMAIN Worlds, Usable(n, "traces"), NEW c \in Nat,
         \E m \in Nat : IsList(Found[n]["traces"], m) /\ c <= m,
         NEW edge \in ToSet(Worlds[n].edges),
         ~\E k \in 1 .. c : /\ Found[n]["traces"][k].service = edge.callee
                            /\ Found[n]["traces"][k].signal = edge.caller,
         NEW k \in 1 .. c
  PROVE  Found[n]["traces"][k].confidence >= Min({600, 210 + 6 * edge.errors})
<1> DEFINE edges == Worlds[n].edges
           found == Found[n]["traces"]
           S == SignificantOf(edges)
           W == WorseThan(edges)
<1>17. PICK m \in Nat : \E order : TracedAs(found, edges, m, order)
  BY TracesAre
<1>18. PICK order : TracedAs(found, edges, m, order)
  BY <1>17
<1>1. /\ IsList(found, m)
      /\ \A i \in 1 .. m :
           /\ order[i] \in S
           /\ found[i].service = edges[order[i]].callee
           /\ found[i].signal = edges[order[i]].caller
           /\ found[i].confidence = EdgeConfidence(edges[order[i]])
      /\ \A i \in S : \E j \in 1 .. m : order[j] = i
      /\ \A i, j \in 1 .. m : order[i] \in W[order[j]] => i < j
  <2> HIDE DEF found, edges
  <2> QED
    BY <1>18 DEF TracedAs
<1>2. edges \in Seq(Edges)
  BY GraphIs
<1>3. Orders(S, W) /\ S \in SUBSET DOMAIN edges
  BY <1>2, WorstEdgesAre
<1>4. c <= m
  <2>1. PICK h \in Nat : IsList(found, h) /\ c <= h
    OBVIOUS
  <2>2. 1 .. h = 1 .. m
    BY <1>1, <2>1 DEF IsList
  <2> QED
    BY <2>1, <2>2
<1>5. PICK b \in DOMAIN edges : edge = edges[b]
  BY DEF ToSet
<1>6. \A i \in DOMAIN edges : edges[i] \in Edges
  BY <1>2, ItemsAre
<1>7. \A i \in S : Significant(edges[i])
  BY DEF SignificantOf
<1>8. \A i \in S : \A j \in W[i] :
        \/ WorseEdge(edges[j], edges[i])
        \/ j < i /\ ~WorseEdge(edges[i], edges[j])
  BY DEF WorseThan
<1>9. b \in S <=> Significant(edge)
  BY <1>5 DEF SignificantOf
<1>10. ~\E i \in 1 .. c : found[i].service = edge.callee /\ found[i].signal = edge.caller
  OBVIOUS
<1> HIDE DEF S, W, edges, found
<1>11. k \in 1 .. m
  BY <1>4
<1>12. PICK a : a = order[k] /\ a \in S
  BY <1>1, <1>11
<1>13. edges[a] \in Edges /\ edge \in Edges /\ Significant(edges[a])
  BY <1>3, <1>5, <1>6, <1>7, <1>12
<1>14. edges[a].errors >= edge.errors \/ ~Significant(edge)
  <2> SUFFICES ASSUME Significant(edge) PROVE edges[a].errors >= edge.errors
    OBVIOUS
  <2>1. b \in S
    BY <1>9
  <2>2. PICK j \in 1 .. m : order[j] = b
    BY <1>1, <2>1
  <2>3. found[j].service = edge.callee /\ found[j].signal = edge.caller
    BY <1>1, <1>5, <2>2
  <2>4. ~(j \in 1 .. c)
    BY <1>10, <2>3
  <2>5. ~(j < k) /\ j # k
    BY <2>4
  <2>6. b \notin W[a]
    BY <1>1, <1>11, <1>12, <2>2, <2>5
  <2>7. a # b
    BY <1>1, <1>10, <1>5, <1>11, <1>12
  <2>8. a \in W[b]
    BY <1>3, <1>12, <2>1, <2>6, <2>7 DEF Orders
  <2>9. ~WorseEdge(edge, edges[a])
    BY <1>5, <1>8, <1>13, <2>1, <2>8, WorseIs
  <2> QED
    BY <1>13, <2>9, WorseIs
<1>15. EdgeConfidence(edges[a]) >= Min({600, 210 + 6 * edge.errors})
  BY <1>13, <1>14, ConfidenceIs
<1>16. found[k].confidence = EdgeConfidence(edges[a])
  BY <1>1, <1>11, <1>12
<1> QED
  BY <1>15, <1>16 DEF found

---------------------------------------------------------------------------
(* Metrics: the series that are collected *)

Windows == {"baseline", "incident"}

Samples == [at : Nat, value : Int \cup {NotFinite}]

SeriesItems == [service : Names \cup {None}, samples : Seq(Samples)]

\* The queries of a signal are a pair.
LEMMA QueryPairs ==
  ASSUME NEW i \in DOMAIN Signals
  PROVE  /\ 2 * i - 1 \in DOMAIN MetricQueries /\ 2 * i \in DOMAIN MetricQueries
         /\ MetricQueries[2 * i - 1] = <<Signals[i], "baseline">>
         /\ MetricQueries[2 * i] = <<Signals[i], "incident">>
         /\ Signals[i] \in Names /\ Signals[i] \in ToSet(Signals)
<1>1. /\ DOMAIN Signals = 1 .. Len(Signals) /\ Len(Signals) \in Nat
      /\ Signals \in Seq((Names \cap STRING) \ {"graph", "lines"})
  BY ToolsAssumption, LenProperties
<1>2. PICK h \in Nat : h = Len(Signals)
  BY <1>1
<1>3. i \in 1 .. h
  BY <1>1, <1>2
<1>4. /\ 2 * i - 1 \in 1 .. 2 * h /\ 2 * i \in 1 .. 2 * h
      /\ ((2 * i - 1) + 1) \div 2 = i /\ (2 * i + 1) \div 2 = i
      /\ (2 * i - 1) % 2 = 1 /\ (2 * i) % 2 = 0
  BY <1>3
<1>5. PICK a, b : a = 2 * i - 1 /\ b = 2 * i
  OBVIOUS
<1>6. MetricQueries = [k \in 1 .. 2 * h |->
        <<Signals[(k + 1) \div 2], IF k % 2 = 1 THEN "baseline" ELSE "incident">>]
  BY <1>2 DEF MetricQueries
<1>7. /\ MetricQueries[a] = <<Signals[i], "baseline">>
      /\ MetricQueries[b] = <<Signals[i], "incident">>
  BY <1>4, <1>5, <1>6
<1>8. Signals[i] \in (Names \cap STRING) \ {"graph", "lines"} /\ Signals[i] \in ToSet(Signals)
  BY <1>1, ItemsAre
<1> QED
  BY <1>4, <1>5, <1>6, <1>7, <1>8

LEMMA SignalQueries ==
  ASSUME NEW signal \in ToSet(Signals), NEW window \in Windows
  PROVE  <<signal, window>> \in QueriesOf("metrics") /\ signal \in Names
<1>1. PICK i \in DOMAIN Signals : signal = Signals[i]
  BY DEF ToSet
<1>2. QueriesOf("metrics") = ToSet(MetricQueries)
  BY DEF QueriesOf
<1>3. /\ 2 * i - 1 \in DOMAIN MetricQueries /\ 2 * i \in DOMAIN MetricQueries
      /\ MetricQueries[2 * i - 1] = <<Signals[i], "baseline">>
      /\ MetricQueries[2 * i] = <<Signals[i], "incident">>
      /\ Signals[i] \in Names
  BY QueryPairs
<1> QED
  BY <1>1, <1>2, <1>3 DEF ToSet, Windows

LEMMA SeriesAre ==
  ASSUME NEW n \in DOMAIN Worlds, Usable(n, "metrics"),
         NEW signal \in ToSet(Signals), NEW window \in Windows
  PROVE  /\ Data[n][<<signal, window>>] \in Seq(SeriesItems)
         /\ \A x, y \in ToSet(Data[n][<<signal, window>>]) :
              x.service = y.service /\ x.service # None => x = y
         /\ window = "incident" =>
              \A x \in ToSet(Data[n][<<signal, window>>]), y \in Samples :
                x.service # None /\ y \in ToSet(x.samples)
                  => Worlds[n].percentile[x.service][y.at] \in 0 .. 10
<1>1. PICK q : q = <<signal, window>>
  OBVIOUS
<1>2. "metrics" \in Tools /\ q \in QueriesOf("metrics") /\ q \in Queries
  BY <1>1, SignalQueries, ToolsAre DEF Queries
<1>3. Data[n][q] # Invalid
  BY <1>2 DEF Usable
<1>4. Data[n][q] \in Seq(ItemsOf(q)) /\ ItemsOf(q) = SeriesItems
  <2>1. Data[n][q] \in Seq(ItemsOf(q))
    BY <1>2, AnswerIs
  <2>2. ItemsOf(q) = SeriesItems
    <3>1. q[1] \notin {"graph", "lines"} /\ q[2] \in {"baseline", "incident"}
      BY <1>2, MetricQueriesAre
    <3>2. /\ q # <<"graph", "incident">> /\ q # <<"lines", "incident">>
          /\ q # <<"events", "now">> /\ q # <<"deployments", "now">>
      BY <3>1
    <3> QED
      BY <1>2, <3>2, Zenon DEF ItemsOf, SeriesItems, Samples
  <2> QED
    BY <2>1, <2>2
<1>5. /\ \A i, j \in DOMAIN Data[n][q] :
           Data[n][q][i].service = Data[n][q][j].service
             => i = j \/ Data[n][q][i].service = None
      /\ \A x \in ToSet(Data[n][q]) : q[2] = "incident" /\ x.service # None =>
           \A y \in ToSet(x.samples) : Worlds[n].percentile[x.service][y.at] \in 0 .. 10
  BY <1>2, <1>3, AnswersAssumption
<1>6. PICK d : d = Data[n][q]
  OBVIOUS
<1>7. \A x, y \in ToSet(d) : x.service = y.service /\ x.service # None => x = y
  BY <1>5, <1>6 DEF ToSet
<1>8. q[2] = window
  BY <1>1
<1> QED
  BY <1>1, <1>4, <1>5, <1>6, <1>7, <1>8

\* With one series of each service, the last is the one.
LEMMA ByServiceIs ==
  ASSUME NEW series \in Seq(SeriesItems),
         \A x, y \in ToSet(series) : x.service = y.service /\ x.service # None => x = y
  PROVE  /\ \A s \in DOMAIN ByService(series) : \E x \in ToSet(series) :
              /\ x.service = s /\ s # None
              /\ ByService(series)[s] = x.samples
         /\ \A x \in ToSet(series) : x.service # None =>
              /\ x.service \in DOMAIN ByService(series)
              /\ ByService(series)[x.service] = x.samples
<1>1. /\ IsFiniteSet(DOMAIN series) /\ DOMAIN series \in SUBSET Nat
      /\ \A i \in DOMAIN series : series[i] \in ToSet(series)
      /\ \A x \in ToSet(series) : \E i \in DOMAIN series : x = series[i]
  BY ItemsAre
<1>2. DOMAIN ByService(series) = {x.service : x \in ToSet(series)} \ {None}
  BY DEF ByService
<1>3. ASSUME NEW x \in ToSet(series), x.service # None
      PROVE  ByService(series)[x.service] = x.samples
  <2> DEFINE places == {i \in DOMAIN series : series[i].service = x.service}
  <2>1. PICK i \in DOMAIN series : x = series[i]
    BY <1>1
  <2>2. places \in SUBSET DOMAIN series /\ places # {}
    BY <2>1
  <2>3. IsFiniteSet(places) /\ places \in SUBSET Int
    BY <1>1, <2>2, FS_Subset
  <2>4. x.service \in {y.service : y \in ToSet(series)} \ {None}
    BY <1>3
  <2>5. ByService(series)[x.service] = series[Max(places)].samples
    BY <2>4 DEF ByService
  <2>6. Max(places) \in places
    <3> HIDE DEF places
    <3> QED
      BY <2>2, <2>3, MaxIs
  <2>7. series[Max(places)] = x
    BY <1>1, <1>3, <2>6
  <2> QED
    BY <2>5, <2>7
<1>4. ASSUME NEW s \in DOMAIN ByService(series)
      PROVE  \E x \in ToSet(series) :
               x.service = s /\ s # None /\ ByService(series)[s] = x.samples
  <2>1. PICK x \in ToSet(series) : x.service = s /\ s # None
    BY <1>2
  <2> QED
    BY <1>3, <2>1
<1> QED
  BY <1>2, <1>3, <1>4

Responses(n) ==
  [i \in DOMAIN MetricQueries |->
     [reference |-> MetricQueries[i], data |-> Data[n][MetricQueries[i]]]]

CollectedOf(n) == Collect(Responses(n))

\* The series c is the pair of x and y, of one service and signal.
IsPair(n, c, signal, x, y) ==
  /\ signal \in ToSet(Signals)
  /\ x \in ToSet(Data[n][<<signal, "baseline">>])
  /\ y \in ToSet(Data[n][<<signal, "incident">>])
  /\ y.service = x.service /\ x.service # None
  /\ c = [service |-> x.service, signal |-> signal,
          baseline |-> x.samples, incident |-> y.samples,
          references |-> <<<<signal, "baseline">>, <<signal, "incident">>>>]

LEMMA CollectedAre ==
  ASSUME NEW n \in DOMAIN Worlds, Usable(n, "metrics")
  PROVE  /\ \A c \in CollectedOf(n) : \E signal, x, y : IsPair(n, c, signal, x, y)
         /\ \A c, signal, x, y : IsPair(n, c, signal, x, y) => c \in CollectedOf(n)
<1> DEFINE responses == Responses(n)
           before(i) == ByService(Data[n][<<Signals[i], "baseline">>])
           during(i) == ByService(Data[n][<<Signals[i], "incident">>])
           series(i, s) ==
             [service |-> s, signal |-> Signals[i],
              baseline |-> before(i)[s], incident |-> during(i)[s],
              references |-> <<<<Signals[i], "baseline">>, <<Signals[i], "incident">>>>]
           all(i) == {series(i, s) : s \in DOMAIN before(i) \cap DOMAIN during(i)}
           pair(i) == Pair(responses, i)
           old(i) ==
             {[service |-> s, signal |-> Signals[i],
               baseline |-> ByService(pair(i)[1].data)[s],
               incident |-> ByService(pair(i)[2].data)[s],
               references |-> <<pair(i)[1].reference, pair(i)[2].reference>>] :
                s \in DOMAIN ByService(pair(i)[1].data) \cap DOMAIN ByService(pair(i)[2].data)}
<1>1. CollectedOf(n) = UNION {old(i) : i \in DOMAIN Signals}
  BY DEF CollectedOf, Collect
<1>2. ASSUME NEW i \in DOMAIN Signals PROVE old(i) = all(i)
  <2>1. /\ 2 * i - 1 \in DOMAIN MetricQueries /\ 2 * i \in DOMAIN MetricQueries
        /\ MetricQueries[2 * i - 1] = <<Signals[i], "baseline">>
        /\ MetricQueries[2 * i] = <<Signals[i], "incident">>
    BY QueryPairs
  <2>2. PICK a, b : a = 2 * i - 1 /\ b = 2 * i
    OBVIOUS
  <2>3. pair(i) = <<responses[a], responses[b]>>
    BY <2>2 DEF Pair
  <2>4. /\ responses[a].reference = <<Signals[i], "baseline">>
        /\ responses[b].reference = <<Signals[i], "incident">>
        /\ responses[a].data = Data[n][<<Signals[i], "baseline">>]
        /\ responses[b].data = Data[n][<<Signals[i], "incident">>]
    BY <2>1, <2>2 DEF Responses
  <2> HIDE DEF pair, responses
  <2>5. /\ pair(i)[1].reference = <<Signals[i], "baseline">>
        /\ pair(i)[2].reference = <<Signals[i], "incident">>
        /\ pair(i)[1].data = Data[n][<<Signals[i], "baseline">>]
        /\ pair(i)[2].data = Data[n][<<Signals[i], "incident">>]
    BY <2>3, <2>4
  <2> QED
    BY <2>5
<1> HIDE DEF old
<1>3. CollectedOf(n) = UNION {all(i) : i \in DOMAIN Signals}
  <2> HIDE DEF all
  <2> QED
    BY <1>1, <1>2
<1>4. ASSUME NEW c \in CollectedOf(n) PROVE \E signal, x, y : IsPair(n, c, signal, x, y)
  <2>1. PICK i \in DOMAIN Signals : c \in all(i)
    BY <1>3
  <2>2. PICK s \in DOMAIN before(i) \cap DOMAIN during(i) : c = series(i, s)
    BY <2>1
  <2>3. PICK signal \in ToSet(Signals) : signal = Signals[i]
    BY QueryPairs
  <2>4. PICK b, d : /\ b = Data[n][<<signal, "baseline">>]
                    /\ d = Data[n][<<signal, "incident">>]
    OBVIOUS
  <2>5. /\ b \in Seq(SeriesItems) /\ d \in Seq(SeriesItems)
        /\ \A x, y \in ToSet(b) : x.service = y.service /\ x.service # None => x = y
        /\ \A x, y \in ToSet(d) : x.service = y.service /\ x.service # None => x = y
    BY <2>3, <2>4, SeriesAre DEF Windows
  <2>6. PICK x \in ToSet(b) : x.service = s /\ s # None /\ ByService(b)[s] = x.samples
    <3>1. s \in DOMAIN ByService(b)
      BY <2>2, <2>3, <2>4
    <3> QED
      BY <2>5, <3>1, ByServiceIs
  <2>7. PICK y \in ToSet(d) : y.service = s /\ s # None /\ ByService(d)[s] = y.samples
    <3>1. s \in DOMAIN ByService(d)
      BY <2>2, <2>3, <2>4
    <3> QED
      BY <2>5, <3>1, ByServiceIs
  <2>8. IsPair(n, c, signal, x, y)
    BY <2>2, <2>3, <2>4, <2>6, <2>7 DEF IsPair
  <2> QED
    BY <2>8
<1>5. ASSUME NEW c, NEW signal, NEW x, NEW y, IsPair(n, c, signal, x, y)
      PROVE  c \in CollectedOf(n)
  <2>1. PICK i \in DOMAIN Signals : signal = Signals[i]
    BY <1>5 DEF IsPair, ToSet
  <2>2. PICK b, d : /\ b = Data[n][<<signal, "baseline">>]
                    /\ d = Data[n][<<signal, "incident">>]
    OBVIOUS
  <2>3. /\ b \in Seq(SeriesItems) /\ d \in Seq(SeriesItems)
        /\ \A v, w \in ToSet(b) : v.service = w.service /\ v.service # None => v = w
        /\ \A v, w \in ToSet(d) : v.service = w.service /\ v.service # None => v = w
    BY <1>5, <2>2, SeriesAre DEF Windows, IsPair
  <2>4. /\ x \in ToSet(b) /\ y \in ToSet(d) /\ y.service = x.service /\ x.service # None
        /\ c = [service |-> x.service, signal |-> signal,
                baseline |-> x.samples, incident |-> y.samples,
                references |-> <<<<signal, "baseline">>, <<signal, "incident">>>>]
    BY <1>5, <2>2 DEF IsPair
  <2>5. /\ x.service \in DOMAIN ByService(b) /\ ByService(b)[x.service] = x.samples
    BY <2>3, <2>4, ByServiceIs
  <2>6. /\ x.service \in DOMAIN ByService(d) /\ ByService(d)[x.service] = y.samples
    BY <2>3, <2>4, ByServiceIs
  <2>7. c = series(i, x.service) /\ x.service \in DOMAIN before(i) \cap DOMAIN during(i)
    BY <2>1, <2>2, <2>4, <2>5, <2>6
  <2>8. c \in all(i)
    BY <2>7
  <2> HIDE DEF all
  <2> QED
    BY <1>3, <2>8
<1> QED
  BY <1>4, <1>5

---------------------------------------------------------------------------
(* Metrics: screening and combination *)

LEMMA SampleScoreIs ==
  ASSUME NEW x \in Samples, x.value # NotFinite
  PROVE  /\ SampleScore(x) \in 0 .. 6
         /\ Anomalous(x) <=> Magnitude(x.value) >= 3
<1>1. PICK v \in Int : v = x.value
  BY DEF Samples
<1>2. PICK h \in Nat : h = Magnitude(x.value)
  BY <1>1 DEF Magnitude
<1>3. SampleScore(x) = Min({h, 6})
  BY <1>2 DEF SampleScore
<1>4. Min({h, 6}) \in {h, 6} /\ Min({h, 6}) <= h /\ Min({h, 6}) <= 6
  BY MinPair
<1>5. PICK z : z = SampleScore(x)
  OBVIOUS
<1>6. z \in {h, 6} /\ z <= h /\ z <= 6
  BY <1>3, <1>4, <1>5
<1>7. z \in 0 .. 6 /\ (z >= 3 <=> h >= 3)
  BY <1>6
<1> QED
  BY <1>2, <1>5, <1>7 DEF Anomalous

LEMMA FiniteIs ==
  ASSUME NEW samples \in Seq(Samples)
  PROVE  /\ Finite(samples) \subseteq Samples
         /\ \A x \in Finite(samples) : x.value # NotFinite /\ x \in ToSet(samples)
<1>1. \A x \in ToSet(samples) : x \in Samples
  BY ItemsAre
<1> QED
  BY <1>1 DEF Finite

\* Of scored samples one is the first of the greatest scores.
LEMMA PeakExists ==
  ASSUME NEW samples \in SUBSET Samples, samples # {}, \A x \in samples : x.value # NotFinite
  PROVE  \E x \in samples : \A y \in samples :
           \/ SampleScore(x) > SampleScore(y)
           \/ SampleScore(x) = SampleScore(y) /\ x.at <= y.at
<1> DEFINE lacks == {6 - SampleScore(x) : x \in samples}
<1>1. \A x \in samples : SampleScore(x) \in 0 .. 6 /\ x.at \in Nat
  BY SampleScoreIs DEF Samples
<1>2. lacks \in SUBSET Nat /\ lacks # {}
  BY <1>1
<1> HIDE DEF lacks
<1>3. PICK h \in lacks : \A l \in lacks : h <= l
  BY <1>2, LeastNatural
<1> DEFINE best == {x \in samples : 6 - SampleScore(x) = h}
           times == {x.at : x \in best}
<1>4. best # {}
  BY <1>3 DEF lacks
<1>5. times \in SUBSET Nat /\ times # {}
  BY <1>1, <1>4
<1> HIDE DEF times
<1>6. PICK t \in times : \A u \in times : t <= u
  BY <1>5, LeastNatural
<1>7. PICK x \in best : x.at = t
  BY <1>6 DEF times
<1>8. ASSUME NEW y \in samples
      PROVE  \/ SampleScore(x) > SampleScore(y)
             \/ SampleScore(x) = SampleScore(y) /\ x.at <= y.at
  <2>1. h <= 6 - SampleScore(y) /\ 6 - SampleScore(x) = h /\ h \in Nat
    BY <1>2, <1>3, <1>7 DEF lacks
  <2>2. SampleScore(x) \in 0 .. 6 /\ SampleScore(y) \in 0 .. 6
    BY <1>1, <1>7
  <2>3. CASE SampleScore(x) > SampleScore(y)
    BY <2>3
  <2>4. CASE ~(SampleScore(x) > SampleScore(y))
    <3>1. SampleScore(x) = SampleScore(y)
      BY <2>1, <2>2, <2>4
    <3>2. y \in best
      BY <2>1, <3>1
    <3>3. x.at <= y.at
      BY <1>6, <1>7, <3>2 DEF times
    <3> QED
      BY <3>1, <3>3
  <2> QED
    BY <2>3, <2>4
<1> QED
  BY <1>7, <1>8

\* The scores of a screened series, and its onset.
ScreenedAs(r, s) ==
  /\ r.series = s
  /\ r.score \in 0 .. 6
  /\ \E x \in Finite(s.incident) : r.peak = x.at
  /\ r.start # None =>
       /\ r.score >= 3
       /\ \E x \in Finite(s.incident) : Magnitude(x.value) >= 3 /\ r.start = x.at
  /\ \A x \in Finite(s.incident) : Magnitude(x.value) >= 3
       => r.start # None /\ r.start <= x.at

LEMMA ScreenIs ==
  ASSUME NEW s, s.incident \in Seq(Samples), Scorable(s)
  PROVE  ScreenedAs(Screen(s), s)
<1> DEFINE samples == Finite(s.incident)
           IsPeak(x) == \A y \in samples :
             \/ SampleScore(x) > SampleScore(y)
             \/ SampleScore(x) = SampleScore(y) /\ x.at <= y.at
           peak == CHOOSE x \in samples : IsPeak(x)
           anomalous == {x.at : x \in {y \in samples : Anomalous(y)}}
           start == IF anomalous = {} THEN None ELSE Min(anomalous)
<1>1. Screen(s) = [series |-> s, score |-> SampleScore(peak), peak |-> peak.at,
                   direction |-> IF peak.value >= 0 THEN "high" ELSE "low",
                   start |-> start]
  BY DEF Screen
<1>2. samples \in SUBSET Samples /\ samples # {} /\ \A x \in samples : x.value # NotFinite
  BY FiniteIs DEF Scorable
<1> HIDE DEF samples
<1>3. peak \in samples /\ IsPeak(peak)
  BY <1>2, PeakExists
<1> HIDE DEF peak
<1>4. \A x \in samples : /\ SampleScore(x) \in 0 .. 6 /\ x.at \in Nat
                         /\ Anomalous(x) <=> Magnitude(x.value) >= 3
  BY <1>2, SampleScoreIs DEF Samples
<1>5. anomalous \in SUBSET Nat
  BY <1>4
<1>6. ASSUME anomalous # {} PROVE Min(anomalous) \in anomalous /\ \A t \in anomalous : Min(anomalous) <= t
  <2> HIDE DEF anomalous
  <2> QED
    BY <1>5, <1>6, MinIs
<1>7. None \notin Nat
  BY EngineAssumption
<1>8. ASSUME start # None
      PROVE  /\ SampleScore(peak) >= 3
             /\ \E x \in samples : Magnitude(x.value) >= 3 /\ start = x.at
  <2>1. anomalous # {} /\ start = Min(anomalous)
    BY <1>8
  <2>2. PICK x \in samples : Anomalous(x) /\ start = x.at
    BY <1>6, <2>1
  <2>3. PICK a \in 0 .. 6, b \in 0 .. 6 : a = SampleScore(peak) /\ b = SampleScore(x)
    BY <1>3, <1>4
  <2>4. a >= b /\ b >= 3
    BY <1>3, <2>2, <2>3 DEF Anomalous
  <2>5. SampleScore(peak) >= 3
    BY <2>3, <2>4
  <2>6. Magnitude(x.value) >= 3 /\ start = x.at
    BY <1>4, <2>2
  <2> QED
    BY <2>5, <2>6
<1>9. ASSUME NEW x \in samples, Magnitude(x.value) >= 3 PROVE start # None /\ start <= x.at
  <2>1. x.at \in anomalous
    BY <1>4, <1>9
  <2>2. start = Min(anomalous) /\ Min(anomalous) \in Nat /\ Min(anomalous) <= x.at
    BY <1>5, <1>6, <2>1
  <2> QED
    BY <1>7, <2>2
<1>10. PICK r : r = Screen(s)
  OBVIOUS
<1> HIDE DEF start, anomalous
<1>11. /\ r.series = s /\ r.score = SampleScore(peak) /\ r.peak = peak.at /\ r.start = start
  BY <1>1, <1>10
<1>12. ScreenedAs(r, s)
  BY <1>3, <1>4, <1>8, <1>9, <1>11 DEF ScreenedAs, samples
<1> QED
  BY <1>10, <1>12

\* Some time of any is the nearest, the earlier of two.
LEMMA NearestIs ==
  ASSUME NEW rows \in SUBSET Nat, rows # {}, NEW at \in Nat
  PROVE  Nearest(rows, at) \in rows
<1> DEFINE gaps == {Magnitude(x - at) : x \in rows}
           IsNearest(x) == \A y \in rows :
             \/ Magnitude(x - at) < Magnitude(y - at)
             \/ Magnitude(x - at) = Magnitude(y - at) /\ x <= y
<1>1. \A x \in rows : Magnitude(x - at) \in Nat
  BY DEF Magnitude
<1>2. gaps \in SUBSET Nat /\ gaps # {}
  BY <1>1
<1> HIDE DEF gaps
<1>3. PICK h \in gaps : \A l \in gaps : h <= l
  BY <1>2, LeastNatural
<1> DEFINE near == {x \in rows : Magnitude(x - at) = h}
<1>4. near \in SUBSET Nat /\ near # {}
  BY <1>3 DEF gaps
<1> HIDE DEF near
<1>5. PICK x \in near : \A y \in near : x <= y
  BY <1>4, LeastNatural
<1>6. x \in rows /\ Magnitude(x - at) = h
  BY <1>5 DEF near
<1>7. ASSUME NEW y \in rows
      PROVE  \/ Magnitude(x - at) < Magnitude(y - at)
             \/ Magnitude(x - at) = Magnitude(y - at) /\ x <= y
  <2>1. PICK l \in Nat : l = Magnitude(y - at)
    BY <1>1
  <2>2. l \in gaps /\ h \in Nat
    BY <1>2, <2>1 DEF gaps
  <2>3. h <= l
    BY <1>3, <2>2
  <2>4. l = h => x <= y
    BY <1>5, <2>1 DEF near
  <2> QED
    BY <1>6, <2>1, <2>2, <2>3, <2>4
<1>8. \E z \in rows : IsNearest(z)
  BY <1>6, <1>7
<1>9. Nearest(rows, at) = CHOOSE z \in rows : IsNearest(z)
  BY DEF Nearest
<1> HIDE DEF IsNearest
<1> QED
  BY <1>8, <1>9

---------------------------------------------------------------------------
(* Metrics: the anomalies that are reported *)

\* What Analyze makes of the collected series, step by step.
ResultsOf(n) == {Screen(s) : s \in {x \in CollectedOf(n) : Scorable(x)}}

Candidates(n) == {r \in ResultsOf(n) : r.start # None}

RowsOf(n, service) ==
  ForestRows({r.series : r \in {x \in ResultsOf(n) : x.series.service = service}})

AnomalyOf(n, r) ==
  [service |-> r.series.service, signal |-> r.series.signal,
   score |-> Combined(r, RowsOf(n, r.series.service), Worlds[n].percentile),
   direction |-> r.direction, start |-> r.start, peak |-> r.peak,
   references |-> r.series.references]

Reported(n) == {a \in {AnomalyOf(n, r) : r \in Candidates(n)} : a.score >= MinimumScore}

RankedBefore(n) == [a \in Reported(n) |-> {b \in Reported(n) : RanksBefore(b, a)}]

LEMMA AnalysisIs ==
  ASSUME NEW n \in DOMAIN Worlds, Snapshot[n] # None
  PROVE  /\ Usable(n, "metrics")
         /\ Snapshot[n].anomalies = InOrder(Reported(n), RankedBefore(n))
<1>1. Usable(n, "metrics") /\ Snapshot[n] = Analysis(n) /\ Analysis(n) # None
  BY DEF Snapshot
<1>2. PICK analyzed : analyzed = Analyze(CollectedOf(n), Worlds[n].percentile)
  OBVIOUS
<1>3. Analysis(n) = [analyzed EXCEPT !.warnings = @ \cup Absent(Responses(n))]
  BY <1>1, <1>2 DEF Analysis, CollectedOf, Responses
<1>4. /\ DOMAIN analyzed = {"anomalies", "warnings"}
      /\ analyzed.anomalies = InOrder(Reported(n), RankedBefore(n))
  BY <1>2, Zenon DEF Analyze, Reported, RankedBefore, Candidates, ResultsOf, AnomalyOf, RowsOf
<1>5. Analysis(n).anomalies = analyzed.anomalies
  BY <1>3, <1>4
<1> QED
  BY <1>1, <1>4, <1>5

\* A collected series is of one service and signal, that no other is of.
LEMMA CollectedSeries ==
  ASSUME NEW n \in DOMAIN Worlds, Usable(n, "metrics"), NEW c \in CollectedOf(n)
  PROVE  /\ c.baseline \in Seq(Samples) /\ c.incident \in Seq(Samples)
         /\ c.service \in Names /\ c.signal \in Names
         /\ \A y \in Finite(c.incident) :
              y.at \in Nat /\ Worlds[n].percentile[c.service][y.at] \in 0 .. 10
         /\ \A d \in CollectedOf(n) : d.service = c.service /\ d.signal = c.signal => d = c
<1>1. PICK signal, x, y : IsPair(n, c, signal, x, y)
  BY CollectedAre
<1>2. PICK before, during : /\ before = Data[n][<<signal, "baseline">>]
                            /\ during = Data[n][<<signal, "incident">>]
  OBVIOUS
<1>3. /\ signal \in ToSet(Signals) /\ x \in ToSet(before) /\ y \in ToSet(during)
      /\ y.service = x.service /\ x.service # None
      /\ c.service = x.service /\ c.signal = signal
      /\ c.baseline = x.samples /\ c.incident = y.samples
  BY <1>1, <1>2 DEF IsPair
<1>4. /\ before \in Seq(SeriesItems) /\ during \in Seq(SeriesItems)
      /\ \A v, w \in ToSet(before) : v.service = w.service /\ v.service # None => v = w
      /\ \A v, w \in ToSet(during) : v.service = w.service /\ v.service # None => v = w
      /\ \A v \in ToSet(during), w \in Samples :
           v.service # None /\ w \in ToSet(v.samples)
             => Worlds[n].percentile[v.service][w.at] \in 0 .. 10
  BY <1>2, <1>3, SeriesAre DEF Windows
<1>5. x \in SeriesItems /\ y \in SeriesItems
  BY <1>3, <1>4, ItemsAre
<1>6. /\ x.samples \in Seq(Samples) /\ y.samples \in Seq(Samples)
      /\ x.service \in Names
  BY <1>3, <1>5 DEF SeriesItems
<1>7. signal \in Names
  BY <1>3, SignalQueries DEF Windows
<1>8. ASSUME NEW z \in Finite(c.incident)
      PROVE  z.at \in Nat /\ Worlds[n].percentile[c.service][z.at] \in 0 .. 10
  <2>1. z \in Samples /\ z \in ToSet(y.samples)
    BY <1>3, <1>6, <1>8, FiniteIs
  <2> QED
    BY <1>3, <1>4, <2>1 DEF Samples
<1>9. ASSUME NEW d \in CollectedOf(n), d.service = c.service, d.signal = c.signal PROVE d = c
  <2>1. PICK other, v, w : IsPair(n, d, other, v, w)
    BY CollectedAre
  <2>2. other = signal /\ v.service = x.service
    BY <1>3, <1>9, <2>1 DEF IsPair
  <2>3. v \in ToSet(before) /\ w \in ToSet(during) /\ w.service = y.service
    BY <1>2, <1>3, <2>1, <2>2 DEF IsPair
  <2>4. v = x /\ w = y
    BY <1>3, <1>4, <2>2, <2>3
  <2> QED
    BY <1>1, <2>1, <2>2, <2>4 DEF IsPair
<1> QED
  BY <1>3, <1>6, <1>7, <1>8, <1>9

LEMMA ResultIs ==
  ASSUME NEW n \in DOMAIN Worlds, Usable(n, "metrics"), NEW r \in ResultsOf(n)
  PROVE  /\ r.series \in CollectedOf(n) /\ Scorable(r.series)
         /\ r = Screen(r.series) /\ ScreenedAs(r, r.series)
<1>1. PICK s \in CollectedOf(n) : Scorable(s) /\ r = Screen(s)
  BY DEF ResultsOf
<1>2. s.incident \in Seq(Samples)
  BY CollectedSeries
<1>3. ScreenedAs(r, s)
  BY <1>1, <1>2, ScreenIs
<1>4. r.series = s
  BY <1>3 DEF ScreenedAs
<1> QED
  BY <1>1, <1>3, <1>4

\* The forest's rows are times of the series itself.
LEMMA RowsAre ==
  ASSUME NEW n \in DOMAIN Worlds, NEW r \in ResultsOf(n),
         NEW at \in RowsOf(n, r.series.service)
  PROVE  \E y \in Finite(r.series.incident) : at = y.at
<1> DEFINE group == {x.series : x \in {y \in ResultsOf(n) : y.series.service = r.series.service}}
           windows == {s.incident : s \in group}
<1>1. r.series \in group
  OBVIOUS
<1>2. r.series.incident \in windows
  <2> HIDE DEF group
  <2> QED
    BY <1>1
<1>3. at \in ForestRows(group)
  BY DEF RowsOf
<1> HIDE DEF group
<1>4. at \in AlignedRows(windows)
  BY <1>3 DEF ForestRows
<1> HIDE DEF windows
<1>5. \A w \in windows : \E x \in Finite(w) : x.at = at
  BY <1>4 DEF AlignedRows
<1> QED
  BY <1>2, <1>5

\* No candidate falls below the minimum score, whatever the forest says.
LEMMA CombinedIs ==
  ASSUME NEW n \in DOMAIN Worlds, Usable(n, "metrics"), NEW r \in Candidates(n)
  PROVE  Combined(r, RowsOf(n, r.series.service), Worlds[n].percentile) \in 210 .. 600
<1>1. r \in ResultsOf(n) /\ r.start # None
  BY DEF Candidates
<1>2. r.series \in CollectedOf(n) /\ ScreenedAs(r, r.series)
  BY <1>1, ResultIs
<1>3. PICK h \in 3 .. 6 : h = r.score
  BY <1>1, <1>2 DEF ScreenedAs
<1>4. PICK rows : rows = RowsOf(n, r.series.service)
  OBVIOUS
<1>5. PICK percentile : percentile = Worlds[n].percentile
  OBVIOUS
<1>6. CASE rows = {}
  <2>1. Combined(r, rows, percentile) = 100 * h
    BY <1>3, <1>6 DEF Combined
  <2> QED
    BY <1>4, <1>5, <2>1
<1>7. CASE rows # {}
  <2>1. \A y \in Finite(r.series.incident) :
          y.at \in Nat /\ percentile[r.series.service][y.at] \in 0 .. 10
    BY <1>2, <1>5, CollectedSeries
  <2>2. \A at \in rows : at \in Nat /\ percentile[r.series.service][at] \in 0 .. 10
    BY <1>1, <1>4, <2>1, RowsAre
  <2>3. r.peak \in Nat
    BY <1>2, <2>1 DEF ScreenedAs
  <2>4. Nearest(rows, r.peak) \in rows
    BY <1>7, <2>2, <2>3, NearestIs
  <2>5. PICK p \in 0 .. 10 : p = percentile[r.series.service][Nearest(rows, r.peak)]
    BY <2>2, <2>4
  <2>6. Combined(r, rows, percentile) = 70 * h + 18 * p
    BY <1>3, <1>7, <2>5 DEF Combined
  <2>7. 70 * h + 18 * p \in 210 .. 600
    OBVIOUS
  <2> QED
    BY <1>4, <1>5, <2>6, <2>7
<1> QED
  BY <1>6, <1>7

\* The anomaly a tells of the series y, of the signal in the incident's window.
AnomalyIs(n, a, signal, x, y) ==
  /\ \E c : IsPair(n, c, signal, x, y)
  /\ Cardinality(Finite(x.samples)) >= MinimumBaseline
  /\ a.service = x.service /\ a.signal = signal
  /\ a.references = <<<<signal, "baseline">>, <<signal, "incident">>>>
  /\ a.score \in MinimumScore .. 600
  /\ a.start \in Nat
  /\ \E z \in Finite(y.samples) : Magnitude(z.value) >= 3 /\ a.start = z.at
  /\ \A z \in Finite(y.samples) : Magnitude(z.value) >= 3 => a.start <= z.at

LEMMA CandidateIs ==
  ASSUME NEW n \in DOMAIN Worlds, Usable(n, "metrics"), NEW r \in Candidates(n)
  PROVE  /\ AnomalyOf(n, r) \in Reported(n)
         /\ \E signal, x, y : /\ IsPair(n, r.series, signal, x, y)
                              /\ AnomalyIs(n, AnomalyOf(n, r), signal, x, y)
<1>1. r \in ResultsOf(n) /\ r.start # None
  BY DEF Candidates
<1>2. r.series \in CollectedOf(n) /\ ScreenedAs(r, r.series) /\ Scorable(r.series)
  BY <1>1, ResultIs
<1>3. PICK a : a = AnomalyOf(n, r)
  OBVIOUS
<1>4. /\ a.service = r.series.service /\ a.signal = r.series.signal
      /\ a.references = r.series.references /\ a.start = r.start
      /\ a.score = Combined(r, RowsOf(n, r.series.service), Worlds[n].percentile)
  BY <1>3 DEF AnomalyOf
<1>5. a.score \in 210 .. 600
  BY <1>4, CombinedIs
<1>6. MinimumScore \in Nat /\ MinimumScore <= 210
  BY EngineAssumption, ToolsAssumption
<1>7. PICK h \in 210 .. 600 : h = a.score
  BY <1>5
<1>8. a.score >= MinimumScore /\ a.score \in MinimumScore .. 600
  BY <1>6, <1>7
<1>9. a \in Reported(n)
  BY <1>3, <1>8 DEF Reported
<1>10. PICK signal, x, y : IsPair(n, r.series, signal, x, y)
  BY <1>2, CollectedAre
<1>11. /\ r.series.service = x.service /\ r.series.signal = signal
       /\ r.series.baseline = x.samples /\ r.series.incident = y.samples
       /\ r.series.references = <<<<signal, "baseline">>, <<signal, "incident">>>>
  BY <1>10 DEF IsPair
<1>12. \A z \in Finite(y.samples) : z.at \in Nat
  BY <1>2, <1>11, CollectedSeries
<1>13. Cardinality(Finite(x.samples)) >= MinimumBaseline
  BY <1>2, <1>11 DEF Scorable
<1>14. /\ \E z \in Finite(y.samples) : Magnitude(z.value) >= 3 /\ a.start = z.at
       /\ \A z \in Finite(y.samples) : Magnitude(z.value) >= 3 => a.start <= z.at
  BY <1>1, <1>2, <1>4, <1>11 DEF ScreenedAs
<1>15. a.start \in Nat
  BY <1>12, <1>14
<1>16. AnomalyIs(n, a, signal, x, y)
  BY <1>4, <1>8, <1>10, <1>11, <1>13, <1>14, <1>15 DEF AnomalyIs
<1> QED
  BY <1>3, <1>9, <1>10, <1>16

LEMMA ReportedAre ==
  ASSUME NEW n \in DOMAIN Worlds, Usable(n, "metrics")
  PROVE  /\ \A a \in Reported(n) : a.service \in Names /\ a.signal \in Names
         /\ \A a \in Reported(n) : \E signal, x, y : AnomalyIs(n, a, signal, x, y)
         /\ \A a, b \in Reported(n) : a.service = b.service /\ a.signal = b.signal => a = b
<1>1. ASSUME NEW a \in Reported(n)
      PROVE  \E r \in Candidates(n) : a = AnomalyOf(n, r)
  BY DEF Reported
<1>2. ASSUME NEW r \in Candidates(n)
      PROVE  r \in ResultsOf(n) /\ r.series \in CollectedOf(n) /\ r = Screen(r.series)
  <2>1. r \in ResultsOf(n)
    BY DEF Candidates
  <2> QED
    BY <2>1, ResultIs
<1>3. \A r : /\ AnomalyOf(n, r).service = r.series.service
             /\ AnomalyOf(n, r).signal = r.series.signal
  BY DEF AnomalyOf
<1>4. ASSUME NEW a \in Reported(n) PROVE a.service \in Names /\ a.signal \in Names
  <2>1. PICK r \in Candidates(n) : a = AnomalyOf(n, r)
    BY <1>1
  <2>2. PICK c \in CollectedOf(n) : c = r.series
    BY <1>2
  <2>3. c.service \in Names /\ c.signal \in Names
    BY CollectedSeries
  <2> QED
    BY <1>3, <2>1, <2>2, <2>3
<1>5. ASSUME NEW a \in Reported(n) PROVE \E signal, x, y : AnomalyIs(n, a, signal, x, y)
  BY <1>1, CandidateIs
<1>6. ASSUME NEW a \in Reported(n), NEW b \in Reported(n),
             a.service = b.service, a.signal = b.signal
      PROVE  a = b
  <2>1. PICK r \in Candidates(n), q \in Candidates(n) :
          a = AnomalyOf(n, r) /\ b = AnomalyOf(n, q)
    BY <1>1
  <2>2. r.series.service = q.series.service /\ r.series.signal = q.series.signal
    BY <1>3, <1>6, <2>1
  <2>3. r.series = q.series
    BY <1>2, <2>2, CollectedSeries
  <2>4. r = q
    BY <1>2, <2>3
  <2> QED
    BY <2>1, <2>4
<1> QED
  BY <1>4, <1>5, <1>6

\* No symptom is without its anomaly.
LEMMA SymptomsHaveAnomalies ==
  ASSUME NEW n \in DOMAIN Worlds, Usable(n, "metrics"), NEW c, NEW signal, NEW x, NEW y,
         IsPair(n, c, signal, x, y), Cardinality(Finite(x.samples)) >= MinimumBaseline,
         NEW z \in Finite(y.samples), Magnitude(z.value) >= 3
  PROVE  \E a \in Reported(n) : a.service = x.service /\ a.signal = signal
<1>1. c \in CollectedOf(n)
  BY CollectedAre
<1>2. /\ c.service = x.service /\ c.signal = signal
      /\ c.baseline = x.samples /\ c.incident = y.samples
  BY DEF IsPair
<1>3. Scorable(c)
  BY <1>2 DEF Scorable
<1>4. Screen(c) \in ResultsOf(n)
  BY <1>1, <1>3 DEF ResultsOf
<1>5. PICK r : r = Screen(c)
  OBVIOUS
<1>6. c.incident \in Seq(Samples)
  BY <1>1, CollectedSeries
<1>7. ScreenedAs(r, c)
  BY <1>3, <1>5, <1>6, ScreenIs
<1>8. r.start # None /\ r.series = c
  BY <1>2, <1>7 DEF ScreenedAs
<1>9. r \in Candidates(n)
  BY <1>4, <1>5, <1>8 DEF Candidates
<1>10. AnomalyOf(n, r) \in Reported(n)
  BY <1>9, CandidateIs
<1>11. AnomalyOf(n, r).service = x.service /\ AnomalyOf(n, r).signal = signal
  BY <1>2, <1>8 DEF AnomalyOf
<1> QED
  BY <1>10, <1>11

---------------------------------------------------------------------------
(* Metrics: the ranking *)

LEMMA FiniteServices ==
  ASSUME NEW series, IsFiniteSet(DOMAIN series)
  PROVE  IsFiniteSet(DOMAIN ByService(series))
<1> DEFINE f == [i \in DOMAIN series |-> series[i].service]
<1>1. IsFiniteSet({f[i] : i \in DOMAIN f})
  <2>1. IsFiniteSet(DOMAIN f)
    OBVIOUS
  <2> HIDE DEF f
  <2> QED
    BY <2>1, FiniteImage
<1>2. DOMAIN ByService(series) \subseteq {f[i] : i \in DOMAIN f}
  BY DEF ByService, ToSet
<1> QED
  BY <1>1, <1>2, FS_Subset

\* Finitely many series come of finitely many answers.
LEMMA FiniteCollection ==
  ASSUME NEW responses,
         \A i \in 1 .. 2 * Len(Signals) : IsFiniteSet(DOMAIN responses[i].data)
  PROVE  IsFiniteSet(Collect(responses))
<1> DEFINE pair(i) == Pair(responses, i)
           before(i) == ByService(pair(i)[1].data)
           during(i) == ByService(pair(i)[2].data)
           both(i) == DOMAIN before(i) \cap DOMAIN during(i)
           series(i, s) ==
             [service |-> s, signal |-> Signals[i],
              baseline |-> before(i)[s], incident |-> during(i)[s],
              references |-> <<pair(i)[1].reference, pair(i)[2].reference>>]
           all(i) == {series(i, s) : s \in both(i)}
           family == {all(i) : i \in DOMAIN Signals}
<1>1. Collect(responses) = UNION family
  BY DEF Collect
<1>2. DOMAIN Signals = 1 .. Len(Signals) /\ Len(Signals) \in Nat
  BY ToolsAssumption, LenProperties
<1>3. ASSUME NEW i \in DOMAIN Signals PROVE IsFiniteSet(all(i))
  <2>1. pair(i) = <<responses[2 * i - 1], responses[2 * i]>>
    BY DEF Pair
  <2>2. 2 * i - 1 \in 1 .. 2 * Len(Signals) /\ 2 * i \in 1 .. 2 * Len(Signals)
    BY <1>2
  <2>3. IsFiniteSet(DOMAIN pair(i)[1].data)
    BY <2>1, <2>2
  <2> HIDE DEF pair
  <2>4. IsFiniteSet(DOMAIN before(i))
    BY <2>3, FiniteServices
  <2> HIDE DEF before, during
  <2>5. IsFiniteSet(both(i))
    BY <2>4, FS_Subset
  <2> DEFINE f == [s \in both(i) |-> series(i, s)]
  <2>6. IsFiniteSet(DOMAIN f)
    BY <2>5
  <2>7. IsFiniteSet({f[s] : s \in DOMAIN f})
    <3> HIDE DEF f
    <3> QED
      BY <2>6, FiniteImage
  <2>8. {f[s] : s \in DOMAIN f} = all(i)
    <3> HIDE DEF series, both
    <3> QED
      OBVIOUS
  <2> QED
    BY <2>7, <2>8
<1> HIDE DEF all
<1>4. IsFiniteSet(family)
  <2> DEFINE f == [i \in DOMAIN Signals |-> all(i)]
  <2>1. IsFiniteSet(DOMAIN f)
    BY <1>2, FS_Interval
  <2>2. IsFiniteSet({f[i] : i \in DOMAIN f})
    <3> HIDE DEF f
    <3> QED
      BY <2>1, FiniteImage
  <2>3. {f[i] : i \in DOMAIN f} = family
    OBVIOUS
  <2> QED
    BY <2>2, <2>3
<1>5. \A T \in family : IsFiniteSet(T)
  BY <1>3
<1> HIDE DEF family
<1> QED
  BY <1>1, <1>4, <1>5, FS_UNION

LEMMA FiniteReported ==
  ASSUME NEW n \in DOMAIN Worlds, Usable(n, "metrics")
  PROVE  IsFiniteSet(Reported(n))
<1> DEFINE collected == CollectedOf(n)
           scorable == {x \in collected : Scorable(x)}
           all == {AnomalyOf(n, r) : r \in Candidates(n)}
<1>1. IsFiniteSet(collected)
  <2>1. ASSUME NEW i \in 1 .. 2 * Len(Signals)
        PROVE  IsFiniteSet(DOMAIN Responses(n)[i].data)
    <3>1. i \in DOMAIN MetricQueries
      BY DEF MetricQueries
    <3>2. PICK q : q = MetricQueries[i] /\ q \in QueriesOf("metrics")
      BY <3>1 DEF QueriesOf, ToSet
    <3>3. Data[n][q] \in Seq(ItemsOf(q))
      BY <3>2, AnswerIs, ToolsAre
    <3>4. IsFiniteSet(DOMAIN Data[n][q])
      BY <3>3, ItemsAre
    <3>5. Responses(n)[i].data = Data[n][q]
      BY <3>1, <3>2 DEF Responses
    <3> QED
      BY <3>4, <3>5
  <2> QED
    BY <2>1, FiniteCollection DEF CollectedOf
<1>2. IsFiniteSet(ResultsOf(n))
  <2> DEFINE f == [s \in scorable |-> Screen(s)]
  <2>1. IsFiniteSet(DOMAIN f)
    BY <1>1, FS_Subset
  <2>2. IsFiniteSet({f[s] : s \in DOMAIN f})
    <3> HIDE DEF f
    <3> QED
      BY <2>1, FiniteImage
  <2>3. {f[s] : s \in DOMAIN f} = ResultsOf(n)
    BY DEF ResultsOf
  <2> QED
    BY <2>2, <2>3
<1>3. IsFiniteSet(Candidates(n))
  <2>1. Candidates(n) \in SUBSET ResultsOf(n)
    BY DEF Candidates
  <2> QED
    BY <1>2, <2>1, FS_Subset
<1>4. IsFiniteSet(all)
  <2> DEFINE f == [r \in Candidates(n) |-> AnomalyOf(n, r)]
  <2>1. IsFiniteSet(DOMAIN f)
    BY <1>3
  <2>2. IsFiniteSet({f[r] : r \in DOMAIN f})
    <3> HIDE DEF f
    <3> QED
      BY <2>1, FiniteImage
  <2>3. {f[r] : r \in DOMAIN f} = all
    OBVIOUS
  <2> QED
    BY <2>2, <2>3
<1>5. Reported(n) \in SUBSET all
  BY DEF Reported
<1> HIDE DEF all
<1> QED
  BY <1>4, <1>5, FS_Subset

\* The tuples of four integers in the order of their first difference.
Ahead(p, q) == \E i \in 1 .. 4 : p[i] < q[i] /\ \A j \in 1 .. i - 1 : p[j] = q[j]

LEMMA AheadIs ==
  ASSUME NEW p \in [1 .. 4 -> Int], NEW q \in [1 .. 4 -> Int], NEW r \in [1 .. 4 -> Int]
  PROVE  /\ ~Ahead(p, p)
         /\ Ahead(p, q) /\ Ahead(q, r) => Ahead(p, r)
         /\ p # q => Ahead(p, q) \/ Ahead(q, p)
<1>1. ~Ahead(p, p)
  BY DEF Ahead
<1>2. ASSUME Ahead(p, q), Ahead(q, r) PROVE Ahead(p, r)
  <2>1. PICK i \in 1 .. 4 : p[i] < q[i] /\ \A j \in 1 .. i - 1 : p[j] = q[j]
    BY <1>2 DEF Ahead
  <2>2. PICK h \in 1 .. 4 : q[h] < r[h] /\ \A j \in 1 .. h - 1 : q[j] = r[j]
    BY <1>2 DEF Ahead
  <2>3. CASE i < h
    <3>1. q[i] = r[i] /\ \A j \in 1 .. i - 1 : q[j] = r[j]
      BY <2>2, <2>3
    <3>2. p[i] < r[i] /\ \A j \in 1 .. i - 1 : p[j] = r[j]
      BY <2>1, <3>1
    <3> QED
      BY <3>2 DEF Ahead
  <2>4. CASE h < i
    <3>1. p[h] = q[h] /\ \A j \in 1 .. h - 1 : p[j] = q[j]
      BY <2>1, <2>4
    <3>2. p[h] < r[h] /\ \A j \in 1 .. h - 1 : p[j] = r[j]
      BY <2>2, <3>1
    <3> QED
      BY <3>2 DEF Ahead
  <2>5. CASE i = h
    <3>1. p[i] < r[i] /\ \A j \in 1 .. i - 1 : p[j] = r[j]
      BY <2>1, <2>2, <2>5
    <3> QED
      BY <3>1 DEF Ahead
  <2> QED
    BY <2>3, <2>4, <2>5
<1>3. ASSUME p # q PROVE Ahead(p, q) \/ Ahead(q, p)
  <2> DEFINE D == {i \in 1 .. 4 : p[i] # q[i]}
  <2>1. D \in SUBSET Nat /\ D # {}
    BY <1>3
  <2> HIDE DEF D
  <2>2. PICK i \in D : \A j \in D : i <= j
    BY <2>1, LeastNatural
  <2>3. i \in 1 .. 4 /\ p[i] # q[i]
    BY DEF D
  <2>4. \A j \in 1 .. i - 1 : p[j] = q[j]
    <3> SUFFICES ASSUME NEW j \in 1 .. i - 1, p[j] # q[j] PROVE FALSE
      OBVIOUS
    <3>1. j \in 1 .. 4
      BY <2>3
    <3>2. j \in D
      BY <3>1 DEF D
    <3> QED
      BY <2>2, <2>3, <3>1, <3>2
  <2>5. p[i] < q[i] \/ q[i] < p[i]
    BY <2>3
  <2> QED
    BY <2>3, <2>4, <2>5 DEF Ahead
<1> QED
  BY <1>1, <1>2, <1>3

KeyOf(x) == <<-x.score, x.start, Place[x.service], Place[x.signal]>>

\* The ranking orders the anomalies, of which no two have the same names.
LEMMA RankingOrders ==
  ASSUME NEW n \in DOMAIN Worlds, Usable(n, "metrics")
  PROVE  Orders(Reported(n), RankedBefore(n))
<1> DEFINE A == Reported(n)
           B == RankedBefore(n)
<1>1. \A a, b : RanksBefore(a, b) <=> Ahead(KeyOf(a), KeyOf(b))
  BY DEF RanksBefore, Ahead, KeyOf
<1>2. ASSUME NEW a \in A
      PROVE  /\ KeyOf(a) \in [1 .. 4 -> Int]
             /\ KeyOf(a)[3] = Place[a.service] /\ KeyOf(a)[4] = Place[a.signal]
             /\ a.service \in Names /\ a.signal \in Names
  <2>1. PICK signal, x, y : AnomalyIs(n, a, signal, x, y)
    BY ReportedAre
  <2>2. MinimumScore \in Nat
    BY EngineAssumption
  <2>3. PICK h \in Int, s \in Int : h = -a.score /\ s = a.start
    BY <2>1, <2>2 DEF AnomalyIs
  <2>4. a.service \in Names /\ a.signal \in Names
    BY ReportedAre
  <2>5. PICK v \in Int, w \in Int : v = Place[a.service] /\ w = Place[a.signal]
    BY <2>4, EngineAssumption
  <2>6. KeyOf(a) = <<h, s, v, w>>
    BY <2>3, <2>5 DEF KeyOf
  <2>7. <<h, s, v, w>> \in [1 .. 4 -> Int]
    OBVIOUS
  <2> QED
    BY <2>4, <2>5, <2>6, <2>7
<1>3. ASSUME NEW a \in A, NEW b \in A, a # b PROVE KeyOf(a) # KeyOf(b)
  <2>1. a.service # b.service \/ a.signal # b.signal
    BY <1>3, ReportedAre
  <2>2. Place[a.service] # Place[b.service] \/ Place[a.signal] # Place[b.signal]
    BY <1>2, <2>1, EngineAssumption DEF IsInjective, Names
  <2> QED
    BY <1>2, <2>2
<1>4. \A a, b \in A : b \in B[a] <=> Ahead(KeyOf(b), KeyOf(a))
  BY <1>1 DEF RankedBefore
<1>5. B \in [A -> SUBSET A]
  BY DEF RankedBefore
<1> HIDE DEF A, B
<1>6. \A a \in A : a \notin B[a]
  BY <1>2, <1>4, AheadIs
<1>7. ASSUME NEW a \in A, NEW b \in B[a], NEW c \in B[b] PROVE c \in B[a]
  <2>1. b \in A /\ c \in A
    BY <1>5
  <2>2. Ahead(KeyOf(b), KeyOf(a)) /\ Ahead(KeyOf(c), KeyOf(b))
    BY <1>4, <2>1
  <2>3. Ahead(KeyOf(c), KeyOf(a))
    BY <1>2, <2>1, <2>2, AheadIs
  <2> QED
    BY <1>4, <2>1, <2>3
<1>8. ASSUME NEW a \in A, NEW b \in A, a # b PROVE a \in B[b] \/ b \in B[a]
  <2>1. Ahead(KeyOf(a), KeyOf(b)) \/ Ahead(KeyOf(b), KeyOf(a))
    BY <1>2, <1>3, <1>8, AheadIs
  <2> QED
    BY <1>4, <2>1
<1> QED
  BY <1>5, <1>6, <1>7, <1>8 DEF Orders, A, B

\* The snapshot lists the reported anomalies.
LEMMA SnapshotIs ==
  ASSUME NEW n \in DOMAIN Worlds, Snapshot[n] # None
  PROVE  \E m \in Nat :
           /\ DOMAIN Snapshot[n].anomalies = 1 .. m
           /\ \A k \in 1 .. m : Snapshot[n].anomalies[k] \in Reported(n)
           /\ \A a \in Reported(n) : \E k \in 1 .. m : Snapshot[n].anomalies[k] = a
<1> DEFINE A == Reported(n)
           B == RankedBefore(n)
<1>1. Usable(n, "metrics") /\ Snapshot[n].anomalies = InOrder(A, B)
  BY AnalysisIs
<1>2. IsFiniteSet(A) /\ Orders(A, B)
  BY <1>1, FiniteReported, RankingOrders
<1> HIDE DEF A, B
<1>3. PICK m \in Nat : m = Cardinality(A)
  BY <1>2, FS_CardinalityType
<1>4. PICK list : list = InOrder(A, B)
  OBVIOUS
<1>5. /\ \A k \in 1 .. m : list[k] \in A
      /\ \A a \in A : \E k \in 1 .. m : list[k] = a
  BY <1>2, <1>3, <1>4, InOrderIs
<1>6. DOMAIN list = 1 .. m
  BY <1>3, <1>4 DEF InOrder
<1> QED
  BY <1>1, <1>4, <1>5, <1>6 DEF A

---------------------------------------------------------------------------
(* Metrics: what is observed and reported *)

LEMMA MetricSymptomsAre ==
  ASSUME NEW n \in DOMAIN Worlds, Usable(n, "metrics")
  PROVE  /\ \A signal, x, y, z :
              /\ \E c : IsPair(n, c, signal, x, y)
              /\ Cardinality(Finite(x.samples)) >= MinimumBaseline
              /\ z \in Finite(y.samples) /\ Magnitude(z.value) >= 3
              => <<y.service, signal, z.at>> \in Symptoms[n]["metrics"]
         /\ \A s \in Symptoms[n]["metrics"] : \E signal, x, y, z :
              /\ \E c : IsPair(n, c, signal, x, y)
              /\ Cardinality(Finite(x.samples)) >= MinimumBaseline
              /\ z \in Finite(y.samples) /\ Magnitude(z.value) >= 3
              /\ s = <<y.service, signal, z.at>>
<1> DEFINE Of(signal, window) == ToSet(Data[n][<<signal, window>>])
           Long(series) == Cardinality(Finite(series.samples)) >= MinimumBaseline
           Screened(signal) == {x.service : x \in {y \in Of(signal, "baseline") : Long(y)}}
           During(signal) ==
             {y \in Of(signal, "incident") : y.service \in Screened(signal) \ {None}}
           Shown(signal, x) ==
             {<<x.service, signal, y.at>> :
                y \in {z \in Finite(x.samples) : Magnitude(z.value) >= 3}}
           OfSignal(signal) == UNION {Shown(signal, x) : x \in During(signal)}
<1>1. "metrics" \in Tools
  BY ToolsAre
<1>2. Symptoms[n]["metrics"] = MetricSymptoms(n)
  BY <1>1 DEF Symptoms
<1>3. MetricSymptoms(n) = UNION {OfSignal(signal) : signal \in ToSet(Signals)}
  BY DEF MetricSymptoms
<1>4. ASSUME NEW signal, NEW x, NEW y, NEW z, NEW c, IsPair(n, c, signal, x, y), Long(x),
             z \in Finite(y.samples), Magnitude(z.value) >= 3
      PROVE  <<y.service, signal, z.at>> \in MetricSymptoms(n)
  <2>1. /\ signal \in ToSet(Signals)
        /\ x \in Of(signal, "baseline") /\ y \in Of(signal, "incident")
        /\ y.service = x.service /\ x.service # None
    BY <1>4 DEF IsPair
  <2>2. y.service \in Screened(signal) \ {None}
    BY <1>4, <2>1
  <2>3. y \in During(signal)
    BY <2>1, <2>2
  <2>4. <<y.service, signal, z.at>> \in Shown(signal, y)
    BY <1>4
  <2> HIDE DEF During, Shown
  <2>5. <<y.service, signal, z.at>> \in OfSignal(signal)
    BY <2>3, <2>4
  <2> HIDE DEF OfSignal
  <2> QED
    BY <1>3, <2>1, <2>5
<1>5. ASSUME NEW s \in MetricSymptoms(n)
      PROVE  \E signal, x, y, z :
               /\ \E c : IsPair(n, c, signal, x, y)
               /\ Long(x)
               /\ z \in Finite(y.samples) /\ Magnitude(z.value) >= 3
               /\ s = <<y.service, signal, z.at>>
  <2>1. PICK signal \in ToSet(Signals) : s \in OfSignal(signal)
    <3> HIDE DEF OfSignal
    <3> QED
      BY <1>3
  <2>2. PICK y \in During(signal) : s \in Shown(signal, y)
    <3> HIDE DEF During, Shown
    <3> QED
      BY <2>1 DEF OfSignal
  <2>3. PICK z \in Finite(y.samples) :
          Magnitude(z.value) >= 3 /\ s = <<y.service, signal, z.at>>
    BY <2>2
  <2>4. y \in Of(signal, "incident") /\ y.service \in Screened(signal) \ {None}
    OBVIOUS
  <2>5. PICK x \in Of(signal, "baseline") : Long(x) /\ x.service = y.service
    BY <2>4
  <2>6. \E c : IsPair(n, c, signal, x, y)
    BY <2>4, <2>5 DEF IsPair
  <2> QED
    BY <2>3, <2>5, <2>6
<1>6. \A s \in MetricSymptoms(n) : \E signal, x, y, z :
               /\ \E c : IsPair(n, c, signal, x, y)
               /\ Cardinality(Finite(x.samples)) >= MinimumBaseline
               /\ z \in Finite(y.samples) /\ Magnitude(z.value) >= 3
               /\ s = <<y.service, signal, z.at>>
  BY <1>5
<1> QED
  BY <1>2, <1>4, <1>6

\* The last of an anomaly's references is that of the incident's window.
LEMMA FromMetricsIs ==
  ASSUME NEW n \in DOMAIN Worlds, Snapshot[n] # None
  PROVE  \E m \in Nat :
           /\ IsList(Found[n]["metrics"], m)
           /\ \A k \in 1 .. m : \E a \in Reported(n) :
                Found[n]["metrics"][k] =
                  Evidence("metrics", a.service, a.signal, <<a.signal, "incident">>,
                           a.score, a.start)
           /\ \A a \in Reported(n) : \E k \in 1 .. m :
                Found[n]["metrics"][k] =
                  Evidence("metrics", a.service, a.signal, <<a.signal, "incident">>,
                           a.score, a.start)
<1> DEFINE found == Found[n]["metrics"]
           Reference(a) == a.references[Len(a.references)]
           Piece(a) == Evidence("metrics", a.service, a.signal, Reference(a), a.score, a.start)
           Told(a) == Evidence("metrics", a.service, a.signal, <<a.signal, "incident">>,
                               a.score, a.start)
<1>1. "metrics" \in Tools /\ Usable(n, "metrics")
  BY ToolsAre, AnalysisIs
<1>2. PICK list : list = Snapshot[n].anomalies
  OBVIOUS
<1>3. found = [k \in DOMAIN list |-> Piece(list[k])]
  BY <1>1, <1>2 DEF Found, EvidenceOf, FromMetrics, Map
<1>4. PICK m \in Nat : /\ DOMAIN list = 1 .. m
                       /\ \A k \in 1 .. m : list[k] \in Reported(n)
                       /\ \A a \in Reported(n) : \E k \in 1 .. m : list[k] = a
  BY <1>2, SnapshotIs
<1>5. ASSUME NEW a \in Reported(n) PROVE Piece(a) = Told(a)
  <2>1. a.references = <<<<a.signal, "baseline">>, <<a.signal, "incident">>>>
    BY <1>1, ReportedAre DEF AnomalyIs
  <2>2. Reference(a) = <<a.signal, "incident">>
    BY <2>1
  <2> QED
    BY <2>2
<1> HIDE DEF found, Piece, Told
<1>6. IsList(found, m)
  BY <1>3, <1>4 DEF IsList
<1>7. \A k \in 1 .. m : \E a \in Reported(n) : found[k] = Told(a)
  BY <1>3, <1>4, <1>5
<1>8. \A a \in Reported(n) : \E k \in 1 .. m : found[k] = Told(a)
  BY <1>3, <1>4, <1>5
<1> QED
  BY <1>6, <1>7, <1>8 DEF found, Told

LEMMA MetricsAreComplete ==
  ASSUME NEW n \in DOMAIN Worlds, Snapshot[n] # None
  PROVE  Complete(n, "metrics")
<1> DEFINE found == Found[n]["metrics"]
           Told(a) == Evidence("metrics", a.service, a.signal, <<a.signal, "incident">>,
                               a.score, a.start)
<1>1. Usable(n, "metrics")
  BY AnalysisIs
<1>2. PICK m \in Nat : /\ IsList(found, m)
                       /\ \A k \in 1 .. m : \E a \in Reported(n) : found[k] = Told(a)
                       /\ \A a \in Reported(n) : \E k \in 1 .. m : found[k] = Told(a)
  BY FromMetricsIs
<1>3. \A a : /\ Told(a).source = "metrics" /\ Told(a).service = a.service
             /\ Told(a).signal = a.signal /\ Told(a).reference = <<a.signal, "incident">>
             /\ Told(a).confidence = a.score /\ Told(a).at = a.start
  BY DEF Evidence
<1> HIDE DEF found, Told
<1>4. ASSUME NEW k \in 1 .. m PROVE Observed(n, "metrics", found[k])
  <2>1. PICK a \in Reported(n) : found[k] = Told(a)
    BY <1>2
  <2>2. PICK e : e = found[k]
    OBVIOUS
  <2>3. /\ e.source = "metrics" /\ e.service = a.service /\ e.signal = a.signal
        /\ e.reference = <<a.signal, "incident">> /\ e.confidence = a.score /\ e.at = a.start
    BY <1>3, <2>1, <2>2
  <2>4. PICK signal, x, y : AnomalyIs(n, a, signal, x, y)
    BY <1>1, ReportedAre
  <2>5. PICK c : IsPair(n, c, signal, x, y)
    BY <2>4 DEF AnomalyIs
  <2>6. /\ a.service = x.service /\ a.signal = signal /\ a.score \in MinimumScore .. 600
        /\ Cardinality(Finite(x.samples)) >= MinimumBaseline
        /\ \E z \in Finite(y.samples) : Magnitude(z.value) >= 3 /\ a.start = z.at
        /\ \A z \in Finite(y.samples) : Magnitude(z.value) >= 3 => a.start <= z.at
    BY <2>4 DEF AnomalyIs
  <2>7. /\ signal \in ToSet(Signals) /\ y \in ToSet(Data[n][<<signal, "incident">>])
        /\ y.service = x.service /\ x.service # None
    BY <2>5 DEF IsPair
  <2>8. <<e.service, e.signal, e.at>> \in Symptoms[n]["metrics"]
    BY <1>1, <2>3, <2>5, <2>6, <2>7, MetricSymptomsAre
  <2>9. e.reference \in QueriesOf("metrics")
    BY <2>3, <2>6, <2>7, SignalQueries DEF Windows
  <2>10. ASSUME NEW other \in Symptoms[n]["metrics"],
                other[1] = e.service, other[2] = e.signal
         PROVE  e.at <= other[3]
    <3>1. PICK signal2, x2, y2, z2 :
            /\ \E d : IsPair(n, d, signal2, x2, y2)
            /\ z2 \in Finite(y2.samples) /\ Magnitude(z2.value) >= 3
            /\ other = <<y2.service, signal2, z2.at>>
      BY <1>1, MetricSymptomsAre
    <3>2. signal2 = signal /\ y2.service = y.service
      BY <2>3, <2>6, <2>7, <2>10, <3>1
    <3>3. y2 \in ToSet(Data[n][<<signal, "incident">>])
      BY <3>1, <3>2 DEF IsPair
    <3>4. y2 = y
      BY <1>1, <2>7, <3>2, <3>3, SeriesAre DEF Windows
    <3> QED
      BY <2>3, <2>6, <3>1, <3>4
  <2>11. e.confidence \in MinimumScore .. 600 /\ e.reference = <<e.signal, "incident">>
    BY <2>3, <2>6
  <2>12. Observed(n, "metrics", e)
    BY <2>8, <2>9, <2>10, <2>11 DEF Observed
  <2> QED
    BY <2>2, <2>12
<1>5. ASSUME NEW s \in Symptoms[n]["metrics"]
      PROVE  \E k \in 1 .. m : found[k].service = s[1] /\ found[k].signal = s[2]
  <2>1. PICK signal, x, y, z :
          /\ \E c : IsPair(n, c, signal, x, y)
          /\ Cardinality(Finite(x.samples)) >= MinimumBaseline
          /\ z \in Finite(y.samples) /\ Magnitude(z.value) >= 3
          /\ s = <<y.service, signal, z.at>>
    BY <1>1, MetricSymptomsAre
  <2>2. PICK a \in Reported(n) : a.service = x.service /\ a.signal = signal
    BY <1>1, <2>1, SymptomsHaveAnomalies
  <2>3. PICK k \in 1 .. m : found[k] = Told(a)
    BY <1>2
  <2>4. y.service = x.service
    BY <2>1 DEF IsPair
  <2>5. found[k].service = s[1] /\ found[k].signal = s[2]
    BY <1>3, <2>1, <2>2, <2>3, <2>4
  <2> QED
    BY <2>5
<1> QED
  BY <1>2, <1>4, <1>5 DEF Complete, found

\* What each tool makes of usable answers, and metrics of windows to compare.
LEMMA ToolsAreComplete ==
  ASSUME NEW n \in DOMAIN Worlds, NEW t \in Tools, Usable(n, t),
         t = "metrics" => Snapshot[n] # None
  PROVE  Complete(n, t)
BY ToolsAre, MetricsAreComplete, TracesAreComplete, LogsAre, ChangesAre

\* Each piece of the metrics tool's evidence is an anomaly of the snapshot.
LEMMA EvidenceIsOfSnapshot ==
  ASSUME NEW n \in DOMAIN Worlds, Snapshot[n] # None,
         NEW e \in ToSet(Kept(Found[n]["metrics"]))
  PROVE  \E a \in ToSet(Snapshot[n].anomalies) :
           a.service = e.service /\ a.signal = e.signal /\ a.score = e.confidence
<1> DEFINE found == Found[n]["metrics"]
           Told(a) == Evidence("metrics", a.service, a.signal, <<a.signal, "incident">>,
                               a.score, a.start)
<1>1. PICK m \in Nat : /\ IsList(found, m)
                       /\ \A k \in 1 .. m : \E a \in Reported(n) : found[k] = Told(a)
  BY FromMetricsIs
<1> HIDE DEF Told
<1>2. PICK c \in Nat : /\ \A k \in 1 .. c : k \in 1 .. m
                       /\ \E k \in 1 .. c : e = found[k]
  <2> HIDE DEF found
  <2>1. e \in ToSet(Kept(found))
    BY DEF found
  <2> QED
    BY <1>1, <2>1, KeptIs
<1>3. PICK a \in Reported(n) : e = Told(a)
  BY <1>1, <1>2
<1>4. a.service = e.service /\ a.signal = e.signal /\ a.score = e.confidence
  BY <1>3 DEF Told, Evidence
<1>5. a \in ToSet(Snapshot[n].anomalies)
  BY SnapshotIs DEF ToSet
<1> QED
  BY <1>4, <1>5

---------------------------------------------------------------------------
(* Evidence and symptoms *)

\* What is answered can be used.
AnswersUsable ==
  \A q \in Queries : query[q] = "answered" => Data[world][q] # Invalid

LEMMA AnswersStayUsable ==
  ASSUME TypeOK, AnswersUsable, [Next]_vars
  PROVE  AnswersUsable'
<1> SUFFICES ASSUME NEW q \in Queries, query'[q] = "answered"
             PROVE  Data[world'][q] # Invalid
  BY DEF AnswersUsable
<1>1. world' = world
  BY DEF Next, vars, StartTools, Start, QueryRaises, Collected, ListDeploymentsNext, EndQuery,
         AnalyzeMetrics, SaveSnapshot, CutOff
<1>2. CASE \/ UNCHANGED query
           \/ \E queries : Begin(queries)
           \/ CutOff
  <2>1. query[q] = "answered"
    BY <1>2 DEF Begin, CutOff
  <2> QED
    BY <1>1, <2>1 DEF AnswersUsable
<1>3. ASSUME NEW x \in Queries, EndQuery(x) PROVE Data[world'][q] # Invalid
  <2>1. query'[q] = query[q] \/ (q = x /\ Data[world][q] # Invalid)
    BY <1>3 DEF EndQuery, TypeOK
  <2> QED
    BY <1>1, <2>1 DEF AnswersUsable
<1>4. \/ UNCHANGED query \/ CutOff
      \/ \E queries : Begin(queries)
      \/ \E x \in Queries : EndQuery(x)
  BY DEF Next, vars, StartTools, Start, QueryRaises, Collected, ListDeploymentsNext,
         AnalyzeMetrics, SaveSnapshot
<1> QED
  BY <1>2, <1>3, <1>4

ObservationInv == IInv /\ AnswersUsable

LEMMA ObservationInvariance == Spec => []ObservationInv
<1>1. Init => AnswersUsable
  BY DEF Init, AnswersUsable
<1>2. IInv /\ AnswersUsable /\ [Next]_vars => AnswersUsable'
  BY AnswersStayUsable DEF IInv
<1> QED
  BY <1>1, <1>2, Invariance, PTL DEF Spec, ObservationInv

\* A success keeps the first pieces of all that its answers show.
LEMMA SuccessIs ==
  ASSUME ObservationInv, NEW t \in Tools, tool[t] = "success"
  PROVE  /\ world \in DOMAIN Worlds /\ Usable(world, t) /\ Complete(world, t)
         /\ AllAnswered(t)
         /\ bundle[t].evidence = Kept(Found[world][t])
<1>1. Accounted(t) /\ world \in DOMAIN Worlds
  BY DEF ObservationInv, IInv, TypeOK
<1>2. AllAnswered(t) /\ (t = "metrics" => Snapshot[world] # None)
  BY <1>1 DEF Accounted
<1>3. bundle[t].evidence = Kept(Found[world][t])
  BY <1>1 DEF Accounted, ToolBundle
<1>4. Usable(world, t)
  BY <1>2, QueriesAreOfTools DEF ObservationInv, AnswersUsable, AllAnswered, Usable
<1>5. Complete(world, t)
  BY <1>1, <1>2, <1>4, ToolsAreComplete
<1> QED
  BY <1>1, <1>2, <1>3, <1>4, <1>5

LEMMA EvidenceHolds == ObservationInv => EvidenceIsObserved
<1> SUFFICES ASSUME ObservationInv, NEW t \in Tools, bundle[t] # None,
                    NEW e \in ToSet(bundle[t].evidence)
             PROVE  /\ query[e.reference] = "answered"
                    /\ <<e.service, e.signal, e.at>> \in Symptoms[world][t]
                    /\ e.source = "metrics" => /\ e.reference = <<e.signal, "incident">>
                                               /\ e.confidence \in MinimumScore .. 600
                    /\ t = "metrics" => \A other \in Symptoms[world][t] :
                         other[1] = e.service /\ other[2] = e.signal => e.at <= other[3]
  BY DEF EvidenceIsObserved
<1>1. Accounted(t)
  BY DEF ObservationInv, IInv
<1>2. tool[t] = "success"
  <2>1. tool[t] \in {"success", "error"}
    BY <1>1 DEF Accounted, Finished
  <2>2. ASSUME tool[t] = "error" PROVE FALSE
    <3>1. bundle[t].evidence = <<>>
      BY <1>1, <2>2 DEF Accounted, ToolBundle
    <3> QED
      BY <3>1 DEF ToSet
  <2> QED
    BY <2>1, <2>2
<1>3. /\ Complete(world, t) /\ AllAnswered(t)
      /\ bundle[t].evidence = Kept(Found[world][t])
  BY <1>2, SuccessIs
<1>4. PICK m \in Nat : /\ IsList(Found[world][t], m)
                       /\ \A k \in 1 .. m : Observed(world, t, Found[world][t][k])
  BY <1>3 DEF Complete
<1>5. PICK k \in 1 .. m : e = Found[world][t][k]
  <2>1. e \in ToSet(Kept(Found[world][t]))
    BY <1>3
  <2>2. PICK c \in Nat : /\ \A k \in 1 .. c : k \in 1 .. m
                         /\ \E k \in 1 .. c : e = Found[world][t][k]
    BY <1>4, <2>1, KeptIs
  <2> QED
    BY <2>2
<1>6. Observed(world, t, e)
  BY <1>4, <1>5
<1>7. query[e.reference] = "answered"
  BY <1>3, <1>6 DEF Observed, AllAnswered
<1> QED
  BY <1>6, <1>7, Zenon DEF Observed

LEMMA SymptomsHold == ObservationInv => SymptomsAreReported
<1> SUFFICES ASSUME ObservationInv, NEW t \in Tools, tool[t] = "success",
                    NEW s \in Symptoms[world][t],
                    ~\E e \in ToSet(bundle[t].evidence) : e.service = s[1] /\ e.signal = s[2]
             PROVE  /\ Len(bundle[t].evidence) = Cap
                    /\ t = "traces" =>
                         \A e \in ToSet(bundle[t].evidence), edge \in ToSet(Worlds[world].edges) :
                           s = <<edge.callee, edge.caller, edge.first>>
                             => e.confidence >= Min({600, 210 + 6 * edge.errors})
  BY DEF SymptomsAreReported
<1> DEFINE found == Found[world][t]
<1>1. /\ world \in DOMAIN Worlds /\ Usable(world, t) /\ Complete(world, t)
      /\ bundle[t].evidence = Kept(found)
  BY SuccessIs
<1>2. PICK m \in Nat : /\ IsList(found, m)
                       /\ \E k \in 1 .. m : found[k].service = s[1] /\ found[k].signal = s[2]
  BY <1>1 DEF Complete
<1> HIDE DEF found
<1>3. PICK c \in Nat : /\ c = (IF m < Cap THEN m ELSE Cap) /\ Len(Kept(found)) = c
                       /\ \A k \in 1 .. c : k \in 1 .. m /\ found[k] \in ToSet(Kept(found))
                       /\ \A e \in ToSet(Kept(found)) : \E k \in 1 .. c : e = found[k]
  BY <1>2, KeptIs
<1>4. ~\E k \in 1 .. c : found[k].service = s[1] /\ found[k].signal = s[2]
  BY <1>1, <1>3
<1>5. c # m
  BY <1>2, <1>4
<1>6. c = Cap /\ c <= m
  BY <1>3, <1>5, ToolsAssumption
<1>7. ASSUME t = "traces", NEW e \in ToSet(bundle[t].evidence),
             NEW edge \in ToSet(Worlds[world].edges),
             s = <<edge.callee, edge.caller, edge.first>>
      PROVE  e.confidence >= Min({600, 210 + 6 * edge.errors})
  <2>1. PICK k \in 1 .. c : e = found[k]
    BY <1>1, <1>3, <1>7
  <2>2. ~\E i \in 1 .. c : found[i].service = edge.callee /\ found[i].signal = edge.caller
    BY <1>4, <1>7
  <2>3. found = Found[world]["traces"] /\ Usable(world, "traces")
    BY <1>1, <1>7 DEF found
  <2>4. \E i \in Nat : IsList(Found[world]["traces"], i) /\ c <= i
    BY <1>2, <1>6, <2>3
  <2>5. Found[world]["traces"][k].confidence >= Min({600, 210 + 6 * edge.errors})
    BY <1>1, <2>2, <2>3, <2>4, WorstAreKept
  <2> QED
    BY <2>1, <2>3, <2>5
<1> QED
  BY <1>1, <1>3, <1>6, <1>7

---------------------------------------------------------------------------
(* Theorems *)

LEMMA InvAccounts == IInv => AuditsAccount
<1> SUFFICES ASSUME IInv, NEW t \in Tools
             PROVE  /\ Finished(t) <=> bundle[t] # None
                    /\ Finished(t) =>
                         /\ bundle[t].audit.status = tool[t]
                         /\ bundle[t].audit.evidence_ids = ToSet(bundle[t].evidence)
                    /\ tool[t] = "success" =>
                         /\ AllAnswered(t)
                         /\ t = "metrics" => \E snapshot \in saved :
                              \A e \in ToSet(bundle[t].evidence) :
                                \E a \in ToSet(snapshot.anomalies) :
                                  /\ a.service = e.service /\ a.signal = e.signal
                                  /\ a.score = e.confidence
                    /\ tool[t] = "error" =>
                         /\ bundle[t].evidence = <<>>
                         /\ AllAnswered(t) => t = "metrics"
  BY DEF AuditsAccount
<1>1. Accounted(t) /\ world \in DOMAIN Worlds
  BY DEF IInv, TypeOK
<1>2. /\ None # ToolBundle("success", Kept(Found[world][t]))
      /\ None # ToolBundle("error", <<>>)
  BY <1>1, BundleAssumption
<1>3. Finished(t) <=> bundle[t] # None
  BY <1>1, <1>2 DEF Accounted, Finished
<1>4. Finished(t) => /\ bundle[t].audit.status = tool[t]
                     /\ bundle[t].audit.evidence_ids = ToSet(bundle[t].evidence)
  BY <1>1 DEF Accounted, Finished, ToolBundle
<1>5. ASSUME tool[t] = "success", t = "metrics"
      PROVE  \E snapshot \in saved :
               \A e \in ToSet(bundle[t].evidence) : \E a \in ToSet(snapshot.anomalies) :
                 a.service = e.service /\ a.signal = e.signal /\ a.score = e.confidence
  <2>1. Snapshot[world] # None /\ Snapshot[world] \in saved
    BY <1>1, <1>5 DEF Accounted
  <2>2. bundle[t].evidence = Kept(Found[world]["metrics"])
    BY <1>1, <1>5 DEF Accounted, ToolBundle
  <2> QED
    BY <1>1, <2>1, <2>2, EvidenceIsOfSnapshot
<1>6. tool[t] = "success" => AllAnswered(t)
  BY <1>1 DEF Accounted
<1>7. tool[t] = "error" => /\ bundle[t].evidence = <<>>
                           /\ AllAnswered(t) => t = "metrics"
  BY <1>1 DEF Accounted, ToolBundle, AllAnswered
<1> QED
  BY <1>3, <1>4, <1>5, <1>6, <1>7

\* In whatever order queries end, fail or are cut off, and whatever the save does: a
\* tool that ended has one audit that tells how, a success is backed by answers to
\* all its queries and, of metrics, by the stored snapshot, and an error by what went
\* wrong; no error shows evidence (_success_bundle and _error_bundle).
THEOREM AuditsTell == Spec => []AuditsAccount
BY Invariance, InvAccounts, PTL

\* Every piece of evidence, of any tool, at any time and whatever fails, is of a
\* symptom that an answered query of that tool shows, with the query it cites, its
\* onset the first of the series: the answers that asyncio.gather returns by
\* position are never taken for one another (tools.py:_success_bundle).
THEOREM EvidenceIsOfAnswers == Spec => []EvidenceIsObserved
BY ObservationInvariance, EvidenceHolds, PTL

\* A tool that succeeds leaves out no symptom that its answers show, unless it has
\* as much evidence as fits, and then, of dependencies, the worst: no forest score
\* takes an anomaly below the minimum score that the tool asks for.
THEOREM NoSymptomIsLost == Spec => []SymptomsAreReported
BY ObservationInvariance, SymptomsHold, PTL
=============================================================================
