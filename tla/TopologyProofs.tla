---------------------------- MODULE TopologyProofs ----------------------------
(***************************************************************************)
(* Proofs about TopologyRebuild, for any number of rebuilds, traces,       *)
(* slots, retries and chunks, and for documents of any spans.  Of the      *)
(* transport: the semaphore's slots and its queue account for every        *)
(* request, whatever answers, fails or is cancelled, and what a request    *)
(* answers has been earned.  Of the snapshots: they say what was retrieved *)
(* and what was not, their edges are calls someone observed, and what      *)
(* their graphs answer agrees with itself.                                 *)
(***************************************************************************)
EXTENDS TopologyRebuild, SequenceTheorems, FiniteSetTheorems, WellFoundedInduction,
        TLAPS

---------------------------------------------------------------------------
(* Lemmas about the queue *)

\* In q wait the requests of W, each once.
Waits(q, W) ==
  /\ q \in Seq(Requests)
  /\ \A i, j \in 1 .. Len(q) : q[i] = q[j] => i = j
  /\ \A i \in 1 .. Len(q) : q[i] \in W
  /\ \A r \in W : \E i \in 1 .. Len(q) : q[i] = r

LEMMA WaitsIs ==
  ASSUME NEW q \in Seq(Requests), NEW W
  PROVE  Waits(q, W) <=> ToSet(q) = W /\ IsInjective(q)
<1>1. DOMAIN q = 1 .. Len(q)
  BY LenProperties
<1>2. IsInjective(q) <=> \A i, j \in 1 .. Len(q) : q[i] = q[j] => i = j
  BY <1>1 DEF IsInjective
<1>3. ToSet(q) = {q[i] : i \in 1 .. Len(q)}
  BY <1>1 DEF ToSet
<1>4. ToSet(q) = W <=> /\ \A i \in 1 .. Len(q) : q[i] \in W
                       /\ \A r \in W : \E i \in 1 .. Len(q) : q[i] = r
  BY <1>3
<1> QED
  BY <1>2, <1>4 DEF Waits

LEMMA WaitsNobody == Waits(<<>>, {})
<1>1. <<>> \in Seq(Requests) /\ Len(<<>>) = 0
  BY EmptySeq
<1> QED
  BY <1>1 DEF Waits

LEMMA WaitsOneMore ==
  ASSUME NEW q, NEW W, Waits(q, W), NEW r \in Requests, r \notin W
  PROVE  Waits(Append(q, r), W \cup {r})
<1>1. q \in Seq(Requests) /\ Len(q) \in Nat
  BY LenProperties DEF Waits
<1>2. PICK n \in Nat : n = Len(q)
  BY <1>1
<1>3. PICK p : p = Append(q, r)
  OBVIOUS
<1>4. /\ p \in Seq(Requests) /\ Len(p) = n + 1
      /\ \A i \in 1 .. n : p[i] = q[i]
      /\ p[n + 1] = r
  BY <1>1, <1>2, <1>3, AppendProperties
<1>5. \A i \in 1 .. n + 1 : i \in 1 .. n \/ i = n + 1
  OBVIOUS
<1>6. /\ \A i, j \in 1 .. n : q[i] = q[j] => i = j
      /\ \A i \in 1 .. n : q[i] \in W
      /\ \A s \in W : \E i \in 1 .. n : q[i] = s
  BY <1>2 DEF Waits
<1>7. \A i, j \in 1 .. n + 1 : p[i] = p[j] => i = j
  BY <1>4, <1>5, <1>6
<1>8. \A i \in 1 .. n + 1 : p[i] \in W \cup {r}
  BY <1>4, <1>5, <1>6
<1>9. ASSUME NEW s \in W \cup {r} PROVE \E i \in 1 .. n + 1 : p[i] = s
  <2>1. CASE s = r
    BY <1>4, <2>1
  <2>2. CASE s \in W
    <3>1. PICK i \in 1 .. n : q[i] = s
      BY <1>6, <2>2
    <3> QED
      BY <1>4, <3>1
  <2> QED
    BY <2>1, <2>2
<1> QED
  BY <1>3, <1>4, <1>7, <1>8, <1>9 DEF Waits

\* One that waits leaves the queue from wherever it stands in it.
LEMMA WaitsOneLess ==
  ASSUME NEW q, NEW W, Waits(q, W), NEW k \in 1 .. Len(q), NEW p \in Seq(Requests),
         Len(p) = Len(q) - 1,
         \A i \in 1 .. Len(p) : p[i] = IF i < k THEN q[i] ELSE q[i + 1]
  PROVE  q[k] \in W /\ Waits(p, W \ {q[k]})
<1>1. q \in Seq(Requests) /\ Len(q) \in Nat
  BY LenProperties DEF Waits
<1>2. PICK n \in Nat : n = Len(q)
  BY <1>1
<1>3. /\ \A i, j \in 1 .. n : q[i] = q[j] => i = j
      /\ \A i \in 1 .. n : q[i] \in W
      /\ \A s \in W : \E i \in 1 .. n : q[i] = s
  BY <1>2 DEF Waits
<1>4. k \in 1 .. n /\ Len(p) = n - 1
  BY <1>2
<1> DEFINE Old(i) == IF i < k THEN i ELSE i + 1
<1>5. ASSUME NEW i \in 1 .. n - 1
      PROVE  Old(i) \in 1 .. n /\ Old(i) # k /\ p[i] = q[Old(i)]
  BY <1>4
<1>6. \A i, j \in 1 .. n - 1 : Old(i) = Old(j) => i = j
  BY <1>4
<1>7. ASSUME NEW j \in 1 .. n, j # k PROVE \E i \in 1 .. n - 1 : Old(i) = j
  <2>1. CASE j < k
    <3>1. j \in 1 .. n - 1 /\ Old(j) = j
      BY <1>4, <2>1
    <3> QED
      BY <3>1
  <2>2. CASE j > k
    <3>1. j - 1 \in 1 .. n - 1 /\ Old(j - 1) = j
      BY <1>4, <2>2
    <3> QED
      BY <3>1
  <2> QED
    BY <1>4, <1>7, <2>1, <2>2
<1> HIDE DEF Old
<1>8. \A i, j \in 1 .. n - 1 : p[i] = p[j] => i = j
  BY <1>3, <1>5, <1>6
<1>9. \A i \in 1 .. n - 1 : p[i] \in W \ {q[k]}
  BY <1>3, <1>4, <1>5
<1>10. ASSUME NEW s \in W \ {q[k]} PROVE \E i \in 1 .. n - 1 : p[i] = s
  <2>1. PICK j \in 1 .. n : q[j] = s
    BY <1>3
  <2>2. j # k
    BY <2>1
  <2>3. PICK i \in 1 .. n - 1 : Old(i) = j
    BY <1>7, <2>2
  <2> QED
    BY <1>5, <2>1, <2>3
<1> QED
  BY <1>3, <1>4, <1>8, <1>9, <1>10 DEF Waits

LEMMA WaitsNext ==
  ASSUME NEW q, NEW W, Waits(q, W), q # <<>>
  PROVE  Head(q) \in W /\ Waits(Tail(q), W \ {Head(q)})
<1>1. q \in Seq(Requests)
  BY DEF Waits
<1>2. /\ Len(q) \in Nat \ {0} /\ Tail(q) \in Seq(Requests) /\ Len(Tail(q)) = Len(q) - 1
      /\ \A i \in 1 .. Len(Tail(q)) : Tail(q)[i] = q[i + 1]
  BY <1>1, EmptySeq, HeadTailProperties
<1>3. 1 \in 1 .. Len(q) /\ Head(q) = q[1]
  BY <1>1, <1>2
<1>4. PICK p : p = Tail(q)
  OBVIOUS
<1>5. \A i \in 1 .. Len(p) : p[i] = IF i < 1 THEN q[i] ELSE q[i + 1]
  BY <1>2, <1>4
<1>6. q[1] \in W /\ Waits(p, W \ {q[1]})
  BY <1>2, <1>3, <1>4, <1>5, WaitsOneLess
<1> QED
  BY <1>3, <1>4, <1>6

LEMMA WaitsWithout ==
  ASSUME NEW q, NEW W, Waits(q, W), NEW k \in DOMAIN q
  PROVE  q[k] \in W /\ Waits(RemoveAt(q, k), W \ {q[k]})
<1>1. /\ q \in Seq(Requests) /\ Len(q) \in Nat /\ k \in 1 .. Len(q)
      /\ \A i \in 1 .. Len(q) : q[i] \in Requests
  BY LenProperties, ElementOfSeq DEF Waits
<1>2. PICK n \in Nat : n = Len(q)
  BY <1>1
<1>3. PICK a, b : a = SubSeq(q, 1, k - 1) /\ b = SubSeq(q, k + 1, n)
  OBVIOUS
<1>4. /\ a \in Seq(Requests) /\ Len(a) = k - 1
      /\ \A i \in 1 .. k - 1 : a[i] = q[i]
  <2>1. 1 \in Int /\ k - 1 \in Int /\ \A i \in 1 .. k - 1 : q[i] \in Requests
    BY <1>1, <1>2
  <2>2. /\ SubSeq(q, 1, k - 1) \in Seq(Requests)
        /\ Len(SubSeq(q, 1, k - 1)) = IF 1 <= k - 1 THEN (k - 1) - 1 + 1 ELSE 0
        /\ \A i \in 1 .. (k - 1) - 1 + 1 : SubSeq(q, 1, k - 1)[i] = q[1 + i - 1]
    BY <2>1, SubSeqProperties
  <2>3. k \in Nat /\ 1 <= k
    BY <1>1, <1>2
  <2> QED
    BY <1>3, <2>2, <2>3
<1>5. /\ b \in Seq(Requests) /\ Len(b) = n - k
      /\ \A i \in 1 .. n - k : b[i] = q[k + i]
  <2>1. k + 1 \in Int /\ n \in Int /\ \A i \in k + 1 .. n : q[i] \in Requests
    BY <1>1, <1>2
  <2>2. /\ SubSeq(q, k + 1, n) \in Seq(Requests)
        /\ Len(SubSeq(q, k + 1, n)) = IF k + 1 <= n THEN n - (k + 1) + 1 ELSE 0
        /\ \A i \in 1 .. n - (k + 1) + 1 : SubSeq(q, k + 1, n)[i] = q[(k + 1) + i - 1]
    BY <2>1, SubSeqProperties
  <2>3. k \in Nat /\ 1 <= k /\ k <= n
    BY <1>1, <1>2
  <2>4. n - (k + 1) + 1 = n - k /\ \A i \in 1 .. n - k : (k + 1) + i - 1 = k + i
    BY <2>3
  <2>5. Len(SubSeq(q, k + 1, n)) = n - k
    BY <2>2, <2>3
  <2> QED
    BY <1>3, <2>2, <2>4, <2>5
<1>6. PICK p : p = a \o b
  OBVIOUS
<1>7. /\ p \in Seq(Requests) /\ Len(p) = Len(a) + Len(b)
      /\ \A i \in 1 .. Len(a) + Len(b) : p[i] = IF i <= Len(a) THEN a[i] ELSE b[i - Len(a)]
  BY <1>4, <1>5, <1>6, ConcatProperties
<1>8. k \in 1 .. n /\ Len(p) = n - 1
  <2>1. k \in 1 .. n
    BY <1>1, <1>2
  <2>2. Len(p) = Len(a) + Len(b) /\ Len(a) = k - 1 /\ Len(b) = n - k
    BY <1>4, <1>5, <1>7
  <2> QED
    BY <2>1, <2>2
<1>9. ASSUME NEW i \in 1 .. n - 1 PROVE p[i] = IF i < k THEN q[i] ELSE q[i + 1]
  <2>1. i \in 1 .. Len(a) + Len(b)
    BY <1>4, <1>5, <1>8
  <2>2. CASE i < k
    <3>1. i <= Len(a) /\ i \in 1 .. k - 1
      BY <1>4, <1>8, <2>2
    <3> QED
      BY <1>4, <1>7, <2>1, <2>2, <3>1
  <2>3. CASE ~ (i < k)
    <3>1. ~ (i <= Len(a)) /\ i - Len(a) = i - k + 1 /\ i - k + 1 \in 1 .. n - k
      BY <1>4, <1>8, <2>3
    <3>2. p[i] = b[i - k + 1]
      BY <1>7, <2>1, <3>1
    <3>3. k + (i - k + 1) = i + 1
      BY <1>8
    <3> QED
      BY <1>5, <2>3, <3>1, <3>2, <3>3
  <2> QED
    BY <2>2, <2>3
<1>10. p = RemoveAt(q, k)
  BY <1>2, <1>3, <1>6 DEF RemoveAt
<1> QED
  BY <1>1, <1>2, <1>7, <1>8, <1>9, <1>10, WaitsOneLess

---------------------------------------------------------------------------
(* The inductive invariant *)

Held == {"sending", "reading", "backoff"}

Queued == {r \in Requests : at[r] = "queued"}

HttpType ==
  /\ at \in [Requests -> Places]
  /\ attempt \in [Requests -> Nat]
  /\ received \in [Requests -> Seq(Nat)]
  /\ answer \in [Requests -> Answers \cup {None}]
  /\ slots \in Nat

\* What is read comes from one attempt.
Bodies ==
  \A r \in Requests : at[r] = "reading" =>
    \A i \in 1 .. Len(received[r]) : received[r][i] = attempt[r]

Accounts == slots + Cardinality(Holders) = MaxConcurrency

Queue == Waits(waiting, Queued) /\ (waiting # <<>> => slots = 0)

HttpInv == HttpType /\ Bodies /\ Accounts /\ Queue

LEMMA InvIsConserved == HttpInv => SlotsAreConserved
<1> SUFFICES ASSUME HttpInv PROVE SlotsAreConserved
  OBVIOUS
<1>1. waiting \in Seq(Requests) /\ Waits(waiting, Queued)
  BY DEF HttpInv, Queue, Waits
<1>2. ToSet(waiting) = Queued /\ IsInjective(waiting)
  BY <1>1, WaitsIs
<1> QED
  BY <1>2 DEF HttpInv, Accounts, Queue, Queued, SlotsAreConserved

LEMMA HttpInitInv == HttpInit => HttpInv
<1> SUFFICES ASSUME HttpInit PROVE HttpInv
  OBVIOUS
<1>1. \A r \in Requests : at[r] = "idle"
  BY DEF HttpInit
<1>2. Holders = {} /\ Queued = {}
  BY <1>1 DEF Holders, Queued
<1>3. HttpType
  <2>1. <<>> \in Seq(Nat)
    OBVIOUS
  <2> QED
    BY <2>1, HttpAssumption DEF HttpInit, HttpType, Places
<1>4. Bodies
  BY <1>1 DEF Bodies
<1>5. Accounts
  BY <1>2, FS_EmptySet, HttpAssumption DEF HttpInit, Accounts
<1>6. Queue
  BY <1>2, WaitsNobody DEF HttpInit, Queue
<1> QED
  BY <1>3, <1>4, <1>5, <1>6 DEF HttpInv

LEMMA HoldersAre ==
  /\ Holders = {r \in Requests : at[r] \in Held}
  /\ IsFiniteSet(Holders) /\ Cardinality(Holders) \in Nat
<1>1. Holders \in SUBSET Requests
  BY DEF Holders
<1>2. IsFiniteSet(Requests)
  BY HttpAssumption
<1>3. IsFiniteSet(Holders)
  BY <1>1, <1>2, FS_Subset
<1> QED
  BY <1>3, FS_CardinalityType DEF Holders, Held

---------------------------------------------------------------------------
(* The steps of the transport *)

\* A request that keeps its slot, or has none and takes no part in the queue.
LEMMA StayKeeps ==
  ASSUME HttpInv, NEW r \in Requests, NEW s \in Places,
         at' = [at EXCEPT ![r] = s],
         at[r] \in Held <=> s \in Held,
         at[r] # "queued", s # "queued",
         UNCHANGED <<slots, waiting>>
  PROVE  Accounts' /\ Queue'
<1>1. \A q \in Requests : at'[q] = IF q = r THEN s ELSE at[q]
  BY DEF HttpInv, HttpType
<1>2. Holders' = Holders
  BY <1>1 DEF Holders, Held
<1>3. Queued' = Queued
  BY <1>1 DEF Queued
<1> QED
  BY <1>2, <1>3 DEF HttpInv, Accounts, Queue

LEMMA GetKeeps ==
  ASSUME HttpInv, NEW r \in Requests, Get(r)
  PROVE  HttpInv'
<1>1. PICK s \in {"sending", "queued"} :
        /\ at' = [at EXCEPT ![r] = s]
        /\ s = "sending" => slots > 0 /\ slots' = slots - 1 /\ waiting' = waiting
        /\ s = "queued" => slots = 0 /\ waiting' = Append(waiting, r) /\ slots' = slots
  BY DEF Get
<1>2. UNCHANGED <<attempt, received, answer>> /\ at[r] = "idle"
  BY DEF Get
<1>3. \A q \in Requests : at'[q] = IF q = r THEN s ELSE at[q]
  BY <1>1 DEF HttpInv, HttpType
<1>4. HttpType' /\ Bodies'
  <2>1. at' \in [Requests -> Places]
    BY <1>1 DEF HttpInv, HttpType, Places
  <2>2. slots \in Nat /\ slots' \in Nat
    BY <1>1 DEF HttpInv, HttpType
  <2> QED
    BY <1>1, <1>2, <1>3, <2>1, <2>2 DEF HttpInv, HttpType, Bodies
<1>5. CASE s = "sending"
  <2>1. Holders' = Holders \cup {r} /\ r \notin Holders
    BY <1>2, <1>3, <1>5 DEF Holders
  <2>2. Cardinality(Holders \cup {r}) = Cardinality(Holders) + 1
    BY <2>1, HoldersAre, FS_AddElement
  <2>3. Accounts'
    BY <1>1, <1>5, <2>1, <2>2, HoldersAre, HttpAssumption DEF HttpInv, HttpType, Accounts
  <2>4. Queued' = Queued
    BY <1>2, <1>3, <1>5 DEF Queued
  <2>5. waiting = <<>>
    BY <1>1, <1>5 DEF HttpInv, HttpType, Queue
  <2>6. Queue'
    BY <1>1, <1>5, <2>4, <2>5 DEF HttpInv, Queue
  <2> QED
    BY <1>4, <2>3, <2>6 DEF HttpInv
<1>6. CASE s = "queued"
  <2>1. Holders' = Holders
    BY <1>2, <1>3, <1>6 DEF Holders
  <2>2. Accounts'
    BY <1>1, <1>6, <2>1 DEF HttpInv, Accounts
  <2>3. PICK Q : Q = Queued
    OBVIOUS
  <2>4. Queued' = Q \cup {r} /\ r \notin Q
    BY <1>2, <1>3, <1>6, <2>3 DEF Queued
  <2>5. PICK w : w = waiting
    OBVIOUS
  <2>6. Waits(w, Q)
    BY <2>3, <2>5 DEF HttpInv, Queue
  <2>7. Waits(Append(w, r), Q \cup {r})
    BY <2>4, <2>6, WaitsOneMore
  <2>8. Queue'
    BY <1>1, <1>6, <2>4, <2>5, <2>7 DEF Queue
  <2> QED
    BY <1>4, <2>2, <2>8 DEF HttpInv
<1> QED
  BY <1>1, <1>5, <1>6

\* A slot that is left is free, or the next request's.
LEMMA LeaveKeeps ==
  ASSUME HttpInv, NEW r \in Requests, NEW a \in Answers, at[r] \in Held, Leave(r, a)
  PROVE  HttpInv'
<1>1. /\ answer' = [answer EXCEPT ![r] = a]
      /\ attempt' = [attempt EXCEPT ![r] = 0]
      /\ received' = [received EXCEPT ![r] = <<>>]
  BY DEF Leave
<1>2. /\ attempt' \in [Requests -> Nat] /\ received' \in [Requests -> Seq(Nat)]
      /\ answer' \in [Requests -> Answers \cup {None}]
  <2>1. <<>> \in Seq(Nat)
    OBVIOUS
  <2> QED
    BY <1>1, <2>1 DEF HttpInv, HttpType
<1>3. CASE waiting = <<>>
  <2>1. /\ at' = [at EXCEPT ![r] = "answered"] /\ slots' = slots + 1
        /\ UNCHANGED waiting
    BY <1>3 DEF Leave
  <2>2. \A q \in Requests : at'[q] = IF q = r THEN "answered" ELSE at[q]
    BY <2>1 DEF HttpInv, HttpType
  <2>3. HttpType'
    BY <1>2, <2>1 DEF HttpInv, HttpType, Places
  <2>4. Bodies'
    BY <1>1, <2>2 DEF HttpInv, HttpType, Bodies
  <2>5. Holders' = Holders \ {r} /\ r \in Holders
    BY <2>2 DEF Holders, Held
  <2>6. Cardinality(Holders \ {r}) = Cardinality(Holders) - 1
    BY <2>5, HoldersAre, FS_RemoveElement
  <2>7. Accounts'
    BY <2>1, <2>5, <2>6, HoldersAre, HttpAssumption DEF HttpInv, HttpType, Accounts
  <2>8. Queued' = Queued
    BY <2>2 DEF Queued, Held
  <2>9. Queue'
    BY <1>3, <2>1, <2>8 DEF HttpInv, Queue
  <2> QED
    BY <2>3, <2>4, <2>7, <2>9 DEF HttpInv
<1>4. CASE waiting # <<>>
  <2>1. PICK w, Q, h : w = waiting /\ Q = Queued /\ h = Head(w)
    OBVIOUS
  <2>2. Waits(w, Q) /\ w # <<>>
    BY <1>4, <2>1 DEF HttpInv, Queue
  <2>3. h \in Q /\ Waits(Tail(w), Q \ {h})
    BY <2>1, <2>2, WaitsNext
  <2>4. h \in Requests /\ at[h] = "queued" /\ h # r
    BY <2>1, <2>3 DEF Queued, Held
  <2>5. /\ at' = [at EXCEPT ![r] = "answered", ![h] = "sending"]
        /\ waiting' = Tail(w) /\ slots' = slots
    BY <1>4, <2>1 DEF Leave
  <2>6. \A q \in Requests :
          at'[q] = IF q = h THEN "sending" ELSE IF q = r THEN "answered" ELSE at[q]
    BY <2>4, <2>5 DEF HttpInv, HttpType
  <2>7. HttpType'
    <3>1. at' \in [Requests -> Places]
      BY <2>5 DEF HttpInv, HttpType, Places
    <3> QED
      BY <1>2, <2>5, <3>1 DEF HttpInv, HttpType
  <2>8. Bodies'
    BY <1>1, <2>6 DEF HttpInv, HttpType, Bodies
  <2>9. Holders' = (Holders \ {r}) \cup {h} /\ r \in Holders /\ h \notin Holders
    BY <2>4, <2>6 DEF Holders, Held
  <2>10. /\ IsFiniteSet(Holders \ {r}) /\ Cardinality(Holders \ {r}) = Cardinality(Holders) - 1
    BY <2>9, HoldersAre, FS_RemoveElement
  <2>11. Cardinality((Holders \ {r}) \cup {h}) = Cardinality(Holders) - 1 + 1
    BY <2>9, <2>10, FS_AddElement
  <2>12. Accounts'
    BY <2>5, <2>9, <2>11, HoldersAre DEF HttpInv, Accounts
  <2>13. Queued' = Q \ {h}
    BY <2>1, <2>4, <2>6 DEF Queued, Held
  <2>14. Queue'
    BY <1>4, <2>3, <2>5, <2>13 DEF HttpInv, Queue
  <2> QED
    BY <2>7, <2>8, <2>12, <2>14 DEF HttpInv
<1> QED
  BY <1>3, <1>4

LEMMA TryAgainKeeps ==
  ASSUME HttpInv, NEW r \in Requests, at[r] \in {"sending", "reading"}, TryAgain(r)
  PROVE  HttpInv'
<1>1. CASE Leave(r, "retryable")
  BY <1>1, LeaveKeeps DEF Held, Answers, QueryErrors
<1>2. CASE /\ at' = [at EXCEPT ![r] = "backoff"]
           /\ UNCHANGED <<attempt, received, answer, slots, waiting>>
  <2>1. Accounts' /\ Queue'
    BY <1>2, StayKeeps DEF Held, Places
  <2>2. \A q \in Requests : at'[q] = IF q = r THEN "backoff" ELSE at[q]
    BY <1>2 DEF HttpInv, HttpType
  <2>3. HttpType' /\ Bodies'
    BY <1>2, <2>2 DEF HttpInv, HttpType, Bodies, Places
  <2> QED
    BY <2>1, <2>3 DEF HttpInv
<1> QED
  BY <1>1, <1>2 DEF TryAgain

LEMMA HttpKeeps ==
  ASSUME HttpInv, NEW r \in Requests, Http(r)
  PROVE  HttpInv'
<1>1. CASE Unavailable(r) \/ Failed(r)
  BY <1>1, TryAgainKeeps DEF Unavailable, Failed
<1>2. CASE Refused(r)
  BY <1>2, LeaveKeeps DEF Refused, Held, Answers, QueryErrors
<1>3. CASE Accepted(r)
  <2>1. /\ at[r] = "sending" /\ at' = [at EXCEPT ![r] = "reading"]
        /\ received' = [received EXCEPT ![r] = <<>>]
        /\ UNCHANGED <<attempt, answer, slots, waiting>>
    BY <1>3 DEF Accepted
  <2>2. Accounts' /\ Queue'
    BY <2>1, StayKeeps DEF Held, Places
  <2>3. \A q \in Requests : /\ at'[q] = IF q = r THEN "reading" ELSE at[q]
                            /\ received'[q] = IF q = r THEN <<>> ELSE received[q]
    BY <2>1 DEF HttpInv, HttpType
  <2>4. HttpType'
    <3>1. <<>> \in Seq(Nat)
      OBVIOUS
    <3> QED
      BY <2>1, <3>1 DEF HttpInv, HttpType, Places
  <2>5. Bodies'
    <3>1. Len(<<>>) = 0
      OBVIOUS
    <3> QED
      BY <2>1, <2>3, <3>1 DEF HttpInv, Bodies
  <2> QED
    BY <2>2, <2>4, <2>5 DEF HttpInv
<1>4. CASE Chunk(r)
  <2>1. CASE Leave(r, "final")
    BY <1>4, <2>1, LeaveKeeps DEF Chunk, Held, Answers, QueryErrors
  <2>2. CASE /\ received' = [received EXCEPT ![r] = Append(@, attempt[r])]
             /\ UNCHANGED <<at, attempt, answer, slots, waiting>>
    <3>1. Accounts' /\ Queue'
      BY <2>2 DEF HttpInv, Accounts, Queue, Holders, Queued
    <3>2. PICK body \in Seq(Nat) : body = received[r]
      BY DEF HttpInv, HttpType
    <3>3. PICK n \in Nat : n = attempt[r]
      BY DEF HttpInv, HttpType
    <3>4. /\ Append(body, n) \in Seq(Nat) /\ Len(Append(body, n)) = Len(body) + 1
          /\ \A i \in 1 .. Len(body) : Append(body, n)[i] = body[i]
          /\ Append(body, n)[Len(body) + 1] = n /\ Len(body) \in Nat
      BY AppendProperties, LenProperties
    <3>5. \A i \in 1 .. Len(body) : body[i] = n
      BY <1>4, <3>2, <3>3 DEF Chunk, HttpInv, Bodies
    <3>6. \A i \in 1 .. Len(Append(body, n)) : Append(body, n)[i] = n
      <4>1. \A i \in 1 .. Len(body) + 1 : i \in 1 .. Len(body) \/ i = Len(body) + 1
        BY <3>4
      <4> QED
        BY <3>4, <3>5, <4>1
    <3>7. received' = [received EXCEPT ![r] = Append(body, n)]
      BY <2>2, <3>2, <3>3
    <3>8. HttpType'
      BY <2>2, <3>4, <3>7 DEF HttpInv, HttpType
    <3>9. Bodies'
      BY <2>2, <3>3, <3>6, <3>7 DEF HttpInv, HttpType, Bodies
    <3> QED
      BY <3>1, <3>8, <3>9 DEF HttpInv
  <2> QED
    BY <1>4, <2>1, <2>2 DEF Chunk
<1>5. CASE Ended(r)
  <2>1. PICK a \in {"document", "final", "exception"} : Leave(r, a)
    BY <1>5 DEF Ended
  <2> QED
    BY <1>5, <2>1, LeaveKeeps DEF Ended, Held, Answers, QueryErrors
<1>6. CASE BackoffEnds(r)
  <2>1. /\ at[r] = "backoff" /\ at' = [at EXCEPT ![r] = "sending"]
        /\ attempt' = [attempt EXCEPT ![r] = attempt[r] + 1]
        /\ UNCHANGED <<received, answer, slots, waiting>>
    BY <1>6 DEF BackoffEnds
  <2>2. Accounts' /\ Queue'
    BY <2>1, StayKeeps DEF Held, Places
  <2>3. \A q \in Requests : at'[q] = IF q = r THEN "sending" ELSE at[q]
    BY <2>1 DEF HttpInv, HttpType
  <2>4. HttpType' /\ Bodies'
    BY <2>1, <2>3 DEF HttpInv, HttpType, Bodies, Places
  <2> QED
    BY <2>2, <2>4 DEF HttpInv
<1> QED
  BY <1>1, <1>2, <1>3, <1>4, <1>5, <1>6 DEF Http

\* A cancelled request gives up its slot or its place in the queue.
LEMMA CancelKeeps ==
  ASSUME HttpInv, NEW r \in Requests, Cancel(r)
  PROVE  HttpInv'
<1>1. CASE at[r] \in Held /\ Leave(r, "cancelled")
  BY <1>1, LeaveKeeps DEF Answers
<1>2. CASE /\ at[r] = "queued" /\ at' = [at EXCEPT ![r] = "answered"]
           /\ answer' = [answer EXCEPT ![r] = "cancelled"]
           /\ \E i \in DOMAIN waiting : waiting[i] = r /\ waiting' = RemoveAt(waiting, i)
           /\ UNCHANGED <<attempt, received, slots>>
  <2>1. PICK w, Q : w = waiting /\ Q = Queued
    OBVIOUS
  <2>2. PICK i \in DOMAIN w : w[i] = r /\ waiting' = RemoveAt(w, i)
    BY <1>2, <2>1
  <2>3. Waits(w, Q)
    BY <2>1 DEF HttpInv, Queue
  <2>4. Waits(RemoveAt(w, i), Q \ {r})
    BY <2>2, <2>3, WaitsWithout
  <2>5. \A q \in Requests : at'[q] = IF q = r THEN "answered" ELSE at[q]
    BY <1>2 DEF HttpInv, HttpType
  <2>6. Queued' = Q \ {r}
    BY <2>1, <2>5 DEF Queued
  <2>7. w # <<>>
    BY <2>2
  <2>8. Queue'
    BY <1>2, <2>1, <2>2, <2>4, <2>6, <2>7 DEF HttpInv, Queue
  <2>9. Holders' = Holders
    BY <1>2, <2>5 DEF Holders
  <2>10. Accounts'
    BY <1>2, <2>9 DEF HttpInv, Accounts
  <2>11. HttpType' /\ Bodies'
    BY <1>2, <2>5 DEF HttpInv, HttpType, Bodies, Places, Answers
  <2> QED
    BY <2>8, <2>10, <2>11 DEF HttpInv
<1> QED
  BY <1>1, <1>2 DEF Cancel, Held

---------------------------------------------------------------------------
(* The steps of the rebuilds *)

\* A rebuild takes the answers it awaited.
LEMMA ConsumeKeeps ==
  ASSUME HttpInv, NEW b \in Rebuilds, Consume(b)
  PROVE  HttpInv'
<1>1. /\ answer' = [r \in Requests |-> IF r[1] = b THEN None ELSE answer[r]]
      /\ UNCHANGED <<at, attempt, received, slots, waiting>>
  BY DEF Consume
<1>2. HttpType'
  BY <1>1 DEF HttpInv, HttpType
<1>3. Bodies' /\ Accounts' /\ Queue'
  BY <1>1 DEF HttpInv, Bodies, Accounts, Queue, Holders, Queued
<1> QED
  BY <1>2, <1>3 DEF HttpInv

LEMMA FetchKeeps ==
  ASSUME HttpInv, NEW b \in Rebuilds, NEW t \in Traces, Fetch(b, t)
  PROVE  HttpInv'
<1>1. <<b, t>> \in Requests
  BY RebuildAssumption
<1>2. CASE Get(<<b, t>>)
  BY <1>1, <1>2, GetKeeps
<1>3. CASE /\ at' = [at EXCEPT ![<<b, t>>] = "answered"]
           /\ answer' = [answer EXCEPT ![<<b, t>>] = "exception"]
           /\ UNCHANGED <<attempt, received, slots, waiting>>
  <2>1. PICK r \in Requests : r = <<b, t>>
    BY <1>1
  <2>2. at[r] = "idle"
    BY <2>1 DEF Fetch
  <2>3. Accounts' /\ Queue'
    BY <1>3, <2>1, <2>2, StayKeeps DEF Held, Places
  <2>4. \A q \in Requests : at'[q] = IF q = r THEN "answered" ELSE at[q]
    BY <1>3, <2>1 DEF HttpInv, HttpType
  <2>5. HttpType' /\ Bodies'
    BY <1>3, <2>1, <2>4 DEF HttpInv, HttpType, Bodies, Places, Answers
  <2> QED
    BY <2>3, <2>5 DEF HttpInv
<1> QED
  BY <1>2, <1>3 DEF Fetch

LEMMA StayingKeeps ==
  ASSUME HttpInv, UNCHANGED http
  PROVE  HttpInv'
BY DEF http, HttpInv, HttpType, Bodies, Accounts, Queue, Holders, Queued

\* How a step touches the transport.
Touches ==
  \/ UNCHANGED http
  \/ \E b \in Rebuilds : Start(b)
  \/ \E b \in Rebuilds : \E t \in Traces : Fetch(b, t)
  \/ \E b \in Rebuilds : Consume(b)
  \/ \E r \in Requests : Http(r)
  \/ \E r \in Requests : Cancel(r)

LEMMA StepsTouch ==
  ASSUME [Next]_vars
  PROVE  Touches
<1>1. CASE UNCHANGED vars
  BY <1>1 DEF vars, Touches
<1>2. ASSUME NEW b \in Rebuilds, Advance(b) PROVE Touches
  <2>1. CASE Start(b)
    BY <2>1 DEF Touches
  <2>2. CASE Searched(b)
    BY <2>2 DEF Searched, Touches
  <2>3. CASE \E t \in Traces : Fetch(b, t)
    BY <2>3 DEF Touches
  <2>4. CASE Raise(b)
    BY <2>4 DEF Raise, Touches
  <2>5. CASE Gathered(b)
    BY <2>5 DEF Gathered, Touches
  <2>6. CASE Save(b)
    BY <2>6 DEF Save, Forget, Touches
  <2> QED
    BY <1>2, <2>1, <2>2, <2>3, <2>4, <2>5, <2>6 DEF Advance
<1>3. ASSUME NEW b \in Rebuilds, Timeout(b) PROVE Touches
  BY <1>3 DEF Timeout, Forget, Touches
<1>4. ASSUME NEW r \in Requests, Query(r) \/ Cancelled(r) PROVE Touches
  BY <1>4 DEF Query, Cancelled, Touches
<1> QED
  BY <1>1, <1>2, <1>3, <1>4 DEF Next, Progress

LEMMA StepsKeep ==
  ASSUME HttpInv, [Next]_vars
  PROVE  HttpInv'
<1>1. ASSUME NEW b \in Rebuilds, Start(b) PROVE HttpInv'
  <2>1. Search(b) \in Requests
    BY RebuildAssumption DEF Search
  <2> QED
    BY <1>1, <2>1, GetKeeps DEF Start
<1> QED
  BY <1>1, StepsTouch, StayingKeeps, FetchKeeps, ConsumeKeeps, HttpKeeps, CancelKeeps
  DEF Touches

LEMMA HttpInvariant == Spec => []HttpInv
<1>1. Init => HttpInv
  BY HttpInitInv DEF Init
<1> QED
  BY <1>1, StepsKeep, PTL DEF Spec

\* Whatever Tempo answers, in whatever order requests fail, are refused, time
\* out or are cancelled, and whatever rebuilds leave behind: each slot of the
\* semaphore is free or held by one request under way, the queue holds those
\* that wait, each once, and no slot is free while one waits (async with
\* self._semaphore in get_json).
THEOREM SlotsComeBack == Spec => []SlotsAreConserved
BY HttpInvariant, InvIsConserved, PTL

---------------------------------------------------------------------------
(* What an answer took *)

Earned(r) ==
  answer[r] = None =>
    /\ answer'[r] = "document" => ToSet(received[r]) = {attempt[r]}
    /\ answer'[r] = "retryable" => attempt[r] = MaxRetries

AllEarned == \A r \in Requests : Earned(r)

\* An answer that is given now is that of one request.
LEMMA OneAnswer ==
  ASSUME HttpInv, NEW r \in Requests, NEW a \in Answers,
         answer' = [answer EXCEPT ![r] = a],
         a = "document" => ToSet(received[r]) = {attempt[r]},
         a = "retryable" => attempt[r] = MaxRetries
  PROVE  AllEarned
<1>1. \A q \in Requests : answer'[q] = IF q = r THEN a ELSE answer[q]
  BY DEF HttpInv, HttpType
<1>2. None # "document" /\ None # "retryable"
  BY HttpAssumption DEF Answers, QueryErrors
<1> QED
  BY <1>1, <1>2 DEF AllEarned, Earned

LEMMA NoAnswer ==
  ASSUME \A q \in Requests : answer'[q] = answer[q] \/ answer'[q] = None
  PROVE  AllEarned
<1>1. None # "document" /\ None # "retryable"
  BY HttpAssumption DEF Answers, QueryErrors
<1> QED
  BY <1>1 DEF AllEarned, Earned

LEMMA TryAgainEarns ==
  ASSUME HttpInv, NEW r \in Requests, TryAgain(r)
  PROVE  AllEarned
<1>1. CASE attempt[r] = MaxRetries /\ Leave(r, "retryable")
  BY <1>1, OneAnswer DEF Leave, Answers, QueryErrors
<1>2. CASE UNCHANGED answer
  BY <1>2, NoAnswer
<1> QED
  BY <1>1, <1>2 DEF TryAgain

LEMMA EndedEarns ==
  ASSUME HttpInv, NEW r \in Requests, Ended(r)
  PROVE  AllEarned
<1>1. PICK a \in {"document", "final", "exception"} :
        (a = "document" => received[r] # <<>>) /\ Leave(r, a)
  BY DEF Ended
<1>2. ASSUME a = "document" PROVE ToSet(received[r]) = {attempt[r]}
  <2>1. PICK body \in Seq(Nat) : body = received[r]
    BY DEF HttpInv, HttpType
  <2>2. Len(body) \in Nat \ {0} /\ DOMAIN body = 1 .. Len(body)
    BY <1>1, <1>2, <2>1, EmptySeq, LenProperties
  <2>3. \A i \in 1 .. Len(body) : body[i] = attempt[r]
    BY <2>1 DEF Ended, HttpInv, Bodies
  <2>4. 1 \in 1 .. Len(body)
    BY <2>2
  <2> QED
    BY <2>1, <2>2, <2>3, <2>4 DEF ToSet
<1> QED
  BY <1>1, <1>2, OneAnswer DEF Leave, Answers, QueryErrors

LEMMA HttpEarns ==
  ASSUME HttpInv, NEW r \in Requests, Http(r)
  PROVE  AllEarned
<1>1. CASE Unavailable(r) \/ Failed(r)
  BY <1>1, TryAgainEarns DEF Unavailable, Failed
<1>2. CASE Refused(r)
  BY <1>2, OneAnswer DEF Refused, Leave, Answers, QueryErrors
<1>3. CASE Accepted(r)
  BY <1>3, NoAnswer DEF Accepted
<1>4. CASE Chunk(r)
  <2>1. CASE Leave(r, "final")
    BY <2>1, OneAnswer DEF Leave, Answers, QueryErrors
  <2>2. CASE UNCHANGED answer
    BY <2>2, NoAnswer
  <2> QED
    BY <1>4, <2>1, <2>2 DEF Chunk
<1>5. CASE Ended(r)
  BY <1>5, EndedEarns
<1>6. CASE BackoffEnds(r)
  BY <1>6, NoAnswer DEF BackoffEnds
<1> QED
  BY <1>1, <1>2, <1>3, <1>4, <1>5, <1>6 DEF Http

LEMMA StepsEarn ==
  ASSUME HttpInv, [Next]_vars
  PROVE  AllEarned
<1>1. CASE UNCHANGED http
  BY <1>1, NoAnswer DEF http
<1>2. ASSUME NEW b \in Rebuilds, Start(b) PROVE AllEarned
  BY <1>2, NoAnswer DEF Start, Get
<1>3. ASSUME NEW b \in Rebuilds, NEW t \in Traces, Fetch(b, t) PROVE AllEarned
  <2>1. <<b, t>> \in Requests
    BY RebuildAssumption
  <2>2. CASE Get(<<b, t>>)
    BY <2>2, NoAnswer DEF Get
  <2>3. CASE answer' = [answer EXCEPT ![<<b, t>>] = "exception"]
    BY <2>1, <2>3, OneAnswer DEF Answers
  <2> QED
    BY <1>3, <2>2, <2>3 DEF Fetch
<1>4. ASSUME NEW b \in Rebuilds, Consume(b) PROVE AllEarned
  BY <1>4, NoAnswer DEF Consume
<1>5. ASSUME NEW r \in Requests, Cancel(r) PROVE AllEarned
  BY <1>5, OneAnswer DEF Cancel, Leave, Answers
<1> QED
  BY <1>1, <1>2, <1>3, <1>4, <1>5, HttpEarns, StepsTouch DEF Touches

\* A document is decoded from the chunks of one attempt, the one under way,
\* and callers are told to retry after the last attempt only (the retry loop
\* of get_json).
THEOREM AnswersTakeTheirAttempts == Spec => AnswersAreEarned
<1>1. HttpInv /\ [Next]_vars => [AllEarned]_http
  BY StepsEarn
<1>2. [AllEarned]_http <=>
        [\A r \in Requests : answer[r] = None =>
          /\ answer'[r] = "document" => ToSet(received[r]) = {attempt[r]}
          /\ answer'[r] = "retryable" => attempt[r] = MaxRetries]_http
  BY DEF AllEarned, Earned
<1> QED
  BY <1>1, <1>2, HttpInvariant, PTL DEF Spec, AnswersAreEarned

---------------------------------------------------------------------------
(* Lemmas about orders *)

\* before[x] are the members of S that a strict total order puts before x.
Orders(S, before) ==
  /\ before \in [S -> SUBSET S]
  /\ \A x \in S : x \notin before[x]
  /\ \A x, y \in S : y \in before[x] => before[y] \subseteq before[x]
  /\ \A x, y \in S : x = y \/ x \in before[y] \/ y \in before[x]

\* The members of a finite set have one place each: how many come before them says
\* where they are, no two have as many, so that all places are taken.
LEMMA InOrderIs ==
  ASSUME NEW S, IsFiniteSet(S), NEW before, Orders(S, before)
  PROVE  /\ Cardinality(S) \in Nat
         /\ \A n \in 1 .. Cardinality(S) : InOrder(S, before)[n] \in S
         /\ \A m, n \in 1 .. Cardinality(S) :
              InOrder(S, before)[m] = InOrder(S, before)[n] => m = n
         /\ \A x \in S : \E n \in 1 .. Cardinality(S) : InOrder(S, before)[n] = x
         /\ \A m, n \in 1 .. Cardinality(S) :
              InOrder(S, before)[m] \in before[InOrder(S, before)[n]] => m < n
<1> DEFINE N == Cardinality(S)
           place == [x \in S |-> Cardinality(before[x]) + 1]
<1>1. N \in Nat
  BY FS_CardinalityType
<1>2. ASSUME NEW x \in S
      PROVE  /\ IsFiniteSet(before[x]) /\ Cardinality(before[x]) \in Nat
             /\ Cardinality(before[x]) + 1 <= N
  <2>1. before[x] \in SUBSET (S \ {x})
    BY DEF Orders
  <2>2. IsFiniteSet(S \ {x}) /\ Cardinality(S \ {x}) = N - 1
    BY FS_RemoveElement
  <2>3. IsFiniteSet(before[x]) /\ Cardinality(before[x]) <= N - 1
    BY <2>1, <2>2, FS_Subset
  <2>4. Cardinality(before[x]) \in Nat
    BY <2>3, FS_CardinalityType
  <2> QED
    BY <1>1, <2>3, <2>4
<1>3. \A x \in S : place[x] \in 1 .. N /\ place[x] = Cardinality(before[x]) + 1
  BY <1>1, <1>2
<1>4. ASSUME NEW x \in S, NEW y \in S, x \in before[y]
      PROVE  Cardinality(before[x]) < Cardinality(before[y])
  <2>1. before[x] \in SUBSET (before[y] \ {x})
    BY <1>4 DEF Orders
  <2>2. /\ IsFiniteSet(before[y] \ {x})
        /\ Cardinality(before[y] \ {x}) = Cardinality(before[y]) - 1
    BY <1>2, <1>4, FS_RemoveElement
  <2>3. Cardinality(before[x]) <= Cardinality(before[y]) - 1
    BY <2>1, <2>2, FS_Subset
  <2> QED
    BY <1>2, <2>3
<1>5. \A x, y \in S : place[x] = place[y] => x = y
  <2> SUFFICES ASSUME NEW x \in S, NEW y \in S, place[x] = place[y], x # y PROVE FALSE
    OBVIOUS
  <2>1. Cardinality(before[x]) = Cardinality(before[y])
    BY <1>2, <1>3
  <2>2. x \in before[y] \/ y \in before[x]
    BY DEF Orders
  <2>3. \/ Cardinality(before[x]) < Cardinality(before[y])
        \/ Cardinality(before[y]) < Cardinality(before[x])
    BY <1>4, <2>2
  <2> QED
    BY <1>2, <2>1, <2>3
<1>6. place \in [S -> 1 .. N]
  BY <1>3
<1> HIDE DEF place
<1>7. place \in Injection(S, 1 .. N)
  BY <1>5, <1>6 DEF Injection, IsInjective
<1>8. IsFiniteSet(1 .. N) /\ Cardinality(1 .. N) = N
  <2>1. 1 \in Int /\ N \in Int
    BY <1>1
  <2> HIDE DEF N
  <2>2. /\ IsFiniteSet(1 .. N)
        /\ Cardinality(1 .. N) = IF 1 > N THEN 0 ELSE N - 1 + 1
    BY <2>1, FS_Interval
  <2> QED
    BY <1>1, <2>2
<1>9. place \in Surjection(S, 1 .. N)
  BY <1>7, <1>8, FS_Injection
<1>10. ASSUME NEW n \in 1 .. N
       PROVE  InOrder(S, before)[n] \in S /\ place[InOrder(S, before)[n]] = n
  <2>1. PICK x \in S : place[x] = n
    BY <1>9 DEF Surjection
  <2>2. Cardinality(before[x]) = n - 1
    BY <1>1, <1>2, <1>3, <2>1
  <2>3. InOrder(S, before)[n] = CHOOSE y \in S : Cardinality(before[y]) = n - 1
    BY DEF InOrder
  <2>4. /\ InOrder(S, before)[n] \in S
        /\ Cardinality(before[InOrder(S, before)[n]]) = n - 1
    BY <2>2, <2>3
  <2> QED
    BY <1>1, <1>3, <2>4
<1>11. \A m, n \in 1 .. N : InOrder(S, before)[m] = InOrder(S, before)[n] => m = n
  BY <1>10
<1>12. ASSUME NEW x \in S PROVE \E n \in 1 .. N : InOrder(S, before)[n] = x
  <2>1. place[x] \in 1 .. N
    BY <1>3
  <2>2. InOrder(S, before)[place[x]] = x
    BY <1>5, <1>10, <2>1
  <2> QED
    BY <2>1, <2>2
<1>13. ASSUME NEW m \in 1 .. N, NEW n \in 1 .. N,
              InOrder(S, before)[m] \in before[InOrder(S, before)[n]]
       PROVE  m < n
  <2>1. PICK x \in S, y \in S : x = InOrder(S, before)[m] /\ y = InOrder(S, before)[n]
    BY <1>10
  <2>2. place[x] = m /\ place[y] = n
    BY <1>10, <2>1
  <2>3. Cardinality(before[x]) < Cardinality(before[y])
    BY <1>4, <1>13, <2>1
  <2> QED
    BY <1>2, <1>3, <2>2, <2>3
<1> QED
  BY <1>1, <1>10, <1>11, <1>12, <1>13


\* A set of naturals has a least element.
LEMMA LeastNatural ==
  ASSUME NEW S \in SUBSET Nat, S # {}
  PROVE  \E m \in S : \A x \in S : m <= x
<1>1. \A x, y \in Nat : x < y => <<x, y>> \in OpToRel(<, Nat)
  <2>1. OpToRel(<, Nat) = {ss \in Nat \X Nat : ss[1] < ss[2]}
    BY Zenon DEF OpToRel
  <2>2. \A x, y \in Nat : x < y => <<x, y>> \in {ss \in Nat \X Nat : ss[1] < ss[2]}
    OBVIOUS
  <2> QED
    BY Zenon, <2>1, <2>2
<1>2. \E m \in S : \A x \in S : ~ (<<x, m>> \in OpToRel(<, Nat))
  BY Zenon, WFMin, NatLessThanWellFounded
<1>3. \E m \in S : \A x \in S : ~ (x < m)
  BY Zenon, <1>1, <1>2
<1> QED
  BY <1>3

LEMMA MinIs ==
  ASSUME NEW S \in SUBSET Nat, S # {}
  PROVE  Min(S) \in S /\ \A x \in S : Min(S) <= x
BY LeastNatural DEF Min

\* A finite set of integers has a greatest and a least element: of the smallest set
\* without one, all but one member would have one.
LEMMA MaxIs ==
  ASSUME NEW S \in SUBSET Int, IsFiniteSet(S), S # {}
  PROVE  Max(S) \in S /\ \A x \in S : x <= Max(S)
<1> DEFINE Bounded(X) == \E m \in X : \A x \in X : x <= m
           T == {X \in SUBSET S : X # {} /\ ~Bounded(X)}
<1>1. T = {}
  <2> SUFFICES ASSUME T # {} PROVE FALSE
    OBVIOUS
  <2>1. IsWellFoundedOn(StrictSubsetOrdering(S), SUBSET S)
    BY FS_StrictSubsetOrderingWellFounded, FS_FiniteSubsetsOfFinite
  <2>2. PICK X \in T : \A Y \in T : <<Y, X>> \notin StrictSubsetOrdering(S)
    <3> HIDE DEF T
    <3>1. T # {} 
      OBVIOUS
    <3>2. T \subseteq SUBSET S
      BY DEF T
    <3> QED
      BY <2>1, <3>1, <3>2, WFMin
  <2>3. PICK x \in X : x \in Int
    OBVIOUS
  <2>4. X \ {x} \in SUBSET S /\ X \ {x} # X
    BY <2>3
  <2>5. <<X \ {x}, X>> \in StrictSubsetOrdering(S)
    BY <2>4 DEF StrictSubsetOrdering
  <2>6. X \ {x} \notin T
    BY <2>2, <2>5
  <2>7. X \ {x} = {} \/ Bounded(X \ {x})
    BY <2>4, <2>6
  <2>8. CASE X \ {x} = {}
    BY <2>3, <2>8
  <2>9. CASE Bounded(X \ {x})
    <3>1. PICK m \in X \ {x} : \A y \in X \ {x} : y <= m
      BY <2>9
    <3>2. m \in Int
      OBVIOUS
    <3>3. Bounded(X)
      BY <2>3, <3>1, <3>2
    <3> QED
      BY <3>3
  <2> QED
    BY <2>7, <2>8, <2>9
<1>2. Bounded(S)
  BY <1>1
<1> QED
  BY <1>2 DEF Max

LEMMA FiniteImage ==
  ASSUME NEW f, IsFiniteSet(DOMAIN f)
  PROVE  /\ IsFiniteSet({f[x] : x \in DOMAIN f})
         /\ Cardinality({f[x] : x \in DOMAIN f}) <= Cardinality(DOMAIN f)
<1> DEFINE image == {f[x] : x \in DOMAIN f}
<1>1. PICK g : g = [x \in DOMAIN f |-> f[x]]
  OBVIOUS
<1>2. g \in Surjection(DOMAIN f, image)
  BY <1>1 DEF Surjection
<1> HIDE DEF image
<1>3. IsFiniteSet(image) /\ Cardinality(image) <= Cardinality(DOMAIN f)
  BY <1>2, FS_Surjection
<1> QED
  BY <1>3 DEF image

\* There is a function with the values that a recursion over 0 .. n says.
Recurs(f, n, base, next) ==
  f[0] = base /\ \A k \in 1 .. n : f[k] = next[k][f[k - 1]]

LEMMA RecursionIs ==
  ASSUME NEW n \in Nat, NEW V, NEW base \in V, NEW next \in [1 .. n -> [V -> V]]
  PROVE  \E f \in [0 .. n -> V] : Recurs(f, n, base, next)
<1> DEFINE Good(m) == \E f \in [0 .. m -> V] :
             f[0] = base /\ \A k \in 1 .. m : f[k] = next[k][f[k - 1]]
           T == {m \in 0 .. n : ~Good(m)}
<1>1. T = {}
  <2> SUFFICES ASSUME T # {} PROVE FALSE
    OBVIOUS
  <2>1. PICK m \in T : \A k \in T : m <= k
    <3> HIDE DEF T
    <3>1. T \in SUBSET Nat
      BY DEF T
    <3> QED
      BY <3>1, LeastNatural
  <2>2. CASE m = 0
    <3> DEFINE f == [k \in 0 .. 0 |-> base]
    <3>1. f \in [0 .. m -> V] /\ f[0] = base
      BY <2>2
    <3>2. \A k \in 1 .. m : f[k] = next[k][f[k - 1]]
      BY <2>2
    <3> HIDE DEF f
    <3> QED
      BY <2>1, <3>1, <3>2
  <2>3. CASE m # 0
    <3>1. m \in 1 .. n /\ m - 1 \in 0 .. n /\ ~(m <= m - 1)
      BY <2>3
    <3>2. m - 1 \notin T
      BY <2>1, <3>1
    <3>3. PICK f \in [0 .. m - 1 -> V] :
            f[0] = base /\ \A k \in 1 .. m - 1 : f[k] = next[k][f[k - 1]]
      BY <3>1, <3>2
    <3> DEFINE g == [k \in 0 .. m |-> IF k = m THEN next[m][f[m - 1]] ELSE f[k]]
    <3>4. f[m - 1] \in V /\ next[m][f[m - 1]] \in V
      BY <3>1
    <3>5. g \in [0 .. m -> V]
      BY <3>1, <3>4
    <3>6. g[0] = base
      BY <3>1, <3>3
    <3>7. ASSUME NEW k \in 1 .. m PROVE g[k] = next[k][g[k - 1]]
      <4>1. g[k - 1] = f[k - 1]
        BY <3>1
      <4>2. k < m => g[k] = f[k] /\ k \in 1 .. m - 1
        BY <3>1
      <4> QED
        BY <3>1, <3>3, <4>1, <4>2
    <3> HIDE DEF g
    <3> QED
      BY <2>1, <3>5, <3>6, <3>7
  <2> QED
    BY <2>2, <2>3
<1>2. n \in 0 .. n
  OBVIOUS
<1> QED
  BY <1>1, <1>2 DEF Recurs

---------------------------------------------------------------------------
(* Reachability *)

OneMore(graph, X) == X \cup UNION {Successors(graph, t) : t \in X}

\* Its values are the sets of services at most that many calls away.
Unfolds(f, graph, s, n) ==
  /\ f \in [0 .. n -> SUBSET (Nodes(graph) \cup {s})]
  /\ f[0] = {s}
  /\ \A k \in 1 .. n : f[k] = OneMore(graph, f[k - 1])
  /\ Within(graph, s, n) = f[n]

LEMMA WithinUnfolds ==
  ASSUME NEW graph, NEW s, NEW n \in Nat
  PROVE  \E f : Unfolds(f, graph, s, n)
<1> DEFINE V == SUBSET (Nodes(graph) \cup {s})
           next == [k \in 1 .. n |-> [X \in V |-> OneMore(graph, X)]]
           Ball(f) == [k \in 0 .. n |->
             IF k = 0 THEN {s}
             ELSE f[k - 1] \cup UNION {Successors(graph, t) : t \in f[k - 1]}]
           ball == CHOOSE f : f = Ball(f)
<1>1. Within(graph, s, n) = ball[n]
  BY DEF Within
<1>2. \A X \in V : OneMore(graph, X) \in V
  BY DEF OneMore, Successors
<1>3. next \in [1 .. n -> [V -> V]] /\ {s} \in V
  <2> HIDE DEF V
  <2>1. \A k \in 1 .. n : [X \in V |-> OneMore(graph, X)] \in [V -> V]
    BY <1>2
  <2>2. {s} \in V
    BY DEF V
  <2> QED
    BY <2>1, <2>2
<1>4. PICK f \in [0 .. n -> V] : f[0] = {s} /\ \A k \in 1 .. n : f[k] = next[k][f[k - 1]]
  <2>1. PICK base : base = {s}
    OBVIOUS
  <2>2. next \in [1 .. n -> [V -> V]] /\ base \in V
    BY <1>3, <2>1
  <2> HIDE DEF V, next, ball, Ball
  <2>3. \E f \in [0 .. n -> V] : Recurs(f, n, base, next)
    BY <2>2, RecursionIs
  <2> QED
    BY <2>1, <2>3 DEF Recurs
<1>5. f = Ball(f)
  <2>1. f = [k \in 0 .. n |-> f[k]]
    BY <1>4
  <2>2. ASSUME NEW k \in 0 .. n PROVE f[k] = Ball(f)[k]
    <3>1. CASE k = 0
      BY <1>4, <3>1
    <3>2. CASE k # 0
      <4>1. k \in 1 .. n /\ k - 1 \in 0 .. n
        BY <3>2
      <4>2. f[k - 1] \in V
        BY <1>4, <4>1
      <4>3. f[k] = OneMore(graph, f[k - 1])
        <5> HIDE DEF V
        <5> QED
          BY <1>4, <4>1, <4>2
      <4> QED
        BY <3>2, <4>3 DEF OneMore
    <3> QED
      BY <3>1, <3>2
  <2> QED
    BY <2>1, <2>2
<1>6. ball = Ball(ball)
  <2> HIDE DEF Ball
  <2> QED
    BY <1>5
<1>7. ball[0] = {s}
  <2> HIDE DEF ball
  <2> QED
    BY <1>6
<1>8. ASSUME NEW k \in 1 .. n PROVE ball[k] = OneMore(graph, ball[k - 1])
  <2> HIDE DEF ball
  <2>1. k # 0 /\ k \in 0 .. n
    OBVIOUS
  <2> QED
    BY <1>6, <2>1 DEF OneMore
<1>9. \A k \in 0 .. n : ball[k] = f[k]
  <2> DEFINE T == {k \in 0 .. n : ball[k] # f[k]}
  <2> SUFFICES ASSUME T # {} PROVE FALSE
    OBVIOUS
  <2> HIDE DEF ball
  <2>1. PICK k \in T : \A m \in T : k <= m
    <3>1. T \in SUBSET Nat
      OBVIOUS
    <3> HIDE DEF T
    <3> QED
      BY <3>1, LeastNatural
  <2>2. k # 0
    BY <1>4, <1>7
  <2>3. k \in 1 .. n /\ k - 1 \in 0 .. n /\ ~(k <= k - 1)
    BY <2>2
  <2>4. ball[k - 1] = f[k - 1]
    BY <2>1, <2>3
  <2>5. f[k - 1] \in V
    BY <1>4, <2>3
  <2>6. f[k] = OneMore(graph, f[k - 1])
    <3> HIDE DEF V
    <3> QED
      BY <1>4, <2>3, <2>5
  <2> QED
    BY <1>8, <2>3, <2>4, <2>6
<1>10. \A k \in 1 .. n : f[k] = OneMore(graph, f[k - 1])
  <2> HIDE DEF ball
  <2> QED
    BY <1>8, <1>9
<1>11. Within(graph, s, n) = f[n]
  <2> HIDE DEF ball
  <2> QED
    BY <1>1, <1>9
<1> QED
  BY <1>4, <1>10, <1>11 DEF Unfolds

\* One call more reaches what the services reached so far call.
LEMMA WithinGrows ==
  ASSUME NEW graph, NEW s
  PROVE  /\ Within(graph, s, 0) = {s}
         /\ \A n \in Nat : Within(graph, s, n + 1) = OneMore(graph, Within(graph, s, n))
<1>1. Within(graph, s, 0) = {s}
  <2>1. 0 \in Nat
    OBVIOUS
  <2>2. PICK f : Unfolds(f, graph, s, 0)
    BY <2>1, WithinUnfolds
  <2> QED
    BY <2>2 DEF Unfolds
<1>2. ASSUME NEW n \in Nat
      PROVE  Within(graph, s, n + 1) = OneMore(graph, Within(graph, s, n))
  <2>1. n + 1 \in Nat
    OBVIOUS
  <2>2. PICK f : Unfolds(f, graph, s, n)
    BY WithinUnfolds
  <2>3. PICK g : Unfolds(g, graph, s, n + 1)
    BY <2>1, WithinUnfolds
  <2>4. \A k \in 0 .. n : f[k] = g[k]
    <3> DEFINE T == {k \in 0 .. n : f[k] # g[k]}
    <3> SUFFICES ASSUME T # {} PROVE FALSE
      OBVIOUS
    <3>1. PICK k \in T : \A m \in T : k <= m
      <4>1. T \in SUBSET Nat
        OBVIOUS
      <4> HIDE DEF T
      <4> QED
        BY <4>1, LeastNatural
    <3>2. k # 0
      BY <2>2, <2>3 DEF Unfolds
    <3>3. k \in 1 .. n /\ k \in 1 .. n + 1 /\ k - 1 \in 0 .. n /\ ~(k <= k - 1)
      BY <3>2
    <3>4. f[k - 1] = g[k - 1]
      BY <3>1, <3>3
    <3> QED
      BY <2>2, <2>3, <3>3, <3>4 DEF Unfolds
  <2>5. n \in 0 .. n /\ n + 1 \in 1 .. n + 1 /\ n + 1 - 1 = n
    OBVIOUS
  <2> QED
    BY <2>2, <2>3, <2>4, <2>5 DEF Unfolds
<1> QED
  BY <1>1, <1>2

LEMMA WithinIsKnown ==
  ASSUME NEW graph, NEW s \in Nodes(graph), NEW n \in Nat
  PROVE  Within(graph, s, n) \in SUBSET Nodes(graph)
<1>1. PICK f : Unfolds(f, graph, s, n)
  BY WithinUnfolds
<1>2. n \in 0 .. n /\ Nodes(graph) \cup {s} = Nodes(graph)
  OBVIOUS
<1> QED
  BY <1>1, <1>2 DEF Unfolds

\* Until all is reached every call more reaches something new, and there are not
\* more services than that: one call more from what is reachable reaches nothing
\* new.
LEMMA ReachableIsClosed ==
  ASSUME NEW graph, IsFiniteSet(Nodes(graph)), NEW s \in Nodes(graph)
  PROVE  /\ s \in Reachable(graph, s)
         /\ OneMore(graph, Reachable(graph, s)) = Reachable(graph, s)
<1> DEFINE W(n) == Within(graph, s, n)
<1>1. PICK N \in Nat : N = Cardinality(Nodes(graph))
  BY FS_CardinalityType
<1>2. \A n \in Nat : W(n + 1) = OneMore(graph, W(n)) /\ W(n) \in SUBSET Nodes(graph)
  BY WithinGrows, WithinIsKnown
<1>3. W(0) = {s}
  BY WithinGrows
<1> HIDE DEF W
<1>4. \A n \in Nat : W(n) \subseteq W(n + 1)
  BY <1>2 DEF OneMore
<1>5. \A n \in Nat : IsFiniteSet(W(n)) /\ Cardinality(W(n)) \in Nat /\ Cardinality(W(n)) <= N
  BY <1>1, <1>2, FS_Subset, FS_CardinalityType
\* Either nothing was new at some point, or there are more services each time.
<1>6. \A n \in Nat : s \in W(n) /\ (W(n + 1) = W(n) \/ Cardinality(W(n)) >= n + 1)
  <2> DEFINE Fine(n) == s \in W(n) /\ (W(n + 1) = W(n) \/ Cardinality(W(n)) >= n + 1)
             T == {n \in Nat : ~Fine(n)}
  <2> SUFFICES ASSUME T # {} PROVE FALSE
    OBVIOUS
  <2>1. PICK n \in T : \A m \in T : n <= m
    <3>1. T \in SUBSET Nat
      OBVIOUS
    <3> HIDE DEF T
    <3> QED
      BY <3>1, LeastNatural
  <2>2. CASE n = 0
    <3>1. s \in W(0) /\ Cardinality(W(0)) = 1
      BY <1>3, FS_Singleton
    <3> QED
      BY <2>2, <3>1
  <2>3. CASE n # 0
    <3>1. PICK m \in Nat : m + 1 = n
      <4>1. n - 1 \in Nat /\ n - 1 + 1 = n
        BY <2>3
      <4> QED
        BY <4>1
    <3>2. m \notin T
      <4>1. ~(n <= m)
        BY <3>1
      <4> QED
        BY <2>1, <4>1
    <3>3. Fine(m)
      BY <3>2
    <3>4. s \in W(n)
      BY <1>4, <3>1, <3>3
    <3>5. CASE W(m + 1) = W(m)
      <4>1. W(n + 1) = OneMore(graph, W(n)) /\ W(n) = OneMore(graph, W(m)) /\ W(n) = W(m)
        BY <1>2, <3>1, <3>5
      <4>2. W(n + 1) = W(n)
        BY <4>1
      <4> QED
        BY <3>4, <4>2
    <3>6. CASE W(m + 1) # W(m)
      <4>1. Cardinality(W(m)) >= m + 1
        BY <3>3, <3>6
      <4>2. W(m) \in SUBSET W(n) /\ W(m) # W(n)
        BY <1>4, <3>1, <3>6
      <4>3. Cardinality(W(m)) <= Cardinality(W(n)) /\ Cardinality(W(m)) # Cardinality(W(n))
        BY <1>5, <4>2, FS_Subset
      <4>4. Cardinality(W(m)) \in Nat /\ Cardinality(W(n)) \in Nat
        BY <1>5
      <4>5. Cardinality(W(n)) >= n + 1
        BY <3>1, <4>1, <4>3, <4>4
      <4> QED
        BY <3>4, <4>5
    <3> QED
      BY <3>5, <3>6
  <2> QED
    BY <2>2, <2>3
<1>7. ~(Cardinality(W(N)) >= N + 1)
  <2>1. Cardinality(W(N)) \in Nat /\ Cardinality(W(N)) <= N
    BY <1>5
  <2> QED
    BY <2>1
<1>8. s \in W(N) /\ W(N + 1) = W(N)
  BY <1>6, <1>7
<1>9. Reachable(graph, s) = W(N)
  BY <1>1 DEF Reachable, W
<1> QED
  BY <1>2, <1>8, <1>9

\* Where there is a path, a shortest one has its number of calls, and only to the
\* service itself has none.
LEMMA DistanceIs ==
  ASSUME NEW graph, IsFiniteSet(Nodes(graph)), NEW s \in Nodes(graph),
         NEW t \in Reachable(graph, s)
  PROVE  Distance(graph, s, t) \in Nat /\ (Distance(graph, s, t) = 0 <=> t = s)
<1> DEFINE D == {n \in 0 .. Cardinality(Nodes(graph)) : t \in Within(graph, s, n)}
<1>1. Cardinality(Nodes(graph)) \in Nat
  BY FS_CardinalityType
<1>2. Cardinality(Nodes(graph)) \in D
  BY <1>1 DEF Reachable
<1>3. D \in SUBSET Nat /\ D # {}
  BY <1>1, <1>2
<1>4. Min(D) \in D /\ \A n \in D : Min(D) <= n
  <2> HIDE DEF D
  <2> QED
    BY <1>3, MinIs
<1>5. Distance(graph, s, t) = Min(D)
  BY DEF Distance
<1>6. 0 \in D <=> t = s
  BY <1>1, WithinGrows
<1>7. Min(D) = 0 <=> 0 \in D
  <2> HIDE DEF D
  <2>1. Min(D) \in Nat
    BY <1>3, <1>4
  <2> QED
    BY <1>4, <2>1
<1> QED
  BY <1>3, <1>4, <1>5, <1>6, <1>7

---------------------------------------------------------------------------
(* Scores *)

LEMMA RequestsAreCounted ==
  ASSUME NEW graph, IsFiniteSet(Edges(graph)), NEW s,
         \A e \in Edges(graph) : graph.edges[e].calls.spans \in Nat
  PROVE  RequestsTo(graph, s) \in Nat
<1> DEFINE S == {e \in Edges(graph) : e[2] = s}
           Some(X) == CHOOSE x \in X : TRUE
           Rest(X) == X \ {Some(X)}
           Weight(e) == graph.edges[e].calls.spans
           Total(X, g) == IF X = {} THEN 0 ELSE Weight(Some(X)) + g[Rest(X)]
           iter == CHOOSE g : g = [X \in SUBSET S |-> Total(X, g)]
<1>1. RequestsTo(graph, s) = iter[S]
  BY DEF RequestsTo, MapThenSumSet, MapThenFoldSet
<1>2. IsFiniteSet(S) /\ \A e \in S : Weight(e) \in Nat
  BY FS_Subset
<1>3. ASSUME NEW X \in SUBSET S
      PROVE  Cardinality(X) \in Nat /\ (Cardinality(X) <= 0 => X = {})
  <2> HIDE DEF S
  <2>1. IsFiniteSet(X)
    BY <1>2, FS_Subset
  <2>2. Cardinality(X) \in Nat /\ (Cardinality(X) = 0 <=> X = {})
    BY <2>1, FS_CardinalityType, FS_EmptySet
  <2> QED
    BY <2>2
<1>4. ASSUME NEW X \in SUBSET S, X # {}
       PROVE  /\ Some(X) \in S
              /\ Rest(X) \in SUBSET S /\ Rest(X) \subseteq X /\ Rest(X) # X
              /\ Cardinality(Rest(X)) = Cardinality(X) - 1
  <2> HIDE DEF S
  <2>1. IsFiniteSet(X)
    BY <1>2, FS_Subset
  <2>2. Some(X) \in X
    BY <1>4
  <2>3. Cardinality(X \ {Some(X)}) = Cardinality(X) - 1
    <3> HIDE DEF Some
    <3> QED
      BY <2>1, <2>2, FS_RemoveElement
  <2> HIDE DEF Some
  <2> QED
    BY <2>2, <2>3
<1> HIDE DEF S, Some, Rest, Weight
<1> DEFINE Good(m, g) == \A X \in SUBSET S : Cardinality(X) <= m => g[X] = Total(X, g)
           T == {m \in Nat : ~\E g \in [SUBSET S -> Nat] : Good(m, g)}
<1>5. T = {}
  <2> SUFFICES ASSUME T # {} PROVE FALSE
    OBVIOUS
  <2>1. PICK m \in T : \A k \in T : m <= k
    <3>1. T \in SUBSET Nat
      OBVIOUS
    <3> HIDE DEF T
    <3> QED
      BY <3>1, LeastNatural
  <2>2. CASE m = 0
    <3> DEFINE g == [X \in SUBSET S |-> 0]
    <3>1. g \in [SUBSET S -> Nat]
      OBVIOUS
    <3>2. ASSUME NEW X \in SUBSET S, Cardinality(X) <= 0 PROVE g[X] = Total(X, g)
      <4>1. X = {}
        BY <1>3, <3>2
      <4> QED
        BY <4>1
    <3> HIDE DEF g
    <3> QED
      BY <2>1, <2>2, <3>1, <3>2
  <2>3. CASE m # 0
    <3>1. m - 1 \in Nat /\ ~(m <= m - 1)
      BY <2>3
    <3>2. m - 1 \notin T
      BY <2>1, <3>1
    <3>3. PICK g \in [SUBSET S -> Nat] : Good(m - 1, g)
      BY <3>1, <3>2
    <3> DEFINE h == [X \in SUBSET S |-> Total(X, g)]
    <3>4. ASSUME NEW X \in SUBSET S PROVE Total(X, g) \in Nat
      <4>1. CASE X = {}
        BY <4>1
      <4>2. CASE X # {}
        BY <1>2, <1>4, <4>2
      <4> QED
        BY <4>1, <4>2
    <3>5. h \in [SUBSET S -> Nat]
      <4> HIDE DEF Total
      <4> QED
        BY <3>4
    <3>6. ASSUME NEW X \in SUBSET S, Cardinality(X) <= m PROVE h[X] = Total(X, h)
      <4>1. CASE X = {}
        BY <4>1
      <4>2. CASE X # {}
        <5>1. Rest(X) \in SUBSET S /\ Cardinality(Rest(X)) <= m - 1
          BY <1>3, <1>4, <3>6, <4>2
        <5>2. g[Rest(X)] = Total(Rest(X), g)
          <6> HIDE DEF Total
          <6> QED
            BY <3>3, <5>1
        <5>3. h[Rest(X)] = g[Rest(X)]
          <6> HIDE DEF Total
          <6> QED
            BY <5>1, <5>2
        <5>4. h[X] = Total(X, g)
          OBVIOUS
        <5> HIDE DEF h
        <5> QED
          BY <4>2, <5>3, <5>4
      <4> QED
        BY <4>1, <4>2
    <3> HIDE DEF h, Total
    <3> QED
      BY <2>1, <3>5, <3>6
  <2> QED
    BY <2>2, <2>3
<1>6. PICK g \in [SUBSET S -> Nat] : \A X \in SUBSET S : g[X] = Total(X, g)
  <2>1. PICK m \in Nat : m = Cardinality(S)
    BY <1>3
  <2>2. PICK g \in [SUBSET S -> Nat] : Good(m, g)
    BY <1>5
  <2>3. \A X \in SUBSET S : Cardinality(X) <= m
    BY <1>2, <2>1, FS_Subset
  <2> HIDE DEF Total
  <2> QED
    BY <2>2, <2>3
<1>7. g = [X \in SUBSET S |-> Total(X, g)]
  <2> HIDE DEF Total
  <2>1. g = [X \in SUBSET S |-> g[X]]
    OBVIOUS
  <2> QED
    BY <1>6, <2>1
<1>8. iter = [X \in SUBSET S |-> Total(X, iter)]
  <2> DEFINE Round(f) == [X \in SUBSET S |-> Total(X, f)]
  <2>1. g = Round(g) /\ iter = CHOOSE f : f = Round(f)
    BY <1>7
  <2> HIDE DEF Round, iter
  <2>2. iter = Round(iter)
    BY <2>1
  <2> QED
    BY <2>2 DEF Round
<1> HIDE DEF iter
<1>9. \A X \in SUBSET S : iter[X] = g[X]
  <2> DEFINE Off == {X \in SUBSET S : iter[X] # g[X]}
  <2> SUFFICES ASSUME Off # {} PROVE FALSE
    OBVIOUS
  <2>1. IsWellFoundedOn(StrictSubsetOrdering(S), SUBSET S)
    BY <1>2, FS_StrictSubsetOrderingWellFounded, FS_FiniteSubsetsOfFinite
  <2>2. PICK X \in Off : \A Y \in Off : <<Y, X>> \notin StrictSubsetOrdering(S)
    <3>1. Off \subseteq SUBSET S
      OBVIOUS
    <3> HIDE DEF Off
    <3> QED
      BY <2>1, <3>1, WFMin
  <2>3. iter[X] = Total(X, iter) /\ g[X] = Total(X, g)
    <3> HIDE DEF Total
    <3> QED
      BY <1>6, <1>8
  <2>4. X # {}
    BY <2>3
  <2>5. Rest(X) \in SUBSET S /\ Rest(X) \subseteq X /\ Rest(X) # X
    BY <1>4, <2>4
  <2>6. <<Rest(X), X>> \in StrictSubsetOrdering(S)
    BY <2>5 DEF StrictSubsetOrdering
  <2>7. iter[Rest(X)] = g[Rest(X)]
    BY <2>2, <2>5, <2>6
  <2> QED
    BY <2>2, <2>3, <2>4, <2>7
<1>10. S \in SUBSET S
  OBVIOUS
<1> QED
  BY <1>1, <1>9, <1>10


LEMMA ShareIs ==
  ASSUME NEW all \in SUBSET Nat, IsFiniteSet(all), NEW n \in all
  PROVE  Share(n, all) \in Points
<1>1. CASE n = 0
  BY <1>1 DEF Share, Points
<1>2. CASE n # 0
  <2>1. all \in SUBSET Int /\ all # {}
    OBVIOUS
  <2>2. Max(all) \in all /\ n <= Max(all)
    BY <2>1, MaxIs
  <2>3. PICK m \in Nat : m = Max(all)
    BY <2>2
  <2>4. m > 0 /\ n <= m
    BY <1>2, <2>2, <2>3
  <2>5. PICK q \in Int : q = (10000 * n) \div m
    BY <2>4
  <2>6. m * q <= 10000 * n /\ 10000 * n < m * (q + 1)
    BY <2>4, <2>5
  <2>7. q >= 0
    <3> SUFFICES ASSUME q < 0 PROVE FALSE
      OBVIOUS
    <3>1. m * (q + 1) <= 0
      BY <2>4
    <3> QED
      BY <2>6, <3>1
  <2>8. q <= 10000
    <3> SUFFICES ASSUME q > 10000 PROVE FALSE
      OBVIOUS
    <3>1. m * q > m * 10000
      BY <2>4
    <3>2. m * 10000 >= 10000 * n
      BY <2>4
    <3> QED
      BY <2>6, <3>1, <3>2
  <2>9. Share(n, all) = q
    BY <1>2, <2>3, <2>5 DEF Share
  <2>10. q \in 0 .. 10000
    BY <2>7, <2>8
  <2> QED
    BY <2>9, <2>10 DEF Points
<1> QED
  BY <1>1, <1>2

\* What the builder's graphs are.
IsGraph(graph) ==
  /\ IsFiniteSet(Nodes(graph)) /\ IsFiniteSet(Edges(graph))
  /\ \A e \in Edges(graph) : graph.edges[e].calls.spans \in Nat

LEMMA HalfIs ==
  ASSUME NEW m \in Nat, NEW x \in 0 .. m, NEW y \in 0 .. m
  PROVE  (x + y) \div 2 \in 0 .. m
OBVIOUS

LEMMA CriticalityIs ==
  ASSUME NEW graph, IsGraph(graph), NEW s, NEW t \in Nodes(graph)
  PROVE  GraphScores(graph, s)[t].criticality \in Points
<1> DEFINE degrees == {Degree(graph, u) : u \in Nodes(graph)}
           requests == {RequestsTo(graph, u) : u \in Nodes(graph)}
<1>1. \A u \in Nodes(graph) : Degree(graph, u) \in Nat /\ RequestsTo(graph, u) \in Nat
  BY FS_Subset, FS_CardinalityType, RequestsAreCounted DEF IsGraph, Degree
<1>2. degrees \in SUBSET Nat /\ requests \in SUBSET Nat
  BY <1>1
<1>3. IsFiniteSet(degrees)
  <2> DEFINE f == [u \in Nodes(graph) |-> Degree(graph, u)]
  <2>1. IsFiniteSet(DOMAIN f)
    BY DEF IsGraph
  <2>2. {f[u] : u \in DOMAIN f} = degrees
    OBVIOUS
  <2> HIDE DEF f, degrees
  <2> QED
    BY <2>1, <2>2, FiniteImage
<1>4. IsFiniteSet(requests)
  <2> DEFINE f == [u \in Nodes(graph) |-> RequestsTo(graph, u)]
  <2>1. IsFiniteSet(DOMAIN f)
    BY DEF IsGraph
  <2>2. {f[u] : u \in DOMAIN f} = requests
    OBVIOUS
  <2> HIDE DEF f, requests
  <2> QED
    BY <2>1, <2>2, FiniteImage
<1>5. Degree(graph, t) \in degrees /\ RequestsTo(graph, t) \in requests
  OBVIOUS
<1> HIDE DEF degrees, requests
<1>6. Share(Degree(graph, t), degrees) \in Points
  BY <1>2, <1>3, <1>5, ShareIs
<1>7. Share(RequestsTo(graph, t), requests) \in Points
  BY <1>2, <1>4, <1>5, ShareIs
<1>8. DegreeScore(graph, t) \in Points /\ TrafficScore(graph, t) \in Points
  BY <1>6, <1>7 DEF DegreeScore, TrafficScore, degrees, requests
<1>9. GraphScores(graph, s)[t].criticality
        = (DegreeScore(graph, t) + TrafficScore(graph, t)) \div 2
  BY DEF GraphScores
<1>10. PICK m \in Nat : m = 10000
  OBVIOUS
<1>11. Points = 0 .. m
  BY <1>10 DEF Points
<1> QED
  BY <1>8, <1>9, <1>11, HalfIs

LEMMA GraphsAgree ==
  ASSUME NEW graph, IsGraph(graph), NEW s \in Nodes(graph), NEW t \in Nodes(graph)
  PROVE  Agree(graph, s, t)
<1> DEFINE D == Dependencies(graph, s)
           C == Callers(graph, s)
<1>1. IsFiniteSet(Nodes(graph))
  BY DEF IsGraph
<1>2. /\ \A u \in Nodes(graph) : u \in Reachable(graph, u)
      /\ OneMore(graph, Reachable(graph, s)) = Reachable(graph, s)
  BY <1>1, ReachableIsClosed
<1>3. D \cup {s} = Reachable(graph, s) /\ s \notin D /\ s \notin C
  BY <1>2 DEF Dependencies, Callers
<1>4. t \in D <=> s \in Callers(graph, t)
  BY DEF Dependencies, Callers
<1>5. t \in D \cup {s} => Successors(graph, t) \subseteq D \cup {s}
  BY <1>2, <1>3 DEF OneMore
\* The fractions, for services on each side of the affected one.
<1>6. ASSUME NEW u \in Reachable(graph, s)
      PROVE  \E d \in Nat : /\ d = Distance(graph, s, u) /\ (d = 0 <=> u = s)
                            /\ Consistency(graph, s, u) = <<1, 1 + d>>
  BY <1>1, DistanceIs DEF Consistency
<1>7. ASSUME NEW u \in C \ D
      PROVE  \E d \in Nat : /\ d = Distance(graph, u, s)
                            /\ Consistency(graph, s, u) = <<8, 10 * (1 + d)>>
  <2>1. u \in Nodes(graph) /\ s \in Reachable(graph, u) /\ u \notin Reachable(graph, s)
    BY <1>3 DEF Callers
  <2>2. Distance(graph, u, s) \in Nat
    BY <1>1, <2>1, DistanceIs
  <2> QED
    BY <2>1, <2>2 DEF Consistency
<1>8. t \notin D \cup C \cup {s} => Consistency(graph, s, t) = <<0, 1>>
  BY <1>3 DEF Callers, Consistency
<1>9. t \in Reachable(graph, s) \/ t \in C \ D \/ t \notin D \cup C \cup {s}
  BY <1>3
<1> HIDE DEF D, C
<1>10. /\ Consistency(graph, s, t)[1] = Consistency(graph, s, t)[2] <=> t = s
       /\ Consistency(graph, s, t)[1] = 0 <=> t \notin D \cup C \cup {s}
  <2>1. CASE t \in Reachable(graph, s)
    <3>1. PICK d \in Nat : (d = 0 <=> t = s) /\ Consistency(graph, s, t) = <<1, 1 + d>>
      BY <1>6, <2>1
    <3> QED
      BY <1>3, <2>1, <3>1
  <2>2. CASE t \in C \ D
    <3>1. PICK d \in Nat : Consistency(graph, s, t) = <<8, 10 * (1 + d)>>
      BY <1>7, <2>2
    <3> QED
      BY <1>3, <2>2, <3>1
  <2>3. CASE t \notin D \cup C \cup {s}
    BY <1>8, <2>3
  <2> QED
    BY <1>9, <2>1, <2>2, <2>3
<1>11. ASSUME NEW u \in C \ D, t \in D, Distance(graph, s, t) = Distance(graph, u, s)
       PROVE  Consistency(graph, s, t)[1] * Consistency(graph, s, u)[2]
                > Consistency(graph, s, u)[1] * Consistency(graph, s, t)[2]
  <2>1. PICK d \in Nat : /\ d = Distance(graph, u, s)
                         /\ Consistency(graph, s, u) = <<8, 10 * (1 + d)>>
    BY <1>7
  <2>2. Consistency(graph, s, t) = <<1, 1 + d>>
    BY <1>3, <1>6, <1>11, <2>1
  <2> QED
    BY <2>1, <2>2
<1>12. GraphScores(graph, s)[t].criticality \in Points
  BY CriticalityIs
<1>13. t \in D \cup C \cup {s} <=> t \in Dependencies(graph, s) \cup Callers(graph, s) \cup {s}
  BY DEF D, C
<1>14. t \in Dependencies(graph, s) \cup {s}
         => Successors(graph, t) \subseteq Dependencies(graph, s) \cup {s}
  BY <1>5 DEF D
<1>15. t \in Dependencies(graph, s) <=> s \in Callers(graph, t)
  BY <1>4 DEF D
<1>16. \A u \in Callers(graph, s) \ Dependencies(graph, s) :
         (t \in Dependencies(graph, s) /\ Distance(graph, s, t) = Distance(graph, u, s))
           => Consistency(graph, s, t)[1] * Consistency(graph, s, u)[2]
                > Consistency(graph, s, u)[1] * Consistency(graph, s, t)[2]
  BY <1>11 DEF D, C
<1>17. Consistency(graph, s, t)[1] = 0
         <=> t \notin Dependencies(graph, s) \cup Callers(graph, s) \cup {s}
  BY <1>10, <1>13, Zenon
<1>18. Consistency(graph, s, t)[1] = Consistency(graph, s, t)[2] <=> t = s
  BY <1>10
<1> QED
  BY <1>12, <1>14, <1>15, <1>16, <1>17, <1>18, Zenon DEF Agree

---------------------------------------------------------------------------
(* Lemmas about spans *)

\* What is in some sequences, and nothing else, is in them one after the other.
LEMMA FlattenIs ==
  ASSUME NEW S, NEW seqs \in Seq(Seq(S))
  PROVE  FlattenSeq(seqs) \in Seq(S)
<1> DEFINE n == Len(seqs)
           Flat(f) == [i \in 1 .. n |-> IF i = 1 THEN seqs[i] ELSE f[i - 1] \o seqs[i]]
           flatten == CHOOSE f : f = Flat(f)
<1>1. n \in Nat /\ \A k \in 1 .. n : seqs[k] \in Seq(S)
  BY LenProperties, ElementOfSeq
<1>2. CASE n = 0
  BY <1>2, EmptySeq DEF FlattenSeq
<1>3. CASE n # 0
  <2> DEFINE m == n - 1
             next == [k \in 1 .. m |-> [x \in Seq(S) |-> x \o seqs[k + 1]]]
  <2>1. m \in Nat /\ 1 \in 1 .. n /\ \A k \in 1 .. m : k + 1 \in 1 .. n
    BY <1>1, <1>3
  <2>2. \A k \in 1 .. m : \A x \in Seq(S) : x \o seqs[k + 1] \in Seq(S)
    BY <1>1, <2>1, ConcatProperties
  <2>3. next \in [1 .. m -> [Seq(S) -> Seq(S)]]
    BY <2>2
  <2>4. seqs[1] \in Seq(S)
    BY <1>1, <2>1
  <2>5. PICK g \in [0 .. m -> Seq(S)] : Recurs(g, m, seqs[1], next)
    <3> HIDE DEF m, next
    <3> QED
      BY <2>1, <2>3, <2>4, RecursionIs
  <2>6. /\ g[0] = seqs[1]
        /\ \A k \in 1 .. m : g[k] = next[k][g[k - 1]]
    <3> HIDE DEF m, next
    <3> QED
      BY <2>5 DEF Recurs
  <2>7. \A k \in 1 .. m : g[k] = g[k - 1] \o seqs[k + 1]
    <3> TAKE k \in 1 .. m
    <3>1. k - 1 \in 0 .. m
      BY <2>1
    <3>2. g[k - 1] \in Seq(S)
      BY <3>1
    <3> QED
      BY <2>6, <3>2
  <2> HIDE DEF next
  <2> DEFINE h == [i \in 1 .. n |-> g[i - 1]]
  <2>8. h = Flat(h)
    <3> SUFFICES ASSUME NEW i \in 1 .. n
                 PROVE  g[i - 1] = IF i = 1 THEN seqs[i] ELSE h[i - 1] \o seqs[i]
      OBVIOUS
    <3>1. CASE i = 1
      BY <2>6, <3>1
    <3>2. CASE i # 1
      <4>1. i - 1 \in 1 .. m /\ i - 1 \in 1 .. n /\ (i - 1) + 1 = i
        BY <1>1, <3>2
      <4>2. h[i - 1] = g[(i - 1) - 1]
        BY <4>1
      <4>3. g[i - 1] = g[(i - 1) - 1] \o seqs[(i - 1) + 1]
        BY <2>7, <4>1
      <4> QED
        BY <3>2, <4>1, <4>2, <4>3
    <3> QED
      BY <3>1, <3>2
  <2>9. flatten = Flat(flatten)
    <3> HIDE DEF h
    <3> QED
      BY <2>8
  <2>10. FlattenSeq(seqs) = flatten[n]
    BY <1>3 DEF FlattenSeq
  <2> HIDE DEF flatten
  <2> DEFINE T == {i \in 1 .. n : flatten[i] \notin Seq(S)}
  <2>11. T = {}
    <3> SUFFICES ASSUME T # {} PROVE FALSE
      OBVIOUS
    <3>1. PICK i \in T : \A k \in T : i <= k
      <4> HIDE DEF T
      <4>1. T \in SUBSET Nat
        BY DEF T
      <4> QED
        BY <4>1, LeastNatural
    <3>2. flatten[i] = IF i = 1 THEN seqs[i] ELSE flatten[i - 1] \o seqs[i]
      BY <2>9, <3>1
    <3>3. CASE i = 1
      BY <1>1, <3>1, <3>2, <3>3
    <3>4. CASE i # 1
      <4>1. i - 1 \in 1 .. n /\ ~(i <= i - 1)
        BY <1>1, <3>4
      <4>2. flatten[i - 1] \in Seq(S)
        BY <3>1, <4>1
      <4>3. flatten[i - 1] \o seqs[i] \in Seq(S)
        BY <1>1, <4>2, ConcatProperties
      <4> QED
        BY <3>2, <3>4, <4>3
    <3> QED
      BY <3>3, <3>4
  <2> QED
    BY <1>1, <1>3, <2>10, <2>11
<1> QED
  BY <1>2, <1>3

LEMMA PlacesAre ==
  ASSUME NEW S, NEW q \in Seq(S)
  PROVE  /\ Len(q) \in Nat /\ DOMAIN q = 1 .. Len(q)
         /\ IsFiniteSet(DOMAIN q) /\ DOMAIN q \in SUBSET (Nat \ {0})
         /\ \A i \in DOMAIN q : q[i] \in S
<1>1. /\ Len(q) \in Nat /\ DOMAIN q = 1 .. Len(q)
      /\ \A i \in 1 .. Len(q) : q[i] \in S
  BY LenProperties, ElementOfSeq
<1>2. PICK n \in Nat : n = Len(q)
  BY <1>1
<1>3. IsFiniteSet(1 .. n)
  BY FS_Interval
<1> QED
  BY <1>1, <1>2, <1>3

\* The spans of some traces.
IsSpans(seen, T) == seen \in Seq(SpansIn(T))

LEMMA SpansAre ==
  ASSUME NEW T, NEW seen, IsSpans(seen, T)
  PROVE  /\ IsFiniteSet(DOMAIN seen) /\ DOMAIN seen \in SUBSET (Nat \ {0})
         /\ \A i \in DOMAIN seen :
              /\ seen[i].trace \in T /\ seen[i].error \in BOOLEAN
              /\ seen[i].start \in Int /\ seen[i].finish \in Int
<1>1. /\ IsFiniteSet(DOMAIN seen) /\ DOMAIN seen \in SUBSET (Nat \ {0})
      /\ \A i \in DOMAIN seen : seen[i] \in SpansIn(T)
  BY PlacesAre DEF IsSpans
<1>2. \A x \in SpansIn(T) : /\ x.trace \in T /\ x.error \in BOOLEAN
                            /\ x.start \in Int /\ x.finish \in Int
  BY DEF SpansIn
<1> QED
  BY <1>1, <1>2

\* A parent is a span of the same trace.
LEMMA ParentIs ==
  ASSUME NEW T, NEW seen, IsSpans(seen, T), NEW i \in DOMAIN seen,
         Parent(seen, i) # 0
  PROVE  /\ Parent(seen, i) \in DOMAIN seen
         /\ seen[Parent(seen, i)].trace = seen[i].trace
<1> DEFINE P == {j \in DOMAIN seen : /\ seen[j].trace = seen[i].trace
                                      /\ seen[j].id = seen[i].parent}
<1>1. IsFiniteSet(P \cup {0}) /\ P \cup {0} \in SUBSET Int
  <2>1. IsFiniteSet(P)
    BY SpansAre, FS_Subset
  <2> QED
    BY <2>1, SpansAre, FS_AddElement
<1>2. Parent(seen, i) = Max(P \cup {0})
  BY DEF Parent
<1> HIDE DEF P
<1>3. Max(P \cup {0}) \in P \cup {0}
  BY <1>1, MaxIs
<1> QED
  BY <1>2, <1>3 DEF P

\* How many traces a finite set of spans has.
LEMMA TracesAre ==
  ASSUME NEW seen, NEW I, IsFiniteSet(I)
  PROVE  /\ IsFiniteSet({seen[i].trace : i \in I})
         /\ Cardinality({seen[i].trace : i \in I}) \in Nat
         /\ Cardinality({seen[i].trace : i \in I}) <= Cardinality(I)
<1> DEFINE f == [i \in I |-> seen[i].trace]
<1>1. DOMAIN f = I /\ {f[i] : i \in DOMAIN f} = {seen[i].trace : i \in I}
  OBVIOUS
<1> HIDE DEF f
<1>2. /\ IsFiniteSet({f[i] : i \in DOMAIN f})
      /\ Cardinality({f[i] : i \in DOMAIN f}) <= Cardinality(DOMAIN f)
  BY <1>1, FiniteImage
<1> QED
  BY <1>1, <1>2, FS_CardinalityType

LEMMA CountsAre ==
  ASSUME NEW seen, NEW I, IsFiniteSet(I)
  PROVE  /\ Counts(seen, I).spans \in Nat
         /\ Counts(seen, I).traces \in Nat
         /\ Counts(seen, I).errors \in Nat
         /\ Counts(seen, I).traces <= Counts(seen, I).spans
         /\ I # {} => 1 <= Counts(seen, I).traces
<1>1. IsFiniteSet({i \in I : seen[i].error})
  BY FS_Subset
<1>2. ASSUME I # {} PROVE Cardinality({seen[i].trace : i \in I}) # 0
  <2>1. {seen[i].trace : i \in I} # {}
    BY <1>2
  <2> QED
    BY <2>1, TracesAre, FS_EmptySet
<1>3. PICK k, n, m : /\ k = Cardinality(I)
                     /\ n = Cardinality({seen[i].trace : i \in I})
                     /\ m = Cardinality({i \in I : seen[i].error})
  OBVIOUS
<1>4. k \in Nat /\ n \in Nat /\ m \in Nat /\ n <= k /\ (I # {} => n # 0)
  BY <1>1, <1>2, <1>3, TracesAre, FS_CardinalityType
<1>5. Counts(seen, I) = [spans |-> k, traces |-> n, errors |-> m]
  BY <1>3 DEF Counts
<1> QED
  BY <1>4, <1>5

LEMMA CountsGrow ==
  ASSUME NEW seen, NEW I, IsFiniteSet(I), NEW J \in SUBSET I
  PROVE  /\ Counts(seen, J).spans <= Counts(seen, I).spans
         /\ Counts(seen, J).errors <= Counts(seen, I).errors
<1>1. Cardinality(J) <= Cardinality(I)
  BY FS_Subset
<1>2. IsFiniteSet({i \in I : seen[i].error})
  BY FS_Subset
<1>3. {i \in J : seen[i].error} \in SUBSET {i \in I : seen[i].error}
  OBVIOUS
<1>4. Cardinality({i \in J : seen[i].error}) <= Cardinality({i \in I : seen[i].error})
  BY <1>2, <1>3, FS_Subset
<1> QED
  BY <1>1, <1>4 DEF Counts

\* Between two neighbours, and the further up the later.
LEMMA BetweenIs ==
  ASSUME NEW a \in Nat, NEW b \in Nat, a <= b, NEW r \in 0 .. 99
  PROVE  /\ 100 * a + (b - a) * r \in Nat
         /\ 100 * a <= 100 * a + (b - a) * r
         /\ 100 * a + (b - a) * r <= 100 * b
         /\ \A s \in r .. 99 : 100 * a + (b - a) * r <= 100 * a + (b - a) * s
<1>1. PICK d \in Nat : d = b - a /\ b = a + d
  OBVIOUS
<1>2. \A x, y \in Nat : x <= y => d * x \in Nat /\ d * x <= d * y
  <2> SUFFICES ASSUME NEW x \in Nat, NEW y \in Nat, x <= y
               PROVE  d * x \in Nat /\ d * x <= d * y
    OBVIOUS
  <2>1. PICK z \in Nat : y = x + z
    <3>1. y - x \in Nat /\ y = x + (y - x)
      OBVIOUS
    <3> QED
      BY <3>1
  <2>2. d * x \in Nat /\ d * z \in Nat /\ d * y = d * x + d * z
    BY <2>1
  <2> QED
    BY <2>2
<1>3. d * r \in Nat /\ d * r <= d * 100 /\ \A s \in r .. 99 : d * r <= d * s
  BY <1>2
<1>4. PICK e \in Nat : e = d * r
  BY <1>3
<1>5. ASSUME NEW s \in r .. 99 PROVE 100 * a + d * r <= 100 * a + d * s
  <2>1. s \in Nat
    OBVIOUS
  <2>2. d * s \in Nat /\ d * r <= d * s
    BY <1>2, <2>1
  <2> QED
    BY <1>3, <2>2
<1> QED
  BY <1>1, <1>3, <1>4, <1>5

\* Some numbers that only grow.
Growing(values, n) ==
  /\ n \in Nat \ {0} /\ Len(values) = n
  /\ \A k \in 1 .. n : values[k] \in Nat
  /\ \A j, k \in 1 .. n : j <= k => values[j] <= values[k]

LEMMA PercentilesAre ==
  ASSUME NEW values, NEW n, Growing(values, n), NEW q \in 0 .. 99, NEW r \in q .. 99
  PROVE  /\ 0 <= Percentile(values, q) /\ Percentile(values, q) <= Percentile(values, r)
<1> DEFINE At(x) == (n - 1) * x
           Low(x) == At(x) \div 100 + 1
           Up(x) == Min({Low(x) + 1, n})
           Rest(x) == At(x) % 100
           Value(x) == 100 * values[Low(x)] + (values[Up(x)] - values[Low(x)]) * Rest(x)
<1>1. n \in Nat /\ n >= 1
  BY DEF Growing
<1>2. PICK m \in Nat : m = n - 1
  BY <1>1
<1>3. ASSUME NEW x \in 0 .. 99
      PROVE  /\ At(x) \in Nat /\ At(x) <= 99 * m
             /\ Rest(x) \in 0 .. 99 /\ Low(x) \in 1 .. n
             /\ At(x) = 100 * (Low(x) - 1) + Rest(x)
             /\ Up(x) \in Low(x) .. n /\ Up(x) <= Low(x) + 1
  <2>1. At(x) = m * x /\ m * x \in Nat
    BY <1>2
  <2>2. m * x <= 99 * m
    <3>1. PICK y \in Nat : x + y = 99
      <4>1. 99 - x \in Nat /\ x + (99 - x) = 99
        OBVIOUS
      <4> QED
        BY <4>1
    <3>2. m * (x + y) = m * x + m * y /\ m * y \in Nat
      OBVIOUS
    <3> QED
      BY <3>1, <3>2
  <2>3. PICK p \in Nat : p = At(x) /\ p <= 99 * m
    BY <2>1, <2>2
  <2>4. /\ p % 100 \in 0 .. 99 /\ p \div 100 \in Nat
        /\ p = 100 * (p \div 100) + (p % 100)
    OBVIOUS
  <2>5. p \div 100 <= m
    BY <2>3, <2>4
  <2>6. Low(x) \in 1 .. n /\ Rest(x) \in 0 .. 99 /\ At(x) = 100 * (Low(x) - 1) + Rest(x)
    BY <1>1, <1>2, <2>3, <2>4, <2>5
  <2>7. PICK l \in 1 .. n : l = Low(x)
    BY <2>6
  <2>8. Up(x) = Min({l + 1, n})
    BY <2>7
  <2>9. /\ Min({l + 1, n}) \in {l + 1, n} /\ \A y \in {l + 1, n} : Min({l + 1, n}) <= y
    BY <1>1, MinIs
  <2>10. Up(x) \in Low(x) .. n /\ Up(x) <= Low(x) + 1
    BY <1>1, <2>7, <2>8, <2>9
  <2> QED
    BY <2>1, <2>2, <2>6, <2>10
<1>4. q \in 0 .. 99 /\ r \in 0 .. 99 /\ q <= r
  OBVIOUS
<1>5. At(q) <= At(r)
  <2>1. PICK d \in Nat : r = q + d
    <3>1. r - q \in Nat /\ r = q + (r - q)
      OBVIOUS
    <3> QED
      BY <3>1
  <2>2. m * (q + d) = m * q + m * d /\ m * d \in Nat /\ m * q \in Nat
    OBVIOUS
  <2> QED
    BY <1>2, <2>1, <2>2
<1>6. Percentile(values, q) = Value(q) /\ Percentile(values, r) = Value(r)
  BY DEF Percentile, Growing
<1>7. Low(q) <= Low(r) /\ (Low(q) = Low(r) => Rest(q) <= Rest(r))
  <2>1. PICK aq, ar, lq, lr, rq, rr :
          /\ aq = At(q) /\ lq = Low(q) /\ rq = Rest(q)
          /\ ar = At(r) /\ lr = Low(r) /\ rr = Rest(r)
    OBVIOUS
  <2> HIDE DEF At, Low, Rest
  <2>2. /\ lq \in 1 .. n /\ rq \in 0 .. 99 /\ aq = 100 * (lq - 1) + rq
        /\ lr \in 1 .. n /\ rr \in 0 .. 99 /\ ar = 100 * (lr - 1) + rr
        /\ aq <= ar
    BY <1>3, <1>4, <1>5, <2>1
  <2>3. lq <= lr /\ (lq = lr => rq <= rr)
    BY <1>1, <2>2
  <2> QED
    BY <2>1, <2>3
<1> HIDE DEF At, Low, Up, Rest
<1>8. ASSUME NEW x \in {q, r}
      PROVE  /\ values[Low(x)] \in Nat /\ values[Up(x)] \in Nat
             /\ values[Low(x)] <= values[Up(x)] /\ Rest(x) \in 0 .. 99
  <2>1. Low(x) \in 1 .. n /\ Up(x) \in 1 .. n /\ Low(x) <= Up(x)
    BY <1>3, <1>4
  <2> QED
    BY <1>3, <1>4, <2>1 DEF Growing
<1>9. ASSUME NEW x \in {q, r}
      PROVE  /\ Value(x) \in Nat /\ 100 * values[Low(x)] <= Value(x)
             /\ Value(x) <= 100 * values[Up(x)]
             /\ \A s \in Rest(x) .. 99 :
                  Value(x) <= 100 * values[Low(x)] + (values[Up(x)] - values[Low(x)]) * s
  <2>1. PICK a, b, r0 : a = values[Low(x)] /\ b = values[Up(x)] /\ r0 = Rest(x)
    OBVIOUS
  <2>2. a \in Nat /\ b \in Nat /\ a <= b /\ r0 \in 0 .. 99
    BY <1>8, <2>1
  <2>3. /\ 100 * a + (b - a) * r0 \in Nat /\ 100 * a <= 100 * a + (b - a) * r0
        /\ 100 * a + (b - a) * r0 <= 100 * b
        /\ \A s \in r0 .. 99 : 100 * a + (b - a) * r0 <= 100 * a + (b - a) * s
    BY <2>2, BetweenIs
  <2> QED
    BY <2>1, <2>3
<1>10. CASE Low(q) = Low(r)
  <2>1. Up(q) = Up(r)
    BY <1>10 DEF Up
  <2>2. Rest(r) \in Rest(q) .. 99
    <3>1. Rest(q) \in 0 .. 99 /\ Rest(r) \in 0 .. 99 /\ Rest(q) <= Rest(r)
      BY <1>3, <1>4, <1>7, <1>10
    <3> QED
      BY <3>1
  <2> QED
    BY <1>6, <1>9, <1>10, <2>1, <2>2
<1>11. CASE Low(q) # Low(r)
  <2>1. Up(q) \in 1 .. n /\ Low(r) \in 1 .. n /\ Up(q) <= Low(r)
    <3>1. PICK l, k, u : l = Low(q) /\ k = Low(r) /\ u = Up(q)
      OBVIOUS
    <3>2. l \in 1 .. n /\ k \in 1 .. n /\ u \in l .. n /\ u <= l + 1 /\ l <= k /\ l # k
      BY <1>3, <1>4, <1>7, <1>11, <3>1
    <3>3. u \in 1 .. n /\ u <= k
      BY <1>1, <3>2
    <3> QED
      BY <3>1, <3>2, <3>3
  <2>2. values[Up(q)] <= values[Low(r)]
    BY <2>1 DEF Growing
  <2>3. /\ Value(q) \in Nat /\ Value(r) \in Nat
        /\ Value(q) <= 100 * values[Up(q)] /\ 100 * values[Low(r)] <= Value(r)
        /\ values[Up(q)] \in Nat /\ values[Low(r)] \in Nat
    BY <1>8, <1>9
  <2> HIDE DEF Value
  <2> QED
    BY <1>6, <2>2, <2>3
<1> QED
  BY <1>10, <1>11

\* Latencies are sorted.
LEMMA LatenciesGrow ==
  ASSUME NEW T, NEW seen, IsSpans(seen, T), NEW I \in SUBSET DOMAIN seen, I # {}
  PROVE  Growing(Latencies(seen, I), Cardinality(I))
<1> DEFINE took == [i \in I |-> Max({seen[i].finish - seen[i].start, 0})]
           shorter == [i \in I |-> {j \in I : took[j] < took[i] \/ (took[j] = took[i] /\ j < i)}]
           place == InOrder(I, shorter)
<1>1. IsFiniteSet(I) /\ I \in SUBSET Nat
  BY SpansAre, FS_Subset
<1>2. PICK n \in Nat \ {0} : n = Cardinality(I)
  BY <1>1, FS_CardinalityType, FS_EmptySet
<1>3. ASSUME NEW i \in I PROVE took[i] \in Nat
  <2>1. PICK d \in Int : d = seen[i].finish - seen[i].start
    BY SpansAre
  <2>2. took[i] = Max({d, 0})
    BY <2>1
  <2>3. Max({d, 0}) \in {d, 0} /\ \A x \in {d, 0} : x <= Max({d, 0})
    <3>1. \E m \in {d, 0} : \A x \in {d, 0} : m >= x
      OBVIOUS
    <3> QED
      BY <3>1 DEF Max
  <2> QED
    BY <2>2, <2>3
<1>4. Orders(I, shorter)
  <2>1. \A i \in I : shorter[i] = {j \in I : took[j] < took[i] \/ (took[j] = took[i] /\ j < i)}
    OBVIOUS
  <2>2. shorter \in [I -> SUBSET I]
    OBVIOUS
  <2> HIDE DEF took, shorter
  <2>3. \A i \in I : i \notin shorter[i]
    BY <1>1, <1>3, <2>1
  <2>4. \A i, j \in I : j \in shorter[i] => shorter[j] \subseteq shorter[i]
    BY <1>1, <1>3, <2>1
  <2>5. \A i, j \in I : i = j \/ i \in shorter[j] \/ j \in shorter[i]
    BY <1>1, <1>3, <2>1
  <2> QED
    BY <2>2, <2>3, <2>4, <2>5 DEF Orders
<1>5. /\ \A k \in 1 .. n : place[k] \in I
      /\ \A j, k \in 1 .. n : place[j] \in shorter[place[k]] => j < k
      /\ \A j, k \in 1 .. n : place[j] = place[k] => j = k
  <2> HIDE DEF shorter
  <2> QED
    BY <1>1, <1>2, <1>4, InOrderIs
<1>6. Latencies(seen, I) = [k \in 1 .. n |-> took[place[k]]]
  BY <1>2 DEF Latencies
<1>7. ASSUME NEW j \in 1 .. n, NEW k \in 1 .. n, j <= k PROVE took[place[j]] <= took[place[k]]
  <2> HIDE DEF took, shorter, place
  <2> SUFFICES ASSUME ~(took[place[j]] <= took[place[k]]) PROVE FALSE
    OBVIOUS
  <2>1. PICK x \in I, y \in I : x = place[j] /\ y = place[k]
    BY <1>5
  <2>2. took[x] \in Nat /\ took[y] \in Nat /\ took[y] < took[x]
    <3>1. took[x] \in Nat /\ took[y] \in Nat /\ ~(took[x] <= took[y])
      BY <1>3, <1>7, <2>1
    <3> QED
      BY <3>1
  <2>3. y \in shorter[x]
    BY <2>2 DEF shorter
  <2>4. k < j
    BY <1>5, <2>1, <2>3
  <2> QED
    BY <1>2, <1>7, <2>4
<1> HIDE DEF took, place
<1>8. PICK values : values = Latencies(seen, I)
  OBVIOUS
<1>9. values = [k \in 1 .. n |-> took[place[k]]]
  BY <1>6, <1>8
<1>10. Len(values) = n
  <2>1. values \in Seq(Nat) /\ DOMAIN values = 1 .. n
    BY <1>3, <1>5, <1>9
  <2> QED
    BY <2>1, LenProperties
<1>11. Growing(values, n)
  BY <1>3, <1>5, <1>7, <1>9, <1>10 DEF Growing
<1> QED
  BY <1>2, <1>8, <1>11

---------------------------------------------------------------------------
(* The graph of some spans *)

LEMMA CallsAre ==
  ASSUME NEW T, NEW seen, IsSpans(seen, T), NEW caller, NEW callee
  PROVE  /\ Calls(seen, caller, callee) \in SUBSET Of(seen, callee)
         /\ Of(seen, caller) \in SUBSET DOMAIN seen
         /\ IsFiniteSet(Of(seen, caller)) /\ IsFiniteSet(Calls(seen, caller, callee))
<1>1. Of(seen, caller) \in SUBSET DOMAIN seen /\ Of(seen, callee) \in SUBSET DOMAIN seen
  BY DEF Of
<1>2. Calls(seen, caller, callee) \in SUBSET Of(seen, callee)
  BY DEF Calls
<1>3. IsFiniteSet(Of(seen, caller)) /\ IsFiniteSet(Of(seen, callee))
  BY <1>1, SpansAre, FS_Subset
<1> QED
  BY <1>1, <1>2, <1>3, FS_Subset

\* The traces of the calls have spans of the caller too.
LEMMA CallsHaveCallers ==
  ASSUME NEW T, NEW seen, IsSpans(seen, T), NEW caller, NEW callee,
         NEW i \in Calls(seen, caller, callee)
  PROVE  \E j \in Of(seen, caller) : seen[j].trace = seen[i].trace
<1>1. /\ i \in DOMAIN seen /\ Parent(seen, i) # 0
      /\ seen[Parent(seen, i)].service = caller
  BY CallsAre DEF Calls, Of
<1>2. /\ Parent(seen, i) \in DOMAIN seen
      /\ seen[Parent(seen, i)].trace = seen[i].trace
  BY <1>1, ParentIs
<1>3. Parent(seen, i) \in Of(seen, caller)
  BY <1>1, <1>2 DEF Of
<1> QED
  BY <1>2, <1>3

LEMMA GraphIsBuilt ==
  ASSUME NEW T, NEW seen, IsSpans(seen, T)
  PROVE  /\ IsGraph(Build(seen))
         /\ Edges(Build(seen)) = CallPairs(seen)
         /\ \A s \in ServicesOf(seen) : Build(seen).nodes[s] = Counts(seen, Of(seen, s))
         /\ \A p \in CallPairs(seen) : Build(seen).edges[p] = Edge(seen, p)
<1> DEFINE graph == Build(seen)
<1>1. /\ Nodes(graph) = ServicesOf(seen) /\ Edges(graph) = CallPairs(seen)
      /\ \A s \in ServicesOf(seen) : graph.nodes[s] = Counts(seen, Of(seen, s))
      /\ \A p \in CallPairs(seen) : graph.edges[p] = Edge(seen, p)
  BY DEF Build, Nodes, Edges
<1>2. IsFiniteSet(ServicesOf(seen))
  <2> DEFINE f == [i \in DOMAIN seen |-> seen[i].service]
  <2>1. DOMAIN f = DOMAIN seen /\ {f[i] : i \in DOMAIN f} = {seen[i].service : i \in DOMAIN seen}
    OBVIOUS
  <2> HIDE DEF f
  <2>2. IsFiniteSet(DOMAIN f)
    BY <2>1, SpansAre
  <2>3. IsFiniteSet({f[i] : i \in DOMAIN f})
    BY <2>2, FiniteImage
  <2>4. ServicesOf(seen) \in SUBSET {f[i] : i \in DOMAIN f}
    BY <2>1 DEF ServicesOf
  <2> QED
    BY <2>3, <2>4, FS_Subset
<1>3. IsFiniteSet(CallPairs(seen))
  <2>1. IsFiniteSet(ServicesOf(seen) \X ServicesOf(seen))
    BY <1>2, FS_Product
  <2>2. CallPairs(seen) \in SUBSET (ServicesOf(seen) \X ServicesOf(seen))
    BY DEF CallPairs
  <2> QED
    BY <2>1, <2>2, FS_Subset
<1>4. ASSUME NEW p \in CallPairs(seen) PROVE graph.edges[p].calls.spans \in Nat
  <2>1. Edge(seen, p).calls = Counts(seen, Calls(seen, p[1], p[2]))
    BY DEF Edge
  <2>2. Counts(seen, Calls(seen, p[1], p[2])).spans \in Nat
    BY CallsAre, CountsAre
  <2> QED
    BY <1>1, <2>1, <2>2
<1> HIDE DEF graph
<1>5. IsGraph(graph)
  BY <1>1, <1>2, <1>3, <1>4 DEF IsGraph
<1> QED
  BY <1>1, <1>5 DEF graph

LEMMA EdgesAreObserved ==
  ASSUME NEW T, NEW seen, IsSpans(seen, T), NEW e \in CallPairs(seen)
  PROVE  Observed(Build(seen), seen, e)
<1> DEFINE I == Calls(seen, e[1], e[2])
           A == {seen[i].trace : i \in Of(seen, e[1])}
           B == {seen[i].trace : i \in Of(seen, e[2])}
           C == {seen[i].trace : i \in I}
           edge == Edge(seen, e)
<1>1. /\ e \in ServicesOf(seen) \X ServicesOf(seen)
      /\ e[1] # e[2] /\ I # {}
  BY DEF CallPairs
<1>2. /\ I \in SUBSET Of(seen, e[2]) /\ IsFiniteSet(I) /\ I \in SUBSET DOMAIN seen
      /\ IsFiniteSet(Of(seen, e[1])) /\ IsFiniteSet(Of(seen, e[2]))
  BY CallsAre
<1>3. C \in SUBSET (A \cap B)
  BY <1>2, CallsHaveCallers
<1>4. IsFiniteSet(A \cap B) /\ Cardinality(C) <= Cardinality(A \cap B)
  <2>1. IsFiniteSet(A)
    BY <1>2, TracesAre
  <2> HIDE DEF A, B, C
  <2>2. IsFiniteSet(A \cap B)
    BY <2>1, FS_Intersection, FS_Subset
  <2> QED
    BY <1>3, <2>2, FS_Subset
<1>5. PICK n \in Nat : n = Cardinality(A \cap B)
  BY <1>4, FS_CardinalityType
<1>6. /\ edge.calls = Counts(seen, I)
      /\ edge.p50 = Percentile(Latencies(seen, I), 50)
      /\ edge.p95 = Percentile(Latencies(seen, I), 95)
      /\ edge.p99 = Percentile(Latencies(seen, I), 99)
  BY DEF Edge
<1> HIDE DEF I
<1>7. /\ edge.calls.spans \in Nat /\ edge.calls.traces \in Nat /\ edge.calls.errors \in Nat
      /\ edge.calls.traces <= edge.calls.spans
      /\ edge.calls.traces = Cardinality(C) /\ 1 <= edge.calls.traces
  <2>1. PICK c : c = Counts(seen, I)
    OBVIOUS
  <2>2. /\ c.spans \in Nat /\ c.traces \in Nat /\ c.errors \in Nat
        /\ c.traces <= c.spans /\ 1 <= c.traces
    BY <1>1, <1>2, <2>1, CountsAre
  <2>3. c.traces = Cardinality(C)
    BY <2>1 DEF Counts
  <2> QED
    BY <1>6, <2>1, <2>2, <2>3
<1>8. edge.calls.traces \in 1 .. n
  BY <1>4, <1>5, <1>7
<1>9. /\ edge.calls.spans <= Counts(seen, Of(seen, e[2])).spans
      /\ edge.calls.errors <= Counts(seen, Of(seen, e[2])).errors
  BY <1>2, <1>6, CountsGrow
<1>10. 0 <= edge.p50 /\ edge.p50 <= edge.p95 /\ edge.p95 <= edge.p99
  <2>1. Growing(Latencies(seen, I), Cardinality(I))
    BY <1>1, <1>2, LatenciesGrow
  <2>2. 50 \in 0 .. 99 /\ 95 \in 0 .. 99 /\ 95 \in 50 .. 99 /\ 99 \in 95 .. 99
    OBVIOUS
  <2>3. PICK values, c : values = Latencies(seen, I) /\ c = Cardinality(I)
    OBVIOUS
  <2>4. Growing(values, c)
    BY <2>1, <2>3
  <2>5. 0 <= Percentile(values, 50) /\ Percentile(values, 50) <= Percentile(values, 95)
    BY <2>2, <2>4, PercentilesAre
  <2>6. Percentile(values, 95) <= Percentile(values, 99)
    BY <2>2, <2>4, PercentilesAre
  <2> QED
    BY <1>6, <2>3, <2>5, <2>6
<1>11. Build(seen).edges[e] = edge /\ Build(seen).nodes[e[2]] = Counts(seen, Of(seen, e[2]))
  BY <1>1, GraphIsBuilt
<1> HIDE DEF edge
<1>12. edge.calls.traces \in 1 .. Cardinality(A \cap B)
  BY <1>5, <1>8
<1> QED
  BY <1>1, <1>7, <1>9, <1>10, <1>11, <1>12, Zenon DEF Observed

---------------------------------------------------------------------------
(* The invariant of the snapshots *)

\* While a snapshot is being saved it is what was built of the answers, and those
\* stay what they are.
TakenOf(b, p) ==
  /\ stage[b] = "saving"
  /\ p \in Retrieved(b) /\ Spans(b, p) # <<>>
  /\ spans[b] = Spans(b, p) /\ snapshot[b] = Snapshot(b, p)
  /\ \A t \in found[b] : at[<<b, t>>] = "answered"

Taken(b) == snapshot[b] # None => \E p \in Retrieved(b) : TakenOf(b, p)

RebuildType ==
  /\ found \in [Rebuilds -> SUBSET Traces]
  /\ DOMAIN stage = Rebuilds /\ DOMAIN spans = Rebuilds /\ DOMAIN snapshot = Rebuilds

SnapshotInv == RebuildType /\ \A b \in Rebuilds : Taken(b)

LEMMA FoundIsFinite ==
  ASSUME RebuildType, NEW b \in Rebuilds
  PROVE  /\ found[b] \in SUBSET Traces /\ IsFiniteSet(found[b])
         /\ \A t \in found[b] : <<b, t>> \in Requests
<1>1. found[b] \in SUBSET Traces
  BY DEF RebuildType
<1>2. \A t \in Traces : <<b, t>> \in Requests
  BY RebuildAssumption
<1>3. IsFiniteSet(Traces)
  <2> DEFINE f == [r \in Requests |-> r[2]]
  <2>1. IsFiniteSet(DOMAIN f)
    BY HttpAssumption
  <2>2. Traces \in SUBSET {f[r] : r \in DOMAIN f}
    <3> SUFFICES ASSUME NEW t \in Traces PROVE t \in {f[r] : r \in DOMAIN f}
      OBVIOUS
    <3>1. <<b, t>> \in DOMAIN f /\ f[<<b, t>>] = t
      BY <1>2
    <3> QED
      BY <3>1
  <2> HIDE DEF f
  <2>3. IsFiniteSet({f[r] : r \in DOMAIN f})
    BY <2>1, FiniteImage
  <2> QED
    BY <2>2, <2>3, FS_Subset
<1> QED
  BY <1>1, <1>2, <1>3, FS_Subset

\* A snapshot in place is left alone.
LEMMA TakenStays ==
  ASSUME SnapshotInv, NEW b \in Rebuilds,
         stage'[b] = stage[b], found'[b] = found[b],
         spans'[b] = spans[b], snapshot'[b] = snapshot[b],
         stage[b] = "saving" => \A t \in found[b] : at[<<b, t>>] = "answered" =>
           at'[<<b, t>>] = "answered" /\ answer'[<<b, t>>] = answer[<<b, t>>]
  PROVE  Taken(b)'
<1> SUFFICES ASSUME snapshot[b] # None
             PROVE  \E p \in Retrieved(b)' : TakenOf(b, p)'
  BY DEF Taken
<1>1. PICK p \in Retrieved(b) : TakenOf(b, p)
  BY DEF SnapshotInv, Taken
<1>2. \A t \in found[b] :
        at'[<<b, t>>] = "answered" /\ answer'[<<b, t>>] = answer[<<b, t>>]
  BY <1>1 DEF TakenOf
<1>3. p \in Retrieved(b)'
  BY <1>1, <1>2 DEF Retrieved, Answer
<1>4. Spans(b, p)' = Spans(b, p)
  BY DEF Spans
<1>5. Snapshot(b, p)' = Snapshot(b, p)
  BY <1>4 DEF Snapshot
<1>6. TakenOf(b, p)'
  BY <1>1, <1>2, <1>3, <1>4, <1>5 DEF TakenOf
<1> QED
  BY <1>3, <1>6

LEMMA NotTaken ==
  ASSUME NEW b \in Rebuilds, snapshot'[b] = None
  PROVE  Taken(b)'
BY DEF Taken

\* What is answered stays answered.
LEMMA LeaveSpares ==
  ASSUME HttpInv, NEW r \in Requests, NEW a, Leave(r, a), at[r] # "answered",
         NEW q \in Requests, at[q] = "answered"
  PROVE  at'[q] = "answered" /\ answer'[q] = answer[q]
<1>1. q # r /\ answer'[q] = answer[q]
  BY DEF Leave, HttpInv, HttpType
<1>2. CASE waiting = <<>>
  BY <1>1, <1>2 DEF Leave, HttpInv, HttpType
<1>3. CASE waiting # <<>>
  <2>1. Head(waiting) \in Queued
    <3>1. PICK w, Q : w = waiting /\ Q = Queued
      OBVIOUS
    <3>2. Waits(w, Q) /\ w # <<>>
      BY <1>3, <3>1 DEF HttpInv, Queue
    <3> QED
      BY <3>1, <3>2, WaitsNext
  <2>2. Head(waiting) # q
    BY <2>1 DEF Queued
  <2>3. at' = [at EXCEPT ![r] = "answered", ![Head(waiting)] = "sending"]
    BY <1>3 DEF Leave
  <2> QED
    BY <1>1, <2>2, <2>3 DEF HttpInv, HttpType
<1> QED
  BY <1>1, <1>2, <1>3

LEMMA TransportSpares ==
  ASSUME HttpInv, NEW r \in Requests, Http(r) \/ Cancel(r) \/ Get(r),
         NEW q \in Requests, at[q] = "answered"
  PROVE  at'[q] = "answered" /\ answer'[q] = answer[q]
<1>1. ASSUME at[r] # "answered", NEW s, at' = [at EXCEPT ![r] = s], UNCHANGED answer
      PROVE  at'[q] = "answered" /\ answer'[q] = answer[q]
  BY <1>1 DEF HttpInv, HttpType
<1>2. ASSUME at[r] # "answered", TryAgain(r)
      PROVE  at'[q] = "answered" /\ answer'[q] = answer[q]
  BY <1>1, <1>2, LeaveSpares DEF TryAgain
<1>3. CASE Get(r)
  BY <1>1, <1>3 DEF Get
<1>4. CASE Cancel(r)
  <2>1. CASE at[r] \in Held /\ Leave(r, "cancelled")
    BY <2>1, LeaveSpares DEF Held
  <2>2. CASE /\ at[r] = "queued" /\ at' = [at EXCEPT ![r] = "answered"]
             /\ answer' = [answer EXCEPT ![r] = "cancelled"]
    BY <2>2 DEF HttpInv, HttpType
  <2> QED
    BY <1>4, <2>1, <2>2 DEF Cancel, Held
<1>5. CASE Http(r)
  <2>1. CASE Unavailable(r) \/ Failed(r)
    BY <1>2, <2>1 DEF Unavailable, Failed
  <2>2. CASE Refused(r)
    BY <2>2, LeaveSpares DEF Refused
  <2>3. CASE Accepted(r)
    BY <1>1, <2>3 DEF Accepted
  <2>4. CASE Chunk(r)
    <3>1. at[r] = "reading"
      BY <2>4 DEF Chunk
    <3>2. CASE Leave(r, "final")
      BY <3>1, <3>2, LeaveSpares
    <3>3. CASE UNCHANGED <<at, answer>>
      BY <3>3
    <3> QED
      BY <2>4, <3>2, <3>3 DEF Chunk
  <2>5. CASE Ended(r)
    BY <2>5, LeaveSpares DEF Ended
  <2>6. CASE BackoffEnds(r)
    BY <1>1, <2>6 DEF BackoffEnds
  <2> QED
    BY <1>5, <2>1, <2>2, <2>3, <2>4, <2>5, <2>6 DEF Http
<1> QED
  BY <1>3, <1>4, <1>5

\* A step of one rebuild that takes its answers leaves the other rebuilds theirs.
LEMMA ConsumeSpares ==
  ASSUME HttpInv, NEW b \in Rebuilds, Consume(b), NEW c \in Rebuilds, c # b,
         NEW t \in Traces
  PROVE  /\ at'[<<c, t>>] = at[<<c, t>>]
         /\ answer'[<<c, t>>] = answer[<<c, t>>]
<1>1. <<c, t>> \in Requests /\ <<c, t>>[1] # b
  BY RebuildAssumption
<1> QED
  BY <1>1 DEF Consume

LEMMA GatheredTakes ==
  ASSUME HttpInv, SnapshotInv, NEW b \in Rebuilds, Gathered(b)
  PROVE  SnapshotInv'
<1>1. /\ stage[b] = "fetching" /\ UNCHANGED found
      /\ \A t \in found[b] : at[<<b, t>>] = "answered"
  BY DEF Gathered
<1>2. PICK p \in Retrieved(b) :
        \/ /\ Go(b, "raised") /\ Consume(b) /\ UNCHANGED <<spans, snapshot>>
        \/ /\ Spans(b, p) # <<>>
           /\ spans' = [spans EXCEPT ![b] = Spans(b, p)]
           /\ snapshot' = [snapshot EXCEPT ![b] = Snapshot(b, p)]
           /\ Go(b, "saving") /\ UNCHANGED http
  BY DEF Gathered
<1>3. RebuildType'
  BY <1>1, <1>2 DEF SnapshotInv, RebuildType, Go
<1>4. ASSUME NEW c \in Rebuilds, c # b PROVE Taken(c)'
  <2>1. /\ stage'[c] = stage[c] /\ found'[c] = found[c]
        /\ spans'[c] = spans[c] /\ snapshot'[c] = snapshot[c]
    BY <1>1, <1>2, <1>4 DEF SnapshotInv, RebuildType, Go
  <2>2. \A t \in found[c] : at[<<c, t>>] = "answered" =>
          at'[<<c, t>>] = "answered" /\ answer'[<<c, t>>] = answer[<<c, t>>]
    BY <1>2, <1>4, ConsumeSpares DEF SnapshotInv, RebuildType, http
  <2> QED
    BY <2>1, <2>2, TakenStays
<1>5. Taken(b)'
  <2>1. CASE UNCHANGED snapshot
    <3>1. snapshot[b] = None
      BY <1>1 DEF SnapshotInv, Taken, TakenOf
    <3> QED
      BY <2>1, <3>1, NotTaken
  <2>2. CASE /\ Spans(b, p) # <<>>
             /\ spans' = [spans EXCEPT ![b] = Spans(b, p)]
             /\ snapshot' = [snapshot EXCEPT ![b] = Snapshot(b, p)]
             /\ Go(b, "saving") /\ UNCHANGED http
    <3>1. /\ stage'[b] = "saving" /\ spans'[b] = Spans(b, p)
          /\ snapshot'[b] = Snapshot(b, p)
      BY <2>2 DEF SnapshotInv, RebuildType, Go
    <3>2. Retrieved(b)' = Retrieved(b)
      BY <1>1, <2>2 DEF Retrieved, Answer, http
    <3>3. Spans(b, p)' = Spans(b, p)
      BY <1>1 DEF Spans
    <3>4. Snapshot(b, p)' = Snapshot(b, p)
      BY <1>1, <3>3 DEF Snapshot
    <3>5. \A t \in found'[b] : at'[<<b, t>>] = "answered"
      BY <1>1, <2>2 DEF http
    <3>6. TakenOf(b, p)'
      BY <2>2, <3>1, <3>2, <3>3, <3>4, <3>5 DEF TakenOf
    <3> QED
      BY <3>2, <3>6 DEF Taken
  <2> QED
    BY <1>2, <2>1, <2>2
<1> QED
  BY <1>3, <1>4, <1>5 DEF SnapshotInv

\* A rebuild that ends, or has none yet, has no snapshot; the others keep theirs.
LEMMA OthersKeep ==
  ASSUME HttpInv, SnapshotInv, NEW b \in Rebuilds, Consume(b), NEW s, Go(b, s),
         \A c \in Rebuilds \ {b} : /\ found'[c] = found[c] /\ spans'[c] = spans[c]
                                   /\ snapshot'[c] = snapshot[c],
         RebuildType', snapshot'[b] = None
  PROVE  SnapshotInv'
<1>1. ASSUME NEW c \in Rebuilds, c # b PROVE Taken(c)'
  <2>1. stage'[c] = stage[c]
    BY <1>1 DEF SnapshotInv, RebuildType, Go
  <2>2. \A t \in found[c] :
          at'[<<c, t>>] = at[<<c, t>>] /\ answer'[<<c, t>>] = answer[<<c, t>>]
    BY <1>1, ConsumeSpares DEF SnapshotInv, RebuildType
  <2> QED
    BY <1>1, <2>1, <2>2, TakenStays
<1>2. Taken(b)'
  BY NotTaken
<1> QED
  BY <1>1, <1>2 DEF SnapshotInv

LEMMA EndsKeep ==
  ASSUME HttpInv, SnapshotInv, NEW b \in Rebuilds,
         Searched(b) \/ Raise(b) \/ Save(b) \/ Timeout(b)
  PROVE  SnapshotInv'
<1>1. CASE Searched(b) \/ Raise(b)
  <2>1. PICK s \in {"fetching", "raised"} : Go(b, s)
    BY <1>1 DEF Searched, Raise
  <2>2. Consume(b) /\ stage[b] # "saving" /\ UNCHANGED <<spans, snapshot>>
    BY <1>1 DEF Searched, Raise
  <2>3. snapshot'[b] = None
    BY <2>2 DEF SnapshotInv, Taken, TakenOf
  <2>4. PICK T \in SUBSET Traces : found' = [found EXCEPT ![b] = T]
    <3>1. CASE UNCHANGED found
      <4>1. found' = [found EXCEPT ![b] = found[b]] /\ found[b] \in SUBSET Traces
        BY <3>1 DEF SnapshotInv, RebuildType
      <4> QED
        BY <4>1
    <3> QED
      BY <1>1, <3>1 DEF Searched, Raise
  <2>5. RebuildType'
    BY <2>1, <2>2, <2>4 DEF SnapshotInv, RebuildType, Go
  <2>6. \A c \in Rebuilds \ {b} : found'[c] = found[c]
    BY <2>4 DEF SnapshotInv, RebuildType
  <2> QED
    BY <2>1, <2>2, <2>3, <2>5, <2>6, OthersKeep
<1>2. CASE Save(b) \/ Timeout(b)
  <2>1. PICK s \in {"saved", "raised", "cancelled"} : Go(b, s)
    BY <1>2 DEF Save, Timeout
  <2>2. Forget(b) /\ UNCHANGED found
    BY <1>2 DEF Save, Timeout
  <2>3. /\ Consume(b) /\ spans' = [spans EXCEPT ![b] = <<>>]
        /\ snapshot' = [snapshot EXCEPT ![b] = None]
    BY <2>2 DEF Forget
  <2>4. RebuildType'
    BY <2>1, <2>2, <2>3 DEF SnapshotInv, RebuildType, Go
  <2>5. /\ snapshot'[b] = None
        /\ \A c \in Rebuilds \ {b} : /\ found'[c] = found[c] /\ spans'[c] = spans[c]
                                     /\ snapshot'[c] = snapshot[c]
    BY <2>2, <2>3 DEF SnapshotInv, RebuildType
  <2> QED
    BY <2>1, <2>3, <2>4, <2>5, OthersKeep
<1> QED
  BY <1>1, <1>2

\* A step of a request, and nothing else.
LEMMA RequestsKeep ==
  ASSUME HttpInv, SnapshotInv, UNCHANGED rebuild,
         \A q \in Requests : at[q] = "answered" =>
           at'[q] = "answered" /\ answer'[q] = answer[q]
  PROVE  SnapshotInv'
<1>1. RebuildType'
  BY DEF SnapshotInv, RebuildType, rebuild
<1>2. ASSUME NEW b \in Rebuilds PROVE Taken(b)'
  <2>1. \A t \in found[b] : <<b, t>> \in Requests
    BY FoundIsFinite DEF SnapshotInv
  <2> QED
    BY <2>1, TakenStays DEF rebuild
<1> QED
  BY <1>1, <1>2 DEF SnapshotInv

LEMMA FetchSnapshot ==
  ASSUME HttpInv, SnapshotInv, NEW b \in Rebuilds, NEW t \in Traces, Fetch(b, t)
  PROVE  SnapshotInv'
<1>1. <<b, t>> \in Requests
  BY RebuildAssumption
<1>2. CASE Get(<<b, t>>)
  BY <1>1, <1>2, TransportSpares, RequestsKeep DEF Fetch
<1>3. CASE /\ at' = [at EXCEPT ![<<b, t>>] = "answered"]
           /\ answer' = [answer EXCEPT ![<<b, t>>] = "exception"]
  <2>1. PICK r \in Requests : r = <<b, t>>
    BY <1>1
  <2>2. at[r] = "idle"
    BY <2>1 DEF Fetch
  <2>3. \A q \in Requests : at[q] = "answered" =>
          at'[q] = "answered" /\ answer'[q] = answer[q]
    BY <1>3, <2>1, <2>2 DEF HttpInv, HttpType
  <2> QED
    BY <2>3, RequestsKeep DEF Fetch
<1> QED
  BY <1>2, <1>3 DEF Fetch

LEMMA StartSnapshot ==
  ASSUME HttpInv, SnapshotInv, NEW b \in Rebuilds, Start(b)
  PROVE  SnapshotInv'
<1>1. Search(b) \in Requests
  BY RebuildAssumption DEF Search
<1>2. /\ stage[b] = "new" /\ Go(b, "searching") /\ Get(Search(b))
      /\ UNCHANGED <<found, spans, snapshot>>
  BY DEF Start
<1>3. RebuildType'
  BY <1>2 DEF SnapshotInv, RebuildType, Go
<1>4. ASSUME NEW c \in Rebuilds, c # b PROVE Taken(c)'
  <2>1. stage'[c] = stage[c]
    BY <1>2, <1>4 DEF SnapshotInv, RebuildType, Go
  <2>2. \A t \in found[c] : at[<<c, t>>] = "answered" =>
          at'[<<c, t>>] = "answered" /\ answer'[<<c, t>>] = answer[<<c, t>>]
    BY <1>1, <1>2, FoundIsFinite, TransportSpares DEF SnapshotInv
  <2> QED
    BY <1>2, <2>1, <2>2, TakenStays
<1>5. Taken(b)'
  <2>1. snapshot[b] = None
    BY <1>2 DEF SnapshotInv, Taken, TakenOf
  <2> QED
    BY <1>2, <2>1, NotTaken
<1> QED
  BY <1>3, <1>4, <1>5 DEF SnapshotInv

LEMMA SnapshotsKeep ==
  ASSUME HttpInv, SnapshotInv, [Next]_vars
  PROVE  SnapshotInv'
<1>1. CASE UNCHANGED vars
  BY <1>1, RequestsKeep DEF vars, http
<1>2. ASSUME NEW b \in Rebuilds, Advance(b) PROVE SnapshotInv'
  BY <1>2, StartSnapshot, EndsKeep, FetchSnapshot, GatheredTakes DEF Advance
<1>3. ASSUME NEW b \in Rebuilds, Timeout(b) PROVE SnapshotInv'
  BY <1>3, EndsKeep
<1>4. ASSUME NEW r \in Requests, Query(r) \/ Cancelled(r) PROVE SnapshotInv'
  BY <1>4, TransportSpares, RequestsKeep DEF Query, Cancelled
<1> QED
  BY <1>1, <1>2, <1>3, <1>4 DEF Next, Progress

LEMMA SnapshotInvariant == Spec => []SnapshotInv
<1>1. Init => SnapshotInv
  BY DEF Init, SnapshotInv, RebuildType, Taken
<1>2. HttpInv /\ SnapshotInv /\ [Next]_vars => SnapshotInv'
  BY SnapshotsKeep
<1> QED
  BY <1>1, <1>2, HttpInvariant, PTL DEF Spec

---------------------------------------------------------------------------
(* What the snapshots say *)

\* The spans that are put together are those of the traces that were retrieved.
LEMMA SpansAreRetrieved ==
  ASSUME RebuildType, NEW b \in Rebuilds, NEW p \in Retrieved(b)
  PROVE  IsSpans(Spans(b, p), {t \in found[b] : p[t] # None})
<1> DEFINE T == {t \in found[b] : p[t] # None}
           before == [t \in found[b] |-> {u \in found[b] : u < t}]
           part == [k \in 1 .. Cardinality(found[b]) |->
                      LET t == InOrder(found[b], before)[k]
                      IN IF p[t] = None THEN <<>> ELSE p[t]]
<1>1. found[b] \in SUBSET Nat /\ found[b] \in SUBSET Traces /\ IsFiniteSet(found[b])
  BY FoundIsFinite, RebuildAssumption
<1>2. PICK n \in Nat : n = Cardinality(found[b])
  BY <1>1, FS_CardinalityType
<1>3. Orders(found[b], before)
  BY <1>1 DEF Orders
<1>4. \A k \in 1 .. n : InOrder(found[b], before)[k] \in found[b]
  <2> HIDE DEF before
  <2> QED
    BY <1>1, <1>2, <1>3, InOrderIs
<1>5. ASSUME NEW t \in found[b], p[t] # None PROVE p[t] \in Seq(SpansIn(T))
  <2>1. p[t] \in Payloads[t]
    BY <1>5 DEF Retrieved
  <2>2. p[t] \in Seq(SpansIn({t}))
    BY <1>1, <2>1, RebuildAssumption
  <2>3. SpansIn({t}) \subseteq SpansIn(T)
    <3>1. {t} \subseteq T
      BY <1>5
    <3> HIDE DEF T
    <3> QED
      BY <3>1 DEF SpansIn
  <2>4. PICK q : q = p[t]
    OBVIOUS
  <2>5. q \in Seq(SpansIn({t})) /\ Len(q) \in Nat
    BY <2>2, <2>4, LenProperties
  <2>6. q \in [1 .. Len(q) -> SpansIn(T)]
    BY <2>3, <2>5, LenProperties, ElementOfSeq
  <2>7. q \in Seq(SpansIn(T))
    BY <2>5, <2>6, SeqDef
  <2> QED
    BY <2>4, <2>7
<1>6. \A k \in 1 .. n : part[k] \in Seq(SpansIn(T))
  <2> TAKE k \in 1 .. n
  <2>1. PICK t \in found[b] : t = InOrder(found[b], before)[k]
    BY <1>4
  <2>2. part[k] = IF p[t] = None THEN <<>> ELSE p[t]
    BY <1>2, <2>1
  <2>3. CASE p[t] = None
    <3>1. part[k] = <<>>
      BY <2>2, <2>3
    <3> HIDE DEF part, T
    <3> QED
      BY <3>1, EmptySeq
  <2>4. CASE p[t] # None
    <3>1. part[k] = p[t] /\ p[t] \in Seq(SpansIn(T))
      BY <1>5, <2>2, <2>4
    <3> HIDE DEF part, T
    <3> QED
      BY <3>1
  <2> QED
    BY <2>3, <2>4
<1>7. part \in Seq(Seq(SpansIn(T)))
  <2>1. part = [k \in 1 .. n |-> part[k]]
    BY <1>2
  <2> HIDE DEF part, T
  <2>2. part \in [1 .. n -> Seq(SpansIn(T))]
    BY <1>6, <2>1
  <2> QED
    BY <2>2, SeqDef
<1>8. Spans(b, p) = FlattenSeq(part)
  BY DEF Spans
<1> HIDE DEF part
<1>9. FlattenSeq(part) \in Seq(SpansIn(T))
  BY <1>7, FlattenIs
<1> QED
  BY <1>8, <1>9 DEF IsSpans

LEMMA TakenIsAccountable ==
  ASSUME SnapshotInv, NEW b \in Rebuilds, snapshot[b] # None
  PROVE  LET s == snapshot[b]
         IN /\ s.references \cup s.warnings = found[b]
            /\ s.references \cap s.warnings = {}
            /\ \A t \in s.references : Answer(b, t) = "document"
            /\ s.graph.trace_count \in 1 .. Cardinality(s.references)
            /\ \A e \in Edges(s.graph) : Observed(s.graph, spans[b], e)
<1>1. PICK p \in Retrieved(b) : TakenOf(b, p)
  BY DEF SnapshotInv, Taken
<1> DEFINE T == {t \in found[b] : p[t] # None}
           seen == Spans(b, p)
<1>2. IsSpans(seen, T)
  BY SpansAreRetrieved DEF SnapshotInv
<1>3. /\ spans[b] = seen /\ seen # <<>>
      /\ snapshot[b].references = T
      /\ snapshot[b].warnings = {t \in found[b] : p[t] = None}
      /\ snapshot[b].graph = Build(seen)
  BY <1>1 DEF TakenOf, Snapshot
<1>4. \A t \in T : Answer(b, t) = "document"
  BY <1>1 DEF Retrieved
<1>5. IsFiniteSet(T)
  <2>1. IsFiniteSet(found[b])
    BY FoundIsFinite DEF SnapshotInv
  <2> QED
    BY <2>1, FS_Subset
<1>6. snapshot[b].references \cup snapshot[b].warnings = found[b]
  BY <1>3
<1>7. snapshot[b].references \cap snapshot[b].warnings = {}
  BY <1>3
<1> HIDE DEF T, seen
<1>8. Build(seen).trace_count \in 1 .. Cardinality(T)
  <2>1. IsFiniteSet(DOMAIN seen) /\ \A i \in DOMAIN seen : seen[i].trace \in T
    BY <1>2, SpansAre
  <2>2. {seen[i].trace : i \in DOMAIN seen} \in SUBSET T
    BY <2>1
  <2>3. {seen[i].trace : i \in DOMAIN seen} # {}
    <3>1. seen \in Seq(SpansIn(T))
      BY <1>2 DEF IsSpans
    <3>2. Len(seen) \in Nat /\ Len(seen) # 0 /\ DOMAIN seen = 1 .. Len(seen)
      BY <1>3, <3>1, EmptySeq, LenProperties
    <3>3. 1 \in DOMAIN seen
      BY <3>2
    <3> QED
      BY <3>3
  <2>4. PICK n \in Nat, m \in Nat : /\ n = Cardinality({seen[i].trace : i \in DOMAIN seen})
                                    /\ m = Cardinality(T) /\ n <= m /\ n # 0
    <3>1. /\ IsFiniteSet({seen[i].trace : i \in DOMAIN seen})
          /\ Cardinality({seen[i].trace : i \in DOMAIN seen}) <= Cardinality(T)
      BY <1>5, <2>2, FS_Subset
    <3> QED
      BY <1>5, <2>3, <3>1, FS_CardinalityType, FS_EmptySet
  <2>5. Build(seen).trace_count = n
    BY <2>4 DEF Build
  <2>6. n \in 1 .. m
    BY <2>4
  <2> QED
    BY <2>4, <2>5, <2>6
<1>9. \A e \in Edges(Build(seen)) : Observed(Build(seen), seen, e)
  BY <1>2, GraphIsBuilt, EdgesAreObserved
<1> QED
  BY <1>3, <1>4, <1>6, <1>7, <1>8, <1>9

LEMMA TakenAgrees ==
  ASSUME SnapshotInv, NEW b \in Rebuilds, snapshot[b] # None
  PROVE  \A s, t \in Nodes(snapshot[b].graph) : Agree(snapshot[b].graph, s, t)
<1>1. PICK p \in Retrieved(b) : TakenOf(b, p)
  BY DEF SnapshotInv, Taken
<1>2. PICK seen, T : seen = Spans(b, p) /\ IsSpans(seen, T)
  BY SpansAreRetrieved DEF SnapshotInv
<1>3. snapshot[b].graph = Build(seen)
  BY <1>1, <1>2 DEF TakenOf, Snapshot
<1>4. PICK graph : graph = Build(seen)
  OBVIOUS
<1>5. IsGraph(graph)
  BY <1>2, <1>4, GraphIsBuilt
<1> QED
  BY <1>3, <1>4, <1>5, GraphsAgree

\* For any traces, any documents Tempo holds of them and any of them lost, refused
\* or cancelled: a snapshot's references and warnings are what was found, its graph
\* counts the retrieved traces, and each of its edges stands for calls whose callers
\* are spans of the same traces, with their percentiles in order (rebuild's loop
\* over retrieved, ServiceGraphBuilder.build).
THEOREM SnapshotsAreAccountable == Spec => []SnapshotIsAccountable
<1>1. SnapshotInv => SnapshotIsAccountable
  BY TakenIsAccountable DEF SnapshotIsAccountable
<1> QED
  BY <1>1, SnapshotInvariant, PTL

\* For graphs of any size: callers and dependencies are each other's converse,
\* dependencies are closed under calls, criticality stays between 0 and 1, only the
\* affected service is fully consistent, only one without a path is not at all, and a
\* dependency is more so than a caller as far away (ServiceGraph and _graph_scores).
THEOREM GraphAnswersAgree == Spec => []AnswersAgree
<1>1. SnapshotInv => AnswersAgree
  BY TakenAgrees DEF AnswersAgree
<1> QED
  BY <1>1, SnapshotInvariant, PTL
=============================================================================
