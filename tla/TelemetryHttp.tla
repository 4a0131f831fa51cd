---------------------------- MODULE TelemetryHttp ----------------------------
(***************************************************************************)
(* The transport all telemetry clients share: a semaphore that bounds the  *)
(* requests under way, a bounded number of attempts with pauses between    *)
(* them, a limit on the size of a response, and typed errors.  A request   *)
(* keeps its slot through all its attempts and pauses.  The semaphore is   *)
(* asyncio's: released, it hands its slot to the first that waits.         *)
(***************************************************************************)
EXTENDS Integers, FiniteSets, Sequences, SequencesExt

CONSTANTS
  Requests,
  MaxConcurrency,       \* slots of the semaphore
  MaxRetries,           \* attempts after the first
  MaxChunks,            \* the response limit, in chunks of a body
  None

VARIABLES
  at,                   \* where get_json is
  attempt,              \* the attempt it makes
  received,             \* content: for every chunk, the attempt that sent it
  answer,               \* what it returned or raised
  slots,                \* the semaphore's value
  waiting               \* and its waiters

http == <<at, attempt, received, answer, slots, waiting>>

Places == {"idle", "queued", "sending", "reading", "backoff", "answered"}
Holders == {r \in Requests : at[r] \in {"sending", "reading", "backoff"}}

\* TelemetryQueryError, retryable (timeout, transport, status 429 or 5xx) or
\* final (any other error status, too large, invalid JSON).
QueryErrors == {"retryable", "final"}
Answers == QueryErrors \cup {"document", "exception", "cancelled"}

ASSUME HttpAssumption ==
  /\ MaxConcurrency \in Nat \ {0} /\ MaxRetries \in Nat /\ MaxChunks \in Nat
  /\ IsFiniteSet(Requests) /\ None \notin Answers

HttpInit ==
  /\ at = [r \in Requests |-> "idle"]
  /\ attempt = [r \in Requests |-> 0]
  /\ received = [r \in Requests |-> <<>>]
  /\ answer = [r \in Requests |-> None]
  /\ slots = MaxConcurrency
  /\ waiting = <<>>

---------------------------------------------------------------------------

Get(r) ==
  /\ at[r] = "idle"
  /\ \/ /\ slots > 0
        /\ at' = [at EXCEPT ![r] = "sending"]
        /\ slots' = slots - 1
        /\ UNCHANGED waiting
     \/ /\ slots = 0
        /\ at' = [at EXCEPT ![r] = "queued"]
        /\ waiting' = Append(waiting, r)
        /\ UNCHANGED slots
  /\ UNCHANGED <<attempt, received, answer>>

\* Mutant: a slot given back is not handed to the first that waits.
LeaveUnnoticed(r, a) ==
  /\ at' = [at EXCEPT ![r] = "answered"]
  /\ answer' = [answer EXCEPT ![r] = a]
  /\ slots' = slots + 1
  /\ attempt' = [attempt EXCEPT ![r] = 0]
  /\ received' = [received EXCEPT ![r] = <<>>]
  /\ UNCHANGED waiting

\* get_json returns or raises, and the semaphore's context is left.
Leave(r, a) ==
  /\ answer' = [answer EXCEPT ![r] = a]
  /\ \/ /\ waiting = <<>>
        /\ at' = [at EXCEPT ![r] = "answered"]
        /\ slots' = slots + 1
        /\ UNCHANGED waiting
     \/ /\ waiting # <<>>
        /\ at' = [at EXCEPT ![r] = "answered", ![Head(waiting)] = "sending"]
        /\ waiting' = Tail(waiting)
        /\ UNCHANGED slots
  /\ attempt' = [attempt EXCEPT ![r] = 0]
  /\ received' = [received EXCEPT ![r] = <<>>]

\* Mutant: the first error is the answer.
GiveUp(r) == Leave(r, "retryable")

TryAgain(r) ==
  \/ /\ attempt[r] < MaxRetries
     /\ at' = [at EXCEPT ![r] = "backoff"]
     /\ UNCHANGED <<attempt, received, answer, slots, waiting>>
  \/ attempt[r] = MaxRetries /\ Leave(r, "retryable")

\* Status 429 or 5xx.
Unavailable(r) == at[r] = "sending" /\ TryAgain(r)

\* Any other error status, or a declared size beyond the limit.
Refused(r) == at[r] = "sending" /\ Leave(r, "final")

\* Mutant: the content of an attempt that failed is added to.
AcceptedAfterAll(r) ==
  /\ at[r] = "sending"
  /\ at' = [at EXCEPT ![r] = "reading"]
  /\ UNCHANGED <<attempt, received, answer, slots, waiting>>

Accepted(r) ==
  /\ at[r] = "sending"
  /\ at' = [at EXCEPT ![r] = "reading"]
  /\ received' = [received EXCEPT ![r] = <<>>]
  /\ UNCHANGED <<attempt, answer, slots, waiting>>

Chunk(r) ==
  /\ at[r] = "reading"
  /\ \/ /\ Len(received[r]) < MaxChunks
        /\ received' = [received EXCEPT ![r] = Append(@, attempt[r])]
        /\ UNCHANGED <<at, attempt, answer, slots, waiting>>
     \/ /\ Len(received[r]) = MaxChunks
        /\ Leave(r, "final")

\* The body is complete, and it is a document or it is not. An encoding that
\* cannot be undone is no transport error of httpx: it leaves as it is.
Ended(r) ==
  /\ at[r] = "reading"
  /\ \E a \in {"document", "final", "exception"} :
       /\ a = "document" => received[r] # <<>>
       /\ Leave(r, a)

\* The connection, the request or the body takes too long or breaks.
Failed(r) == at[r] \in {"sending", "reading"} /\ TryAgain(r)

BackoffEnds(r) ==
  /\ at[r] = "backoff"
  /\ at' = [at EXCEPT ![r] = "sending"]
  /\ attempt' = [attempt EXCEPT ![r] = @ + 1]
  /\ UNCHANGED <<received, answer, slots, waiting>>

\* Mutant: a request cancelled while it waits is still waited for.
CancelInQueue(r) ==
  \/ at[r] \in {"sending", "reading", "backoff"} /\ Leave(r, "cancelled")
  \/ /\ at[r] = "queued"
     /\ at' = [at EXCEPT ![r] = "answered"]
     /\ answer' = [answer EXCEPT ![r] = "cancelled"]
     /\ UNCHANGED <<attempt, received, slots, waiting>>

\* The task of the request is cancelled, with or without a slot.
Cancel(r) ==
  \/ at[r] \in {"sending", "reading", "backoff"} /\ Leave(r, "cancelled")
  \/ /\ at[r] = "queued"
     /\ at' = [at EXCEPT ![r] = "answered"]
     /\ answer' = [answer EXCEPT ![r] = "cancelled"]
     /\ \E i \in DOMAIN waiting : waiting[i] = r /\ waiting' = RemoveAt(waiting, i)
     /\ UNCHANGED <<attempt, received, slots>>

Http(r) ==
  \/ Unavailable(r) \/ Refused(r) \/ Accepted(r) \/ Chunk(r) \/ Ended(r)
  \/ Failed(r) \/ BackoffEnds(r)

---------------------------------------------------------------------------
(* Properties *)

\* Whatever fails, is refused or is cancelled: every slot is free or held by
\* a request under way, those that wait are those in the queue, each once,
\* and none waits while a slot is free (async with self._semaphore in
\* get_json).
SlotsAreConserved ==
  /\ slots + Cardinality(Holders) = MaxConcurrency
  /\ ToSet(waiting) = {r \in Requests : at[r] = "queued"}
  /\ IsInjective(waiting)
  /\ waiting # <<>> => slots = 0

\* What is decoded is the body of one response: no part of a body that was
\* cut off gets into the document of a later attempt.  And callers that are told
\* to retry are told so only after all attempts failed (get_json).
AnswersAreEarned ==
  [][\A r \in Requests : answer[r] = None =>
       /\ answer'[r] = "document" => ToSet(received[r]) = {attempt[r]}
       /\ answer'[r] = "retryable" => attempt[r] = MaxRetries]_http
=============================================================================
