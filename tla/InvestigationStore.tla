-------------------------- MODULE InvestigationStore --------------------------
(***************************************************************************)
(* What the rest of RootLens may rely on about stored investigations: each *)
(* appears once, whole, for an incident that exists, and never changes;    *)
(* the latest of an incident is the one that started last, and a slow one  *)
(* that is stored after it does not displace it.                           *)
(* Remediation.tla takes its environment from this module's one action.    *)
(***************************************************************************)
EXTENDS Naturals

CONSTANTS
  Incidents,
  Ids,                      \* investigations, in the order they started
  Results,                  \* what a stored investigation may say
  None                      \* absent value

VARIABLES
  known,                    \* incidents that exist
  stored,                   \* stored investigations, None when not stored
  latest                    \* latest investigation of each incident, 0 if none

svars == <<known, stored, latest>>

SInit ==
  /\ known = {} /\ stored = [i \in Ids |-> None]
  /\ latest = [inc \in Incidents |-> 0]

Open(inc) ==
  /\ inc \notin known
  /\ known' = known \cup {inc}
  /\ UNCHANGED <<stored, latest>>

Store(i, inc, r) ==
  /\ inc \in known
  /\ stored[i] = None
  /\ stored' = [stored EXCEPT ![i] = [incident |-> inc, result |-> r]]
  /\ latest' = [latest EXCEPT ![inc] = IF i > @ THEN i ELSE @]
  /\ UNCHANGED known

SNext == \E inc \in Incidents :
  Open(inc) \/ \E i \in Ids, r \in Results : Store(i, inc, r)

SSpec == SInit /\ [][SNext]_svars
=============================================================================
