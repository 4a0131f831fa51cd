SPECIFICATION FairSpec
CONSTANTS
  Requests <- MCRequests
  Rebuilds = {b1, b2}
  Traces = {1, 2, 3}
  Malformed = {3}
  Payloads <- MCPayloads
  MaxConcurrency = 1
  MaxRetries = 1
  MaxChunks = 1
  None = None
  b1 = b1
  b2 = b2
INVARIANTS
  SlotsAreConserved
  SnapshotIsAccountable
  AnswersAgree
PROPERTIES
  AnswersAreEarned
  RebuildsEnd
\* Each rebuild runs once.
CHECK_DEADLOCK FALSE
