SPECIFICATION FairSpec
CONSTANTS
  h1 = h1
  h2 = h2

  Handlers = {h1, h2}
  Plans = {p1}
  Actors = {alice}
  Incidents = {i1}
  MaxInvestigations = 2
  Diagnoses <- MCDiagnoses
  Proposals <- MCProposals
  Pods <- MCPods
  Allowed <- MCAllowed
  Labels <- MCLabels
  ExactNames <- MCExactNames
  ExecutorEnabled = TRUE
  CanAbort = TRUE
  None = None
INVARIANTS
  TypeOK
  AtMostOnceExecution
  ApprovedPlansAreOwned
  ExecutionIsAudited
  DeletionIsGrounded
  SupersededNeverExecutes
  OutcomeMatchesReceipt
  AllowlistOfExecutingReplica
PROPERTIES
  ImplementsLifecycle
  ApprovalsConclude
CHECK_DEADLOCK FALSE
