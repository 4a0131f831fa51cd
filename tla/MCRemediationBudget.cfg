SPECIFICATION Spec
CONSTANTS
  h1 = h1
  h2 = h2

  Handlers = {h1, h2}
  Plans = {p1}
  Actors = {alice}
  Incidents = {i1}
  MaxInvestigations = 2
  Diagnoses <- MCBudgetDiagnoses
  Proposals <- MCProposals
  Pods <- MCPods
  Allowed <- MCAllowed
  Labels <- MCLabels
  ExactNames <- MCExactNames
  ExecutorEnabled = TRUE
  CanAbort = TRUE
  None = None
INVARIANTS
  ProposalNeedsCompletedDiagnosis
CHECK_DEADLOCK FALSE
