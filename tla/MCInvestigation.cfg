SPECIFICATION FairSpec
CONSTANTS
  h1 = h1
  h2 = h2
  i1 = i1
  i2 = i2
  None = None
  Handlers <- MCHandlers
  Incidents <- MCIncidents
  MaxInvestigations = 2
  Results <- AllResults
  CanAbort = TRUE
INVARIANTS
  MarkedIsInvestigated
  DiagnosedHasDiagnosis
PROPERTIES
  ImplementsStore
  InvestigationsConclude
CHECK_DEADLOCK FALSE
