SPECIFICATION FairSpec
CONSTANTS
  Services = {1, 2}
  Affected = 1
  Evidence <- MCEvidence
  HasMemory = TRUE
  Providers = {"deterministic", "openai"}
  Modes <- BothModes
  Budgets <- MCBudgets
  MaxRetries = 1
  Drafts <- ManyDrafts
  Graphs <- MCGraphs
  None = None
INVARIANTS
  PositiveIsGrounded
  SupportOutweighsOpposition
  BudgetsAreKept
  SuspectsAreHeard
PROPERTIES
  RunEnds
CHECK_DEADLOCK FALSE
