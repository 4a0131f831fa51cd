SPECIFICATION Spec
CONSTANTS
  Services = {1, 2}
  Affected = 1
  Evidence <- MCEvidence
  HasMemory = TRUE
  Providers = {"openai"}
  Modes <- BothModes
  Budgets <- MCBudgets
  MaxRetries = 2
  Drafts <- FewDrafts
  Graphs <- MCGraphs
  None = None
INVARIANTS
  EvidenceIsAudited
CHECK_DEADLOCK FALSE
