SPECIFICATION FairSpec
CONSTANTS
  Malformed = Malformed
  Invalid = Invalid
  None = None
  NotFinite = NotFinite
  Signals <- MCSignals
  Place <- MCPlace
  Worlds <- MCWorlds
  MinimumBaseline = 2
  MinimumScore = 210
  WindowStart = 60
  WindowEnd = 70
  Lookback = 30
  Cap = 2
INVARIANTS
  EvidenceIsObserved
  SymptomsAreReported
  AuditsAccount
PROPERTY ToolsEnd
CHECK_DEADLOCK FALSE
