SPECIFICATION LiveFairSpec
CONSTANTS
  Trials = 3
  Experiments <- MCTrials
  FailingJournals <- MCBadDays
  Mortal <- MCBadDays
INVARIANTS
  OneFaultAtATime
  ReportIsComplete
  FaultsAreLabelled
  RecoveredIsClean
  LeaksAreLabelled
PROPERTIES
  CleanupIsUnavoidable
  FaultsEnd
CHECK_DEADLOCK FALSE
