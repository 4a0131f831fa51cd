SPECIFICATION Spec
CONSTANTS
  Experiments = {good_day}
  FailingJournals = {}
  Mortal = {}
INVARIANTS
  FailSafe
CHECK_DEADLOCK FALSE
