SPECIFICATION Spec
CONSTANTS
  Incidents = {1, 2}
  Plans = {1, 2, 3}
  IncidentOf <- MCIncidentOf
  MaxClicks = 2
  None = None
  Error = Error
INVARIANTS
  DecidesWhatIsShown
  QuietPageAgrees
\* The operator stops after MaxClicks.
CHECK_DEADLOCK FALSE
