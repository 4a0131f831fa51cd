SPECIFICATION Spec
CONSTANTS
  r1 = r1
  r2 = r2
  Replicas = {r1, r2}
  Deployments <- MCDeployments
  CredentialFiles <- MCFiles
  FirstFile <- MCFirstFile
  Unreadable = Unreadable
  UsableTokens = {"ta", "tb"}
  MaxRotations = 1
  None = None
  Callers = {c1}
  Requests <- MCRequests
  Now = 20
  Day = 9
  MaxAttempts = 2
INVARIANTS
  AlertmanagerIsServed
SYMMETRY Symmetry
CHECK_DEADLOCK FALSE
