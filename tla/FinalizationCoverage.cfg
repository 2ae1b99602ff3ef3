SPECIFICATION Spec
CONSTANTS
  Executors = {e1, e2}
  NoExecutor = none
  Roles = {"reviewer"}
  VerdictKinds = {"approved", "request-changes"}
  OverrideKinds = {"resume", "close"}
  ExhaustionAlwaysCloses = TRUE
  StrictMode = TRUE
  CloseSurface = TRUE
  Patience = 1
  Ttl = 1
  MaxRev = 1
  MaxRounds = 2
  MaxEvents = 4
  CheckKinds = {"green", "red"}
  MaxFaults = 1
SYMMETRY Symmetry
CHECK_DEADLOCK FALSE
INVARIANT ExhaustionIsCovered
