SPECIFICATION Spec
CONSTANTS
  Sessions = {s1, s2}
  NoSession = none
  InfraCap = 1
  MaxHead = 2
  Failures = {"stalled", "size"}
  ScanFails = FALSE
SYMMETRY Symmetry
CHECK_DEADLOCK FALSE
INVARIANTS HandleMatchesClaim PostedHeadReviewed
PROPERTIES ClaimKept ImplementsRegister CapRespected
