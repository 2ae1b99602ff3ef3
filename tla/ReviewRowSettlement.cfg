SPECIFICATION Spec
CONSTANTS
  Sessions = {s1, s2}
  NoSession = none
  InfraCap = 1
  MaxHead = 2
  Failures = {"transient"}
  ScanFails = FALSE
CHECK_DEADLOCK FALSE
PROPERTY ClaimKept
