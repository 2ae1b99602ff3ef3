SPECIFICATION FairSpec
CONSTANTS
  Sessions = {s1}
  NoSession = none
  InfraCap = 1
  MaxHead = 2
  Failures = {"stalled", "size", "refused", "hold", "transient", "outage", "unknown"}
  ScanFails = TRUE
CHECK_DEADLOCK FALSE
INVARIANT TypeOK
PROPERTY NoStuckClaim
