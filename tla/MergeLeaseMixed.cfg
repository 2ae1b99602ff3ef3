SPECIFICATION Spec
CONSTANTS
  c1 = c1
  c2 = c2
  d1 = d1
  op = op
  Closers = {c1}
  Daemons = {d1}
  Operators = {op}
  HeadOf <- MixedHeads
  PrOf <- TwoPrs
  HostOf <- OneHost
  Closable = {1}
  Incidents = {}
  NoLease = NoLease
  MaxGate = 2
  MaxLeases = 2
  MaxStamps = 2
  MaxRenewals = 0
  MaxBase = 1
  MaxFaults = 1
INVARIANTS TypeOK LaneExclusion BookedOnce
PROPERTIES NoOvertaking ParkIsSticky
CHECK_DEADLOCK FALSE
