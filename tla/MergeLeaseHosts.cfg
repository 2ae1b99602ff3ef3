SPECIFICATION Spec
CONSTANTS
  c1 = c1
  c2 = c2
  d1 = d1
  op = op
  Closers = {c1, c2}
  Daemons = {}
  Operators = {}
  HeadOf <- HammerHeads
  PrOf <- SharedPr
  HostOf <- TwoHosts
  Closable = {}
  Incidents = {}
  NoLease = NoLease
  MaxGate = 1
  MaxLeases = 2
  MaxStamps = 2
  MaxRenewals = 1
  MaxBase = 0
  MaxFaults = 1
INVARIANTS LaneExclusion OneMemoryPerPr
PROPERTIES ImplementsLane NoOvertaking
CHECK_DEADLOCK FALSE
