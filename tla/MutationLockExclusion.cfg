SPECIFICATION Spec
CONSTANTS
  p1 = p1
  p2 = p2
  p3 = p3
  Procs <- ThreeProcs
  HostOf <- TwoHosts
  NoLock = NoLock
  MaxAttempts = 2
  StaleAfter = 1
  MaxNow = 0
INVARIANT MutualExclusion
