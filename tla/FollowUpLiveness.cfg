SPECIFICATION FairSpec
CONSTANTS
  Jobs = {j1}
  NoJob = none
  MaxRounds = 1
  MaxRetries = 1
  MaxWorkers = 2
  MaxUpsets = 2
CHECK_DEADLOCK FALSE
PROPERTY ClaimsEnd
