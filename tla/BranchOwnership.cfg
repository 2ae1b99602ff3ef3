SPECIFICATION Spec
CONSTANTS
  Jobs = {j1}
  NoJob = none
  MaxRounds = 1
  MaxRetries = 0
  MaxWorkers = 2
  MaxUpsets = 2
  MaxClosers = 2
CHECK_DEADLOCK FALSE
INVARIANT TypeOK OneWriter JobKept
PROPERTY HaltIsFinal
