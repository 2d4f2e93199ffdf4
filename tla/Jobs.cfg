CONSTANTS
  Jobs = {j1, j2, j3}
  Keys = {k1}
  MaxWorkers = 2
  MaxQueued = 1
  MaxStartFailures = 1
  j1 = j1
  j2 = j2
  j3 = j3
  k1 = k1

SPECIFICATION LiveSpec
INVARIANTS
  PermitsConserved
  OneOperationPerKey
  KeyedJobIsInProgress
PROPERTIES
  TakesJobsAgain
CHECK_DEADLOCK FALSE
