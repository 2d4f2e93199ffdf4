CONSTANTS
  Jobs = {j1, j2, j3, j4, j5}
  Keys = {k1}
  MaxWorkers = 2
  MaxQueued = 0
  MaxStartFailures = 1
  j1 = j1
  j2 = j2
  j3 = j3
  j4 = j4
  j5 = j5
  k1 = k1

SPECIFICATION Spec
SYMMETRY Symmetry
INVARIANTS
  Bounded
CHECK_DEADLOCK FALSE
