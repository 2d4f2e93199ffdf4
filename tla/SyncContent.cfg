CONSTANTS
  Clients = {c1, c2}
  Projects = {p1, p2}
  Blobs = {b1}
  Quota = 1
  MaxProject = 2
  Keep = 1
  MaxOpen = 2
  MaxCommits = 1
  MaxAges = 0
  MaxAborts = 0
  c1 = c1
  c2 = c2
  p1 = p1
  p2 = p2
  b1 = b1

SPECIFICATION Spec
SYMMETRY Symmetry
INVARIANTS
  ContentIsKept
CHECK_DEADLOCK FALSE
