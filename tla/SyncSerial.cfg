CONSTANTS
  Clients = {c1, c2}
  Projects = {p1, p2}
  Blobs = {b1, b2}
  Quota = 2
  MaxProject = 2
  Keep = 2
  MaxOpen = 1
  MaxCommits = 2
  MaxAges = 1
  MaxAborts = 0
  c1 = c1
  c2 = c2
  p1 = p1
  p2 = p2
  b1 = b1
  b2 = b2

SPECIFICATION Spec
SYMMETRY Symmetry
INVARIANTS
  ContentIsKept
  WithinQuota
  PurgedIsGone
CHECK_DEADLOCK FALSE
