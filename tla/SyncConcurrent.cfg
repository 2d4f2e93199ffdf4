CONSTANTS
  Clients = {c1, c2}
  Projects = {p1}
  Blobs = {b1, b2}
  Quota = 2
  MaxProject = 2
  Keep = 2
  MaxOpen = 2
  MaxCommits = 3
  MaxAges = 0
  MaxAborts = 1
  c1 = c1
  c2 = c2
  p1 = p1
  b1 = b1
  b2 = b2

SPECIFICATION Spec
SYMMETRY Symmetry
INVARIANTS
  KeptRevisionsAreTheLast
  EtagIsNotNewer
PROPERTIES
  NothingOverwrittenUnseen
CHECK_DEADLOCK FALSE
