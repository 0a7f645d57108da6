SPECIFICATION Spec
CONSTANTS
  Servers = {s1, s2}
  Channels = {c1, c2, c3}
  Pipelines = {p1, p2}
  None = None
  Configured = 4
  Disables = {}
  PoolSize = 1
  Adds = 1
SYMMETRY Symmetry
INVARIANTS
  TypeOK
  HooksWhole
  PoolClean
  PanicContained
CHECK_DEADLOCK FALSE
