SPECIFICATION Spec
CONSTANTS
  Conns = {i1, i2}
  Others = 1
  Busy = {i1}
  Writers = {}
  Max = 1
  Keepalive = TRUE
  HooksSkipped = FALSE
  HalfCloses = {"readable"}
INVARIANTS
  TypeOK
  CountMatchesRegistry
  
  ActiveIsReachable
  NoOrphanKeeper
  ShutdownClosesAll
CHECK_DEADLOCK FALSE
