SPECIFICATION FairSpec
CONSTANTS
  Reads = {r1, r2}
  Writes = {}
  Directs = {}
  Closers = {c1, c2}
  EarlyClosers = {c2}
  WithErr = {c2}
  Deadline = {c1}
  HalfCloses = {"readable"}
  UserPanics = TRUE
INVARIANTS
  SingleClose
  ReadsDrainedBeforeHooks
  HooksSeeOwnChannel
  
PROPERTIES
  LifeSpec
  CloseCompletes
CHECK_DEADLOCK FALSE
