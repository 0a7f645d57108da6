SPECIFICATION FairSpec
CONSTANTS
  Reads = {}
  Writes = {w1, w2}
  Directs = {d1}
  Closers = {c1}
  EarlyClosers = {}
  WithErr = {}
  Deadline = {}
  HalfCloses = {"writeable"}
  UserPanics = TRUE
INVARIANTS
  TypeOK
  DrainedWritesSeeOpenConn
PROPERTY CloseCompletes
CHECK_DEADLOCK FALSE
