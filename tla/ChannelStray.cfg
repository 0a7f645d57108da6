SPECIFICATION Spec
CONSTANTS
  Reads = {r1}
  Writes = {}
  Directs = {}
  Closers = {c1}
  EarlyClosers = {}
  WithErr = {}
  Deadline = {}
  HalfCloses = {}
  UserPanics = FALSE
INVARIANT NoStrayMessage
CHECK_DEADLOCK FALSE
