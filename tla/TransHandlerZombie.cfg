SPECIFICATION Spec
CONSTANTS
  Conns = {i1}
  Others = 0
  Busy = {i1}
  Writers = {}
  Max = 1
  Keepalive = TRUE
  HooksSkipped = FALSE
  HalfCloses = {}
INVARIANT CountIsConcurrentChannels
CHECK_DEADLOCK FALSE
