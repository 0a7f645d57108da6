SPECIFICATION SrvSpec
CONSTANTS
  Conns = {i1}
  Others = 0
  Busy = {i1}
  Writers = {i1}
  Max = 0
  Keepalive = TRUE
  HooksSkipped = TRUE
  HalfCloses = {"readable", "writeable"}
INVARIANT ActiveIsReachable

  
  
CHECK_DEADLOCK FALSE
