SPECIFICATION Spec
CONSTANTS
  Server = TRUE
  MaxIdle = 0
  MaxAge = 0
  Jitter = 1
  CloseGrace = 2
  GoAway = TRUE
  Time = 1
  Timeout = 2
  Second = 1
  defaultCloseGrace = 1
  defaultTimeout = 1
  CanPing = TRUE
  Preempted = TRUE
  Horizon = 8
INVARIANT AnsweredNotGivenUp
CHECK_DEADLOCK FALSE
