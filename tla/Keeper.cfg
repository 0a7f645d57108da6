SPECIFICATION Spec
CONSTANTS
  Server = TRUE
  MaxIdle = 2
  MaxAge = 7
  Jitter = 1
  CloseGrace = 0
  GoAway = TRUE
  Time = 2
  Timeout = 0
  Second = 3
  defaultCloseGrace = 2
  defaultTimeout = 2
  CanPing = TRUE
  Preempted = FALSE
  Horizon = 10
INVARIANTS
  TypeOK
  
  AnsweredNotGivenUp
  
  
  DoneGoesQuiet
CHECK_DEADLOCK FALSE
