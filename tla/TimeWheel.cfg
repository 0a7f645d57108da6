SPECIFICATION Spec
CONSTANTS
  Timers = {n1, n2}
  NearSize = 2
  LevelSize = 2
  Levels = 2
  Delays = {0, 1, 5, 9}
  Periods = {3}
  Stops = {n1}
  MaxStops = 2
  LastStart = 3
  Skew = 1
  Horizon = 13
  Word = 88
INVARIANTS
  TypeOK
  PendingInOneList
  RingsIntact
  LenMatchesList
  NeverEarly
  OnTime
CHECK_DEADLOCK FALSE
