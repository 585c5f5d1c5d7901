\* The shortest way for a ping to meet a write in progress.
SPECIFICATION Spec
CONSTANTS
  ReadTimeout = 30
  PingPeriod = 15
  WriteTimeout = 5
  CloseWait = 6
  RequestTime = 3
  MaxBacklog = 1
  PongDelay = 1
  Capacity = 2
INVARIANT
  PingsHarmless
CHECK_DEADLOCK FALSE
