\* The timeouts of the code in units of 2 seconds, fair.
SPECIFICATION FairSpec
CONSTANTS
  ReadTimeout = 30
  PingPeriod = 15
  WriteTimeout = 5
  CloseWait = 6
  RequestTime = 3
  MaxBacklog = 1
  PongDelay = 1
  Capacity = 2
INVARIANTS
  TypeOK
  ResponsivePeerKept
  EndsInTime
PROPERTY
  GoroutinesEnd
CHECK_DEADLOCK FALSE
