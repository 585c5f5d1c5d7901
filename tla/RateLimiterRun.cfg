\* Three requests from one address, a window of three units, pipelines of up to one.
SPECIFICATION Spec
CONSTANTS
  Requests = {q1, q2, q3}
  maxRequests <- Limits
  Window = 3
  Delay = 1
  MaxTime = 4
  MaxResent = 1
INVARIANTS
  TypeOK
  LimitEnforced
  RejectExplained
  KeysExpire
SYMMETRY Symmetry
CHECK_DEADLOCK FALSE
