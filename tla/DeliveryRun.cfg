\* Two messages, two sessions that end and come back, a pull of one, a channel of one.
SPECIFICATION FairSpec
CONSTANTS
  Msgs = {m1, m2}
  Sessions = {s1, s2}
  NoSession = NoSession
  Limit = 1
  Capacity = 1
INVARIANTS
  TypeOK
  AtMostOnce
PROPERTY
  OfflineTakenUp
CHECK_DEADLOCK FALSE
