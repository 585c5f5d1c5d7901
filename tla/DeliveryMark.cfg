\* More messages than one pull takes, or one saved between its two queries.
SPECIFICATION Spec
CONSTANTS
  Msgs = {m1, m2}
  Sessions = {s1, s2}
  NoSession = NoSession
  Limit = 1
  Capacity = 2
PROPERTY
  MarkedWereFetched
CHECK_DEADLOCK FALSE
