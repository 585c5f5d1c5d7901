\* Two connections of one user and a login, both processes stopping, dying and starting again.
SPECIFICATION LCFairSpec
CONSTANTS
  Sessions = {s1, s2}
  Logins = {r1}
INVARIANTS
  LCTypeOK
  MarkerExplained
PROPERTIES
  GatewayComesUp
  StopsEnd
