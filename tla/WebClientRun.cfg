\* Two logins, four sockets, three reconnect timers, two attempts before the page gives up.
SPECIFICATION FairSpec
CONSTANTS
  Sockets = {k1, k2, k3, k4}
  NoSocket = NoSocket
  Timers = {t1, t2, t3}
  NoTimer = NoTimer
  Requests = {r1, r2}
  MaxAttempts = 2
INVARIANTS
  TypeOK
  OneConnection
  QuietAfterLogout
  NeverStranded
PROPERTIES
  HealthyKept
  Reconnects
