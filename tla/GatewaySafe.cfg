\* Two connections, two users, one room, with the auth service.
SPECIFICATION Spec
CONSTANTS
  Conns = {c1, c2}
  UserIDs = {u1, u2}
  RoomIDs = {lobby}
  RoomRefs = {r1, r2, r3}
  NoRoom = NoRoom
  NoClient = NoClient
  NoUser = NoUser
  DevMode = FALSE
  MaxAuthAttempts = 2
INVARIANTS
  TypeOK
  NoDanglingClient
  RoutedToAuthenticated
  UnlistedExplained
PROPERTIES
  RegistryStable
SYMMETRY Symmetry
CHECK_DEADLOCK FALSE
