\* Two connections of two users, one room.
SPECIFICATION FairSpec
CONSTANTS
  u1 = u1
  u2 = u2
  first = c1
  Conns = {c1, c2}
  UserIDs = {u1, u2}
  RoomIDs = {lobby}
  RoomRefs = {r1, r2, r3}
  NoRoom = NoRoom
  NoClient = NoClient
  roomsMu = roomsMu
  UserOf <- Users
INVARIANTS
  NoLockLeft
  NoDeadlock
PROPERTIES
  ImplementsOps
  OperationsFinish
CHECK_DEADLOCK FALSE
