\* One user with two sessions, dev mode (the token is the user ID), fair.
SPECIFICATION FairSpec
CONSTANTS
  Conns = {c1, c2}
  UserIDs = {u1}
  RoomIDs = {lobby}
  RoomRefs = {r1, r2, r3}
  NoRoom = NoRoom
  NoClient = NoClient
  NoUser = NoUser
  DevMode = TRUE
  MaxAuthAttempts = 1
PROPERTIES
  RequestsFinish
  SessionsEnd
CHECK_DEADLOCK FALSE
