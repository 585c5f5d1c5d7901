\* An admin and a user to ban, two connections, two admin requests at a time.
SPECIFICATION Spec
CONSTANTS
  UserIDs = {u1, u2}
  Conns = {c1, c2}
  Reqs = {r1, r2}
  NoUser = NoUser
  NoClient = NoClient
  MaxAuthAttempts = 1
SYMMETRY Symmetry
INVARIANTS
  TypeOK
  AdminClaimsCurrent
  BanReaches
PROPERTY
  BanLasts
