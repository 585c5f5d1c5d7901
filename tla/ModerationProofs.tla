-------------------------- MODULE ModerationProofs --------------------------
(***************************************************************************)
(* Theorems about Moderation, for any numbers of users, connections and    *)
(* admin requests.                                                         *)
(***************************************************************************)
EXTENDS Moderation, TLAPS

(* A connection between its check and its registration has missed the ban  *)
(* of its user, if there is one.                                           *)
CheckedMissed ==
  \A c \in Conns :
    pc[c] = "register" /\ role[userID[c]] = "banned" => <<c, userID[c]>> \in missed

(* A connection in the registry is, or has been, served.                   *)
ListedServed ==
  \A u \in UserIDs, c \in Conns : onlineUsers[u] = c => pc[c] # "off"

IInv == TypeOK /\ AdminClaimsCurrent /\ CheckedMissed /\ ListedServed /\ BanReaches

(* The initial state has the right types.                                  *)
LEMMA InitType == Init => TypeOK
  BY ModerationAssumption DEF Init, TypeOK, Roles, Claims

(* Every step keeps the types.                                             *)
LEMMA NextType == TypeOK /\ [Next]_vars => TypeOK'
<1> SUFFICES ASSUME TypeOK, [Next]_vars PROVE TypeOK'
  OBVIOUS
<1> USE DEF TypeOK, Roles, accountVars, sessionVars, requestVars, historyVars
<1>1. ASSUME NEW u \in UserIDs, Account(u) PROVE TypeOK'
  <2>1. CASE Register(u) BY <2>1 DEF Register
  <2>2. CASE Login(u) BY <2>2 DEF Login, Claims
  <2>3. CASE Promote(u) BY <2>3 DEF Promote, ForgetBan
  <2> QED BY <1>1, <2>1, <2>2, <2>3 DEF Account, AccountRequest
<1>2. ASSUME NEW t \in tokens, Expire(t) PROVE TypeOK'
  BY <1>2 DEF Expire
<1>3. ASSUME NEW c \in Conns, Session(c) PROVE TypeOK'
  <2>1. CASE Connect(c) BY <2>1 DEF Connect
  <2>2. CASE AuthExhausted(c) BY <2>2 DEF AuthExhausted
  <2>3. CASE AuthFailed(c)
    BY <2>3, ModerationAssumption DEF AuthFailed, CountAttempt
  <2>4. CASE CheckRefuses(c) BY <2>4 DEF CheckRefuses
  <2>5. CASE CheckPasses(c) BY <2>5 DEF CheckPasses
  <2>6. CASE CheckFails(c) BY <2>6 DEF CheckFails
  <2>7. CASE RegisterOnline(c) BY <2>7 DEF RegisterOnline
  <2>8. CASE ConnLost(c) BY <2>8 DEF ConnLost
  <2>9. CASE SessionEnds(c) BY <2>9 DEF SessionEnds
  <2>10. CASE SessionPanics(c) BY <2>10 DEF SessionPanics
  <2> QED BY <1>3, <2>1, <2>2, <2>3, <2>4, <2>5, <2>6, <2>7, <2>8, <2>9, <2>10
          DEF Session
<1>4. ASSUME NEW c \in Conns, NEW t \in tokens, Validate(c, t) PROVE TypeOK'
  <2>1. t.user \in UserIDs
    BY DEF Claims
  <2> QED BY <1>4, <2>1, ModerationAssumption DEF Validate, CountAttempt
<1>5. ASSUME NEW r \in Reqs, NEW what \in {"ban", "unban"}, NEW u \in UserIDs,
             NEW t \in Claims, AdminRequest(r, what, u, t)
      PROVE  TypeOK'
  BY <1>5 DEF AdminRequest
<1>6. ASSUME NEW r \in Reqs, Admin(r) PROVE TypeOK'
  <2> USE DEF Answer, BanRow, MissBan
  <2>1. CASE Ban(r) BY <2>1 DEF Ban
  <2>2. CASE BanRefused(r) BY <2>2 DEF BanRefused
  <2>3. CASE BanUnanswered(r) BY <2>3 DEF BanUnanswered
  <2>4. CASE DisconnectUser(r) BY <2>4 DEF DisconnectUser
  <2>5. CASE Unban(r) BY <2>5 DEF Unban, ForgetBan
  <2>6. CASE UnbanRefused(r) BY <2>6 DEF UnbanRefused
  <2>7. CASE UpdateFails(r) BY <2>7 DEF UpdateFails
  <2> QED BY <1>6, <2>1, <2>2, <2>3, <2>4, <2>5, <2>6, <2>7 DEF Admin
<1>7. CASE UNCHANGED vars
  BY <1>7 DEF vars
<1> QED BY <1>1, <1>2, <1>3, <1>4, <1>5, <1>6, <1>7 DEF Next

(* Which steps write role, and how: a role that changes was not "admin".   *)
LEMMA RoleWriters ==
  ASSUME TypeOK, [Next]_vars, NEW u \in UserIDs, role'[u] # role[u]
  PROVE  /\ role[u] # "admin"
         /\ role[u] = "banned" =>
              \/ role'[u] = "admin"
              \/ \E r \in Reqs : req[r] = "unban" /\ target[r] = u
<1> USE DEF TypeOK, accountVars, sessionVars
<1>1. ASSUME NEW v \in UserIDs, Account(v)
      PROVE  \/ role[u] \in {"none", "user"}
             \/ role[u] = "banned" /\ role'[u] = "admin"
  <2>1. CASE Register(v) BY <2>1 DEF Register
  <2>2. CASE Login(v) BY <2>2 DEF Login
  <2>3. CASE Promote(v) BY <2>3 DEF Promote
  <2> QED BY <1>1, <2>1, <2>2, <2>3 DEF Account, AccountRequest
<1>2. ASSUME NEW r \in Reqs, Admin(r)
      PROVE  \/ role[u] = "user"
             \/ role[u] = "banned" /\ req[r] = "unban" /\ target[r] = u
  <2>1. CASE Ban(r) BY <2>1 DEF Ban, BanRow
  <2>2. CASE BanUnanswered(r) BY <2>2 DEF BanUnanswered, BanRow
  <2>3. CASE Unban(r) BY <2>3 DEF Unban
  <2> QED BY <1>2, <2>1, <2>2, <2>3
          DEF Admin, BanRefused, DisconnectUser, UnbanRefused, UpdateFails
<1>3. CASE UNCHANGED role
  BY <1>3
<1>4. ASSUME NEW t \in tokens, Expire(t) PROVE UNCHANGED role
  BY <1>4 DEF Expire
<1>5. ASSUME NEW c \in Conns, Session(c) PROVE UNCHANGED role
  BY <1>5 DEF Session, Connect, AuthExhausted, AuthFailed, CheckRefuses, CheckPasses,
              CheckFails, RegisterOnline, ConnLost, SessionEnds, SessionPanics
<1>6. ASSUME NEW c \in Conns, NEW t \in tokens, Validate(c, t) PROVE UNCHANGED role
  BY <1>6 DEF Validate
<1>7. ASSUME NEW r \in Reqs, NEW what \in {"ban", "unban"}, NEW v \in UserIDs,
             NEW t \in Claims, AdminRequest(r, what, v, t)
      PROVE  UNCHANGED role
  BY <1>7 DEF AdminRequest
<1>8. CASE UNCHANGED vars
  BY <1>8 DEF vars
<1> QED BY <1>1, <1>2, <1>3, <1>4, <1>5, <1>6, <1>7, <1>8 DEF Next

(* A token that was not there before carries the role of its user.         *)
LEMMA TokenWriters ==
  ASSUME TypeOK, [Next]_vars, NEW t \in tokens'
  PROVE  \/ t \in tokens
         \/ t.user \in UserIDs /\ t.role = role[t.user] /\ UNCHANGED role
<1> USE DEF accountVars
<1>1. ASSUME NEW v \in UserIDs, Account(v)
      PROVE  \/ t \in tokens
             \/ t.user \in UserIDs /\ t.role = role[t.user] /\ UNCHANGED role
  BY <1>1 DEF Account, AccountRequest, Register, Login, Promote
<1>2. ASSUME NEW s \in tokens, Expire(s) PROVE t \in tokens
  BY <1>2 DEF Expire
<1>3. ASSUME NEW c \in Conns, Session(c) PROVE t \in tokens
  BY <1>3 DEF Session, Connect, AuthExhausted, AuthFailed, CheckRefuses, CheckPasses,
              CheckFails, RegisterOnline, ConnLost, SessionEnds, SessionPanics
<1>4. ASSUME NEW c \in Conns, NEW s \in tokens, Validate(c, s) PROVE t \in tokens
  BY <1>4 DEF Validate
<1>5. ASSUME NEW r \in Reqs, NEW what \in {"ban", "unban"}, NEW v \in UserIDs,
             NEW s \in Claims, AdminRequest(r, what, v, s)
      PROVE  t \in tokens
  BY <1>5 DEF AdminRequest
<1>6. ASSUME NEW r \in Reqs, Admin(r) PROVE t \in tokens
  BY <1>6 DEF Admin, Ban, BanRefused, BanUnanswered, DisconnectUser, Unban,
              UnbanRefused, UpdateFails
<1>7. CASE UNCHANGED vars
  BY <1>7 DEF vars
<1> QED BY <1>1, <1>2, <1>3, <1>4, <1>5, <1>6, <1>7 DEF Next

(* Admin claims stay current: admins keep their role.                      *)
LEMMA ClaimsStep ==
  ASSUME TypeOK, AdminClaimsCurrent, [Next]_vars
  PROVE  AdminClaimsCurrent'
<1> SUFFICES ASSUME NEW t \in tokens', t.role = "admin"
             PROVE  role'[t.user] = "admin"
  BY DEF AdminClaimsCurrent
<1>1. CASE t \in tokens
  <2>1. t.user \in UserIDs /\ role[t.user] = "admin"
    BY <1>1 DEF AdminClaimsCurrent, TypeOK, Claims
  <2> QED BY <2>1, RoleWriters
<1>2. CASE t \notin tokens
  BY <1>2, TokenWriters
<1> QED BY <1>1, <1>2

(* What the last three conjuncts say of one user and one connection.       *)
Missed(c, u) ==
  pc[c] = "register" /\ userID[c] = u /\ role[u] = "banned" => <<c, u>> \in missed
Served(c, u) == onlineUsers[u] = c => pc[c] # "off"
Reached(c, u) ==
  onlineUsers[u] = c /\ role[u] = "banned" /\ open[c] =>
    DisconnectPending(u) \/ <<c, u>> \in missed \/ u \in unanswered
BanSeen(c, u) == Missed(c, u) /\ Served(c, u) /\ Reached(c, u)

(* A step of an account keeps both: it changes neither sessions nor bans,  *)
(* or ends the ban of a user.                                              *)
LEMMA AccountStep ==
  ASSUME TypeOK, NEW v \in UserIDs, Account(v), NEW u \in UserIDs, NEW c \in Conns,
         BanSeen(c, u)
  PROVE  BanSeen(c, u)'
<1> USE DEF TypeOK, BanSeen, Missed, Served, Reached, DisconnectPending, sessionVars,
            requestVars, historyVars
<1>1. CASE Register(v) BY <1>1 DEF Register
<1>2. CASE Login(v) BY <1>2 DEF Login
<1>3. CASE Promote(v) BY <1>3 DEF Promote, ForgetBan
<1> QED BY <1>1, <1>2, <1>3 DEF Account, AccountRequest

(* A step of a connection keeps both: it registers only after the check.   *)
LEMMA SessionStep ==
  ASSUME TypeOK, NEW d \in Conns, Session(d), NEW u \in UserIDs, NEW c \in Conns,
         BanSeen(c, u)
  PROVE  BanSeen(c, u)'
<1> USE DEF TypeOK, BanSeen, Missed, Served, Reached, DisconnectPending, accountVars,
            requestVars, historyVars
<1>1. CASE Connect(d) BY <1>1 DEF Connect
<1>2. CASE AuthExhausted(d) BY <1>2 DEF AuthExhausted
<1>3. CASE AuthFailed(d) BY <1>3 DEF AuthFailed
<1>4. CASE CheckRefuses(d) BY <1>4 DEF CheckRefuses
<1>5. CASE CheckPasses(d) BY <1>5 DEF CheckPasses
<1>6. CASE CheckFails(d) BY <1>6 DEF CheckFails
<1>7. CASE RegisterOnline(d) BY <1>7, ModerationAssumption DEF RegisterOnline
<1>8. CASE ConnLost(d) BY <1>8 DEF ConnLost
<1>9. CASE SessionEnds(d) BY <1>9, ModerationAssumption DEF SessionEnds
<1>10. CASE SessionPanics(d) BY <1>10 DEF SessionPanics
<1> QED BY <1>1, <1>2, <1>3, <1>4, <1>5, <1>6, <1>7, <1>8, <1>9, <1>10 DEF Session

(* A step of an admin request keeps both: a ban that takes effect is noted *)
(* as missed, as unanswered, or goes on to the disconnection, which closes *)
(* the socket of the session in the registry.                              *)
LEMMA AdminStep ==
  ASSUME TypeOK, NEW r \in Reqs, Admin(r), NEW u \in UserIDs, NEW c \in Conns,
         BanSeen(c, u)
  PROVE  BanSeen(c, u)'
<1> USE DEF TypeOK, BanSeen, Missed, Served, Reached, DisconnectPending, accountVars,
            sessionVars, historyVars, Answer
<1>1. CASE Ban(r) BY <1>1 DEF Ban, BanRow, MissBan
<1>2. CASE BanRefused(r) BY <1>2 DEF BanRefused
<1>3. CASE BanUnanswered(r) BY <1>3 DEF BanUnanswered, BanRow, MissBan
<1>4. CASE DisconnectUser(r) BY <1>4 DEF DisconnectUser
<1>5. CASE Unban(r) BY <1>5 DEF Unban, ForgetBan
<1>6. CASE UnbanRefused(r) BY <1>6 DEF UnbanRefused
<1>7. CASE UpdateFails(r) BY <1>7 DEF UpdateFails
<1> QED BY <1>1, <1>2, <1>3, <1>4, <1>5, <1>6, <1>7 DEF Admin

(* The inductive step of the invariant.                                    *)
LEMMA IInvStep == IInv /\ [Next]_vars => IInv'
<1> SUFFICES ASSUME IInv, [Next]_vars PROVE IInv'
  OBVIOUS
<1>1. TypeOK /\ TypeOK' /\ AdminClaimsCurrent'
  BY NextType, ClaimsStep DEF IInv
<1>2. ASSUME NEW u \in UserIDs, NEW c \in Conns
      PROVE  BanSeen(c, u)'
  <2> USE DEF BanSeen, Missed, Served, Reached, DisconnectPending
  <2>1. BanSeen(c, u)
    BY DEF IInv, CheckedMissed, ListedServed, BanReaches, BanSeen, Missed, Served,
           Reached
  <2>2. ASSUME NEW v \in UserIDs, Account(v) PROVE BanSeen(c, u)'
    BY <1>1, <2>1, <2>2, AccountStep
  <2>3. ASSUME NEW t \in tokens, Expire(t) PROVE BanSeen(c, u)'
    BY <2>1, <2>3 DEF Expire, sessionVars, requestVars, historyVars
  <2>4. ASSUME NEW d \in Conns, Session(d) PROVE BanSeen(c, u)'
    BY <1>1, <2>1, <2>4, SessionStep
  <2>5. ASSUME NEW d \in Conns, NEW t \in tokens, Validate(d, t)
        PROVE  BanSeen(c, u)'
    BY <1>1, <2>1, <2>5 DEF Validate, CountAttempt, TypeOK, accountVars, requestVars,
                            historyVars
  <2>6. ASSUME NEW r \in Reqs, NEW what \in {"ban", "unban"}, NEW v \in UserIDs,
               NEW t \in Claims, AdminRequest(r, what, v, t)
        PROVE  BanSeen(c, u)'
    BY <1>1, <2>1, <2>6 DEF AdminRequest, TypeOK, accountVars, sessionVars, historyVars
  <2>7. ASSUME NEW r \in Reqs, Admin(r) PROVE BanSeen(c, u)'
    BY <1>1, <2>1, <2>7, AdminStep
  <2>8. CASE UNCHANGED vars
    BY <2>1, <2>8 DEF vars, accountVars, sessionVars, requestVars, historyVars
  <2> QED BY <2>2, <2>3, <2>4, <2>5, <2>6, <2>7, <2>8 DEF Next
<1>3. CheckedMissed'
  <2> SUFFICES ASSUME NEW c \in Conns, pc'[c] = "register",
                      role'[userID'[c]] = "banned"
               PROVE  <<c, userID'[c]>> \in missed'
    BY DEF CheckedMissed
  <2>1. userID'[c] \in UserIDs
    BY <1>1 DEF TypeOK
  <2> QED BY <1>2, <2>1 DEF BanSeen, Missed
<1>4. ListedServed' /\ BanReaches'
  BY <1>2 DEF ListedServed, BanReaches, BanSeen, Served, Reached
<1> QED BY <1>1, <1>3, <1>4 DEF IInv

(* The invariant holds initially.                                          *)
LEMMA IInvInit == Init => IInv
<1> SUFFICES ASSUME Init PROVE IInv
  OBVIOUS
<1>1. TypeOK
  BY InitType
<1>2. AdminClaimsCurrent /\ CheckedMissed /\ ListedServed /\ BanReaches
  BY ModerationAssumption
  DEF Init, AdminClaimsCurrent, CheckedMissed, ListedServed, BanReaches
<1> QED BY <1>1, <1>2 DEF IInv

(* The invariant.                                                          *)
LEMMA Invariance == Spec => []IInv
<1> QED BY IInvInit, IInvStep, PTL DEF Spec

(* Types, and no session is checked or registered for nobody.              *)
THEOREM TypeCorrect == Spec => []TypeOK
<1>1. IInv => TypeOK
  BY DEF IInv
<1> QED BY Invariance, <1>1, PTL

(* An admin token is a true statement about its user as long as it lives,  *)
(* so AdminMiddleware need not ask the database.                           *)
THEOREM AdminClaimsHold == Spec => []AdminClaimsCurrent
<1>1. IInv => AdminClaimsCurrent
  BY DEF IInv
<1> QED BY Invariance, <1>1, PTL

(* A ban reaches the registered session, except in the cases named in      *)
(* BanReaches.                                                             *)
THEOREM BanIsEffective == Spec => []BanReaches
<1>1. IInv => BanReaches
  BY DEF IInv
<1> QED BY Invariance, <1>1, PTL

(* Only an unban request or the operator ends a ban.                       *)
THEOREM BanIsLasting == Spec => BanLasts
<1>1. IInv /\ [Next]_vars =>
        [\A u \in UserIDs :
           role[u] = "banned" /\ role'[u] # "banned" =>
             \/ role'[u] = "admin"
             \/ \E r \in Reqs : req[r] = "unban" /\ target[r] = u]_vars
  BY RoleWriters DEF IInv
<1> QED BY Invariance, <1>1, PTL DEF Spec, BanLasts
=============================================================================
