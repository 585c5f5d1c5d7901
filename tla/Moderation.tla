----------------------------- MODULE Moderation -----------------------------
(***************************************************************************)
(* Who may be connected: the role of every user in MySQL, the tokens that  *)
(* carry a copy of it, the authentication of a WebSocket connection and    *)
(* the ban and unban requests of the admins (internal/auth/service.go,     *)
(* internal/gateway/api.go, middleware.go and the "auth" case of           *)
(* ws_handle.go).                                                          *)
(*                                                                         *)
(* A request of the gateway to MySQL or to the auth service is a step of   *)
(* its own, so a ban may come between the role check of an authentication  *)
(* and the registration of its session, or a login between the UPDATE of a *)
(* ban and the disconnection.  Passwords are left out (a login attempt     *)
(* with a wrong one changes nothing), and so is what a session does once   *)
(* it is registered, except that it may end.                               *)
(***************************************************************************)
EXTENDS Naturals

CONSTANTS
  UserIDs,          (* users.id                                            *)
  Conns,            (* WebSocket connections                               *)
  Reqs,             (* goroutines that serve /api/admin/users/ban, unban   *)
  NoUser,           (* me == nil                                           *)
  NoClient,         (* getOnlineClient returns nil                         *)
  MaxAuthAttempts   (* maxAuthAttempts                                     *)

ASSUME ModerationAssumption ==
  /\ NoUser \notin UserIDs
  /\ NoClient \notin Conns
  /\ MaxAuthAttempts \in Nat \ {0}

VARIABLES
  role,         (* users.role; "none": no row                              *)
  tokens,       (* the claims of the signed tokens that have not expired   *)
  onlineUsers,  (* map[string]*Client                                      *)
  pc,           (* where the handler of a connection stands                *)
  userID,       (* resp.UserId, once Validate has answered                 *)
  me,           (* me.UserID                                               *)
  authAttempts, (* authAttempts                                            *)
  open,         (* the socket is open                                      *)
  req,          (* what an admin request does next                         *)
  target,       (* its req.UserID                                          *)
  missed,       (* history: <<c, u>>, c passed the check for u without     *)
                (* seeing the ban of u that is now in force                *)
  unanswered    (* history: users whose ban took effect in MySQL although  *)
                (* ExecContext returned an error                           *)

accountVars == <<role, tokens>>
sessionVars == <<onlineUsers, pc, userID, me, authAttempts, open>>
requestVars == <<req, target>>
historyVars == <<missed, unanswered>>
vars == <<accountVars, sessionVars, requestVars, historyVars>>

Roles == {"user", "admin", "banned"}
Claims == [user : UserIDs, role : Roles]

(* Type correctness, and the IDs a step is about to use are set: no        *)
(* session is registered, checked or unregistered for nobody.              *)
TypeOK ==
  /\ role \in [UserIDs -> Roles \cup {"none"}]
  /\ tokens \subseteq Claims
  /\ onlineUsers \in [UserIDs -> Conns \cup {NoClient}]
  /\ pc \in [Conns -> {"off", "read", "check", "register", "ended"}]
  /\ userID \in [Conns -> UserIDs \cup {NoUser}]
  /\ me \in [Conns -> UserIDs \cup {NoUser}]
  /\ authAttempts \in [Conns -> 0..MaxAuthAttempts]
  /\ open \in [Conns -> BOOLEAN]
  /\ req \in [Reqs -> {"idle", "ban", "disconnect", "unban"}]
  /\ target \in [Reqs -> UserIDs \cup {NoUser}]
  /\ missed \subseteq Conns \X UserIDs
  /\ unanswered \subseteq UserIDs
  /\ \A c \in Conns : pc[c] \in {"check", "register"} => userID[c] \in UserIDs
  /\ \A r \in Reqs : req[r] # "idle" => target[r] \in UserIDs

(* The gateway starts with whatever the database holds.                    *)
Init ==
  /\ role \in [UserIDs -> Roles \cup {"none"}]
  /\ tokens = {}
  /\ onlineUsers = [u \in UserIDs |-> NoClient]
  /\ pc = [c \in Conns |-> "off"]
  /\ userID = [c \in Conns |-> NoUser]
  /\ me = [c \in Conns |-> NoUser]
  /\ authAttempts = [c \in Conns |-> 0]
  /\ open = [c \in Conns |-> FALSE]
  /\ req = [r \in Reqs |-> "idle"]
  /\ target = [r \in Reqs |-> NoUser]
  /\ missed = {}
  /\ unanswered = {}

-----------------------------------------------------------------------------
(* Accounts.                                                               *)

(* Mutant: the row is written whether or not the name is taken.            *)
Register_Upsert(u) ==
  /\ role' = [role EXCEPT ![u] = "user"]
  /\ UNCHANGED <<tokens, sessionVars, requestVars, historyVars>>

(* A row is inserted; the unique name refuses a second one.                *)
Register(u) ==
  /\ role[u] = "none"
  /\ role' = [role EXCEPT ![u] = "user"]
  /\ UNCHANGED <<tokens, sessionVars, requestVars, historyVars>>

(* A token with the role of this moment; a banned user gets one too.       *)
Login(u) ==
  /\ role[u] # "none"
  /\ tokens' = tokens \cup {[user |-> u, role |-> role[u]]}
  /\ UNCHANGED <<role, sessionVars, requestVars, historyVars>>

(* ExpiresAt has passed.                                                   *)
Expire(t) ==
  /\ tokens' = tokens \ {t}
  /\ UNCHANGED <<role, sessionVars, requestVars, historyVars>>

(* The ban of u is over: nobody can have missed it any more.               *)
ForgetBan(u) ==
  /\ missed' = {m \in missed : m[2] # u}
  /\ unanswered' = unanswered \ {u}

(* The operator makes u an admin, with the UPDATE of the README.  It takes *)
(* no admin's role away, nor the row: the README has no such statement,    *)
(* and AdminClaimsCurrent would not survive one.                           *)
Promote(u) ==
  /\ role[u] \in {"user", "banned"}
  /\ role' = [role EXCEPT ![u] = "admin"]
  /\ ForgetBan(u)
  /\ UNCHANGED <<tokens, sessionVars, requestVars>>

-----------------------------------------------------------------------------
(* Sessions.                                                               *)

Connect(c) ==
  /\ pc[c] = "off"
  /\ pc' = [pc EXCEPT ![c] = "read"]
  /\ open' = [open EXCEPT ![c] = TRUE]
  /\ UNCHANGED <<accountVars, onlineUsers, userID, me, authAttempts,
                 requestVars, historyVars>>

(* One auth frame too many.                                                *)
AuthExhausted(c) ==
  /\ pc[c] = "read"
  /\ authAttempts[c] = MaxAuthAttempts
  /\ open' = [open EXCEPT ![c] = FALSE]
  /\ UNCHANGED <<accountVars, onlineUsers, pc, userID, me, authAttempts,
                 requestVars, historyVars>>

CountAttempt(c) ==
  /\ pc[c] = "read"
  /\ authAttempts[c] < MaxAuthAttempts
  /\ authAttempts' = [authAttempts EXCEPT ![c] = @ + 1]

(* Mutant: no `continue` after the answer "auth failed".                   *)
AuthFailed_GoesOn(c) ==
  /\ CountAttempt(c)
  /\ pc' = [pc EXCEPT ![c] = "check"]
  /\ UNCHANGED <<accountVars, onlineUsers, userID, me, open, requestVars,
                 historyVars>>

(* Validate does not answer, or refuses the token.                         *)
AuthFailed(c) ==
  /\ CountAttempt(c)
  /\ UNCHANGED <<accountVars, onlineUsers, pc, userID, me, open, requestVars,
                 historyVars>>

(* Validate accepts a signed token that has not expired.  It answers with  *)
(* the user of the claims; the role in them is not used here.              *)
Validate(c, t) ==
  /\ CountAttempt(c)
  /\ pc' = [pc EXCEPT ![c] = "check"]
  /\ userID' = [userID EXCEPT ![c] = t.user]
  /\ UNCHANGED <<accountVars, onlineUsers, me, open, requestVars, historyVars>>

(* SELECT role finds the user banned.                                      *)
CheckRefuses(c) ==
  /\ pc[c] = "check"
  /\ role[userID[c]] = "banned"
  /\ pc' = [pc EXCEPT ![c] = "read"]
  /\ userID' = [userID EXCEPT ![c] = NoUser]
  /\ open' = [open EXCEPT ![c] = FALSE]
  /\ UNCHANGED <<accountVars, onlineUsers, me, authAttempts, requestVars,
                 historyVars>>

(* Mutant: the role is taken from the token, which may be older.           *)
CheckPasses_Claims(c) ==
  /\ pc[c] = "check"
  /\ [user |-> userID[c], role |-> "user"] \in tokens
  /\ pc' = [pc EXCEPT ![c] = "register"]
  /\ UNCHANGED <<accountVars, onlineUsers, userID, me, authAttempts, open,
                 requestVars, historyVars>>

(* SELECT role finds another role, or no row.                              *)
CheckPasses(c) ==
  /\ pc[c] = "check"
  /\ role[userID[c]] # "banned"
  /\ pc' = [pc EXCEPT ![c] = "register"]
  /\ UNCHANGED <<accountVars, onlineUsers, userID, me, authAttempts, open,
                 requestVars, historyVars>>

(* The query fails, or there is no database: the user is let in.           *)
CheckFails(c) ==
  /\ pc[c] = "check"
  /\ pc' = [pc EXCEPT ![c] = "register"]
  /\ missed' = IF role[userID[c]] = "banned"
                 THEN missed \cup {<<c, userID[c]>>} ELSE missed
  /\ UNCHANGED <<accountVars, onlineUsers, userID, me, authAttempts, open,
                 requestVars, unanswered>>

(* registerOnline: the newest session of a user has the entry.             *)
RegisterOnline(c) ==
  /\ pc[c] = "register"
  /\ pc' = [pc EXCEPT ![c] = "read"]
  /\ me' = [me EXCEPT ![c] = userID[c]]
  /\ onlineUsers' = [onlineUsers EXCEPT ![userID[c]] = c]
  /\ userID' = [userID EXCEPT ![c] = NoUser]
  /\ UNCHANGED <<accountVars, authAttempts, open, requestVars, historyVars>>

(* The peer goes, the network fails or the read deadline passes.           *)
ConnLost(c) ==
  /\ open[c]
  /\ open' = [open EXCEPT ![c] = FALSE]
  /\ UNCHANGED <<accountVars, onlineUsers, pc, userID, me, authAttempts,
                 requestVars, historyVars>>

(* ReadMessage fails and the clean-up removes the entry of the user,       *)
(* whichever session has it.                                               *)
SessionEnds(c) ==
  /\ pc[c] = "read"
  /\ ~open[c]
  /\ pc' = [pc EXCEPT ![c] = "ended"]
  /\ onlineUsers' = [u \in UserIDs |-> IF u = me[c] THEN NoClient
                                                    ELSE onlineUsers[u]]
  /\ UNCHANGED <<accountVars, userID, me, authAttempts, open, requestVars,
                 historyVars>>

(* A send to a closed channel in a request of c: the socket is closed, the *)
(* clean-up does not run (module Gateway).                                 *)
SessionPanics(c) ==
  /\ pc[c] = "read"
  /\ me[c] # NoUser
  /\ pc' = [pc EXCEPT ![c] = "ended"]
  /\ open' = [open EXCEPT ![c] = FALSE]
  /\ UNCHANGED <<accountVars, onlineUsers, userID, me, authAttempts,
                 requestVars, historyVars>>

-----------------------------------------------------------------------------
(* Requests of the admins.                                                 *)

(* The token is signed and has not expired.                                *)
ParseJWTToken(t) == t \in tokens

(* AdminMiddleware takes the role from the claims, not from the database.  *)
AdminMiddleware(t) == ParseJWTToken(t) /\ t.role = "admin"

(* A ban or unban request gets past the middleware.                        *)
AdminRequest(r, what, u, t) ==
  /\ req[r] = "idle"
  /\ AdminMiddleware(t)
  /\ req' = [req EXCEPT ![r] = what]
  /\ target' = [target EXCEPT ![r] = u]
  /\ UNCHANGED <<accountVars, sessionVars, historyVars>>

(* The handler has answered.                                               *)
Answer(r) ==
  /\ req' = [req EXCEPT ![r] = "idle"]
  /\ target' = [target EXCEPT ![r] = NoUser]

(* Mutant: the WHERE clause names the ID only.                             *)
BanRow_AnyRole(u) ==
  /\ role[u] \notin {"none", "banned"}
  /\ role' = [role EXCEPT ![u] = "banned"]

(* UPDATE ... WHERE id=? AND role != 'admin' changes a row.                *)
BanRow(u) ==
  /\ role[u] = "user"
  /\ role' = [role EXCEPT ![u] = "banned"]

(* Sessions of u that have passed the check miss this ban.                 *)
MissBan(u) ==
  missed' = missed \cup {<<c, u>> : c \in {d \in Conns :
                                   pc[d] = "register" /\ userID[d] = u}}

Ban(r) ==
  /\ req[r] = "ban"
  /\ BanRow(target[r])
  /\ MissBan(target[r])
  /\ req' = [req EXCEPT ![r] = "disconnect"]
  /\ UNCHANGED <<tokens, sessionVars, target, unanswered>>

(* No row affected: no such user, an admin, or a user banned already.      *)
BanRefused(r) ==
  /\ req[r] = "ban"
  /\ role[target[r]] # "user"
  /\ Answer(r)
  /\ UNCHANGED <<accountVars, sessionVars, historyVars>>

(* The UPDATE takes effect and its answer is lost or late: ExecContext     *)
(* returns an error and nobody is disconnected.                            *)
BanUnanswered(r) ==
  /\ req[r] = "ban"
  /\ BanRow(target[r])
  /\ MissBan(target[r])
  /\ unanswered' = unanswered \cup {target[r]}
  /\ Answer(r)
  /\ UNCHANGED <<tokens, sessionVars>>

(* disconnectUser closes the socket of the session that has the entry.     *)
(* The request's id is a string.  MySQL converts it for the UPDATE, the    *)
(* registry does not: here it is written as the user's own.                *)
DisconnectUser(r) ==
  /\ req[r] = "disconnect"
  /\ open' = [c \in Conns |-> open[c] /\ c # onlineUsers[target[r]]]
  /\ Answer(r)
  /\ UNCHANGED <<accountVars, onlineUsers, pc, userID, me, authAttempts,
                 historyVars>>

(* UPDATE ... WHERE id=? AND role='banned' changes a row, whether or not   *)
(* ExecContext reports it.                                                 *)
Unban(r) ==
  /\ req[r] = "unban"
  /\ role[target[r]] = "banned"
  /\ role' = [role EXCEPT ![target[r]] = "user"]
  /\ ForgetBan(target[r])
  /\ Answer(r)
  /\ UNCHANGED <<tokens, sessionVars>>

UnbanRefused(r) ==
  /\ req[r] = "unban"
  /\ role[target[r]] # "banned"
  /\ Answer(r)
  /\ UNCHANGED <<accountVars, sessionVars, historyVars>>

(* No database, or the UPDATE fails without effect.                        *)
UpdateFails(r) ==
  /\ req[r] \in {"ban", "unban"}
  /\ Answer(r)
  /\ UNCHANGED <<accountVars, sessionVars, historyVars>>

-----------------------------------------------------------------------------
(* /api/register and /api/login pass the request on to the auth service.   *)
(* An answer that is late or lost changes nothing else here.               *)
AccountRequest(u) == Register(u) \/ Login(u)

Account(u) == AccountRequest(u) \/ Promote(u)

Session(c) ==
  \/ Connect(c) \/ AuthExhausted(c) \/ AuthFailed(c)
  \/ CheckRefuses(c) \/ CheckPasses(c) \/ CheckFails(c) \/ RegisterOnline(c)
  \/ ConnLost(c) \/ SessionEnds(c) \/ SessionPanics(c)

Admin(r) ==
  \/ Ban(r) \/ BanRefused(r) \/ BanUnanswered(r) \/ DisconnectUser(r)
  \/ Unban(r) \/ UnbanRefused(r) \/ UpdateFails(r)

Next ==
  \/ \E u \in UserIDs : Account(u)
  \/ \E t \in tokens : Expire(t)
  \/ \E c \in Conns : Session(c)
  \/ \E c \in Conns, t \in tokens : Validate(c, t)
  \/ \E r \in Reqs, what \in {"ban", "unban"}, u \in UserIDs, t \in Claims :
       AdminRequest(r, what, u, t)
  \/ \E r \in Reqs : Admin(r)

Spec == Init /\ [][Next]_vars

-----------------------------------------------------------------------------
(* What moderation keeps.                                                  *)

(* AdminMiddleware may trust the role in a token although it is a copy     *)
(* that can be a day old: whoever holds an admin token is an admin now.    *)
(* It is about the code alone: an operator who demotes or deletes an admin *)
(* in SQL leaves tokens that say otherwise (middleware.go:117).            *)
(* It rests on the UPDATE of AdminBanUser sparing admins (README, "管理员   *)
(* 无法被封禁").                                                             *)
AdminClaimsCurrent ==
  \A t \in tokens : t.role = "admin" => role[t.user] = "admin"

DisconnectPending(u) == \E r \in Reqs : req[r] = "disconnect" /\ target[r] = u

(* A ban reaches the session the registry names.  When a banned user has   *)
(* an entry with an open socket, the disconnection is still to come, or    *)
(* the session passed the role check without seeing the ban (it came       *)
(* between check and registration, or the query failed), or the UPDATE     *)
(* took effect but was reported as an error.  No other order of bans,      *)
(* unbans, logins, old tokens and ending sessions leads there.             *)
BanReaches ==
  \A u \in UserIDs, c \in Conns :
    /\ onlineUsers[u] = c
    /\ role[u] = "banned"
    /\ open[c]
    => \/ DisconnectPending(u)
       \/ <<c, u>> \in missed
       \/ u \in unanswered

(* A ban lasts until an unban request for that user, or until the operator *)
(* makes the user an admin: registering again, logging in, expiring tokens *)
(* or other users' unbans do not lift it.                                  *)
BanLasts ==
  [][\A u \in UserIDs :
       role[u] = "banned" /\ role'[u] # "banned" =>
         \/ role'[u] = "admin"
         \/ \E r \in Reqs : req[r] = "unban" /\ target[r] = u]_vars
=============================================================================
