---------------------------- MODULE RateLimiter ----------------------------
(***************************************************************************)
(* RateLimiter.Limit of internal/gateway/middleware.go, a sliding window   *)
(* kept in a Redis sorted set, for the three endpoints cmd/gateway puts    *)
(* behind it.                                                              *)
(*                                                                         *)
(* A request takes the time once and sends four commands as one pipeline.  *)
(* A pipeline is no transaction: Redis may run commands of other requests  *)
(* between them, and a later request's before an earlier one's.  A member  *)
(* of the set is a time stamp, so two requests of one millisecond are one  *)
(* member.  An error or the timeout of 500 ms lets the request through     *)
(* while its commands may still run, or never do.  With Redis == nil the   *)
(* middleware only calls the next handler, as it does without a key.       *)
(*                                                                         *)
(* External, from how main.go:128 creates the client, with no option but   *)
(* the address: go-redis tries a pipeline again, all four commands of it,  *)
(* when its connection breaks before the answers are read.                 *)
(***************************************************************************)
EXTENDS Integers, FiniteSets

CONSTANTS
  Requests,     (* HTTP requests                                           *)
  maxRequests,  (* by endpoint: login 10, register 5, online 30            *)
  Window,       (* window: one minute                                      *)
  Delay,        (* bound: a pipeline has run for the last time, or been    *)
                (* lost, this long after its request took the time         *)
  MaxTime,      (* bound on the clock of a run                             *)
  MaxResent     (* bound on the requests that are sent again at a time     *)

Endpoints == {"login", "register", "online"}

ASSUME RateLimiterAssumption ==
  /\ maxRequests \in [Endpoints -> Nat \ {0}]
  /\ {Window, Delay, MaxTime, MaxResent} \subseteq Nat
  /\ Delay < Window

VARIABLES
  clock,      (* time.Now().UnixMilli()                                     *)
  zset,       (* the sorted set of every key; empty is absent               *)
  expiry,     (* when Redis drops the key                                   *)
  cmd,        (* the next command of the request's pipeline                 *)
  endpoint,   (* the route of the request                                   *)
  now,        (* now                                                        *)
  counted,    (* the members ZCARD counted, until the decision              *)
  verdict,    (* what the middleware decided                                *)
  answered,   (* history: when it admitted or rejected                      *)
  swept,      (* history: requests whose member went with an expiring key   *)
  resent      (* history: requests whose pipeline was sent again, until     *)
              (* they are let in                                            *)

redisVars == <<zset, expiry>>
requestVars == <<endpoint, now>>
historyVars == <<answered, swept, resent>>
vars == <<clock, redisVars, cmd, requestVars, counted, verdict, historyVars>>

(* The keys of one client address, by LoginKey and IPKey: the user name is *)
(* no part of the first, so logins and registrations share a set.  Other   *)
(* addresses have sets of their own.                                       *)
Keys == {"login:ip", "ip"}
KeyFunc(e) == IF e = "online" THEN "ip" ELSE "login:ip"
rlKey(r) == KeyFunc(endpoint[r])

Never == MaxTime + Window + 1
Commands == {"zrem", "zcard", "zadd", "expire"}

(* Types; and no member of a set is a time still to come, which would      *)
(* outlive its window.                                                     *)
TypeOK ==
  /\ clock \in 0..MaxTime
  /\ zset \in [Keys -> SUBSET (0..clock)]
  /\ expiry \in [Keys -> 0..Never]
  /\ cmd \in [Requests -> Commands \cup {"none", "done", "lost"}]
  /\ endpoint \in [Requests -> Endpoints]
  /\ now \in [Requests -> 0..clock]
  /\ counted \in [Requests -> SUBSET (0..clock)]
  /\ verdict \in [Requests -> {"none", "admitted", "rejected", "let through"}]
  /\ answered \in [Requests -> 0..clock]
  /\ swept \subseteq Requests /\ resent \subseteq Requests

Init ==
  /\ clock = 0
  /\ zset = [k \in Keys |-> {}]
  /\ expiry = [k \in Keys |-> Never]
  /\ cmd = [r \in Requests |-> "none"]
  /\ endpoint = [r \in Requests |-> "login"]
  /\ now = [r \in Requests |-> 0]
  /\ counted = [r \in Requests |-> {}]
  /\ verdict = [r \in Requests |-> "none"]
  /\ answered = [r \in Requests |-> 0]
  /\ swept = {} /\ resent = {}

-----------------------------------------------------------------------------
(* The middleware.                                                         *)

Arrive(r, e) ==
  /\ cmd[r] = "none" /\ verdict[r] = "none"
  /\ endpoint' = [endpoint EXCEPT ![r] = e]

Decide(r, v) ==
  /\ verdict[r] = "none"
  /\ verdict' = [verdict EXCEPT ![r] = v]

(* key == "": straight to the next handler.  IPKey gives that for a header *)
(* that begins with a comma; LoginKey never does.                          *)
Bypass(r, e) ==
  /\ e = "online"
  /\ Arrive(r, e)
  /\ Decide(r, "let through")
  /\ UNCHANGED <<clock, redisVars, cmd, now, counted, historyVars>>

Start(r, e) ==
  /\ Arrive(r, e)
  /\ now' = [now EXCEPT ![r] = clock]
  /\ cmd' = [cmd EXCEPT ![r] = "zrem"]
  /\ UNCHANGED <<clock, redisVars, counted, verdict, historyVars>>

(* Exec returned without an error: the count is compared.                  *)
Judge(r) ==
  /\ cmd[r] = "done"
  /\ LET v == IF Cardinality(counted[r]) >= maxRequests[endpoint[r]]
              THEN "rejected" ELSE "admitted"
     IN  /\ Decide(r, v)
         /\ resent' = IF v = "rejected" THEN resent ELSE resent \ {r}
  /\ answered' = [answered EXCEPT ![r] = clock]
  /\ counted' = [counted EXCEPT ![r] = {}]
  /\ UNCHANGED <<clock, redisVars, cmd, requestVars, swept>>

(* Exec returned an error: Redis failed, or the context's 500 ms are over. *)
RedisError(r) ==
  /\ cmd[r] # "none"
  /\ Decide(r, "let through")
  /\ counted' = [counted EXCEPT ![r] = {}]
  /\ resent' = resent \ {r}
  /\ UNCHANGED <<clock, redisVars, cmd, requestVars, answered, swept>>

-----------------------------------------------------------------------------
(* Redis runs the pipeline, command by command.                            *)

Run(r, from, to) == cmd[r] = from /\ cmd' = [cmd EXCEPT ![r] = to]

(* A sorted set that becomes empty is deleted, and its expiry with it.     *)
SetKey(k, S) ==
  /\ zset' = [zset EXCEPT ![k] = S]
  /\ expiry' = [expiry EXCEPT ![k] = IF S = {} THEN Never ELSE @]

(* Mutant: the window starts one unit late.                                *)
ZRemRangeByScore_TooMuch(r) ==
  /\ Run(r, "zrem", "zcard")
  /\ SetKey(rlKey(r), {t \in zset[rlKey(r)] : t > now[r] - Window + 1})
  /\ UNCHANGED <<clock, requestVars, counted, verdict, historyVars>>

(* Mutant: what has left the window is not removed.                        *)
ZRemRangeByScore_Nothing(r) ==
  /\ Run(r, "zrem", "zcard")
  /\ UNCHANGED <<clock, redisVars, requestVars, counted, verdict, historyVars>>

(* Scores from 0 to now - window, both included.                           *)
ZRemRangeByScore(r) ==
  /\ Run(r, "zrem", "zcard")
  /\ SetKey(rlKey(r), {t \in zset[rlKey(r)] : t > now[r] - Window})
  /\ UNCHANGED <<clock, requestVars, counted, verdict, historyVars>>

(* Nobody reads the count of a request that was let through.               *)
ZCard(r) ==
  /\ Run(r, "zcard", "zadd")
  /\ counted' = [counted EXCEPT ![r] = IF verdict[r] = "none" THEN zset[rlKey(r)] ELSE {}]
  /\ UNCHANGED <<clock, redisVars, requestVars, verdict, historyVars>>

(* Mutant: the score is the end of the window instead of its start.        *)
ZAdd_End(r) ==
  /\ Run(r, "zadd", "expire")
  /\ SetKey(rlKey(r), zset[rlKey(r)] \cup {now[r] + Window})
  /\ UNCHANGED <<clock, requestVars, counted, verdict, historyVars>>

(* The request is added whether or not it will be admitted.                *)
ZAdd(r) ==
  /\ Run(r, "zadd", "expire")
  /\ SetKey(rlKey(r), zset[rlKey(r)] \cup {now[r]})
  /\ UNCHANGED <<clock, requestVars, counted, verdict, historyVars>>

(* Mutant: a request over the limit leaves the expiry alone.               *)
Expire_Admitted(r) ==
  /\ Run(r, "expire", "done")
  /\ expiry' = [expiry EXCEPT ![rlKey(r)] =
       IF Cardinality(counted[r]) >= maxRequests[endpoint[r]]
       THEN @ ELSE clock + Window]
  /\ UNCHANGED <<clock, zset, requestVars, counted, verdict, historyVars>>

(* EXPIRE has no effect on a key that is gone.                             *)
Expire(r) ==
  /\ Run(r, "expire", "done")
  /\ expiry' = [expiry EXCEPT ![rlKey(r)] =
       IF zset[rlKey(r)] = {} THEN @ ELSE clock + Window]
  /\ UNCHANGED <<clock, zset, requestVars, counted, verdict, historyVars>>

(* The connection broke: Redis never sees the rest of the pipeline.        *)
Cut(r) ==
  /\ cmd[r] \in Commands /\ verdict[r] = "let through"
  /\ cmd' = [cmd EXCEPT ![r] = "lost"]
  /\ UNCHANGED <<clock, redisVars, requestVars, counted, verdict, historyVars>>

(* The connection broke while the client waited for the answers: it sends  *)
(* the pipeline again, on another connection and with the same time stamp, *)
(* and only the new answers count.  What the first copy has run stays      *)
(* done; the rest of it Redis does not see.  (A copy that broke before its *)
(* ZADD leaves nothing behind: sent again, it is only late.)               *)
Resend(r) ==
  /\ cmd[r] \in {"expire", "done"} /\ verdict[r] = "none"
  /\ clock <= now[r] + Delay
  /\ Cardinality(resent \cup {r}) <= MaxResent
  /\ cmd' = [cmd EXCEPT ![r] = "zrem"]
  /\ counted' = [counted EXCEPT ![r] = {}]
  /\ swept' = swept \ {r}
  /\ resent' = resent \cup {r}
  /\ UNCHANGED <<clock, redisVars, requestVars, verdict, answered>>

(* Time passes, and Redis drops the keys that expire, also between the     *)
(* ZADD and the EXPIRE of a pipeline.  The clock starts with the first     *)
(* request.                                                                *)
Tick ==
  /\ clock < MaxTime
  /\ \E r \in Requests : cmd[r] # "none"
  /\ \A r \in Requests : cmd[r] \in Commands => clock < now[r] + Delay
  /\ clock' = clock + 1
  /\ zset' = [k \in Keys |-> IF expiry[k] = clock + 1 THEN {} ELSE zset[k]]
  /\ expiry' = [k \in Keys |-> IF expiry[k] = clock + 1 THEN Never ELSE expiry[k]]
  /\ swept' = swept \cup {r \in Requests : cmd[r] = "expire" /\ expiry[rlKey(r)] = clock + 1}
  /\ UNCHANGED <<cmd, requestVars, counted, verdict, answered, resent>>

-----------------------------------------------------------------------------

Handle(r) ==
  \/ \E e \in Endpoints : Bypass(r, e) \/ Start(r, e)
  \/ Judge(r) \/ RedisError(r)
Pipeline(r) ==
  ZRemRangeByScore(r) \/ ZCard(r) \/ ZAdd(r) \/ Expire(r) \/ Cut(r) \/ Resend(r)

Next == Tick \/ \E r \in Requests : Handle(r) \/ Pipeline(r)

Spec == Init /\ [][Next]_vars

-----------------------------------------------------------------------------
(* What the limiter keeps.                                                 *)

(* The requests on r's key that were over before r came and are less than  *)
(* a window old when r is decided, admitted or not; but one whose member   *)
(* went with the key, which had seen no request for a window, is forgotten.*)
Recent(r) ==
  {q \in Requests : /\ rlKey(q) = rlKey(r) /\ q \notin swept
                    /\ cmd[q] = "done" /\ verdict[q] \in {"admitted", "rejected"}
                    /\ answered[q] < now[r]
                    /\ answered[r] < now[q] + Window}

(* The limit is kept against clients that wait for their answers: a        *)
(* request is admitted only if fewer than maxRequests came on its key, at  *)
(* different milliseconds, in the window before it, whatever requests in   *)
(* flight at the same time, errors and expiring keys do to the set         *)
(* meanwhile.  (Requests in flight at the same time may all be admitted.)  *)
LimitEnforced ==
  \A r \in Requests : verdict[r] = "admitted" =>
    Cardinality({now[q] : q \in Recent(r)}) < maxRequests[endpoint[r]]

(* The other requests on r's key that were in the window when r came.      *)
Others(r) ==
  {p \in Requests \ {r} :
     cmd[p] # "none" /\ rlKey(p) = rlKey(r) /\ now[r] - Window < now[p]}

(* As many requests as the limit, at different milliseconds.               *)
Reach(S, r) == Cardinality({now[q] : q \in S}) >= maxRequests[endpoint[r]]

(* Nobody is turned away without cause.  The cause that the README states  *)
(* (login 10, register 5, online 30 per minute) is that the others on r's  *)
(* own endpoint reach its limit within the window.  The code knows two     *)
(* more: LoginKey (middleware.go:94, "IP + username") leaves out the user  *)
(* name and the endpoint, so that logins count against registrations and   *)
(* the other way round; and of a pipeline sent again the ZCARD may count   *)
(* the request's own member.  Then those together reach the limit; nothing *)
(* else, and nothing that has left the window, counts.                     *)
RejectExplained ==
  \A r \in Requests : verdict[r] = "rejected" =>
    LET mine == {p \in Others(r) : endpoint[p] = endpoint[r]}
    IN  \/ Reach(mine, r)
        \/ mine # Others(r) /\ Reach(Others(r), r)
        \/ r \in resent /\ Reach(Others(r) \cup {r}, r)

(* No set stays in Redis for ever, unless a pipeline broke off before its  *)
(* EXPIRE.                                                                 *)
KeysExpire ==
  \A k \in Keys : zset[k] # {} /\ expiry[k] = Never =>
    \E r \in Requests : rlKey(r) = k /\ cmd[r] \in Commands \cup {"lost"}
=============================================================================
