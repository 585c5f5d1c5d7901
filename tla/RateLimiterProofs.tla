------------------------- MODULE RateLimiterProofs -------------------------
(***************************************************************************)
(* Theorems about RateLimiter, for any number of requests, any limits, and *)
(* any window that is longer than the delay of a pipeline.                 *)
(***************************************************************************)
EXTENDS RateLimiter, FiniteSetTheorems, TLAPS

(* The constants as numbers.                                               *)
LEMMA Numbers == /\ Window \in Nat /\ Delay \in Nat /\ MaxTime \in Nat /\ Never \in Nat
                 /\ Delay < Window
                 /\ Never = MaxTime + Window + 1
<1>1. Window \in Nat /\ Delay \in Nat /\ MaxTime \in Nat /\ Delay < Window
  BY RateLimiterAssumption
<1> QED BY <1>1 DEF Never

(* The key function gives one of the two keys of the address.              *)
LEMMA KeyType == ASSUME TypeOK, NEW r \in Requests PROVE rlKey(r) \in Keys
  BY DEF TypeOK, rlKey, KeyFunc, Keys, Endpoints

-----------------------------------------------------------------------------
(* Types.                                                                  *)

(* The initial state has the right types.                                  *)
LEMMA InitType == Init => TypeOK
  BY Numbers DEF Init, TypeOK, Keys, Endpoints

(* The time, as a number.                                                  *)
LEMMA ClockType == TypeOK => clock \in Nat /\ clock <= MaxTime /\ clock \in 0..clock
<1>1. TypeOK => clock \in 0..MaxTime
  BY DEF TypeOK
<1> QED BY <1>1, Numbers

(* Times of requests and members of sets are times that have come.         *)
LEMMA TimeType ==
  ASSUME TypeOK
  PROVE  /\ \A r \in Requests : /\ now[r] \in Nat /\ now[r] <= clock
                                /\ answered[r] \in Nat /\ answered[r] <= clock
         /\ \A k \in Keys : \A t \in zset[k] : t \in Nat /\ t <= clock
<1>1. \A r \in Requests : now[r] \in 0..clock /\ answered[r] \in 0..clock
  BY DEF TypeOK
<1>2. \A k \in Keys : \A t \in zset[k] : t \in 0..clock
  BY DEF TypeOK
<1> QED BY <1>1, <1>2, ClockType

(* A record kept for every request takes another value for one of them.    *)
LEMMA ExceptType ==
  ASSUME NEW T, NEW f \in [Requests -> T], NEW r \in Requests, NEW x \in T
  PROVE  [f EXCEPT ![r] = x] \in [Requests -> T]
  OBVIOUS

(* Changing a set to times that have come keeps its type and its expiry's. *)
LEMMA SetKeyType ==
  ASSUME TypeOK, NEW k \in Keys, NEW S \in SUBSET (0..clock), SetKey(k, S)
  PROVE  /\ zset' \in [Keys -> SUBSET (0..clock)]
         /\ expiry' \in [Keys -> 0..Never]
<1>1. Never \in 0..Never
  BY Numbers
<1> QED BY <1>1 DEF TypeOK, SetKey

(* Every step keeps the types.                                             *)
LEMMA NextType == TypeOK /\ [Next]_vars => TypeOK'
<1> SUFFICES ASSUME TypeOK, [Next]_vars PROVE TypeOK'
  OBVIOUS
<1> USE DEF Arrive, Decide, Run, Commands, redisVars, requestVars, historyVars
<1>0. clock \in Nat /\ clock <= MaxTime /\ clock \in 0..clock
  BY ClockType
<1>1. ASSUME NEW r \in Requests, NEW e \in Endpoints, Bypass(r, e) \/ Start(r, e)
      PROVE  TypeOK'
  <2>1. endpoint' \in [Requests -> Endpoints] /\ now' \in [Requests -> 0..clock]
    <3>1. /\ endpoint' = [endpoint EXCEPT ![r] = e]
          /\ now' = now \/ now' = [now EXCEPT ![r] = clock]
      BY <1>1 DEF Bypass, Start
    <3>2. endpoint \in [Requests -> Endpoints] /\ now \in [Requests -> 0..clock]
      BY DEF TypeOK
    <3> QED BY <1>0, <3>1, <3>2, ExceptType
  <2>2. /\ cmd' \in [Requests -> Commands \cup {"none", "done", "lost"}]
        /\ verdict' \in [Requests -> {"none", "admitted", "rejected", "let through"}]
    BY <1>1 DEF TypeOK, Bypass, Start
  <2> QED BY <1>1, <2>1, <2>2 DEF TypeOK, Bypass, Start
<1>2. ASSUME NEW r \in Requests, Judge(r) \/ RedisError(r) PROVE TypeOK'
  <2>1. verdict' \in [Requests -> {"none", "admitted", "rejected", "let through"}]
    BY <1>2 DEF TypeOK, Judge, RedisError
  <2>2. answered' \in [Requests -> 0..clock] /\ counted' \in [Requests -> SUBSET (0..clock)]
    <3>1. \/ /\ answered' = [answered EXCEPT ![r] = clock]
             /\ counted' = [counted EXCEPT ![r] = {}]
          \/ /\ answered' = answered
             /\ counted' = [counted EXCEPT ![r] = {}]
      BY <1>2 DEF Judge, RedisError
    <3>2. /\ answered \in [Requests -> 0..clock]
          /\ counted \in [Requests -> SUBSET (0..clock)]
      BY DEF TypeOK
    <3>3. {} \in SUBSET (0..clock)
      OBVIOUS
    <3> QED BY <1>0, <3>1, <3>2, <3>3, ExceptType
  <2> QED BY <1>2, <2>1, <2>2 DEF TypeOK, Judge, RedisError
<1>3. ASSUME NEW r \in Requests, ZRemRangeByScore(r) PROVE TypeOK'
  <2> DEFINE S == {t \in zset[rlKey(r)] : t > now[r] - Window}
  <2>1. rlKey(r) \in Keys /\ S \subseteq 0..clock
    BY KeyType DEF TypeOK
  <2>2. SetKey(rlKey(r), S)
    BY <1>3 DEF ZRemRangeByScore
  <2>3. zset' \in [Keys -> SUBSET (0..clock)] /\ expiry' \in [Keys -> 0..Never]
    <3> HIDE DEF S
    <3> QED BY <2>1, <2>2, SetKeyType
  <2> QED BY <1>3, <2>3 DEF TypeOK, ZRemRangeByScore
<1>4. ASSUME NEW r \in Requests, ZCard(r) PROVE TypeOK'
  BY <1>4, KeyType DEF TypeOK, ZCard
<1>5. ASSUME NEW r \in Requests, ZAdd(r) PROVE TypeOK'
  <2> DEFINE S == zset[rlKey(r)] \cup {now[r]}
  <2>1. rlKey(r) \in Keys /\ S \subseteq 0..clock
    BY KeyType DEF TypeOK
  <2>2. SetKey(rlKey(r), S)
    BY <1>5 DEF ZAdd
  <2>3. zset' \in [Keys -> SUBSET (0..clock)] /\ expiry' \in [Keys -> 0..Never]
    <3> HIDE DEF S
    <3> QED BY <2>1, <2>2, SetKeyType
  <2> QED BY <1>5, <2>3 DEF TypeOK, ZAdd
<1>6. ASSUME NEW r \in Requests, Expire(r) PROVE TypeOK'
  <2>1. clock + Window \in 0..Never
    BY <1>0, Numbers
  <2> QED BY <1>6, <2>1 DEF TypeOK, Expire
<1>7. ASSUME NEW r \in Requests, Cut(r) \/ Resend(r) PROVE TypeOK'
  <2>1. cmd' \in [Requests -> Commands \cup {"none", "done", "lost"}]
    BY <1>7 DEF TypeOK, Cut, Resend
  <2>2. counted' \in [Requests -> SUBSET (0..clock)]
    BY <1>7 DEF TypeOK, Cut, Resend
  <2> QED BY <1>7, <2>1, <2>2 DEF TypeOK, Cut, Resend
<1>8. CASE Tick
  <2>1. clock' \in 0..MaxTime /\ 0..clock \subseteq 0..clock'
    BY <1>0, <1>8, Numbers DEF Tick
  <2>2. Never \in 0..Never
    BY Numbers
  <2>3. /\ zset' \in [Keys -> SUBSET (0..clock')]
        /\ expiry' \in [Keys -> 0..Never]
    BY <1>8, <2>1, <2>2 DEF TypeOK, Tick
  <2>4. /\ now' \in [Requests -> 0..clock']
        /\ counted' \in [Requests -> SUBSET (0..clock')]
        /\ answered' \in [Requests -> 0..clock']
    BY <1>8, <2>1 DEF TypeOK, Tick
  <2> QED BY <1>8, <2>1, <2>3, <2>4 DEF TypeOK, Tick
<1>9. CASE UNCHANGED vars
  BY <1>9 DEF TypeOK, vars
<1> QED BY <1>1, <1>2, <1>3, <1>4, <1>5, <1>6, <1>7, <1>8, <1>9
        DEF Next, Handle, Pipeline

(* Types; no member of a set is a time still to come.                      *)
THEOREM TypeCorrect == Spec => []TypeOK
  BY InitType, NextType, PTL DEF Spec

-----------------------------------------------------------------------------
(* Who writes what.                                                        *)

(* A request that has begun keeps its time and its key, a verdict is       *)
(* final, and with it the pipeline's end; it is forgotten that a pipeline  *)
(* was sent again only when its request is let in; time does not go back.  *)
LEMMA RequestStep ==
  ASSUME TypeOK, [Next]_vars, NEW q \in Requests
  PROVE  /\ cmd[q] # "none" =>
              cmd'[q] # "none" /\ now'[q] = now[q] /\ rlKey(q)' = rlKey(q)
                /\ endpoint'[q] = endpoint[q]
         /\ cmd[q] = "done" => cmd'[q] = "done" \/ (verdict[q] = "none" /\ q \in resent')
         /\ verdict[q] # "none" => verdict'[q] = verdict[q] /\ answered'[q] = answered[q]
         /\ q \in resent => \/ q \in resent'
                            \/ /\ counted'[q] = {} /\ verdict[q] = "none"
                               /\ verdict'[q] \in {"admitted", "let through"}
         /\ clock' \in {clock, clock + 1}
         /\ q \in swept => q \in swept' \/ cmd'[q] = "zrem"
<1> USE DEF TypeOK, Arrive, Decide, Run, Commands, redisVars, requestVars, historyVars, rlKey
<1>1. CASE Tick
  BY <1>1 DEF Tick
<1>2. ASSUME NEW r \in Requests, NEW e \in Endpoints, Bypass(r, e) \/ Start(r, e)
      PROVE  /\ cmd[r] = "none" /\ verdict[r] = "none" /\ UNCHANGED <<clock, historyVars>>
             /\ \A p \in Requests \ {r} :
                  /\ cmd'[p] = cmd[p] /\ verdict'[p] = verdict[p]
                  /\ now'[p] = now[p] /\ endpoint'[p] = endpoint[p]
  BY <1>2 DEF Bypass, Start
<1>3. ASSUME NEW r \in Requests, Judge(r) \/ RedisError(r)
      PROVE  /\ verdict[r] = "none" /\ UNCHANGED <<clock, cmd, requestVars, swept>>
             /\ counted'[r] = {}
             /\ \/ resent' = resent
                \/ resent' = resent \ {r} /\ verdict'[r] \in {"admitted", "let through"}
             /\ \A p \in Requests \ {r} :
                  verdict'[p] = verdict[p] /\ answered'[p] = answered[p]
  BY <1>3 DEF Judge, RedisError
<1>4. ASSUME NEW r \in Requests, Pipeline(r), ~Resend(r)
      PROVE  /\ cmd[r] \in Commands /\ cmd'[r] # "none"
             /\ UNCHANGED <<clock, requestVars, verdict, historyVars>>
             /\ \A p \in Requests \ {r} : cmd'[p] = cmd[p]
  BY <1>4 DEF Pipeline, ZRemRangeByScore, ZCard, ZAdd, Expire, Cut
<1>6. ASSUME NEW r \in Requests, Resend(r)
      PROVE  /\ cmd[r] # "none" /\ verdict[r] = "none" /\ cmd'[r] = "zrem"
             /\ UNCHANGED <<clock, requestVars, verdict, answered>>
             /\ resent' = resent \cup {r} /\ swept' = swept \ {r}
             /\ \A p \in Requests \ {r} : cmd'[p] = cmd[p]
  BY <1>6 DEF Resend
<1>5. CASE UNCHANGED vars
  BY <1>5 DEF vars
<1>7. \/ Tick
      \/ \E r \in Requests :
           \/ \E e \in Endpoints : Bypass(r, e) \/ Start(r, e)
           \/ Judge(r) \/ RedisError(r) \/ Resend(r)
           \/ Pipeline(r) /\ ~Resend(r)
      \/ UNCHANGED vars
  BY DEF Next, Handle
<1> HIDE DEF TypeOK, Arrive, Decide, Run
<1>8. cmd[q] # "none" =>
        cmd'[q] # "none" /\ now'[q] = now[q] /\ rlKey(q)' = rlKey(q) /\ endpoint'[q] = endpoint[q]
  BY <1>1, <1>2, <1>3, <1>4, <1>5, <1>6, <1>7
<1>9. cmd[q] = "done" => cmd'[q] = "done" \/ (verdict[q] = "none" /\ q \in resent')
  BY <1>1, <1>2, <1>3, <1>4, <1>5, <1>6, <1>7
<1>10. verdict[q] # "none" => verdict'[q] = verdict[q] /\ answered'[q] = answered[q]
  BY <1>1, <1>2, <1>3, <1>4, <1>5, <1>6, <1>7
<1>11. q \in resent => \/ q \in resent'
                       \/ /\ counted'[q] = {} /\ verdict[q] = "none"
                          /\ verdict'[q] \in {"admitted", "let through"}
  BY <1>1, <1>2, <1>3, <1>4, <1>5, <1>6, <1>7
<1>12. clock' \in {clock, clock + 1}
  BY <1>1, <1>2, <1>3, <1>4, <1>5, <1>6, <1>7
<1>13. q \in swept => q \in swept' \/ cmd'[q] = "zrem"
  BY <1>1, <1>2, <1>3, <1>4, <1>5, <1>6, <1>7
<1> QED BY <1>8, <1>9, <1>10, <1>11, <1>12, <1>13

-----------------------------------------------------------------------------
(* Sets expire.                                                            *)

(* A pipeline under way or broken off stays so unless it runs EXPIRE.      *)
LEMMA WitnessStep ==
  ASSUME TypeOK, [Next]_vars, NEW q \in Requests, cmd[q] \in Commands \cup {"lost"}
  PROVE  Expire(q) \/ (cmd'[q] \in Commands \cup {"lost"} /\ rlKey(q)' = rlKey(q))
<1>1. rlKey(q)' = rlKey(q)
  BY RequestStep DEF Commands
<1> USE DEF TypeOK, Arrive, Run, Commands
<1>2. CASE Tick \/ UNCHANGED vars
  BY <1>1, <1>2 DEF Tick, vars
<1>3. ASSUME NEW r \in Requests, Handle(r) PROVE cmd'[q] = cmd[q]
  BY <1>3 DEF Handle, Bypass, Start, Judge, RedisError
<1>4. ASSUME NEW r \in Requests, Pipeline(r)
      PROVE  Expire(q) \/ cmd'[q] \in Commands \cup {"lost"}
  BY <1>4 DEF Pipeline, ZRemRangeByScore, ZCard, ZAdd, Expire, Cut, Resend
<1> QED BY <1>1, <1>2, <1>3, <1>4 DEF Next

(* Only ZADD adds to a set, only EXPIRE gives it an expiry; the others     *)
(* leave both or empty the set.                                            *)
LEMMA SetStep ==
  ASSUME TypeOK, [Next]_vars, NEW k \in Keys
  PROVE  \/ zset'[k] \subseteq zset[k] /\ (zset'[k] = {} \/ expiry'[k] = expiry[k])
         \/ \E r \in Requests : ZAdd(r) /\ rlKey(r) = k /\ zset'[k] = zset[k] \cup {now[r]}
                                  /\ expiry'[k] = expiry[k]
         \/ \E r \in Requests : Expire(r) /\ rlKey(r) = k /\ zset'[k] = zset[k]
                                  /\ (zset[k] = {} \/ expiry'[k] = clock + Window)
<1> USE DEF TypeOK, SetKey, redisVars
<1>1. CASE Tick \/ UNCHANGED vars
  BY <1>1 DEF Tick, vars
<1>2. ASSUME NEW r \in Requests, Handle(r) PROVE UNCHANGED redisVars
  BY <1>2 DEF Handle, Bypass, Start, Judge, RedisError
<1>3. ASSUME NEW r \in Requests, ZRemRangeByScore(r)
      PROVE  zset'[k] \subseteq zset[k] /\ (zset'[k] = {} \/ expiry'[k] = expiry[k])
  BY <1>3, KeyType DEF ZRemRangeByScore
<1>4. ASSUME NEW r \in Requests, ZCard(r) \/ Cut(r) \/ Resend(r) PROVE UNCHANGED redisVars
  BY <1>4 DEF ZCard, Cut, Resend
<1>5. ASSUME NEW r \in Requests, ZAdd(r)
      PROVE  \/ UNCHANGED <<zset[k], expiry[k]>>
             \/ rlKey(r) = k /\ zset'[k] = zset[k] \cup {now[r]} /\ expiry'[k] = expiry[k]
  BY <1>5, KeyType DEF ZAdd
<1>6. ASSUME NEW r \in Requests, Expire(r)
      PROVE  \/ UNCHANGED <<zset[k], expiry[k]>>
             \/ rlKey(r) = k /\ zset'[k] = zset[k]
                  /\ (zset[k] = {} \/ expiry'[k] = clock + Window)
  BY <1>6, KeyType DEF Expire
<1> QED BY <1>1, <1>2, <1>3, <1>4, <1>5, <1>6 DEF Next, Pipeline

(* A set without an expiry keeps its explanation.                          *)
LEMMA KeysStep == TypeOK /\ KeysExpire /\ [Next]_vars => KeysExpire'
<1> SUFFICES ASSUME TypeOK, KeysExpire, [Next]_vars,
                    NEW k \in Keys, zset'[k] # {}, expiry'[k] = Never
             PROVE  \E r \in Requests : rlKey(r)' = k /\ cmd'[r] \in Commands \cup {"lost"}
  BY DEF KeysExpire, Never, Commands
<1>1. clock + Window # Never
  BY ClockType, Numbers
<1>2. CASE zset[k] # {} /\ expiry[k] = Never
  <2>1. PICK r \in Requests : rlKey(r) = k /\ cmd[r] \in Commands \cup {"lost"}
    BY <1>2 DEF KeysExpire
  <2>2. CASE Expire(r)
    BY <1>1, <1>2, <2>1, <2>2, KeyType DEF Expire, TypeOK
  <2> QED BY <2>1, <2>2, WitnessStep
<1>3. ASSUME NEW r \in Requests, ZAdd(r), rlKey(r) = k
      PROVE  rlKey(r)' = k /\ cmd'[r] \in Commands \cup {"lost"}
  BY <1>3, RequestStep DEF ZAdd, Run, TypeOK, Commands
<1> QED BY <1>1, <1>2, <1>3, SetStep

(* No set stays in Redis for ever, unless a pipeline broke off before its  *)
(* EXPIRE.                                                                 *)
THEOREM SetsExpire == Spec => []KeysExpire
<1>1. Init => KeysExpire
  BY DEF Init, KeysExpire
<1> QED BY <1>1, TypeCorrect, KeysStep, PTL DEF Spec

-----------------------------------------------------------------------------
(* Nobody is turned away without cause.                                    *)

(* The requests that r may count: r itself only if it was sent again.      *)
Counting(r) == {q \in Others(r) \cup {r} : q = r => r \in resent}

(* The request has added its member, or may have.                          *)
Adder(q) ==
  \/ cmd[q] \in {"expire", "done", "lost"}
  \/ cmd[q] # "none" /\ (q \in resent \/ verdict[q] = "let through")

(* A pipeline runs within the delay.                                       *)
Timely == \A r \in Requests : cmd[r] \in Commands => clock <= now[r] + Delay

(* A member of a set was added by a request.                               *)
SetsExplained ==
  \A k \in Keys : \A t \in zset[k] :
    \E q \in Requests : Adder(q) /\ rlKey(q) = k /\ now[q] = t

(* What has left the window stays away between ZREMRANGEBYSCORE and ZCARD: *)
(* no pipeline is late enough to add it.                                   *)
Filtered ==
  \A r \in Requests : cmd[r] = "zcard" => \A t \in zset[rlKey(r)] : now[r] - Window < t

(* What is counted are such requests in the window.                        *)
CountExplained ==
  \A r \in Requests : /\ cmd[r] = "none" => counted[r] = {}
                      /\ \A t \in counted[r] : \E q \in Counting(r) : now[q] = t

(* A verdict by count comes after the pipeline.                            *)
Judged == \A r \in Requests : verdict[r] \in {"admitted", "rejected"} => cmd[r] = "done"

(* A request is rejected when what it counted has reached its limit.       *)
RejectCounted ==
  \A r \in Requests : verdict[r] = "rejected" => Reach(Counting(r), r)

RejectInv == Timely /\ SetsExplained /\ Filtered /\ CountExplained /\ Judged

(* Nothing has been added, counted or decided at first.                    *)
LEMMA InitReject == Init => RejectInv /\ RejectCounted
  BY DEF Init, RejectInv, Timely, SetsExplained, Filtered, CountExplained, Judged,
         RejectCounted, Commands

(* Time waits for the pipelines under way.                                 *)
LEMMA TimelyStep == TypeOK /\ Timely /\ [Next]_vars => Timely'
<1> SUFFICES ASSUME TypeOK, Timely, [Next]_vars, NEW q \in Requests, cmd'[q] \in Commands
             PROVE  clock' <= now'[q] + Delay
  BY DEF Timely
<1>0. /\ clock \in Nat /\ Delay \in Nat /\ now[q] \in Nat /\ now[q] <= clock
      /\ clock <= clock + Delay
  BY ClockType, TimeType, Numbers
<1>1. CASE Tick \/ UNCHANGED vars
  <2>1. cmd'[q] = cmd[q] /\ now'[q] = now[q]
    BY <1>1 DEF Tick, vars, requestVars
  <2>2. CASE Tick
    <3>1. clock < now[q] + Delay /\ clock' = clock + 1
      BY <2>1, <2>2 DEF Tick
    <3> QED BY <1>0, <2>1, <3>1
  <2>3. CASE UNCHANGED vars
    BY <2>1, <2>3 DEF vars, Timely
  <2> QED BY <1>1, <2>2, <2>3
<1> USE DEF TypeOK, Timely, Arrive, Run, requestVars
<1>2. ASSUME NEW r \in Requests, NEW e \in Endpoints, Bypass(r, e) \/ Start(r, e)
      PROVE  clock' <= now'[q] + Delay
  <2>1. CASE q = r
    <3>1. now'[q] = clock /\ clock' = clock
      BY <1>2, <2>1 DEF Bypass, Start, Commands
    <3> QED BY <1>0, <3>1
  <2>2. CASE q # r
    BY <1>2, <2>2 DEF Bypass, Start
  <2> QED BY <2>1, <2>2
<1>3. ASSUME NEW r \in Requests, Judge(r) \/ RedisError(r)
      PROVE  clock' <= now'[q] + Delay
  BY <1>3 DEF Judge, RedisError
<1>4. ASSUME NEW r \in Requests, Pipeline(r) PROVE clock' <= now'[q] + Delay
  BY <1>4 DEF Pipeline, ZRemRangeByScore, ZCard, ZAdd, Expire, Cut, Resend, Commands
<1> QED BY <1>0, <1>1, <1>2, <1>3, <1>4 DEF Next, Handle

(* Who has added a member stays one who has.                               *)
LEMMA AdderStep ==
  ASSUME TypeOK, [Next]_vars, NEW q \in Requests, Adder(q)
  PROVE  Adder(q)'
<1> USE DEF TypeOK, Arrive, Decide, Run, Commands, Adder, historyVars
<1>1. CASE Tick \/ UNCHANGED vars
  BY <1>1 DEF Tick, vars
<1>2. ASSUME NEW r \in Requests, NEW e \in Endpoints, Bypass(r, e) \/ Start(r, e)
      PROVE  Adder(q)'
  BY <1>2 DEF Bypass, Start
<1>3. ASSUME NEW r \in Requests, Judge(r) \/ RedisError(r) PROVE Adder(q)'
  BY <1>3 DEF Judge, RedisError
<1>4. ASSUME NEW r \in Requests, Pipeline(r) PROVE Adder(q)'
  BY <1>4 DEF Pipeline, ZRemRangeByScore, ZCard, ZAdd, Expire, Cut, Resend
<1> QED BY <1>1, <1>2, <1>3, <1>4 DEF Next, Handle

(* Members come by ZADD, and the request that added one stays past it.     *)
LEMMA SetsStep == TypeOK /\ SetsExplained /\ [Next]_vars => SetsExplained'
<1> SUFFICES ASSUME TypeOK, SetsExplained, [Next]_vars, NEW k \in Keys, NEW t \in zset'[k]
             PROVE  \E q \in Requests : Adder(q)' /\ rlKey(q)' = k /\ now'[q] = t
  BY DEF SetsExplained
<1>1. CASE t \in zset[k]
  <2>1. PICK q \in Requests : Adder(q) /\ rlKey(q) = k /\ now[q] = t
    BY <1>1 DEF SetsExplained
  <2>2. cmd[q] # "none" /\ Adder(q)'
    BY <2>1, AdderStep DEF Adder
  <2> QED BY <2>1, <2>2, RequestStep
<1>2. CASE t \notin zset[k]
  <2>1. PICK r \in Requests : ZAdd(r) /\ rlKey(r) = k /\ t = now[r]
    BY <1>2, SetStep
  <2> QED BY <2>1, RequestStep DEF ZAdd, Run, TypeOK, Adder
<1> QED BY <1>1, <1>2

(* A ZADD between the two commands is of a request less than a window old. *)
LEMMA FilteredStep == TypeOK /\ Timely /\ Filtered /\ [Next]_vars => Filtered'
<1> SUFFICES ASSUME TypeOK, Timely, Filtered, [Next]_vars,
                    NEW r \in Requests, cmd'[r] = "zcard", NEW t \in zset'[rlKey(r)']
             PROVE  now'[r] - Window < t
  BY DEF Filtered
<1>1. CASE ZRemRangeByScore(r)
  <2>1. rlKey(r) \in Keys /\ rlKey(r)' = rlKey(r) /\ now'[r] = now[r]
    BY <1>1, KeyType, RequestStep DEF ZRemRangeByScore, Run
  <2>2. zset'[rlKey(r)] = {s \in zset[rlKey(r)] : s > now[r] - Window}
    BY <1>1, <2>1 DEF ZRemRangeByScore, SetKey, TypeOK
  <2>3. now[r] \in Int /\ Window \in Int /\ t \in Int
    BY <2>1, <2>2, TimeType, Numbers
  <2> QED BY <2>1, <2>2, <2>3
<1>2. CASE ~ZRemRangeByScore(r)
  <2>1. cmd[r] = "zcard"
    <3> USE DEF TypeOK, Arrive, Run
    <3>1. ASSUME NEW q \in Requests, Handle(q) PROVE cmd[r] = "zcard"
      BY <3>1 DEF Handle, Bypass, Start, Judge, RedisError
    <3>2. ASSUME NEW q \in Requests, Pipeline(q) PROVE cmd[r] = "zcard"
      BY <1>2, <3>2 DEF Pipeline, ZRemRangeByScore, ZCard, ZAdd, Expire, Cut, Resend
    <3>3. CASE Tick \/ UNCHANGED vars
      BY <3>3 DEF Tick, vars
    <3> QED BY <3>1, <3>2, <3>3 DEF Next
  <2>2. rlKey(r) \in Keys /\ rlKey(r)' = rlKey(r) /\ now'[r] = now[r]
    BY <2>1, KeyType, RequestStep
  <2>3. CASE t \in zset[rlKey(r)]
    BY <2>1, <2>2, <2>3 DEF Filtered
  <2>4. CASE t \notin zset[rlKey(r)]
    <3>1. PICK q \in Requests : ZAdd(q) /\ t = now[q]
      BY <2>2, <2>4, SetStep
    <3>2. clock <= now[q] + Delay
      BY <3>1 DEF Timely, ZAdd, Run, Commands
    <3>3. now[r] <= clock /\ now[r] \in Nat /\ now[q] \in Nat /\ clock \in Nat
      BY ClockType, TimeType
    <3> QED BY <2>2, <3>1, <3>2, <3>3, Numbers
  <2> QED BY <2>3, <2>4
<1> QED BY <1>1, <1>2

(* The requests that count against r stay, once r has begun.               *)
LEMMA OthersStep ==
  ASSUME TypeOK, [Next]_vars, NEW r \in Requests, cmd[r] # "none", NEW q \in Others(r)
  PROVE  q \in Others(r)' /\ now'[q] = now[q]
  BY RequestStep DEF Others

(* So they do for what r may count, until r is let in.                     *)
LEMMA CountingStep ==
  ASSUME TypeOK, [Next]_vars, NEW r \in Requests, cmd[r] # "none",
         r \in resent => r \in resent', NEW q \in Counting(r)
  PROVE  q \in Counting(r)' /\ now'[q] = now[q]
<1>1. CASE q \in Others(r)
  BY <1>1, OthersStep DEF Counting, Others
<1>2. CASE q = r
  BY <1>2, RequestStep DEF Counting
<1> QED BY <1>1, <1>2 DEF Counting

(* What is in the set when r counts was added by others in the window, or  *)
(* by its own first copy.                                                  *)
LEMMA CountStep ==
  TypeOK /\ SetsExplained /\ Filtered /\ CountExplained /\ [Next]_vars => CountExplained'
<1> SUFFICES ASSUME TypeOK, SetsExplained, Filtered, CountExplained, [Next]_vars,
                    NEW r \in Requests
             PROVE  /\ cmd'[r] = "none" => counted'[r] = {}
                    /\ \A t \in counted'[r] : \E q \in Counting(r)' : now'[q] = t
  BY DEF CountExplained
<1>1. CASE ZCard(r)
  <2>1. /\ cmd[r] = "zcard" /\ cmd'[r] # "none" /\ resent' = resent
        /\ counted'[r] = IF verdict[r] = "none" THEN zset[rlKey(r)] ELSE {}
    BY <1>1 DEF ZCard, Run, TypeOK, historyVars
  <2>2. ASSUME NEW t \in zset[rlKey(r)], verdict[r] = "none"
        PROVE  \E q \in Counting(r)' : now'[q] = t
    <3>1. PICK q \in Requests : Adder(q) /\ rlKey(q) = rlKey(r) /\ now[q] = t
      BY <2>2, KeyType DEF SetsExplained
    <3>2. q \in Counting(r)
      <4>1. CASE q = r
        BY <2>1, <2>2, <3>1, <4>1 DEF Adder, Counting
      <4>2. CASE q # r
        BY <2>1, <2>2, <3>1, <4>2 DEF Adder, Counting, Others, Filtered
      <4> QED BY <4>1, <4>2
    <3> QED BY <2>1, <3>1, <3>2, CountingStep
  <2> QED BY <2>1, <2>2
<1>2. CASE ~ZCard(r)
  <2>1. counted'[r] = counted[r] \/ counted'[r] = {}
    <3> USE DEF TypeOK
    <3>1. ASSUME NEW q \in Requests, Handle(q) PROVE counted'[r] \in {counted[r], {}}
      BY <3>1 DEF Handle, Bypass, Start, Judge, RedisError
    <3>2. ASSUME NEW q \in Requests, Pipeline(q) PROVE counted'[r] \in {counted[r], {}}
      BY <1>2, <3>2 DEF Pipeline, ZRemRangeByScore, ZCard, ZAdd, Expire, Cut, Resend
    <3>3. CASE Tick \/ UNCHANGED vars
      BY <3>3 DEF Tick, vars
    <3> QED BY <3>1, <3>2, <3>3 DEF Next
  <2>2. cmd'[r] = "none" => cmd[r] = "none"
    BY RequestStep
  <2>3. CASE counted'[r] = {}
    BY <2>3
  <2>4. CASE counted'[r] # {}
    <3>1. counted'[r] = counted[r] /\ cmd[r] # "none"
      BY <2>1, <2>4 DEF CountExplained
    <3>2. r \in resent => r \in resent'
      BY <2>4, RequestStep
    <3> QED BY <2>2, <3>1, <3>2, CountingStep DEF CountExplained
  <2> QED BY <2>3, <2>4
<1> QED BY <1>1, <1>2

(* Only Judge gives a verdict by count.                                    *)
LEMMA VerdictStep ==
  ASSUME TypeOK, [Next]_vars, NEW r \in Requests,
         verdict'[r] # verdict[r], verdict'[r] \in {"admitted", "rejected"}
  PROVE  Judge(r)
<1> USE DEF TypeOK, Decide
<1>1. CASE Tick \/ UNCHANGED vars
  BY <1>1 DEF Tick, vars
<1>2. ASSUME NEW q \in Requests, NEW e \in Endpoints, Bypass(q, e) \/ Start(q, e)
      PROVE FALSE
  BY <1>2 DEF Bypass, Start
<1>3. ASSUME NEW q \in Requests, Pipeline(q) PROVE FALSE
  BY <1>3 DEF Pipeline, ZRemRangeByScore, ZCard, ZAdd, Expire, Cut, Resend
<1>4. ASSUME NEW q \in Requests, RedisError(q) PROVE FALSE
  BY <1>4 DEF RedisError
<1>5. ASSUME NEW q \in Requests, Judge(q) PROVE q = r
  BY <1>5 DEF Judge
<1> QED BY <1>1, <1>2, <1>3, <1>4, <1>5 DEF Next, Handle

(* Judge comes after the pipeline, which then stays finished.              *)
LEMMA JudgedStep == TypeOK /\ Judged /\ [Next]_vars => Judged'
<1> SUFFICES ASSUME TypeOK, Judged, [Next]_vars, NEW r \in Requests,
                    verdict'[r] \in {"admitted", "rejected"}
             PROVE  cmd'[r] = "done"
  BY DEF Judged
<1>1. CASE Judge(r)
  BY <1>1 DEF Judge
<1>2. CASE ~Judge(r)
  BY <1>2, VerdictStep, RequestStep DEF Judged
<1> QED BY <1>1, <1>2

(* Sets of times that have come are finite.                                *)
LEMMA TimesFinite ==
  ASSUME NEW n \in Nat, NEW S \in SUBSET (0..n), NEW T \in SUBSET S
  PROVE  /\ Cardinality(S) \in Nat /\ Cardinality(T) \in Nat
         /\ Cardinality(T) <= Cardinality(S)
<1>1. IsFiniteSet(0..n)
  BY FS_Interval
<1>2. IsFiniteSet(S) /\ IsFiniteSet(T)
  BY <1>1, FS_Subset
<1> QED BY <1>2, FS_Subset, FS_CardinalityType

(* The times of the requests that r may count.                             *)
Times(r) == {now[q] : q \in Counting(r)}

(* The count that led to a rejection is at most the number of those        *)
(* requests, and that does not fall afterwards.                            *)
LEMMA RejectStep ==
  TypeOK /\ RejectInv /\ RejectCounted /\ [Next]_vars => RejectCounted'
<1> SUFFICES ASSUME TypeOK, RejectInv, RejectCounted, [Next]_vars, TypeOK',
                    NEW r \in Requests, verdict'[r] = "rejected"
             PROVE  Cardinality(Times(r)') >= maxRequests[endpoint'[r]]
  BY NextType DEF RejectCounted, Reach, Times
<1> DEFINE limit == maxRequests[endpoint[r]]
<1>1. cmd[r] = "done"
  BY VerdictStep DEF RejectInv, Judged, Judge
<1>2. endpoint'[r] = endpoint[r] /\ (r \in resent => r \in resent')
  BY <1>1, RequestStep
<1>3. Times(r) \subseteq Times(r)'
  BY <1>1, <1>2, CountingStep DEF Times
<1>4. Times(r)' \in SUBSET (0..clock')
  <2>1. \A q \in Counting(r)' : q \in Requests
    BY DEF Counting, Others
  <2>2. \A q \in Requests : now'[q] \in 0..clock'
    BY DEF TypeOK
  <2> QED BY <2>1, <2>2 DEF Times
<1>5. limit \in Nat /\ clock' \in Nat
  <2>1. endpoint[r] \in Endpoints
    BY DEF TypeOK
  <2>2. clock' \in {clock, clock + 1} /\ clock \in Nat
    BY RequestStep, ClockType
  <2> QED BY <2>1, <2>2, RateLimiterAssumption
<1>6. CASE verdict[r] = "rejected"
  <2>1. Cardinality(Times(r)) >= limit
    BY <1>6 DEF RejectCounted, Reach, Times
  <2>2. Cardinality(Times(r)) <= Cardinality(Times(r)') /\ Cardinality(Times(r)) \in Nat
          /\ Cardinality(Times(r)') \in Nat
    BY <1>3, <1>4, <1>5, TimesFinite
  <2> QED BY <1>2, <1>5, <2>1, <2>2
<1>7. CASE verdict[r] # "rejected"
  <2>1. Cardinality(counted[r]) >= limit
    BY <1>7, VerdictStep, ZenonT(40) DEF Judge, Decide, TypeOK
  <2>2. counted[r] \subseteq Times(r)
    BY DEF RejectInv, CountExplained, Times
  <2>3. Cardinality(counted[r]) <= Cardinality(Times(r)') /\ Cardinality(counted[r]) \in Nat
          /\ Cardinality(Times(r)') \in Nat
    BY <1>3, <1>4, <1>5, <2>2, TimesFinite
  <2> QED BY <1>2, <1>5, <2>1, <2>3
<1> QED BY <1>6, <1>7

(* What a rejected request counted is one of the three causes.             *)
LEMMA CausesCovered == RejectCounted => RejectExplained
<1> SUFFICES ASSUME RejectCounted, NEW r \in Requests, verdict[r] = "rejected"
             PROVE  LET mine == {p \in Others(r) : endpoint[p] = endpoint[r]}
                    IN  \/ Reach(mine, r)
                        \/ mine # Others(r) /\ Reach(Others(r), r)
                        \/ r \in resent /\ Reach(Others(r) \cup {r}, r)
  BY DEF RejectExplained
<1>1. Reach(Counting(r), r)
  BY DEF RejectCounted
<1>2. CASE r \in resent
  <2>1. Counting(r) = Others(r) \cup {r}
    BY <1>2 DEF Counting
  <2> QED BY <1>1, <1>2, <2>1
<1>3. CASE r \notin resent
  <2>1. Counting(r) = Others(r)
    BY <1>3 DEF Counting, Others
  <2> QED BY <1>1, <2>1
<1> QED BY <1>2, <1>3

(* Nobody is turned away without cause: a rejected request has as many     *)
(* others as the limit in its window, on its own endpoint or on the one    *)
(* that shares its key, or was sent again and counted itself.              *)
THEOREM RejectsExplained == Spec => []RejectExplained
<1>1. TypeOK /\ RejectInv /\ [Next]_vars => RejectInv'
  BY TimelyStep, SetsStep, FilteredStep, CountStep, JudgedStep DEF RejectInv
<1>2. Spec => []RejectCounted
  BY <1>1, InitReject, TypeCorrect, RejectStep, PTL DEF Spec
<1> QED BY <1>2, CausesCovered, PTL

-----------------------------------------------------------------------------
(* The limit is kept.                                                      *)

(* A request whose member was not swept away is in the set for a window,   *)
(* and once its EXPIRE has run the set lasts as long.                      *)
Kept ==
  \A q \in Requests :
    cmd[q] \in {"expire", "done"} /\ q \notin swept /\ clock < now[q] + Window =>
      /\ now[q] \in zset[rlKey(q)]
      /\ cmd[q] = "done" => now[q] + Window <= expiry[rlKey(q)]

(* q was over, and is in the set, before r came.                           *)
Before(q, r) ==
  /\ rlKey(q) = rlKey(r) /\ q \notin swept
  /\ cmd[q] = "done" /\ verdict[q] \in {"admitted", "rejected"}
  /\ answered[q] < now[r]

(* r counted those of them that are in the window.                         *)
CountComplete ==
  \A r, q \in Requests :
    /\ cmd[r] \in {"zadd", "expire", "done"} /\ verdict[r] = "none"
    /\ Before(q, r) /\ clock < now[q] + Window
    => now[q] \in counted[r]

LimitInv == Kept /\ CountComplete

(* No request is over at first.                                            *)
LEMMA InitLimit == Init => LimitInv /\ LimitEnforced
  BY DEF Init, LimitInv, Kept, CountComplete, LimitEnforced

(* A pipeline comes to its EXPIRE by ZADD, to its end by EXPIRE.           *)
LEMMA PipelineStep ==
  ASSUME TypeOK, [Next]_vars, NEW q \in Requests, cmd'[q] # cmd[q]
  PROVE  /\ cmd'[q] = "expire" => ZAdd(q)
         /\ cmd'[q] = "done" => Expire(q)
         /\ cmd'[q] = "zadd" => ZCard(q)
<1> USE DEF TypeOK, Arrive, Run
<1>1. CASE Tick \/ UNCHANGED vars
  BY <1>1 DEF Tick, vars
<1>2. ASSUME NEW r \in Requests, Handle(r) PROVE cmd'[q] = "zrem"
  BY <1>2 DEF Handle, Bypass, Start, Judge, RedisError
<1>3. ASSUME NEW r \in Requests, Pipeline(r)
      PROVE  /\ cmd'[q] = "expire" => ZAdd(q)
             /\ cmd'[q] = "done" => Expire(q)
             /\ cmd'[q] = "zadd" => ZCard(q)
  BY <1>3 DEF Pipeline, ZRemRangeByScore, ZCard, ZAdd, Expire, Cut, Resend
<1> QED BY <1>1, <1>2, <1>3 DEF Next

(* A member leaves its set when the key expires, or when a request removes *)
(* it that came a window after it.                                         *)
LEMMA MemberStep ==
  ASSUME TypeOK, [Next]_vars, NEW k \in Keys, NEW t \in zset[k]
  PROVE  \/ t \in zset'[k] /\ (expiry'[k] = expiry[k] \/ expiry'[k] = clock + Window)
         \/ Tick /\ expiry[k] = clock + 1
         \/ \E p \in Requests : ~(t > now[p] - Window)
<1> USE DEF TypeOK, SetKey, redisVars
<1>1. CASE Tick \/ UNCHANGED vars
  BY <1>1 DEF Tick, vars
<1>2. ASSUME NEW p \in Requests, Handle(p) PROVE UNCHANGED redisVars
  BY <1>2 DEF Handle, Bypass, Start, Judge, RedisError
<1>3. ASSUME NEW p \in Requests, ZRemRangeByScore(p), t > now[p] - Window
      PROVE  t \in zset'[k] /\ expiry'[k] = expiry[k]
  BY <1>3, KeyType DEF ZRemRangeByScore
<1>4. ASSUME NEW p \in Requests, ZCard(p) \/ Cut(p) \/ Resend(p) PROVE UNCHANGED redisVars
  BY <1>4 DEF ZCard, Cut, Resend
<1>5. ASSUME NEW p \in Requests, ZAdd(p) PROVE t \in zset'[k] /\ expiry'[k] = expiry[k]
  BY <1>5, KeyType DEF ZAdd
<1>6. ASSUME NEW p \in Requests, Expire(p)
      PROVE  t \in zset'[k] /\ (expiry'[k] = expiry[k] \/ expiry'[k] = clock + Window)
  BY <1>6, KeyType DEF Expire
<1> QED BY <1>1, <1>2, <1>3, <1>4, <1>5, <1>6 DEF Next, Pipeline

(* Only time takes a member, or the expiry of its set, away.               *)
LEMMA KeptStep == TypeOK /\ Kept /\ [Next]_vars => Kept'
<1> SUFFICES ASSUME TypeOK, Kept, [Next]_vars, NEW q \in Requests,
                    cmd'[q] \in {"expire", "done"}, q \notin swept',
                    clock' < now'[q] + Window
             PROVE  /\ now'[q] \in zset'[rlKey(q)']
                    /\ cmd'[q] = "done" => now'[q] + Window <= expiry'[rlKey(q)']
  BY DEF Kept
<1> DEFINE k == rlKey(q)
<1>1. cmd[q] # "none"
  BY PipelineStep DEF ZAdd, Expire, Run
<1>2. /\ k \in Keys /\ rlKey(q)' = k /\ now'[q] = now[q]
      /\ q \notin swept /\ clock' \in {clock, clock + 1}
  BY <1>1, KeyType, RequestStep
<1>3. /\ clock \in Nat /\ Window \in Nat /\ now[q] \in Nat /\ now[q] <= clock
      /\ \A p \in Requests : now[p] \in Nat /\ now[p] <= clock
  BY ClockType, TimeType, Numbers
<1>4. clock < now[q] + Window
  BY <1>2, <1>3
<1>5. CASE ZAdd(q)
  <2>1. zset' = [zset EXCEPT ![k] = zset[k] \cup {now[q]}] /\ k \in DOMAIN zset
    BY <1>2, <1>5 DEF ZAdd, SetKey, TypeOK
  <2>2. now[q] \in zset'[k]
    BY <2>1
  <2>3. cmd'[q] = "expire"
    BY <1>5 DEF ZAdd, Run, TypeOK
  <2> QED BY <1>2, <2>2, <2>3
<1>6. CASE Expire(q)
  <2>1. now[q] \in zset[k] /\ zset' = zset
    BY <1>2, <1>4, <1>6 DEF Kept, Expire, Run
  <2>2. expiry'[k] = clock + Window
    BY <1>2, <1>6, <2>1 DEF Expire, TypeOK
  <2> QED BY <1>2, <1>3, <2>1, <2>2
<1>7. CASE ~ZAdd(q) /\ ~Expire(q)
  <2>1. cmd'[q] = cmd[q]
    BY <1>7, PipelineStep
  <2>2. /\ now[q] \in zset[k]
        /\ cmd[q] = "done" => now[q] + Window <= expiry[k]
    BY <1>2, <1>4, <2>1 DEF Kept
  <2>3. \A p \in Requests : now[q] > now[p] - Window
    BY <1>3, <1>4
  <2>4. ~(Tick /\ expiry[k] = clock + 1)
    <3> SUFFICES ASSUME Tick, expiry[k] = clock + 1 PROVE FALSE
      OBVIOUS
    <3>1. clock' = clock + 1 /\ cmd[q] # "expire"
      BY <1>2 DEF Tick
    <3> QED BY <1>2, <1>3, <2>1, <2>2, <3>1
  <2>5. now[q] \in zset'[k] /\ (expiry'[k] = expiry[k] \/ expiry'[k] = clock + Window)
    BY <1>2, <2>2, <2>3, <2>4, MemberStep
  <2> QED BY <1>2, <1>3, <2>1, <2>2, <2>5
<1> QED BY <1>5, <1>6, <1>7

(* Nobody joins the requests that were over before r came.                 *)
LEMMA BeforeStep ==
  ASSUME TypeOK, Judged, [Next]_vars, NEW r \in Requests, NEW q \in Requests,
         cmd[r] # "none", Before(q, r)'
  PROVE  Before(q, r) /\ now'[q] = now[q]
<1>1. rlKey(r)' = rlKey(r) /\ now'[r] = now[r] /\ q \notin swept
  BY RequestStep DEF Before
<1>2. ~Judge(q)
  <2> SUFFICES ASSUME Judge(q) PROVE FALSE
    OBVIOUS
  <2>1. answered'[q] = clock
    BY DEF Judge, TypeOK
  <2>2. answered'[q] < now'[r]
    BY DEF Before
  <2> QED BY <1>1, <2>1, <2>2, ClockType, TimeType
<1>3. verdict'[q] = verdict[q] /\ verdict[q] # "none"
  BY <1>2, VerdictStep DEF Before
<1>4. answered'[q] = answered[q]
  BY <1>3, RequestStep
<1>5. cmd[q] = "done"
  BY <1>3 DEF Before, Judged
<1>6. rlKey(q)' = rlKey(q) /\ now'[q] = now[q]
  BY <1>5, RequestStep
<1> QED BY <1>1, <1>3, <1>4, <1>5, <1>6 DEF Before

(* ZCARD counts all that is kept, and nobody is added to what it should.   *)
LEMMA CompleteStep ==
  TypeOK /\ Judged /\ Kept /\ CountComplete /\ [Next]_vars => CountComplete'
<1> SUFFICES ASSUME TypeOK, Judged, Kept, CountComplete, [Next]_vars,
                    NEW r \in Requests, NEW q \in Requests,
                    cmd'[r] \in {"zadd", "expire", "done"}, verdict'[r] = "none",
                    Before(q, r)', clock' < now'[q] + Window
             PROVE  now'[q] \in counted'[r]
  BY DEF CountComplete
<1>1. cmd[r] # "none" /\ verdict[r] = "none"
  BY PipelineStep, RequestStep DEF ZAdd, Expire, ZCard, Run
<1>2. Before(q, r) /\ now'[q] = now[q]
  BY <1>1, BeforeStep
<1>3. clock < now[q] + Window
  <2>1. clock' \in {clock, clock + 1} /\ clock \in Nat /\ now[q] \in Nat /\ Window \in Nat
    BY RequestStep, ClockType, TimeType, Numbers
  <2> QED BY <1>2, <2>1
<1>4. CASE ZCard(r)
  <2>1. now[q] \in zset[rlKey(q)] /\ rlKey(q) = rlKey(r)
    BY <1>2, <1>3 DEF Kept, Before
  <2> QED BY <1>2, <1>4, <2>1 DEF ZCard, TypeOK
<1>5. CASE ~ZCard(r)
  <2>1. cmd[r] \in {"zadd", "expire", "done"}
    BY <1>5, PipelineStep DEF ZAdd, Expire, Run
  <2>2. now[q] \in counted[r]
    BY <1>1, <1>2, <1>3, <2>1 DEF CountComplete
  <2>3. counted'[r] = counted[r]
    <3> USE DEF TypeOK
    <3>1. ASSUME NEW p \in Requests, Handle(p) PROVE counted'[r] = counted[r]
      BY <1>1, <3>1 DEF Handle, Bypass, Start, Judge, RedisError, Decide
    <3>2. ASSUME NEW p \in Requests, Pipeline(p) PROVE counted'[r] = counted[r]
      BY <1>5, <3>2 DEF Pipeline, ZRemRangeByScore, ZCard, ZAdd, Expire, Cut, Resend
    <3>3. CASE Tick \/ UNCHANGED vars
      BY <3>3 DEF Tick, vars
    <3> QED BY <3>1, <3>2, <3>3 DEF Next
  <2> QED BY <1>2, <2>2, <2>3
<1> QED BY <1>4, <1>5

(* The times of the requests that r should have counted.                   *)
RecentTimes(r) == {now[q] : q \in Recent(r)}

(* An admission is by a count that has them all.                           *)
LEMMA LimitStep ==
  TypeOK /\ Judged /\ CountComplete /\ LimitEnforced /\ [Next]_vars => LimitEnforced'
<1> SUFFICES ASSUME TypeOK, Judged, CountComplete, LimitEnforced, [Next]_vars,
                    NEW r \in Requests, verdict'[r] = "admitted"
             PROVE  Cardinality(RecentTimes(r)') < maxRequests[endpoint'[r]]
  BY DEF LimitEnforced, RecentTimes
<1> DEFINE limit == maxRequests[endpoint[r]]
<1>1. cmd[r] = "done" /\ endpoint'[r] = endpoint[r]
  BY VerdictStep, RequestStep DEF Judged, Judge
<1>2. limit \in Nat
  <2>1. endpoint[r] \in Endpoints
    BY DEF TypeOK
  <2> QED BY <2>1, RateLimiterAssumption
<1>3. ASSUME NEW q \in Recent(r)' PROVE q \in Requests /\ Before(q, r) /\ now'[q] = now[q]
  BY <1>1, <1>3, BeforeStep DEF Recent, Before
<1>4. clock \in Nat
  BY ClockType
<1>5. CASE verdict[r] = "admitted"
  <2>1. answered'[r] = answered[r]
    BY <1>5, RequestStep
  <2>2. ASSUME NEW q \in Recent(r)' PROVE q \in Recent(r)
    BY <1>3, <2>1, <2>2 DEF Recent, Before
  <2>3. RecentTimes(r)' \subseteq RecentTimes(r)
    BY <1>3, <2>2 DEF RecentTimes
  <2>4. RecentTimes(r) \in SUBSET (0..clock)
    BY DEF RecentTimes, Recent, TypeOK
  <2>5. Cardinality(RecentTimes(r)) < limit
    BY <1>5 DEF LimitEnforced, RecentTimes
  <2>6. /\ Cardinality(RecentTimes(r)') <= Cardinality(RecentTimes(r))
        /\ Cardinality(RecentTimes(r)') \in Nat /\ Cardinality(RecentTimes(r)) \in Nat
    BY <1>4, <2>3, <2>4, TimesFinite
  <2> QED BY <1>1, <1>2, <2>5, <2>6
<1>6. CASE verdict[r] # "admitted"
  <2>1. Judge(r)
    BY <1>6, VerdictStep
  <2>2. /\ answered'[r] = clock /\ verdict[r] = "none"
        /\ Cardinality(counted[r]) < limit
    <3>1. ~(Cardinality(counted[r]) >= limit)
      BY <2>1 DEF Judge, Decide, TypeOK
    <3>2. counted[r] \in SUBSET (0..clock)
      BY DEF TypeOK
    <3>3. Cardinality(counted[r]) \in Nat
      BY <1>4, <3>2, TimesFinite
    <3>4. Cardinality(counted[r]) < limit
      BY <1>2, <3>1, <3>3
    <3>5. answered'[r] = clock /\ verdict[r] = "none"
      BY <2>1 DEF Judge, Decide, TypeOK
    <3> QED BY <3>4, <3>5
  <2>3. ASSUME NEW q \in Recent(r)' PROVE now'[q] \in counted[r]
    <3>1. q \in Requests /\ Before(q, r) /\ now'[q] = now[q]
      BY <1>3, <2>3
    <3>2. clock < now[q] + Window
      BY <2>2, <2>3, <3>1 DEF Recent
    <3>3. now[q] \in counted[r]
      BY <1>1, <2>2, <3>1, <3>2 DEF CountComplete
    <3> QED BY <3>1, <3>3
  <2>4. RecentTimes(r)' \subseteq counted[r] /\ counted[r] \in SUBSET (0..clock)
    BY <2>3 DEF RecentTimes, TypeOK
  <2>5. /\ Cardinality(RecentTimes(r)') <= Cardinality(counted[r])
        /\ Cardinality(RecentTimes(r)') \in Nat /\ Cardinality(counted[r]) \in Nat
    BY <1>4, <2>4, TimesFinite
  <2> QED BY <1>1, <1>2, <2>2, <2>5
<1> QED BY <1>5, <1>6

(* The limit is kept against clients that wait for their answers, whatever *)
(* requests in flight, errors and expiring keys do to the set meanwhile.   *)
THEOREM LimitHolds == Spec => []LimitEnforced
<1>1. TypeOK /\ Judged /\ LimitInv /\ [Next]_vars => LimitInv'
  BY KeptStep, CompleteStep DEF LimitInv
<1>2. TypeOK /\ Judged /\ LimitInv /\ LimitEnforced /\ [Next]_vars => LimitEnforced'
  BY LimitStep DEF LimitInv
<1>3. Init => Judged
  BY InitReject DEF RejectInv
<1> QED BY <1>1, <1>2, <1>3, InitLimit, TypeCorrect, JudgedStep, PTL DEF Spec

=============================================================================
