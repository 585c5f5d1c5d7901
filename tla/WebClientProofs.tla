-------------------------- MODULE WebClientProofs --------------------------
(***************************************************************************)
(* Theorems about WebClient, for any numbers of sockets, timers and        *)
(* requests and any MAX_RECONNECT_ATTEMPTS.                                *)
(***************************************************************************)
EXTENDS WebClient, TLAPS

(* The page has no connection and no timer at first.                       *)
LEMMA InitType == Init => TypeOK /\ OneConnection
<1>1. 0 \in 0..MaxAttempts + 1
  BY WebClientAssumption
<1> QED BY <1>1 DEF Init, TypeOK, OneConnection

(* A new connection replaces the one the page had.                         *)
LEMMA ConnectType ==
  ASSUME TypeOK, OneConnection, ConnectWS
  PROVE  /\ ws' \in Sockets /\ auth' = "none"
         /\ readyState' \in [Sockets -> {"connecting", "open", "closing", "closed"}]
         /\ onclose' \in [Sockets -> BOOLEAN]
         /\ connectTimeout' \in [Sockets -> BOOLEAN]
         /\ OneConnection'
<1>1. PICK s \in Sockets :
        /\ ws' = s
        /\ onclose' = [t \in Sockets |-> t = s \/ (t # ws /\ onclose[t])]
        /\ readyState' = [t \in Sockets |-> IF t = s THEN "connecting"
                                            ELSE IF t = ws THEN "closed"
                                            ELSE readyState[t]]
        /\ connectTimeout' = [connectTimeout EXCEPT ![s] = TRUE]
        /\ auth' = "none"
  BY DEF ConnectWS
<1>2. onclose' \in [Sockets -> BOOLEAN]
  BY <1>1, Zenon DEF TypeOK
<1>3. /\ readyState' \in [Sockets -> {"connecting", "open", "closing", "closed"}]
      /\ OneConnection'
  BY <1>1 DEF TypeOK, OneConnection
<1> QED BY <1>1, <1>2, <1>3 DEF TypeOK

(* Counting an attempt keeps the counter in its range.                     *)
LEMMA ReconnectType ==
  ASSUME TypeOK, Reconnect
  PROVE  /\ attempts' \in 0..MaxAttempts + 1
         /\ pending' \subseteq Timers
         /\ reconnectTimer' \in Timers \cup {NoTimer}
<1>1. attempts \in Nat /\ attempts <= MaxAttempts + 1 /\ MaxAttempts \in Nat
  <2>1. attempts \in 0..MaxAttempts + 1
    BY DEF TypeOK
  <2> QED BY <2>1, WebClientAssumption
<1>2. attempts' = IF attempts > MaxAttempts THEN attempts ELSE attempts + 1
  BY DEF Reconnect
<1>3. attempts' \in 0..MaxAttempts + 1
  BY <1>1, <1>2
<1>4. pending' \subseteq Timers /\ reconnectTimer' \in Timers \cup {NoTimer}
  BY DEF Reconnect, TypeOK
<1> QED BY <1>3, <1>4

(* Every step keeps the types, and the page to one connection.             *)
LEMMA NextType == TypeOK /\ OneConnection /\ [Next]_vars => TypeOK' /\ OneConnection'
<1> SUFFICES ASSUME TypeOK, OneConnection, [Next]_vars PROVE TypeOK' /\ OneConnection'
  OBVIOUS
<1> USE DEF TypeOK, socketVars, timerVars, historyVars
<1>0. 0 \in 0..MaxAttempts + 1
  BY WebClientAssumption
<1>1. ASSUME NEW s \in Sockets, TimeoutFires(s) PROVE TypeOK' /\ OneConnection'
  BY <1>1 DEF TimeoutFires, OneConnection
<1>2. ASSUME NEW s \in Sockets, Open(s) PROVE TypeOK' /\ OneConnection'
  <2>1. s = ws
    BY <1>2 DEF Open, OneConnection
  <2> QED BY <1>0, <1>2, <2>1, WebClientAssumption DEF Open, OneConnection
<1>3. ASSUME NEW s \in Sockets, Close(s) PROVE TypeOK' /\ OneConnection'
  <2>1. /\ attempts' \in 0..MaxAttempts + 1
        /\ pending' \subseteq Timers
        /\ reconnectTimer' \in Timers \cup {NoTimer}
    BY <1>3, ReconnectType DEF Close
  <2>2. connectTimeout' \in [Sockets -> BOOLEAN]
    BY <1>3, Zenon DEF Close, Ended
  <2>3. /\ readyState' \in [Sockets -> {"connecting", "open", "closing", "closed"}]
        /\ auth' \in {"none", "sent", "authed", "refused"}
        /\ (auth' # "none") => (ws # NoSocket /\ readyState'[ws] \in {"open", "closing"})
        /\ OneConnection'
        /\ UNCHANGED <<ws, onclose>>
    BY <1>3, WebClientAssumption DEF Close, Ended, OneConnection
  <2>4. UNCHANGED <<selfId, login, serving, quiet, crossed>>
    BY <1>3 DEF Close
  <2> QED BY <2>1, <2>2, <2>3, <2>4
<1>4. CASE Authed \/ Refused
  BY <1>4 DEF Authed, Refused, OneConnection
<1>5. ASSUME NEW t \in Timers, TimerFires(t) PROVE TypeOK' /\ OneConnection'
  <2>1. /\ crossed' \in BOOLEAN /\ pending' \subseteq Timers
        /\ UNCHANGED <<attempts, reconnectTimer, selfId, login, serving, quiet>>
    BY <1>5 DEF TimerFires
  <2>2. CASE ConnectWS
    BY <2>1, <2>2, ConnectType
  <2>3. CASE UNCHANGED socketVars
    BY <2>1, <2>3 DEF OneConnection
  <2> QED BY <1>5, <2>2, <2>3 DEF TimerFires
<1>6. ASSUME NEW r \in Requests, Submit(r) PROVE TypeOK' /\ OneConnection'
  BY <1>6 DEF Submit, OneConnection
<1>7. ASSUME NEW r \in Requests, LoginAnswered(r) PROVE TypeOK' /\ OneConnection'
  <2>1. /\ crossed' \in BOOLEAN /\ login' \subseteq Requests
        /\ UNCHANGED <<timerVars, selfId, serving, quiet>>
    BY <1>7 DEF LoginAnswered
  <2>2. CASE ConnectWS
    BY <2>1, <2>2, ConnectType
  <2>3. CASE UNCHANGED socketVars
    BY <2>1, <2>3 DEF OneConnection
  <2> QED BY <1>7, <2>2, <2>3 DEF LoginAnswered
<1>8. CASE Logout
  <2>1. onclose' \in [Sockets -> BOOLEAN] /\ crossed' \in BOOLEAN /\ quiet' \in BOOLEAN
    BY <1>8, Zenon DEF Logout
  <2>2. /\ readyState' \in [Sockets -> {"connecting", "open", "closing", "closed"}]
        /\ OneConnection' /\ ws' = NoSocket /\ auth' = "none"
    BY <1>8 DEF Logout, OneConnection
  <2> QED BY <1>0, <1>8, <2>1, <2>2 DEF Logout
<1>9. CASE ServerChanges \/ UNCHANGED vars
  BY <1>9 DEF ServerChanges, vars, OneConnection
<1> QED BY <1>1, <1>2, <1>3, <1>4, <1>5, <1>6, <1>7, <1>8, <1>9 DEF Next

(* Types; and an "auth" is under way on an open connection only.           *)
THEOREM TypeCorrect == Spec => []TypeOK
<1>1. Spec => [](TypeOK /\ OneConnection)
  BY InitType, NextType, PTL DEF Spec
<1> QED BY <1>1, PTL

(* The page never has two connections to the server.                       *)
THEOREM ConnectionUnique == Spec => []OneConnection
<1>1. Spec => [](TypeOK /\ OneConnection)
  BY InitType, NextType, PTL DEF Spec
<1> QED BY <1>1, PTL

-----------------------------------------------------------------------------
(* After a logout.                                                         *)

(* What a quiet page lacks: a user, and a login that could bring one.      *)
QuietInv == QuietAfterLogout /\ (quiet => ~selfId /\ login = {})

(* Without a connecting socket nothing opens, without an open one nobody   *)
(* is authenticated, without a user no timer connects.                     *)
LEMMA QuietStep == TypeOK /\ OneConnection /\ QuietInv /\ [Next]_vars => QuietInv'
<1> SUFFICES ASSUME TypeOK, OneConnection, QuietInv, [Next]_vars PROVE QuietInv'
  OBVIOUS
<1> USE DEF TypeOK, QuietInv, QuietAfterLogout, socketVars, timerVars, historyVars
<1>1. ASSUME NEW s \in Sockets, TimeoutFires(s) \/ Open(s) \/ Close(s) PROVE QuietInv'
  <2>1. CASE TimeoutFires(s)
    BY <2>1 DEF TimeoutFires
  <2>2. CASE Open(s)
    BY <2>2 DEF Open
  <2>3. CASE Close(s)
    BY <2>3 DEF Close, Ended
  <2> QED BY <1>1, <2>1, <2>2, <2>3
<1>2. CASE Authed \/ Refused
  BY <1>2, WebClientAssumption DEF Authed, Refused
<1>3. ASSUME NEW t \in Timers, TimerFires(t) PROVE QuietInv'
  BY <1>3 DEF TimerFires
<1>4. ASSUME NEW r \in Requests, Submit(r) \/ LoginAnswered(r) PROVE QuietInv'
  BY <1>4 DEF Submit, LoginAnswered
<1>5. CASE Logout
  <2>1. \A s \in Sockets : readyState'[s] \notin {"connecting", "open"}
    BY <1>5 DEF Logout, OneConnection
  <2> QED BY <1>5, <2>1 DEF Logout
<1>6. CASE ServerChanges \/ UNCHANGED vars
  BY <1>6 DEF ServerChanges, vars
<1> QED BY <1>1, <1>2, <1>3, <1>4, <1>5, <1>6 DEF Next

(* After logging out with no login under way the page stays without a      *)
(* connection until the next login.                                        *)
THEOREM LogoutIsQuiet == Spec => []QuietAfterLogout
<1>1. Init => QuietInv
  BY DEF Init, QuietInv, QuietAfterLogout
<1>2. Spec => [](TypeOK /\ OneConnection)
  BY TypeCorrect, ConnectionUnique, PTL
<1>3. QuietInv => QuietAfterLogout
  BY DEF QuietInv
<1> QED BY <1>1, <1>2, <1>3, QuietStep, PTL DEF Spec

-----------------------------------------------------------------------------
(* While a connection is accepted.                                         *)

(* Only the page's socket has a close handler.                             *)
HandlerOfWs == \A s \in Sockets : onclose[s] => s = ws

(* An authentication is that of an open connection.                        *)
OpenWhileAuth == auth # "none" => readyState[ws] = "open"

(* The page has no socket, or one that ended.                              *)
NoConnection == ws = NoSocket \/ readyState[ws] = "closed"

(* Without a login in between there is one reconnect timer at most, the    *)
(* one the page remembers, and it waits for a page without a connection.   *)
TimerWaits == ~crossed /\ pending # {} => NoConnection /\ pending = {reconnectTimer}

HealthyInv == HandlerOfWs /\ OpenWhileAuth /\ TimerWaits

(* What a new connection does to the three.                                *)
LEMMA ConnectHealthy ==
  ASSUME TypeOK, HandlerOfWs, ConnectWS
  PROVE  HandlerOfWs' /\ OpenWhileAuth'
<1>1. PICK s \in Sockets :
        /\ ws' = s /\ auth' = "none"
        /\ onclose' = [t \in Sockets |-> t = s \/ (t # ws /\ onclose[t])]
  BY DEF ConnectWS
<1>2. ASSUME NEW t \in Sockets, onclose'[t] PROVE t = ws'
  <2>1. t = s \/ (t # ws /\ onclose[t])
    BY <1>1, <1>2, Zenon
  <2> QED BY <1>1, <2>1 DEF HandlerOfWs
<1> QED BY <1>1, <1>2 DEF HandlerOfWs, OpenWhileAuth

(* No step leaves an accepted connection to a timeout or a timer.          *)
LEMMA HealthyStep ==
  TypeOK /\ OneConnection /\ HealthyInv /\ [Next]_vars => HealthyInv'
<1> SUFFICES ASSUME TypeOK, OneConnection, HealthyInv, [Next]_vars PROVE HealthyInv'
  OBVIOUS
<1> USE DEF TypeOK, HealthyInv, NoConnection, socketVars, timerVars, historyVars
<1> USE WebClientAssumption
<1>1. ASSUME NEW s \in Sockets, TimeoutFires(s) PROVE HealthyInv'
  BY <1>1 DEF TimeoutFires, HandlerOfWs, OpenWhileAuth, TimerWaits
<1>2. ASSUME NEW s \in Sockets, Open(s) PROVE HealthyInv'
  <2>1. s = ws /\ readyState'[ws] = "open"
    BY <1>2 DEF Open, OneConnection
  <2> QED BY <1>2, <2>1 DEF Open, HandlerOfWs, OpenWhileAuth, TimerWaits
<1>3. ASSUME NEW s \in Sockets, Close(s) PROVE HealthyInv'
  <2>1. HandlerOfWs' /\ OpenWhileAuth'
    BY <1>3 DEF Close, Ended, HandlerOfWs, OpenWhileAuth
  <2>2. CASE UNCHANGED timerVars
    <3>1. NoConnection => NoConnection'
      BY <1>3 DEF Close, Ended
    <3>2. UNCHANGED <<crossed, pending, reconnectTimer>>
      BY <1>3, <2>2 DEF Close
    <3>3. TimerWaits'
      <4> HIDE DEF NoConnection
      <4> QED BY <3>1, <3>2 DEF TimerWaits
    <3> QED BY <2>1, <3>3
  <2>3. CASE onclose[s] /\ Reconnect
    <3>1. s = ws /\ readyState'[ws'] = "closed"
      BY <1>3, <2>3 DEF Close, Ended, HandlerOfWs
    <3>2. readyState[ws] # "closed" /\ ws # NoSocket /\ crossed' = crossed
      BY <1>3, <3>1 DEF Close
    <3>3. ~crossed => pending = {}
      BY <3>2 DEF TimerWaits
    <3>4. pending' = pending \/ pending' = pending \cup {reconnectTimer'}
      BY <2>3 DEF Reconnect
    <3>5. TimerWaits'
      BY <3>1, <3>2, <3>3, <3>4 DEF TimerWaits
    <3> QED BY <2>1, <3>5
  <2> QED BY <1>3, <2>1, <2>2, <2>3 DEF Close
<1>4. CASE Authed \/ Refused
  BY <1>4 DEF Authed, Refused, HandlerOfWs, OpenWhileAuth, TimerWaits
<1>5. ASSUME NEW t \in Timers, TimerFires(t) PROVE HealthyInv'
  <2>1. HandlerOfWs' /\ OpenWhileAuth'
    BY <1>5, ConnectHealthy DEF TimerFires, HandlerOfWs, OpenWhileAuth
  <2>2. ~crossed' => pending' = {}
    BY <1>5 DEF TimerFires, TimerWaits
  <2> QED BY <2>1, <2>2 DEF TimerWaits
<1>6. ASSUME NEW r \in Requests, Submit(r) PROVE HealthyInv'
  BY <1>6 DEF Submit, HandlerOfWs, OpenWhileAuth, TimerWaits
<1>7. ASSUME NEW r \in Requests, LoginAnswered(r) PROVE HealthyInv'
  <2>1. HandlerOfWs' /\ OpenWhileAuth'
    BY <1>7, ConnectHealthy DEF LoginAnswered, HandlerOfWs, OpenWhileAuth
  <2>2. TimerWaits'
    <3>1. UNCHANGED <<pending, reconnectTimer>>
      BY <1>7 DEF LoginAnswered
    <3>2. CASE crossed' = (crossed \/ pending # {})
      BY <3>1, <3>2 DEF TimerWaits
    <3>3. CASE UNCHANGED <<socketVars, crossed>>
      BY <3>1, <3>3 DEF TimerWaits
    <3> QED BY <1>7, <3>2, <3>3 DEF LoginAnswered
  <2> QED BY <2>1, <2>2
<1>8. CASE Logout
  <2>1. HandlerOfWs'
    <3>1. ASSUME NEW s \in Sockets, onclose'[s] PROVE FALSE
      <4>1. s # ws /\ onclose[s]
        BY <1>8, <3>1, Zenon DEF Logout
      <4> QED BY <4>1 DEF HandlerOfWs
    <3> QED BY <3>1 DEF HandlerOfWs
  <2>2. OpenWhileAuth' /\ TimerWaits'
    BY <1>8 DEF Logout, OpenWhileAuth, TimerWaits
  <2> QED BY <2>1, <2>2
<1>9. CASE ServerChanges \/ UNCHANGED vars
  BY <1>9 DEF ServerChanges, vars, HandlerOfWs, OpenWhileAuth, TimerWaits
<1> QED BY <1>1, <1>2, <1>3, <1>4, <1>5, <1>6, <1>7, <1>8, <1>9 DEF Next

(* A step that ends an accepted connection.                                *)
HealthyEnd ==
  auth = "authed" /\ auth' # "authed" =>
    ~serving \/ ~selfId' \/ login' # login \/ crossed

(* So an accepted connection ends only as HealthyKept says.                *)
LEMMA KeptStep == TypeOK /\ OneConnection /\ HealthyInv /\ [Next]_vars => HealthyEnd
<1> SUFFICES ASSUME TypeOK, OneConnection, HealthyInv, [Next]_vars,
                    auth = "authed", auth' # "authed"
             PROVE  ~serving \/ ~selfId' \/ login' # login \/ crossed
  BY DEF HealthyEnd
<1> USE DEF TypeOK, HealthyInv, NoConnection, OpenWhileAuth, socketVars, timerVars, historyVars
<1>1. ASSUME NEW s \in Sockets, TimeoutFires(s) PROVE FALSE
  BY <1>1 DEF TimeoutFires
<1>2. ASSUME NEW s \in Sockets, Open(s) PROVE FALSE
  BY <1>2 DEF Open, OneConnection
<1>3. ASSUME NEW s \in Sockets, Close(s) PROVE ~serving
  BY <1>3 DEF Close, Ended
<1>4. CASE Authed \/ Refused
  BY <1>4 DEF Authed, Refused
<1>5. ASSUME NEW t \in Timers, TimerFires(t) PROVE crossed
  BY <1>5 DEF TimerFires, TimerWaits
<1>6. ASSUME NEW r \in Requests, Submit(r) \/ LoginAnswered(r) PROVE login' # login
  BY <1>6 DEF Submit, LoginAnswered
<1>7. CASE Logout
  BY <1>7 DEF Logout
<1>8. CASE ServerChanges \/ UNCHANGED vars
  BY <1>8 DEF ServerChanges, vars
<1> QED BY <1>1, <1>2, <1>3, <1>4, <1>5, <1>6, <1>7, <1>8 DEF Next

(* A connection the server has accepted lasts until the connection is      *)
(* lost, the user logs out or a login connects, unless a login has         *)
(* overtaken a reconnect timer.                                            *)
THEOREM HealthyHolds == Spec => HealthyKept
<1>1. Init => HealthyInv
  BY DEF Init, HealthyInv, HandlerOfWs, OpenWhileAuth, TimerWaits
<1>2. Spec => [](TypeOK /\ OneConnection)
  BY TypeCorrect, ConnectionUnique, PTL
<1>3. TypeOK /\ OneConnection /\ HealthyInv /\ [Next]_vars => [HealthyEnd]_vars
  BY KeptStep
<1>4. Spec => [][HealthyEnd]_vars
  BY <1>1, <1>2, <1>3, HealthyStep, PTL DEF Spec
<1> QED BY <1>4 DEF HealthyKept, HealthyEnd

-----------------------------------------------------------------------------
(* What a page that is logged in waits for.                                *)

(* The page's socket keeps its handler until it has ended.                 *)
WsHandled == \A s \in Sockets : s = ws /\ readyState[s] # "closed" => onclose[s]

(* A socket that connects can time out, an open one was sent "auth".       *)
NoneHangs ==
  \A s \in Sockets :
    /\ readyState[s] = "connecting" => connectTimeout[s]
    /\ readyState[s] = "open" => auth # "none"

StrandInv == HandlerOfWs /\ WsHandled /\ NoneHangs /\ NeverStranded

(* A new connection is all a page needs.                                   *)
LEMMA ConnectAwaits ==
  ASSUME TypeOK, OneConnection, HandlerOfWs, WsHandled, NoneHangs, ConnectWS
  PROVE  WsHandled' /\ NoneHangs' /\ Awaiting'
<1>1. PICK s \in Sockets :
        /\ ws' = s /\ auth' = "none"
        /\ onclose' = [t \in Sockets |-> t = s \/ (t # ws /\ onclose[t])]
        /\ readyState' = [t \in Sockets |-> IF t = s THEN "connecting"
                                            ELSE IF t = ws THEN "closed"
                                            ELSE readyState[t]]
        /\ connectTimeout' = [connectTimeout EXCEPT ![s] = TRUE]
  BY DEF ConnectWS
<1>2. onclose'[s]
  BY <1>1, Zenon
<1>3. /\ readyState'[s] = "connecting" /\ connectTimeout'[s]
      /\ \A t \in Sockets \ {s} : readyState'[t] \notin {"connecting", "open"}
  BY <1>1 DEF TypeOK, OneConnection
<1> QED BY <1>1, <1>2, <1>3, WebClientAssumption DEF WsHandled, NoneHangs, Awaiting

(* A step that leaves the sockets alone, and no timer fires.               *)
LEMMA SocketsStay ==
  ASSUME StrandInv, UNCHANGED <<socketVars, attempts>>, pending \subseteq pending', selfId' => selfId
  PROVE  StrandInv'
BY DEF StrandInv, HandlerOfWs, WsHandled, NoneHangs, NeverStranded, Awaiting, GaveUp, socketVars

(* Whoever ends a connection leaves something that starts the next one.    *)
LEMMA StrandStep == TypeOK /\ OneConnection /\ StrandInv /\ [Next]_vars => StrandInv'
<1> SUFFICES ASSUME TypeOK, OneConnection, StrandInv, [Next]_vars PROVE StrandInv'
  OBVIOUS
<1> USE DEF TypeOK, StrandInv, timerVars, historyVars
<1> USE WebClientAssumption
<1>1. ASSUME NEW s \in Sockets, TimeoutFires(s) PROVE StrandInv'
  BY <1>1 DEF TimeoutFires, OneConnection, HandlerOfWs, WsHandled, NoneHangs, NeverStranded, Awaiting, GaveUp
<1>2. ASSUME NEW s \in Sockets, Open(s) PROVE StrandInv'
  <2>1. s = ws /\ onclose[ws]
    BY <1>2 DEF Open, OneConnection, WsHandled
  <2>2. HandlerOfWs' /\ WsHandled' /\ NoneHangs'
    BY <1>2, <2>1 DEF Open, HandlerOfWs, WsHandled, NoneHangs
  <2>3. Awaiting'
    BY <1>2, <2>1 DEF Open, Awaiting
  <2> QED BY <2>2, <2>3 DEF NeverStranded
<1>3. ASSUME NEW s \in Sockets, Close(s) PROVE StrandInv'
  <2>1. /\ readyState' = [readyState EXCEPT ![s] = "closed"] /\ UNCHANGED <<ws, onclose, selfId>>
        /\ connectTimeout' = [connectTimeout EXCEPT ![s] = @ /\ ~onclose[s]]
        /\ s # ws => auth' = auth
    BY <1>3 DEF Close, Ended
  <2>2. HandlerOfWs' /\ WsHandled' /\ NoneHangs'
    BY <2>1 DEF HandlerOfWs, WsHandled, NoneHangs, OneConnection
  <2>3. CASE s = ws
    <3>1. onclose[s]
      BY <1>3, <2>3 DEF Close, WsHandled
    <3>2. selfId => pending' # {} \/ attempts' > MaxAttempts
      BY <1>3, <3>1 DEF Close, Reconnect
    <3> QED BY <2>1, <2>2, <3>2 DEF NeverStranded, Awaiting, GaveUp
  <2>4. CASE s # ws
    <3>1. UNCHANGED timerVars
      BY <1>3, <2>4 DEF Close, HandlerOfWs
    <3>2. Awaiting => Awaiting'
      BY <2>1, <2>4, <3>1 DEF Awaiting
    <3> QED BY <2>1, <2>2, <3>1, <3>2 DEF NeverStranded, GaveUp
  <2> QED BY <2>3, <2>4
<1>4. CASE Authed \/ Refused
  <2>1. onclose[ws] /\ ws # NoSocket /\ readyState[ws] = "open"
    BY <1>4 DEF Authed, Refused, WsHandled
  <2>2. Awaiting'
    BY <1>4, <2>1 DEF Authed, Refused, Awaiting
  <2>3. HandlerOfWs' /\ WsHandled' /\ NoneHangs'
    BY <1>4 DEF Authed, Refused, HandlerOfWs, WsHandled, NoneHangs
  <2> QED BY <2>2, <2>3 DEF NeverStranded
<1>5. ASSUME NEW t \in Timers, TimerFires(t) PROVE StrandInv'
  <2>1. CASE ConnectWS
    BY <2>1, ConnectHealthy, ConnectAwaits DEF NeverStranded
  <2>2. CASE ~selfId /\ UNCHANGED socketVars
    BY <1>5, <2>2 DEF TimerFires, socketVars, HandlerOfWs, WsHandled, NoneHangs, NeverStranded
  <2> QED BY <1>5, <2>1, <2>2 DEF TimerFires
<1>6. ASSUME NEW r \in Requests, Submit(r) PROVE StrandInv'
  BY <1>6, SocketsStay DEF Submit
<1>7. ASSUME NEW r \in Requests, LoginAnswered(r) PROVE StrandInv'
  <2>1. CASE ConnectWS
    BY <2>1, ConnectHealthy, ConnectAwaits DEF NeverStranded
  <2>2. CASE UNCHANGED socketVars
    BY <1>7, <2>2, SocketsStay DEF LoginAnswered
  <2> QED BY <1>7, <2>1, <2>2 DEF LoginAnswered
<1>8. CASE Logout
  <2>1. ASSUME NEW s \in Sockets, onclose'[s] PROVE FALSE
    <3>1. s # ws /\ onclose[s]
      BY <1>8, <2>1, Zenon DEF Logout
    <3> QED BY <3>1 DEF HandlerOfWs
  <2>2. ws' = NoSocket /\ ~selfId' /\ connectTimeout' = connectTimeout
    BY <1>8 DEF Logout
  <2>3. \A s \in Sockets : readyState'[s] \notin {"connecting", "open"}
    BY <1>8 DEF Logout, OneConnection
  <2> QED BY <2>1, <2>2, <2>3 DEF HandlerOfWs, WsHandled, NoneHangs, NeverStranded
<1>9. CASE ServerChanges \/ UNCHANGED vars
  BY <1>9, SocketsStay DEF ServerChanges, vars
<1> QED BY <1>1, <1>2, <1>3, <1>4, <1>5, <1>6, <1>7, <1>8, <1>9 DEF Next

(* A page that is logged in has a connection or an event to come that      *)
(* leads to its next one, unless it has used up its attempts.              *)
THEOREM NotStranded == Spec => []NeverStranded
<1>1. Init => StrandInv
  BY WebClientAssumption DEF Init, StrandInv, HandlerOfWs, WsHandled, NoneHangs, NeverStranded
<1>2. Spec => [](TypeOK /\ OneConnection)
  BY TypeCorrect, ConnectionUnique, PTL
<1>3. StrandInv => NeverStranded
  BY DEF StrandInv
<1> QED BY <1>1, <1>2, <1>3, StrandStep, PTL DEF Spec
=============================================================================
