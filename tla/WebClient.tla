------------------------------ MODULE WebClient ------------------------------
(***************************************************************************)
(* The connection of the web page (web/app.js): logging in, connectWS with *)
(* its connect timeout, reconnection with its attempt counter, logging     *)
(* out.  Every action is one task of the page's event loop.                *)
(*                                                                         *)
(* Callbacks close over the page's variables, not over the connection that *)
(* created them: a timer or a login answer of an earlier connection acts   *)
(* on whatever `ws` is when it runs.  Credentials are not told apart; the  *)
(* answer to "auth" is a choice of the server.                             *)
(***************************************************************************)
EXTENDS Naturals, FiniteSets

CONSTANTS
  Sockets,      (* WebSocket objects; bounds how many the page still refers to *)
  NoSocket,     (* null                                                        *)
  Timers,       (* reconnect timers; bounds how many are pending               *)
  NoTimer,      (* null                                                        *)
  Requests,     (* requests to /api/login; bounds how many are pending         *)
  MaxAttempts   (* MAX_RECONNECT_ATTEMPTS: 10                                  *)

ASSUME WebClientAssumption ==
  /\ NoSocket \notin Sockets
  /\ NoTimer \notin Timers
  /\ MaxAttempts \in Nat

VARIABLES
  ws,             (* the page's connection                                     *)
  readyState,     (* of every socket; "closed" also before it is created       *)
  onclose,        (* whether the socket still has its close handler            *)
  connectTimeout, (* whether the socket's 10 s timeout is pending              *)
  auth,           (* of `ws`: the frame "auth" and its answer                  *)
  selfId,         (* the page is logged in                                     *)
  attempts,       (* reconnectAttempts                                         *)
  pending,        (* the reconnect timers that have not fired                  *)
  reconnectTimer, (* the timer the page remembers                              *)
  login,          (* the requests to /api/login that have not been answered    *)
  serving,        (* the server can be reached and keeps its connections       *)
  quiet,          (* history: logged out with no login under way               *)
  crossed         (* history: a login connected with reconnect timers pending  *)

socketVars == <<ws, readyState, onclose, connectTimeout, auth>>
timerVars == <<attempts, pending, reconnectTimer>>
historyVars == <<quiet, crossed>>
vars == <<socketVars, timerVars, selfId, login, serving, historyVars>>

TypeOK ==
  /\ ws \in Sockets \cup {NoSocket}
  /\ readyState \in [Sockets -> {"connecting", "open", "closing", "closed"}]
  /\ onclose \in [Sockets -> BOOLEAN]
  /\ connectTimeout \in [Sockets -> BOOLEAN]
  /\ auth \in {"none", "sent", "authed", "refused"}
  /\ (auth # "none") => (ws # NoSocket /\ readyState[ws] \in {"open", "closing"})
  /\ selfId \in BOOLEAN
  /\ attempts \in 0..MaxAttempts + 1
  /\ pending \subseteq Timers
  /\ reconnectTimer \in Timers \cup {NoTimer}
  /\ login \subseteq Requests
  /\ serving \in BOOLEAN
  /\ quiet \in BOOLEAN /\ crossed \in BOOLEAN

Init ==
  /\ ws = NoSocket
  /\ readyState = [s \in Sockets |-> "closed"]
  /\ onclose = [s \in Sockets |-> FALSE]
  /\ connectTimeout = [s \in Sockets |-> FALSE]
  /\ auth = "none"
  /\ selfId = FALSE
  /\ attempts = 0 /\ pending = {} /\ reconnectTimer = NoTimer
  /\ login = {}
  /\ serving \in BOOLEAN
  /\ quiet = FALSE /\ crossed = FALSE

-----------------------------------------------------------------------------
(* connectWS.                                                              *)

(* A new WebSocket is none the page or a timeout still refers to.          *)
NewSocket(s) ==
  /\ s # ws
  /\ readyState[s] = "closed"
  /\ ~connectTimeout[s]

(* Mutant: the connection the page has is left alone.                      *)
ConnectWS_KeepsOld ==
  \E s \in Sockets :
    /\ NewSocket(s)
    /\ ws' = s
    /\ onclose' = [onclose EXCEPT ![s] = TRUE]
    /\ readyState' = [readyState EXCEPT ![s] = "connecting"]
    /\ connectTimeout' = [connectTimeout EXCEPT ![s] = TRUE]
    /\ auth' = "none"

(* The old connection is closed without its handler, a new one begins.     *)
(* The old one's connect timeout goes on.                                  *)
ConnectWS ==
  \E s \in Sockets :
    /\ NewSocket(s)
    /\ ws' = s
    /\ onclose' = [t \in Sockets |-> t = s \/ (t # ws /\ onclose[t])]
    /\ readyState' = [t \in Sockets |-> IF t = s THEN "connecting"
                                        ELSE IF t = ws THEN "closed"
                                        ELSE readyState[t]]
    /\ connectTimeout' = [connectTimeout EXCEPT ![s] = TRUE]
    /\ auth' = "none"

(* Mutant: the timeout takes the handler off the socket it closes, as      *)
(* connectWS does.                                                         *)
TimeoutFires_NoHandler(s) ==
  /\ connectTimeout[s]
  /\ connectTimeout' = [connectTimeout EXCEPT ![s] = FALSE]
  /\ readyState' = [t \in Sockets |-> IF t = ws /\ readyState[t] = "connecting"
                                      THEN "closing" ELSE readyState[t]]
  /\ onclose' = [t \in Sockets |-> onclose[t] /\ ~(t = ws /\ readyState[t] = "connecting")]
  /\ UNCHANGED <<ws, auth, timerVars, selfId, login, serving, historyVars>>

(* The connect timeout of socket s runs: it looks at `ws`.                 *)
TimeoutFires(s) ==
  /\ connectTimeout[s]
  /\ connectTimeout' = [connectTimeout EXCEPT ![s] = FALSE]
  /\ readyState' = [t \in Sockets |-> IF t = ws /\ readyState[t] = "connecting"
                                      THEN "closing" ELSE readyState[t]]
  /\ UNCHANGED <<ws, onclose, auth, timerVars, selfId, login, serving, historyVars>>

(* onopen: the timeout is off, the attempts are forgotten, "auth" is sent. *)
Open(s) ==
  /\ serving
  /\ readyState[s] = "connecting"
  /\ readyState' = [readyState EXCEPT ![s] = "open"]
  /\ connectTimeout' = [connectTimeout EXCEPT ![s] = FALSE]
  /\ attempts' = 0
  /\ auth' = "sent"
  /\ UNCHANGED <<ws, onclose, pending, reconnectTimer, selfId, login, serving, historyVars>>

(* "authed": the page is logged in.                                        *)
Authed ==
  /\ auth = "sent"
  /\ readyState[ws] = "open"
  /\ auth' = "authed"
  /\ selfId' = TRUE
  /\ UNCHANGED <<ws, readyState, onclose, connectTimeout, timerVars, login, serving, historyVars>>

(* "error": it is displayed, the connection stays open.                    *)
Refused ==
  /\ auth = "sent"
  /\ readyState[ws] = "open"
  /\ auth' = "refused"
  /\ UNCHANGED <<ws, readyState, onclose, connectTimeout, timerVars, selfId,
                 login, serving, historyVars>>

(* The socket of a connection that ended; its timeout if the handler ran.  *)
Ended(s) ==
  /\ readyState' = [readyState EXCEPT ![s] = "closed"]
  /\ connectTimeout' = [connectTimeout EXCEPT ![s] = @ /\ ~onclose[s]]
  /\ auth' = IF s = ws THEN "none" ELSE auth
  /\ UNCHANGED <<ws, onclose>>

(* Mutant: a page that has had a timer sets no other (the variable is not  *)
(* reset when the timer fires).                                            *)
Reconnect_Once ==
  /\ attempts' = IF attempts > MaxAttempts THEN attempts ELSE attempts + 1
  /\ \/ /\ attempts' > MaxAttempts \/ reconnectTimer # NoTimer
        /\ UNCHANGED <<pending, reconnectTimer>>
     \/ /\ attempts' <= MaxAttempts /\ reconnectTimer = NoTimer
        /\ \E t \in Timers \ pending :
             /\ reconnectTimer' = t
             /\ pending' = pending \cup {t}

(* Mutant: the attempts are counted and not compared.                      *)
Reconnect_NoLimit ==
  /\ attempts' = attempts + 1
  /\ \E t \in Timers \ pending :
       /\ reconnectTimer' = t
       /\ pending' = pending \cup {t}

(* One more attempt after the backoff, or none if there were too many (the *)
(* counter stays where that is known).                                     *)
Reconnect ==
  /\ attempts' = IF attempts > MaxAttempts THEN attempts ELSE attempts + 1
  /\ \/ attempts' > MaxAttempts /\ UNCHANGED <<pending, reconnectTimer>>
     \/ /\ attempts' <= MaxAttempts
        /\ \E t \in Timers \ pending :
             /\ reconnectTimer' = t
             /\ pending' = pending \cup {t}

(* The close event.  The server closes with no code the page knows, so the *)
(* handler goes by selfId alone.                                           *)
Close(s) ==
  /\ \/ readyState[s] = "closing"
     \/ readyState[s] \in {"connecting", "open"} /\ ~serving
  /\ Ended(s)
  /\ \/ onclose[s] /\ selfId /\ Reconnect
     \/ ~(onclose[s] /\ selfId) /\ UNCHANGED timerVars
  /\ UNCHANGED <<selfId, login, serving, historyVars>>

(* Mutant: the callback of the timer does not look at selfId.              *)
TimerFires_Always(t) ==
  /\ t \in pending
  /\ pending' = pending \ {t}
  /\ ConnectWS
  /\ crossed' = (crossed /\ pending' # {})
  /\ UNCHANGED <<attempts, reconnectTimer, selfId, login, serving, quiet>>

(* A reconnect timer.                                                      *)
TimerFires(t) ==
  /\ t \in pending
  /\ pending' = pending \ {t}
  /\ \/ selfId /\ ConnectWS
     \/ ~selfId /\ UNCHANGED socketVars
  /\ crossed' = (crossed /\ pending' # {})
  /\ UNCHANGED <<attempts, reconnectTimer, selfId, login, serving, quiet>>

-----------------------------------------------------------------------------
(* The user.                                                               *)

(* The login form, which the page shows while nobody is logged in.         *)
Submit(r) ==
  /\ ~selfId
  /\ r \notin login
  /\ login' = login \cup {r}
  /\ quiet' = FALSE
  /\ UNCHANGED <<socketVars, timerVars, selfId, serving, crossed>>

(* The answer: refused, or a token, or no auth service to ask.             *)
LoginAnswered(r) ==
  /\ r \in login
  /\ login' = login \ {r}
  /\ \/ ConnectWS /\ crossed' = (crossed \/ pending # {})
     \/ UNCHANGED <<socketVars, crossed>>
  /\ UNCHANGED <<timerVars, selfId, serving, quiet>>

(* Mutant: logging out closes the connection and leaves its handler.       *)
Logout_KeepsHandler ==
  /\ selfId
  /\ pending' = pending \ {reconnectTimer}
  /\ attempts' = 0
  /\ ws' = NoSocket
  /\ readyState' = [s \in Sockets |-> IF s = ws /\ readyState[s] # "closed"
                                      THEN "closing" ELSE readyState[s]]
  /\ auth' = "none"
  /\ selfId' = FALSE
  /\ quiet' = (login = {})
  /\ crossed' = (crossed /\ pending' # {})
  /\ UNCHANGED <<onclose, connectTimeout, reconnectTimer, login, serving>>

(* The logout button, which the page shows while somebody is logged in.    *)
Logout ==
  /\ selfId
  /\ pending' = pending \ {reconnectTimer}
  /\ attempts' = 0
  /\ ws' = NoSocket
  /\ onclose' = [s \in Sockets |-> s # ws /\ onclose[s]]
  /\ readyState' = [s \in Sockets |-> IF s = ws THEN "closed" ELSE readyState[s]]
  /\ auth' = "none"
  /\ selfId' = FALSE
  /\ quiet' = (login = {})
  /\ crossed' = (crossed /\ pending' # {})
  /\ UNCHANGED <<connectTimeout, reconnectTimer, login, serving>>

(* The server or the network comes and goes.                               *)
ServerChanges ==
  /\ serving' = ~serving
  /\ UNCHANGED <<socketVars, timerVars, selfId, login, historyVars>>

-----------------------------------------------------------------------------

Next ==
  \/ \E s \in Sockets : TimeoutFires(s) \/ Open(s) \/ Close(s)
  \/ Authed \/ Refused
  \/ \E t \in Timers : TimerFires(t)
  \/ \E r \in Requests : Submit(r) \/ LoginAnswered(r)
  \/ Logout
  \/ ServerChanges

(* Timers fire, a server that can be reached accepts and answers, and a    *)
(* closing handshake ends.                                                 *)
Fairness ==
  /\ \A s \in Sockets : WF_vars(TimeoutFires(s)) /\ WF_vars(Open(s)) /\ WF_vars(Close(s))
  /\ WF_vars(Authed \/ Refused)
  /\ \A t \in Timers : WF_vars(TimerFires(t))

Spec == Init /\ [][Next]_vars
FairSpec == Spec /\ Fairness

-----------------------------------------------------------------------------
(* What the page keeps.                                                    *)

(* The page never has two connections to the server: neither repeated      *)
(* logins nor reconnect timers that fire after a login has connected       *)
(* leave one behind.                                                       *)
OneConnection ==
  \A s \in Sockets : readyState[s] \in {"connecting", "open"} => s = ws

(* After logging out with no login under way the page stays without a      *)
(* connection until the next login, also if a reconnect timer it no longer *)
(* remembers, or a connect timeout, is still to fire.                      *)
QuietAfterLogout ==
  quiet => \A s \in Sockets : readyState[s] \notin {"connecting", "open"}

(* A connection the server has accepted lasts until the connection is      *)
(* lost, the user logs out or a login connects.  What is left of earlier   *)
(* connections, timeouts, close events and timers, does not touch it,      *)
(* unless a login has overtaken a reconnect timer.                         *)
HealthyKept ==
  [][auth = "authed" /\ auth' # "authed" =>
       ~serving \/ ~selfId' \/ login' # login \/ crossed]_vars

GaveUp == attempts > MaxAttempts

(* Something will call the page: the answer to "auth", a close event, the  *)
(* connect timeout or "open", or a reconnect timer.                        *)
Awaiting ==
  \/ pending # {}
  \/ /\ ws # NoSocket /\ onclose[ws]
     /\ \/ readyState[ws] = "connecting" /\ connectTimeout[ws]
        \/ readyState[ws] = "open" /\ auth # "none"
        \/ readyState[ws] = "closing"

(* A page that is logged in is never left alone: it has a connection that  *)
(* was told who it is, or an event to come that leads to its next one,     *)
(* unless it has used up its attempts.  No order of logins, timeouts and   *)
(* close events takes the last handler or timer from it.                   *)
NeverStranded == selfId => Awaiting \/ GaveUp

(* Once the server stays reachable, a page that is logged in is connected  *)
(* again, was refused, or has used up its attempts: timeouts of earlier    *)
(* connections that close a later one do not leave it without a timer.     *)
Reconnects ==
  <>[]serving => []<>(~selfId \/ auth \in {"authed", "refused"} \/ GaveUp)
=============================================================================
