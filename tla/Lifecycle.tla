------------------------------ MODULE Lifecycle ------------------------------
(***************************************************************************)
(* The two processes, from start to end (cmd/gateway/main.go and           *)
(* cmd/authsvc/main.go), and what outlives them: the key user:<id>:online  *)
(* of one user in Redis, written by the user's sessions (HandleWS) and by  *)
(* the Login call of the auth service, deleted by the session's clean-up.  *)
(*                                                                         *)
(* The gateway does without any service it cannot reach at its start; the  *)
(* auth service ends at the first step that fails.  Either process may     *)
(* die at any moment and be started again.                                 *)
(*                                                                         *)
(* The names every module has, Init, Next and so on, begin with LC, so     *)
(* that a module can extend this one beside another.                       *)
(***************************************************************************)
EXTENDS Naturals, Sequences, FiniteSets

CONSTANTS
  Sessions,   (* connections to the gateway that may authenticate as the user *)
  Logins      (* requests to /api/login by the user                           *)

ASSUME LifecycleAssumption == Sessions \cap Logins = {}

(* What the gateway opens, in the order of its main.                       *)
Services == <<"authsvc", "mysql", "mongo", "redis">>

(* What the auth service must have done before it serves.                  *)
AuthSteps == <<"mysql", "migrate", "redis", "listen">>

VARIABLES
  gateway,    (* where main of the gateway is                              *)
  depth,      (* how many of Services it has gone through and not closed   *)
  clients,    (* the services it has an open client of                     *)
  dev,        (* AuthClient = nil: the token is the user ID                *)
  authsvc,    (* where main of the auth service is                         *)
  done,       (* how many of AuthSteps it has done                         *)
  login,      (* where the Login call in the auth service is               *)
  phase,      (* where the handler of the connection is                    *)
  marker,     (* the key: absent, with a time to live, or without          *)
  stranded    (* history: a session ended without deleting the key         *)

gatewayVars == <<gateway, depth, clients, dev>>
authVars == <<authsvc, done>>
markerVars == <<marker, stranded>>
lcVars == <<gatewayVars, authVars, login, phase, markerVars>>

Phases == {"off", "open", "set", "online", "away", "del"}
Running == {"query", "set"}

LCTypeOK ==
  /\ gateway \in {"down", "opening", "listen", "serving", "closing"}
  /\ depth \in 0..Len(Services)
  /\ clients \subseteq {Services[i] : i \in 1..depth}
  /\ dev \in BOOLEAN
  /\ authsvc \in {"down", "starting", "serving", "draining"}
  /\ done \in 0..Len(AuthSteps)
  /\ login \in [Logins -> {"idle", "answered", "cut"} \cup Running]
  /\ phase \in [Sessions -> Phases]
  /\ marker \in {"absent", "expiring", "lasting"}
  /\ stranded \in BOOLEAN

LCInit ==
  /\ gateway = "down" /\ depth = 0 /\ clients = {} /\ dev = FALSE
  /\ authsvc = "down" /\ done = 0
  /\ login = [r \in Logins |-> "idle"]
  /\ phase = [s \in Sessions |-> "off"]
  /\ marker = "absent" /\ stranded = FALSE

-----------------------------------------------------------------------------
(* The gateway's main.                                                     *)

StartGateway ==
  /\ gateway = "down"
  /\ gateway' = "opening"
  /\ UNCHANGED <<depth, clients, dev, authVars, login, phase, markerVars>>

(* Mutant: the dial has no timeout.                                        *)
Open_Waits ==
  /\ gateway = "opening"
  /\ Services[depth + 1] = "authsvc" => authsvc = "serving"
  /\ depth' = depth + 1
  /\ clients' \in {clients, clients \cup {Services[depth + 1]}}
  /\ dev' = ("authsvc" \notin clients')
  /\ gateway' = IF depth' = Len(Services) THEN "listen" ELSE gateway
  /\ UNCHANGED <<authVars, login, phase, markerVars>>

(* Dial or ping the next service.  After its timeout main goes on without; *)
(* the blocking dial succeeds only while the auth service listens.         *)
Open ==
  LET service == Services[depth + 1] IN
  /\ gateway = "opening"
  /\ depth' = depth + 1
  /\ \/ UNCHANGED clients
     \/ /\ service = "authsvc" => authsvc = "serving"
        /\ clients' = clients \cup {service}
  /\ dev' = ("authsvc" \notin clients')
  /\ gateway' = IF depth' = Len(Services) THEN "listen" ELSE gateway
  /\ UNCHANGED <<authVars, login, phase, markerVars>>

Serve ==
  /\ gateway = "listen"
  /\ gateway' = "serving"
  /\ UNCHANGED <<depth, clients, dev, authVars, login, phase, markerVars>>

(* SIGINT or SIGTERM: Shutdown begins, at which ListenAndServe returns.    *)
(* main does not wait for Shutdown to end, and hijacked connections are    *)
(* not known to it.                                                        *)
Shutdown ==
  /\ gateway = "serving"
  /\ gateway' = "closing"
  /\ UNCHANGED <<depth, clients, dev, authVars, login, phase, markerVars>>

(* Mutant: the calls run in the order in which they were deferred.         *)
CloseNext_First ==
  /\ gateway = "closing" /\ depth > 0
  /\ clients' = clients \ {Services[Len(Services) + 1 - depth]}
  /\ depth' = depth - 1
  /\ UNCHANGED <<gateway, dev, authVars, login, phase, markerVars>>

(* The deferred Close calls, last opened first; handlers still run.        *)
CloseNext ==
  /\ gateway = "closing" /\ depth > 0
  /\ clients' = clients \ {Services[depth]}
  /\ depth' = depth - 1
  /\ UNCHANGED <<gateway, dev, authVars, login, phase, markerVars>>

(* Every session is gone with the process, its clean-up not done.          *)
GatewayGone ==
  /\ gateway' = "down" /\ depth' = 0 /\ clients' = {} /\ dev' = FALSE
  /\ phase' = [s \in Sessions |-> "off"]
  /\ stranded' = (stranded \/ \E s \in Sessions : phase[s] \in {"set", "online", "del"})
  /\ UNCHANGED <<authVars, login, marker>>

(* main returns.                                                           *)
Exit ==
  /\ gateway = "closing" /\ depth = 0
  /\ GatewayGone

(* The process dies: a signal before Notify, os.Exit after a failed        *)
(* Listen, a panic outside a handler, kill -9.                             *)
GatewayCrash ==
  /\ gateway # "down"
  /\ GatewayGone

-----------------------------------------------------------------------------
(* The auth service's main.                                                *)

StartAuth ==
  /\ authsvc = "down"
  /\ authsvc' = "starting"
  /\ done' = 0
  /\ UNCHANGED <<gatewayVars, login, phase, markerVars>>

(* The next step succeeds; after the last one Serve accepts calls.         *)
StartStep ==
  /\ authsvc = "starting"
  /\ done' = done + 1
  /\ authsvc' = IF done' = Len(AuthSteps) THEN "serving" ELSE authsvc
  /\ UNCHANGED <<gatewayVars, login, phase, markerVars>>

(* It fails: os.Exit(1).                                                   *)
StartFails ==
  /\ authsvc = "starting"
  /\ authsvc' = "down"
  /\ done' = 0
  /\ UNCHANGED <<gatewayVars, login, phase, markerVars>>

(* SIGINT or SIGTERM: GracefulStop takes no new calls.                     *)
GracefulStop ==
  /\ authsvc = "serving"
  /\ authsvc' = "draining"
  /\ UNCHANGED <<done, gatewayVars, login, phase, markerVars>>

(* Mutant: it also waits for the clients' connections to be closed.        *)
ServeReturns_Waits ==
  /\ authsvc = "draining"
  /\ \A r \in Logins : login[r] \notin Running
  /\ "authsvc" \notin clients
  /\ authsvc' = "down"
  /\ done' = 0
  /\ UNCHANGED <<gatewayVars, login, phase, markerVars>>

(* Serve returns when the calls that run have ended; main returns.         *)
ServeReturns ==
  /\ authsvc = "draining"
  /\ \A r \in Logins : login[r] \notin Running
  /\ authsvc' = "down"
  /\ done' = 0
  /\ UNCHANGED <<gatewayVars, login, phase, markerVars>>

(* The process dies with the calls it serves.                              *)
AuthCrash ==
  /\ authsvc # "down"
  /\ authsvc' = "down"
  /\ done' = 0
  /\ login' = [r \in Logins |-> IF login[r] \in Running THEN "cut" ELSE login[r]]
  /\ UNCHANGED <<gatewayVars, phase, markerVars>>

Handling == gateway \in {"serving", "closing"}

CanCall == "authsvc" \in clients /\ authsvc = "serving"

(* A request to /api/login becomes a Login call.                           *)
LoginCall(r) ==
  /\ Handling /\ CanCall
  /\ login[r] = "idle"
  /\ login' = [login EXCEPT ![r] = "query"]
  /\ UNCHANGED <<gatewayVars, authVars, phase, markerVars>>

(* The user is looked up and the password checked, or Login gives up; at   *)
(* the latest when the gateway's three seconds are over.                   *)
LoginQuery(r) ==
  /\ login[r] = "query"
  /\ login' \in {[login EXCEPT ![r] = a] : a \in {"set", "answered"}}
  /\ UNCHANGED <<gatewayVars, authVars, phase, markerVars>>

(* The key is set for 24 hours, over whatever it was; an error is logged.  *)
LoginSet(r) ==
  /\ login[r] = "set"
  /\ login' = [login EXCEPT ![r] = "answered"]
  /\ \/ marker' = "expiring" /\ stranded' = FALSE
     \/ UNCHANGED markerVars
  /\ UNCHANGED <<gatewayVars, authVars, phase>>

(* The client may try again.                                               *)
LoginAgain(r) ==
  /\ login[r] \in {"answered", "cut"}
  /\ login' = [login EXCEPT ![r] = "idle"]
  /\ UNCHANGED <<gatewayVars, authVars, phase, markerVars>>

(* The 24 hours are over.                                                  *)
Expire ==
  /\ marker = "expiring"
  /\ marker' = "absent"
  /\ UNCHANGED <<gatewayVars, authVars, login, phase, stranded>>

-----------------------------------------------------------------------------
(* A session.                                                              *)

Goto(s, p) == phase' = [phase EXCEPT ![s] = p]

Connect(s) ==
  /\ gateway = "serving"
  /\ phase[s] = "off"
  /\ Goto(s, "open")
  /\ UNCHANGED <<gatewayVars, authVars, login, markerVars>>

CanAuthenticate == Handling /\ (dev \/ CanCall)

(* "auth" as the user is accepted, for the first time or again.            *)
Register(s) ==
  /\ CanAuthenticate
  /\ phase[s] \in {"open", "online", "away"}
  /\ Goto(s, "set")
  /\ UNCHANGED <<gatewayVars, authVars, login, markerVars>>

(* "auth" as somebody else: the handler forgets the user.                  *)
Switch(s) ==
  /\ CanAuthenticate
  /\ phase[s] = "online"
  /\ Goto(s, "away")
  /\ stranded' = TRUE
  /\ UNCHANGED <<gatewayVars, authVars, login, marker>>

(* Mutant: the clean-up ends with unregisterOnline.                        *)
Unregister_NoDel(s) ==
  /\ Handling
  /\ phase[s] = "online"
  /\ Goto(s, "off")
  /\ UNCHANGED <<gatewayVars, authVars, login, markerVars>>

(* SET: without a time to live if the auth service vouches for the user.   *)
(* Without a client, or if Redis fails, nothing happens.                   *)
SetMarker(s) ==
  /\ Handling
  /\ phase[s] = "set"
  /\ Goto(s, "online")
  /\ \/ /\ "redis" \in clients
        /\ marker' = IF dev THEN "expiring" ELSE "lasting"
        /\ stranded' = FALSE
     \/ UNCHANGED markerVars
  /\ UNCHANGED <<gatewayVars, authVars, login>>

(* The connection is lost before it was the user's, or after.              *)
Disconnect(s) ==
  /\ Handling
  /\ phase[s] \in {"open", "away"}
  /\ Goto(s, "off")
  /\ UNCHANGED <<gatewayVars, authVars, login, markerVars>>

(* The user's connection is lost: the clean-up up to unregisterOnline.     *)
Unregister(s) ==
  /\ Handling
  /\ phase[s] = "online"
  /\ Goto(s, "del")
  /\ UNCHANGED <<gatewayVars, authVars, login, markerVars>>

(* DEL, whoever set the key.                                               *)
DelMarker(s) ==
  /\ Handling
  /\ phase[s] = "del"
  /\ Goto(s, "off")
  /\ \/ /\ "redis" \in clients
        /\ marker' = "absent" /\ stranded' = FALSE
     \/ stranded' = TRUE /\ UNCHANGED marker
  /\ UNCHANGED <<gatewayVars, authVars, login>>

(* The handler panics; net/http recovers, the clean-up is skipped.         *)
Panic(s) ==
  /\ Handling
  /\ phase[s] \in {"set", "online"}
  /\ Goto(s, "off")
  /\ stranded' = TRUE
  /\ UNCHANGED <<gatewayVars, authVars, login, marker>>

-----------------------------------------------------------------------------

GatewayStep ==
  StartGateway \/ Open \/ Serve \/ Shutdown \/ CloseNext \/ Exit \/ GatewayCrash

AuthStep ==
  StartAuth \/ StartStep \/ StartFails \/ GracefulStop \/ ServeReturns \/ AuthCrash

LCNext ==
  \/ GatewayStep
  \/ AuthStep
  \/ Expire
  \/ \E r \in Logins : LoginCall(r) \/ LoginQuery(r) \/ LoginSet(r) \/ LoginAgain(r)
  \/ \E s \in Sessions :
       \/ Connect(s) \/ Register(s) \/ Switch(s) \/ SetMarker(s)
       \/ Disconnect(s) \/ Unregister(s) \/ DelMarker(s) \/ Panic(s)

(* main runs, every step of it has a timeout; a Login call has its         *)
(* deadline.  Nobody need ever start, stop or call anything.               *)
LCFairness ==
  /\ WF_lcVars(Open) /\ WF_lcVars(Serve)
  /\ WF_lcVars(CloseNext) /\ WF_lcVars(Exit)
  /\ WF_lcVars(ServeReturns)
  /\ \A r \in Logins : WF_lcVars(LoginQuery(r)) /\ WF_lcVars(LoginSet(r))

LCSpec == LCInit /\ [][LCNext]_lcVars
LCFairSpec == LCSpec /\ LCFairness

-----------------------------------------------------------------------------
(* What the processes keep.                                                *)

(* A key that would stay for ever has a session behind it that will delete *)
(* it, or one is known to have failed to: by a crash, a shutdown, a panic, *)
(* a change of identity or an error of Redis.  Overlapping sessions, a     *)
(* Login in between and restarts leave no other.                           *)
MarkerExplained ==
  marker = "lasting" =>
    stranded \/ \E s \in Sessions : phase[s] \in {"set", "online", "del"}

(* The gateway comes up or ends, in whatever state the auth service is and *)
(* whichever services answer: neither process waits for ever for the other.*)
GatewayComesUp == gateway = "opening" ~> gateway \in {"serving", "down"}

(* A process told to stop stops: the gateway with sessions connected, the  *)
(* auth service with calls under way and the gateway's connection open.    *)
StopsEnd ==
  /\ gateway = "closing" ~> gateway = "down"
  /\ authsvc = "draining" ~> authsvc = "down"
=============================================================================
