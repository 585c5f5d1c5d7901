------------------------------ MODULE Gateway ------------------------------
(***************************************************************************)
(* The WebSocket sessions of the gateway: HandleWS of                      *)
(* internal/gateway/ws_handle.go for every connection, over the two shared *)
(* registries, `onlineUsers` (clients.go) and the rooms (module Rooms).    *)
(*                                                                         *)
(* One action is one atomic section of a handler: a frame it reads and the *)
(* work up to the first lock it takes, then one critical section each.     *)
(* pc[c] is where the handler of connection c stands, the other per-       *)
(* connection variables are its locals.                                    *)
(*                                                                         *)
(* A send channel is only its closed flag here: `ch <- b` under            *)
(* select/default never blocks, puts b in the buffer or drops it, and      *)
(* PANICS when the channel is closed.  A panic unwinds HandleWS, which     *)
(* runs the deferred close(sendCh) and conn.Close() and none of the        *)
(* clean-up code at the end of the function; net/http recovers it.         *)
(* Buffers and the goroutines that drain them are in the module Pump, the  *)
(* messages of private chat in the module Delivery.  Frames whose answer   *)
(* goes to the connection's own channel only ("history", "ping", unknown   *)
(* or malformed ones, and any request before "auth") change nothing here.  *)
(***************************************************************************)
EXTENDS Rooms, Naturals

CONSTANTS
  NoUser,           (* me == nil                                           *)
  DevMode,          (* AuthClient == nil: the token is the user ID         *)
  MaxAuthAttempts   (* maxAuthAttempts                                     *)

ASSUME GatewayAssumption ==
  /\ NoUser \notin UserIDs
  /\ NoRoom \notin RoomIDs
  /\ DevMode \in BOOLEAN
  /\ MaxAuthAttempts \in Nat \ {0}

VARIABLES
  onlineUsers,  (* map[string]*Client                                      *)
  pc,           (* where the handler stands                                *)
  op,           (* why it looks a room up: a request or the clean-up       *)
  roomID,       (* the room it works on                                    *)
  room,         (* the pointer getOrCreateRoom gave it                     *)
  target,       (* the *Client getOnlineClient gave it                     *)
  todo,         (* myRooms: what the clean-up still has to leave           *)
  me,           (* me.UserID                                               *)
  authAttempts, (* authAttempts, saturated one above the limit             *)
  open,         (* reads and writes on the socket can still succeed        *)
  closed,       (* close(sendCh) has been executed                         *)
  authedAs      (* history: every user the connection authenticated as     *)

localVars == <<op, roomID, room, target, todo>>
sessionVars == <<me, authAttempts, open, closed, authedAs>>
vars == <<rooms, clients, onlineUsers, pc, localVars, sessionVars>>

PCs == {"off", "read", "register", "pull", "push", "create", "apply",
        "prune", "deliver", "scan", "leaveall", "wait", "ended", "panicked"}
Ops == {"none", "join", "leave", "send", "cleanup"}

(* The pointers the handler of c is about to dereference are not nil.      *)
PointersValid(c) ==
  /\ pc[c] \notin {"off", "read", "wait", "ended", "panicked"} => me[c] \in UserIDs
  /\ pc[c] \in {"create", "apply", "prune"} => roomID[c] \in RoomIDs
  /\ pc[c] = "apply" => room[c] \in RoomRefs
  /\ pc[c] \in {"push", "deliver"} => target[c] \in Conns

(* Type correctness, and no nil pointer is ever used: `me` by a request,   *)
(* the Room a request works on, the Client a message is sent to.           *)
TypeOK ==
  /\ RoomsTypeOK
  /\ onlineUsers \in [UserIDs -> Conns \cup {NoClient}]
  /\ pc \in [Conns -> PCs]
  /\ op \in [Conns -> Ops]
  /\ roomID \in [Conns -> RoomIDs \cup {NoRoom}]
  /\ room \in [Conns -> RoomRefs \cup {NoRoom}]
  /\ target \in [Conns -> Conns \cup {NoClient}]
  /\ todo \in [Conns -> SUBSET RoomIDs]
  /\ me \in [Conns -> UserIDs \cup {NoUser}]
  /\ authAttempts \in [Conns -> 0..(MaxAuthAttempts + 1)]
  /\ open \in [Conns -> BOOLEAN]
  /\ closed \in [Conns -> BOOLEAN]
  /\ authedAs \in [Conns -> SUBSET UserIDs]
  /\ \A c \in Conns : PointersValid(c)

Init ==
  /\ RoomsInit
  /\ onlineUsers = [u \in UserIDs |-> NoClient]
  /\ pc = [c \in Conns |-> "off"]
  /\ op = [c \in Conns |-> "none"]
  /\ roomID = [c \in Conns |-> NoRoom]
  /\ room = [c \in Conns |-> NoRoom]
  /\ target = [c \in Conns |-> NoClient]
  /\ todo = [c \in Conns |-> {}]
  /\ me = [c \in Conns |-> NoUser]
  /\ authAttempts = [c \in Conns |-> 0]
  /\ open = [c \in Conns |-> FALSE]
  /\ closed = [c \in Conns |-> FALSE]
  /\ authedAs = [c \in Conns |-> {}]

-----------------------------------------------------------------------------
(* Steps shared by the actions.                                            *)

Goto(c, from, to) == pc[c] = from /\ pc' = [pc EXCEPT ![c] = to]

(* The locals of a request go out of scope when it is over.                *)
ForgetLocals(c) ==
  /\ op' = [op EXCEPT ![c] = "none"]
  /\ roomID' = [roomID EXCEPT ![c] = NoRoom]
  /\ room' = [room EXCEPT ![c] = NoRoom]
  /\ target' = [target EXCEPT ![c] = NoClient]
  /\ todo' = [todo EXCEPT ![c] = {}]

CloseConn(c) == open' = [open EXCEPT ![c] = FALSE]

(* The deferred close(sendCh) and conn.Close() of HandleWS.                *)
Deferred(c) ==
  /\ closed' = [closed EXCEPT ![c] = TRUE]
  /\ CloseConn(c)
  /\ UNCHANGED <<me, authAttempts, authedAs>>

(* The handler of c sends to the channels of `dests` and goes on reading,  *)
(* or panics because one of them is closed.                                *)
SendTo(c, from, dests) ==
  \/ /\ Goto(c, from, "read")
     /\ \A d \in dests : ~closed[d]
     /\ UNCHANGED sessionVars
  \/ /\ Goto(c, from, "panicked")
     /\ \E d \in dests : closed[d]
     /\ Deferred(c)

-----------------------------------------------------------------------------
(* Connecting and authenticating.                                          *)

(* Upgrade succeeds; the read loop starts.                                 *)
Connect(c) ==
  /\ Goto(c, "off", "read")
  /\ open' = [open EXCEPT ![c] = TRUE]
  /\ UNCHANGED <<roomVars, onlineUsers, localVars, me, authAttempts, closed,
                 authedAs>>

CountAttempt(c) ==
  authAttempts' = [authAttempts EXCEPT ![c] =
                     IF @ > MaxAuthAttempts THEN @ ELSE @ + 1]

(* "too many auth attempts": the socket is closed, but `break` only leaves *)
(* the switch, so the loop goes back to ReadMessage.                       *)
AuthExhausted(c) ==
  /\ ~DevMode
  /\ pc[c] = "read"
  /\ authAttempts[c] >= MaxAuthAttempts
  /\ CountAttempt(c)
  /\ CloseConn(c)
  /\ UNCHANGED <<roomVars, onlineUsers, pc, localVars, me, closed, authedAs>>

(* Mutant: `me` is assigned before the answer of Validate is looked at.    *)
AuthFailed_KeepsMe(c) ==
  /\ ~DevMode
  /\ pc[c] = "read"
  /\ authAttempts[c] < MaxAuthAttempts
  /\ CountAttempt(c)
  /\ \E u \in UserIDs : me' = [me EXCEPT ![c] = u]
  /\ UNCHANGED <<roomVars, onlineUsers, pc, localVars, open, closed, authedAs>>

(* Validate failed, timed out or said no.                                  *)
AuthFailed(c) ==
  /\ ~DevMode
  /\ pc[c] = "read"
  /\ authAttempts[c] < MaxAuthAttempts
  /\ CountAttempt(c)
  /\ UNCHANGED <<roomVars, onlineUsers, pc, localVars, me, open, closed,
                 authedAs>>

(* The token is valid and users.role is 'banned'.                          *)
AuthBanned(c) ==
  /\ ~DevMode
  /\ pc[c] = "read"
  /\ authAttempts[c] < MaxAuthAttempts
  /\ CountAttempt(c)
  /\ CloseConn(c)
  /\ UNCHANGED <<roomVars, onlineUsers, pc, localVars, me, closed, authedAs>>

(* The frame is accepted as user u, `me` is replaced: nothing stops a      *)
(* connection from authenticating again, as the same user or another.      *)
AuthOK(c, u) ==
  /\ \/ DevMode /\ UNCHANGED authAttempts
     \/ /\ ~DevMode
        /\ authAttempts[c] < MaxAuthAttempts
        /\ CountAttempt(c)
  /\ Goto(c, "read", "register")
  /\ me' = [me EXCEPT ![c] = u]
  /\ authedAs' = [authedAs EXCEPT ![c] = @ \cup {u}]
  /\ UNCHANGED <<roomVars, onlineUsers, localVars, open, closed>>

RegisterOnline(c) ==
  /\ Goto(c, "register", "pull")
  /\ onlineUsers' = [onlineUsers EXCEPT ![me[c]] = c]
  /\ UNCHANGED <<roomVars, localVars, sessionVars>>

(* pushUndelivered returns early: no store, an error, nothing stored, or   *)
(* the user is not online any more.                                        *)
PullNothing(c) ==
  /\ Goto(c, "pull", "read")
  /\ UNCHANGED <<roomVars, onlineUsers, localVars, sessionVars>>

(* Mutant: pushUndelivered without the test c == nil.                      *)
PullSome_Unchecked(c) ==
  /\ Goto(c, "pull", "push")
  /\ target' = [target EXCEPT ![c] = onlineUsers[me[c]]]
  /\ UNCHANGED <<roomVars, onlineUsers, op, roomID, room, todo, sessionVars>>

(* Stored messages were found; they go to whatever client the user has now.*)
PullSome(c) ==
  /\ Goto(c, "pull", "push")
  /\ onlineUsers[me[c]] # NoClient
  /\ target' = [target EXCEPT ![c] = onlineUsers[me[c]]]
  /\ UNCHANGED <<roomVars, onlineUsers, op, roomID, room, todo, sessionVars>>

PushUndelivered(c) ==
  /\ SendTo(c, "push", {target[c]})
  /\ ForgetLocals(c)
  /\ UNCHANGED <<roomVars, onlineUsers>>

-----------------------------------------------------------------------------
(* Requests about rooms: join, leave, send.                                *)

(* getOrCreateRoom under roomsMu.RLock, on behalf of o.                    *)
Lookup(c, from, o, id) ==
  /\ \/ rooms[id] # NoRoom /\ Goto(c, from, "apply")
     \/ rooms[id] = NoRoom /\ Goto(c, from, "create")
  /\ op' = [op EXCEPT ![c] = o]
  /\ roomID' = [roomID EXCEPT ![c] = id]
  /\ room' = [room EXCEPT ![c] = rooms[id]]
  /\ UNCHANGED <<roomVars, onlineUsers, target, sessionVars>>

RoomRequest(c, o, id) ==
  /\ me[c] # NoUser
  /\ o \in {"join", "leave", "send"}
  /\ Lookup(c, "read", o, id)
  /\ UNCHANGED todo

Create(c) ==
  \E r \in RoomRefs :
    /\ Goto(c, "create", "apply")
    /\ CreateRoom(roomID[c], r, {room[d] : d \in Conns})
    /\ room' = [room EXCEPT ![c] = r]
    /\ UNCHANGED <<onlineUsers, op, roomID, target, todo, sessionVars>>

Join(c) ==
  /\ op[c] = "join"
  /\ Goto(c, "apply", "read")
  /\ AddClient(room[c], me[c], c)
  /\ ForgetLocals(c)
  /\ UNCHANGED <<onlineUsers, sessionVars>>

(* removeClient, for "leave" and for the clean-up.                         *)
Remove(c) ==
  /\ op[c] \in {"leave", "cleanup"}
  /\ Goto(c, "apply", "prune")
  /\ RemoveClient(room[c], me[c])
  /\ room' = [room EXCEPT ![c] = NoRoom]
  /\ UNCHANGED <<onlineUsers, op, roomID, target, todo, sessionVars>>

(* removeEmptyRoom, then the answer "left" or the next room of the loop.   *)
Prune(c) ==
  /\ pc[c] = "prune"
  /\ RemoveEmptyRoom(roomID[c])
  /\ \/ /\ op[c] = "leave"
        /\ Goto(c, "prune", "read")
        /\ ForgetLocals(c)
     \/ /\ op[c] = "cleanup"
        /\ Goto(c, "prune", "leaveall")
        /\ roomID' = [roomID EXCEPT ![c] = NoRoom]
        /\ UNCHANGED <<op, room, target, todo>>
  /\ UNCHANGED <<onlineUsers, sessionVars>>

(* Room.broadcast, under the room's RLock; nobody checks that the sender   *)
(* is a member.                                                            *)
Broadcast(c) ==
  /\ op[c] = "send"
  /\ SendTo(c, "apply", Members(room[c]))
  /\ ForgetLocals(c)
  /\ UNCHANGED <<roomVars, onlineUsers>>

-----------------------------------------------------------------------------
(* Private messages.                                                       *)

(* getOnlineClient found a client; the send comes after the lock is gone.  *)
Private(c, u) ==
  /\ me[c] # NoUser
  /\ onlineUsers[u] # NoClient
  /\ Goto(c, "read", "deliver")
  /\ target' = [target EXCEPT ![c] = onlineUsers[u]]
  /\ UNCHANGED <<roomVars, onlineUsers, op, roomID, room, todo, sessionVars>>

Deliver(c) ==
  /\ SendTo(c, "deliver", {target[c]})
  /\ ForgetLocals(c)
  /\ UNCHANGED <<roomVars, onlineUsers>>

-----------------------------------------------------------------------------
(* The end of a connection.                                                *)

(* The peer leaves, the network fails, or the read deadline passes.        *)
ConnLost(c) ==
  /\ open[c]
  /\ CloseConn(c)
  /\ UNCHANGED <<roomVars, onlineUsers, pc, localVars, me, authAttempts,
                 closed, authedAs>>

(* Mutant: the banned user is taken off the list at once.                  *)
DisconnectUser_Unregisters(u) ==
  /\ onlineUsers[u] # NoClient
  /\ CloseConn(onlineUsers[u])
  /\ onlineUsers' = [onlineUsers EXCEPT ![u] = NoClient]
  /\ UNCHANGED <<roomVars, pc, localVars, me, authAttempts, closed, authedAs>>

(* disconnectUser, called by AdminBanUser.                                 *)
DisconnectUser(u) ==
  /\ onlineUsers[u] # NoClient
  /\ CloseConn(onlineUsers[u])
  /\ UNCHANGED <<roomVars, onlineUsers, pc, localVars, me, authAttempts,
                 closed, authedAs>>

(* Mutant: the read loop goes on after an error.                           *)
ReadError_Continue(c) ==
  /\ pc[c] = "read"
  /\ ~open[c]
  /\ UNCHANGED vars

(* ReadMessage fails and the loop ends.  Frames that were read from the    *)
(* socket before it was closed are still handed out first, so the failure  *)
(* may come after more requests.                                           *)
ReadError(c) ==
  /\ ~open[c]
  /\ \/ me[c] = NoUser /\ Goto(c, "read", "wait")
     \/ me[c] # NoUser /\ Goto(c, "read", "scan")
  /\ UNCHANGED <<roomVars, onlineUsers, localVars, sessionVars>>

(* Mutant: the clean-up forgets the rooms.                                 *)
Scan_Nothing(c) ==
  /\ Goto(c, "scan", "leaveall")
  /\ todo' = [todo EXCEPT ![c] = {}]
  /\ UNCHANGED <<roomVars, onlineUsers, op, roomID, room, target, sessionVars>>

(* The clean-up collects the rooms that have an entry for me.UserID.       *)
Scan(c) ==
  /\ Goto(c, "scan", "leaveall")
  /\ todo' = [todo EXCEPT ![c] = RoomsContaining(me[c])]
  /\ UNCHANGED <<roomVars, onlineUsers, op, roomID, room, target, sessionVars>>

(* Mutant: the loop looks at the same room again and again.                *)
LeaveNext_Again(c, id) ==
  /\ id \in todo[c]
  /\ Lookup(c, "leaveall", "cleanup", id)
  /\ UNCHANGED todo

(* The next room of the loop; Go's range over myRooms is in the order of   *)
(* the map iteration that filled it, so any order.                         *)
LeaveNext(c, id) ==
  /\ id \in todo[c]
  /\ Lookup(c, "leaveall", "cleanup", id)
  /\ todo' = [todo EXCEPT ![c] = @ \ {id}]

(* unregisterOnline: delete by user ID, whichever client the entry holds.  *)
UnregisterOnline(c) ==
  /\ todo[c] = {}
  /\ Goto(c, "leaveall", "wait")
  /\ onlineUsers' = [onlineUsers EXCEPT ![me[c]] = NoClient]
  /\ ForgetLocals(c)
  /\ UNCHANGED <<roomVars, sessionVars>>

(* The wait for the write goroutine ends, by `done` or after 12 seconds,   *)
(* and the deferred calls run.                                             *)
Finish(c) ==
  /\ Goto(c, "wait", "ended")
  /\ Deferred(c)
  /\ UNCHANGED <<roomVars, onlineUsers, localVars>>

-----------------------------------------------------------------------------

Handler(c) ==
  \/ RegisterOnline(c) \/ PullNothing(c) \/ PullSome(c) \/ PushUndelivered(c)
  \/ Create(c) \/ Join(c) \/ Remove(c) \/ Prune(c) \/ Broadcast(c)
  \/ Deliver(c)
  \/ Scan(c)
  \/ \E id \in RoomIDs : LeaveNext(c, id)
  \/ UnregisterOnline(c) \/ Finish(c)

Request(c) ==
  \/ AuthExhausted(c) \/ AuthFailed(c) \/ AuthBanned(c)
  \/ \E u \in UserIDs : AuthOK(c, u) \/ Private(c, u)
  \/ \E o \in Ops, id \in RoomIDs : RoomRequest(c, o, id)

Next ==
  \/ \E c \in Conns :
       Connect(c) \/ Request(c) \/ Handler(c) \/ ConnLost(c) \/ ReadError(c)
  \/ \E u \in UserIDs : DisconnectUser(u)

(* A goroutine that can run does run.  The read of a closed socket fails   *)
(* after the finitely many frames already in the read buffer: between them *)
(* the handler leaves ReadMessage, hence strong fairness.                  *)
Fairness ==
  \A c \in Conns : WF_vars(Handler(c)) /\ SF_vars(ReadError(c))

Spec == Init /\ [][Next]_vars
FairSpec == Spec /\ Fairness

-----------------------------------------------------------------------------
(* What the gateway keeps.                                                 *)

(* The connection authenticated under two user IDs.                        *)
Switched(c) == \E u, v \in authedAs[c] : u # v

(* HandleWS returned, and the connection had one identity throughout.      *)
EndedCleanly(c) == pc[c] = "ended" /\ ~Switched(c)

(* The clean-up at the end of HandleWS is complete: once the channel of a  *)
(* connection with one identity is closed, neither registry leads to it,   *)
(* whatever other sessions of the same user did to the shared entries      *)
(* meanwhile.  (A send to such a channel panics.)                          *)
NoDanglingClient ==
  \A c \in Conns : EndedCleanly(c) =>
    /\ \A u \in UserIDs : onlineUsers[u] # c
    /\ \A id \in RoomIDs : rooms[id] # NoRoom => c \notin Members(rooms[id])

(* Messages for a user, direct, offline or through a room, only go to      *)
(* connections that authenticated as that user, also when the entry was    *)
(* fetched long before the message is sent and sessions came and went.     *)
RoutedToAuthenticated ==
  /\ \A u \in UserIDs :
       onlineUsers[u] # NoClient => u \in authedAs[onlineUsers[u]]
  /\ \A r \in RoomRefs, u \in UserIDs :
       clients[r][u] # NoClient => u \in authedAs[clients[r][u]]
  /\ \A c \in Conns :
       pc[c] = "push" => me[c] \in authedAs[target[c]]

(* A live session is missing from the list of online users in one case     *)
(* only: another session of the same user has been through its clean-up,   *)
(* which deletes the user's entry whichever session it holds.  Neither a   *)
(* ban nor a change of identity nor a panic takes a live session off it.   *)
UnlistedExplained ==
  \A c \in Conns :
    (pc[c] = "read" /\ open[c] /\ me[c] # NoUser /\ onlineUsers[me[c]] = NoClient) =>
      \E d \in Conns \ {c} : me[d] = me[c] /\ pc[d] \in {"wait", "ended"}

(* Double-checked creation and guarded removal: the Room registered under  *)
(* an ID is never replaced by another one, and is dropped only while it    *)
(* has no member.                                                          *)
RegistryStep ==
  \A id \in RoomIDs : rooms[id] # NoRoom =>
    \/ rooms'[id] = rooms[id]
    \/ rooms'[id] = NoRoom /\ Members(rooms[id]) = {}
RegistryStable == [][RegistryStep]_vars

(* Every request is answered or ends the session: no handler gets stuck    *)
(* between two critical sections.                                          *)
RequestsFinish ==
  \A c \in Conns :
    pc[c] \notin {"off", "read"} ~> pc[c] \in {"read", "ended", "panicked"}

(* A lost or closed connection's handler returns and closes its channel.   *)
SessionsEnd ==
  \A c \in Conns :
    (pc[c] = "read" /\ ~open[c]) ~> (closed[c] /\ pc[c] \in {"ended", "panicked"})
=============================================================================
