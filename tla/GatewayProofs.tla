--------------------------- MODULE GatewayProofs ---------------------------
(***************************************************************************)
(* Theorems about Gateway, for any numbers of connections, users, rooms    *)
(* and Room objects, in both authentication modes.                         *)
(***************************************************************************)
EXTENDS Gateway, TLAPS

(* The initial state has the right types.                                  *)
LEMMA InitType == Init => TypeOK
  BY RoomsAssumption, GatewayAssumption
  DEF Init, RoomsInit, TypeOK, RoomsTypeOK, PointersValid, NoClients, PCs, Ops

(* Counting an attempt keeps the counter in its range.                     *)
LEMMA CountAttemptType ==
  ASSUME TypeOK, NEW c \in Conns, CountAttempt(c)
  PROVE  authAttempts' \in [Conns -> 0..(MaxAuthAttempts + 1)]
  BY GatewayAssumption DEF TypeOK, CountAttempt

(* A send to other channels, after which the request is over.              *)
LEMMA SendToType ==
  ASSUME TypeOK, NEW c \in Conns, NEW from, NEW dests, SendTo(c, from, dests),
         ForgetLocals(c), UNCHANGED <<roomVars, onlineUsers>>
  PROVE  TypeOK'
<1> USE DEF TypeOK, Goto, ForgetLocals, Deferred, CloseConn, sessionVars, roomVars,
            PCs, Ops
<1>1. /\ pc' \in [Conns -> PCs]
      /\ open' \in [Conns -> BOOLEAN]
      /\ closed' \in [Conns -> BOOLEAN]
      /\ UNCHANGED <<me, authAttempts, authedAs>>
      /\ pc'[c] \in {"read", "panicked"}
      /\ \A d \in Conns \ {c} : pc'[d] = pc[d]
  BY DEF SendTo
<1>2. /\ op' \in [Conns -> Ops]
      /\ roomID' \in [Conns -> RoomIDs \cup {NoRoom}]
      /\ room' \in [Conns -> RoomRefs \cup {NoRoom}]
      /\ target' \in [Conns -> Conns \cup {NoClient}]
      /\ todo' \in [Conns -> SUBSET RoomIDs]
      /\ \A d \in Conns \ {c} : /\ roomID'[d] = roomID[d]
                                 /\ room'[d] = room[d]
                                 /\ target'[d] = target[d]
  OBVIOUS
<1>3. \A d \in Conns : PointersValid(d)'
  BY <1>1, <1>2 DEF PointersValid
<1> QED BY <1>1, <1>2, <1>3 DEF RoomsTypeOK

(* Every step keeps the types, and hands each critical section the         *)
(* pointers it uses.                                                       *)
LEMMA NextType == TypeOK /\ [Next]_vars => TypeOK'
<1> SUFFICES ASSUME TypeOK, [Next]_vars PROVE TypeOK'
  OBVIOUS
<1> USE DEF TypeOK, RoomsTypeOK, PointersValid, roomVars, localVars, sessionVars,
            Goto, PCs, Ops
<1>1. ASSUME NEW c \in Conns, Connect(c) PROVE TypeOK'
  BY <1>1 DEF Connect
<1>2. ASSUME NEW c \in Conns, AuthExhausted(c) PROVE TypeOK'
  BY <1>2, CountAttemptType DEF AuthExhausted, CloseConn
<1>3. ASSUME NEW c \in Conns, AuthFailed(c) PROVE TypeOK'
  BY <1>3, CountAttemptType DEF AuthFailed
<1>4. ASSUME NEW c \in Conns, AuthBanned(c) PROVE TypeOK'
  BY <1>4, CountAttemptType DEF AuthBanned, CloseConn
<1>5. ASSUME NEW c \in Conns, NEW u \in UserIDs, AuthOK(c, u) PROVE TypeOK'
  <2>1. authAttempts' \in [Conns -> 0..(MaxAuthAttempts + 1)]
    BY <1>5, CountAttemptType DEF AuthOK
  <2> QED BY <1>5, <2>1 DEF AuthOK
<1>6. ASSUME NEW c \in Conns, RegisterOnline(c) PROVE TypeOK'
  BY <1>6 DEF RegisterOnline
<1>7. ASSUME NEW c \in Conns, PullNothing(c) PROVE TypeOK'
  BY <1>7 DEF PullNothing
<1>8. ASSUME NEW c \in Conns, PullSome(c) PROVE TypeOK'
  BY <1>8 DEF PullSome
<1>9. ASSUME NEW c \in Conns, PushUndelivered(c) PROVE TypeOK'
  BY <1>9, SendToType DEF PushUndelivered
<1>10. ASSUME NEW c \in Conns, NEW o \in Ops, NEW id \in RoomIDs,
              RoomRequest(c, o, id) PROVE TypeOK'
  BY <1>10 DEF RoomRequest, Lookup
<1>11. ASSUME NEW c \in Conns, Create(c) PROVE TypeOK'
  <2>1. PICK r \in RoomRefs :
          /\ Goto(c, "create", "apply")
          /\ CreateRoom(roomID[c], r, {room[d] : d \in Conns})
          /\ room' = [room EXCEPT ![c] = r]
          /\ UNCHANGED <<onlineUsers, op, roomID, target, todo, sessionVars>>
    BY <1>11 DEF Create
  <2>2. RoomsTypeOK'
    <3>1. roomID[c] \in RoomIDs
      BY <2>1
    <3>2. CASE UNCHANGED roomVars
      BY <3>2
    <3>3. CASE NewRoom(roomID[c], r, {room[d] : d \in Conns})
      <4>1. rooms' = [rooms EXCEPT ![roomID[c]] = r]
            /\ clients' = [clients EXCEPT ![r] = NoClients]
        BY <3>3 DEF NewRoom
      <4>2. NoClients \in [UserIDs -> Conns \cup {NoClient}]
        BY DEF NoClients
      <4> QED BY <3>1, <4>1, <4>2
    <3> QED BY <2>1, <3>2, <3>3 DEF CreateRoom
  <2>3. room' \in [Conns -> RoomRefs \cup {NoRoom}] /\ pc' \in [Conns -> PCs]
    BY <2>1
  <2>4. \A d \in Conns : PointersValid(d)'
    BY <2>1
  <2> QED BY <2>1, <2>2, <2>3, <2>4
<1>12. ASSUME NEW c \in Conns, Join(c) PROVE TypeOK'
  BY <1>12 DEF Join, AddClient, ForgetLocals
<1>13. ASSUME NEW c \in Conns, Remove(c) PROVE TypeOK'
  BY <1>13 DEF Remove, RemoveClient
<1>14. ASSUME NEW c \in Conns, Prune(c) PROVE TypeOK'
  <2>1. RoomsTypeOK'
    BY <1>14 DEF Prune, RemoveEmptyRoom
  <2>2. CASE op[c] = "leave"
    <3>1. Goto(c, "prune", "read") /\ ForgetLocals(c)
          /\ UNCHANGED <<onlineUsers, sessionVars>>
      BY <1>14, <2>2 DEF Prune
    <3>2. \A d \in Conns : PointersValid(d)'
      BY <3>1 DEF ForgetLocals
    <3> QED BY <2>1, <3>1, <3>2 DEF ForgetLocals
  <2>3. CASE op[c] = "cleanup"
    BY <1>14, <2>1, <2>3, ZenonT(40) DEF Prune
  <2> QED BY <1>14, <2>2, <2>3 DEF Prune
<1>15. ASSUME NEW c \in Conns, Broadcast(c) PROVE TypeOK'
  BY <1>15, SendToType DEF Broadcast
<1>16. ASSUME NEW c \in Conns, NEW u \in UserIDs, Private(c, u) PROVE TypeOK'
  BY <1>16 DEF Private
<1>17. ASSUME NEW c \in Conns, Deliver(c) PROVE TypeOK'
  BY <1>17, SendToType DEF Deliver
<1>18. ASSUME NEW c \in Conns, ConnLost(c) PROVE TypeOK'
  BY <1>18 DEF ConnLost, CloseConn
<1>19. ASSUME NEW u \in UserIDs, DisconnectUser(u) PROVE TypeOK'
  BY <1>19 DEF DisconnectUser, CloseConn
<1>20. ASSUME NEW c \in Conns, ReadError(c) PROVE TypeOK'
  BY <1>20, ZenonT(40) DEF ReadError
<1>21. ASSUME NEW c \in Conns, Scan(c) PROVE TypeOK'
  BY <1>21 DEF Scan, RoomsContaining
<1>22. ASSUME NEW c \in Conns, NEW id \in RoomIDs, LeaveNext(c, id) PROVE TypeOK'
  BY <1>22, ZenonT(40) DEF LeaveNext, Lookup
<1>23. ASSUME NEW c \in Conns, UnregisterOnline(c) PROVE TypeOK'
  BY <1>23 DEF UnregisterOnline, ForgetLocals
<1>24. ASSUME NEW c \in Conns, Finish(c) PROVE TypeOK'
  BY <1>24 DEF Finish, Deferred, CloseConn
<1>25. CASE UNCHANGED vars
  BY <1>25 DEF vars
<1> QED
  BY <1>1, <1>2, <1>3, <1>4, <1>5, <1>6, <1>7, <1>8, <1>9, <1>10, <1>11, <1>12,
     <1>13, <1>14, <1>15, <1>16, <1>17, <1>18, <1>19, <1>20, <1>21, <1>22, <1>23,
     <1>24, <1>25
  DEF Next, Request, Handler

(* In every reachable state the types are right and no critical section    *)
(* of a handler is entered with a nil *Room, *Client or `me`.              *)
THEOREM TypeCorrect == Spec => []TypeOK
  BY InitType, NextType, PTL DEF Spec

-----------------------------------------------------------------------------

(* What each step does to the map `rooms`: only getOrCreateRoom's second   *)
(* critical section and removeEmptyRoom write it.                          *)
LEMMA RegistryWriters ==
  ASSUME TypeOK, [Next]_vars
  PROVE  \/ UNCHANGED rooms
         \/ \E c \in Conns : Create(c) \/ Prune(c)
  BY ZenonT(40) DEF Next, vars, Request, Handler, roomVars, Connect, AuthExhausted, AuthFailed,
         AuthBanned, AuthOK, RegisterOnline, PullNothing, PullSome,
         PushUndelivered, RoomRequest, Lookup, Join, AddClient, Remove,
         RemoveClient, Broadcast, Private, Deliver, ConnLost, DisconnectUser,
         ReadError, Scan, LeaveNext, UnregisterOnline, Finish

(* Every step is a RegistryStep: the second look of getOrCreateRoom finds  *)
(* what another handler created meanwhile, and removeEmptyRoom tests and   *)
(* deletes under one lock.                                                 *)
LEMMA RegistryStepHolds == TypeOK /\ [Next]_vars => RegistryStep
<1> SUFFICES ASSUME TypeOK, [Next]_vars, NEW id \in RoomIDs, rooms[id] # NoRoom
             PROVE  \/ rooms'[id] = rooms[id]
                    \/ rooms'[id] = NoRoom /\ Members(rooms[id]) = {}
  BY DEF RegistryStep
<1>1. CASE UNCHANGED rooms
  BY <1>1
<1>2. ASSUME NEW c \in Conns, Create(c) PROVE rooms'[id] = rooms[id]
  BY <1>2 DEF Create, CreateRoom, NewRoom, TypeOK, RoomsTypeOK, roomVars
<1>3. ASSUME NEW c \in Conns, Prune(c)
      PROVE  \/ rooms'[id] = rooms[id]
             \/ rooms'[id] = NoRoom /\ Members(rooms[id]) = {}
  BY <1>3 DEF Prune, RemoveEmptyRoom, TypeOK, RoomsTypeOK
<1> QED BY <1>1, <1>2, <1>3, RegistryWriters

(* The Room registered under an ID is never replaced, and is dropped only  *)
(* while it has no member, however many handlers create and leave rooms.   *)
THEOREM RegistryIsStable == Spec => RegistryStable
<1>1. TypeOK /\ [Next]_vars => [RegistryStep]_vars
  BY RegistryStepHolds
<1> QED BY <1>1, TypeCorrect, PTL DEF Spec, RegistryStable

-----------------------------------------------------------------------------
(* The inductive invariant.                                                *)

(* `me` is the last identity the connection proved, nil when none.         *)
MeAuthenticated ==
  \A c \in Conns :
    /\ me[c] # NoUser => me[c] \in authedAs[c]
    /\ me[c] = NoUser => authedAs[c] = {}

(* The clean-up of c is past its scan and has not unregistered the user.   *)
Cleaning(c) ==
  \/ pc[c] = "leaveall"
  \/ pc[c] \in {"create", "apply", "prune"} /\ op[c] = "cleanup"

(* The only entry for c under id that the clean-up has yet to remove is    *)
(* one it is going to: id is still in the list, or the Room it is about to *)
(* work on is the one registered.                                          *)
Pending(c, id) ==
  \/ id \in todo[c]
  \/ pc[c] = "apply" /\ roomID[c] = id /\ room[c] = rooms[id]

CleanUpOnTrack ==
  \A c \in Conns : Cleaning(c) /\ ~Switched(c) =>
    \A id \in RoomIDs :
      rooms[id] # NoRoom /\ c \in Members(rooms[id]) => Pending(c, id)

(* Past the clean-up neither registry leads to c.                          *)
CleanUpDone ==
  \A c \in Conns : pc[c] \in {"wait", "ended"} /\ ~Switched(c) =>
    /\ \A u \in UserIDs : onlineUsers[u] # c
    /\ \A id \in RoomIDs : rooms[id] # NoRoom => c \notin Members(rooms[id])

IInv ==
  /\ TypeOK
  /\ MeAuthenticated
  /\ RoutedToAuthenticated
  /\ CleanUpOnTrack
  /\ CleanUpDone

-----------------------------------------------------------------------------
(* Who writes what: one lemma per shared structure.                        *)

(* Identities are only ever added, and only by an accepted auth frame,     *)
(* which sets `me` to the identity it adds.                                *)
LEMMA IdentityWriters ==
  ASSUME TypeOK, [Next]_vars
  PROVE  \/ UNCHANGED <<me, authedAs>>
         \/ \E c \in Conns, u \in UserIDs : AuthOK(c, u)
<1> USE DEF sessionVars
<1>1. ASSUME NEW c \in Conns, PushUndelivered(c) \/ Broadcast(c) \/ Deliver(c)
      PROVE  UNCHANGED <<me, authedAs>>
  BY <1>1 DEF PushUndelivered, Broadcast, Deliver, SendTo, Deferred
<1>2. ASSUME NEW c \in Conns, Finish(c) PROVE UNCHANGED <<me, authedAs>>
  BY <1>2 DEF Finish, Deferred
<1>3. ASSUME NEW c \in Conns, Request(c)
      PROVE  \/ UNCHANGED <<me, authedAs>>
             \/ \E u \in UserIDs : AuthOK(c, u)
  BY <1>3 DEF Request, AuthExhausted, AuthFailed, AuthBanned, Private,
              RoomRequest, Lookup
<1> QED
  BY <1>1, <1>2, <1>3, ZenonT(40)
  DEF Next, vars, Handler, Connect, RegisterOnline, PullNothing, PullSome, Create,
      Join, Remove, Prune, ConnLost, DisconnectUser, ReadError, Scan, LeaveNext,
      Lookup, UnregisterOnline

(* onlineUsers is written by registerOnline and unregisterOnline only.     *)
LEMMA OnlineWriters ==
  ASSUME TypeOK, [Next]_vars
  PROVE  \/ UNCHANGED onlineUsers
         \/ \E c \in Conns : RegisterOnline(c) \/ UnregisterOnline(c)
  BY ZenonT(40) DEF Next, vars, Request, Handler, Connect, AuthExhausted, AuthFailed,
         AuthBanned, AuthOK, PullNothing, PullSome,
         PushUndelivered, RoomRequest, Lookup, Create, Join, Remove, Prune,
         Broadcast, Private, Deliver, ConnLost, DisconnectUser, ReadError, Scan,
         LeaveNext, Finish

(* Room.clients is written by newRoom, addClient and removeClient only.    *)
LEMMA MemberWriters ==
  ASSUME TypeOK, [Next]_vars
  PROVE  \/ UNCHANGED clients
         \/ \E c \in Conns : Create(c) \/ Join(c) \/ Remove(c)
  BY ZenonT(40) DEF Next, vars, Request, Handler, roomVars, Connect, AuthExhausted, AuthFailed,
         AuthBanned, AuthOK, RegisterOnline, PullNothing, PullSome,
         PushUndelivered, RoomRequest, Lookup, Prune, RemoveEmptyRoom, Broadcast,
         Private, Deliver, ConnLost, DisconnectUser, ReadError, Scan, LeaveNext,
         UnregisterOnline, Finish

(* The handler of c stands where it stood, with the same locals.           *)
Unmoved(c) ==
  /\ pc'[c] = pc[c] /\ op'[c] = op[c] /\ roomID'[c] = roomID[c]
  /\ room'[c] = room[c] /\ target'[c] = target[c] /\ todo'[c] = todo[c]
  /\ me'[c] = me[c]

Step(d) == Connect(d) \/ Request(d) \/ Handler(d) \/ ConnLost(d) \/ ReadError(d)

(* A step of one handler leaves the position and the locals of the others  *)
(* alone.                                                                  *)
LEMMA OthersUnmoved ==
  ASSUME TypeOK, NEW c \in Conns, NEW d \in Conns \ {c}, Step(d)
  PROVE  Unmoved(c)
<1> USE DEF TypeOK, Unmoved, Goto, localVars, sessionVars
<1>1. CASE Connect(d) \/ ConnLost(d) \/ ReadError(d)
  BY <1>1 DEF Connect, ConnLost, ReadError
<1>2. CASE AuthExhausted(d) \/ AuthFailed(d) \/ AuthBanned(d)
  BY <1>2 DEF AuthExhausted, AuthFailed, AuthBanned
<1>3. ASSUME NEW u \in UserIDs, AuthOK(d, u) \/ Private(d, u) PROVE Unmoved(c)
  BY <1>3 DEF AuthOK, Private
<1>4. ASSUME NEW o \in Ops, NEW id \in RoomIDs, RoomRequest(d, o, id)
      PROVE  Unmoved(c)
  BY <1>4 DEF RoomRequest, Lookup
<1>5. CASE RegisterOnline(d) \/ PullNothing(d) \/ PullSome(d)
  BY <1>5 DEF RegisterOnline, PullNothing, PullSome
<1>6. CASE PushUndelivered(d) \/ Broadcast(d) \/ Deliver(d)
  <2>1. \E from, dests : SendTo(d, from, dests)
    BY <1>6 DEF PushUndelivered, Broadcast, Deliver
  <2>2. pc'[c] = pc[c] /\ me'[c] = me[c]
    BY <2>1 DEF SendTo, Deferred
  <2>3. ForgetLocals(d)
    BY <1>6 DEF PushUndelivered, Broadcast, Deliver
  <2> QED BY <2>2, <2>3 DEF ForgetLocals
<1>7. CASE Create(d) \/ Join(d) \/ Remove(d)
  BY <1>7 DEF Create, Join, Remove, ForgetLocals
<1>8. CASE Prune(d)
  BY <1>8 DEF Prune, ForgetLocals
<1>9. CASE Scan(d) \/ UnregisterOnline(d) \/ Finish(d)
  BY <1>9 DEF Scan, UnregisterOnline, Finish, Deferred, ForgetLocals
<1>10. ASSUME NEW id \in RoomIDs, LeaveNext(d, id) PROVE Unmoved(c)
  BY <1>10 DEF LeaveNext, Lookup
<1> QED BY <1>1, <1>2, <1>3, <1>4, <1>5, <1>6, <1>7, <1>8, <1>9, <1>10
        DEF Step, Request, Handler

(* So what happens to the handler of c in a step is a step of its own, or  *)
(* nothing.                                                                *)
LEMMA OwnStep ==
  ASSUME TypeOK, [Next]_vars, NEW c \in Conns
  PROVE  Step(c) \/ Unmoved(c)
<1>1. ASSUME NEW u \in UserIDs, DisconnectUser(u) PROVE Unmoved(c)
  BY <1>1 DEF DisconnectUser, Unmoved, localVars
<1>2. CASE UNCHANGED vars
  BY <1>2 DEF vars, Unmoved, localVars, sessionVars
<1>3. ASSUME NEW d \in Conns, Step(d) PROVE Step(c) \/ Unmoved(c)
  BY <1>3, OthersUnmoved
<1> QED BY <1>1, <1>2, <1>3 DEF Next, Step

-----------------------------------------------------------------------------
(* How c gets where the invariant speaks of it.                            *)

(* Into the part after the clean-up.                                       *)
LEMMA IntoDone ==
  ASSUME TypeOK, [Next]_vars, NEW c \in Conns, pc'[c] \in {"wait", "ended"}
  PROVE  \/ pc[c] \in {"wait", "ended"}
         \/ me[c] = NoUser
         \/ UnregisterOnline(c)
  BY OwnStep, ZenonT(40)
  DEF TypeOK, Unmoved, Step, Request, Handler, Goto, Connect, AuthExhausted,
      AuthFailed, AuthBanned, AuthOK, RegisterOnline, PullNothing, PullSome,
      PushUndelivered, SendTo, RoomRequest, Lookup, Create, Join, Remove, Prune,
      Broadcast, Private, Deliver, ConnLost, ReadError, Scan, LeaveNext, Finish

(* Into the part of the clean-up between scan and unregister.              *)
LEMMA IntoCleaning ==
  ASSUME TypeOK, [Next]_vars, NEW c \in Conns, Cleaning(c)'
  PROVE  \/ Scan(c)
         \/ \E id \in RoomIDs : LeaveNext(c, id)
         \/ Cleaning(c) /\ (Create(c) \/ Remove(c) \/ Prune(c) \/ Unmoved(c))
<1>1. CASE Unmoved(c)
  BY <1>1 DEF Cleaning, Unmoved
<1>2. CASE Create(c) \/ Remove(c) \/ Prune(c)
  BY <1>2 DEF TypeOK, Cleaning, Goto, Create, Remove, Prune, ForgetLocals
<1>3. ASSUME NEW o \in Ops, NEW id \in RoomIDs, RoomRequest(c, o, id)
      PROVE  FALSE
  BY <1>3 DEF TypeOK, Cleaning, Goto, RoomRequest, Lookup
<1>4. CASE ConnLost(c)
  BY <1>4 DEF Cleaning, ConnLost, localVars, Unmoved
<1> QED
  BY <1>1, <1>2, <1>3, <1>4, OwnStep
  DEF TypeOK, Cleaning, Step, Request, Handler, Goto, Connect, AuthExhausted,
      AuthFailed, AuthBanned, AuthOK, RegisterOnline, PullNothing, PullSome,
      PushUndelivered, SendTo, Join, Broadcast, Private, Deliver, ReadError,
      UnregisterOnline, Finish

-----------------------------------------------------------------------------
(* Where entries come from.                                                *)

(* An entry of onlineUsers was there before the step, or is the one        *)
(* registerOnline just made for its own connection.                        *)
LEMMA OnlineSource ==
  ASSUME TypeOK, [Next]_vars, NEW u \in UserIDs, onlineUsers'[u] # NoClient
  PROVE  \/ onlineUsers'[u] = onlineUsers[u]
         \/ \E c \in Conns : RegisterOnline(c) /\ u = me[c] /\ onlineUsers'[u] = c
  BY OnlineWriters DEF TypeOK, RegisterOnline, UnregisterOnline

(* The same for the members of a Room object.                              *)
LEMMA MemberSource ==
  ASSUME TypeOK, [Next]_vars, NEW r \in RoomRefs, NEW u \in UserIDs,
         clients'[r][u] # NoClient
  PROVE  \/ clients'[r][u] = clients[r][u]
         \/ \E c \in Conns : Join(c) /\ u = me[c] /\ clients'[r][u] = c
<1>1. ASSUME NEW c \in Conns, Create(c) PROVE clients'[r][u] = clients[r][u]
  <2>1. PICK q \in RoomRefs : CreateRoom(roomID[c], q, {room[e] : e \in Conns})
    BY <1>1 DEF Create
  <2>2. CASE UNCHANGED roomVars
    BY <2>2 DEF roomVars
  <2>3. CASE NewRoom(roomID[c], q, {room[e] : e \in Conns})
    BY <2>3 DEF NewRoom, NoClients, TypeOK, RoomsTypeOK
  <2> QED BY <2>1, <2>2, <2>3 DEF CreateRoom
<1>2. ASSUME NEW c \in Conns, Join(c)
      PROVE  \/ clients'[r][u] = clients[r][u]
             \/ u = me[c] /\ clients'[r][u] = c
  BY <1>2 DEF TypeOK, RoomsTypeOK, PointersValid, Join, AddClient, Goto
<1>3. ASSUME NEW c \in Conns, Remove(c) PROVE clients'[r][u] = clients[r][u]
  BY <1>3 DEF TypeOK, RoomsTypeOK, PointersValid, Remove, RemoveClient, Goto
<1> QED BY <1>1, <1>2, <1>3, MemberWriters

(* A member of a registered Room that the step did not add was a member of *)
(* the Room registered under that ID before: new rooms are empty.          *)
LEMMA RegisteredMemberSource ==
  ASSUME TypeOK, [Next]_vars, NEW id \in RoomIDs, NEW u \in UserIDs, NEW c \in Conns,
         rooms'[id] # NoRoom, clients'[rooms'[id]][u] = c, ~Join(c)
  PROVE  rooms'[id] = rooms[id] /\ clients[rooms[id]][u] = c
<1>1. TypeOK'
  BY NextType
<1>2. rooms'[id] \in RoomRefs
  BY <1>1 DEF TypeOK, RoomsTypeOK
<1>3. c # NoClient
  BY RoomsAssumption
<1>4. clients[rooms'[id]][u] = c
  BY <1>2, <1>3, MemberSource
<1>5. ASSUME NEW d \in Conns, Create(d) PROVE rooms'[id] = rooms[id]
  <2>1. PICK r \in RoomRefs : CreateRoom(roomID[d], r, {room[e] : e \in Conns})
                             /\ pc[d] = "create"
    BY <1>5 DEF Create, Goto
  <2>2. CASE UNCHANGED roomVars
    BY <2>2 DEF roomVars
  <2>3. CASE NewRoom(roomID[d], r, {room[e] : e \in Conns})
    <3>1. clients'[r][u] = NoClient
      BY <2>3 DEF NewRoom, NoClients, TypeOK, RoomsTypeOK
    <3>2. rooms'[id] # r
      BY <3>1, <1>3
    <3> QED BY <2>1, <2>3, <3>2 DEF NewRoom, TypeOK, RoomsTypeOK, PointersValid
  <2> QED BY <2>1, <2>2, <2>3 DEF CreateRoom
<1>6. ASSUME NEW d \in Conns, Prune(d) PROVE rooms'[id] = rooms[id]
  BY <1>6 DEF Prune, RemoveEmptyRoom, TypeOK, RoomsTypeOK
<1> QED BY <1>4, <1>5, <1>6, RegistryWriters

-----------------------------------------------------------------------------
(* The induction.                                                          *)

(* Initially there is no session and no entry.                             *)
LEMMA InitIInv == Init => IInv
<1> SUFFICES ASSUME Init PROVE IInv
  OBVIOUS
<1>1. TypeOK
  BY InitType
<1>2. MeAuthenticated
  BY GatewayAssumption DEF Init, MeAuthenticated
<1>3. RoutedToAuthenticated
  BY DEF Init, RoomsInit, NoClients, RoutedToAuthenticated
<1>4. CleanUpOnTrack
  BY DEF Init, RoomsInit, CleanUpOnTrack
<1>5. CleanUpDone
  BY DEF Init, RoomsInit, CleanUpDone
<1> QED BY <1>1, <1>2, <1>3, <1>4, <1>5 DEF IInv

(* Identities accumulate, so a connection with one identity had one.       *)
LEMMA IdentitiesGrow ==
  ASSUME TypeOK, [Next]_vars, NEW c \in Conns
  PROVE  /\ authedAs[c] \subseteq authedAs'[c]
         /\ Switched(c) => Switched(c)'
<1>1. authedAs[c] \subseteq authedAs'[c]
  BY IdentityWriters DEF TypeOK, AuthOK
<1> QED BY <1>1 DEF Switched

(* MeAuthenticated is kept.                                                *)
LEMMA MeStep ==
  ASSUME TypeOK, MeAuthenticated, [Next]_vars
  PROVE  MeAuthenticated'
<1>1. CASE UNCHANGED <<me, authedAs>>
  BY <1>1 DEF MeAuthenticated
<1>2. ASSUME NEW c \in Conns, NEW u \in UserIDs, AuthOK(c, u) PROVE MeAuthenticated'
  BY <1>2, GatewayAssumption DEF MeAuthenticated, TypeOK, AuthOK
<1> QED BY <1>1, <1>2, IdentityWriters

(* RoutedToAuthenticated is kept: an entry is made for the identity the    *)
(* connection has at that moment, and identities are never taken away.     *)
LEMMA RoutedStep ==
  ASSUME TypeOK, MeAuthenticated, RoutedToAuthenticated, [Next]_vars
  PROVE  RoutedToAuthenticated'
<1>1. TypeOK'
  BY NextType
<1>2. ASSUME NEW u \in UserIDs, onlineUsers'[u] # NoClient
      PROVE  u \in authedAs'[onlineUsers'[u]]
  <2>1. onlineUsers'[u] \in Conns
    BY <1>1, <1>2 DEF TypeOK
  <2>2. u \in authedAs[onlineUsers'[u]]
    BY <1>2, OnlineSource, GatewayAssumption
    DEF RoutedToAuthenticated, MeAuthenticated
  <2> QED BY <2>1, <2>2, IdentitiesGrow
<1>3. ASSUME NEW r \in RoomRefs, NEW u \in UserIDs, clients'[r][u] # NoClient
      PROVE  u \in authedAs'[clients'[r][u]]
  <2>1. clients'[r][u] \in Conns
    BY <1>1, <1>3 DEF TypeOK, RoomsTypeOK
  <2>2. u \in authedAs[clients'[r][u]]
    BY <1>3, MemberSource, GatewayAssumption
    DEF RoutedToAuthenticated, MeAuthenticated
  <2> QED BY <2>1, <2>2, IdentitiesGrow
<1>4. ASSUME NEW c \in Conns, pc'[c] = "push"
      PROVE  me'[c] \in authedAs'[target'[c]]
  <2>1. \/ PullSome(c)
        \/ pc[c] = "push" /\ me'[c] = me[c] /\ target'[c] = target[c]
    BY <1>4, OwnStep
    DEF TypeOK, Unmoved, Step, Request, Handler, Goto, Connect, AuthExhausted,
        AuthFailed, AuthBanned, AuthOK, RegisterOnline, PullNothing,
        PushUndelivered, SendTo, RoomRequest, Lookup, Create, Join, Remove, Prune,
        Broadcast, Private, Deliver, ConnLost, ReadError, Scan, LeaveNext,
        UnregisterOnline, Finish, localVars
  <2>2. CASE PullSome(c)
    <3>1. target'[c] = onlineUsers[me[c]] /\ me' = me /\ authedAs' = authedAs
          /\ onlineUsers[me[c]] # NoClient /\ me[c] \in UserIDs
      BY <2>2 DEF PullSome, TypeOK, PointersValid, Goto, sessionVars
    <3> QED BY <3>1 DEF RoutedToAuthenticated
  <2>3. CASE pc[c] = "push" /\ me'[c] = me[c] /\ target'[c] = target[c]
    <3>1. target[c] \in Conns /\ me[c] \in authedAs[target[c]]
      BY <2>3 DEF TypeOK, PointersValid, RoutedToAuthenticated
    <3> QED BY <2>3, <3>1, IdentitiesGrow
  <2> QED BY <2>1, <2>2, <2>3
<1> QED BY <1>2, <1>3, <1>4 DEF RoutedToAuthenticated

(* A connection with one identity has entries under that identity only.    *)
LEMMA EntriesUnderMe ==
  ASSUME TypeOK, MeAuthenticated, RoutedToAuthenticated,
         NEW c \in Conns, ~Switched(c), NEW u \in UserIDs
  PROVE  /\ onlineUsers[u] = c => u = me[c]
         /\ \A r \in RoomRefs : clients[r][u] = c => u = me[c]
<1>1. u \in authedAs[c] => u = me[c]
  BY DEF Switched, MeAuthenticated, TypeOK
<1> QED BY <1>1, RoomsAssumption DEF RoutedToAuthenticated

(* CleanUpOnTrack is kept: only c adds c, c no longer does, and an entry   *)
(* that disappears (another session of the user overwrote or deleted it,   *)
(* or the room was dropped empty and created again) leaves less to remove. *)
LEMMA OnTrackStep ==
  ASSUME IInv, [Next]_vars
  PROVE  CleanUpOnTrack'
<1> USE DEF IInv
<1> SUFFICES ASSUME NEW c \in Conns, Cleaning(c)', ~Switched(c)',
                    NEW id \in RoomIDs, NEW u \in UserIDs,
                    rooms'[id] # NoRoom, clients'[rooms'[id]][u] = c
             PROVE  Pending(c, id)'
  BY DEF CleanUpOnTrack, Members
<1>1. ~Switched(c)
  BY IdentitiesGrow
<1>2. ~Join(c)
  BY DEF Join, Goto, Cleaning, TypeOK
<1>3. rooms'[id] = rooms[id] /\ clients[rooms[id]][u] = c
  BY <1>2, RegisteredMemberSource
<1>4. rooms[id] \in RoomRefs /\ c \in Members(rooms[id]) /\ u = me[c]
  BY <1>1, <1>3, RoomsAssumption, EntriesUnderMe DEF TypeOK, RoomsTypeOK, Members
<1>5. CASE Scan(c)
  BY <1>3, <1>4, <1>5, RoomsAssumption
  DEF Scan, RoomsContaining, Pending, TypeOK, RoomsTypeOK
<1>6. ASSUME Cleaning(c) PROVE Pending(c, id)
  BY <1>1, <1>3, <1>4, <1>6 DEF CleanUpOnTrack
<1>7. ASSUME NEW id0 \in RoomIDs, LeaveNext(c, id0) PROVE Pending(c, id)'
  <2>1. id \in todo[c]
    BY <1>6, <1>7 DEF LeaveNext, Lookup, Goto, Cleaning, Pending
  <2>2. CASE id = id0
    BY <1>3, <1>7, <2>2 DEF LeaveNext, Lookup, Goto, Pending, TypeOK
  <2>3. CASE id # id0
    BY <1>7, <2>1, <2>3 DEF LeaveNext, Pending, TypeOK
  <2> QED BY <2>2, <2>3
<1>8. CASE Cleaning(c) /\ Create(c)
  BY <1>6, <1>8 DEF Create, Goto, Pending, TypeOK
<1>9. CASE Cleaning(c) /\ Remove(c)
  <2>1. ASSUME room[c] = rooms[id] PROVE FALSE
    <3>1. clients'[rooms[id]][me[c]] = NoClient
      BY <1>4, <1>9, <2>1 DEF Remove, RemoveClient, TypeOK, RoomsTypeOK
    <3> QED BY <1>3, <1>4, <3>1, RoomsAssumption
  <2> QED BY <1>6, <1>9, <2>1 DEF Remove, Pending
<1>10. CASE Cleaning(c) /\ Prune(c)
  <2>1. id \in todo[c]
    BY <1>6, <1>10 DEF Prune, Pending
  <2>2. op[c] = "cleanup"
    BY <1>10 DEF Cleaning, Prune
  <2> QED BY <1>10, <2>1, <2>2 DEF Prune, Pending
<1>11. CASE Cleaning(c) /\ Unmoved(c)
  BY <1>3, <1>6, <1>11 DEF Unmoved, Pending
<1> QED BY <1>5, <1>7, <1>8, <1>9, <1>10, <1>11, IntoCleaning

(* CleanUpDone is kept, and is reached through the end of the clean-up     *)
(* loop, when nothing is pending.                                          *)
LEMMA DoneStep ==
  ASSUME IInv, [Next]_vars
  PROVE  CleanUpDone'
<1> USE DEF IInv
<1> SUFFICES ASSUME NEW c \in Conns, pc'[c] \in {"wait", "ended"}, ~Switched(c)'
             PROVE  /\ \A u \in UserIDs : onlineUsers'[u] # c
                    /\ \A id \in RoomIDs, u \in UserIDs :
                         ~(rooms'[id] # NoRoom /\ clients'[rooms'[id]][u] = c)
  BY DEF CleanUpDone, Members
<1>1. ~Switched(c)
  BY IdentitiesGrow
<1>2. ~Join(c) /\ ~RegisterOnline(c)
  BY DEF Join, RegisterOnline, Goto, TypeOK
<1>3. ASSUME NEW u \in UserIDs, onlineUsers'[u] = c PROVE onlineUsers[u] = c
  BY <1>2, <1>3, OnlineSource, RoomsAssumption
<1>4. ASSUME NEW id \in RoomIDs, NEW u \in UserIDs,
             rooms'[id] # NoRoom, clients'[rooms'[id]][u] = c
      PROVE  rooms[id] \in RoomRefs /\ clients[rooms[id]][u] = c
             /\ rooms[id] # NoRoom /\ c \in Members(rooms[id])
  BY <1>2, <1>4, RegisteredMemberSource, RoomsAssumption
  DEF TypeOK, RoomsTypeOK, Members
<1>5. CASE pc[c] \in {"wait", "ended"}
  BY <1>1, <1>3, <1>4, <1>5 DEF CleanUpDone
<1>6. CASE me[c] = NoUser
  BY <1>1, <1>3, <1>4, <1>6, EntriesUnderMe, GatewayAssumption
<1>7. CASE UnregisterOnline(c)
  <2>1. ASSUME NEW u \in UserIDs, onlineUsers'[u] = c PROVE FALSE
    <3>1. u = me[c]
      BY <1>1, <1>3, <2>1, EntriesUnderMe
    <3> QED BY <1>7, <2>1, <3>1, RoomsAssumption DEF UnregisterOnline, TypeOK
  <2>2. ASSUME NEW id \in RoomIDs, NEW u \in UserIDs,
               rooms'[id] # NoRoom, clients'[rooms'[id]][u] = c
        PROVE  FALSE
    <3>1. Pending(c, id)
      BY <1>1, <1>4, <1>7, <2>2 DEF CleanUpOnTrack, Cleaning, UnregisterOnline, Goto
    <3> QED BY <1>7, <3>1 DEF Pending, UnregisterOnline, Goto
  <2> QED BY <2>1, <2>2
<1> QED BY <1>5, <1>6, <1>7, IntoDone

(* The clean-up stays on track whoever moves.                              *)
LEMMA NextIInv == IInv /\ [Next]_vars => IInv'
  BY NextType, MeStep, RoutedStep, OnTrackStep, DoneStep DEF IInv

(* The inductive invariant of the clean-up and of the routing holds.       *)
THEOREM IInvHolds == Spec => []IInv
  BY InitIInv, NextIInv, PTL DEF Spec

(* The clean-up of HandleWS is complete: neither registry leads to the     *)
(* closed channel of a connection that kept one identity, for any number   *)
(* of concurrent sessions of any users in any rooms.                       *)
THEOREM CleanUpComplete == Spec => []NoDanglingClient
<1>1. IInv => NoDanglingClient
  BY DEF IInv, CleanUpDone, NoDanglingClient, EndedCleanly
<1> QED BY <1>1, IInvHolds, PTL

(* What is sent to a user, directly, from the store or through a room,     *)
(* goes to a connection that authenticated as that user.                   *)
THEOREM RoutingCorrect == Spec => []RoutedToAuthenticated
<1>1. IInv => RoutedToAuthenticated
  BY DEF IInv
<1> QED BY <1>1, IInvHolds, PTL

-----------------------------------------------------------------------------
(* Who is off the list of online users.                                    *)

(* The user of c was deleted by the clean-up of another session.           *)
TakenOff(c) ==
  \E d \in Conns \ {c} : me[d] = me[c] /\ pc[d] \in {"wait", "ended"}

(* UnlistedExplained for the whole time between registration and the       *)
(* handler's own unregisterOnline.                                         *)
Unlisted(c) ==
  /\ me[c] # NoUser
  /\ pc[c] \notin {"register", "wait", "ended", "panicked"}
  /\ onlineUsers[me[c]] = NoClient

UnlistedInv == \A c \in Conns : Unlisted(c) => TakenOff(c)

(* A handler leaves the end of its clean-up for nowhere, and comes from    *)
(* "auth" to its requests by registering.                                  *)
LEMMA EndsStay ==
  ASSUME TypeOK, [Next]_vars, NEW c \in Conns
  PROVE  /\ pc[c] \in {"wait", "ended"} => pc'[c] \in {"wait", "ended"} /\ me'[c] = me[c]
         /\ pc[c] = "panicked" => pc'[c] = "panicked"
         /\ pc[c] = "register" => pc'[c] = "register" \/ RegisterOnline(c)
         /\ me'[c] # me[c] => pc'[c] = "register"
<1> USE DEF TypeOK, Goto, sessionVars
<1>1. CASE Unmoved(c)
  BY <1>1 DEF Unmoved
<1>2. CASE Connect(c) \/ ConnLost(c) \/ ReadError(c)
  BY <1>2 DEF Connect, ConnLost, ReadError
<1>3. CASE AuthExhausted(c) \/ AuthFailed(c) \/ AuthBanned(c)
  BY <1>3 DEF AuthExhausted, AuthFailed, AuthBanned
<1>4. ASSUME NEW u \in UserIDs, AuthOK(c, u) \/ Private(c, u)
      PROVE  /\ pc[c] = "read"
             /\ me'[c] # me[c] => pc'[c] = "register"
  BY <1>4 DEF AuthOK, Private
<1>5. ASSUME NEW o \in Ops, NEW id \in RoomIDs, RoomRequest(c, o, id)
      PROVE  pc[c] = "read" /\ UNCHANGED me
  BY <1>5 DEF RoomRequest, Lookup
<1>6. CASE RegisterOnline(c) \/ PullNothing(c) \/ PullSome(c)
  BY <1>6 DEF RegisterOnline, PullNothing, PullSome
<1>7. ASSUME PushUndelivered(c) \/ Broadcast(c) \/ Deliver(c)
      PROVE  pc[c] \in {"push", "apply", "deliver"} /\ UNCHANGED me
  BY <1>7 DEF PushUndelivered, Broadcast, Deliver, SendTo, Deferred
<1>8. CASE Create(c) \/ Join(c) \/ Remove(c) \/ Prune(c)
  BY <1>8 DEF Create, Join, Remove, Prune
<1>9. CASE Scan(c) \/ UnregisterOnline(c) \/ Finish(c)
  BY <1>9 DEF Scan, UnregisterOnline, Finish, Deferred
<1>10. ASSUME NEW id \in RoomIDs, LeaveNext(c, id)
       PROVE  pc[c] = "leaveall" /\ UNCHANGED me
  BY <1>10 DEF LeaveNext, Lookup
<1> QED BY <1>1, <1>2, <1>3, <1>4, <1>5, <1>6, <1>7, <1>8, <1>9, <1>10, OwnStep
        DEF Step, Request, Handler

(* An entry goes only by the clean-up of a session of its user.            *)
LEMMA UnlistedStep == TypeOK /\ UnlistedInv /\ [Next]_vars => UnlistedInv'
<1> SUFFICES ASSUME TypeOK, UnlistedInv, [Next]_vars, NEW c \in Conns, Unlisted(c)'
             PROVE  TakenOff(c)'
  BY DEF UnlistedInv
<1>1. me'[c] = me[c] /\ me[c] \in UserIDs
  <2>1. TypeOK'
    BY NextType
  <2> QED BY <2>1, EndsStay DEF Unlisted, TypeOK
<1>2. pc[c] \notin {"wait", "ended", "panicked"} /\ ~RegisterOnline(c)
  BY <1>1, EndsStay, RoomsAssumption DEF Unlisted, RegisterOnline, TypeOK
<1>3. pc[c] # "register"
  BY <1>2, EndsStay DEF Unlisted
<1>4. CASE Unlisted(c)
  <2>1. PICK d \in Conns \ {c} : me[d] = me[c] /\ pc[d] \in {"wait", "ended"}
    BY <1>4 DEF UnlistedInv, TakenOff
  <2>2. me'[d] = me[d] /\ pc'[d] \in {"wait", "ended"}
    BY <2>1, EndsStay
  <2> QED BY <1>1, <2>1, <2>2 DEF TakenOff
<1>5. CASE ~Unlisted(c)
  <2>1. onlineUsers[me[c]] # NoClient /\ onlineUsers'[me[c]] = NoClient
    BY <1>1, <1>2, <1>3, <1>5 DEF Unlisted
  <2>2. PICK d \in Conns : RegisterOnline(d) \/ UnregisterOnline(d)
    BY <2>1, OnlineWriters
  <2>3. ~RegisterOnline(d)
    BY <1>1, <2>1, RoomsAssumption DEF RegisterOnline, TypeOK
  <2>4. me[d] = me[c] /\ pc'[d] = "wait" /\ me'[d] = me[d]
    BY <1>1, <2>1, <2>2, <2>3 DEF UnregisterOnline, Goto, TypeOK, sessionVars
  <2>5. d # c
    BY <2>4 DEF Unlisted
  <2> QED BY <1>1, <2>4, <2>5 DEF TakenOff
<1> QED BY <1>4, <1>5

(* A live session is off the list only when another session of its user    *)
(* has been through its clean-up, in whatever order sessions, bans and     *)
(* changes of identity come.                                               *)
THEOREM UnlistedHolds == Spec => []UnlistedExplained
<1>1. Init => UnlistedInv
  BY DEF Init, UnlistedInv, Unlisted
<1>2. UnlistedInv => UnlistedExplained
  BY DEF UnlistedInv, Unlisted, TakenOff, UnlistedExplained
<1> QED BY <1>1, <1>2, InitType, NextType, UnlistedStep, PTL DEF Spec
=============================================================================
