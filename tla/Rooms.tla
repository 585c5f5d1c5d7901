------------------------------- MODULE Rooms -------------------------------
(***************************************************************************)
(* The room registry of internal/gateway/room.go: the package-level map    *)
(* `rooms` and the `clients` map inside every Room object.                 *)
(*                                                                         *)
(* Every action below is the body of ONE critical section: what room.go    *)
(* does between taking roomsMu (or the Room's own mu) and releasing it.    *)
(* getOrCreateRoom has two, a read under RLock (the module Gateway's       *)
(* Lookup) and a second look under Lock (CreateRoom), and its caller uses  *)
(* the pointer it returns after both locks are gone.  Gateway says in      *)
(* which order a connection's handler goes through them.                   *)
(*                                                                         *)
(* A *Room is an identity in RoomRefs, so that a handler can hold a        *)
(* pointer to an object the map no longer has.                             *)
(***************************************************************************)
CONSTANTS
  Conns,      (* WebSocket connections: one HandleWS call each              *)
  UserIDs,    (* user identifiers, the keys of Room.clients                 *)
  RoomIDs,    (* room names chosen by the clients                           *)
  RoomRefs,   (* identities of *Room objects                                *)
  NoRoom,     (* nil *Room                                                  *)
  NoClient    (* nil *Client: no entry in a map                             *)

ASSUME RoomsAssumption ==
  /\ NoRoom \notin RoomRefs
  /\ NoClient \notin Conns

VARIABLES
  rooms,      (* map[string]*Room                                           *)
  clients     (* Room.clients: user ID -> *Client; a Client is told apart   *)
              (* by its connection                                          *)

roomVars == <<rooms, clients>>

NoClients == [u \in UserIDs |-> NoClient]

RoomsTypeOK ==
  /\ rooms \in [RoomIDs -> RoomRefs \cup {NoRoom}]
  /\ clients \in [RoomRefs -> [UserIDs -> Conns \cup {NoClient}]]

RoomsInit ==
  /\ rooms = [id \in RoomIDs |-> NoRoom]
  /\ clients = [r \in RoomRefs |-> NoClients]

Registered == {rooms[id] : id \in RoomIDs} \ {NoRoom}

(* The rooms whose clients map has an entry for user u: the scan HandleWS   *)
(* makes under roomsMu.RLock when a connection ends.  The entry is found by *)
(* user ID, whichever connection it points to.                              *)
RoomsContaining(u) ==
  {id \in RoomIDs : rooms[id] # NoRoom /\ clients[rooms[id]][u] # NoClient}

(* The connections a broadcast on room object r writes to.                  *)
Members(r) == {clients[r][u] : u \in UserIDs} \ {NoClient}

-----------------------------------------------------------------------------

(* newRoom: an identity nobody refers to, neither the map nor one of the    *)
(* pointers in `held`; a Room object that is dropped by all may come back   *)
(* as a new one, which is what the garbage collector makes of its memory.   *)
NewRoom(id, r, held) ==
  LET Free == RoomRefs \ (Registered \cup held)
  IN  /\ Free # {}
      /\ r = CHOOSE f \in Free : TRUE
      /\ rooms' = [rooms EXCEPT ![id] = r]
      /\ clients' = [clients EXCEPT ![r] = NoClients]

(* Mutant: getOrCreateRoom without the second look under the write lock.    *)
CreateRoom_NoRecheck(id, r, held) == NewRoom(id, r, held)

(* getOrCreateRoom under roomsMu.Lock: look again, create only if the room  *)
(* is still missing; r is the pointer returned.                             *)
CreateRoom(id, r, held) ==
  \/ rooms[id] # NoRoom /\ r = rooms[id] /\ UNCHANGED roomVars
  \/ rooms[id] = NoRoom /\ NewRoom(id, r, held)

(* Room.addClient: the entry of the user is overwritten.                    *)
AddClient(r, u, c) ==
  /\ clients' = [clients EXCEPT ![r][u] = c]
  /\ UNCHANGED rooms

(* Room.removeClient: delete by user ID, whichever client the entry holds.  *)
RemoveClient(r, u) ==
  /\ clients' = [clients EXCEPT ![r][u] = NoClient]
  /\ UNCHANGED rooms

(* removeEmptyRoom: check and delete under roomsMu.Lock.                    *)
RemoveEmptyRoom(id) ==
  /\ \/ /\ rooms[id] # NoRoom
        /\ Members(rooms[id]) = {}
        /\ rooms' = [rooms EXCEPT ![id] = NoRoom]
     \/ /\ rooms[id] # NoRoom => Members(rooms[id]) # {}
        /\ UNCHANGED rooms
  /\ UNCHANGED clients
=============================================================================
