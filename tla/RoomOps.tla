------------------------------ MODULE RoomOps ------------------------------
(***************************************************************************)
(* What the operations of internal/gateway/room.go promise their callers:  *)
(* each is a short sequence of steps, and every step happens at one        *)
(* moment.  The module Gateway is built from these steps; the module       *)
(* RoomLocks shows that the code with its two kinds of locks implements    *)
(* them.                                                                   *)
(*                                                                         *)
(* join, leave and send find the Room first and use the pointer later.     *)
(* The scan of the clean-up is no single step: it looks at the Rooms one   *)
(* after the other.                                                        *)
(***************************************************************************)
EXTENDS Rooms

CONSTANT UserOf   (* the user a connection is authenticated as             *)

VARIABLES
  at,       (* the step a connection's handler is about to make            *)
  op,       (* the operation it is in                                      *)
  roomID,   (* its argument                                                *)
  ptr,      (* the *Room it found                                          *)
  todo,     (* rooms a scan has not looked at                              *)
  result    (* what the last operation gave: the connections a broadcast   *)
            (* was sent to, the rooms a scan or GetRoomIDs found           *)

callVars == <<at, op, roomID, ptr, todo, result>>
vars == <<roomVars, callVars>>

Init ==
  /\ RoomsInit
  /\ at = [c \in Conns |-> "idle"]
  /\ op = [c \in Conns |-> "none"]
  /\ roomID = [c \in Conns |-> NoRoom]
  /\ ptr = [c \in Conns |-> NoRoom]
  /\ todo = [c \in Conns |-> {}]
  /\ result = [c \in Conns |-> {}]

Goto(c, from, to) == at[c] = from /\ at' = [at EXCEPT ![c] = to]

(* The operation returns v, and its locals go out of scope.                *)
Return(c, from, v) ==
  /\ Goto(c, from, "idle")
  /\ op' = [op EXCEPT ![c] = "none"]
  /\ roomID' = [roomID EXCEPT ![c] = NoRoom]
  /\ ptr' = [ptr EXCEPT ![c] = NoRoom]
  /\ todo' = [todo EXCEPT ![c] = {}]
  /\ result' = [result EXCEPT ![c] = v]

Call(c, o, id) ==
  /\ \/ o \in {"join", "leave", "send"} /\ id \in RoomIDs /\ Goto(c, "idle", "lookup")
     \/ o \in {"scan", "list"} /\ id = NoRoom /\ Goto(c, "idle", o)
  /\ op' = [op EXCEPT ![c] = o]
  /\ roomID' = [roomID EXCEPT ![c] = id]
  /\ result' = [result EXCEPT ![c] = {}]
  /\ UNCHANGED <<roomVars, ptr, todo>>

Lookup(c) ==
  /\ at[c] = "lookup"
  /\ \/ rooms[roomID[c]] = NoRoom /\ Goto(c, "lookup", "create")
     \/ rooms[roomID[c]] # NoRoom /\ Goto(c, "lookup", "apply")
  /\ ptr' = [ptr EXCEPT ![c] = rooms[roomID[c]]]
  /\ UNCHANGED <<roomVars, op, roomID, todo, result>>

Create(c) ==
  \E r \in RoomRefs :
    /\ Goto(c, "create", "apply")
    /\ CreateRoom(roomID[c], r, {ptr[d] : d \in Conns})
    /\ ptr' = [ptr EXCEPT ![c] = r]
    /\ UNCHANGED <<op, roomID, todo, result>>

Join(c) ==
  /\ op[c] = "join"
  /\ Return(c, "apply", {})
  /\ AddClient(ptr[c], UserOf[c], c)

Remove(c) ==
  /\ op[c] = "leave"
  /\ Goto(c, "apply", "prune")
  /\ RemoveClient(ptr[c], UserOf[c])
  /\ ptr' = [ptr EXCEPT ![c] = NoRoom]
  /\ UNCHANGED <<op, roomID, todo, result>>

Prune(c) ==
  /\ Return(c, "prune", {})
  /\ RemoveEmptyRoom(roomID[c])

(* All members of one moment, and nobody else.                             *)
Broadcast(c) ==
  /\ op[c] = "send"
  /\ Return(c, "apply", Members(ptr[c]))
  /\ UNCHANGED roomVars

(* A member's channel is closed: the send panics.                          *)
BroadcastPanics(c) ==
  /\ at[c] = "apply" /\ op[c] = "send"
  /\ Members(ptr[c]) # {}
  /\ Return(c, "apply", {})
  /\ UNCHANGED roomVars

List(c) ==
  /\ Return(c, "list", {id \in RoomIDs : rooms[id] # NoRoom})
  /\ UNCHANGED roomVars

ScanBegin(c) ==
  /\ Goto(c, "scan", "look")
  /\ todo' = [todo EXCEPT ![c] = {id \in RoomIDs : rooms[id] # NoRoom}]
  /\ UNCHANGED <<roomVars, op, roomID, ptr, result>>

(* The scan looks at one Room, which is still registered.                  *)
Look(c, id) ==
  /\ at[c] = "look" /\ id \in todo[c]
  /\ rooms[id] # NoRoom
  /\ todo' = [todo EXCEPT ![c] = @ \ {id}]
  /\ result' = [result EXCEPT ![c] = @ \cup (RoomsContaining(UserOf[c]) \cap {id})]
  /\ UNCHANGED <<roomVars, at, op, roomID, ptr>>

ScanEnd(c) ==
  /\ todo[c] = {}
  /\ Return(c, "look", result[c])
  /\ UNCHANGED roomVars

Next ==
  \E c \in Conns :
    \/ \E o \in {"join", "leave", "send", "scan", "list"},
          id \in RoomIDs \cup {NoRoom} : Call(c, o, id)
    \/ Lookup(c) \/ Create(c) \/ Join(c) \/ Remove(c) \/ Prune(c)
    \/ Broadcast(c) \/ BroadcastPanics(c) \/ List(c)
    \/ ScanBegin(c) \/ ScanEnd(c) \/ \E id \in RoomIDs : Look(c, id)

Spec == Init /\ [][Next]_vars
=============================================================================
