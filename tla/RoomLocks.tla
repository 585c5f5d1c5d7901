----------------------------- MODULE RoomLocks -----------------------------
(***************************************************************************)
(* internal/gateway/room.go at the level of its locks: roomsMu around the  *)
(* map of rooms, and in every Room a mu around its clients.  The steps of  *)
(* an operation are those of RoomOps, taken apart where the code works     *)
(* under a lock for more than one access: broadcast sends to one member    *)
(* after the other, removeEmptyRoom counts under the Room's lock, releases *)
(* it and deletes afterwards, and the scan of the clean-up takes the lock  *)
(* of every Room in turn.                                                  *)
(*                                                                         *)
(* External, from sync.RWMutex: a writer that has called Lock keeps new    *)
(* readers out while it waits for the old ones, Unlock lets all waiting    *)
(* readers in before the next writer, and waiting writers get their turn.  *)
(***************************************************************************)
EXTENDS Rooms

CONSTANTS
  UserOf,     (* the user a connection is authenticated as                 *)
  roomsMu     (* the lock of the map; the lock of a Room is its identity   *)

ASSUME RoomLocksAssumption ==
  /\ UserOf \in [Conns -> UserIDs]
  /\ roomsMu \notin RoomRefs

VARIABLES
  at, op, roomID, ptr, todo, result,  (* as in RoomOps; further values of  *)
                                      (* at: "delete", "keep"              *)
  sent,     (* members the broadcast has sent to                           *)
  owner,    (* by lock: the writer that holds or waits for it              *)
  readers,  (* by lock: who reads under it                                 *)
  blocked   (* by lock: readers that wait for the writer                   *)

callVars == <<at, op, roomID, ptr, todo, result, sent>>
lockVars == <<owner, readers, blocked>>
vars == <<roomVars, callVars, lockVars>>

Locks == RoomRefs \cup {roomsMu}

Init ==
  /\ RoomsInit
  /\ at = [c \in Conns |-> "idle"]
  /\ op = [c \in Conns |-> "none"]
  /\ roomID = [c \in Conns |-> NoRoom]
  /\ ptr = [c \in Conns |-> NoRoom]
  /\ todo = [c \in Conns |-> {}]
  /\ result = [c \in Conns |-> {}]
  /\ sent = [c \in Conns |-> {}]
  /\ owner = [l \in Locks |-> NoClient]
  /\ readers = [l \in Locks |-> {}]
  /\ blocked = [l \in Locks |-> {}]

-----------------------------------------------------------------------------
(* sync.RWMutex.                                                           *)

Lock(c, l) ==
  /\ owner[l] = NoClient
  /\ owner' = [owner EXCEPT ![l] = c]
  /\ UNCHANGED <<readers, blocked>>

Locked(c, l) == owner[l] = c /\ readers[l] = {}

Unlock(l) ==
  /\ owner' = [owner EXCEPT ![l] = NoClient]
  /\ readers' = [readers EXCEPT ![l] = blocked[l]]
  /\ blocked' = [blocked EXCEPT ![l] = {}]

RLock(c, l) ==
  /\ c \notin readers[l] \cup blocked[l]
  /\ \/ owner[l] = NoClient
        /\ readers' = [readers EXCEPT ![l] = @ \cup {c}] /\ UNCHANGED blocked
     \/ owner[l] # NoClient
        /\ blocked' = [blocked EXCEPT ![l] = @ \cup {c}] /\ UNCHANGED readers
  /\ UNCHANGED owner

RLocked(c, l) == c \in readers[l]

RUnlock(c, l) ==
  /\ readers' = [readers EXCEPT ![l] = @ \ {c}]
  /\ UNCHANGED <<owner, blocked>>

-----------------------------------------------------------------------------
(* Taking a lock.                                                          *)

(* getOrCreateRoom, GetRoomIDs and the scan read the map.                  *)
RLockRooms(c) ==
  /\ at[c] \in {"lookup", "list", "scan"}
  /\ RLock(c, roomsMu)
  /\ UNCHANGED <<roomVars, callVars>>

(* getOrCreateRoom and removeEmptyRoom write it.                           *)
LockRooms(c) ==
  /\ at[c] \in {"create", "prune"}
  /\ Lock(c, roomsMu)
  /\ UNCHANGED <<roomVars, callVars>>

(* addClient and removeClient, on the Room found before.                   *)
LockRoom(c) ==
  /\ at[c] = "apply" /\ op[c] \in {"join", "leave"}
  /\ Lock(c, ptr[c])
  /\ UNCHANGED <<roomVars, callVars>>

(* broadcast.                                                              *)
RLockRoom(c) ==
  /\ at[c] = "apply" /\ op[c] = "send"
  /\ RLock(c, ptr[c])
  /\ UNCHANGED <<roomVars, callVars>>

(* removeEmptyRoom, inside the lock of the map.                            *)
LockCount(c) ==
  /\ at[c] = "prune" /\ Locked(c, roomsMu)
  /\ rooms[roomID[c]] # NoRoom
  /\ Lock(c, rooms[roomID[c]])
  /\ UNCHANGED <<roomVars, callVars>>

(* The scan, inside the lock of the map, one Room at a time.               *)
RLockLook(c, id) ==
  /\ at[c] = "look" /\ id \in todo[c]
  /\ \A r \in RoomRefs : c \notin readers[r] \cup blocked[r]
  /\ RLock(c, rooms[id])
  /\ UNCHANGED <<roomVars, callVars>>

-----------------------------------------------------------------------------
(* The steps under the locks; the last one of a section releases it.       *)

Goto(c, from, to) == at[c] = from /\ at' = [at EXCEPT ![c] = to]

Return(c, from, v) ==
  /\ Goto(c, from, "idle")
  /\ op' = [op EXCEPT ![c] = "none"]
  /\ roomID' = [roomID EXCEPT ![c] = NoRoom]
  /\ ptr' = [ptr EXCEPT ![c] = NoRoom]
  /\ todo' = [todo EXCEPT ![c] = {}]
  /\ result' = [result EXCEPT ![c] = v]
  /\ sent' = [sent EXCEPT ![c] = {}]

Call(c, o, id) ==
  /\ \/ o \in {"join", "leave", "send"} /\ id \in RoomIDs /\ Goto(c, "idle", "lookup")
     \/ o \in {"scan", "list"} /\ id = NoRoom /\ Goto(c, "idle", o)
  /\ op' = [op EXCEPT ![c] = o]
  /\ roomID' = [roomID EXCEPT ![c] = id]
  /\ result' = [result EXCEPT ![c] = {}]
  /\ UNCHANGED <<roomVars, ptr, todo, sent, lockVars>>

(* Mutant: getOrCreateRoom takes the write lock inside the read lock.      *)
Lookup_Upgrade(c) ==
  /\ at[c] = "lookup" /\ RLocked(c, roomsMu)
  /\ \/ /\ rooms[roomID[c]] = NoRoom /\ Goto(c, "lookup", "create")
        /\ UNCHANGED lockVars
     \/ /\ rooms[roomID[c]] # NoRoom /\ Goto(c, "lookup", "apply")
        /\ RUnlock(c, roomsMu)
  /\ ptr' = [ptr EXCEPT ![c] = rooms[roomID[c]]]
  /\ UNCHANGED <<roomVars, op, roomID, todo, result, sent>>

Lookup(c) ==
  /\ at[c] = "lookup" /\ RLocked(c, roomsMu)
  /\ \/ rooms[roomID[c]] = NoRoom /\ Goto(c, "lookup", "create")
     \/ rooms[roomID[c]] # NoRoom /\ Goto(c, "lookup", "apply")
  /\ ptr' = [ptr EXCEPT ![c] = rooms[roomID[c]]]
  /\ RUnlock(c, roomsMu)
  /\ UNCHANGED <<roomVars, op, roomID, todo, result, sent>>

Create(c) ==
  \E r \in RoomRefs :
    /\ Locked(c, roomsMu)
    /\ Goto(c, "create", "apply")
    /\ CreateRoom(roomID[c], r, {ptr[d] : d \in Conns})
    /\ ptr' = [ptr EXCEPT ![c] = r]
    /\ Unlock(roomsMu)
    /\ UNCHANGED <<op, roomID, todo, result, sent>>

Join(c) ==
  /\ op[c] = "join"
  /\ at[c] = "apply" /\ Locked(c, ptr[c])
  /\ AddClient(ptr[c], UserOf[c], c)
  /\ Unlock(ptr[c])
  /\ Return(c, "apply", {})

(* Mutant: removeClient without the Room's lock.                           *)
Remove_Unlocked(c) ==
  /\ op[c] = "leave"
  /\ Goto(c, "apply", "prune")
  /\ RemoveClient(ptr[c], UserOf[c])
  /\ ptr' = [ptr EXCEPT ![c] = NoRoom]
  /\ owner' = [l \in Locks |-> IF owner[l] = c THEN NoClient ELSE owner[l]]
  /\ UNCHANGED <<op, roomID, todo, result, sent, readers, blocked>>

Remove(c) ==
  /\ op[c] = "leave"
  /\ Goto(c, "apply", "prune") /\ Locked(c, ptr[c])
  /\ RemoveClient(ptr[c], UserOf[c])
  /\ Unlock(ptr[c])
  /\ ptr' = [ptr EXCEPT ![c] = NoRoom]
  /\ UNCHANGED <<op, roomID, todo, result, sent>>

(* The range loop of broadcast, one member.                                *)
Send(c, d) ==
  /\ at[c] = "apply" /\ op[c] = "send" /\ RLocked(c, ptr[c])
  /\ d \in Members(ptr[c]) \ sent[c]
  /\ sent' = [sent EXCEPT ![c] = @ \cup {d}]
  /\ UNCHANGED <<roomVars, at, op, roomID, ptr, todo, result, lockVars>>

BroadcastEnd(c) ==
  /\ at[c] = "apply" /\ op[c] = "send" /\ RLocked(c, ptr[c])
  /\ Members(ptr[c]) \subseteq sent[c]
  /\ RUnlock(c, ptr[c])
  /\ Return(c, "apply", sent[c])
  /\ UNCHANGED roomVars

(* Mutant: RUnlock is not deferred, so a panic leaves the lock behind.     *)
SendPanics_KeepsLock(c) ==
  /\ at[c] = "apply" /\ op[c] = "send" /\ RLocked(c, ptr[c])
  /\ Members(ptr[c]) \ sent[c] # {}
  /\ Return(c, "apply", {})
  /\ UNCHANGED <<roomVars, lockVars>>

(* The next member's channel is closed: the panic runs the deferred        *)
(* RUnlock.                                                                *)
SendPanics(c) ==
  /\ at[c] = "apply" /\ op[c] = "send" /\ RLocked(c, ptr[c])
  /\ Members(ptr[c]) \ sent[c] # {}
  /\ RUnlock(c, ptr[c])
  /\ Return(c, "apply", {})
  /\ UNCHANGED roomVars

(* removeEmptyRoom: there is no such room.                                 *)
PruneMissing(c) ==
  /\ at[c] = "prune" /\ Locked(c, roomsMu)
  /\ rooms[roomID[c]] = NoRoom
  /\ Unlock(roomsMu)
  /\ Return(c, "prune", {})
  /\ UNCHANGED roomVars

(* n := len(r.clients), then r.mu.Unlock().                                *)
Count(c) ==
  /\ at[c] = "prune" /\ Locked(c, roomsMu)
  /\ rooms[roomID[c]] # NoRoom /\ Locked(c, rooms[roomID[c]])
  /\ \/ Members(rooms[roomID[c]]) = {} /\ Goto(c, "prune", "delete")
     \/ Members(rooms[roomID[c]]) # {} /\ Goto(c, "prune", "keep")
  /\ Unlock(rooms[roomID[c]])
  /\ UNCHANGED <<roomVars, op, roomID, ptr, todo, result, sent>>

(* n == 0: delete.  A handler that found the Room earlier may have joined  *)
(* it since the count.                                                     *)
Delete(c) ==
  /\ Return(c, "delete", {})
  /\ rooms' = [rooms EXCEPT ![roomID[c]] = NoRoom]
  /\ Unlock(roomsMu)
  /\ UNCHANGED clients

Keep(c) ==
  /\ Return(c, "keep", {})
  /\ Unlock(roomsMu)
  /\ UNCHANGED roomVars

List(c) ==
  /\ RLocked(c, roomsMu)
  /\ Return(c, "list", {id \in RoomIDs : rooms[id] # NoRoom})
  /\ RUnlock(c, roomsMu)
  /\ UNCHANGED roomVars

ScanBegin(c) ==
  /\ RLocked(c, roomsMu)
  /\ Goto(c, "scan", "look")
  /\ todo' = [todo EXCEPT ![c] = {id \in RoomIDs : rooms[id] # NoRoom}]
  /\ UNCHANGED <<roomVars, op, roomID, ptr, result, sent, lockVars>>

Look(c, id) ==
  /\ at[c] = "look" /\ id \in todo[c]
  /\ RLocked(c, rooms[id])
  /\ todo' = [todo EXCEPT ![c] = @ \ {id}]
  /\ result' = [result EXCEPT ![c] = @ \cup (RoomsContaining(UserOf[c]) \cap {id})]
  /\ RUnlock(c, rooms[id])
  /\ UNCHANGED <<roomVars, at, op, roomID, ptr, sent>>

ScanEnd(c) ==
  /\ todo[c] = {}
  /\ Return(c, "look", result[c])
  /\ RUnlock(c, roomsMu)
  /\ UNCHANGED roomVars

-----------------------------------------------------------------------------

Acquire(c) ==
  \/ RLockRooms(c) \/ LockRooms(c) \/ LockRoom(c) \/ RLockRoom(c) \/ LockCount(c)
  \/ \E id \in RoomIDs : RLockLook(c, id)

Section(c) ==
  \/ Lookup(c) \/ Create(c) \/ Join(c) \/ Remove(c)
  \/ \E d \in Conns : Send(c, d)
  \/ BroadcastEnd(c)
  \/ PruneMissing(c) \/ Count(c) \/ Delete(c) \/ Keep(c)
  \/ List(c) \/ ScanBegin(c) \/ ScanEnd(c)
  \/ \E id \in RoomIDs : Look(c, id)

Next ==
  \E c \in Conns :
    \/ \E o \in {"join", "leave", "send", "scan", "list"},
          id \in RoomIDs \cup {NoRoom} : Call(c, o, id)
    \/ Acquire(c) \/ Section(c) \/ SendPanics(c)

(* A goroutine inside a section goes on, and one that waits for a lock     *)
(* which becomes free again and again gets it (the mutex is fair).         *)
Fairness == \A c \in Conns : WF_vars(Section(c)) /\ SF_vars(Acquire(c))

Spec == Init /\ [][Next]_vars
FairSpec == Spec /\ Fairness

-----------------------------------------------------------------------------
(* What the locks achieve.                                                 *)

(* Somebody has counted no members of the room and is about to delete it;  *)
(* nobody else can read the map before that.                               *)
Doomed(id) == \E c \in Conns : at[c] = "delete" /\ roomID[c] = id

Ops ==
  INSTANCE RoomOps WITH
    rooms <- [id \in RoomIDs |-> IF Doomed(id) THEN NoRoom ELSE rooms[id]],
    at <- [c \in Conns |-> IF at[c] \in {"delete", "keep"} THEN "idle" ELSE at[c]],
    op <- [c \in Conns |-> IF at[c] \in {"delete", "keep"} THEN "none" ELSE op[c]],
    roomID <- [c \in Conns |->
                 IF at[c] \in {"delete", "keep"} THEN NoRoom ELSE roomID[c]]

(* The operations are what RoomOps says: each step appears to happen at    *)
(* one moment.  For removeEmptyRoom that is the moment of the count, not   *)
(* of the delete: a client that joins in between through an old pointer    *)
(* finds itself in a Room that was already removed.  A broadcast reaches   *)
(* exactly the members of one moment.                                      *)
ImplementsOps == Ops!Spec

(* Every path out of an operation has released its locks, also a panic in  *)
(* the middle of a broadcast.                                              *)
NoLockLeft ==
  \A c \in Conns : at[c] = "idle" =>
    \A l \in Locks : owner[l] # c /\ c \notin readers[l] \cup blocked[l]

(* The handler has called Lock and not got so far that it keeps others out.*)
Wants(c, l) ==
  /\ owner[l] # c
  /\ \/ at[c] \in {"create", "prune"} /\ l = roomsMu
     \/ at[c] = "apply" /\ op[c] \in {"join", "leave"} /\ l = ptr[c]
     \/ at[c] = "prune" /\ Locked(c, roomsMu) /\ l = rooms[roomID[c]]

(* A writer waits for the readers before it, a reader for the writer, and  *)
(* one writer for another.                                                 *)
WaitsFor(c, d) ==
  \E l \in Locks :
    \/ owner[l] = c /\ d \in readers[l]
    \/ owner[l] = d /\ (c \in blocked[l] \/ Wants(c, l))

(* No deadlock: among any handlers there is one that waits for none of     *)
(* them.  removeEmptyRoom and the scan take a Room's lock inside that of   *)
(* the map, nobody the other way round, and nobody takes two Rooms' locks. *)
NoDeadlock ==
  \A S \in (SUBSET Conns) \ {{}} : \E c \in S : \A d \in S : ~WaitsFor(c, d)

(* Nobody waits for ever.                                                  *)
OperationsFinish == \A c \in Conns : at[c] # "idle" ~> at[c] = "idle"
=============================================================================
