-------------------------- MODULE RoomLocksProofs --------------------------
(***************************************************************************)
(* Theorems about RoomLocks, for any numbers of connections, users, rooms  *)
(* and Room objects: no lock is left behind, and the operations are those  *)
(* of RoomOps.                                                             *)
(***************************************************************************)
EXTENDS RoomLocks, TLAPS

Positions == {"idle", "lookup", "create", "apply", "prune", "delete", "keep",
              "list", "scan", "look"}
Operations == {"none", "join", "leave", "send", "scan", "list"}

(* Types.                                                                  *)
TypeOK ==
  /\ RoomsTypeOK
  /\ at \in [Conns -> Positions]
  /\ op \in [Conns -> Operations]
  /\ roomID \in [Conns -> RoomIDs \cup {NoRoom}]
  /\ ptr \in [Conns -> RoomRefs \cup {NoRoom}]
  /\ todo \in [Conns -> SUBSET RoomIDs]
  /\ result \in [Conns -> SUBSET (Conns \cup RoomIDs)]
  /\ sent \in [Conns -> SUBSET Conns]
  /\ owner \in [Locks -> Conns \cup {NoClient}]
  /\ readers \in [Locks -> SUBSET Conns]
  /\ blocked \in [Locks -> SUBSET Conns]

(* What a handler's locals are at its position.                            *)
LocalsOK(c) ==
  /\ at[c] \in {"lookup", "create", "apply", "prune", "delete", "keep"} =>
       roomID[c] \in RoomIDs
  /\ at[c] = "apply" => ptr[c] \in RoomRefs
  /\ at[c] \in {"prune", "delete", "keep"} => ptr[c] = NoRoom
  /\ at[c] # "look" => todo[c] = {}
  /\ at[c] \notin {"idle", "look"} => result[c] = {}
  /\ ~(at[c] = "apply" /\ op[c] = "send") => sent[c] = {}

(* Where a handler deletes, or scans, it holds the lock of the map.        *)
MapHeld(c) ==
  /\ at[c] \in {"delete", "keep"} => Locked(c, roomsMu)
  /\ at[c] = "look" => RLocked(c, roomsMu)
  /\ \A id \in todo[c] : rooms[id] # NoRoom

Basic == TypeOK /\ \A c \in Conns : LocalsOK(c) /\ MapHeld(c)

(* What a step of a handler may do to the locks.                           *)
LockOp(c) ==
  \/ UNCHANGED lockVars
  \/ \E l \in Locks : Lock(c, l)
  \/ \E l \in Locks : Locked(c, l) /\ Unlock(l)
  \/ \E l \in Locks : RLock(c, l)
  \/ \E l \in Locks : RLocked(c, l) /\ RUnlock(c, l)

(* A step of a handler.                                                    *)
Step(c) ==
  \/ \E o \in {"join", "leave", "send", "scan", "list"},
        id \in RoomIDs \cup {NoRoom} : Call(c, o, id)
  \/ Acquire(c) \/ Section(c) \/ SendPanics(c)

(* Every step takes or releases at most one lock, one it holds.            *)
LEMMA LockDiscipline ==
  ASSUME Basic, NEW c \in Conns, Step(c)
  PROVE  LockOp(c)
<1> USE DEF Basic, TypeOK, RoomsTypeOK, LocalsOK, MapHeld, Locks, LockOp
<1>1. ASSUME NEW o, NEW id, Call(c, o, id) PROVE LockOp(c)
  BY <1>1 DEF Call
<1>2. CASE RLockRooms(c) \/ LockRooms(c) \/ LockRoom(c) \/ RLockRoom(c) \/ LockCount(c)
  BY <1>2 DEF RLockRooms, LockRooms, LockRoom, RLockRoom, LockCount
<1>3. ASSUME NEW id \in RoomIDs, RLockLook(c, id) PROVE LockOp(c)
  BY <1>3 DEF RLockLook
<1>4. CASE Lookup(c) \/ List(c) \/ ScanBegin(c)
  BY <1>4 DEF Lookup, List, ScanBegin
<1>5. CASE Create(c)
  BY <1>5 DEF Create
<1>6. CASE Join(c) \/ Remove(c)
  BY <1>6 DEF Join, Remove, Goto
<1>7. ASSUME NEW d \in Conns, Send(c, d) PROVE LockOp(c)
  BY <1>7 DEF Send
<1>8. CASE BroadcastEnd(c) \/ SendPanics(c)
  BY <1>8 DEF BroadcastEnd, SendPanics
<1>9. CASE PruneMissing(c) \/ Count(c)
  BY <1>9 DEF PruneMissing, Count, Goto
<1>10. CASE Delete(c) \/ Keep(c)
  BY <1>10 DEF Delete, Keep, Return, Goto
<1>11. ASSUME NEW id \in RoomIDs, Look(c, id) PROVE LockOp(c)
  BY <1>11 DEF Look
<1>12. CASE ScanEnd(c)
  BY <1>12 DEF ScanEnd, Return, Goto
<1> QED BY <1>1, <1>2, <1>3, <1>4, <1>5, <1>6, <1>7, <1>8, <1>9, <1>10, <1>11, <1>12
        DEF Step, Acquire, Section

(* What it does to the locks of the other handlers: nothing.               *)
LEMMA OthersLocks ==
  ASSUME TypeOK, NEW c \in Conns, LockOp(c), NEW d \in Conns, d # c, NEW l \in Locks
  PROVE  /\ (owner'[l] = d) <=> (owner[l] = d)
         /\ (d \in readers'[l] \cup blocked'[l]) <=> (d \in readers[l] \cup blocked[l])
         /\ d \in readers[l] => d \in readers'[l]
         /\ Locked(d, l) => Locked(d, l)'
<1> USE RoomsAssumption DEF TypeOK, Locked
<1>1. CASE UNCHANGED lockVars
  BY <1>1 DEF lockVars
<1>2. ASSUME NEW m \in Locks, Lock(c, m)
      PROVE  /\ (owner'[l] = d) <=> (owner[l] = d)
             /\ UNCHANGED <<readers, blocked>>
  BY <1>2 DEF Lock
<1>3. ASSUME NEW m \in Locks, Locked(c, m), Unlock(m)
      PROVE  /\ (owner'[l] = d) <=> (owner[l] = d)
             /\ (d \in readers'[l] \cup blocked'[l]) <=> (d \in readers[l] \cup blocked[l])
             /\ d \in readers[l] => d \in readers'[l]
             /\ Locked(d, l) => Locked(d, l)'
  BY <1>3 DEF Unlock
<1>4. ASSUME NEW m \in Locks, RLock(c, m)
      PROVE  /\ owner' = owner
             /\ (d \in readers'[l] \cup blocked'[l]) <=> (d \in readers[l] \cup blocked[l])
             /\ d \in readers[l] => d \in readers'[l]
             /\ Locked(d, l) => Locked(d, l)'
  BY <1>4 DEF RLock
<1>5. ASSUME NEW m \in Locks, RUnlock(c, m)
      PROVE  /\ owner' = owner
             /\ (d \in readers'[l] \cup blocked'[l]) <=> (d \in readers[l] \cup blocked[l])
             /\ d \in readers[l] => d \in readers'[l]
             /\ Locked(d, l) => Locked(d, l)'
  BY <1>5 DEF RUnlock
<1> QED BY <1>1, <1>2, <1>3, <1>4, <1>5 DEF LockOp

(* A lock that is taken or given up is typed.                              *)
LEMMA LockTypes ==
  ASSUME TypeOK, NEW c \in Conns, LockOp(c)
  PROVE  /\ owner' \in [Locks -> Conns \cup {NoClient}]
         /\ readers' \in [Locks -> SUBSET Conns]
         /\ blocked' \in [Locks -> SUBSET Conns]
  BY DEF TypeOK, LockOp, Lock, Unlock, RLock, RUnlock, lockVars

(* A new Room is one that no map entry and no pointer leads to.            *)
LEMMA NewRoomFree ==
  ASSUME NEW id, NEW r, NEW held, NewRoom(id, r, held)
  PROVE  r \notin held /\ \A i \in RoomIDs : rooms[i] # NoRoom => rooms[i] # r
<1>1. r \in RoomRefs \ (Registered \cup held)
  BY DEF NewRoom
<1> QED BY <1>1 DEF Registered

(* The map is written under its lock, a Room's clients under the Room's    *)
(* lock or while nobody else can refer to the Room.                        *)
LEMMA RoomsStep ==
  ASSUME Basic, NEW c \in Conns, Step(c)
  PROVE  /\ RoomsTypeOK'
         /\ Locked(c, roomsMu) \/ UNCHANGED rooms
         /\ \A r \in RoomRefs :
              \/ clients'[r] = clients[r]
              \/ Locked(c, r) /\ at[c] = "apply"
              \/ /\ at[c] = "create" /\ Locked(c, roomsMu)
                 /\ r \notin {ptr[d] : d \in Conns}
                 /\ \A i \in RoomIDs : rooms[i] # r
<1> USE DEF Basic, TypeOK, RoomsTypeOK, LocalsOK, MapHeld, roomVars
<1>1. ASSUME NEW o, NEW id, Call(c, o, id) PROVE UNCHANGED roomVars
  BY <1>1 DEF Call
<1>2. CASE Acquire(c)
  BY <1>2 DEF Acquire, RLockRooms, LockRooms, LockRoom, RLockRoom, LockCount, RLockLook
<1>3. CASE Lookup(c) \/ List(c) \/ ScanBegin(c) \/ Keep(c) \/ ScanEnd(c)
  BY <1>3 DEF Lookup, List, ScanBegin, Keep, ScanEnd
<1>4. CASE Create(c)
  <2>1. PICK r \in RoomRefs : Create(c)!(r)
    BY <1>4 DEF Create
  <2>2. CASE UNCHANGED roomVars
    BY <2>2
  <2>3. CASE NewRoom(roomID[c], r, {ptr[d] : d \in Conns})
    <3>1. /\ rooms' = [rooms EXCEPT ![roomID[c]] = r]
          /\ clients' = [clients EXCEPT ![r] = NoClients]
          /\ NoClients \in [UserIDs -> Conns \cup {NoClient}]
      BY <2>3 DEF NewRoom, NoClients
    <3>2. r \notin {ptr[d] : d \in Conns} /\ \A i \in RoomIDs : rooms[i] # r
      BY <2>3, NewRoomFree, RoomsAssumption
    <3>3. Locked(c, roomsMu) /\ at[c] = "create"
      BY <2>1 DEF Goto
    <3> HIDE DEF NoClients
    <3> QED BY <3>1, <3>2, <3>3
  <2> QED BY <2>1, <2>2, <2>3 DEF CreateRoom
<1>5. CASE Join(c)
  <2>1. UserOf[c] \in UserIDs /\ ptr[c] \in RoomRefs
    BY <1>5, RoomLocksAssumption DEF Join
  <2> QED BY <1>5, <2>1 DEF Join, AddClient
<1>6. CASE Remove(c)
  <2>1. UserOf[c] \in UserIDs /\ ptr[c] \in RoomRefs /\ at[c] = "apply"
    BY <1>6, RoomLocksAssumption DEF Remove, Goto
  <2> QED BY <1>6, <2>1 DEF Remove, RemoveClient
<1>7. ASSUME NEW d \in Conns, Send(c, d) PROVE UNCHANGED roomVars
  BY <1>7 DEF Send
<1>8. CASE BroadcastEnd(c) \/ SendPanics(c)
  BY <1>8 DEF BroadcastEnd, SendPanics
<1>9. CASE PruneMissing(c) \/ Count(c)
  BY <1>9 DEF PruneMissing, Count
<1>10. CASE Delete(c)
  BY <1>10 DEF Delete, Return, Goto
<1>11. ASSUME NEW id \in RoomIDs, Look(c, id) PROVE UNCHANGED roomVars
  BY <1>11 DEF Look
<1> QED BY <1>1, <1>2, <1>3, <1>4, <1>5, <1>6, <1>7, <1>8, <1>9, <1>10, <1>11
        DEF Step, Section

(* The locals of the other handlers are their own.                         *)
LEMMA OthersLocals ==
  ASSUME TypeOK, NEW c \in Conns, Step(c), NEW d \in Conns, d # c
  PROVE  /\ at'[d] = at[d] /\ op'[d] = op[d] /\ roomID'[d] = roomID[d]
         /\ ptr'[d] = ptr[d] /\ todo'[d] = todo[d] /\ result'[d] = result[d]
         /\ sent'[d] = sent[d]
<1> USE DEF TypeOK, Goto, Return, callVars
<1>1. ASSUME NEW o, NEW id, Call(c, o, id)
      PROVE  /\ at'[d] = at[d] /\ op'[d] = op[d] /\ roomID'[d] = roomID[d]
             /\ result'[d] = result[d] /\ UNCHANGED <<ptr, todo, sent>>
  BY <1>1 DEF Call
<1>2. CASE Acquire(c)
  BY <1>2 DEF Acquire, RLockRooms, LockRooms, LockRoom, RLockRoom, LockCount, RLockLook
<1>3. CASE Lookup(c) \/ ScanBegin(c) \/ Count(c)
  BY <1>3 DEF Lookup, ScanBegin, Count
<1>4. CASE Create(c) \/ Remove(c)
  BY <1>4 DEF Create, Remove
<1>5. CASE Join(c) \/ List(c) \/ Keep(c) \/ ScanEnd(c)
  BY <1>5 DEF Join, List, Keep, ScanEnd
<1>6. CASE BroadcastEnd(c) \/ SendPanics(c) \/ PruneMissing(c) \/ Delete(c)
  BY <1>6 DEF BroadcastEnd, SendPanics, PruneMissing, Delete
<1>7. ASSUME NEW e \in Conns, Send(c, e) PROVE sent'[d] = sent[d]
                 /\ UNCHANGED <<at, op, roomID, ptr, todo, result>>
  BY <1>7 DEF Send
<1>8. ASSUME NEW id \in RoomIDs, Look(c, id)
      PROVE  /\ todo'[d] = todo[d] /\ result'[d] = result[d]
             /\ UNCHANGED <<at, op, roomID, ptr, sent>>
  BY <1>8 DEF Look
<1> QED BY <1>1, <1>2, <1>3, <1>4, <1>5, <1>6, <1>7, <1>8 DEF Step, Section

(* Its own are typed and what they should be where it goes.                *)
LEMMA OwnLocals ==
  ASSUME Basic, NEW c \in Conns, Step(c)
  PROVE  /\ at' \in [Conns -> Positions]
         /\ op' \in [Conns -> Operations]
         /\ roomID' \in [Conns -> RoomIDs \cup {NoRoom}]
         /\ ptr' \in [Conns -> RoomRefs \cup {NoRoom}]
         /\ todo' \in [Conns -> SUBSET RoomIDs]
         /\ result' \in [Conns -> SUBSET (Conns \cup RoomIDs)]
         /\ sent' \in [Conns -> SUBSET Conns]
         /\ LocalsOK(c)'
<1> USE DEF Basic, TypeOK, RoomsTypeOK, LocalsOK, Positions, Operations, Goto, callVars
<1>r. ASSUME NEW from \in Positions, NEW v \in SUBSET (Conns \cup RoomIDs), Return(c, from, v)
      PROVE  /\ at' \in [Conns -> Positions]
             /\ op' \in [Conns -> Operations]
             /\ roomID' \in [Conns -> RoomIDs \cup {NoRoom}]
             /\ ptr' \in [Conns -> RoomRefs \cup {NoRoom}]
             /\ todo' \in [Conns -> SUBSET RoomIDs]
             /\ result' \in [Conns -> SUBSET (Conns \cup RoomIDs)]
             /\ sent' \in [Conns -> SUBSET Conns]
             /\ LocalsOK(c)'
  BY <1>r DEF Return
<1>1. ASSUME NEW o \in {"join", "leave", "send", "scan", "list"},
             NEW id \in RoomIDs \cup {NoRoom}, Call(c, o, id)
      PROVE  /\ at' \in [Conns -> Positions]
             /\ op' \in [Conns -> Operations]
             /\ roomID' \in [Conns -> RoomIDs \cup {NoRoom}]
             /\ result' \in [Conns -> SUBSET (Conns \cup RoomIDs)]
             /\ UNCHANGED <<ptr, todo, sent>>
             /\ LocalsOK(c)'
  BY <1>1 DEF Call
<1>2. CASE Acquire(c)
  <2>1. UNCHANGED callVars
    BY <1>2 DEF Acquire, RLockRooms, LockRooms, LockRoom, RLockRoom, LockCount, RLockLook
  <2> QED BY <2>1
<1>3. CASE Lookup(c)
  <2> DEFINE room == rooms[roomID[c]]
  <2>1. /\ room \in RoomRefs \cup {NoRoom}
        /\ ptr' = [ptr EXCEPT ![c] = room]
        /\ \/ at' = [at EXCEPT ![c] = "create"]
           \/ room \in RoomRefs /\ at' = [at EXCEPT ![c] = "apply"]
    BY <1>3 DEF Lookup
  <2>2. UNCHANGED <<op, roomID, todo, result, sent>> /\ at[c] = "lookup"
    BY <1>3 DEF Lookup
  <2> HIDE DEF room
  <2> QED BY <2>1, <2>2, ZenonT(40)
<1>4. CASE Create(c)
  <2>1. PICK r \in RoomRefs : Create(c)!(r)
    BY <1>4 DEF Create
  <2> QED BY <2>1
<1>5. CASE Join(c)
  BY <1>5, <1>r DEF Join
<1>6. CASE Remove(c)
  BY <1>6 DEF Remove
<1>7. ASSUME NEW d \in Conns, Send(c, d)
      PROVE  /\ UNCHANGED <<at, op, roomID, ptr, todo, result>>
             /\ sent' \in [Conns -> SUBSET Conns]
             /\ LocalsOK(c)'
  BY <1>7 DEF Send
<1>8. CASE BroadcastEnd(c) \/ SendPanics(c)
  <2>1. sent[c] \in SUBSET (Conns \cup RoomIDs) /\ {} \in SUBSET (Conns \cup RoomIDs)
    OBVIOUS
  <2> QED BY <1>8, <1>r, <2>1 DEF BroadcastEnd, SendPanics
<1>9. CASE PruneMissing(c) \/ Delete(c) \/ Keep(c)
  BY <1>9, <1>r DEF PruneMissing, Delete, Keep
<1>10. CASE Count(c)
  <2>1. /\ at[c] = "prune" /\ UNCHANGED <<op, roomID, ptr, todo, result, sent>>
        /\ \E p \in {"delete", "keep"} : at' = [at EXCEPT ![c] = p]
    BY <1>10 DEF Count
  <2> QED BY <2>1
<1>11. CASE List(c)
  <2>1. {id \in RoomIDs : rooms[id] # NoRoom} \in SUBSET (Conns \cup RoomIDs)
    OBVIOUS
  <2> QED BY <1>11, <1>r, <2>1 DEF List
<1>12. CASE ScanBegin(c)
  BY <1>12 DEF ScanBegin
<1>13. ASSUME NEW id \in RoomIDs, Look(c, id)
      PROVE  /\ UNCHANGED <<at, op, roomID, ptr, sent>>
             /\ todo' \in [Conns -> SUBSET RoomIDs]
             /\ result' \in [Conns -> SUBSET (Conns \cup RoomIDs)]
             /\ LocalsOK(c)'
  <2>1. RoomsContaining(UserOf[c]) \cap {id} \in SUBSET RoomIDs
    OBVIOUS
  <2> QED BY <1>13, <2>1 DEF Look
<1>14. CASE ScanEnd(c)
  BY <1>14, <1>r DEF ScanEnd
<1> QED BY <1>1, <1>2, <1>3, <1>4, <1>5, <1>6, <1>7, <1>8, <1>9, <1>10, <1>11,
           <1>12, <1>13, <1>14 DEF Step, Section

(* It comes to the delete and into the scan with the lock of the map.      *)
LEMMA OwnMapHeld ==
  ASSUME Basic, NEW c \in Conns, Step(c)
  PROVE  MapHeld(c)'
<1> USE RoomLocksAssumption
    DEF Basic, TypeOK, RoomsTypeOK, LocalsOK, MapHeld, Goto, callVars, roomVars, Locks,
        Locked, RLocked
<1>r. ASSUME NEW from, NEW v, Return(c, from, v)
      PROVE  MapHeld(c)'
  BY <1>r DEF Return
<1>1. ASSUME NEW o \in {"join", "leave", "send", "scan", "list"},
             NEW id \in RoomIDs \cup {NoRoom}, Call(c, o, id)
      PROVE  MapHeld(c)'
  BY <1>1 DEF Call
<1>2. CASE Acquire(c)
  <2>1. CASE RLockRooms(c) \/ LockRooms(c) \/ LockRoom(c) \/ RLockRoom(c) \/ LockCount(c)
    BY <2>1 DEF RLockRooms, LockRooms, LockRoom, RLockRoom, LockCount
  <2>2. ASSUME NEW id \in RoomIDs, RLockLook(c, id) PROVE MapHeld(c)'
    <3>1. at[c] = "look" /\ UNCHANGED <<roomVars, callVars>> /\ RLock(c, rooms[id])
      BY <2>2 DEF RLockLook
    <3>2. readers[roomsMu] \subseteq readers'[roomsMu]
      BY <3>1 DEF RLock
    <3>3. /\ at'[c] = "look" /\ c \in readers[roomsMu]
          /\ \A i \in todo[c] : rooms[i] # NoRoom
          /\ rooms' = rooms /\ todo' = todo
      BY <3>1
    <3> QED
      <4> HIDE DEF TypeOK, RoomsTypeOK, LocalsOK, Locks, Locked, Basic
      <4> QED BY <3>2, <3>3
  <2> QED BY <1>2, <2>1, <2>2 DEF Acquire
<1>3. CASE Lookup(c) \/ Create(c) \/ Remove(c)
  BY <1>3, ZenonT(40) DEF Lookup, Create, Remove
<1>4. CASE Join(c) \/ BroadcastEnd(c) \/ SendPanics(c)
  BY <1>4, <1>r DEF Join, BroadcastEnd, SendPanics
<1>5. ASSUME NEW d \in Conns, Send(c, d) PROVE MapHeld(c)'
  BY <1>5 DEF Send
<1>6. CASE PruneMissing(c) \/ Delete(c) \/ Keep(c) \/ List(c) \/ ScanEnd(c)
  BY <1>6, <1>r DEF PruneMissing, Delete, Keep, List, ScanEnd
<1>7. CASE Count(c)
  <2>1. rooms[roomID[c]] \in RoomRefs /\ rooms[roomID[c]] # roomsMu
    BY <1>7 DEF Count
  <2> QED BY <1>7, <2>1 DEF Count, Unlock
<1>8. CASE ScanBegin(c)
  BY <1>8 DEF ScanBegin, lockVars
<1>9. ASSUME NEW id \in RoomIDs, Look(c, id) PROVE MapHeld(c)'
  <2>1. rooms[id] \in RoomRefs /\ rooms[id] # roomsMu
    BY <1>9 DEF Look
  <2> QED BY <1>9, <2>1 DEF Look, RUnlock
<1> QED BY <1>1, <1>2, <1>3, <1>4, <1>5, <1>6, <1>7, <1>8, <1>9 DEF Step, Section

(* No step of another handler takes the lock of the map from one that      *)
(* scans or deletes, nor a Room from under its scan.                       *)
LEMMA OthersBasic ==
  ASSUME Basic, NEW c \in Conns, Step(c), NEW d \in Conns, d # c
  PROVE  LocalsOK(d)' /\ MapHeld(d)'
<1>1. /\ at'[d] = at[d] /\ op'[d] = op[d] /\ roomID'[d] = roomID[d]
      /\ ptr'[d] = ptr[d] /\ todo'[d] = todo[d] /\ result'[d] = result[d]
      /\ sent'[d] = sent[d]
  BY OthersLocals DEF Basic
<1>2. LocalsOK(d)'
  BY <1>1 DEF Basic, LocalsOK
<1>3. LockOp(c) /\ roomsMu \in Locks
  BY LockDiscipline DEF Locks
<1>4. /\ d \in readers[roomsMu] => d \in readers'[roomsMu]
      /\ Locked(d, roomsMu) => Locked(d, roomsMu)'
  BY <1>3, OthersLocks DEF Basic
<1>5. ASSUME NEW id \in todo[d] PROVE rooms'[id] # NoRoom
  <2>1. at[d] = "look" /\ rooms[id] # NoRoom
    BY <1>5 DEF Basic, LocalsOK, MapHeld
  <2>2. ~Locked(c, roomsMu)
    BY <2>1 DEF Basic, MapHeld, RLocked, Locked
  <2> QED BY <2>1, <2>2, RoomsStep
<1> QED BY <1>1, <1>2, <1>4, <1>5 DEF Basic, MapHeld, RLocked

(* Types, locals and the lock of the map are kept by every step.           *)
LEMMA BasicStep == Basic /\ [Next]_vars => Basic'
<1> SUFFICES ASSUME Basic, [Next]_vars PROVE Basic'
  OBVIOUS
<1>1. CASE UNCHANGED vars
  BY <1>1 DEF vars, roomVars, callVars, lockVars, Basic, TypeOK, RoomsTypeOK, LocalsOK,
              MapHeld, Locked, RLocked
<1>2. ASSUME NEW c \in Conns, Step(c) PROVE Basic'
  <2>1. RoomsTypeOK'
    BY <1>2, RoomsStep
  <2>2. LockOp(c)
    BY <1>2, LockDiscipline
  <2>3. TypeOK'
    BY <1>2, <2>1, <2>2, LockTypes, OwnLocals DEF Basic, TypeOK
  <2>4. LocalsOK(c)' /\ MapHeld(c)'
    BY <1>2, OwnLocals, OwnMapHeld
  <2> QED BY <1>2, <2>3, <2>4, OthersBasic DEF Basic
<1> QED BY <1>1, <1>2 DEF Next, Step

(* They hold at first.                                                     *)
LEMMA BasicInit == Init => Basic
  BY DEF Init, RoomsInit, NoClients, Basic, TypeOK, RoomsTypeOK, LocalsOK, MapHeld,
         Positions, Operations

-----------------------------------------------------------------------------
(* No lock is left behind.                                                 *)

Reads(c, l) == c \in readers[l] \cup blocked[l]

(* The locks a handler may hold or wait for, by its position.              *)
HeldOnly(c) ==
  \A l \in Locks :
    /\ owner[l] = c =>
         \/ l = roomsMu /\ at[c] \in {"create", "prune", "delete", "keep"}
         \/ at[c] = "apply" /\ op[c] \in {"join", "leave"} /\ l = ptr[c]
         \/ /\ at[c] = "prune" /\ Locked(c, roomsMu)
            /\ l \in RoomRefs /\ l = rooms[roomID[c]]
    /\ Reads(c, l) =>
         \/ l = roomsMu /\ at[c] \in {"lookup", "list", "scan", "look"}
         \/ at[c] = "apply" /\ op[c] = "send" /\ l = ptr[c]
         \/ /\ at[c] = "look" /\ l \in RoomRefs
            /\ \E id \in todo[c] : l = rooms[id]

(* A scan has the lock of one Room at a time, and nobody reads and waits.  *)
OneRoom(c) ==
  /\ at[c] = "look" => \A r, q \in RoomRefs : Reads(c, r) /\ Reads(c, q) => r = q
  /\ \A l \in Locks : ~(c \in readers[l] /\ c \in blocked[l])

LocksInv == Basic /\ \A c \in Conns : HeldOnly(c) /\ OneRoom(c)

(* What the operations on one lock do to a handler's own locks.            *)
LEMMA OwnLocks ==
  ASSUME TypeOK, NEW c \in Conns, OneRoom(c), NEW m \in Locks
  PROVE  /\ Lock(c, m) =>
              /\ \A l \in Locks : owner'[l] = c <=> owner[l] = c \/ l = m
              /\ \A l \in Locks : Locked(c, l) => Locked(c, l)'
              /\ UNCHANGED <<readers, blocked>>
         /\ Locked(c, m) /\ Unlock(m) =>
              /\ \A l \in Locks : owner'[l] = c <=> owner[l] = c /\ l # m
              /\ \A l \in Locks : Locked(c, l) /\ l # m => Locked(c, l)'
              /\ \A l \in Locks : Reads(c, l)' <=> Reads(c, l)
              /\ \A l \in Locks : ~(c \in readers'[l] /\ c \in blocked'[l])
         /\ RLock(c, m) =>
              /\ \A l \in Locks : Reads(c, l)' <=> Reads(c, l) \/ l = m
              /\ \A l \in Locks : ~(c \in readers'[l] /\ c \in blocked'[l])
              /\ UNCHANGED owner
         /\ RLocked(c, m) /\ RUnlock(c, m) =>
              /\ \A l \in Locks : Reads(c, l)' <=> Reads(c, l) /\ l # m
              /\ \A l \in Locks : ~(c \in readers'[l] /\ c \in blocked'[l])
              /\ UNCHANGED owner
<1> USE RoomsAssumption DEF TypeOK, OneRoom, Locked, RLocked, Reads
<1>1. ASSUME Lock(c, m)
      PROVE  /\ \A l \in Locks : owner'[l] = c <=> owner[l] = c \/ l = m
             /\ \A l \in Locks : Locked(c, l) => Locked(c, l)'
             /\ UNCHANGED <<readers, blocked>>
  BY <1>1 DEF Lock
<1>2. ASSUME Locked(c, m), Unlock(m)
      PROVE  /\ \A l \in Locks : owner'[l] = c <=> owner[l] = c /\ l # m
             /\ \A l \in Locks : Locked(c, l) /\ l # m => Locked(c, l)'
             /\ \A l \in Locks : Reads(c, l)' <=> Reads(c, l)
             /\ \A l \in Locks : ~(c \in readers'[l] /\ c \in blocked'[l])
  <2>1. \A l \in Locks :
          /\ owner'[l] = IF l = m THEN NoClient ELSE owner[l]
          /\ readers'[l] = IF l = m THEN blocked[l] ELSE readers[l]
          /\ blocked'[l] = IF l = m THEN {} ELSE blocked[l]
    BY <1>2 DEF Unlock
  <2>2. NoClient # c /\ readers[m] = {} /\ owner[m] = c
    BY <1>2
  <2> QED BY <2>1, <2>2
<1>3. ASSUME RLock(c, m)
      PROVE  /\ \A l \in Locks : Reads(c, l)' <=> Reads(c, l) \/ l = m
             /\ \A l \in Locks : ~(c \in readers'[l] /\ c \in blocked'[l])
             /\ UNCHANGED owner
  BY <1>3 DEF RLock
<1>4. ASSUME RLocked(c, m), RUnlock(c, m)
      PROVE  /\ \A l \in Locks : Reads(c, l)' <=> Reads(c, l) /\ l # m
             /\ \A l \in Locks : ~(c \in readers'[l] /\ c \in blocked'[l])
             /\ UNCHANGED owner
  BY <1>4 DEF RUnlock
<1> QED BY <1>1, <1>2, <1>3, <1>4

(* A handler keeps to its locks, and gives up what it leaves behind.       *)
LEMMA OwnHeldOnly ==
  ASSUME LocksInv, NEW c \in Conns, Step(c)
  PROVE  HeldOnly(c)' /\ OneRoom(c)'
<1>0. TypeOK /\ OneRoom(c)
  BY DEF LocksInv, Basic
<1> USE RoomLocksAssumption, RoomsAssumption
    DEF LocksInv, Basic, TypeOK, RoomsTypeOK, LocalsOK, MapHeld, Goto, callVars, roomVars,
        lockVars, Locks, Locked, RLocked, HeldOnly, OneRoom, Reads
<1>1. ASSUME NEW o \in {"join", "leave", "send", "scan", "list"},
             NEW id \in RoomIDs \cup {NoRoom}, Call(c, o, id)
      PROVE  HeldOnly(c)' /\ OneRoom(c)'
  BY <1>1 DEF Call
<1>2. CASE RLockRooms(c)
  BY <1>2 DEF RLockRooms, RLock
<1>3. CASE LockRooms(c)
  BY <1>3 DEF LockRooms, Lock
<1>4. CASE LockRoom(c)
  BY <1>4 DEF LockRoom, Lock
<1>5. CASE RLockRoom(c)
  <2>1. /\ ptr[c] \in Locks /\ RLock(c, ptr[c])
        /\ at[c] = "apply" /\ op[c] = "send" /\ UNCHANGED <<roomVars, callVars>>
    BY <1>5 DEF RLockRoom
  <2>2. /\ \A l \in Locks : Reads(c, l)' <=> Reads(c, l) \/ l = ptr[c]
        /\ \A l \in Locks : ~(c \in readers'[l] /\ c \in blocked'[l])
        /\ UNCHANGED owner
    <3> HIDE DEF Reads, Locked, RLocked, OneRoom, TypeOK, LocksInv, Basic, Locks, HeldOnly
    <3> QED BY <1>0, <2>1, OwnLocks
  <2> HIDE DEF Reads
  <2>3. \A l \in Locks : owner[l] # c /\ (Reads(c, l)' => l = ptr[c])
    BY <2>1, <2>2
  <2> QED BY <2>1, <2>2, <2>3
<1>6. CASE LockCount(c)
  <2>1. /\ at[c] = "prune" /\ Locked(c, roomsMu) /\ UNCHANGED <<roomVars, callVars>>
        /\ roomsMu \in Locks /\ rooms[roomID[c]] \in RoomRefs
        /\ rooms[roomID[c]] \in Locks /\ Lock(c, rooms[roomID[c]])
    BY <1>6 DEF LockCount
  <2>2. /\ \A l \in Locks : owner'[l] = c <=> owner[l] = c \/ l = rooms[roomID[c]]
        /\ Locked(c, roomsMu)'
        /\ UNCHANGED <<readers, blocked>>
    <3> HIDE DEF Reads, Locked, RLocked, OneRoom, TypeOK, LocksInv, Basic, Locks, HeldOnly
    <3> QED BY <1>0, <2>1, OwnLocks
  <2>3. \A l \in Locks : (owner[l] = c => l \in {roomsMu, rooms[roomID[c]]}) /\ ~Reads(c, l)
    BY <2>1
  <2> QED BY <2>1, <2>2, <2>3
<1>7. ASSUME NEW id \in RoomIDs, RLockLook(c, id) PROVE HeldOnly(c)' /\ OneRoom(c)'
  <2>1. /\ rooms[id] \in RoomRefs /\ RLock(c, rooms[id]) /\ id \in todo[c]
        /\ rooms[id] \in Locks /\ at[c] = "look" /\ UNCHANGED <<roomVars, callVars>>
        /\ \A r \in RoomRefs : ~Reads(c, r)
    BY <1>7 DEF RLockLook
  <2>2. /\ \A l \in Locks : Reads(c, l)' <=> Reads(c, l) \/ l = rooms[id]
        /\ \A l \in Locks : ~(c \in readers'[l] /\ c \in blocked'[l])
        /\ UNCHANGED owner
    <3> HIDE DEF Reads, Locked, RLocked, OneRoom, TypeOK, LocksInv, Basic, Locks, HeldOnly
    <3> QED BY <1>0, <2>1, OwnLocks
  <2> HIDE DEF Reads
  <2>3. \A l \in Locks : owner[l] # c /\ (Reads(c, l)' => l \in {roomsMu, rooms[id]})
    BY <2>1, <2>2
  <2> QED BY <2>1, <2>2, <2>3
<1>8. CASE Lookup(c)
  BY <1>8 DEF Lookup, RUnlock
<1>9. CASE Create(c)
  <2>1. /\ at[c] = "create" /\ at'[c] = "apply"
        /\ roomsMu \in Locks /\ Locked(c, roomsMu) /\ Unlock(roomsMu)
    BY <1>9 DEF Create
  <2>2. /\ \A l \in Locks : owner'[l] = c <=> owner[l] = c /\ l # roomsMu
        /\ \A l \in Locks : Reads(c, l)' <=> Reads(c, l)
        /\ \A l \in Locks : ~(c \in readers'[l] /\ c \in blocked'[l])
    <3> HIDE DEF Reads, Locked, RLocked, OneRoom, TypeOK, LocksInv, Basic, Locks, HeldOnly
    <3> QED BY <1>0, <2>1, OwnLocks
  <2> HIDE DEF Reads
  <2> QED BY <2>1, <2>2
<1>10. CASE Join(c)
  <2>1. /\ at[c] = "apply" /\ op[c] = "join" /\ at'[c] = "idle" /\ ptr[c] \in Locks
        /\ Locked(c, ptr[c]) /\ Unlock(ptr[c])
    BY <1>10 DEF Join, Return
  <2>2. /\ \A l \in Locks : owner'[l] = c <=> owner[l] = c /\ l # ptr[c]
        /\ \A l \in Locks : Reads(c, l)' <=> Reads(c, l)
        /\ \A l \in Locks : ~(c \in readers'[l] /\ c \in blocked'[l])
    <3> HIDE DEF Reads, Locked, RLocked, OneRoom, TypeOK, LocksInv, Basic, Locks, HeldOnly
    <3> QED BY <1>0, <2>1, OwnLocks
  <2> HIDE DEF Reads
  <2>3. \A l \in Locks : owner'[l] # c /\ ~Reads(c, l)'
    <3>1. \A l \in Locks : (owner[l] = c => l = ptr[c]) /\ ~Reads(c, l)
      BY <2>1
    <3> QED BY <2>2, <3>1
  <2> QED BY <2>1, <2>3 DEF Reads
<1>11. CASE Remove(c)
  <2>1. /\ at[c] = "apply" /\ op[c] = "leave" /\ at'[c] = "prune" /\ ptr[c] \in Locks
        /\ Locked(c, ptr[c]) /\ Unlock(ptr[c])
    BY <1>11 DEF Remove
  <2>2. /\ \A l \in Locks : owner'[l] = c <=> owner[l] = c /\ l # ptr[c]
        /\ \A l \in Locks : Reads(c, l)' <=> Reads(c, l)
        /\ \A l \in Locks : ~(c \in readers'[l] /\ c \in blocked'[l])
    <3> HIDE DEF Reads, Locked, RLocked, OneRoom, TypeOK, LocksInv, Basic, Locks, HeldOnly
    <3> QED BY <1>0, <2>1, OwnLocks
  <2> HIDE DEF Reads
  <2>3. \A l \in Locks : owner'[l] # c /\ ~Reads(c, l)'
    <3>1. \A l \in Locks : (owner[l] = c => l = ptr[c]) /\ ~Reads(c, l)
      BY <2>1
    <3> QED BY <2>2, <3>1
  <2> QED BY <2>1, <2>3 DEF Reads
<1>12. ASSUME NEW d \in Conns, Send(c, d) PROVE HeldOnly(c)' /\ OneRoom(c)'
  <2>1. UNCHANGED <<rooms, at, op, roomID, ptr, todo, owner, readers, blocked>>
    BY <1>12 DEF Send
  <2>2. HeldOnly(c) /\ OneRoom(c)
    BY DEF LocksInv
  <2> QED BY <2>1, <2>2
<1>13. CASE BroadcastEnd(c) \/ SendPanics(c)
  <2>1. /\ at[c] = "apply" /\ op[c] = "send" /\ at'[c] = "idle" /\ ptr[c] \in Locks
        /\ RLocked(c, ptr[c]) /\ RUnlock(c, ptr[c])
    BY <1>13 DEF BroadcastEnd, SendPanics, Return
  <2>2. /\ \A l \in Locks : Reads(c, l)' <=> Reads(c, l) /\ l # ptr[c]
        /\ \A l \in Locks : ~(c \in readers'[l] /\ c \in blocked'[l])
        /\ UNCHANGED owner
    <3> HIDE DEF Reads, Locked, RLocked, OneRoom, TypeOK, LocksInv, Basic, Locks, HeldOnly
    <3> QED BY <1>0, <2>1, OwnLocks
  <2> HIDE DEF Reads
  <2>3. \A l \in Locks : owner'[l] # c /\ ~Reads(c, l)'
    <3>1. \A l \in Locks : owner[l] # c /\ (Reads(c, l) => l = ptr[c])
      BY <2>1
    <3> QED BY <2>2, <3>1
  <2> QED BY <2>1, <2>3 DEF Reads
<1>14. CASE PruneMissing(c)
  <2>1. /\ at[c] = "prune" /\ at'[c] = "idle" /\ rooms[roomID[c]] \notin RoomRefs
        /\ roomsMu \in Locks /\ Locked(c, roomsMu) /\ Unlock(roomsMu)
    BY <1>14 DEF PruneMissing, Return
  <2>2. /\ \A l \in Locks : owner'[l] = c <=> owner[l] = c /\ l # roomsMu
        /\ \A l \in Locks : Reads(c, l)' <=> Reads(c, l)
        /\ \A l \in Locks : ~(c \in readers'[l] /\ c \in blocked'[l])
    <3> HIDE DEF Reads, Locked, RLocked, OneRoom, TypeOK, LocksInv, Basic, Locks, HeldOnly
    <3> QED BY <1>0, <2>1, OwnLocks
  <2> HIDE DEF Reads
  <2>3. \A l \in Locks : owner'[l] # c /\ ~Reads(c, l)'
    BY <2>1, <2>2
  <2> QED BY <2>1, <2>3 DEF Reads
<1>15. CASE Count(c)
  <2>1. /\ at[c] = "prune" /\ at'[c] \in {"delete", "keep"}
        /\ rooms[roomID[c]] \in Locks
        /\ Locked(c, rooms[roomID[c]]) /\ Unlock(rooms[roomID[c]])
    BY <1>15 DEF Count
  <2>2. /\ \A l \in Locks : owner'[l] = c <=> owner[l] = c /\ l # rooms[roomID[c]]
        /\ \A l \in Locks : Reads(c, l)' <=> Reads(c, l)
        /\ \A l \in Locks : ~(c \in readers'[l] /\ c \in blocked'[l])
    <3> HIDE DEF Reads, Locked, RLocked, OneRoom, TypeOK, LocksInv, Basic, Locks, HeldOnly
    <3> QED BY <1>0, <2>1, OwnLocks
  <2> HIDE DEF Reads
  <2>3. \A l \in Locks : (owner'[l] = c => l = roomsMu) /\ ~Reads(c, l)'
    BY <2>1, <2>2
  <2> QED BY <2>1, <2>2, <2>3
<1>16. CASE Delete(c) \/ Keep(c)
  <2>1. /\ at[c] \in {"delete", "keep"} /\ at'[c] = "idle"
        /\ roomsMu \in Locks /\ Locked(c, roomsMu) /\ Unlock(roomsMu)
    BY <1>16 DEF Delete, Keep, Return
  <2>2. /\ \A l \in Locks : owner'[l] = c <=> owner[l] = c /\ l # roomsMu
        /\ \A l \in Locks : Reads(c, l)' <=> Reads(c, l)
        /\ \A l \in Locks : ~(c \in readers'[l] /\ c \in blocked'[l])
    <3> HIDE DEF Reads, Locked, RLocked, OneRoom, TypeOK, LocksInv, Basic, Locks, HeldOnly
    <3> QED BY <1>0, <2>1, OwnLocks
  <2> HIDE DEF Reads
  <2>3. \A l \in Locks : owner'[l] # c /\ ~Reads(c, l)'
    BY <2>1, <2>2
  <2> QED BY <2>1, <2>3 DEF Reads
<1>17. CASE List(c)
  <2>1. /\ at[c] = "list" /\ at'[c] = "idle"
        /\ roomsMu \in Locks /\ RLocked(c, roomsMu) /\ RUnlock(c, roomsMu)
    BY <1>17 DEF List, Return
  <2>2. /\ \A l \in Locks : Reads(c, l)' <=> Reads(c, l) /\ l # roomsMu
        /\ \A l \in Locks : ~(c \in readers'[l] /\ c \in blocked'[l])
        /\ UNCHANGED owner
    <3> HIDE DEF Reads, Locked, RLocked, OneRoom, TypeOK, LocksInv, Basic, Locks, HeldOnly
    <3> QED BY <1>0, <2>1, OwnLocks
  <2> HIDE DEF Reads
  <2>3. \A l \in Locks : owner'[l] # c /\ ~Reads(c, l)'
    BY <2>1, <2>2
  <2> QED BY <2>1, <2>3 DEF Reads
<1>18. CASE ScanBegin(c)
  BY <1>18 DEF ScanBegin
<1>19. CASE ScanEnd(c)
  <2>1. /\ at[c] = "look" /\ at'[c] = "idle" /\ todo[c] = {}
        /\ roomsMu \in Locks /\ RLocked(c, roomsMu) /\ RUnlock(c, roomsMu)
    BY <1>19 DEF ScanEnd, Return
  <2>2. /\ \A l \in Locks : Reads(c, l)' <=> Reads(c, l) /\ l # roomsMu
        /\ \A l \in Locks : ~(c \in readers'[l] /\ c \in blocked'[l])
        /\ UNCHANGED owner
    <3> HIDE DEF Reads, Locked, RLocked, OneRoom, TypeOK, LocksInv, Basic, Locks, HeldOnly
    <3> QED BY <1>0, <2>1, OwnLocks
  <2> HIDE DEF Reads
  <2>3. \A l \in Locks : owner'[l] # c /\ ~Reads(c, l)'
    BY <2>1, <2>2
  <2> QED BY <2>1, <2>3 DEF Reads
<1>20. ASSUME NEW id \in RoomIDs, Look(c, id) PROVE HeldOnly(c)' /\ OneRoom(c)'
  <2>1. /\ rooms[id] \in RoomRefs /\ RLocked(c, rooms[id]) /\ RUnlock(c, rooms[id])
        /\ rooms[id] \in Locks /\ at[c] = "look" /\ id \in todo[c] /\ todo'[c] = todo[c] \ {id}
        /\ UNCHANGED <<roomVars, at, op, roomID, ptr>>
    BY <1>20 DEF Look
  <2>2. /\ \A l \in Locks : Reads(c, l)' <=> Reads(c, l) /\ l # rooms[id]
        /\ \A l \in Locks : ~(c \in readers'[l] /\ c \in blocked'[l])
        /\ UNCHANGED owner
    <3> HIDE DEF Reads, Locked, RLocked, OneRoom, TypeOK, LocksInv, Basic, Locks, HeldOnly
    <3> QED BY <1>0, <2>1, OwnLocks
  <2>3. \A r \in RoomRefs : Reads(c, r) => r = rooms[id]
    BY <2>1
  <2> HIDE DEF Reads
  <2>4. \A l \in Locks : owner[l] # c /\ (Reads(c, l)' => l = roomsMu)
    BY <2>1, <2>2, <2>3
  <2> QED BY <2>1, <2>2, <2>4
<1> QED BY <1>1, <1>2, <1>3, <1>4, <1>5, <1>6, <1>7, <1>8, <1>9, <1>10, <1>11, <1>12,
           <1>13, <1>14, <1>15, <1>16, <1>17, <1>18, <1>19, <1>20
        DEF Step, Acquire, Section

(* A waiting reader is let in; it never reads and waits at a time.         *)
LEMMA OthersExclusive ==
  ASSUME TypeOK, NEW c \in Conns, LockOp(c), NEW d \in Conns, d # c, NEW l \in Locks,
         ~(d \in readers[l] /\ d \in blocked[l])
  PROVE  ~(d \in readers'[l] /\ d \in blocked'[l])
<1> USE DEF TypeOK
<1>1. CASE UNCHANGED lockVars \/ \E m \in Locks : Lock(c, m)
  BY <1>1 DEF lockVars, Lock
<1>2. ASSUME NEW m \in Locks, Unlock(m) PROVE ~(d \in readers'[l] /\ d \in blocked'[l])
  BY <1>2 DEF Unlock
<1>3. ASSUME NEW m \in Locks, RLock(c, m) PROVE ~(d \in readers'[l] /\ d \in blocked'[l])
  BY <1>3 DEF RLock
<1>4. ASSUME NEW m \in Locks, RUnlock(c, m) PROVE ~(d \in readers'[l] /\ d \in blocked'[l])
  BY <1>4 DEF RUnlock
<1> QED BY <1>1, <1>2, <1>3, <1>4 DEF LockOp

(* What another handler does leaves a handler's locks what they are.       *)
LEMMA OthersHeldOnly ==
  ASSUME LocksInv, NEW c \in Conns, Step(c), NEW d \in Conns, d # c
  PROVE  HeldOnly(d)' /\ OneRoom(d)'
<1>1. /\ at'[d] = at[d] /\ op'[d] = op[d] /\ roomID'[d] = roomID[d]
      /\ ptr'[d] = ptr[d] /\ todo'[d] = todo[d]
  BY OthersLocals DEF LocksInv, Basic
<1>2. LockOp(c) /\ TypeOK /\ roomsMu \in Locks /\ RoomRefs \subseteq Locks
  BY LockDiscipline DEF LocksInv, Basic, Locks
<1>3. \A l \in Locks :
        /\ owner'[l] = d <=> owner[l] = d
        /\ Reads(d, l)' <=> Reads(d, l)
        /\ Locked(d, l) => Locked(d, l)'
  BY <1>2, OthersLocks DEF Reads
<1>4. \A l \in Locks : ~(d \in readers'[l] /\ d \in blocked'[l])
  BY <1>2, OthersExclusive DEF LocksInv, OneRoom
<1>5. ASSUME at[d] = "look" \/ Locked(d, roomsMu) PROVE UNCHANGED rooms
  <2>1. ~Locked(c, roomsMu)
    BY <1>5 DEF LocksInv, Basic, MapHeld, RLocked, Locked
  <2> QED BY <2>1, RoomsStep DEF LocksInv
<1>6. OneRoom(d)'
  BY <1>1, <1>2, <1>3, <1>4 DEF LocksInv, OneRoom
<1>7. HeldOnly(d)'
  <2> SUFFICES ASSUME NEW l \in Locks
               PROVE  /\ owner'[l] = d =>
                           \/ l = roomsMu /\ at'[d] \in {"create", "prune", "delete", "keep"}
                           \/ at'[d] = "apply" /\ op'[d] \in {"join", "leave"} /\ l = ptr'[d]
                           \/ /\ at'[d] = "prune" /\ Locked(d, roomsMu)'
                              /\ l \in RoomRefs /\ l = rooms'[roomID'[d]]
                      /\ Reads(d, l)' =>
                           \/ l = roomsMu /\ at'[d] \in {"lookup", "list", "scan", "look"}
                           \/ at'[d] = "apply" /\ op'[d] = "send" /\ l = ptr'[d]
                           \/ /\ at'[d] = "look" /\ l \in RoomRefs
                              /\ \E id \in todo'[d] : l = rooms'[id]
    BY DEF HeldOnly
  <2> HIDE DEF Reads, Locked
  <2>1. CASE owner[l] = d /\ Locked(d, roomsMu)
    BY <2>1, <1>1, <1>2, <1>3, <1>5 DEF LocksInv, HeldOnly
  <2>2. CASE owner[l] = d /\ ~Locked(d, roomsMu)
    BY <2>2, <1>1, <1>3 DEF LocksInv, HeldOnly
  <2>3. CASE Reads(d, l) /\ at[d] = "look"
    BY <2>3, <1>1, <1>3, <1>5 DEF LocksInv, HeldOnly
  <2>4. CASE Reads(d, l) /\ at[d] # "look"
    BY <2>4, <1>1, <1>3 DEF LocksInv, HeldOnly
  <2>5. owner'[l] = d => owner[l] = d
    BY <1>3
  <2>6. Reads(d, l)' => Reads(d, l)
    BY <1>3
  <2>7. owner'[l] = d =>
           \/ l = roomsMu /\ at'[d] \in {"create", "prune", "delete", "keep"}
           \/ at'[d] = "apply" /\ op'[d] \in {"join", "leave"} /\ l = ptr'[d]
           \/ /\ at'[d] = "prune" /\ Locked(d, roomsMu)'
              /\ l \in RoomRefs /\ l = rooms'[roomID'[d]]
    BY <2>1, <2>2, <2>5
  <2>8. Reads(d, l)' =>
           \/ l = roomsMu /\ at'[d] \in {"lookup", "list", "scan", "look"}
           \/ at'[d] = "apply" /\ op'[d] = "send" /\ l = ptr'[d]
           \/ /\ at'[d] = "look" /\ l \in RoomRefs
              /\ \E id \in todo'[d] : l = rooms'[id]
    BY <2>3, <2>4, <2>6
  <2> QED BY <2>7, <2>8
<1> QED BY <1>6, <1>7

(* What is held stays what the positions say, whoever moves.               *)
LEMMA LocksStep == LocksInv /\ [Next]_vars => LocksInv'
<1> SUFFICES ASSUME LocksInv, [Next]_vars PROVE LocksInv'
  OBVIOUS
<1>1. Basic'
  BY BasicStep DEF LocksInv
<1>2. CASE UNCHANGED vars
  BY <1>1, <1>2 DEF vars, roomVars, callVars, lockVars, LocksInv, HeldOnly, OneRoom,
                    Reads, Locked
<1>3. ASSUME NEW c \in Conns, Step(c) PROVE LocksInv'
  BY <1>1, <1>3, OwnHeldOnly, OthersHeldOnly DEF LocksInv
<1> QED BY <1>2, <1>3 DEF Next, Step

(* At first nothing is held.                                               *)
LEMMA LocksInit == Init => LocksInv
<1> SUFFICES ASSUME Init PROVE LocksInv
  OBVIOUS
<1>1. Basic
  BY BasicInit
<1>2. ASSUME NEW c \in Conns PROVE HeldOnly(c) /\ OneRoom(c)
  BY RoomsAssumption DEF Init, HeldOnly, OneRoom, Reads
<1> QED BY <1>1, <1>2 DEF LocksInv

(* Room pointers are used only where the code has one, and the map is      *)
(* written only under its lock.                                            *)
THEOREM TypeCorrect == Spec => []TypeOK
<1>1. Basic => TypeOK
  BY DEF Basic
<1> QED BY <1>1, BasicInit, BasicStep, PTL DEF Spec

(* No way out of an operation of room.go leaves a lock behind, neither the *)
(* early returns of removeEmptyRoom nor the panic in a broadcast.          *)
THEOREM LocksReleased == Spec => []NoLockLeft
<1>1. LocksInv => NoLockLeft
  BY DEF LocksInv, HeldOnly, NoLockLeft, Reads
<1> QED BY <1>1, LocksInit, LocksStep, PTL DEF Spec

-----------------------------------------------------------------------------
(* No deadlock.                                                            *)

Waits(c) == \E d \in Conns : WaitsFor(c, d)

OwnsRoom(c) == \E r \in RoomRefs : owner[r] = c

(* Who reads under a Room's lock, a broadcast or a scan, waits for nobody. *)
LEMMA RoomReadersGoOn ==
  ASSUME LocksInv, NEW r \in RoomRefs, NEW c \in Conns, c \in readers[r]
  PROVE  ~Waits(c)
<1> SUFFICES ASSUME NEW d \in Conns, WaitsFor(c, d) PROVE FALSE
  BY DEF Waits
<1> USE DEF LocksInv
<1>1. r \in Locks /\ roomsMu \in Locks /\ r # roomsMu
  BY RoomLocksAssumption DEF Locks
<1>2. \/ at[c] = "apply" /\ op[c] = "send" /\ r = ptr[c]
      \/ at[c] = "look" /\ c \in readers[roomsMu]
  BY <1>1 DEF HeldOnly, Reads, Basic, MapHeld, RLocked
<1>3. \A l \in Locks : owner[l] # c /\ ~Wants(c, l)
  BY <1>2 DEF HeldOnly, Wants
<1>4. \A l \in Locks : c \notin blocked[l]
  <2> SUFFICES ASSUME NEW l \in Locks, c \in blocked[l] PROVE FALSE
    OBVIOUS
  <2>1. Reads(c, l) /\ Reads(c, r)
    BY DEF Reads
  <2>2. l # r /\ (at[c] = "look" => l # roomsMu)
    BY <1>1, <1>2 DEF OneRoom
  <2>3. at[c] = "look" => l \notin RoomRefs
    BY <2>1, <2>2 DEF OneRoom
  <2> QED BY <1>2, <2>1, <2>2, <2>3 DEF HeldOnly
<1> QED BY <1>3, <1>4 DEF WaitsFor

(* Who reads the map waits for nobody either, but for a scan.              *)
LEMMA MapReadersGoOn ==
  ASSUME LocksInv, NEW c \in Conns, c \in readers[roomsMu], at[c] # "look"
  PROVE  ~Waits(c)
<1> SUFFICES ASSUME NEW d \in Conns, WaitsFor(c, d) PROVE FALSE
  BY DEF Waits
<1> USE DEF LocksInv
<1>1. roomsMu \in Locks /\ roomsMu \notin RoomRefs
  BY RoomLocksAssumption DEF Locks
<1>2. at[c] \in {"lookup", "list", "scan"}
  BY <1>1 DEF HeldOnly, Reads, Basic, LocalsOK
<1>3. \A l \in Locks : owner[l] # c /\ ~Wants(c, l)
  BY <1>2 DEF HeldOnly, Wants
<1>4. \A l \in Locks : c \notin blocked[l]
  BY <1>1, <1>2 DEF HeldOnly, OneRoom, Reads
<1> QED BY <1>3, <1>4 DEF WaitsFor

(* A handler that has called Lock on a Room, and keeps new readers out,    *)
(* waits for the readers of that Room only.                                *)
LEMMA RoomOwnerWaits ==
  ASSUME LocksInv, NEW c \in Conns, OwnsRoom(c), NEW d \in Conns, WaitsFor(c, d)
  PROVE  ~Waits(d)
<1> USE DEF LocksInv
<1>1. PICK r \in RoomRefs : owner[r] = c
  BY DEF OwnsRoom
<1>2. r \in Locks /\ roomsMu \in Locks /\ r # roomsMu
  BY RoomLocksAssumption DEF Locks
<1>3. \/ at[c] = "apply" /\ op[c] \in {"join", "leave"} /\ r = ptr[c]
      \/ at[c] = "prune" /\ Locked(c, roomsMu) /\ r = rooms[roomID[c]]
  BY <1>1, <1>2 DEF HeldOnly
<1>4. \A l \in Locks : c \notin blocked[l]
  BY <1>3 DEF HeldOnly, Reads
<1>5. \A l \in Locks : ~Wants(c, l)
  BY <1>1, <1>3 DEF Wants, Locked
<1>6. PICK l \in Locks : owner[l] = c /\ d \in readers[l]
  BY <1>4, <1>5 DEF WaitsFor
<1>7. l = r
  BY <1>2, <1>3, <1>6 DEF HeldOnly, Locked, Basic, TypeOK
<1> QED BY <1>6, <1>7, RoomReadersGoOn

(* A scan waits for a Room's lock, not for the lock of the map.            *)
LEMMA ScanWaits ==
  ASSUME LocksInv, NEW c \in Conns, at[c] = "look", NEW d \in Conns, WaitsFor(c, d)
  PROVE  OwnsRoom(d)
<1> USE DEF LocksInv
<1>1. roomsMu \in Locks /\ c \in readers[roomsMu]
  BY DEF Locks, Basic, MapHeld, RLocked
<1>2. \A l \in Locks : owner[l] # c /\ ~Wants(c, l)
  BY DEF HeldOnly, Wants
<1>3. PICK l \in Locks : owner[l] = d /\ c \in blocked[l]
  BY <1>2 DEF WaitsFor
<1>4. l # roomsMu
  BY <1>1, <1>3 DEF OneRoom
<1> QED BY <1>3, <1>4 DEF Locks, OwnsRoom

(* The owner of the map's lock waits for readers, or inside it for a Room. *)
LEMMA MapOwnerWaits ==
  ASSUME LocksInv, NEW c \in Conns, owner[roomsMu] = c, NEW d \in Conns, WaitsFor(c, d)
  PROVE  ~Waits(d) \/ at[d] = "look" \/ OwnsRoom(d)
<1> USE DEF LocksInv
<1>1. roomsMu \in Locks /\ (at[c] = "apply" => ptr[c] # roomsMu)
  BY RoomLocksAssumption DEF Locks, Basic, LocalsOK
<1>2. at[c] \in {"create", "prune", "delete", "keep"}
  BY <1>1, RoomLocksAssumption DEF HeldOnly
<1>3. \A l \in Locks : c \notin blocked[l]
  BY <1>2 DEF HeldOnly, Reads
<1>4. \A l \in Locks : Wants(c, l) => l # roomsMu
  BY DEF Wants
<1>5. PICK l \in Locks :
        (owner[l] = c /\ d \in readers[l]) \/ (owner[l] = d /\ l # roomsMu)
  BY <1>3, <1>4 DEF WaitsFor
<1>6. CASE l = roomsMu
  BY <1>5, <1>6, MapReadersGoOn
<1>7. CASE l \in RoomRefs
  BY <1>5, <1>7, RoomReadersGoOn DEF OwnsRoom
<1> QED BY <1>6, <1>7 DEF Locks

(* Whoever waits, waits for one of these.                                  *)
LEMMA AnyWaits ==
  ASSUME LocksInv, NEW c \in Conns, NEW d \in Conns, WaitsFor(c, d)
  PROVE  ~Waits(d) \/ at[d] = "look" \/ OwnsRoom(d) \/ owner[roomsMu] = d
<1>1. PICK l \in Locks : d \in readers[l] \/ owner[l] = d
  BY DEF WaitsFor
<1>2. CASE l = roomsMu
  BY <1>1, <1>2, MapReadersGoOn
<1>3. CASE l \in RoomRefs
  BY <1>1, <1>3, RoomReadersGoOn DEF OwnsRoom
<1> QED BY <1>2, <1>3 DEF Locks

(* Among any handlers of room.go there is one that waits for none of the   *)
(* others, for any number of handlers: from whoever waits it is at most    *)
(* four waits to one that goes on.                                         *)
THEOREM DeadlockFree == Spec => []NoDeadlock
<1>1. LocksInv => NoDeadlock
  <2> SUFFICES ASSUME LocksInv, NEW S \in (SUBSET Conns) \ {{}},
                      \A c \in S : \E d \in S : WaitsFor(c, d)
               PROVE  FALSE
    BY DEF NoDeadlock
  <2>1. \A c \in S : c \in Conns /\ Waits(c)
    BY DEF Waits
  <2>2. \A c \in S : ~OwnsRoom(c)
    BY <2>1, RoomOwnerWaits
  <2>3. \A c \in S : at[c] # "look"
    BY <2>1, <2>2, ScanWaits
  <2>4. \A c \in S : owner[roomsMu] # c
    BY <2>1, <2>2, <2>3, MapOwnerWaits
  <2>5. PICK c \in S : TRUE
    OBVIOUS
  <2> QED BY <2>1, <2>2, <2>3, <2>4, <2>5, AnyWaits
<1> QED BY <1>1, LocksInit, LocksStep, PTL DEF Spec

-----------------------------------------------------------------------------
(* The operations are those of RoomOps.                                    *)

(* The state of RoomOps.                                                   *)
absRooms == [id \in RoomIDs |-> IF Doomed(id) THEN NoRoom ELSE rooms[id]]
absAt == [c \in Conns |-> IF at[c] \in {"delete", "keep"} THEN "idle" ELSE at[c]]
absOp == [c \in Conns |-> IF at[c] \in {"delete", "keep"} THEN "none" ELSE op[c]]
absRoomID ==
  [c \in Conns |-> IF at[c] \in {"delete", "keep"} THEN NoRoom ELSE roomID[c]]

(* What a broadcast has sent to are members, and stay members to its end.  *)
SentToMembers(c) ==
  sent[c] # {} => RLocked(c, ptr[c]) /\ sent[c] \subseteq Members(ptr[c])

IInv == LocksInv /\ \A c \in Conns : SentToMembers(c)

(* Members of a Room under a broadcast stay: whoever changes them needs    *)
(* the lock, or a Room nobody points to.                                   *)
LEMMA SentStep ==
  ASSUME IInv, NEW c \in Conns, Step(c), NEW d \in Conns
  PROVE  SentToMembers(d)'
<1> USE DEF IInv, LocksInv
<1>1. CASE d # c
  <2>1. sent'[d] = sent[d] /\ ptr'[d] = ptr[d]
    BY <1>1, OthersLocals DEF Basic
  <2> SUFFICES ASSUME sent[d] # {} PROVE SentToMembers(d)'
    BY <2>1 DEF SentToMembers
  <2>2. ptr[d] \in RoomRefs /\ ptr[d] \in Locks
    BY DEF Basic, LocalsOK, Locks
  <2>3. RLocked(d, ptr[d]) /\ sent[d] \subseteq Members(ptr[d])
    BY DEF SentToMembers
  <2>4. d \in readers'[ptr[d]]
    BY <1>1, <2>2, <2>3, LockDiscipline, OthersLocks DEF Basic, RLocked
  <2>5. clients'[ptr[d]] = clients[ptr[d]]
    BY <2>2, <2>3, RoomsStep DEF Locked, RLocked
  <2> QED BY <2>1, <2>3, <2>4, <2>5 DEF SentToMembers, RLocked, Members
<1>2. CASE d = c
  <2>0. ~(at[c] = "apply" /\ op[c] = "send") => sent[c] = {}
    BY DEF Basic, LocalsOK
  <2>1. CASE Acquire(c)
    <3>1. UNCHANGED <<callVars, roomVars>>
      BY <2>1 DEF Acquire, RLockRooms, LockRooms, LockRoom, RLockRoom, LockCount, RLockLook
    <3>2. ASSUME sent[c] # {} PROVE FALSE
      <4>1. at[c] = "apply" /\ op[c] = "send" /\ RLocked(c, ptr[c])
        BY <3>2 DEF Basic, LocalsOK, SentToMembers
      <4> QED BY <2>1, <4>1 DEF Acquire, RLockRooms, LockRooms, LockRoom, RLockRoom,
                                LockCount, RLockLook, RLock, RLocked
    <3> QED BY <1>2, <3>1, <3>2 DEF SentToMembers, callVars
  <2>2. ASSUME NEW e \in Conns, Send(c, e) PROVE SentToMembers(c)'
    <3>1. /\ sent'[c] = sent[c] \cup {e} /\ e \in Members(ptr[c]) /\ RLocked(c, ptr[c])
          /\ UNCHANGED <<roomVars, ptr, lockVars>>
      BY <2>2 DEF Send, Basic, TypeOK
    <3>2. Members(ptr[c])' = Members(ptr[c])
      BY <3>1 DEF Members, roomVars
    <3> QED BY <3>1, <3>2 DEF SentToMembers, RLocked, lockVars
  <2>3. ASSUME NEW o, NEW id, Call(c, o, id) PROVE sent'[c] = {}
    BY <2>0, <2>3 DEF Call, Goto
  <2>4. ASSUME Lookup(c) \/ Create(c) \/ Remove(c) PROVE sent'[c] = {}
    BY <2>0, <2>4 DEF Lookup, Create, Remove, Goto
  <2>5. ASSUME NEW from, NEW v, Return(c, from, v) PROVE sent'[c] = {}
    BY <2>5 DEF Return, Basic, TypeOK
  <2>6. ASSUME Count(c) \/ ScanBegin(c) PROVE sent'[c] = {}
    BY <2>0, <2>6 DEF Count, ScanBegin, Goto
  <2>7. ASSUME NEW id \in RoomIDs, Look(c, id) PROVE sent'[c] = {}
    BY <2>0, <2>7 DEF Look, Goto
  <2>8. Acquire(c) \/ (\E e \in Conns : Send(c, e)) \/ sent'[c] = {}
    BY <2>3, <2>4, <2>5, <2>6, <2>7 DEF Step, Section, Join, BroadcastEnd, SendPanics,
       PruneMissing, Delete, Keep, List, ScanEnd
  <2> QED BY <1>2, <2>1, <2>2, <2>8 DEF SentToMembers
<1> QED BY <1>1, <1>2

(* A step changes the position and the arguments of its own handler only.  *)
LEMMA AbsLocals ==
  ASSUME Basic, NEW c \in Conns, Step(c)
  PROVE  /\ absAt' = [absAt EXCEPT ![c] =
                        IF at'[c] \in {"delete", "keep"} THEN "idle" ELSE at'[c]]
         /\ absOp' = [absOp EXCEPT ![c] =
                        IF at'[c] \in {"delete", "keep"} THEN "none" ELSE op'[c]]
         /\ absRoomID' = [absRoomID EXCEPT ![c] =
                            IF at'[c] \in {"delete", "keep"} THEN NoRoom ELSE roomID'[c]]
<1>1. \A d \in Conns : d # c =>
        at'[d] = at[d] /\ op'[d] = op[d] /\ roomID'[d] = roomID[d]
  BY OthersLocals DEF Basic
<1> QED BY <1>1 DEF absAt, absOp, absRoomID

(* Who may read or write the map finds no Room that is about to go.        *)
LEMMA FreeMap ==
  ASSUME Basic, NEW c \in Conns,
         RLocked(c, roomsMu) \/ (Locked(c, roomsMu) /\ at[c] # "delete")
  PROVE  absRooms = rooms /\ \A id : ~Doomed(id)
<1>1. ASSUME NEW d \in Conns, at[d] = "delete" PROVE FALSE
  <2>1. Locked(d, roomsMu)
    BY <1>1 DEF Basic, MapHeld
  <2> QED BY <1>1, <2>1 DEF RLocked, Locked
<1> QED BY <1>1 DEF absRooms, Doomed, Basic, TypeOK, RoomsTypeOK

(* Until then nothing is about to go after the step either.                *)
LEMMA FreeMapNext ==
  ASSUME Basic, NEW c \in Conns, Step(c), at'[c] # "delete",
         RLocked(c, roomsMu) \/ Locked(c, roomsMu)
  PROVE  absRooms' = rooms'
<1>1. ASSUME NEW d \in Conns, at'[d] = "delete" PROVE FALSE
  <2>1. d # c /\ at[d] = "delete"
    BY <1>1, OthersLocals DEF Basic
  <2>2. Locked(d, roomsMu)
    BY <2>1 DEF Basic, MapHeld
  <2> QED BY <2>1, <2>2 DEF RLocked, Locked
<1>2. rooms' \in [RoomIDs -> RoomRefs \cup {NoRoom}]
  BY RoomsStep DEF RoomsTypeOK
<1> QED BY <1>1, <1>2 DEF absRooms, Doomed

(* A step that leaves the map alone leaves it alone, whoever deletes.      *)
LEMMA SameMap ==
  ASSUME Basic, NEW c \in Conns, Step(c), at[c] # "delete", at'[c] # "delete",
         UNCHANGED rooms
  PROVE  absRooms' = absRooms
<1>1. \A d \in Conns :
        (at'[d] = "delete" /\ roomID'[d] = roomID[d]) <=>
        (at[d] = "delete" /\ roomID'[d] = roomID[d])
  BY OthersLocals DEF Basic
<1>2. \A d \in Conns : d # c => roomID'[d] = roomID[d]
  BY OthersLocals DEF Basic
<1>3. \A id \in RoomIDs : Doomed(id)' <=> Doomed(id)
  BY <1>1, <1>2 DEF Doomed
<1> QED BY <1>3 DEF absRooms

(* Taking a lock, one send of a broadcast and what follows a count are no  *)
(* steps of RoomOps.                                                       *)
LEMMA StutterSteps ==
  ASSUME IInv, NEW c \in Conns, Step(c),
         \/ Acquire(c)
         \/ \E d \in Conns : Send(c, d)
         \/ Delete(c)
         \/ Keep(c)
  PROVE  UNCHANGED Ops!vars
<1>0. Basic
  BY DEF IInv, LocksInv
<1>1. CASE Acquire(c)
  <2>1. UNCHANGED <<roomVars, callVars>>
    BY <1>1 DEF Acquire, RLockRooms, LockRooms, LockRoom, RLockRoom, LockCount, RLockLook
  <2> QED BY <2>1 DEF Ops!vars, Ops!roomVars, Ops!callVars, roomVars, callVars, Doomed
<1>2. ASSUME NEW d \in Conns, Send(c, d) PROVE UNCHANGED Ops!vars
  <2>1. UNCHANGED <<roomVars, at, op, roomID, ptr, todo, result>>
    BY <1>2 DEF Send
  <2> QED BY <2>1 DEF Ops!vars, Ops!roomVars, Ops!callVars, roomVars, Doomed
<1>3. ASSUME Delete(c) \/ Keep(c) PROVE UNCHANGED Ops!vars
  <2>1. /\ at[c] \in {"delete", "keep"} /\ Locked(c, roomsMu) /\ roomID[c] \in RoomIDs
        /\ ptr[c] = NoRoom /\ todo[c] = {} /\ result[c] = {}
    BY <1>0, <1>3 DEF Delete, Keep, Return, Goto, Basic, LocalsOK, MapHeld
  <2>2. Return(c, at[c], {}) /\ UNCHANGED clients
    BY <1>3 DEF Delete, Keep, Return, Goto, roomVars
  <2>3. at'[c] = "idle" /\ op'[c] = "none" /\ roomID'[c] = NoRoom
    BY <1>0, <2>2 DEF Return, Goto, Basic, TypeOK
  <2>4. UNCHANGED <<absAt, absOp, absRoomID>>
    BY <1>0, <2>1, <2>3, AbsLocals DEF absAt, absOp, absRoomID
  <2>5. UNCHANGED <<ptr, todo, result>>
    BY <1>0, <2>1, <2>2 DEF Return, Basic, TypeOK
  <2>6. absRooms' = rooms'
    BY <1>0, <2>1, <2>3, FreeMapNext
  <2>7. absRooms = rooms'
    <3>1. \A d \in Conns : at[d] = "delete" => d = c
      BY <1>0, <2>1 DEF Basic, MapHeld, Locked
    <3>2. CASE Delete(c)
      <4>1. at[c] = "delete" /\ rooms' = [rooms EXCEPT ![roomID[c]] = NoRoom]
        BY <3>2 DEF Delete, Return, Goto
      <4>2. \A id \in RoomIDs : Doomed(id) <=> id = roomID[c]
        BY <3>1, <4>1 DEF Doomed
      <4> QED BY <1>0, <4>1, <4>2, <2>1 DEF absRooms, Basic, TypeOK, RoomsTypeOK
    <3>3. CASE Keep(c)
      <4>1. at[c] # "delete" /\ rooms' = rooms
        BY <3>3 DEF Keep, Return, Goto, roomVars
      <4> QED BY <1>0, <4>1, <2>1, FreeMap
    <3> QED BY <1>3, <3>2, <3>3
  <2> QED BY <2>2, <2>4, <2>5, <2>6, <2>7
          DEF Ops!vars, Ops!roomVars, Ops!callVars, absRooms, absAt, absOp, absRoomID
<1> QED BY <1>1, <1>2, <1>3

(* An operation that returns does so in RoomOps, from where it is there.   *)
LEMMA ReturnMaps ==
  ASSUME Basic, NEW c \in Conns, Step(c), NEW v, NEW from, Return(c, from, v),
         from \notin {"delete", "keep"}
  PROVE  Ops!Return(c, from, v)
<1>1. /\ at[c] = from /\ at'[c] = "idle" /\ op'[c] = "none" /\ roomID'[c] = NoRoom
      /\ absAt[c] = from
  BY DEF Return, Goto, Basic, TypeOK, absAt
<1>2. /\ absAt' = [absAt EXCEPT ![c] = "idle"]
      /\ absOp' = [absOp EXCEPT ![c] = "none"]
      /\ absRoomID' = [absRoomID EXCEPT ![c] = NoRoom]
  BY <1>1, AbsLocals
<1> QED BY <1>1, <1>2 DEF Ops!Return, Ops!Goto, absAt, absOp, absRoomID, Return

(* The operations that only look or change one Room's clients.             *)
LEMMA ReturningSteps ==
  ASSUME IInv, NEW c \in Conns, Step(c)
  PROVE  /\ Join(c) => Ops!Join(c)
         /\ BroadcastEnd(c) => Ops!Broadcast(c)
         /\ SendPanics(c) => Ops!BroadcastPanics(c)
         /\ PruneMissing(c) => Ops!Prune(c)
         /\ List(c) => Ops!List(c)
         /\ ScanEnd(c) => Ops!ScanEnd(c)
<1>0. Basic
  BY DEF IInv, LocksInv
<1>1. ASSUME Join(c) PROVE Ops!Join(c)
  <2>1. /\ op[c] = "join" /\ at[c] = "apply" /\ Return(c, "apply", {})
        /\ AddClient(ptr[c], UserOf[c], c)
    BY <1>1 DEF Join
  <2>2. Ops!Return(c, "apply", {})
    BY <1>0, <2>1, ReturnMaps
  <2>3. absRooms' = absRooms
    BY <1>0, <2>1, SameMap DEF Return, Goto, AddClient, Basic, TypeOK
  <2>4. Ops!AddClient(ptr[c], UserOf[c], c)
    BY <2>1, <2>3 DEF AddClient, Ops!AddClient, absRooms
  <2>5. absOp[c] = "join"
    BY <2>1 DEF absOp
  <2> QED BY <2>2, <2>4, <2>5 DEF Ops!Join, absOp
<1>2. ASSUME BroadcastEnd(c) PROVE Ops!Broadcast(c)
  <2>1. /\ op[c] = "send" /\ at[c] = "apply" /\ Return(c, "apply", sent[c])
        /\ Members(ptr[c]) \subseteq sent[c] /\ UNCHANGED roomVars
    BY <1>2 DEF BroadcastEnd
  <2>2. PICK v : v = sent[c] /\ v = Members(ptr[c])
    BY <2>1 DEF IInv, SentToMembers
  <2>3. Ops!Return(c, "apply", v)
    BY <1>0, <2>1, <2>2, ReturnMaps
  <2>4. absRooms' = absRooms
    BY <1>0, <2>1, SameMap DEF Return, Goto, roomVars, Basic, TypeOK
  <2>5. absOp[c] = "send"
    BY <2>1 DEF absOp
  <2> QED BY <2>1, <2>2, <2>3, <2>4, <2>5 DEF Ops!Broadcast, Ops!Return, Ops!Members,
          Members, Ops!roomVars, roomVars, absOp, absRooms
<1>3. ASSUME SendPanics(c) PROVE Ops!BroadcastPanics(c)
  <2>1. /\ op[c] = "send" /\ at[c] = "apply" /\ Return(c, "apply", {})
        /\ Members(ptr[c]) # {} /\ UNCHANGED roomVars
    BY <1>3 DEF SendPanics
  <2>2. Ops!Return(c, "apply", {})
    BY <1>0, <2>1, ReturnMaps
  <2>3. absRooms' = absRooms
    BY <1>0, <2>1, SameMap DEF Return, Goto, roomVars, Basic, TypeOK
  <2>4. absOp[c] = "send" /\ absAt[c] = "apply"
    BY <2>1 DEF absOp, absAt
  <2> QED BY <2>1, <2>2, <2>3, <2>4 DEF Ops!BroadcastPanics, Ops!Members, Members,
          Ops!roomVars, roomVars, absOp, absAt, absRooms
<1>4. ASSUME PruneMissing(c) PROVE Ops!Prune(c)
  <2>1. /\ at[c] = "prune" /\ Locked(c, roomsMu) /\ Return(c, "prune", {})
        /\ rooms[roomID[c]] = NoRoom /\ UNCHANGED roomVars
    BY <1>4 DEF PruneMissing
  <2>2. Ops!Return(c, "prune", {})
    BY <1>0, <2>1, ReturnMaps
  <2>3. absRooms' = absRooms
    BY <1>0, <2>1, SameMap DEF Return, Goto, roomVars, Basic, TypeOK
  <2>4. absRooms[roomID[c]] = NoRoom /\ absRoomID[c] = roomID[c]
    BY <1>0, <2>1, FreeMap DEF absRoomID
  <2>5. Ops!RemoveEmptyRoom(absRoomID[c])
    BY <2>1, <2>3, <2>4 DEF Ops!RemoveEmptyRoom, roomVars, absRooms
  <2> QED BY <2>2, <2>5 DEF Ops!Prune, absRoomID
<1>5. ASSUME List(c) PROVE Ops!List(c)
  <2>1. /\ at[c] = "list" /\ Return(c, "list", {id \in RoomIDs : rooms[id] # NoRoom})
        /\ RLocked(c, roomsMu) /\ UNCHANGED roomVars
    BY <1>5 DEF List, Return, Goto
  <2>2. absRooms = rooms
    BY <1>0, <2>1, FreeMap
  <2>3. PICK v : /\ v = {id \in RoomIDs : rooms[id] # NoRoom}
                 /\ v = {id \in RoomIDs : absRooms[id] # NoRoom}
    BY <2>2
  <2>4. Ops!Return(c, "list", v)
    BY <1>0, <2>1, <2>3, ReturnMaps
  <2>5. absRooms' = absRooms
    BY <1>0, <2>1, SameMap DEF Return, Goto, roomVars, Basic, TypeOK
  <2> QED BY <2>1, <2>3, <2>4, <2>5 DEF Ops!List, Ops!Return, Ops!roomVars, roomVars, absRooms
<1>6. ASSUME ScanEnd(c) PROVE Ops!ScanEnd(c)
  <2>1. /\ at[c] = "look" /\ Return(c, "look", result[c])
        /\ todo[c] = {} /\ UNCHANGED roomVars
    BY <1>6 DEF ScanEnd, Return, Goto
  <2>2. PICK v : v = result[c]
    OBVIOUS
  <2>3. Ops!Return(c, "look", v)
    BY <1>0, <2>1, <2>2, ReturnMaps
  <2>4. absRooms' = absRooms
    BY <1>0, <2>1, SameMap DEF Return, Goto, roomVars, Basic, TypeOK
  <2> QED BY <2>1, <2>2, <2>3, <2>4
          DEF Ops!ScanEnd, Ops!Return, Ops!roomVars, roomVars, absRooms
<1> QED BY <1>1, <1>2, <1>3, <1>4, <1>5, <1>6

(* removeEmptyRoom has happened when it has counted.                       *)
LEMMA CountMaps ==
  ASSUME IInv, NEW c \in Conns, Step(c), Count(c)
  PROVE  Ops!Prune(c)
<1> DEFINE id == roomID[c]
<1>0. Basic
  BY DEF IInv, LocksInv
<1>1. /\ at[c] = "prune" /\ Locked(c, roomsMu) /\ rooms[id] # NoRoom
      /\ UNCHANGED <<roomVars, op, roomID, ptr, todo, result>>
      /\ \/ Members(rooms[id]) = {} /\ at' = [at EXCEPT ![c] = "delete"]
         \/ Members(rooms[id]) # {} /\ at' = [at EXCEPT ![c] = "keep"]
  BY DEF Count, Goto
<1>2. /\ id \in RoomIDs /\ ptr[c] = NoRoom /\ todo[c] = {} /\ result[c] = {}
      /\ absAt[c] = "prune" /\ absRoomID[c] = id
      /\ Members(rooms[id]) = {} <=> at'[c] = "delete"
      /\ at'[c] \in {"delete", "keep"}
  BY <1>0, <1>1 DEF Basic, LocalsOK, TypeOK, absAt, absRoomID
<1>3. Ops!Return(c, "prune", {})
  <2>1. /\ absAt' = [absAt EXCEPT ![c] = "idle"]
        /\ absOp' = [absOp EXCEPT ![c] = "none"]
        /\ absRoomID' = [absRoomID EXCEPT ![c] = NoRoom]
    BY <1>0, <1>2, AbsLocals
  <2>2. /\ ptr' = [ptr EXCEPT ![c] = NoRoom]
        /\ todo' = [todo EXCEPT ![c] = {}]
        /\ result' = [result EXCEPT ![c] = {}]
    BY <1>0, <1>1, <1>2 DEF Basic, TypeOK
  <2> QED BY <1>2, <2>1, <2>2 DEF Ops!Return, Ops!Goto, absAt, absOp, absRoomID
<1>4. absRooms = rooms /\ \A i : ~Doomed(i)
  BY <1>0, <1>1, FreeMap
<1>5. Ops!RemoveEmptyRoom(id)
  <2>1. \A d \in Conns : d # c => at'[d] = at[d] /\ at[d] # "delete"
    BY <1>0, <1>1 DEF Basic, MapHeld, Locked, TypeOK
  <2>2. CASE Members(rooms[id]) = {}
    <3>1. \A i \in RoomIDs : Doomed(i)' <=> i = id
      BY <1>1, <1>2, <2>1, <2>2 DEF Doomed
    <3>2. absRooms' = [rooms EXCEPT ![id] = NoRoom]
      BY <1>0, <1>1, <1>2, <3>1 DEF absRooms, roomVars, Basic, TypeOK, RoomsTypeOK
    <3>3. /\ absRooms[id] # NoRoom /\ Members(absRooms[id]) = {}
          /\ absRooms' = [absRooms EXCEPT ![id] = NoRoom]
      BY <1>1, <1>4, <2>2, <3>2
    <3> QED BY <1>1, <3>3
            DEF Ops!RemoveEmptyRoom, Ops!Members, Members, absRooms, roomVars
  <2>3. CASE Members(rooms[id]) # {}
    <3>1. \A i \in RoomIDs : ~Doomed(i)'
      BY <1>2, <2>1, <2>3 DEF Doomed
    <3>2. absRooms' = rooms'
      BY <1>0, <1>1, <3>1 DEF absRooms, roomVars, Basic, TypeOK, RoomsTypeOK
    <3>3. absRooms' = absRooms /\ Members(absRooms[id]) # {}
      BY <1>1, <1>4, <2>3, <3>2 DEF roomVars
    <3> QED BY <1>1, <3>3
            DEF Ops!RemoveEmptyRoom, Ops!Members, Members, absRooms, roomVars
  <2> QED BY <2>2, <2>3
<1>6. Ops!RemoveEmptyRoom(absRoomID[c])
  BY <1>2, <1>5 DEF Ops!RemoveEmptyRoom
<1> QED BY <1>3, <1>6 DEF Ops!Prune, absRoomID

(* The steps on the way to the Room, and the looks of a scan.              *)
LEMMA MovingSteps ==
  ASSUME IInv, NEW c \in Conns, Step(c)
  PROVE  /\ Lookup(c) => Ops!Lookup(c)
         /\ Create(c) => Ops!Create(c)
         /\ Remove(c) => Ops!Remove(c)
         /\ ScanBegin(c) => Ops!ScanBegin(c)
<1>0. Basic
  BY DEF IInv, LocksInv
<1>1. ASSUME Lookup(c) PROVE Ops!Lookup(c)
  <2>1. /\ at[c] = "lookup" /\ RLocked(c, roomsMu) /\ at'[c] \in {"create", "apply"}
        /\ \/ rooms[roomID[c]] = NoRoom /\ at'[c] = "create"
           \/ rooms[roomID[c]] # NoRoom /\ at'[c] = "apply"
        /\ ptr' = [ptr EXCEPT ![c] = rooms[roomID[c]]]
        /\ UNCHANGED <<roomVars, op, roomID, todo, result>>
    BY <1>0, <1>1 DEF Lookup, Goto, Basic, TypeOK
  <2>2. absRooms = rooms /\ absRooms' = absRooms
    BY <1>0, <2>1, FreeMap, SameMap DEF roomVars
  <2>3. /\ absAt' = [absAt EXCEPT ![c] = at'[c]] /\ absAt[c] = "lookup"
        /\ absRoomID[c] = roomID[c]
    BY <1>0, <2>1, AbsLocals DEF absAt, absRoomID
  <2>4. UNCHANGED <<absOp, absRoomID>>
    BY <1>0, <2>1, AbsLocals DEF absOp, absRoomID
  <2> QED BY <2>1, <2>2, <2>3, <2>4 DEF Ops!Lookup, Ops!Goto, Ops!roomVars, roomVars,
          absRooms, absAt, absOp, absRoomID
<1>2. ASSUME Create(c) PROVE Ops!Create(c)
  <2>1. PICK r \in RoomRefs : Create(c)!(r)
    BY <1>2 DEF Create
  <2>2. /\ at[c] = "create" /\ Locked(c, roomsMu) /\ at'[c] = "apply"
        /\ UNCHANGED <<op, roomID, todo, result>>
    BY <1>0, <2>1 DEF Goto, Basic, TypeOK
  <2>3. absRooms = rooms /\ absRooms' = rooms'
    BY <1>0, <2>2, FreeMap, FreeMapNext
  <2>4. /\ absAt' = [absAt EXCEPT ![c] = "apply"] /\ absAt[c] = "create"
        /\ absRoomID[c] = roomID[c]
    BY <1>0, <2>2, AbsLocals DEF absAt, absRoomID
  <2>5. UNCHANGED <<absOp, absRoomID>>
    BY <1>0, <2>2, AbsLocals DEF absOp, absRoomID
  <2>6. Ops!CreateRoom(absRoomID[c], r, {ptr[d] : d \in Conns})
    <3>1. Registered = Ops!Registered
      BY <2>3 DEF Registered, Ops!Registered, absRooms
    <3>2. CreateRoom(roomID[c], r, {ptr[d] : d \in Conns})
      BY <2>1
    <3> HIDE <2>1
    <3> QED BY <2>3, <2>4, <3>1, <3>2 DEF CreateRoom, NewRoom, NoClients, roomVars,
            Ops!CreateRoom, Ops!NewRoom, Ops!NoClients, Ops!roomVars, absRooms
  <2> QED BY <2>1, <2>2, <2>4, <2>5, <2>6
          DEF Ops!Create, Ops!Goto, absAt, absOp, absRoomID
<1>3. ASSUME Remove(c) PROVE Ops!Remove(c)
  <2>1. /\ at[c] = "apply" /\ op[c] = "leave" /\ at'[c] = "prune"
        /\ RemoveClient(ptr[c], UserOf[c]) /\ ptr' = [ptr EXCEPT ![c] = NoRoom]
        /\ UNCHANGED <<op, roomID, todo, result>>
    BY <1>0, <1>3 DEF Remove, Goto, Basic, TypeOK
  <2>2. absRooms' = absRooms
    BY <1>0, <2>1, SameMap DEF RemoveClient
  <2>3. /\ absAt' = [absAt EXCEPT ![c] = "prune"] /\ absAt[c] = "apply"
        /\ absOp[c] = "leave"
    BY <1>0, <2>1, AbsLocals DEF absAt, absOp
  <2>4. UNCHANGED <<absOp, absRoomID>>
    BY <1>0, <2>1, AbsLocals DEF absOp, absRoomID
  <2> QED BY <2>1, <2>2, <2>3, <2>4 DEF Ops!Remove, Ops!Goto, Ops!RemoveClient,
          RemoveClient, absRooms, absAt, absOp, absRoomID
<1>4. ASSUME ScanBegin(c) PROVE Ops!ScanBegin(c)
  <2>1. /\ at[c] = "scan" /\ RLocked(c, roomsMu) /\ at'[c] = "look"
        /\ todo' = [todo EXCEPT ![c] = {id \in RoomIDs : rooms[id] # NoRoom}]
        /\ UNCHANGED <<roomVars, op, roomID, ptr, result>>
    BY <1>0, <1>4 DEF ScanBegin, Goto, Basic, TypeOK
  <2>2. absRooms = rooms /\ absRooms' = absRooms
    BY <1>0, <2>1, FreeMap, SameMap DEF roomVars
  <2>3. absAt' = [absAt EXCEPT ![c] = "look"] /\ absAt[c] = "scan"
    BY <1>0, <2>1, AbsLocals DEF absAt
  <2>4. UNCHANGED <<absOp, absRoomID>>
    BY <1>0, <2>1, AbsLocals DEF absOp, absRoomID
  <2> QED BY <2>1, <2>2, <2>3, <2>4 DEF Ops!ScanBegin, Ops!Goto, Ops!roomVars, roomVars,
          absRooms, absAt, absOp, absRoomID
<1> QED BY <1>1, <1>2, <1>3, <1>4

(* A scan looks at a Room that is registered in RoomOps too.               *)
LEMMA LookMaps ==
  ASSUME IInv, NEW c \in Conns, Step(c), NEW id \in RoomIDs, Look(c, id)
  PROVE  Ops!Look(c, id)
<1>0. Basic
  BY DEF IInv, LocksInv
<1>1. /\ at[c] = "look" /\ id \in todo[c] /\ RLocked(c, roomsMu) /\ rooms[id] # NoRoom
      /\ todo' = [todo EXCEPT ![c] = @ \ {id}]
      /\ result' = [result EXCEPT ![c] = @ \cup (RoomsContaining(UserOf[c]) \cap {id})]
      /\ UNCHANGED <<roomVars, at, op, roomID, ptr>>
  BY <1>0 DEF Look, Basic, MapHeld
<1>2. absRooms = rooms /\ absRooms' = absRooms
  BY <1>0, <1>1, FreeMap, SameMap DEF roomVars
<1>3. RoomsContaining(UserOf[c]) = Ops!RoomsContaining(UserOf[c])
  BY <1>2 DEF RoomsContaining, Ops!RoomsContaining, absRooms
<1>4. UNCHANGED <<absAt, absOp, absRoomID>> /\ absAt[c] = "look"
  BY <1>1 DEF absAt, absOp, absRoomID
<1> HIDE DEF RoomsContaining
<1> QED BY <1>1, <1>2, <1>3, <1>4 DEF Ops!Look, Ops!roomVars, roomVars,
        absRooms, absAt, absOp, absRoomID

(* An operation begins.                                                    *)
LEMMA CallMaps ==
  ASSUME IInv, NEW c \in Conns, Step(c), NEW o \in {"join", "leave", "send", "scan", "list"},
         NEW id \in RoomIDs \cup {NoRoom}, Call(c, o, id)
  PROVE  Ops!Call(c, o, id)
<1>0. Basic
  BY DEF IInv, LocksInv
<1>1. /\ at[c] = "idle" /\ at'[c] \in {"lookup", "scan", "list"}
      /\ \/ o \in {"join", "leave", "send"} /\ id \in RoomIDs /\ at'[c] = "lookup"
         \/ o \in {"scan", "list"} /\ id = NoRoom /\ at'[c] = o
      /\ op'[c] = o /\ roomID'[c] = id
      /\ result' = [result EXCEPT ![c] = {}] /\ UNCHANGED <<roomVars, ptr, todo>>
  BY <1>0 DEF Call, Goto, Basic, TypeOK
<1>2. absRooms' = absRooms
  BY <1>0, <1>1, SameMap DEF roomVars
<1>3. /\ absAt' = [absAt EXCEPT ![c] = at'[c]] /\ absAt[c] = "idle"
      /\ absOp' = [absOp EXCEPT ![c] = o]
      /\ absRoomID' = [absRoomID EXCEPT ![c] = id]
  BY <1>0, <1>1, AbsLocals DEF absAt
<1> QED BY <1>1, <1>2, <1>3 DEF Ops!Call, Ops!Goto, Ops!roomVars, roomVars,
        absRooms, absAt, absOp, absRoomID

(* The invariant of the refinement is inductive.                           *)
LEMMA IInvStep == IInv /\ [Next]_vars => IInv'
<1> SUFFICES ASSUME IInv, [Next]_vars PROVE IInv'
  OBVIOUS
<1>1. LocksInv'
  BY LocksStep DEF IInv
<1>2. CASE UNCHANGED vars
  BY <1>1, <1>2 DEF vars, roomVars, callVars, lockVars, IInv, SentToMembers, Members, RLocked
<1>3. ASSUME NEW c \in Conns, Step(c) PROVE IInv'
  BY <1>1, <1>3, SentStep DEF IInv
<1> QED BY <1>2, <1>3 DEF Next, Step

(* It holds at first.                                                      *)
LEMMA IInvInit == Init => IInv
  BY LocksInit DEF Init, IInv, SentToMembers

(* The first state is RoomOps' first state.                                *)
LEMMA RefineInit == Init => Ops!Init
<1> SUFFICES ASSUME Init PROVE Ops!Init
  OBVIOUS
<1>1. absRooms = rooms /\ absAt = at /\ absOp = op /\ absRoomID = roomID
  BY DEF Init, RoomsInit, Doomed, absRooms, absAt, absOp, absRoomID
<1> QED BY <1>1 DEF Init, RoomsInit, NoClients, Ops!Init, Ops!RoomsInit, Ops!NoClients,
        absRooms, absAt, absOp, absRoomID

(* Every step is one of RoomOps or changes nothing there.                  *)
LEMMA RefineStep == IInv /\ [Next]_vars => [Ops!Next]_Ops!vars
<1> SUFFICES ASSUME IInv, [Next]_vars PROVE [Ops!Next]_Ops!vars
  OBVIOUS
<1>1. CASE UNCHANGED vars
  BY <1>1 DEF vars, roomVars, callVars, Ops!vars, Ops!roomVars, Ops!callVars, Doomed
<1>2. ASSUME NEW c \in Conns, Step(c) PROVE [Ops!Next]_Ops!vars
  <2>1. CASE Acquire(c) \/ (\E d \in Conns : Send(c, d)) \/ Delete(c) \/ Keep(c)
    BY <1>2, <2>1, StutterSteps
  <2>2. ASSUME NEW o \in {"join", "leave", "send", "scan", "list"},
               NEW id \in RoomIDs \cup {NoRoom}, Call(c, o, id)
        PROVE  Ops!Next
    BY <1>2, <2>2, CallMaps DEF Ops!Next
  <2>3. CASE Lookup(c) \/ Create(c) \/ Remove(c) \/ ScanBegin(c)
    BY <1>2, <2>3, MovingSteps DEF Ops!Next
  <2>4. CASE \/ Join(c) \/ BroadcastEnd(c) \/ SendPanics(c)
             \/ PruneMissing(c) \/ List(c) \/ ScanEnd(c)
    BY <1>2, <2>4, ReturningSteps DEF Ops!Next
  <2>5. CASE Count(c)
    BY <1>2, <2>5, CountMaps DEF Ops!Next
  <2>6. ASSUME NEW id \in RoomIDs, Look(c, id) PROVE Ops!Next
    BY <1>2, <2>6, LookMaps DEF Ops!Next
  <2> QED BY <1>2, <2>1, <2>2, <2>3, <2>4, <2>5, <2>6 DEF Step, Section
<1> QED BY <1>1, <1>2 DEF Next, Step

(* Every operation of room.go looks like the steps of RoomOps, for any     *)
(* number of handlers, rooms and Room objects.                             *)
THEOREM OperationsImplemented == Spec => ImplementsOps
  BY IInvInit, IInvStep, RefineInit, RefineStep, PTL DEF Spec, ImplementsOps, Ops!Spec

=============================================================================
