--------------------------- MODULE DeliveryProofs ---------------------------
(***************************************************************************)
(* Proofs about Delivery: types, and that a message reaches the user at    *)
(* most once unless two pulls race, for any numbers of messages and        *)
(* sessions, any limit of the pull and any size of the channel.            *)
(***************************************************************************)
EXTENDS Delivery, SequenceTheorems, TLAPS

(* m is the i-th frame in the channel of session s.                        *)
Queued(m, s, i) == i \in 1..Len(buffer[s]) /\ buffer[s][i] = m

(* The client did not get m and no channel has it.                         *)
Fresh(m) ==
  /\ received[m] = 0
  /\ \A s \in Sessions : \A i \in 1..Capacity : ~Queued(m, s, i)

(* Only a session between its Find and its push holds messages.            *)
HeldBriefly == \A s \in Sessions : pulled[s] # {} => phase[s] \in {"mark", "push"}

(* The save is the last step of sending.                                   *)
SavedLast == \A m \in Msgs : step[m] # "done" => store[m] = "absent"

(* What was not routed to a channel, or waits in the store, is fresh.      *)
Waiting(m) ==
  \/ step[m] \in {"new", "route", "save offline", "panicked"}
  \/ store[m] = "undelivered"

WaitingFresh == \A m \in Msgs : Waiting(m) => Fresh(m)

(* One session marks at a time, and what it found is still to be marked.   *)
OneMarks ==
  \A s \in Sessions : phase[s] = "mark" =>
    /\ pulled[s] \subseteq Undelivered
    /\ \A t \in Sessions : phase[t] = "mark" => t = s

(* What a session is about to push is marked, fresh and in no other hands. *)
PushedFresh ==
  \A s \in Sessions : phase[s] = "push" => \A m \in pulled[s] :
    /\ store[m] = "delivered"
    /\ Fresh(m)
    /\ \A t \in Sessions : m \in pulled[t] => t = s

(* A message was received once, or is in one place of one channel, or      *)
(* neither.                                                                *)
Once ==
  \A m \in Msgs :
    /\ received[m] <= 1
    /\ \A s \in Sessions : \A i \in 1..Capacity : Queued(m, s, i) =>
         /\ received[m] = 0
         /\ \A t \in Sessions : \A j \in 1..Capacity : Queued(m, t, j) => t = s /\ j = i

(* The inductive invariant.                                                *)
IInv ==
  /\ TypeOK
  /\ HeldBriefly
  /\ SavedLast
  /\ ~raced => WaitingFresh /\ OneMarks /\ PushedFresh /\ Once

-----------------------------------------------------------------------------
(* Channels.                                                               *)

(* The capacity is a positive number.                                      *)
LEMMA CapacityNat == Capacity \in Nat \ {0}
BY DeliveryAssumption

(* A channel without frames.                                               *)
LEMMA NoFrames == <<>> \in Seq(Msgs) /\ Len(<<>>) = 0 /\ Len(<<>>) <= Capacity
<1>1. <<>> \in Seq(Msgs) /\ Len(<<>>) = 0
  OBVIOUS
<1> QED BY <1>1, CapacityNat

(* What the sends to a channel do: frames that were there keep their       *)
(* places, the new ones come behind them, each once.                       *)
LEMMA EnqueueEffect ==
  ASSUME TypeOK, NEW s \in Sessions, NEW S \in SUBSET Msgs, Enqueue(s, S)
  PROVE  /\ buffer' \in [Sessions -> Seq(Msgs)]
         /\ \A t \in Sessions : Len(buffer'[t]) <= Capacity
         /\ \A m \in Msgs, t \in Sessions, i \in 1..Capacity : Queued(m, t, i)' =>
              Queued(m, t, i) \/ (m \in S /\ t = s /\ i > Len(buffer[s]))
         /\ \A m \in Msgs, i, j \in 1..Capacity :
              /\ Queued(m, s, i)' /\ i > Len(buffer[s])
              /\ Queued(m, s, j)' /\ j > Len(buffer[s])
              => i = j
<1>0. PICK n \in 0..(Capacity - Len(buffer[s])) : \E f \in [1..n -> S] :
        /\ \A i, j \in 1..n : f[i] = f[j] => i = j
        /\ buffer' = [buffer EXCEPT ![s] = @ \o f]
  BY DEF Enqueue
<1>1. PICK f \in [1..n -> S] :
        /\ \A i, j \in 1..n : f[i] = f[j] => i = j
        /\ buffer' = [buffer EXCEPT ![s] = @ \o f]
  BY <1>0
<1> DEFINE b == buffer[s]
<1>2. /\ b \in Seq(Msgs) /\ Len(b) \in Nat /\ Len(b) <= Capacity
      /\ n \in Nat /\ Len(b) + n <= Capacity
  BY CapacityNat DEF TypeOK
<1>3. f \in Seq(Msgs) /\ Len(f) = n
  <2>1. f \in [1..n -> Msgs]
    OBVIOUS
  <2> QED BY <1>2, <2>1
<1>4. /\ b \o f \in Seq(Msgs)
      /\ Len(b \o f) = Len(b) + n
      /\ \A i \in 1..(Len(b) + n) :
           (b \o f)[i] = IF i <= Len(b) THEN b[i] ELSE f[i - Len(b)]
  BY <1>2, <1>3, ConcatProperties
<1>5. buffer'[s] = b \o f /\ \A t \in Sessions : t # s => buffer'[t] = buffer[t]
  BY <1>1 DEF TypeOK
<1> HIDE DEF b
<1>6. buffer' \in [Sessions -> Seq(Msgs)]
  BY <1>1, <1>4 DEF TypeOK, b
<1>7. \A t \in Sessions : Len(buffer'[t]) <= Capacity
  BY <1>2, <1>4, <1>5 DEF TypeOK
<1>8. ASSUME NEW m \in Msgs, NEW i \in 1..Capacity, Queued(m, s, i)', i > Len(b)
      PROVE  i - Len(b) \in 1..n /\ f[i - Len(b)] = m /\ m \in S
  <2>1. i \in 1..(Len(b) + n) /\ (b \o f)[i] = m
    BY <1>8, <1>4, <1>5 DEF Queued
  <2>2. i - Len(b) \in 1..n /\ (b \o f)[i] = f[i - Len(b)]
    BY <2>1, <1>8, <1>4, <1>2
  <2> QED BY <2>1, <2>2, <1>1
<1>9. ASSUME NEW m \in Msgs, NEW t \in Sessions, NEW i \in 1..Capacity,
             Queued(m, t, i)', ~(t = s /\ i > Len(b))
      PROVE  Queued(m, t, i)
  <2>1. CASE t # s
    BY <2>1, <1>9, <1>5 DEF Queued
  <2>2. CASE t = s
    BY <2>2, <1>9, <1>2, <1>4, <1>5 DEF Queued, b
  <2> QED BY <2>1, <2>2
<1>10. ASSUME NEW m \in Msgs, NEW i \in 1..Capacity, NEW j \in 1..Capacity,
              Queued(m, s, i)', i > Len(b), Queued(m, s, j)', j > Len(b)
       PROVE  i = j
  <2>1. i - Len(b) = j - Len(b)
    BY <1>1, <1>8, <1>10
  <2> QED BY <2>1, <1>2
<1> QED BY <1>6, <1>7, <1>8, <1>9, <1>10 DEF b

(* A write takes the first frame; the others move up by one.               *)
LEMMA WriteEffect ==
  ASSUME TypeOK, NEW s \in Sessions, Write(s)
  PROVE  /\ buffer' \in [Sessions -> Seq(Msgs)]
         /\ \A t \in Sessions : Len(buffer'[t]) <= Capacity
         /\ Head(buffer[s]) \in Msgs
         /\ Queued(Head(buffer[s]), s, 1)
         /\ \A m \in Msgs, t \in Sessions, i \in 1..Capacity : Queued(m, t, i)' =>
              IF t = s THEN i + 1 \in 1..Capacity /\ Queued(m, s, i + 1)
                       ELSE Queued(m, t, i)
<1> DEFINE b == buffer[s]
<1>1. b \in Seq(Msgs) /\ b # <<>> /\ Len(b) \in Nat /\ Len(b) <= Capacity
  BY DEF TypeOK, Write
<1>2. /\ Head(b) \in Msgs /\ Head(b) = b[1] /\ Len(b) # 0
      /\ Tail(b) \in Seq(Msgs) /\ Len(Tail(b)) = Len(b) - 1
      /\ \A i \in 1..Len(Tail(b)) : Tail(b)[i] = b[i + 1]
  BY <1>1, HeadTailProperties, EmptySeq
<1>3. /\ buffer' = [buffer EXCEPT ![s] = Tail(b)]
      /\ buffer'[s] = Tail(b) /\ \A t \in Sessions : t # s => buffer'[t] = buffer[t]
  BY DEF TypeOK, Write
<1> HIDE DEF b
<1>4. buffer' \in [Sessions -> Seq(Msgs)]
  BY <1>2, <1>3 DEF TypeOK
<1>5. \A t \in Sessions : Len(buffer'[t]) <= Capacity
  BY <1>1, <1>2, <1>3, CapacityNat DEF TypeOK
<1>6. Queued(Head(b), s, 1)
  BY <1>1, <1>2 DEF Queued, b
<1>7. ASSUME NEW m \in Msgs, NEW t \in Sessions, NEW i \in 1..Capacity, Queued(m, t, i)'
      PROVE  IF t = s THEN i + 1 \in 1..Capacity /\ Queued(m, s, i + 1)
                      ELSE Queued(m, t, i)
  <2>1. CASE t # s
    BY <2>1, <1>7, <1>3 DEF Queued
  <2>2. CASE t = s
    <3>1. i \in 1..Len(Tail(b)) /\ Tail(b)[i] = m
      BY <2>2, <1>7, <1>3 DEF Queued
    <3>2. b[i + 1] = m /\ i + 1 \in 1..Len(b) /\ i + 1 \in 1..Capacity
      BY <3>1, <1>1, <1>2, CapacityNat
    <3> QED BY <2>2, <3>2 DEF Queued, b
  <2> QED BY <2>1, <2>2
<1> QED BY <1>2, <1>4, <1>5, <1>6, <1>7 DEF b

-----------------------------------------------------------------------------
(* Types.                                                                  *)

(* Every step keeps the types.                                             *)
LEMMA TypesNext == TypeOK /\ [Next]_vars => TypeOK'
<1> SUFFICES ASSUME TypeOK, [Next]_vars PROVE TypeOK'
  OBVIOUS
<1> USE DEF Phases, Steps
<1>1. ASSUME NEW m \in Msgs, Lookup(m) PROVE TypeOK'
  BY <1>1 DEF TypeOK, Lookup, sessionVars, historyVars
<1>2. ASSUME NEW m \in Msgs, RouteLive(m) PROVE TypeOK'
  <2>1. PICK s \in Sessions : s = target[m]
    BY <1>2 DEF TypeOK, RouteLive
  <2>2. PICK S \in SUBSET Msgs : S = {m}
    OBVIOUS
  <2>3. Enqueue(s, S)
    BY <1>2, <2>1, <2>2 DEF RouteLive
  <2>4. buffer' \in [Sessions -> Seq(Msgs)] /\ \A t \in Sessions : Len(buffer'[t]) <= Capacity
    BY <2>3, EnqueueEffect
  <2> QED BY <1>2, <2>4 DEF TypeOK, RouteLive, historyVars
<1>3. ASSUME NEW m \in Msgs, RoutePanics(m) \/ RouteOffline(m) PROVE TypeOK'
  BY <1>3, ZenonT(40) DEF TypeOK, RoutePanics, RouteOffline, sessionVars, historyVars
<1>4. ASSUME NEW m \in Msgs, Save(m) \/ SaveFails(m) PROVE TypeOK'
  BY <1>4 DEF TypeOK, Save, SaveFails, sessionVars, historyVars
<1>5. ASSUME NEW s \in Sessions, Register(s) \/ FindFails(s) \/ Unregister(s) PROVE TypeOK'
  BY <1>5 DEF TypeOK, Register, FindFails, Unregister, senderVars, historyVars
<1>6. ASSUME NEW s \in Sessions, Find(s) PROVE TypeOK'
  <2>1. PICK F \in SUBSET Undelivered :
          /\ pulled' = [pulled EXCEPT ![s] = F]
          /\ found' = found \cup F
          /\ phase' = [phase EXCEPT ![s] = IF F = {} THEN "ready" ELSE "mark"]
    BY <1>6 DEF Find
  <2>2. F \in SUBSET Msgs
    BY DEF Undelivered
  <2>3. pulled' \in [Sessions -> SUBSET Msgs] /\ found' \subseteq Msgs
    BY <2>1, <2>2 DEF TypeOK
  <2>4. phase' \in [Sessions -> Phases]
    BY <2>1 DEF TypeOK
  <2>5. raced' \in BOOLEAN
    BY <1>6 DEF Find, TypeOK
  <2> QED BY <1>6, <2>3, <2>4, <2>5 DEF TypeOK, Find, senderVars
<1>7. MarkAll \in [Msgs -> {"absent", "undelivered", "delivered"}]
  BY DEF TypeOK, MarkAll
<1>8. ASSUME NEW s \in Sessions, Mark(s) PROVE TypeOK'
  BY <1>8, <1>7 DEF TypeOK, Mark, senderVars, historyVars
<1>9. ASSUME NEW s \in Sessions, MarkFails(s) PROVE TypeOK'
  BY <1>9, <1>7 DEF TypeOK, MarkFails, senderVars, historyVars
<1>10. ASSUME NEW s \in Sessions, Push(s) PROVE TypeOK'
  <2>1. buffer' \in [Sessions -> Seq(Msgs)] /\ \A t \in Sessions : Len(buffer'[t]) <= Capacity
    <3>1. CASE UNCHANGED buffer
      BY <3>1 DEF TypeOK
    <3>2. CASE online # NoSession /\ Enqueue(online, pulled[s])
      <4>1. PICK t \in Sessions : t = online
        BY <3>2 DEF TypeOK
      <4>2. PICK S \in SUBSET Msgs : S = pulled[s]
        BY DEF TypeOK
      <4> QED BY <3>2, <4>1, <4>2, EnqueueEffect
    <3> QED BY <1>10, <3>1, <3>2 DEF Push
  <2> QED BY <1>10, <2>1 DEF TypeOK, Push, senderVars, historyVars
<1>11. ASSUME NEW s \in Sessions, Write(s) PROVE TypeOK'
  <2>1. /\ buffer' \in [Sessions -> Seq(Msgs)]
        /\ \A t \in Sessions : Len(buffer'[t]) <= Capacity
        /\ Head(buffer[s]) \in Msgs
    BY <1>11, WriteEffect
  <2>2. received' \in [Msgs -> Nat]
    <3>1. PICK m \in Msgs : m = Head(buffer[s])
      BY <2>1
    <3>2. received' = [received EXCEPT ![m] = received[m] + 1]
      BY <1>11, <3>1 DEF Write
    <3>3. received \in [Msgs -> Nat]
      BY DEF TypeOK
    <3>4. received[m] \in Nat
      BY <3>3
    <3> QED BY <3>2, <3>3, <3>4
  <2> QED BY <1>11, <2>1, <2>2 DEF TypeOK, Write, senderVars, historyVars
<1>12. ASSUME NEW s \in Sessions, End(s) PROVE TypeOK'
  <2>1. buffer' \in [Sessions -> Seq(Msgs)] /\ \A t \in Sessions : Len(buffer'[t]) <= Capacity
    BY <1>12, NoFrames DEF TypeOK, End
  <2> QED BY <1>12, <2>1 DEF TypeOK, End, senderVars, historyVars
<1>13. ASSUME ProcessEnds PROVE TypeOK'
  <2>1. buffer' \in [Sessions -> Seq(Msgs)] /\ \A t \in Sessions : Len(buffer'[t]) <= Capacity
    BY <1>13, NoFrames DEF ProcessEnds
  <2>2. step' \in [Msgs -> Steps]
    BY <1>13 DEF TypeOK, ProcessEnds
  <2> QED BY <1>13, <2>1, <2>2 DEF TypeOK, ProcessEnds, historyVars
<1>14. CASE UNCHANGED vars
  BY <1>14 DEF TypeOK, vars, sessionVars, senderVars, historyVars
<1> QED
  BY <1>1, <1>2, <1>3, <1>4, <1>5, <1>6, <1>8, <1>9, <1>10, <1>11, <1>12, <1>13, <1>14
     DEF Next, Send

-----------------------------------------------------------------------------
(* What a step may do.                                                     *)

(* Only a Find gives a session messages, and it holds them until its push  *)
(* or its failure.                                                         *)
LEMMA HeldStep == TypeOK /\ HeldBriefly /\ [Next]_vars => HeldBriefly'
<1> SUFFICES ASSUME TypeOK, HeldBriefly, [Next]_vars PROVE HeldBriefly'
  OBVIOUS
<1>1. ASSUME NEW s \in Sessions, Register(s) \/ FindFails(s) \/ Unregister(s) \/ End(s)
      PROVE  HeldBriefly'
  BY <1>1 DEF TypeOK, HeldBriefly, Register, FindFails, Unregister, End
<1>2. ASSUME NEW s \in Sessions, Find(s) PROVE HeldBriefly'
  BY <1>2 DEF TypeOK, HeldBriefly, Find
<1>3. ASSUME NEW s \in Sessions, Mark(s) \/ MarkFails(s) \/ Push(s) PROVE HeldBriefly'
  BY <1>3 DEF TypeOK, HeldBriefly, Mark, MarkFails, Push
<1>4. CASE UNCHANGED <<phase, pulled>>
  BY <1>4 DEF HeldBriefly
<1>5. CASE ProcessEnds
  BY <1>5 DEF HeldBriefly, ProcessEnds
<1> QED
  BY <1>1, <1>2, <1>3, <1>4, <1>5
     DEF Next, Send, Lookup, RouteLive, RoutePanics, RouteOffline, Save, SaveFails, Write,
         vars, sessionVars

(* The store gets a message in the last step of its sending.               *)
LEMMA SavedStep == TypeOK /\ SavedLast /\ [Next]_vars => SavedLast'
<1> SUFFICES ASSUME TypeOK, SavedLast, [Next]_vars PROVE SavedLast'
  OBVIOUS
<1> USE DEF SavedLast, TypeOK
<1>1. ASSUME NEW m \in Msgs, Lookup(m) \/ RouteLive(m) \/ RoutePanics(m) \/ RouteOffline(m)
      PROVE  SavedLast'
  BY <1>1 DEF Lookup, RouteLive, RoutePanics, RouteOffline
<1>2. ASSUME NEW m \in Msgs, Save(m) \/ SaveFails(m) PROVE SavedLast'
  BY <1>2 DEF Save, SaveFails
<1>3. ASSUME NEW s \in Sessions, Mark(s) \/ MarkFails(s) PROVE SavedLast'
  BY <1>3 DEF Mark, MarkFails, MarkAll, Undelivered, senderVars
<1>4. CASE ProcessEnds
  BY <1>4 DEF ProcessEnds
<1>5. CASE UNCHANGED <<step, store>>
  BY <1>5
<1> QED
  BY <1>1, <1>2, <1>3, <1>4, <1>5
     DEF Next, Send, Register, Find, FindFails, Push, Write, Unregister, End, vars, senderVars

(* The steps that neither deliver nor send a frame.                        *)
Quiet ==
  /\ received' = received
  /\ \A m \in Msgs, s \in Sessions, i \in 1..Capacity : Queued(m, s, i)' => Queued(m, s, i)

(* Only a route, a push and a write are not quiet.                         *)
LEMMA QuietSteps ==
  ASSUME TypeOK, [Next]_vars
  PROVE  \/ Quiet
         \/ \E m \in Msgs : RouteLive(m)
         \/ \E s \in Sessions : \/ Push(s) /\ online # NoSession
                                \/ Write(s)
<1>1. CASE UNCHANGED <<buffer, received>>
  BY <1>1 DEF Quiet, Queued
<1>2. ASSUME NEW s \in Sessions, End(s) PROVE Quiet
  BY <1>2, NoFrames DEF TypeOK, Quiet, Queued, End
<1>3. ASSUME ProcessEnds PROVE Quiet
  BY <1>3, NoFrames DEF Quiet, Queued, ProcessEnds
<1>4. ASSUME NEW s \in Sessions, Push(s), online = NoSession PROVE Quiet
  BY <1>4 DEF Push, Quiet, Queued
<1> QED
  BY <1>1, <1>2, <1>3, <1>4
     DEF Next, Send, Lookup, RoutePanics, RouteOffline, Save, SaveFails, Register, Find,
         FindFails, Mark, MarkFails, Push, Unregister, vars, sessionVars

(* A fresh message stays so until it is routed or pushed.                  *)
LEMMA FreshUntilSent ==
  ASSUME TypeOK, [Next]_vars, NEW m \in Msgs, Fresh(m)
  PROVE  \/ Fresh(m)'
         \/ RouteLive(m)
         \/ \E s \in Sessions : Push(s) /\ m \in pulled[s]
<1>1. CASE Quiet
  BY <1>1 DEF Quiet, Fresh
<1>2. ASSUME NEW n \in Msgs, n # m, RouteLive(n) PROVE Fresh(m)'
  <2>1. PICK s \in Sessions : s = target[n]
    BY <1>2 DEF TypeOK, RouteLive
  <2>2. PICK S \in SUBSET Msgs : S = {n}
    OBVIOUS
  <2>3. Enqueue(s, S) /\ received' = received
    BY <1>2, <2>1, <2>2 DEF RouteLive
  <2>4. \A t \in Sessions, i \in 1..Capacity : Queued(m, t, i)' => Queued(m, t, i)
    BY <2>3, <2>2, <1>2, EnqueueEffect
  <2> QED BY <2>3, <2>4 DEF Fresh
<1>3. ASSUME NEW s \in Sessions, Push(s), online # NoSession, m \notin pulled[s]
      PROVE  Fresh(m)'
  <2>1. PICK t \in Sessions : t = online
    BY <1>3 DEF TypeOK
  <2>2. PICK S \in SUBSET Msgs : S = pulled[s]
    BY DEF TypeOK
  <2>3. Enqueue(t, S) /\ received' = received
    BY <1>3, <2>1, <2>2 DEF Push
  <2>4. \A u \in Sessions, i \in 1..Capacity : Queued(m, u, i)' => Queued(m, u, i)
    BY <2>3, <2>2, <1>3, EnqueueEffect
  <2> QED BY <2>3, <2>4 DEF Fresh
<1>4. ASSUME NEW s \in Sessions, Write(s) PROVE Fresh(m)'
  <2>1. Head(buffer[s]) \in Msgs /\ Queued(Head(buffer[s]), s, 1)
    BY <1>4, WriteEffect
  <2>2. Head(buffer[s]) # m
    BY <2>1, CapacityNat DEF Fresh
  <2>3. received'[m] = received[m]
    BY <1>4, <2>1, <2>2 DEF TypeOK, Write
  <2>4. \A u \in Sessions, i \in 1..Capacity : ~Queued(m, u, i)'
    BY <1>4, WriteEffect DEF Fresh
  <2> QED BY <2>3, <2>4 DEF Fresh
<1> QED BY <1>1, <1>2, <1>3, <1>4, QuietSteps

(* No message begins to wait, and a routed one does not.                   *)
LEMMA WaitingStep ==
  ASSUME TypeOK, SavedLast, [Next]_vars, NEW m \in Msgs, Waiting(m)'
  PROVE  Waiting(m) /\ ~RouteLive(m)
<1>1. ~RouteLive(m)
  BY DEF TypeOK, SavedLast, Waiting, RouteLive
<1>2. ASSUME NEW n \in Msgs, Send(n) \/ Save(n) \/ SaveFails(n) PROVE Waiting(m)
  BY <1>2 DEF TypeOK, Waiting, Send, Lookup, RouteLive, RoutePanics, RouteOffline, Save, SaveFails
<1>3. ASSUME NEW s \in Sessions, Mark(s) \/ MarkFails(s) PROVE Waiting(m)
  BY <1>3 DEF TypeOK, Waiting, Mark, MarkFails, MarkAll, Undelivered, senderVars
<1>4. CASE ProcessEnds
  BY <1>1, <1>4 DEF TypeOK, Waiting, ProcessEnds
<1>5. CASE UNCHANGED <<step, store>>
  BY <1>1, <1>5 DEF Waiting
<1> QED
  BY <1>1, <1>2, <1>3, <1>4, <1>5
     DEF Next, Register, Find, FindFails, Push, Write, Unregister, End, vars, senderVars

(* A message stays delivered.                                              *)
LEMMA DeliveredStays ==
  ASSUME TypeOK, SavedLast, [Next]_vars, NEW m \in Msgs, store[m] = "delivered"
  PROVE  store'[m] = "delivered"
<1>1. ASSUME NEW n \in Msgs, Save(n) PROVE store'[m] = "delivered"
  BY <1>1 DEF TypeOK, SavedLast, Save
<1>2. ASSUME NEW s \in Sessions, Mark(s) \/ MarkFails(s) PROVE store'[m] = "delivered"
  BY <1>2 DEF TypeOK, Mark, MarkFails, MarkAll, Undelivered
<1>3. CASE UNCHANGED store
  BY <1>3
<1> QED
  BY <1>1, <1>2, <1>3
     DEF Next, Send, Lookup, RouteLive, RoutePanics, RouteOffline, SaveFails, Register, Find,
         FindFails, Push, Write, Unregister, End, ProcessEnds, vars

-----------------------------------------------------------------------------
(* The four facts.                                                         *)

(* A message loses its freshness when it is routed, and then no longer     *)
(* waits, or when it is pushed, and then it was marked before.             *)
LEMMA WaitingFreshStep ==
  ASSUME TypeOK, SavedLast, WaitingFresh, PushedFresh, [Next]_vars
  PROVE  WaitingFresh'
<1> SUFFICES ASSUME NEW m \in Msgs, Waiting(m)' PROVE Fresh(m)'
  BY DEF WaitingFresh
<1>1. Waiting(m) /\ Fresh(m) /\ ~RouteLive(m)
  BY WaitingStep DEF WaitingFresh
<1>2. ASSUME NEW s \in Sessions, Push(s), m \in pulled[s] PROVE FALSE
  <2>1. store[m] = "delivered"
    BY <1>2 DEF Push, PushedFresh
  <2> QED BY <1>1, <2>1 DEF SavedLast, Waiting
<1> QED BY <1>1, <1>2, FreshUntilSent

(* A session comes to mark by its Find, in which no other one marks unless *)
(* the pulls race; and until it marks, the messages it found are not       *)
(* touched.                                                                *)
LEMMA OneMarksStep ==
  ASSUME TypeOK, SavedLast, OneMarks, [Next]_vars, ~raced'
  PROVE  OneMarks'
<1>1. ASSUME NEW s \in Sessions, Find(s) PROVE OneMarks'
  <2>1. \A t \in Sessions : phase[t] # "mark"
    BY <1>1 DEF Find
  <2>2. \A t \in Sessions : phase'[t] = "mark" => t = s
    BY <1>1, <2>1 DEF TypeOK, Find
  <2>3. pulled'[s] \subseteq Undelivered'
    BY <1>1 DEF TypeOK, Find, Undelivered
  <2> QED BY <2>2, <2>3 DEF OneMarks
<1>2. ASSUME NEW s \in Sessions, Mark(s) \/ MarkFails(s) PROVE OneMarks'
  <2>1. \A t \in Sessions : phase'[t] # "mark"
    BY <1>2 DEF TypeOK, OneMarks, Mark, MarkFails
  <2> QED BY <2>1 DEF OneMarks
<1>3. ASSUME NEW s \in Sessions,
             Register(s) \/ FindFails(s) \/ Push(s) \/ Unregister(s) \/ End(s)
      PROVE  OneMarks'
  <2>1. \A t \in Sessions : phase'[t] = "mark" => phase[t] = "mark" /\ pulled'[t] = pulled[t]
    BY <1>3 DEF TypeOK, Register, FindFails, Push, Unregister, End
  <2>2. store' = store
    BY <1>3 DEF Register, FindFails, Push, Unregister, End
  <2> QED BY <2>1, <2>2 DEF OneMarks, Undelivered
<1>4. ASSUME NEW m \in Msgs, Save(m) PROVE OneMarks'
  <2>1. store[m] = "absent"
    BY <1>4 DEF SavedLast, Save
  <2>2. Undelivered \subseteq Undelivered'
    BY <1>4, <2>1 DEF TypeOK, Save, Undelivered
  <2> QED BY <1>4, <2>2 DEF OneMarks, Save, sessionVars
<1>5. CASE ProcessEnds
  BY <1>5 DEF OneMarks, ProcessEnds
<1>6. CASE UNCHANGED <<phase, pulled, store>>
  BY <1>6 DEF OneMarks, Undelivered
<1> QED
  BY <1>1, <1>2, <1>3, <1>4, <1>5, <1>6
     DEF Next, Send, Lookup, RouteLive, RoutePanics, RouteOffline, SaveFails, Write,
         vars, sessionVars

(* What a session is to push comes from its mark, or it had it before.     *)
LEMMA PushSource ==
  ASSUME TypeOK, [Next]_vars, NEW s \in Sessions, phase'[s] = "push"
  PROVE  \/ Mark(s)
         \/ phase[s] = "push" /\ pulled'[s] = pulled[s] /\ ~Push(s)
<1>1. ~Push(s)
  BY DEF TypeOK, Push
<1>2. ASSUME NEW t \in Sessions, Mark(t), t # s
      PROVE  phase[s] = "push" /\ pulled'[s] = pulled[s]
  BY <1>2 DEF TypeOK, Mark
<1>3. ASSUME NEW t \in Sessions,
             \/ Register(t) \/ Find(t) \/ FindFails(t) \/ MarkFails(t)
             \/ Push(t) \/ Unregister(t) \/ End(t)
      PROVE  phase[s] = "push" /\ pulled'[s] = pulled[s]
  BY <1>3 DEF TypeOK, Register, Find, FindFails, MarkFails, Push, Unregister, End
<1>4. CASE ProcessEnds
  BY <1>4 DEF ProcessEnds
<1>5. CASE UNCHANGED <<phase, pulled>>
  BY <1>1, <1>5
<1> QED
  BY <1>1, <1>2, <1>3, <1>4, <1>5
     DEF Next, Send, Lookup, RouteLive, RoutePanics, RouteOffline, Save, SaveFails, Write,
         vars, sessionVars

(* A session that holds a message has found it as undelivered or held it   *)
(* before.                                                                 *)
LEMMA HeldSource ==
  ASSUME TypeOK, [Next]_vars, NEW s \in Sessions, NEW m \in pulled'[s]
  PROVE  m \in pulled[s] \/ store[m] = "undelivered"
<1>1. ASSUME NEW t \in Sessions, Find(t) PROVE m \in pulled[s] \/ store[m] = "undelivered"
  BY <1>1 DEF TypeOK, Find, Undelivered
<1>2. ASSUME NEW t \in Sessions, MarkFails(t) \/ Push(t) PROVE m \in pulled[s]
  BY <1>2 DEF TypeOK, MarkFails, Push
<1>3. CASE ProcessEnds
  BY <1>3 DEF ProcessEnds
<1>4. CASE UNCHANGED pulled
  BY <1>4
<1> QED
  BY <1>1, <1>2, <1>3, <1>4
     DEF Next, Send, Lookup, RouteLive, RoutePanics, RouteOffline, Save, SaveFails, Register,
         FindFails, Mark, Write, Unregister, End, vars, sessionVars

(* What is marked was fresh, waiting in the store and found by one session *)
(* only; nothing but this session's push changes that.                     *)
LEMMA PushedFreshStep ==
  ASSUME TypeOK, HeldBriefly, SavedLast, WaitingFresh, OneMarks, PushedFresh, [Next]_vars
  PROVE  PushedFresh'
<1> SUFFICES ASSUME NEW s \in Sessions, phase'[s] = "push", NEW m \in pulled'[s]
             PROVE  /\ store'[m] = "delivered"
                    /\ Fresh(m)'
                    /\ \A t \in Sessions : m \in pulled'[t] => t = s
  BY DEF PushedFresh
<1>0. m \in Msgs
  BY TypesNext DEF TypeOK
<1>1. CASE Mark(s)
  <2>1. phase[s] = "mark" /\ pulled' = pulled /\ buffer' = buffer /\ received' = received
    BY <1>1 DEF Mark
  <2>2. m \in pulled[s] /\ store[m] = "undelivered"
    BY <2>1 DEF OneMarks, Undelivered
  <2>3. Fresh(m)
    BY <1>0, <2>2 DEF WaitingFresh, Waiting
  <2>4. store'[m] = "delivered"
    BY <1>0, <1>1, <2>2 DEF TypeOK, Mark, MarkAll, Undelivered
  <2>5. ASSUME NEW t \in Sessions, m \in pulled[t] PROVE t = s
    <3>1. phase[t] # "push"
      BY <2>2, <2>5 DEF PushedFresh
    <3>2. phase[t] = "mark"
      BY <3>1, <2>5 DEF HeldBriefly
    <3> QED BY <2>1, <3>2 DEF OneMarks
  <2> QED BY <2>1, <2>3, <2>4, <2>5 DEF Fresh, Queued
<1>2. CASE phase[s] = "push" /\ pulled'[s] = pulled[s] /\ ~Push(s)
  <2>1. /\ m \in pulled[s] /\ store[m] = "delivered" /\ Fresh(m)
        /\ \A t \in Sessions : m \in pulled[t] => t = s
    BY <1>2 DEF PushedFresh
  <2>2. store'[m] = "delivered"
    BY <1>0, <2>1, DeliveredStays
  <2>3. ~RouteLive(m)
    BY <1>0, <2>1 DEF SavedLast, RouteLive
  <2>4. Fresh(m)'
    BY <1>0, <1>2, <2>1, <2>3, FreshUntilSent
  <2>5. \A t \in Sessions : m \in pulled'[t] => t = s
    BY <2>1, HeldSource
  <2> QED BY <2>2, <2>4, <2>5
<1> QED BY <1>1, <1>2, PushSource

(* Sending fresh messages once each keeps every message in one place.      *)
LEMMA OnceEnqueue ==
  ASSUME TypeOK, Once, NEW s \in Sessions, NEW S \in SUBSET Msgs, Enqueue(s, S),
         received' = received, \A m \in S : Fresh(m)
  PROVE  Once'
<1> SUFFICES ASSUME NEW m \in Msgs
             PROVE  /\ received[m] <= 1
                    /\ \A t \in Sessions : \A i \in 1..Capacity : Queued(m, t, i)' =>
                         /\ received[m] = 0
                         /\ \A u \in Sessions : \A j \in 1..Capacity :
                              Queued(m, u, j)' => u = t /\ j = i
  BY DEF Once
<1>1. CASE m \in S
  <2>1. \A t \in Sessions, i \in 1..Capacity :
          Queued(m, t, i)' => t = s /\ i > Len(buffer[s])
    BY <1>1, EnqueueEffect DEF Fresh
  <2>2. \A i, j \in 1..Capacity : Queued(m, s, i)' /\ Queued(m, s, j)' => i = j
    BY <2>1, EnqueueEffect
  <2> QED BY <1>1, <2>1, <2>2 DEF Fresh
<1>2. CASE m \notin S
  <2>1. \A t \in Sessions, i \in 1..Capacity : Queued(m, t, i)' => Queued(m, t, i)
    BY <1>2, EnqueueEffect
  <2> QED BY <2>1 DEF Once
<1> QED BY <1>1, <1>2

(* A write makes a message received that was in its one place.             *)
LEMMA OnceWrite ==
  ASSUME TypeOK, Once, NEW s \in Sessions, Write(s)
  PROVE  Once'
<1>1. PICK h \in Msgs : h = Head(buffer[s]) /\ Queued(h, s, 1)
  BY WriteEffect
<1>2. received' = [received EXCEPT ![h] = received[h] + 1]
  BY <1>1 DEF Write
<1>3. received \in [Msgs -> Nat] /\ 1 \in 1..Capacity
  BY CapacityNat DEF TypeOK
<1>4. received[h] = 0 /\ \A t \in Sessions, j \in 1..Capacity : Queued(h, t, j) => t = s /\ j = 1
  BY <1>1, <1>3 DEF Once
<1>5. /\ received'[h] = 1
      /\ \A m \in Msgs : m # h => received'[m] = received[m]
  BY <1>2, <1>3, <1>4
<1>6. ASSUME NEW t \in Sessions, NEW i \in 1..Capacity, Queued(h, t, i)' PROVE FALSE
  <2>1. CASE t = s
    <3>1. i + 1 \in 1..Capacity /\ Queued(h, s, i + 1)
      BY <2>1, <1>6, WriteEffect
    <3>2. i + 1 = 1
      BY <3>1, <1>4
    <3> QED BY <3>2
  <2>2. CASE t # s
    BY <2>2, <1>4, <1>6, WriteEffect
  <2> QED BY <2>1, <2>2
<1>7. ASSUME NEW m \in Msgs, m # h, NEW t \in Sessions, NEW i \in 1..Capacity,
             Queued(m, t, i)'
      PROVE  /\ received'[m] = 0
             /\ \A u \in Sessions : \A j \in 1..Capacity : Queued(m, u, j)' => u = t /\ j = i
  <2> DEFINE before(u, j) == IF u = s THEN j + 1 ELSE j
  <2>1. \A u \in Sessions, j \in 1..Capacity : Queued(m, u, j)' =>
          before(u, j) \in 1..Capacity /\ Queued(m, u, before(u, j))
    BY WriteEffect
  <2>2. \A u, v \in Sessions, j, k \in 1..Capacity :
          before(u, j) = before(v, k) /\ u = v => j = k
    BY CapacityNat
  <2> HIDE DEF before
  <2>3. received[m] = 0
    BY <1>7, <2>1 DEF Once
  <2>4. ASSUME NEW u \in Sessions, NEW j \in 1..Capacity, Queued(m, u, j)'
        PROVE  u = t /\ j = i
    <3>1. u = t /\ before(u, j) = before(t, i)
      BY <1>7, <2>1, <2>4 DEF Once
    <3> QED BY <3>1, <2>2
  <2> QED BY <1>5, <1>7, <2>3, <2>4
<1>8. \A m \in Msgs : received'[m] <= 1
  BY <1>5 DEF Once
<1> QED BY <1>6, <1>7, <1>8 DEF Once

(* A message is sent while it is fresh, so it stays in one place.          *)
LEMMA OnceStep ==
  ASSUME TypeOK, SavedLast, WaitingFresh, PushedFresh, Once, [Next]_vars
  PROVE  Once'
<1>1. CASE Quiet
  BY <1>1 DEF Quiet, Once
<1>2. ASSUME NEW m \in Msgs, RouteLive(m) PROVE Once'
  <2>1. PICK s \in Sessions : s = target[m]
    BY <1>2 DEF TypeOK, RouteLive
  <2>2. PICK S \in SUBSET Msgs : S = {m}
    OBVIOUS
  <2>3. Enqueue(s, S) /\ received' = received
    BY <1>2, <2>1, <2>2 DEF RouteLive
  <2>4. \A n \in S : Fresh(n)
    BY <1>2, <2>2 DEF RouteLive, WaitingFresh, Waiting
  <2> QED BY <2>3, <2>4, OnceEnqueue
<1>3. ASSUME NEW s \in Sessions, Push(s), online # NoSession PROVE Once'
  <2>1. PICK t \in Sessions : t = online
    BY <1>3 DEF TypeOK
  <2>2. PICK S \in SUBSET Msgs : S = pulled[s]
    BY DEF TypeOK
  <2>3. Enqueue(t, S) /\ received' = received
    BY <1>3, <2>1, <2>2 DEF Push
  <2>4. \A n \in S : Fresh(n)
    BY <1>3, <2>2 DEF Push, PushedFresh
  <2> QED BY <2>3, <2>4, OnceEnqueue
<1>4. ASSUME NEW s \in Sessions, Write(s) PROVE Once'
  BY <1>4, OnceWrite
<1> QED BY <1>1, <1>2, <1>3, <1>4, QuietSteps

(* That pulls raced is not forgotten.                                      *)
LEMMA RacedStays == ASSUME TypeOK, [Next]_vars, raced PROVE raced'
<1>1. ASSUME NEW s \in Sessions, Find(s) PROVE raced'
  BY <1>1 DEF Find
<1>2. CASE UNCHANGED raced
  BY <1>2
<1> QED
  BY <1>1, <1>2
     DEF Next, Send, Lookup, RouteLive, RoutePanics, RouteOffline, Save, SaveFails, Register,
         FindFails, Mark, MarkFails, Push, Write, Unregister, End, ProcessEnds, vars,
         historyVars

-----------------------------------------------------------------------------
(* The theorems.                                                           *)

(* Nothing was sent at the start.                                          *)
LEMMA InitIInv == Init => IInv
<1> SUFFICES ASSUME Init PROVE IInv
  OBVIOUS
<1>1. TypeOK
  BY NoFrames DEF Init, TypeOK, Phases, Steps
<1>2. \A m \in Msgs, s \in Sessions, i \in 1..Capacity : ~Queued(m, s, i)
  BY NoFrames DEF Init, Queued
<1>3. HeldBriefly /\ SavedLast /\ OneMarks /\ PushedFresh
  BY DEF Init, HeldBriefly, SavedLast, OneMarks, PushedFresh
<1>4. \A m \in Msgs : Fresh(m)
  BY <1>2 DEF Init, Fresh
<1>5. WaitingFresh /\ Once
  BY <1>2, <1>4 DEF Init, WaitingFresh, Once
<1> QED BY <1>1, <1>3, <1>5 DEF IInv

(* Every step keeps the invariant.                                         *)
LEMMA NextIInv == IInv /\ [Next]_vars => IInv'
<1> SUFFICES ASSUME IInv, [Next]_vars PROVE IInv'
  OBVIOUS
<1>1. TypeOK /\ HeldBriefly /\ SavedLast
  BY DEF IInv
<1>2. TypeOK' /\ HeldBriefly' /\ SavedLast'
  BY <1>1, TypesNext, HeldStep, SavedStep
<1>3. ASSUME ~raced' PROVE WaitingFresh' /\ OneMarks' /\ PushedFresh' /\ Once'
  <2>1. WaitingFresh /\ OneMarks /\ PushedFresh /\ Once
    BY <1>1, <1>3, RacedStays DEF IInv
  <2> QED
    BY <1>1, <1>3, <2>1, WaitingFreshStep, OneMarksStep, PushedFreshStep, OnceStep
<1> QED BY <1>2, <1>3 DEF IInv

(* Types (TypeOK): of all the variables of the private messages to a user. *)
THEOREM TypeCorrect == Spec => []TypeOK
<1>1. Init => TypeOK
  BY InitIInv DEF IInv
<1> QED BY <1>1, TypesNext, PTL DEF Spec

(* AtMostOnce: a private message reaches its user at most once, over the   *)
(* channel or the store, whatever logins, failed marks and ends of the     *)
(* process do, unless two pulls race (HandleWS, pushUndelivered,           *)
(* PullUndeliveredForUser).                                                *)
THEOREM DeliveredOnce == Spec => []AtMostOnce
<1>1. IInv => AtMostOnce
  BY DEF IInv, Once, AtMostOnce
<1> QED BY <1>1, InitIInv, NextIInv, PTL DEF Spec
=============================================================================
