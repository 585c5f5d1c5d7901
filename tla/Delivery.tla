------------------------------ MODULE Delivery ------------------------------
(***************************************************************************)
(* Private messages to one user: the "private" case of HandleWS, the       *)
(* goroutine that saves the message, the messages collection               *)
(* (internal/storage/mango.go) and pushUndelivered, which every            *)
(* authentication runs.  The process may end at any moment and be started  *)
(* again.                                                                  *)
(*                                                                         *)
(* The user's sessions are the connections authenticated as that user; a   *)
(* session may end and a new one begin.  Of the registry only the user's   *)
(* own entry is kept.  The senders are told apart by their messages.       *)
(***************************************************************************)
EXTENDS Sequences, FiniteSets, Naturals

CONSTANTS
  Msgs,       (* private messages to the user                              *)
  Sessions,   (* connections that may authenticate as the user             *)
  NoSession,  (* no entry in onlineUsers                                   *)
  Limit,      (* SetLimit of the pull: 200                                 *)
  Capacity    (* buffer of the send channel: 256                           *)

ASSUME DeliveryAssumption ==
  /\ NoSession \notin Sessions
  /\ {Limit, Capacity} \subseteq Nat \ {0}

VARIABLES
  online,     (* onlineUsers[user]                                         *)
  phase,      (* where the session's handler is                            *)
  pulled,     (* msgs of PullUndeliveredForUser                            *)
  buffer,     (* the session's send channel                                *)
  step,       (* where the handling of the message is                      *)
  target,     (* what getOnlineClient gave the sender                      *)
  store,      (* the collection: absent, or with the flag `delivered`      *)
  received,   (* how often the user's client got the message               *)
  found,      (* history: messages some pull returned                      *)
  raced       (* history: a pull began before another had marked its finds *)

sessionVars == <<online, phase, pulled, buffer>>
senderVars == <<step, target>>
historyVars == <<found, raced>>
vars == <<sessionVars, senderVars, store, received, historyVars>>

Phases == {"off", "pull", "mark", "push", "ready", "closing"}
Steps == {"new", "route", "save live", "save offline", "done", "panicked"}

TypeOK ==
  /\ online \in Sessions \cup {NoSession}
  /\ phase \in [Sessions -> Phases]
  /\ pulled \in [Sessions -> SUBSET Msgs]
  /\ buffer \in [Sessions -> Seq(Msgs)]
  /\ \A s \in Sessions : Len(buffer[s]) <= Capacity
  /\ step \in [Msgs -> Steps]
  /\ target \in [Msgs -> Sessions \cup {NoSession}]
  /\ store \in [Msgs -> {"absent", "undelivered", "delivered"}]
  /\ received \in [Msgs -> Nat]
  /\ found \subseteq Msgs
  /\ raced \in BOOLEAN

Init ==
  /\ online = NoSession
  /\ phase = [s \in Sessions |-> "off"]
  /\ pulled = [s \in Sessions |-> {}]
  /\ buffer = [s \in Sessions |-> <<>>]
  /\ step = [m \in Msgs |-> "new"]
  /\ target = [m \in Msgs |-> NoSession]
  /\ store = [m \in Msgs |-> "absent"]
  /\ received = [m \in Msgs |-> 0]
  /\ found = {}
  /\ raced = FALSE

-----------------------------------------------------------------------------
(* Sending a message.                                                      *)

(* getOnlineClient(to).                                                    *)
Lookup(m) ==
  /\ step[m] = "new"
  /\ step' = [step EXCEPT ![m] = "route"]
  /\ target' = [target EXCEPT ![m] = online]
  /\ UNCHANGED <<sessionVars, store, received, historyVars>>

(* Mutant: the frames are kept although the channel is full.               *)
Enqueue_Unbounded(s, S) ==
  /\ \E f \in [1..Cardinality(S) -> S] :
       /\ {f[i] : i \in 1..Cardinality(S)} = S
       /\ buffer' = [buffer EXCEPT ![s] = @ \o f]

(* The frames of S, in some order, go to the channel of session s one by   *)
(* one; those for which there is no room are dropped.                      *)
Enqueue(s, S) ==
  LET room == Capacity - Len(buffer[s]) IN
  \E n \in 0..room :
    /\ n \in {Cardinality(S), room}
    /\ \E f \in [1..n -> S] :
         /\ \A i, j \in 1..n : f[i] = f[j] => i = j
         /\ buffer' = [buffer EXCEPT ![s] = @ \o f]

(* Online: the frame goes to the channel or is dropped; the save will say  *)
(* delivered either way, and the sender gets its "ack".                    *)
RouteLive(m) ==
  /\ step[m] = "route"
  /\ target[m] # NoSession
  /\ phase[target[m]] # "off"
  /\ Enqueue(target[m], {m})
  /\ step' = [step EXCEPT ![m] = "save live"]
  /\ UNCHANGED <<online, phase, pulled, target, store, received, historyVars>>

(* The target's channel was closed in between: the sender's handler        *)
(* panics, nothing is saved or acknowledged.                               *)
RoutePanics(m) ==
  /\ step[m] = "route"
  /\ target[m] # NoSession
  /\ phase[target[m]] = "off"
  /\ step' = [step EXCEPT ![m] = "panicked"]
  /\ UNCHANGED <<sessionVars, target, store, received, historyVars>>

(* Offline: save as undelivered, "ack".                                    *)
RouteOffline(m) ==
  /\ step[m] = "route"
  /\ target[m] = NoSession
  /\ step' = [step EXCEPT ![m] = "save offline"]
  /\ UNCHANGED <<sessionVars, target, store, received, historyVars>>

(* Mutant: the flag of the online branch is false as well.                 *)
Save_Undelivered(m) ==
  /\ step[m] \in {"save live", "save offline"}
  /\ store' = [store EXCEPT ![m] = "undelivered"]
  /\ step' = [step EXCEPT ![m] = "done"]
  /\ UNCHANGED <<sessionVars, target, received, historyVars>>

(* The save goroutine: InsertOne succeeds.                                 *)
Save(m) ==
  /\ step[m] \in {"save live", "save offline"}
  /\ store' = [store EXCEPT ![m] =
                 IF step[m] = "save live" THEN "delivered" ELSE "undelivered"]
  /\ step' = [step EXCEPT ![m] = "done"]
  /\ UNCHANGED <<sessionVars, target, received, historyVars>>

(* InsertOne fails or times out: the error is logged.                      *)
SaveFails(m) ==
  /\ step[m] \in {"save live", "save offline"}
  /\ step' = [step EXCEPT ![m] = "done"]
  /\ UNCHANGED <<sessionVars, target, store, received, historyVars>>

-----------------------------------------------------------------------------
(* A session.                                                              *)

Undelivered == {m \in Msgs : store[m] = "undelivered"}

(* Mutant: authentication without pushUndelivered.                         *)
Register_NoPull(s) ==
  /\ \/ phase[s] = "ready"
     \/ phase[s] = "off" /\ \A m \in Msgs : step[m] = "route" => target[m] # s
  /\ phase' = [phase EXCEPT ![s] = "ready"]
  /\ online' = s
  /\ UNCHANGED <<pulled, buffer, senderVars, store, received, historyVars>>

(* "auth" is accepted: registerOnline.  A session may authenticate again;  *)
(* a new one takes an identity that no sender refers to any more.          *)
Register(s) ==
  /\ \/ phase[s] = "ready"
     \/ phase[s] = "off" /\ \A m \in Msgs : step[m] = "route" => target[m] # s
  /\ phase' = [phase EXCEPT ![s] = "pull"]
  /\ online' = s
  /\ UNCHANGED <<pulled, buffer, senderVars, store, received, historyVars>>

(* Find: at most Limit of the user's undelivered messages.                 *)
Find(s) ==
  /\ phase[s] = "pull"
  /\ \E F \in SUBSET Undelivered :
       /\ Cardinality(F) <= Limit
       /\ F = Undelivered \/ Cardinality(F) = Limit
       /\ pulled' = [pulled EXCEPT ![s] = F]
       /\ found' = found \cup F
       /\ phase' = [phase EXCEPT ![s] = IF F = {} THEN "ready" ELSE "mark"]
  /\ raced' = (raced \/ \E t \in Sessions : phase[t] = "mark")
  /\ UNCHANGED <<online, buffer, senderVars, store, received>>

(* Find or its cursor fails: pushUndelivered gives up.                     *)
FindFails(s) ==
  /\ phase[s] = "pull"
  /\ phase' = [phase EXCEPT ![s] = "ready"]
  /\ UNCHANGED <<online, pulled, buffer, senderVars, store, received, historyVars>>

MarkAll == [m \in Msgs |-> IF m \in Undelivered THEN "delivered" ELSE store[m]]

(* UpdateMany with the filter of the Find, which it evaluates again.       *)
Mark(s) ==
  /\ phase[s] = "mark"
  /\ store' = MarkAll
  /\ phase' = [phase EXCEPT ![s] = "push"]
  /\ UNCHANGED <<online, pulled, buffer, senderVars, received, historyVars>>

(* UpdateMany reports an error, with or without effect; the messages are   *)
(* not returned.                                                           *)
MarkFails(s) ==
  /\ phase[s] = "mark"
  /\ store' \in {store, MarkAll}
  /\ phase' = [phase EXCEPT ![s] = "ready"]
  /\ pulled' = [pulled EXCEPT ![s] = {}]
  /\ UNCHANGED <<online, buffer, senderVars, received, historyVars>>

(* pushUndelivered sends what was pulled to the client the user has now.   *)
(* Left out: its channel may be closed between the look-up and the sends.  *)
(* Then the handler panics, as in RoutePanics; what it had not sent yet is *)
(* lost, as by a full channel, and its entry stays in the registry.        *)
Push(s) ==
  /\ phase[s] = "push"
  /\ \/ online = NoSession /\ UNCHANGED buffer
     \/ online # NoSession /\ Enqueue(online, pulled[s])
  /\ phase' = [phase EXCEPT ![s] = "ready"]
  /\ pulled' = [pulled EXCEPT ![s] = {}]
  /\ UNCHANGED <<online, senderVars, store, received, historyVars>>

(* The write goroutine sends the next frame and the client gets it.        *)
Write(s) ==
  /\ buffer[s] # <<>>
  /\ received' = [received EXCEPT ![Head(buffer[s])] = @ + 1]
  /\ buffer' = [buffer EXCEPT ![s] = Tail(@)]
  /\ UNCHANGED <<online, phase, pulled, senderVars, store, historyVars>>

(* The connection is lost: unregisterOnline, whatever session the entry    *)
(* holds, then up to 12 seconds in which the channel is still open.        *)
Unregister(s) ==
  /\ phase[s] = "ready"
  /\ phase' = [phase EXCEPT ![s] = "closing"]
  /\ online' = NoSession
  /\ UNCHANGED <<pulled, buffer, senderVars, store, received, historyVars>>

(* close(sendCh) and conn.Close(): the frames in the channel are lost.     *)
End(s) ==
  /\ phase[s] = "closing"
  /\ phase' = [phase EXCEPT ![s] = "off"]
  /\ buffer' = [buffer EXCEPT ![s] = <<>>]
  /\ UNCHANGED <<online, pulled, senderVars, store, received, historyVars>>

(* The gateway process ends, by a crash or by returning from main, which   *)
(* waits for neither handlers nor save goroutines: what is under way or in *)
(* a channel is lost, the store stays.                                     *)
ProcessEnds ==
  /\ online' = NoSession
  /\ phase' = [s \in Sessions |-> "off"]
  /\ pulled' = [s \in Sessions |-> {}]
  /\ buffer' = [s \in Sessions |-> <<>>]
  /\ step' = [m \in Msgs |-> IF step[m] \in {"new", "panicked"} THEN step[m] ELSE "done"]
  /\ UNCHANGED <<target, store, received, historyVars>>

-----------------------------------------------------------------------------

Send(m) == Lookup(m) \/ RouteLive(m) \/ RoutePanics(m) \/ RouteOffline(m)

Next ==
  \/ \E m \in Msgs : Send(m) \/ Save(m) \/ SaveFails(m)
  \/ \E s \in Sessions :
       \/ Register(s) \/ Find(s) \/ FindFails(s) \/ Mark(s) \/ MarkFails(s)
       \/ Push(s) \/ Write(s) \/ Unregister(s) \/ End(s)
  \/ ProcessEnds

(* The user comes back now and then, handlers go on, and the store does    *)
(* not fail for ever.                                                      *)
Fairness ==
  \A s \in Sessions :
    /\ SF_vars(Register(s))
    /\ SF_vars(Find(s)) /\ SF_vars(Mark(s))
    /\ WF_vars(Push(s)) /\ WF_vars(End(s))

Spec == Init /\ [][Next]_vars
FairSpec == Spec /\ Fairness

-----------------------------------------------------------------------------
(* What delivery keeps.                                                    *)

(* No message reaches the user twice, through the channel or the store, in *)
(* one session or in several, although the user may log in again at any    *)
(* moment, sessions overlap, marking may fail and the process may end and  *)
(* start again: only two pulls of which one begins between the other's     *)
(* Find and UpdateMany can do that.                                        *)
AtMostOnce == ~raced => \A m \in Msgs : received[m] <= 1

(* A message in the store as undelivered does not stay so: the user's      *)
(* logins take it out.                                                     *)
OfflineTakenUp ==
  \A m \in Msgs : store[m] = "undelivered" ~> store[m] = "delivered"

-----------------------------------------------------------------------------
(* What the comments and the README say and delivery does not keep.        *)

(* The messages that are marked are the ones that were fetched (mango.go,  *)
(* "fetches undelivered private messages and marks them delivered").       *)
MarkedWereFetched ==
  [][\A m \in Msgs :
       store[m] = "undelivered" /\ store'[m] = "delivered" => m \in found]_vars
=============================================================================
