------------------------------ MODULE History ------------------------------
(***************************************************************************)
(* The messages of one room as one member sees them: the cases "send",     *)
(* "join", "leave" and "history" of HandleWS (ws_handle.go), the goroutine *)
(* that saves a message, QueryHistory (mango.go), and the page that shows  *)
(* the messages (web/app.js).                                              *)
(*                                                                         *)
(* A message is broadcast first, stamped afterwards, and saved by a        *)
(* goroutine of its own.  A join adds the client to the room, then reads   *)
(* the history, then answers; the answer and the broadcasts share the      *)
(* client's send channel, which keeps their order.                         *)
(***************************************************************************)
EXTENDS Naturals, Sequences

CONSTANTS
  Msgs,       (* messages to the room, numbered; an author sends its own   *)
              (* in the order of their numbers                             *)
  Authors,    (* sessions that send                                        *)
  author,     (* who sends the message                                     *)
  Limit,      (* messages in an answer: 50                                 *)
  Capacity,   (* buffer of the send channel: 256                           *)
  MaxRequests (* bound on the viewer's requests                            *)

ASSUME HistoryAssumption ==
  /\ Msgs \subseteq Nat
  /\ author \in [Msgs -> Authors]
  /\ {Limit, Capacity, MaxRequests} \subseteq Nat \ {0}

VARIABLES
  step,       (* where the handling of the message is                      *)
  ts,         (* Timestamp of the ChatMessage, in milliseconds             *)
  clock,      (* the latest Timestamp given, 0 before the first            *)
  member,     (* the viewer's channel is in the clients of the Room        *)
  displaced,  (* history: it joined, but its entry is another session's,   *)
              (* or gone, or in a Room that was removed                    *)
  request,    (* the viewer's request under way                            *)
  asked,      (* how many requests there were                              *)
  at,         (* where the viewer's handler is in it                       *)
  his,        (* what QueryHistory gave it, oldest first                   *)
  channel,    (* the viewer's send channel                                 *)
  joined,     (* app.js: joinedRooms has the room                          *)
  current,    (* app.js: the room is currentRoom                           *)
  view,       (* app.js: the messages on the page                          *)
  switched,   (* history: switchRoom has changed the page since "joined"   *)
  missed,     (* history: messages that the last join could not find, or   *)
              (* that passed the viewer by since                           *)
  dropped     (* history: the channel was full                             *)

messageVars == <<step, ts, clock>>
handlerVars == <<request, asked, at, his>>
pageVars == <<joined, current, view, switched>>
entryVars == <<member, displaced>>
vars == <<messageVars, entryVars, handlerVars, channel, pageVars, missed, dropped>>

Steps == {"new", "sent", "panicked", "save", "stored"}
Answers == UNION {[1..n -> Msgs] : n \in 0..Limit}
Elements(s) == {s[i] : i \in DOMAIN s}

Frames ==
  [kind : {"message"}, msg : Msgs] \cup [kind : {"left"}]
    \cup [kind : {"joined", "history"}, his : Answers]

(* Types; and the channel never holds more than its buffer.                *)
TypeOK ==
  /\ step \in [Msgs -> Steps]
  /\ ts \in [Msgs -> Nat] /\ clock \in Nat
  /\ {member, displaced, joined, current, switched, dropped} \subseteq BOOLEAN
  /\ request \in {"none", "join", "history"}
  /\ asked \in 0..MaxRequests
  /\ at \in {"idle", "query", "answer"}
  /\ his \in Answers
  /\ channel \in Seq(Frames) /\ Len(channel) <= Capacity
  /\ view \in Seq(Msgs)
  /\ missed \subseteq Msgs

Init ==
  /\ step = [m \in Msgs |-> "new"]
  /\ ts = [m \in Msgs |-> 0] /\ clock = 0
  /\ member = FALSE /\ displaced = FALSE
  /\ request = "none" /\ asked = 0 /\ at = "idle" /\ his = <<>>
  /\ channel = <<>>
  /\ joined = FALSE /\ current = FALSE /\ view = <<>> /\ switched = FALSE
  /\ missed = {} /\ dropped = FALSE

(* Mutant: a full channel takes one more.                                  *)
Enqueue_Unbounded(frame) ==
  /\ channel' = Append(channel, frame)
  /\ UNCHANGED dropped

(* select { case ch <- b: default: }                                       *)
Enqueue(frame) ==
  \/ /\ Len(channel) < Capacity
     /\ channel' = Append(channel, frame)
     /\ UNCHANGED dropped
  \/ /\ Len(channel) = Capacity
     /\ dropped' = TRUE
     /\ UNCHANGED channel

-----------------------------------------------------------------------------
(* The author's handler and the goroutine that saves.                      *)

(* The author's handler is between two frames; a panic ends it.            *)
AuthorReady(m) ==
  \A n \in Msgs : n < m /\ author[n] = author[m] => step[n] \in {"save", "stored"}

(* The author's handler goes from getOrCreateRoom through broadcast.       *)
SendAs(m, s) ==
  /\ step[m] = "new" /\ AuthorReady(m)
  /\ step' = [step EXCEPT ![m] = s]
  /\ UNCHANGED <<ts, clock, entryVars, handlerVars, pageVars>>

(* The loop of broadcast comes to the viewer.  What is sent between the    *)
(* viewer's query and its answer is not in that answer, and comes before.  *)
Reach(m) ==
  /\ Enqueue([kind |-> "message", msg |-> m])
  /\ missed' = IF at = "answer" /\ request = "join" THEN missed \cup {m} ELSE missed

(* It does not: the viewer misses the message, unless it has not joined or *)
(* its join is still to read the history.                                  *)
PassBy(m) ==
  /\ missed' = IF (member \/ displaced) /\ at # "query" THEN missed \cup {m} ELSE missed
  /\ UNCHANGED <<channel, dropped>>

(* broadcast, under the Room's lock.                                       *)
Broadcast(m) ==
  /\ SendAs(m, "sent")
  /\ \/ member /\ Reach(m)
     \/ ~member /\ PassBy(m)

(* The Room was removed after getOrCreateRoom returned it.  The viewer may *)
(* have an entry in that one, if it ever joined.                           *)
BroadcastStray(m) ==
  /\ SendAs(m, "sent")
  /\ \/ asked > 0 /\ Reach(m)
     \/ PassBy(m)

(* In either Room the channel of another member is closed: the send on it  *)
(* panics, before or after the one to the viewer, and the handler ends.    *)
BroadcastPanics(m) ==
  /\ SendAs(m, "panicked")
  /\ \/ asked > 0 /\ Reach(m)
     \/ PassBy(m)

(* Timestamp: time.Now(), perhaps the same millisecond as another; then    *)
(* the goroutine starts.                                                   *)
Stamp(m) ==
  /\ step[m] = "sent"
  /\ step' = [step EXCEPT ![m] = "save"]
  /\ clock' \in {clock, clock + 1} \ {0}
  /\ ts' = [ts EXCEPT ![m] = clock']
  /\ UNCHANGED <<entryVars, handlerVars, channel, pageVars, missed, dropped>>

(* Mutant: the goroutine takes the time itself.                            *)
Save_Stamps(m) ==
  /\ step[m] = "save"
  /\ step' = [step EXCEPT ![m] = "stored"]
  /\ clock' \in {clock, clock + 1} \ {0}
  /\ ts' = [ts EXCEPT ![m] = clock']
  /\ UNCHANGED <<entryVars, handlerVars, channel, pageVars, missed, dropped>>

(* InsertOne.  One that fails changes nothing: to the viewer it is a save  *)
(* that never comes.                                                       *)
Save(m) ==
  /\ step[m] = "save"
  /\ step' = [step EXCEPT ![m] = "stored"]
  /\ UNCHANGED <<ts, clock, entryVars, handlerVars, channel, pageVars, missed, dropped>>

-----------------------------------------------------------------------------
(* The viewer's handler.                                                   *)

Stored == {m \in Msgs : step[m] = "stored"}

(* s holds the newest messages of the store, at most Limit, oldest first;  *)
(* messages of one millisecond in any order.                               *)
Newest(s) ==
  /\ Elements(s) \subseteq Stored
  /\ Elements(s) = Stored \/ Len(s) = Limit
  /\ \A i, j \in DOMAIN s : i < j => s[i] # s[j] /\ ts[s[i]] <= ts[s[j]]
  /\ \A m \in Stored \ Elements(s), n \in Elements(s) : ts[m] <= ts[n]

(* The viewer's page has sent a request; it sends the next one after the   *)
(* answer.                                                                 *)
Ask ==
  /\ request = "none" /\ asked < MaxRequests
  /\ asked' = asked + 1

(* A "join" is read: getOrCreateRoom and addClient.  A Room without this   *)
(* viewer may be removed between the two.                                  *)
AddClient ==
  /\ Ask
  /\ request' = "join" /\ at' = "query"
  /\ \/ member' = TRUE /\ displaced' = FALSE
     \/ ~member /\ member' = FALSE /\ displaced' = TRUE
  /\ missed' = {}
  /\ UNCHANGED <<messageVars, his, channel, pageVars, dropped>>

(* Another session of the viewer's user joins, and overwrites the entry,   *)
(* or leaves or ends, and deletes it.                                      *)
Displace ==
  /\ member
  /\ member' = FALSE /\ displaced' = TRUE
  /\ UNCHANGED <<messageVars, handlerVars, channel, pageVars, missed, dropped>>

(* A "leave" is read: removeClient, removeEmptyRoom and the answer.        *)
RemoveClient ==
  /\ joined
  /\ Ask
  /\ member' = FALSE /\ displaced' = FALSE
  /\ Enqueue([kind |-> "left"])
  /\ UNCHANGED <<messageVars, request, at, his, pageVars, missed>>

(* The messages sent so far that the answer h leaves out, other than those *)
(* older than all it has.                                                  *)
Absent(h) == {m \in Msgs : /\ step[m] # "new"
                           /\ m \notin Elements(h)
                           /\ step[m] = "stored" => Len(h) = Limit /\ ts[m] <= ts[h[1]]}

QueryWith(h) ==
  /\ \/ at = "query"
     \/ at = "idle" /\ request = "history"
  /\ at' = "answer"
  /\ his' = h
  /\ UNCHANGED <<messageVars, entryVars, request, asked, channel, pageVars, dropped>>

(* Mutant: sorted by timestamp, but upwards.                               *)
QueryHistory_Oldest ==
  \E h \in Answers :
    /\ Elements(h) \subseteq Stored
    /\ Elements(h) = Stored \/ Len(h) = Limit
    /\ \A i, j \in DOMAIN h : i < j => h[i] # h[j] /\ ts[h[i]] <= ts[h[j]]
    /\ \A m \in Stored \ Elements(h), n \in Elements(h) : ts[m] >= ts[n]
    /\ QueryWith(h)
    /\ missed' = IF request = "join" THEN Absent(h) ELSE missed

(* QueryHistory of a join or of a "history" request.                       *)
QueryHistory ==
  \E h \in Answers :
    /\ Newest(h)
    /\ QueryWith(h)
    /\ missed' = IF request = "join" THEN Absent(h) ELSE missed

(* The query fails or times out: an empty answer.                          *)
QueryFails ==
  /\ QueryWith(<<>>)
  /\ missed' = IF request = "join" THEN {m \in Msgs : step[m] # "new"} ELSE missed

(* Mutant: the answer is written to the socket ahead of the channel.       *)
Answer_Direct ==
  /\ at = "answer" /\ Len(channel) < Capacity
  /\ at' = "idle" /\ request' = "none" /\ his' = <<>>
  /\ channel' =
       <<[kind |-> IF request = "join" THEN "joined" ELSE "history", his |-> his]>> \o channel
  /\ UNCHANGED <<messageVars, entryVars, asked, pageVars, missed, dropped>>

Answer ==
  /\ at = "answer"
  /\ at' = "idle" /\ request' = "none" /\ his' = <<>>
  /\ Enqueue([kind |-> IF request = "join" THEN "joined" ELSE "history", his |-> his])
  /\ UNCHANGED <<messageVars, entryVars, asked, pageVars, missed>>

-----------------------------------------------------------------------------
(* The page.                                                               *)

(* switchRoom, or a join of another room: the page shows that one.         *)
SwitchAway ==
  /\ current
  /\ current' = FALSE /\ view' = <<>> /\ switched' = TRUE
  /\ UNCHANGED <<messageVars, entryVars, handlerVars, channel, joined, missed, dropped>>

(* switchRoom to this one: the page is cleared and the history asked for.  *)
SwitchBack ==
  /\ joined /\ ~current
  /\ Ask /\ request' = "history"
  /\ current' = TRUE /\ view' = <<>> /\ switched' = TRUE
  /\ UNCHANGED <<messageVars, entryVars, at, his, channel, joined, missed, dropped>>

Receive(kind) ==
  /\ channel # <<>> /\ Head(channel).kind = kind
  /\ channel' = Tail(channel)
  /\ UNCHANGED <<messageVars, entryVars, handlerVars, missed, dropped>>

(* "joined": the page is cleared and shows the history, oldest first.      *)
OnJoined ==
  /\ Receive("joined")
  /\ joined' = TRUE /\ current' = TRUE /\ switched' = FALSE
  /\ view' = Head(channel).his

OnLeft ==
  /\ Receive("left")
  /\ joined' = FALSE /\ current' = FALSE
  /\ UNCHANGED <<view, switched>>

(* "message" and "history" are added to the page whatever room it shows.   *)
OnMessage ==
  /\ Receive("message")
  /\ view' = Append(view, Head(channel).msg)
  /\ UNCHANGED <<joined, current, switched>>

OnHistory ==
  /\ Receive("history")
  /\ view' = view \o Head(channel).his /\ switched' = TRUE
  /\ UNCHANGED <<joined, current>>

-----------------------------------------------------------------------------

Next ==
  \/ \E m \in Msgs :
       Broadcast(m) \/ BroadcastStray(m) \/ BroadcastPanics(m) \/ Stamp(m) \/ Save(m)
  \/ AddClient \/ Displace \/ RemoveClient \/ QueryHistory \/ QueryFails \/ Answer
  \/ SwitchAway \/ SwitchBack
  \/ OnJoined \/ OnLeft \/ OnMessage \/ OnHistory

Spec == Init /\ [][Next]_vars

-----------------------------------------------------------------------------
(* What the viewer sees.                                                   *)

(* No message is shown twice, although a message that is sent while the    *)
(* viewer joins comes both by the channel and in the history: it was saved *)
(* after it was broadcast, so its frame is ahead of "joined", which clears *)
(* the page.  (The answer to switchRoom does not clear the page; see       *)
(* `switched`.)                                                            *)
NoDuplicates ==
  ~switched => \A i, j \in DOMAIN view : view[i] = view[j] => i = j

(* The messages of one author are shown in the order sent, from the store  *)
(* or live, although their saves overtake each other; only two of one      *)
(* millisecond may be exchanged.                                           *)
AuthorsInOrder ==
  ~switched => \A i, j \in DOMAIN view :
    i < j /\ author[view[i]] = author[view[j]] /\ view[j] < view[i]
      => ts[view[i]] = ts[view[j]]

(* All that is under way has reached the page.                             *)
Settled == request = "none" /\ channel = <<>>

(* A viewer who has joined sees every message, those sent before, during   *)
(* and after the join, unless                                              *)
(*  - it had not been saved when the join read the history, and was sent   *)
(*    before the answer;                                                   *)
(*  - it was older than the Limit newest then;                             *)
(*  - it was sent before a join whose query failed or timed out: that      *)
(*    shows an empty history;                                              *)
(*  - it was sent while the viewer's entry was another session's of the    *)
(*    same user (clients has one for a user), or deleted by one, or in a   *)
(*    Room that was removed when the join came to it;                      *)
(*  - its author sent it to a Room that had been removed, or the loop of   *)
(*    broadcast panicked on the closed channel of another member;          *)
(*  - the channel overflowed.                                              *)
(* All but the last are in `missed`, which a join begins anew.             *)
ViewComplete ==
  Settled /\ joined /\ ~switched /\ ~dropped =>
    \A m \in Msgs : step[m] # "new" => m \in Elements(view) \cup missed
=============================================================================
