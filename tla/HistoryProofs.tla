--------------------------- MODULE HistoryProofs ---------------------------
(***************************************************************************)
(* Proofs about History: types; that a page shows no message twice and     *)
(* those of an author in their order; and what it may miss.  For any       *)
(* messages, authors, limit and size of the channel, and any number of     *)
(* requests.                                                               *)
(***************************************************************************)
EXTENDS History, SequenceTheorems, TLAPS

(* The three outcomes of a broadcast.                                      *)
Sends(m) == Broadcast(m) \/ BroadcastStray(m) \/ BroadcastPanics(m)

(* Facts about sequences, frames and time stamps t and steps st, stated    *)
(* for values, so that they may be used of two moments.                    *)

(* What a frame puts on the page.                                          *)
Shows(f) ==
  IF f.kind = "message" THEN {f.msg}
  ELSE IF f.kind = "left" THEN {} ELSE Elements(f.his)

(* Two messages at different times on a page are different, and in the     *)
(* order of their author or of one time stamp.                             *)
Good(t, s) ==
  \A i, j \in DOMAIN s : i < j =>
    /\ s[i] # s[j]
    /\ author[s[i]] = author[s[j]] /\ s[j] < s[i] => t[s[i]] = t[s[j]]

(* m may follow x on a page whatever their time stamps.                    *)
Later(x, m) == m # x /\ ~(author[m] = author[x] /\ m < x)

(* The messages of S were sent.                                            *)
Sent(st, S) == \A x \in S : st[x] # "new"

(* A frame has messages that were sent, and a good history.                *)
Fine(st, t, f) ==
  /\ Sent(st, Shows(f))
  /\ f.kind \in {"joined", "history"} => Good(t, f.his)

(* Frame g may come after f.                                               *)
Follows(f, g) == g.kind = "message" => \A x \in Shows(f) : Later(x, g.msg)

(* Frame g may come when the page shows the messages of s.                 *)
Extends(s, g) == g.kind = "message" => \A x \in Elements(s) : Later(x, g.msg)

-----------------------------------------------------------------------------

Stamped(m) == step[m] \in {"save", "stored"}

(* Time stamps are given once, in the order of the clock.                  *)
StampsFine ==
  \A m \in Msgs : IF Stamped(m) THEN ts[m] \in 1..clock ELSE ts[m] = 0

(* An author sends a message after it has stamped those before.            *)
AuthorsTurn ==
  \A m, n \in Msgs : n < m /\ author[n] = author[m] /\ step[m] # "new" =>
    /\ Stamped(n)
    /\ Stamped(m) => ts[n] <= ts[m]

(* What a query found.                                                     *)
HisFine == Sent(step, Elements(his)) /\ Good(ts, his)

ChannelFine ==
  \A k \in 1..Len(channel) :
    /\ Fine(step, ts, channel[k])
    /\ \A j \in 1..Len(channel) : k < j => Follows(channel[k], channel[j])

(* The page, and what is on its way to it.                                 *)
ViewFine ==
  ~switched =>
    /\ Sent(step, Elements(view)) /\ Good(ts, view)
    /\ \A k \in 1..Len(channel) : Extends(view, channel[k])

(* For the completeness of the page: no frame of c behind the k-th changes *)
(* whether the page shows the room.                                        *)
NoControl(c, k) == \A j \in 1..Len(c) : j > k => c[j].kind \notin {"joined", "left"}

(* A message that was sent is in S, or is a frame of c behind the k-th.    *)
Covers(st, S, c, k) ==
  \A m \in Msgs : st[m] # "new" =>
    \/ m \in S
    \/ \E j \in 1..Len(c) : j > k /\ c[j].kind = "message" /\ c[j].msg = m

(* The viewer joined and did not leave.                                    *)
Listed == member \/ displaced

(* During a join; once the history was read, what was sent is in it or     *)
(* missed.                                                                 *)
JoinCovered ==
  /\ at = "query" => request = "join"
  /\ request = "join" =>
       /\ Listed
       /\ at = "answer" => Covers(step, Elements(his) \cup missed, <<>>, 0)

(* Otherwise the last "joined" on its way or the page, with the frames     *)
(* behind, has what was sent and not missed, and more will come.           *)
ViewCovered ==
  ~dropped /\ request # "join" =>
    /\ \A k \in 1..Len(channel) : channel[k].kind = "joined" /\ NoControl(channel, k) =>
         Listed /\ Covers(step, Elements(channel[k].his) \cup missed, channel, k)
    /\ joined /\ ~switched /\ NoControl(channel, 0) =>
         Listed /\ Covers(step, Elements(view) \cup missed, channel, 0)

IInv ==
  /\ TypeOK
  /\ StampsFine /\ AuthorsTurn
  /\ HisFine /\ ChannelFine /\ ViewFine
  /\ JoinCovered /\ ViewCovered

-----------------------------------------------------------------------------
(* Types.                                                                  *)

(* The bounds are positive numbers.                                        *)
LEMMA Numbers ==
  /\ Limit \in Nat \ {0} /\ Capacity \in Nat \ {0} /\ MaxRequests \in Nat \ {0}
  /\ Msgs \subseteq Nat
BY HistoryAssumption

(* Answers are sequences of messages.                                      *)
LEMMA AnswersAreSeqs == Answers \subseteq Seq(Msgs) /\ <<>> \in Answers
<1>1. ASSUME NEW s \in Answers PROVE s \in Seq(Msgs)
  <2>1. PICK n \in 0..Limit : s \in [1..n -> Msgs]
    BY DEF Answers
  <2>2. n \in Nat
    BY <2>1, Numbers
  <2> QED BY <2>1, <2>2
<1>2. <<>> \in [1..0 -> Msgs] /\ 0 \in 0..Limit
  BY Numbers
<1>3. <<>> \in Answers
  BY <1>2 DEF Answers
<1> QED BY <1>1, <1>3

(* The elements of a sequence of messages.                                 *)
LEMMA ElementsOfSeq ==
  ASSUME NEW s \in Seq(Msgs)
  PROVE  /\ DOMAIN s = 1..Len(s) /\ Len(s) \in Nat
         /\ \A i \in 1..Len(s) : s[i] \in Msgs /\ s[i] \in Elements(s)
         /\ Elements(s) \subseteq Msgs
<1>1. DOMAIN s = 1..Len(s) /\ Len(s) \in Nat /\ \A i \in 1..Len(s) : s[i] \in Msgs
  OBVIOUS
<1> QED BY <1>1 DEF Elements

(* What the frames of each kind consist of.                                *)
LEMMA FrameParts ==
  ASSUME NEW f \in Frames
  PROVE  /\ f.kind \in {"message", "left", "joined", "history"}
         /\ f.kind = "message" => f.msg \in Msgs
         /\ f.kind \in {"joined", "history"} => f.his \in Answers
         /\ Shows(f) \subseteq Msgs
<1>1. \/ f \in [kind : {"message"}, msg : Msgs]
      \/ f \in [kind : {"left"}]
      \/ f \in [kind : {"joined", "history"}, his : Answers]
  BY DEF Frames
<1>2. CASE f \in [kind : {"message"}, msg : Msgs]
  BY <1>2 DEF Shows
<1>3. CASE f \in [kind : {"left"}]
  BY <1>3 DEF Shows
<1>4. CASE f \in [kind : {"joined", "history"}, his : Answers]
  <2>1. f.his \in Answers /\ f.kind \in {"joined", "history"}
    BY <1>4
  <2>2. Elements(f.his) \subseteq Msgs
    BY <2>1, AnswersAreSeqs, ElementsOfSeq
  <2> QED BY <2>1, <2>2 DEF Shows
<1> QED BY <1>1, <1>2, <1>3, <1>4

(* The frames the code makes.                                              *)
LEMMA FramesMade ==
  /\ \A m \in Msgs : [kind |-> "message", msg |-> m] \in Frames
  /\ [kind |-> "left"] \in Frames
  /\ \A k \in {"joined", "history"}, h \in Answers : [kind |-> k, his |-> h] \in Frames
BY DEF Frames

(* What Enqueue does to the channel.                                       *)
LEMMA EnqueueEffect ==
  ASSUME TypeOK, NEW f \in Frames, Enqueue(f)
  PROVE  /\ channel' \in Seq(Frames) /\ Len(channel') <= Capacity
         /\ channel' = channel \/ channel' = Append(channel, f)
         /\ dropped' \in BOOLEAN
<1>1. channel \in Seq(Frames) /\ Len(channel) \in Nat /\ Len(channel) <= Capacity
  BY DEF TypeOK
<1>2. CASE Len(channel) < Capacity /\ channel' = Append(channel, f) /\ UNCHANGED dropped
  <2>1. channel' \in Seq(Frames) /\ Len(channel') = Len(channel) + 1
    BY <1>1, <1>2, AppendProperties
  <2> QED BY <1>1, <1>2, <2>1, Numbers DEF TypeOK
<1>3. CASE Len(channel) = Capacity /\ dropped' = TRUE /\ UNCHANGED channel
  BY <1>1, <1>3
<1> QED BY <1>2, <1>3 DEF Enqueue

(* What a receipt does to the channel.                                     *)
LEMMA TailEffect ==
  ASSUME TypeOK, channel # <<>>
  PROVE  /\ Head(channel) \in Frames /\ Head(channel) = channel[1] /\ 1 \in 1..Len(channel)
         /\ Tail(channel) \in Seq(Frames) /\ Len(Tail(channel)) <= Capacity
         /\ \A k \in 1..Len(Tail(channel)) :
              k + 1 \in 1..Len(channel) /\ Tail(channel)[k] = channel[k + 1]
<1>1. channel \in Seq(Frames) /\ Len(channel) \in Nat /\ Len(channel) <= Capacity
  BY DEF TypeOK
<1>2. /\ Head(channel) \in Frames /\ Head(channel) = channel[1]
      /\ Tail(channel) \in Seq(Frames) /\ Len(Tail(channel)) = Len(channel) - 1
      /\ \A i \in 1..Len(Tail(channel)) : Tail(channel)[i] = channel[i + 1]
  BY <1>1, HeadTailProperties
<1>3. Len(channel) # 0
  BY <1>1, EmptySeq
<1> QED BY <1>1, <1>2, <1>3, Numbers

(* What a broadcast does: the message was not sent before, and reaches the *)
(* viewer's channel or passes by.                                          *)
LEMMA SendEffect ==
  ASSUME TypeOK, NEW m \in Msgs, Sends(m)
  PROVE  /\ step[m] = "new" /\ AuthorReady(m)
         /\ step' \in [Msgs -> Steps] /\ step'[m] \in {"sent", "panicked"}
         /\ \A n \in Msgs : n # m => step'[n] = step[n]
         /\ UNCHANGED <<ts, clock, member, displaced, request, asked, at, his>>
         /\ UNCHANGED <<joined, current, view, switched>>
         /\ Reach(m) \/ PassBy(m)
<1>1. PICK s \in {"sent", "panicked"} : SendAs(m, s)
  BY DEF Sends, Broadcast, BroadcastStray, BroadcastPanics
<1>2. step' = [step EXCEPT ![m] = s] /\ step \in [Msgs -> Steps] /\ s \in Steps
  BY <1>1 DEF SendAs, TypeOK, Steps
<1>3. /\ step' \in [Msgs -> Steps] /\ step'[m] \in {"sent", "panicked"}
      /\ \A n \in Msgs : n # m => step'[n] = step[n]
  BY <1>2
<1>4. /\ step[m] = "new" /\ AuthorReady(m)
      /\ UNCHANGED <<ts, clock, member, displaced, request, asked, at, his>>
      /\ UNCHANGED <<joined, current, view, switched>>
  BY <1>1 DEF SendAs, entryVars, handlerVars, pageVars
<1>5. Reach(m) \/ PassBy(m)
  BY DEF Sends, Broadcast, BroadcastStray, BroadcastPanics
<1> QED BY <1>3, <1>4, <1>5

(* What the steps do to the channel: nothing, take its first frame, or     *)
(* append a message just sent, the history a query gave, or a "left".      *)
LEMMA ChannelSteps ==
  ASSUME TypeOK, [Next]_vars
  PROVE  \/ channel' = channel
         \/ channel # <<>> /\ channel' = Tail(channel)
         \/ \E f \in Frames :
              /\ channel' = Append(channel, f)
              /\ \/ f.kind = "message" /\ step[f.msg] = "new" /\ step'[f.msg] # "new"
                 \/ f.kind = "left"
                 \/ f.kind \in {"joined", "history"} /\ f.his = his
<1> DEFINE Goal ==
             \/ channel' = channel
             \/ channel # <<>> /\ channel' = Tail(channel)
             \/ \E f \in Frames :
                  /\ channel' = Append(channel, f)
                  /\ \/ f.kind = "message" /\ step[f.msg] = "new" /\ step'[f.msg] # "new"
                     \/ f.kind = "left"
                     \/ f.kind \in {"joined", "history"} /\ f.his = his
<1>1. ASSUME NEW m \in Msgs, Sends(m) PROVE Goal
  <2>1. CASE Enqueue([kind |-> "message", msg |-> m])
    <3>1. PICK f \in Frames : f = [kind |-> "message", msg |-> m]
      BY FramesMade
    <3>2. f.kind = "message" /\ f.msg = m
      BY <3>1
    <3>3. step[m] = "new" /\ step'[m] # "new"
      BY <1>1, SendEffect
    <3> QED BY <2>1, <3>1, <3>2, <3>3, EnqueueEffect
  <2> QED BY <1>1, <2>1, SendEffect DEF Reach, PassBy
<1>2. ASSUME RemoveClient PROVE Goal
  <2>1. PICK f \in Frames : f = [kind |-> "left"]
    BY FramesMade
  <2>2. f.kind = "left"
    BY <2>1
  <2>3. Enqueue(f)
    BY <1>2, <2>1 DEF RemoveClient
  <2> QED BY <2>2, <2>3, EnqueueEffect
<1>3. ASSUME Answer PROVE Goal
  <2>1. PICK k \in {"joined", "history"} :
          k = IF request = "join" THEN "joined" ELSE "history"
    OBVIOUS
  <2>2. PICK f \in Frames : f = [kind |-> k, his |-> his]
    BY FramesMade DEF TypeOK
  <2>3. f.kind = k /\ f.his = his
    BY <2>2
  <2>4. Enqueue(f)
    BY <1>3, <2>1, <2>2 DEF Answer
  <2> QED BY <2>3, <2>4, EnqueueEffect
<1>4. ASSUME OnJoined \/ OnLeft \/ OnMessage \/ OnHistory PROVE Goal
  BY <1>4 DEF OnJoined, OnLeft, OnMessage, OnHistory, Receive
<1>5. CASE UNCHANGED channel
  BY <1>5
<1> QED
  BY <1>1, <1>2, <1>3, <1>4, <1>5
     DEF Next, Sends, Stamp, Save, AddClient, Displace, QueryHistory, QueryFails, QueryWith,
         SwitchAway, SwitchBack, vars

(* Every step keeps the types.                                             *)
LEMMA TypesNext == TypeOK /\ [Next]_vars => TypeOK'
<1> SUFFICES ASSUME TypeOK, [Next]_vars PROVE TypeOK'
  OBVIOUS
<1> USE DEF Steps
<1>1. channel' \in Seq(Frames) /\ Len(channel') <= Capacity
  <2>1. CASE channel' = channel
    BY <2>1 DEF TypeOK
  <2>2. CASE channel # <<>> /\ channel' = Tail(channel)
    BY <2>2, TailEffect
  <2>3. ASSUME NEW f \in Frames, Enqueue(f) PROVE channel' \in Seq(Frames) /\ Len(channel') <= Capacity
    BY <2>3, EnqueueEffect
  <2>4. ASSUME NEW m \in Msgs, Sends(m)
        PROVE  channel' = channel \/ \E f \in Frames : Enqueue(f)
    BY <2>4, FramesMade, SendEffect DEF Reach, PassBy
  <2>5. RemoveClient => \E f \in Frames : Enqueue(f)
    BY FramesMade DEF RemoveClient
  <2>6. ASSUME Answer PROVE \E f \in Frames : Enqueue(f)
    <3>1. PICK k \in {"joined", "history"} :
            k = IF request = "join" THEN "joined" ELSE "history"
      OBVIOUS
    <3>2. Enqueue([kind |-> k, his |-> his])
      BY <2>6, <3>1 DEF Answer
    <3> QED BY <3>2, FramesMade DEF TypeOK
  <2>7. OnJoined \/ OnLeft \/ OnMessage \/ OnHistory
          => channel # <<>> /\ channel' = Tail(channel)
    BY DEF OnJoined, OnLeft, OnMessage, OnHistory, Receive
  <2> QED
    BY <2>1, <2>2, <2>3, <2>4, <2>5, <2>6, <2>7
       DEF Next, Sends, Stamp, Save, AddClient, Displace, QueryHistory, QueryFails, QueryWith,
           SwitchAway, SwitchBack, vars
<1>2. dropped' \in BOOLEAN
  BY SendEffect
     DEF TypeOK, Next, Sends, Reach, PassBy, Enqueue, Stamp, Save, AddClient, Displace,
         RemoveClient, QueryHistory, QueryFails, QueryWith, Answer, SwitchAway, SwitchBack,
         OnJoined, OnLeft, OnMessage, OnHistory, Receive, vars
<1>3. step' \in [Msgs -> Steps] /\ ts' \in [Msgs -> Nat] /\ clock' \in Nat
  <2>1. ASSUME NEW m \in Msgs, Sends(m) \/ Save(m)
        PROVE  step' \in [Msgs -> Steps] /\ UNCHANGED <<ts, clock>>
    BY <2>1, SendEffect DEF TypeOK, Save
  <2>2. ASSUME NEW m \in Msgs, Stamp(m)
        PROVE  step' \in [Msgs -> Steps] /\ ts' \in [Msgs -> Nat] /\ clock' \in Nat
    <3>1. clock' \in Nat
      BY <2>2 DEF TypeOK, Stamp
    <3> QED BY <2>2, <3>1 DEF TypeOK, Stamp
  <2>3. CASE UNCHANGED messageVars
    BY <2>3 DEF TypeOK, messageVars
  <2> QED
    BY <2>1, <2>2, <2>3
       DEF TypeOK, Next, Sends, AddClient, Displace, RemoveClient, QueryHistory, QueryFails,
           QueryWith, Answer,
           SwitchAway, SwitchBack, OnJoined, OnLeft, OnMessage, OnHistory, Receive, vars
<1>4. /\ request' \in {"none", "join", "history"}
      /\ at' \in {"idle", "query", "answer"}
      /\ his' \in Answers
  BY AnswersAreSeqs, SendEffect
     DEF TypeOK, Next, Sends, Stamp, Save, AddClient, Displace, RemoveClient, Ask, QueryHistory,
         QueryFails, QueryWith, Answer, SwitchAway, SwitchBack, OnJoined, OnLeft, OnMessage,
         OnHistory, Receive, vars, handlerVars
<1>5. asked' \in 0..MaxRequests
  <2>1. asked' = asked \/ (asked < MaxRequests /\ asked' = asked + 1)
    BY SendEffect
       DEF Next, Sends, Stamp, Save, AddClient, Displace, RemoveClient, Ask, QueryHistory,
           QueryFails, QueryWith, Answer, SwitchAway, SwitchBack, OnJoined, OnLeft, OnMessage,
           OnHistory, Receive, vars, handlerVars
  <2>2. asked \in 0..MaxRequests
    BY DEF TypeOK
  <2> QED BY <2>1, <2>2, Numbers
<1>6. {member, displaced, joined, current, switched}' \subseteq BOOLEAN
  BY SendEffect
     DEF TypeOK, Next, Sends, Stamp, Save, AddClient, Displace, RemoveClient, QueryHistory,
         QueryFails, QueryWith, Answer, SwitchAway, SwitchBack, OnJoined, OnLeft, OnMessage,
         OnHistory, Receive, vars, pageVars, entryVars
<1>7. view' \in Seq(Msgs)
  <2>1. CASE OnJoined
    <3>1. Head(channel) \in Frames /\ Head(channel).kind = "joined" /\ view' = Head(channel).his
      BY <2>1, TailEffect DEF OnJoined, Receive
    <3> QED BY <3>1, FrameParts, AnswersAreSeqs
  <2>2. CASE OnMessage
    <3>1. /\ Head(channel) \in Frames /\ Head(channel).kind = "message"
          /\ view' = Append(view, Head(channel).msg)
      BY <2>2, TailEffect DEF OnMessage, Receive
    <3>2. Head(channel).msg \in Msgs /\ view \in Seq(Msgs)
      BY <3>1, FrameParts DEF TypeOK
    <3> QED BY <3>1, <3>2, AppendProperties
  <2>3. CASE OnHistory
    <3>1. /\ Head(channel) \in Frames /\ Head(channel).kind = "history"
          /\ view' = view \o Head(channel).his
      BY <2>3, TailEffect DEF OnHistory, Receive
    <3>2. Head(channel).his \in Seq(Msgs) /\ view \in Seq(Msgs)
      BY <3>1, FrameParts, AnswersAreSeqs DEF TypeOK
    <3> QED BY <3>1, <3>2, ConcatProperties
  <2>4. CASE view' \in {view, <<>>}
    BY <2>4, AnswersAreSeqs DEF TypeOK
  <2> QED
    BY <2>1, <2>2, <2>3, <2>4, SendEffect
       DEF Next, Sends, Stamp, Save, AddClient, Displace, RemoveClient, QueryHistory,
           QueryFails, QueryWith, Answer, SwitchAway, SwitchBack, OnLeft, vars, pageVars
<1>8. missed' \subseteq Msgs
  BY SendEffect, ZenonT(40)
     DEF TypeOK, Next, Sends, Reach, PassBy, Stamp, Save, AddClient, Displace, RemoveClient,
         QueryHistory, Absent, QueryFails, QueryWith, Answer, SwitchAway, SwitchBack, OnJoined,
         OnLeft, OnMessage, OnHistory, Receive, vars
<1>9. {member, displaced, joined, current, switched, dropped}' \subseteq BOOLEAN
  BY <1>2, <1>6
<1> QED BY <1>1, <1>3, <1>4, <1>5, <1>7, <1>8, <1>9 DEF TypeOK

-----------------------------------------------------------------------------
(* Messages and time stamps.                                               *)

(* What the steps do to the messages.                                      *)
LEMMA MessageSteps ==
  ASSUME [Next]_vars
  PROVE  UNCHANGED messageVars \/ \E m \in Msgs : Sends(m) \/ Stamp(m) \/ Save(m)
BY DEF Next, Sends, AddClient, Displace, RemoveClient, QueryHistory, QueryFails, QueryWith,
       Answer, SwitchAway, SwitchBack, OnJoined, OnLeft, OnMessage, OnHistory, Receive, vars

(* A message stays sent, and stamped, with its time stamp.                 *)
LEMMA MessagesGoOn ==
  ASSUME TypeOK, [Next]_vars
  PROVE  \A m \in Msgs :
           /\ step[m] # "new" => step'[m] # "new"
           /\ Stamped(m) => Stamped(m)' /\ ts'[m] = ts[m]
<1>1. CASE UNCHANGED messageVars
  BY <1>1 DEF messageVars, Stamped
<1>2. ASSUME NEW n \in Msgs, Sends(n) \/ Stamp(n) \/ Save(n)
      PROVE  \A m \in Msgs :
               /\ step[m] # "new" => step'[m] # "new"
               /\ Stamped(m) => Stamped(m)' /\ ts'[m] = ts[m]
  BY <1>2, SendEffect DEF TypeOK, Stamp, Save, Stamped
<1> QED BY <1>1, <1>2, MessageSteps

(* Time stamps follow the clock.                                           *)
LEMMA StampsStep == TypeOK /\ StampsFine /\ [Next]_vars => StampsFine'
<1> SUFFICES ASSUME TypeOK, StampsFine, [Next]_vars PROVE StampsFine'
  OBVIOUS
<1>1. CASE UNCHANGED messageVars
  BY <1>1 DEF messageVars, StampsFine, Stamped
<1>2. ASSUME NEW m \in Msgs, Sends(m) \/ Save(m) PROVE StampsFine'
  BY <1>2, SendEffect DEF TypeOK, StampsFine, Stamped, Save
<1>3. ASSUME NEW m \in Msgs, Stamp(m) PROVE StampsFine'
  <2>1. clock \in Nat /\ clock' \in Nat \ {0} /\ clock <= clock'
    BY <1>3 DEF TypeOK, Stamp
  <2>2. /\ ts'[m] = clock' /\ step'[m] = "save"
        /\ \A n \in Msgs : n # m => ts'[n] = ts[n] /\ step'[n] = step[n]
    BY <1>3 DEF TypeOK, Stamp
  <2>3. \A n \in Msgs : ts[n] \in Nat
    BY DEF TypeOK
  <2> QED BY <2>1, <2>2, <2>3 DEF StampsFine, Stamped
<1> QED BY <1>1, <1>2, <1>3, MessageSteps

(* An author broadcasts after its earlier messages were stamped, and so    *)
(* stamps after them.                                                      *)
LEMMA AuthorsStep ==
  ASSUME TypeOK, StampsFine, AuthorsTurn, [Next]_vars
  PROVE  AuthorsTurn'
<1> SUFFICES ASSUME NEW m \in Msgs, NEW n \in Msgs,
                    n < m, author[n] = author[m], step'[m] # "new"
             PROVE  Stamped(n)' /\ (Stamped(m)' => ts'[n] <= ts'[m])
  BY DEF AuthorsTurn
<1>1. m # n
  BY Numbers
<1>2. ASSUME Stamped(n), Stamped(m) => ts[n] <= ts[m]
      PROVE  Stamped(n)' /\ (Stamped(m)' => ts'[n] <= ts'[m])
  <2>1. Stamped(n)' /\ ts'[n] = ts[n]
    BY <1>2, MessagesGoOn
  <2>2. CASE Stamped(m)
    <3>1. ts'[m] = ts[m]
      BY <2>2, MessagesGoOn
    <3> QED BY <1>2, <2>1, <2>2, <3>1
  <2>3. CASE ~Stamped(m) /\ Stamped(m)'
    <3>1. Stamp(m)
      <4>1. \E k \in Msgs : Sends(k) \/ Stamp(k) \/ Save(k)
        BY <2>3, MessageSteps DEF messageVars, Stamped
      <4> QED BY <2>3, <4>1, SendEffect DEF TypeOK, Stamped, Stamp, Save
    <3>2. ts'[m] = clock' /\ clock <= clock' /\ clock \in Nat /\ clock' \in Nat
      BY <3>1 DEF TypeOK, Stamp
    <3>3. ts[n] \in 1..clock
      BY <1>2 DEF StampsFine
    <3> QED BY <2>1, <3>2, <3>3
  <2> QED BY <2>1, <2>2, <2>3
<1>3. CASE step[m] # "new"
  BY <1>2, <1>3 DEF AuthorsTurn
<1>4. CASE step[m] = "new"
  <2>1. Sends(m)
    <3>1. \E k \in Msgs : Sends(k) \/ Stamp(k) \/ Save(k)
      BY <1>4, MessageSteps DEF messageVars
    <3> QED BY <1>4, <3>1, SendEffect DEF TypeOK, Stamp, Save
  <2>2. Stamped(n)
    BY <2>1, <1>4, SendEffect DEF AuthorReady, Stamped
  <2> QED BY <1>2, <1>4, <2>2 DEF Stamped
<1> QED BY <1>3, <1>4

(* Messages in good order stay so: of two that are exchanged both have     *)
(* their time stamp.                                                       *)
LEMMA GoodStays ==
  ASSUME TypeOK, StampsFine, AuthorsTurn, [Next]_vars
  PROVE  \A s \in Seq(Msgs) : Sent(step, Elements(s)) /\ Good(ts, s) =>
           Sent(step', Elements(s)) /\ Good(ts', s)
<1> SUFFICES ASSUME NEW s \in Seq(Msgs), Sent(step, Elements(s)), Good(ts, s)
             PROVE  Sent(step', Elements(s)) /\ Good(ts', s)
  OBVIOUS
<1>1. Sent(step', Elements(s))
  BY MessagesGoOn, ElementsOfSeq DEF Sent
<1>2. ASSUME NEW i \in DOMAIN s, NEW j \in DOMAIN s, i < j,
             author[s[i]] = author[s[j]], s[j] < s[i]
      PROVE  ts'[s[i]] = ts'[s[j]]
  <2>1. /\ s[i] \in Msgs /\ s[j] \in Msgs
        /\ step[s[i]] # "new"
        /\ ts[s[i]] = ts[s[j]]
    BY <1>2, ElementsOfSeq DEF Sent, Good
  <2>2. Stamped(s[j])
    BY <1>2, <2>1 DEF AuthorsTurn
  <2>3. ts[s[j]] # 0
    BY <2>1, <2>2 DEF StampsFine, TypeOK
  <2>4. Stamped(s[i])
    BY <2>1, <2>3 DEF StampsFine
  <2> QED BY <2>1, <2>2, <2>4, MessagesGoOn
<1>3. Good(ts', s)
  BY <1>2 DEF Good
<1> QED BY <1>1, <1>3

-----------------------------------------------------------------------------
(* The channel and the page.                                               *)

(* A message that is sent now comes after those sent before.               *)
LEMMA NewIsLater ==
  ASSUME AuthorsTurn, NEW x \in Msgs, NEW m \in Msgs, step[x] # "new", step[m] = "new"
  PROVE  Later(x, m)
BY DEF AuthorsTurn, Stamped, Later

(* A fine frame stays so.                                                  *)
LEMMA FineStays ==
  ASSUME TypeOK, StampsFine, AuthorsTurn, [Next]_vars
  PROVE  \A f \in Frames : Fine(step, ts, f) => Fine(step', ts', f)
<1> SUFFICES ASSUME NEW f \in Frames, Fine(step, ts, f) PROVE Fine(step', ts', f)
  OBVIOUS
<1>1. Sent(step', Shows(f))
  BY MessagesGoOn, FrameParts DEF Fine, Sent
<1>2. ASSUME f.kind \in {"joined", "history"} PROVE Good(ts', f.his)
  <2>1. f.his \in Seq(Msgs) /\ Shows(f) = Elements(f.his)
    BY <1>2, FrameParts, AnswersAreSeqs DEF Shows
  <2> QED BY <1>2, <2>1, GoodStays DEF Fine
<1> QED BY <1>1, <1>2 DEF Fine

(* A query finds stored messages by their time stamps, which are in the    *)
(* order of each author.                                                   *)
LEMMA HisStep ==
  ASSUME TypeOK, StampsFine, AuthorsTurn, HisFine, [Next]_vars
  PROVE  HisFine'
<1>1. Sent(step, Elements(<<>>)) /\ Good(ts, <<>>)
  BY DEF Sent, Elements, Good
<1>2. ASSUME NEW h \in Answers, Newest(h) PROVE Sent(step, Elements(h)) /\ Good(ts, h)
  <2>1. h \in Seq(Msgs) /\ Elements(h) \subseteq Stored
    BY <1>2, AnswersAreSeqs DEF Newest
  <2>2. Sent(step, Elements(h))
    BY <2>1 DEF Sent, Stored
  <2>3. ASSUME NEW i \in DOMAIN h, NEW j \in DOMAIN h, i < j
        PROVE  /\ h[i] # h[j]
               /\ author[h[i]] = author[h[j]] /\ h[j] < h[i] => ts[h[i]] = ts[h[j]]
    <3>1. h[i] # h[j] /\ ts[h[i]] <= ts[h[j]]
      BY <1>2, <2>3 DEF Newest
    <3>2. h[i] \in Msgs /\ h[j] \in Msgs /\ step[h[i]] = "stored" /\ step[h[j]] = "stored"
      BY <2>1, ElementsOfSeq DEF Stored
    <3>3. author[h[i]] = author[h[j]] /\ h[j] < h[i] => ts[h[j]] <= ts[h[i]]
      BY <3>2 DEF AuthorsTurn, Stamped
    <3>4. ts[h[i]] \in Nat /\ ts[h[j]] \in Nat
      BY <3>2 DEF TypeOK
    <3> QED BY <3>1, <3>3, <3>4
  <2> QED BY <2>2, <2>3 DEF Good
<1>3. CASE QueryHistory
  <2>1. PICK h \in Answers : Newest(h) /\ QueryWith(h)
    BY <1>3 DEF QueryHistory
  <2>2. his' = h /\ step' = step /\ ts' = ts
    BY <2>1 DEF QueryWith, messageVars
  <2> QED BY <1>2, <2>1, <2>2 DEF HisFine
<1>4. CASE his' = his
  <2>1. his \in Seq(Msgs)
    BY AnswersAreSeqs DEF TypeOK
  <2> QED BY <1>4, <2>1, GoodStays DEF HisFine
<1>5. CASE his' = <<>>
  <2>1. Sent(step', Elements(<<>>)) /\ Good(ts', <<>>)
    BY DEF Sent, Elements, Good
  <2> QED BY <1>5, <2>1 DEF HisFine
<1> QED
  BY <1>3, <1>4, <1>5, SendEffect
     DEF Next, Sends, Stamp, Save, AddClient, Displace, RemoveClient, QueryFails, QueryWith,
         Answer, SwitchAway, SwitchBack, OnJoined, OnLeft, OnMessage, OnHistory, Receive, vars,
         handlerVars

(* A frame behind the others shows later messages: a new one is later than *)
(* all that were sent, and a history clears the page or is not looked at.  *)
LEMMA ChannelStep ==
  ASSUME TypeOK, StampsFine, AuthorsTurn, HisFine, ChannelFine, [Next]_vars
  PROVE  ChannelFine'
<1>1. channel \in Seq(Frames) /\ Len(channel) \in Nat
  BY DEF TypeOK
<1>2. \A k \in 1..Len(channel) : channel[k] \in Frames /\ Fine(step', ts', channel[k])
  BY <1>1, FineStays DEF ChannelFine
<1>3. \A k, j \in 1..Len(channel) : k < j => Follows(channel[k], channel[j])
  BY DEF ChannelFine
<1>4. CASE channel' = channel
  BY <1>2, <1>3, <1>4 DEF ChannelFine
<1>5. CASE channel # <<>> /\ channel' = Tail(channel)
  <2>1. \A k \in 1..Len(channel') : k + 1 \in 1..Len(channel) /\ channel'[k] = channel[k + 1]
    BY <1>5, TailEffect
  <2>2. Len(channel') \in Nat
    BY TypesNext DEF TypeOK
  <2>3. \A k \in 1..Len(channel') : Fine(step', ts', channel'[k])
    BY <2>1, <1>2
  <2>4. ASSUME NEW k \in 1..Len(channel'), NEW j \in 1..Len(channel'), k < j
        PROVE  Follows(channel'[k], channel'[j])
    <3>1. k + 1 < j + 1
      BY <2>2, <2>4
    <3> QED BY <2>1, <3>1, <1>3
  <2> QED BY <2>3, <2>4 DEF ChannelFine
<1>6. ASSUME NEW f \in Frames, channel' = Append(channel, f),
             \/ f.kind = "message" /\ step[f.msg] = "new" /\ step'[f.msg] # "new"
             \/ f.kind = "left"
             \/ f.kind \in {"joined", "history"} /\ f.his = his
      PROVE  ChannelFine'
  <2>1. /\ Len(channel') = Len(channel) + 1 /\ channel'[Len(channel) + 1] = f
        /\ \A k \in 1..Len(channel) : channel'[k] = channel[k]
    BY <1>1, <1>6, AppendProperties
  <2>2. Fine(step', ts', f)
    <3>1. CASE f.kind = "message" /\ step'[f.msg] # "new"
      BY <3>1 DEF Fine, Shows, Sent
    <3>2. CASE f.kind = "left"
      BY <3>2 DEF Fine, Shows, Sent
    <3>3. CASE f.kind \in {"joined", "history"} /\ f.his = his
      <4>1. his \in Seq(Msgs)
        BY AnswersAreSeqs DEF TypeOK
      <4>2. Sent(step', Elements(his)) /\ Good(ts', his)
        BY <4>1, GoodStays DEF HisFine
      <4> QED BY <3>3, <4>2 DEF Fine, Shows
    <3> QED BY <1>6, <3>1, <3>2, <3>3
  <2>3. ASSUME NEW k \in 1..Len(channel) PROVE Follows(channel[k], f)
    <3> SUFFICES ASSUME f.kind = "message", NEW x \in Shows(channel[k]) PROVE Later(x, f.msg)
      BY DEF Follows
    <3>1. x \in Msgs /\ step[x] # "new"
      BY <1>2, FrameParts DEF ChannelFine, Fine, Sent
    <3>2. f.msg \in Msgs /\ step[f.msg] = "new"
      BY <1>6, FrameParts
    <3> QED BY <3>1, <3>2, NewIsLater
  <2>4. ASSUME NEW k \in 1..Len(channel') PROVE Fine(step', ts', channel'[k])
    <3>1. k \in 1..Len(channel) \/ k = Len(channel) + 1
      BY <1>1, <2>1
    <3> QED BY <2>1, <2>2, <1>2, <3>1
  <2>5. ASSUME NEW k \in 1..Len(channel'), NEW j \in 1..Len(channel'), k < j
        PROVE  Follows(channel'[k], channel'[j])
    <3>1. k \in 1..Len(channel) /\ (j \in 1..Len(channel) \/ j = Len(channel) + 1)
      BY <1>1, <2>1, <2>5
    <3> QED BY <2>1, <2>3, <2>5, <1>3, <3>1
  <2> QED BY <2>4, <2>5 DEF ChannelFine
<1> QED BY <1>4, <1>5, <1>6, ChannelSteps

(* "joined" puts the history on the page, which the frames behind it       *)
(* follow; a message is added to a page that it extends.                   *)
LEMMA ViewStep ==
  ASSUME TypeOK, StampsFine, AuthorsTurn, ChannelFine, ViewFine, [Next]_vars
  PROVE  ViewFine'
<1> SUFFICES ASSUME ~switched'
             PROVE  /\ Sent(step', Elements(view')) /\ Good(ts', view')
                    /\ \A k \in 1..Len(channel') : Extends(view', channel'[k])
  BY DEF ViewFine
<1>1. /\ channel \in Seq(Frames) /\ Len(channel) \in Nat
      /\ view \in Seq(Msgs) /\ Len(view) \in Nat
  BY DEF TypeOK
<1>2. \A k \in 1..Len(channel) : channel[k] \in Frames /\ Fine(step', ts', channel[k])
  BY <1>1, FineStays DEF ChannelFine
<1>3. CASE OnJoined
  <2>1. /\ channel # <<>> /\ channel' = Tail(channel) /\ channel[1].kind = "joined"
        /\ view' = channel[1].his /\ 1 \in 1..Len(channel)
        /\ \A k \in 1..Len(channel') : k + 1 \in 1..Len(channel) /\ channel'[k] = channel[k + 1]
    BY <1>3, TailEffect DEF OnJoined, Receive
  <2>2. Shows(channel[1]) = Elements(view') /\ Sent(step', Elements(view')) /\ Good(ts', view')
    BY <1>2, <2>1 DEF Fine, Shows
  <2>3. ASSUME NEW k \in 1..Len(channel') PROVE Extends(view', channel'[k])
    <3>1. 1 < k + 1
      OBVIOUS
    <3>2. Follows(channel[1], channel[k + 1])
      BY <2>1, <3>1 DEF ChannelFine
    <3> QED BY <2>1, <2>2, <3>2 DEF Follows, Extends
  <2> QED BY <2>2, <2>3
<1>4. CASE OnMessage
  <2>1. /\ channel # <<>> /\ channel' = Tail(channel) /\ channel[1].kind = "message"
        /\ view' = Append(view, channel[1].msg) /\ ~switched /\ 1 \in 1..Len(channel)
        /\ \A k \in 1..Len(channel') : k + 1 \in 1..Len(channel) /\ channel'[k] = channel[k + 1]
        /\ step' = step /\ ts' = ts
    BY <1>4, TailEffect DEF OnMessage, Receive, messageVars
  <2>2. PICK m \in Msgs : m = channel[1].msg
    BY <1>2, <2>1, FrameParts
  <2>3. Shows(channel[1]) = {m} /\ step[m] # "new"
    BY <1>2, <2>1, <2>2 DEF Fine, Shows, Sent
  <2>4. \A x \in Elements(view) : Later(x, m)
    BY <2>1, <2>2 DEF ViewFine, Extends
  <2>5. /\ view' \in Seq(Msgs) /\ Len(view') = Len(view) + 1
        /\ view'[Len(view) + 1] = m /\ \A i \in 1..Len(view) : view'[i] = view[i]
    BY <1>1, <2>1, <2>2, AppendProperties
  <2>6. /\ DOMAIN view = 1..Len(view) /\ DOMAIN view' = 1..(Len(view) + 1)
        /\ \A i \in 1..Len(view) : view[i] \in Elements(view)
    BY <1>1, <2>5, ElementsOfSeq
  <2>7. Elements(view') \subseteq Elements(view) \cup {m}
    <3> SUFFICES ASSUME NEW i \in 1..(Len(view) + 1)
                 PROVE  view'[i] \in Elements(view) \cup {m}
      BY <2>6 DEF Elements
    <3>1. i \in 1..Len(view) \/ i = Len(view) + 1
      BY <1>1
    <3> QED BY <2>5, <2>6, <3>1
  <2>8. Sent(step', Elements(view'))
    BY <2>1, <2>3, <2>7 DEF ViewFine, Sent
  <2>9. ASSUME NEW i \in 1..(Len(view) + 1), NEW j \in 1..(Len(view) + 1), i < j
        PROVE  /\ view'[i] # view'[j]
               /\ author[view'[i]] = author[view'[j]] /\ view'[j] < view'[i]
                    => ts'[view'[i]] = ts'[view'[j]]
    <3>1. i \in 1..Len(view) /\ (j \in 1..Len(view) \/ j = Len(view) + 1)
      BY <1>1, <2>9
    <3>2. CASE j \in 1..Len(view)
      BY <2>1, <2>5, <2>6, <2>9, <3>1, <3>2 DEF ViewFine, Good
    <3>3. CASE j = Len(view) + 1
      BY <2>4, <2>5, <2>6, <3>1, <3>3 DEF Later
    <3> QED BY <3>1, <3>2, <3>3
  <2>10. Good(ts', view')
    BY <2>6, <2>9 DEF Good
  <2>11. ASSUME NEW k \in 1..Len(channel') PROVE Extends(view', channel'[k])
    <3>1. 1 < k + 1
      OBVIOUS
    <3>2. Follows(channel[1], channel[k + 1]) /\ Extends(view, channel[k + 1])
      BY <2>1, <3>1 DEF ChannelFine, ViewFine
    <3> QED BY <2>1, <2>3, <2>7, <3>2 DEF Follows, Extends
  <2> QED BY <2>8, <2>10, <2>11
<1>5. CASE view' = view /\ switched' = switched
  <2>1. Sent(step', Elements(view)) /\ Good(ts', view)
    BY <1>1, <1>5, GoodStays DEF ViewFine
  <2>2. \A k \in 1..Len(channel) : Extends(view, channel[k])
    BY <1>5 DEF ViewFine
  <2>3. ASSUME channel # <<>>, channel' = Tail(channel)
        PROVE  \A k \in 1..Len(channel') : Extends(view, channel'[k])
    BY <2>2, <2>3, TailEffect
  <2>4. ASSUME NEW f \in Frames, channel' = Append(channel, f),
               f.kind = "message" => step[f.msg] = "new"
        PROVE  \A k \in 1..Len(channel') : Extends(view, channel'[k])
    <3>1. /\ Len(channel') = Len(channel) + 1 /\ channel'[Len(channel) + 1] = f
          /\ \A k \in 1..Len(channel) : channel'[k] = channel[k]
      BY <1>1, <2>4, AppendProperties
    <3>2. ASSUME f.kind = "message", NEW x \in Elements(view) PROVE Later(x, f.msg)
      <4>1. x \in Msgs /\ step[x] # "new"
        BY <1>1, <1>5, ElementsOfSeq DEF ViewFine, Sent
      <4>2. f.msg \in Msgs
        BY <3>2, FrameParts
      <4> QED BY <2>4, <3>2, <4>1, <4>2, NewIsLater
    <3>3. Extends(view, f)
      BY <3>2 DEF Extends
    <3> SUFFICES ASSUME NEW k \in 1..Len(channel') PROVE Extends(view, channel'[k])
      OBVIOUS
    <3>4. k \in 1..Len(channel) \/ k = Len(channel) + 1
      BY <1>1, <3>1
    <3> QED BY <2>2, <3>1, <3>3, <3>4
  <2>5. \A k \in 1..Len(channel') : Extends(view, channel'[k])
    <3>1. CASE channel' = channel
      BY <2>2, <3>1
    <3>2. CASE channel # <<>> /\ channel' = Tail(channel)
      BY <2>3, <3>2
    <3>3. ASSUME NEW f \in Frames, channel' = Append(channel, f),
                 \/ f.kind = "message" /\ step[f.msg] = "new"
                 \/ f.kind = "left"
                 \/ f.kind \in {"joined", "history"}
          PROVE  \A k \in 1..Len(channel') : Extends(view, channel'[k])
      BY <2>4, <3>3
    <3> QED BY <3>1, <3>2, <3>3, ChannelSteps
  <2> QED BY <1>5, <2>1, <2>5
<1> QED
  BY <1>3, <1>4, <1>5, SendEffect
     DEF Next, Sends, Stamp, Save, AddClient, Displace, RemoveClient, QueryHistory, QueryFails,
         QueryWith, Answer, SwitchAway, SwitchBack, OnLeft, OnHistory, vars, pageVars

-----------------------------------------------------------------------------
(* What reaches the page.                                                  *)

(* What the steps other than a broadcast leave: which messages were sent.  *)
LEMMA SentSteps ==
  ASSUME TypeOK, [Next]_vars
  PROVE  \/ \E m \in Msgs : Sends(m)
         \/ \A m \in Msgs : step'[m] # "new" => step[m] # "new"
<1>1. CASE UNCHANGED messageVars
  BY <1>1 DEF messageVars
<1>2. ASSUME NEW n \in Msgs, Stamp(n) \/ Save(n)
      PROVE  \A m \in Msgs : step'[m] # "new" => step[m] # "new"
  BY <1>2 DEF TypeOK, Stamp, Save
<1> QED BY <1>1, <1>2, MessageSteps

(* A frame at the end of a channel.                                        *)
LEMMA CoversAppend ==
  ASSUME NEW c \in Seq(Frames), NEW f \in Frames
  PROVE  /\ \A k \in 1..Len(Append(c, f)) : k \in 1..Len(c) \/ k = Len(c) + 1
         /\ Append(c, f)[Len(c) + 1] = f
         /\ \A k \in 1..Len(c) : Append(c, f)[k] = c[k]
         /\ \A k \in Nat : NoControl(Append(c, f), k) => NoControl(c, k)
         /\ \A k \in 0..Len(c) :
              f.kind \in {"joined", "left"} => ~NoControl(Append(c, f), k)
<1>1. /\ Len(Append(c, f)) = Len(c) + 1 /\ Len(c) \in Nat
      /\ Append(c, f)[Len(c) + 1] = f
      /\ \A k \in 1..Len(c) : Append(c, f)[k] = c[k]
  BY AppendProperties
<1>2. \A k \in Nat : NoControl(Append(c, f), k) => NoControl(c, k)
  BY <1>1 DEF NoControl
<1>3. ASSUME NEW k \in 0..Len(c), f.kind \in {"joined", "left"}
      PROVE  ~NoControl(Append(c, f), k)
  <2>1. Len(c) + 1 \in 1..Len(Append(c, f)) /\ Len(c) + 1 > k
    BY <1>1
  <2> QED BY <1>1, <1>3, <2>1 DEF NoControl
<1>4. \A k \in 1..Len(Append(c, f)) : k \in 1..Len(c) \/ k = Len(c) + 1
  BY <1>1
<1> QED BY <1>1, <1>2, <1>3, <1>4

(* It takes nothing away, and adds its own message.                        *)
LEMMA CoversMore ==
  ASSUME NEW c \in Seq(Frames), NEW f \in Frames, NEW st, NEW su, NEW S, NEW k \in 0..Len(c),
         Covers(st, S, c, k),
         \A m \in Msgs : su[m] # "new" =>
           st[m] # "new" \/ (f.kind = "message" /\ f.msg = m)
  PROVE  Covers(su, S, Append(c, f), k)
<1>1. /\ Len(Append(c, f)) = Len(c) + 1 /\ Len(c) \in Nat
      /\ Append(c, f)[Len(c) + 1] = f
      /\ \A j \in 1..Len(c) : Append(c, f)[j] = c[j]
  BY AppendProperties
<1>2. Len(c) + 1 \in 1..Len(Append(c, f)) /\ Len(c) + 1 > k
  BY <1>1
<1>3. \A j \in 1..Len(c) : j \in 1..Len(Append(c, f))
  BY <1>1
<1> SUFFICES ASSUME NEW m \in Msgs, su[m] # "new", m \notin S
             PROVE  \E j \in 1..Len(Append(c, f)) :
                      j > k /\ Append(c, f)[j].kind = "message" /\ Append(c, f)[j].msg = m
  BY DEF Covers
<1>4. CASE st[m] # "new"
  <2>1. PICK j \in 1..Len(c) : j > k /\ c[j].kind = "message" /\ c[j].msg = m
    BY <1>4 DEF Covers
  <2> QED BY <1>1, <1>3, <2>1
<1>5. CASE f.kind = "message" /\ f.msg = m
  BY <1>1, <1>2, <1>5
<1> QED BY <1>4, <1>5

(* Without its first frame every frame of a channel is one place nearer.   *)
LEMMA CoversTail ==
  ASSUME TypeOK, channel # <<>>, NEW k \in Nat
  PROVE  /\ NoControl(Tail(channel), k) => NoControl(channel, k + 1)
         /\ \A st, S : Covers(st, S, channel, k + 1) => Covers(st, S, Tail(channel), k)
<1>1. /\ channel \in Seq(Frames) /\ Len(channel) \in Nat
      /\ Len(Tail(channel)) = Len(channel) - 1
      /\ \A i \in 1..Len(Tail(channel)) : Tail(channel)[i] = channel[i + 1]
  BY HeadTailProperties DEF TypeOK
<1>2. ASSUME NEW j \in 1..Len(channel), j > k + 1
      PROVE  /\ j - 1 \in 1..Len(Tail(channel)) /\ j - 1 > k
             /\ Tail(channel)[j - 1] = channel[j]
  <2>1. j - 1 \in 1..Len(Tail(channel)) /\ j - 1 > k /\ (j - 1) + 1 = j
    BY <1>1, <1>2
  <2> QED BY <1>1, <2>1
<1>3. NoControl(Tail(channel), k) => NoControl(channel, k + 1)
  BY <1>2 DEF NoControl
<1>4. ASSUME NEW st, NEW S, Covers(st, S, channel, k + 1) PROVE Covers(st, S, Tail(channel), k)
  <2> SUFFICES ASSUME NEW m \in Msgs, st[m] # "new", m \notin S
               PROVE  \E j \in 1..Len(Tail(channel)) :
                 j > k /\ Tail(channel)[j].kind = "message" /\ Tail(channel)[j].msg = m
    BY DEF Covers
  <2>1. PICK j \in 1..Len(channel) :
          j > k + 1 /\ channel[j].kind = "message" /\ channel[j].msg = m
    BY <1>4 DEF Covers
  <2> QED BY <1>2, <2>1
<1> QED BY <1>3, <1>4

(* The query of a join leaves out what it calls missed; what is sent       *)
(* before the answer is added to that.                                     *)
LEMMA JoinStep ==
  ASSUME TypeOK, JoinCovered, [Next]_vars
  PROVE  JoinCovered'
<1>0. (at = "query" => request = "join")'
  BY SendEffect
     DEF JoinCovered, Next, Sends, Stamp, Save, AddClient, Displace, RemoveClient, Ask,
         QueryHistory, QueryFails, QueryWith, Answer, SwitchAway, SwitchBack, OnJoined, OnLeft,
         OnMessage, OnHistory, Receive, vars, handlerVars
<1> SUFFICES ASSUME request' = "join"
             PROVE  /\ Listed'
                    /\ at' = "answer" => Covers(step', Elements(his') \cup missed', <<>>, 0)
  BY <1>0 DEF JoinCovered
<1>1. CASE AddClient
  BY <1>1 DEF AddClient, Listed
<1>2. ASSUME NEW h \in Answers, Newest(h), QueryWith(h),
             missed' = IF request = "join" THEN Absent(h) ELSE missed
      PROVE  Listed' /\ Covers(step', Elements(h) \cup missed', <<>>, 0)
  <2>1. request = "join" /\ Listed' = Listed /\ step' = step /\ missed' = Absent(h)
    BY <1>2 DEF QueryWith, messageVars, entryVars, Listed
  <2>2. ASSUME NEW m \in Msgs, step[m] = "stored", m \notin Elements(h)
        PROVE  Len(h) = Limit /\ ts[m] <= ts[h[1]]
    <3>1. m \in Stored /\ Elements(h) # Stored
      BY <2>2 DEF Stored
    <3>2. Len(h) = Limit
      BY <1>2, <3>1 DEF Newest
    <3>3. h[1] \in Elements(h)
      BY <3>2, AnswersAreSeqs, ElementsOfSeq, Numbers
    <3> QED BY <1>2, <2>2, <3>1, <3>2, <3>3 DEF Newest
  <2>3. Covers(step, Elements(h) \cup Absent(h), <<>>, 0)
    BY <2>2 DEF Covers, Absent
  <2> QED BY <2>1, <2>3 DEF JoinCovered
<1>3. CASE QueryHistory
  <2>1. PICK h \in Answers :
          Newest(h) /\ QueryWith(h) /\ missed' = IF request = "join" THEN Absent(h) ELSE missed
    BY <1>3 DEF QueryHistory
  <2>2. his' = h
    BY <2>1 DEF QueryWith
  <2> QED BY <1>2, <2>1, <2>2
<1>4. CASE QueryFails
  BY <1>4 DEF QueryFails, QueryWith, JoinCovered, Listed, Covers, messageVars, entryVars
<1>5. ASSUME NEW m \in Msgs, Sends(m)
      PROVE  Listed' /\ (at' = "answer" => Covers(step', Elements(his') \cup missed', <<>>, 0))
  <2>1. /\ request = "join" /\ Listed /\ Listed' /\ at' = at /\ his' = his
        /\ at = "answer" => missed' = missed \cup {m}
        /\ \A n \in Msgs : n # m => step'[n] = step[n]
    BY <1>5, SendEffect DEF Reach, PassBy, JoinCovered, Listed
  <2> QED BY <2>1 DEF JoinCovered, Covers
<1>6. CASE UNCHANGED <<handlerVars, missed>> /\ (Listed => Listed') /\ ~\E m \in Msgs : Sends(m)
  BY <1>6, SentSteps DEF JoinCovered, Covers, handlerVars
<1>7. CASE Displace
  <2>1. UNCHANGED <<handlerVars, missed>> /\ Listed' /\ ~\E m \in Msgs : Sends(m)
    BY <1>7, SendEffect DEF Displace, Listed
  <2> QED BY <1>6, <2>1
<1>8. CASE UNCHANGED <<entryVars, handlerVars, missed>>
  BY <1>5, <1>6, <1>8 DEF entryVars, Listed
<1> QED
  BY <1>1, <1>3, <1>4, <1>5, <1>7, <1>8
     DEF Next, Sends, Stamp, Save, RemoveClient, Answer, Ask, SwitchAway, SwitchBack, OnJoined,
         OnLeft, OnMessage, OnHistory, Receive, vars, handlerVars

(* From the answer to a join on, what is sent comes behind it; "left" ends *)
(* the claim, and what the page takes from the channel it shows.           *)
LEMMA CoveredStep ==
  ASSUME TypeOK, JoinCovered, ViewCovered, [Next]_vars
  PROVE  ViewCovered'
<1> DEFINE Coming ==
             \A k \in 1..Len(channel) : channel[k].kind = "joined" /\ NoControl(channel, k) =>
               Listed /\ Covers(step, Elements(channel[k].his) \cup missed, channel, k)
           Shown ==
             joined /\ ~switched /\ NoControl(channel, 0) =>
               Listed /\ Covers(step, Elements(view) \cup missed, channel, 0)
           Coming1 ==
             \A k \in 1..Len(channel') : channel'[k].kind = "joined" /\ NoControl(channel', k) =>
               Listed' /\ Covers(step', Elements(channel'[k].his) \cup missed', channel', k)
           Shown1 ==
             joined' /\ ~switched' /\ NoControl(channel', 0) =>
               Listed' /\ Covers(step', Elements(view') \cup missed', channel', 0)
<1> SUFFICES ASSUME ~dropped', request' # "join" PROVE Coming1 /\ Shown1
  BY DEF ViewCovered
<1>1. ~dropped
  BY SendEffect
     DEF TypeOK, Next, Sends, Reach, PassBy, Enqueue, Stamp, Save, AddClient, Displace,
         RemoveClient, QueryHistory, QueryFails, QueryWith, Answer, SwitchAway, SwitchBack,
         OnJoined, OnLeft, OnMessage, OnHistory, Receive, vars
<1>2. request # "join" => Coming /\ Shown
  BY <1>1 DEF ViewCovered
<1>3. channel \in Seq(Frames) /\ Len(channel) \in Nat
  BY DEF TypeOK
<1>4. ASSUME NEW m \in Msgs, Sends(m) PROVE Coming1 /\ Shown1
  <2>1. /\ request # "join" /\ at # "query" /\ Listed' = Listed
        /\ joined' = joined /\ switched' = switched /\ view' = view
        /\ \A n \in Msgs : n # m => step'[n] = step[n]
    BY <1>4, SendEffect DEF JoinCovered, Listed
  <2>2. CASE PassBy(m)
    <3>1. channel' = channel /\ (Listed => missed' = missed \cup {m})
      BY <2>1, <2>2 DEF PassBy, Listed
    <3>2. ASSUME NEW S, NEW k, Listed, Covers(step, S \cup missed, channel, k)
          PROVE  Covers(step', S \cup missed', channel, k)
      BY <2>1, <3>1, <3>2 DEF Covers
    <3> QED BY <1>2, <2>1, <3>1, <3>2
  <2>3. CASE Reach(m)
    <3>1. PICK f \in Frames : f = [kind |-> "message", msg |-> m]
      BY FramesMade
    <3>2. f.kind = "message" /\ f.msg = m
      BY <3>1
    <3>3. channel' = Append(channel, f) /\ missed' = missed
      BY <2>1, <2>3, <3>1 DEF Reach, Enqueue
    <3>4. \A n \in Msgs : step'[n] # "new" =>
            step[n] # "new" \/ (f.kind = "message" /\ f.msg = n)
      BY <2>1, <3>2
    <3>5. ASSUME NEW k \in 1..Len(channel'), channel'[k].kind = "joined",
                 NoControl(channel', k)
          PROVE  Listed' /\ Covers(step', Elements(channel'[k].his) \cup missed', channel', k)
      <4>1. k \in 1..Len(channel) /\ channel'[k] = channel[k] /\ NoControl(channel, k)
        BY <1>3, <3>2, <3>3, <3>5, CoversAppend
      <4>2. k \in 0..Len(channel)
        BY <1>3, <4>1
      <4>3. Listed /\ Covers(step, Elements(channel[k].his) \cup missed, channel, k)
        BY <1>2, <2>1, <3>5, <4>1
      <4>4. Covers(step', Elements(channel[k].his) \cup missed, Append(channel, f), k)
        BY <1>3, <3>4, <4>2, <4>3, CoversMore
      <4> QED BY <2>1, <3>3, <4>1, <4>3, <4>4
    <3>6. ASSUME joined', ~switched', NoControl(channel', 0)
          PROVE  Listed' /\ Covers(step', Elements(view') \cup missed', channel', 0)
      <4>1. Listed /\ Covers(step, Elements(view) \cup missed, channel, 0) /\ 0 \in 0..Len(channel)
        BY <1>2, <1>3, <2>1, <3>3, <3>6, CoversAppend
      <4>2. Covers(step', Elements(view) \cup missed, Append(channel, f), 0)
        BY <1>3, <3>4, <4>1, CoversMore
      <4> QED BY <2>1, <3>3, <4>1, <4>2
    <3> QED BY <3>5, <3>6
  <2> QED BY <1>4, <2>2, <2>3, SendEffect
<1>5. CASE RemoveClient
  <2>1. PICK f \in Frames : f = [kind |-> "left"] /\ f.kind = "left"
    BY FramesMade
  <2>2. channel' = Append(channel, f)
    BY <1>5, <2>1 DEF RemoveClient, Enqueue
  <2>3. \A k \in 0..Len(channel) : ~NoControl(channel', k)
    BY <1>3, <2>1, <2>2, CoversAppend
  <2>4. \A k \in 1..Len(channel') : k \in 1..Len(channel) \/ channel'[k].kind # "joined"
    BY <1>3, <2>1, <2>2, CoversAppend
  <2> QED BY <1>3, <2>3, <2>4
<1>6. CASE Answer
  <2>1. /\ at = "answer" /\ step' = step /\ missed' = missed /\ Listed' = Listed
        /\ joined' = joined /\ switched' = switched /\ view' = view
    BY <1>6 DEF Answer, messageVars, entryVars, Listed, pageVars
  <2>2. PICK a \in {"joined", "history"} :
          a = IF request = "join" THEN "joined" ELSE "history"
    OBVIOUS
  <2>3. PICK f \in Frames : f = [kind |-> a, his |-> his]
    BY FramesMade DEF TypeOK
  <2>4. f.kind = a /\ f.his = his
    BY <2>3
  <2>5. channel' = Append(channel, f)
    BY <1>6, <2>2, <2>3 DEF Answer, Enqueue
  <2>6. CASE request = "join"
    <3>1. \A k \in 0..Len(channel) : ~NoControl(channel', k)
      BY <1>3, <2>2, <2>4, <2>5, <2>6, CoversAppend
    <3>2. \A k \in 1..Len(channel') : k \in 1..Len(channel) \/ channel'[k].his = his
      BY <1>3, <2>4, <2>5, CoversAppend
    <3>3. Listed /\ \A m \in Msgs : step[m] # "new" => m \in Elements(his) \cup missed
      BY <2>1, <2>6 DEF JoinCovered, Covers
    <3> QED BY <1>3, <2>1, <3>1, <3>2, <3>3 DEF Covers
  <2>7. CASE request # "join"
    <3>1. \A m \in Msgs : step'[m] # "new" =>
            step[m] # "new" \/ (f.kind = "message" /\ f.msg = m)
      BY <2>1
    <3>2. ASSUME NEW k \in 1..Len(channel'), channel'[k].kind = "joined",
                 NoControl(channel', k)
          PROVE  Listed' /\ Covers(step', Elements(channel'[k].his) \cup missed', channel', k)
      <4>1. k \in 1..Len(channel) /\ channel'[k] = channel[k] /\ NoControl(channel, k)
        BY <1>3, <2>2, <2>4, <2>5, <2>7, <3>2, CoversAppend
      <4>2. k \in 0..Len(channel)
        BY <1>3, <4>1
      <4>3. Listed /\ Covers(step, Elements(channel[k].his) \cup missed, channel, k)
        BY <1>2, <2>7, <3>2, <4>1
      <4>4. Covers(step', Elements(channel[k].his) \cup missed, Append(channel, f), k)
        BY <1>3, <3>1, <4>2, <4>3, CoversMore
      <4> QED BY <2>1, <2>5, <4>1, <4>3, <4>4
    <3>3. ASSUME joined', ~switched', NoControl(channel', 0)
          PROVE  Listed' /\ Covers(step', Elements(view') \cup missed', channel', 0)
      <4>1. Listed /\ Covers(step, Elements(view) \cup missed, channel, 0) /\ 0 \in 0..Len(channel)
        BY <1>2, <1>3, <2>1, <2>5, <2>7, <3>3, CoversAppend
      <4>2. Covers(step', Elements(view) \cup missed, Append(channel, f), 0)
        BY <1>3, <3>1, <4>1, CoversMore
      <4> QED BY <2>1, <2>5, <4>1, <4>2
    <3> QED BY <3>2, <3>3
  <2> QED BY <2>6, <2>7
<1>7. CASE OnJoined \/ OnLeft \/ OnMessage \/ OnHistory
  <2>1. /\ channel # <<>> /\ channel' = Tail(channel) /\ request # "join"
        /\ step' = step /\ missed' = missed /\ Listed' = Listed
    BY <1>7
       DEF OnJoined, OnLeft, OnMessage, OnHistory, Receive, messageVars, entryVars, Listed,
           handlerVars
  <2>2. /\ 1 \in 1..Len(channel) /\ Head(channel) = channel[1] /\ channel[1] \in Frames
        /\ \A k \in 1..Len(channel') : k + 1 \in 1..Len(channel) /\ channel'[k] = channel[k + 1]
    BY <2>1, TailEffect
  <2>3. Coming1
    <3> SUFFICES ASSUME NEW k \in 1..Len(channel'), channel'[k].kind = "joined",
                        NoControl(channel', k)
                 PROVE  Listed' /\ Covers(step', Elements(channel'[k].his) \cup missed', channel', k)
      OBVIOUS
    <3>1. k \in Nat /\ k + 1 \in 1..Len(channel) /\ channel'[k] = channel[k + 1]
      BY <2>2
    <3>2. NoControl(channel, k + 1)
      BY <2>1, <3>1, CoversTail
    <3>3. Listed /\ Covers(step, Elements(channel[k + 1].his) \cup missed, channel, k + 1)
      BY <1>2, <2>1, <3>1, <3>2
    <3> QED BY <2>1, <3>1, <3>3, CoversTail
  <2>4. CASE OnJoined
    <3> SUFFICES ASSUME NoControl(channel', 0)
                 PROVE  Listed' /\ Covers(step', Elements(view') \cup missed', channel', 0)
      BY <2>3
    <3>1. channel[1].kind = "joined" /\ view' = channel[1].his
      BY <2>2, <2>4 DEF OnJoined, Receive
    <3>2. NoControl(channel, 0 + 1)
      BY <2>1, CoversTail
    <3>3. Listed /\ Covers(step, Elements(view') \cup missed, channel, 0 + 1)
      BY <1>2, <2>1, <2>2, <3>1, <3>2
    <3> QED BY <2>1, <3>3, CoversTail
  <2>5. CASE OnMessage
    <3> SUFFICES ASSUME joined', ~switched', NoControl(channel', 0)
                 PROVE  Listed' /\ Covers(step', Elements(view') \cup missed', channel', 0)
      BY <2>3
    <3>1. /\ channel[1].kind = "message" /\ view' = Append(view, channel[1].msg)
          /\ joined /\ ~switched
      BY <2>2, <2>5 DEF OnMessage, Receive
    <3>2. NoControl(channel, 0)
      <4>1. NoControl(channel, 0 + 1)
        BY <2>1, CoversTail
      <4> QED BY <3>1, <4>1 DEF NoControl
    <3>3. Listed /\ Covers(step, Elements(view) \cup missed, channel, 0)
      BY <1>2, <2>1, <3>1, <3>2
    <3>4. Elements(view) \cup {channel[1].msg} \subseteq Elements(view')
      <4>1. channel[1].msg \in Msgs /\ view \in Seq(Msgs)
        BY <2>2, <3>1, FrameParts DEF TypeOK
      <4>2. /\ view' \in Seq(Msgs) /\ Len(view') = Len(view) + 1 /\ Len(view) \in Nat
            /\ view'[Len(view) + 1] = channel[1].msg
            /\ \A i \in 1..Len(view) : view'[i] = view[i]
        BY <3>1, <4>1, AppendProperties
      <4>3. DOMAIN view = 1..Len(view) /\ \A i \in 1..Len(view') : view'[i] \in Elements(view')
        BY <4>1, <4>2, ElementsOfSeq
      <4>4. Len(view) + 1 \in 1..Len(view') /\ \A i \in 1..Len(view) : i \in 1..Len(view')
        BY <4>2
      <4> QED BY <4>2, <4>3, <4>4 DEF Elements
    <3>5. Covers(step, Elements(view') \cup missed, channel, 0 + 1)
      BY <3>1, <3>3, <3>4 DEF Covers
    <3> QED BY <2>1, <3>3, <3>5, CoversTail
  <2>6. CASE OnLeft \/ OnHistory
    BY <2>3, <2>6 DEF OnLeft, OnHistory
  <2> QED BY <1>7, <2>4, <2>5, <2>6
<1>8. ASSUME \/ \E m \in Msgs : Stamp(m) \/ Save(m)
             \/ QueryHistory \/ QueryFails \/ SwitchAway \/ SwitchBack
             \/ UNCHANGED vars
      PROVE  Coming1 /\ Shown1
  <2>1. UNCHANGED <<channel, joined>> /\ Listed' = Listed
    BY <1>8
       DEF entryVars, Listed, Stamp, Save, QueryHistory, QueryFails, QueryWith, SwitchAway,
           SwitchBack, vars, pageVars
  <2>2. request # "join" /\ missed' = missed /\ (~switched' => ~switched /\ view' = view)
    BY <1>8
       DEF Stamp, Save, QueryHistory, QueryFails, QueryWith, SwitchAway, SwitchBack, Ask, vars,
           handlerVars, pageVars
  <2>3. \A m \in Msgs : step'[m] # "new" => step[m] # "new"
    BY <1>8
       DEF TypeOK, Stamp, Save, QueryHistory, QueryFails, QueryWith, SwitchAway, SwitchBack,
           vars, messageVars
  <2> QED BY <1>2, <2>1, <2>2, <2>3 DEF Covers
<1>9. CASE AddClient
  BY <1>9 DEF AddClient
<1>10. CASE Displace
  <2>1. /\ UNCHANGED <<step, channel, joined, switched, view, request, missed>>
        /\ Listed /\ Listed'
    BY <1>10 DEF Displace, Listed, messageVars, handlerVars, pageVars
  <2> QED BY <1>2, <2>1
<1> QED BY <1>4, <1>5, <1>6, <1>7, <1>8, <1>9, <1>10 DEF Next, Sends

-----------------------------------------------------------------------------
(* The theorems.                                                           *)

(* Nothing was sent, asked or shown at the start.                          *)
LEMMA InitIInv == Init => IInv
<1> SUFFICES ASSUME Init PROVE IInv
  OBVIOUS
<1>1. <<>> \in Seq(Frames) /\ <<>> \in Seq(Msgs) /\ Len(<<>>) = 0
  OBVIOUS
<1>2. TypeOK
  <2>1. step \in [Msgs -> Steps] /\ ts \in [Msgs -> Nat] /\ clock \in Nat
    BY DEF Init, Steps
  <2>2. {member, displaced, joined, current, switched, dropped} \subseteq BOOLEAN
    BY DEF Init
  <2>3. asked \in 0..MaxRequests /\ channel \in Seq(Frames) /\ Len(channel) <= Capacity
    BY <1>1, Numbers DEF Init
  <2>4. request = "none" /\ at = "idle" /\ his \in Answers /\ view \in Seq(Msgs) /\ missed = {}
    BY <1>1, AnswersAreSeqs DEF Init
  <2> QED BY <2>1, <2>2, <2>3, <2>4 DEF TypeOK
<1>3. StampsFine /\ AuthorsTurn
  BY DEF Init, StampsFine, AuthorsTurn, Stamped
<1>4. HisFine
  BY DEF Init, HisFine, Sent, Elements, Good
<1>5. ChannelFine
  BY <1>1 DEF Init, ChannelFine
<1>6. ViewFine
  BY <1>1 DEF Init, ViewFine, Sent, Elements, Good
<1>7. JoinCovered /\ ViewCovered
  BY <1>1 DEF Init, JoinCovered, ViewCovered
<1> QED BY <1>2, <1>3, <1>4, <1>5, <1>6, <1>7 DEF IInv

(* Every step keeps the invariant.                                         *)
LEMMA NextIInv == IInv /\ [Next]_vars => IInv'
BY TypesNext, StampsStep, AuthorsStep, HisStep, ChannelStep, ViewStep, JoinStep, CoveredStep
   DEF IInv

(* Types (TypeOK): of the messages, the viewer's handler, its channel and  *)
(* its page; the channel never holds more than its buffer.                 *)
THEOREM TypeCorrect == Spec => []TypeOK
<1>1. Init => TypeOK
  BY InitIInv DEF IInv
<1> QED BY <1>1, TypesNext, PTL DEF Spec

(* NoDuplicates: a page that joined a room shows no message twice, though  *)
(* one that was sent during the join comes live and in the history         *)
(* (HandleWS's "send" and "join", app.js's "joined" and "message").        *)
THEOREM ShownOnce == Spec => []NoDuplicates
<1>1. IInv => NoDuplicates
  <2> SUFFICES ASSUME TypeOK, ViewFine, ~switched, NEW i \in DOMAIN view, NEW j \in DOMAIN view,
                      view[i] = view[j]
               PROVE  i = j
    BY DEF IInv, NoDuplicates
  <2>1. i \in Nat /\ j \in Nat
    BY ElementsOfSeq DEF TypeOK
  <2>2. ~(i < j) /\ ~(j < i)
    BY DEF ViewFine, Good
  <2> QED BY <2>1, <2>2
<1> QED BY <1>1, InitIInv, NextIInv, PTL DEF Spec

(* AuthorsInOrder: a page that joined a room shows the messages of one     *)
(* author as they were sent, except those of one millisecond, although     *)
(* their saves overtake each other (HandleWS's "send", QueryHistory).      *)
THEOREM ShownInOrder == Spec => []AuthorsInOrder
<1>1. IInv => AuthorsInOrder
  BY DEF IInv, ViewFine, Good, AuthorsInOrder
<1> QED BY <1>1, InitIInv, NextIInv, PTL DEF Spec

(* ViewComplete: once all has arrived, a page that joined shows every      *)
(* message sent, unless it is one of `missed` (see ViewComplete: not yet   *)
(* saved, too old, a failed query, an entry lost or a Room removed, a      *)
(* panic in broadcast) or the channel overflowed (HandleWS's "join",       *)
(* "send" and "leave", QueryHistory).                                      *)
THEOREM NothingElseMissed == Spec => []ViewComplete
<1>1. IInv => ViewComplete
  <2> SUFFICES ASSUME IInv, Settled, joined, ~switched, ~dropped, NEW m \in Msgs, step[m] # "new"
               PROVE  m \in Elements(view) \cup missed
    BY DEF ViewComplete
  <2>1. Len(channel) = 0
    BY DEF Settled
  <2>2. request # "join" /\ NoControl(channel, 0)
    BY <2>1 DEF Settled, NoControl
  <2>3. Covers(step, Elements(view) \cup missed, channel, 0)
    BY <2>2 DEF IInv, ViewCovered
  <2> QED BY <2>1, <2>3 DEF Covers
<1> QED BY <1>1, InitIInv, NextIInv, PTL DEF Spec
=============================================================================
