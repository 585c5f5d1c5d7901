------------------------------- MODULE Pump -------------------------------
(***************************************************************************)
(* One WebSocket connection: the three goroutines of HandleWS              *)
(* (ws_handle.go), the handler itself, the write goroutine and the ping    *)
(* goroutine, with the send channel, the deadlines and the timers that tie *)
(* them together.  What the handler does to the shared registries is in    *)
(* the module Gateway; here a request only takes time.                     *)
(*                                                                         *)
(* Time advances in units by Tick.  A goroutine that can run does so well  *)
(* within a unit: Tick waits until no goroutine is ready.  What takes time *)
(* is a write to the socket, the work on a request, the way of a pong and  *)
(* the three timers.                                                       *)
(*                                                                         *)
(* External, from how HandleWS uses it: gorilla/websocket allows one       *)
(* writer at a time and panics when WriteMessage is called while another   *)
(* call is in progress; after a failed write all further ones fail; a pong *)
(* handler runs inside ReadMessage.  A panic outside HandleWS's own        *)
(* goroutine is recovered by nobody and ends the process.                  *)
(***************************************************************************)
EXTENDS Integers

CONSTANTS
  ReadTimeout,   (* read deadline: 60 s                                     *)
  PingPeriod,    (* ticker of the ping goroutine: 30 s                      *)
  WriteTimeout,  (* write deadline: 10 s                                    *)
  CloseWait,     (* wait for the write goroutine: 12 s                      *)
  RequestTime,   (* longest time of those calls of one request, or of the   *)
                 (* clean-up, that have a timeout: an auth's Validate and   *)
                 (* its pull of undelivered messages, 3 s each              *)
  MaxBacklog,    (* requests a peer has under way ahead of a pong, or of    *)
                 (* the end of the connection                               *)
  PongDelay,     (* longest round trip to a responsive peer                 *)
  Capacity       (* buffer of the send channel: 256                         *)

ASSUME PumpAssumption ==
  /\ {ReadTimeout, PingPeriod, WriteTimeout, CloseWait, RequestTime, Capacity}
       \subseteq Nat \ {0}
  /\ {MaxBacklog, PongDelay} \subseteq Nat
  /\ PingPeriod + WriteTimeout + PongDelay + (MaxBacklog + 1) * RequestTime
       < ReadTimeout

VARIABLES
  handler,    (* "read", "busy", "cleanup", "wait", "returned"; all three   *)
              (* goroutines are "dead" when the process is                  *)
  work,       (* units the calls with a timeout may still take              *)
  deadline,   (* units to the read deadline; 0 once the socket is closed    *)
  waiting,    (* units to the end of time.After in the final select         *)
  writer,     (* "idle" in the range loop, "writing", "ended"               *)
  pinger,     (* "select", "writing", "ended"                               *)
  writeLeft,  (* units to the write deadline of the write in progress       *)
  ticker,     (* units to the next tick                                     *)
  ticked,     (* a tick is in ticker.C, which holds one                     *)
  buffer,     (* frames in sendCh                                           *)
  sendClosed, (* close(sendCh)                                              *)
  pingDone,   (* close(pingDone)                                            *)
  open,       (* the socket is open                                         *)
  unread,     (* frames that ReadMessage may return although it is closed   *)
  broken,     (* a write failed: the Conn refuses all further writes        *)
  peer,       (* "up": reads and answers in time; "failed"                  *)
  pong,       (* "none", "way" or "arrived" in the socket                   *)
  pongLeft,   (* units a responsive peer's pong may still take              *)
  ahead,      (* frames before the pong in the socket                       *)
  expired,    (* history: the read loop ended by the deadline               *)
  stalled,    (* history: since the last pong a call without a timeout kept *)
              (* the handler longer than RequestTime                        *)
  gone        (* history: units since the connection was lost, while any of *)
              (* its goroutines is left                                     *)

handlerVars == <<handler, work, deadline, waiting, expired, stalled>>
writeVars == <<writer, pinger, writeLeft, broken>>
tickVars == <<ticker, ticked, gone>>
chanVars == <<buffer, sendClosed, pingDone>>
peerVars == <<peer, pong, pongLeft, ahead>>
connVars == <<open, unread>>
vars == <<handlerVars, writeVars, tickVars, chanVars, connVars, peerVars>>

(* The longest way from the loss to the end of HandleWS: a request, those  *)
(* already read from the socket, the clean-up, and the wait for the write  *)
(* goroutine.                                                              *)
EndTime == (MaxBacklog + 2) * RequestTime + CloseWait

(* BOUND: it need not count further than the times it is compared to.      *)
MaxGone == EndTime + PingPeriod + 1

TypeOK ==
  /\ handler \in {"read", "busy", "cleanup", "wait", "returned", "dead"}
  /\ work \in 0..RequestTime
  /\ deadline \in 0..ReadTimeout
  /\ waiting \in 0..CloseWait
  /\ writer \in {"idle", "writing", "ended", "dead"}
  /\ pinger \in {"select", "writing", "ended", "dead"}
  /\ writeLeft \in 0..WriteTimeout
  /\ ticker \in 1..PingPeriod
  /\ buffer \in 0..Capacity
  /\ peer \in {"up", "failed"}
  /\ pong \in {"none", "way", "arrived"}
  /\ pongLeft \in 0..PongDelay
  /\ ahead \in 0..MaxBacklog
  /\ unread \in 0..MaxBacklog
  /\ gone \in 0..MaxGone
  /\ {ticked, sendClosed, pingDone, open, broken, expired, stalled} \subseteq BOOLEAN

Init ==
  /\ handler = "read" /\ work = 0 /\ waiting = 0
  /\ deadline = ReadTimeout
  /\ writer = "idle" /\ pinger = "select" /\ writeLeft = 0
  /\ ticker = PingPeriod /\ ticked = FALSE
  /\ buffer = 0 /\ sendClosed = FALSE /\ pingDone = FALSE
  /\ open = TRUE /\ unread = 0 /\ broken = FALSE
  /\ peer = "up" /\ pong = "none" /\ pongLeft = 0 /\ ahead = 0
  /\ expired = FALSE /\ stalled = FALSE /\ gone = 0

-----------------------------------------------------------------------------
(* The handler.                                                            *)

(* The socket is closed: its deadline and what is under way to it are gone.*)
Closed ==
  /\ open' = FALSE
  /\ deadline' = 0
  /\ pong' = "none" /\ pongLeft' = 0 /\ ahead' = 0

(* Mutant: the pong handler does not move the deadline.                    *)
ReadPong_NoReset ==
  /\ handler = "read" /\ pong = "arrived" /\ ahead = 0 /\ open
  /\ pong' = "none"
  /\ UNCHANGED <<handlerVars, writeVars, tickVars, chanVars, connVars, peer, pongLeft, ahead>>

(* ReadMessage meets a pong and calls the pong handler; it goes on reading.*)
ReadPong ==
  /\ handler = "read" /\ pong = "arrived" /\ ahead = 0 /\ open
  /\ pong' = "none"
  /\ deadline' = ReadTimeout
  /\ stalled' = FALSE
  /\ UNCHANGED <<handler, work, waiting, expired, writeVars, tickVars, chanVars,
                 connVars, peer, pongLeft, ahead>>

(* ReadMessage returns a frame, in the order of the stream; the deadline   *)
(* stays where it is.  Frames in the read buffer come also from a closed   *)
(* socket.                                                                 *)
ReadFrame ==
  /\ handler = "read"
  /\ \/ open /\ deadline > 0 /\ pong # "arrived" /\ UNCHANGED <<ahead, unread>>
     \/ open /\ deadline > 0 /\ pong = "arrived" /\ UNCHANGED unread
        /\ ahead > 0 /\ ahead' = ahead - 1
     \/ ~open /\ unread > 0 /\ unread' = unread - 1 /\ UNCHANGED ahead
  /\ handler' = "busy"
  /\ work' = RequestTime
  /\ UNCHANGED <<deadline, waiting, expired, stalled, writeVars, tickVars, chanVars, open,
                 peer, pong, pongLeft>>

(* A call without a timeout is not back yet: the role query of an auth, a  *)
(* SET of the presence keys at an auth or a ping, the DEL or SET of the    *)
(* clean-up, all on context.Background().  It may go on for any time.      *)
Stall ==
  /\ handler \in {"busy", "cleanup"} /\ work = 0
  /\ work' = 1
  /\ stalled' = TRUE
  /\ UNCHANGED <<handler, deadline, waiting, expired, writeVars, tickVars,
                 chanVars, connVars, peerVars>>

(* The request is done and its answer went to the handler's own channel,   *)
(* or was dropped because the channel is full.                             *)
RequestDone ==
  /\ handler = "busy"
  /\ handler' = "read" /\ work' = 0
  /\ buffer' \in {buffer, IF buffer < Capacity THEN buffer + 1 ELSE buffer}
  /\ UNCHANGED <<deadline, waiting, expired, stalled, writeVars, tickVars,
                 sendClosed, pingDone, connVars, peerVars>>

(* Mutant: HandleWS without `defer close(sendCh)`.                         *)
Deferred_NoClose == Closed /\ UNCHANGED <<sendClosed, unread>>

(* The deferred close(sendCh), then conn.Close().                          *)
Deferred == sendClosed' = TRUE /\ Closed /\ UNCHANGED unread

(* The request panics (a send to another connection's closed channel):     *)
(* only the deferred calls run, pingDone stays open.                       *)
RequestPanics ==
  /\ handler = "busy"
  /\ handler' = "returned" /\ work' = 0
  /\ Deferred
  /\ UNCHANGED <<waiting, expired, stalled, writeVars, tickVars, buffer, pingDone,
                 peer>>

(* ReadMessage fails; close(pingDone) and the clean-up of the registries.  *)
ReadFails ==
  /\ handler = "read"
  /\ ~open \/ deadline = 0
  /\ handler' = "cleanup" /\ work' = RequestTime
  /\ expired' = open
  /\ pingDone' = TRUE
  /\ UNCHANGED <<deadline, waiting, stalled, writeVars, tickVars, buffer,
                 sendClosed, connVars, peerVars>>

CleanUpDone ==
  /\ handler = "cleanup"
  /\ handler' = "wait" /\ work' = 0
  /\ waiting' = CloseWait
  /\ UNCHANGED <<deadline, expired, stalled, writeVars, tickVars, chanVars, connVars,
                 peerVars>>

(* The final select: `done` is closed when the write goroutine ends.       *)
Return ==
  /\ handler = "wait"
  /\ writer = "ended" \/ waiting = 0
  /\ handler' = "returned"
  /\ Deferred
  /\ UNCHANGED <<work, waiting, expired, stalled, writeVars, tickVars, buffer,
                 pingDone, peer>>

-----------------------------------------------------------------------------
(* The two goroutines that write.                                          *)

(* WriteMessage is called while the other goroutine is inside it: the      *)
(* panic ends the process and its sockets.                                 *)
Crash ==
  /\ handler' = "dead" /\ writer' = "dead" /\ pinger' = "dead"
  /\ work' = 0 /\ waiting' = 0
  /\ Closed
  /\ UNCHANGED <<writeLeft, broken, unread>>

(* The range loop takes a frame and starts to write it.                    *)
WriterTake ==
  /\ writer = "idle" /\ buffer > 0
  /\ buffer' = buffer - 1
  /\ \/ pinger = "writing" /\ Crash
     \/ /\ pinger # "writing"
        /\ writer' = "writing" /\ writeLeft' = WriteTimeout
        /\ UNCHANGED <<handler, work, deadline, waiting, pinger, broken, connVars,
                       pong, pongLeft, ahead>>
  /\ UNCHANGED <<expired, stalled, tickVars, sendClosed, pingDone, peer>>

WriterOK ==
  /\ writer = "writing" /\ open /\ ~broken
  /\ writer' = "idle" /\ writeLeft' = 0
  /\ UNCHANGED <<pinger, broken, handlerVars, tickVars, chanVars, connVars,
                 peerVars>>

(* A write can fail: the socket is closed, the Conn refuses, or the peer   *)
(* does not take the data before the write deadline.                       *)
WriteMayFail == ~open \/ broken \/ peer = "failed"

WriterFails ==
  /\ writer = "writing" /\ WriteMayFail
  /\ writer' = "ended" /\ writeLeft' = 0 /\ broken' = TRUE
  /\ UNCHANGED <<pinger, handlerVars, tickVars, chanVars, connVars, peerVars>>

(* The range loop ends: the channel is closed and drained.                 *)
WriterEnds ==
  /\ writer = "idle" /\ sendClosed /\ buffer = 0
  /\ writer' = "ended"
  /\ UNCHANGED <<pinger, writeLeft, broken, handlerVars, tickVars,
                 chanVars, connVars, peerVars>>

PingerTake ==
  /\ pinger = "select" /\ ticked
  /\ ticked' = FALSE
  /\ \/ writer = "writing" /\ Crash
     \/ /\ writer # "writing"
        /\ pinger' = "writing" /\ writeLeft' = WriteTimeout
        /\ UNCHANGED <<handler, work, deadline, waiting, writer, broken, connVars,
                       pong, pongLeft, ahead>>
  /\ UNCHANGED <<expired, stalled, ticker, gone, chanVars, peer>>

(* The ping is out; the peer's pong is on its way.  The pong of a ping     *)
(* that was sent while another's is outstanding is left out: it could only *)
(* move the deadline once more.                                            *)
PingerOK ==
  /\ pinger = "writing" /\ open /\ ~broken
  /\ pinger' = "select" /\ writeLeft' = 0
  /\ IF pong = "none" THEN pong' = "way" /\ pongLeft' = PongDelay
                      ELSE UNCHANGED <<pong, pongLeft>>
  /\ UNCHANGED <<writer, broken, handlerVars, tickVars, chanVars, connVars,
                 peer, ahead>>

(* The deferred ticker.Stop().                                             *)
Stop == ticker' = PingPeriod /\ ticked' = FALSE

(* Mutant: the ping goroutine goes on after a failed ping.                 *)
PingerFails_GoesOn ==
  /\ pinger = "writing" /\ WriteMayFail
  /\ pinger' = "select" /\ writeLeft' = 0 /\ broken' = TRUE
  /\ UNCHANGED <<writer, handlerVars, tickVars, chanVars, connVars, peerVars>>

PingerFails ==
  /\ pinger = "writing" /\ WriteMayFail
  /\ pinger' = "ended" /\ writeLeft' = 0 /\ broken' = TRUE
  /\ Stop
  /\ UNCHANGED <<writer, handlerVars, gone, chanVars, connVars, peerVars>>

PingerEnds ==
  /\ pinger = "select" /\ pingDone
  /\ pinger' = "ended"
  /\ Stop
  /\ UNCHANGED <<writer, writeLeft, broken, handlerVars, gone, chanVars, connVars,
                 peerVars>>

-----------------------------------------------------------------------------
(* The surroundings.                                                       *)

(* Mutant: the frame is kept although the channel is full.                 *)
Enqueue_Unbounded ==
  /\ ~sendClosed /\ handler # "dead"
  /\ buffer' = buffer + 1
  /\ UNCHANGED <<handlerVars, writeVars, tickVars, sendClosed, pingDone, connVars,
                 peerVars>>

(* Another handler, a broadcast or a private message, puts a frame in the  *)
(* channel; a full channel drops it, a closed one is the sender's panic.   *)
Enqueue ==
  /\ ~sendClosed /\ handler # "dead"
  /\ buffer < Capacity
  /\ buffer' = buffer + 1
  /\ UNCHANGED <<handlerVars, writeVars, tickVars, sendClosed, pingDone, connVars,
                 peerVars>>

PongArrives ==
  /\ pong = "way" /\ open
  /\ pong' = "arrived"
  /\ ahead' \in 0..MaxBacklog
  /\ UNCHANGED <<handlerVars, writeVars, tickVars, chanVars, connVars, peer, pongLeft>>

(* The peer stops answering or reading, for good or for a while.           *)
PeerFails ==
  /\ peer = "up" /\ open
  /\ peer' = "failed"
  /\ pong' \in {pong, "none"}
  /\ UNCHANGED <<handlerVars, writeVars, tickVars, chanVars, connVars, pongLeft, ahead>>

(* The connection is closed: by the peer, the network, a ban, or the       *)
(* handler after too many auth attempts.                                   *)
ConnClosed ==
  /\ open /\ handler \in {"read", "busy"}
  /\ Closed
  /\ unread' \in 0..MaxBacklog
  /\ UNCHANGED <<handler, work, waiting, expired, stalled, writeVars, tickVars,
                 chanVars, peer>>

(* No goroutine is ready to run and no duration is over.                   *)
Idle ==
  /\ ~(handler = "read" /\ (~open \/ deadline = 0 \/ pong = "arrived"))
  /\ ~(handler \in {"busy", "cleanup"} /\ work = 0)
  /\ ~(handler = "wait" /\ (writer = "ended" \/ waiting = 0))
  /\ ~(writer = "idle" /\ (buffer > 0 \/ sendClosed))
  /\ ~(pinger = "select" /\ (ticked \/ pingDone))
  /\ ~("writing" \in {writer, pinger} /\ (writeLeft = 0 \/ ~open \/ broken))
  /\ ~(pong = "way" /\ peer = "up" /\ open /\ pongLeft = 0)

Countdown(n) == IF n > 0 THEN n - 1 ELSE 0

(* The socket is closed, or the read loop is over.                         *)
Lost == ~open \/ handler \notin {"read", "busy"}

AllOver ==
  handler \in {"returned", "dead"} /\ {writer, pinger} \subseteq {"ended", "dead"}

Tick ==
  /\ Idle
  /\ work' = Countdown(work)
  /\ deadline' = IF handler \in {"read", "busy"} THEN Countdown(deadline) ELSE deadline
  /\ waiting' = Countdown(waiting)
  /\ writeLeft' = Countdown(writeLeft)
  /\ pongLeft' = Countdown(pongLeft)
  /\ gone' = IF Lost /\ ~AllOver /\ gone < MaxGone THEN gone + 1 ELSE gone
  /\ \/ pinger \in {"ended", "dead"} /\ UNCHANGED <<ticker, ticked>>
     \/ /\ pinger \notin {"ended", "dead"}
        /\ ticker' = IF ticker = 1 THEN PingPeriod ELSE ticker - 1
        /\ ticked' = (ticked \/ ticker = 1)
  /\ UNCHANGED <<handler, expired, stalled, writer, pinger, broken, chanVars,
                 connVars, peer, pong, ahead>>

-----------------------------------------------------------------------------

HandlerStep == ReadPong \/ RequestDone \/ ReadFails \/ CleanUpDone \/ Return
WriterStep == WriterTake \/ WriterOK \/ WriterFails \/ WriterEnds
PingerStep == PingerTake \/ PingerOK \/ PingerFails \/ PingerEnds

Next ==
  \/ HandlerStep \/ WriterStep \/ PingerStep
  \/ ReadFrame \/ Stall \/ RequestPanics
  \/ Enqueue \/ PongArrives \/ PeerFails \/ ConnClosed
  \/ Tick

(* Goroutines are scheduled, writes end by their deadline, requests and    *)
(* the clean-up in the end, and time goes on.                              *)
Fairness ==
  /\ WF_vars(HandlerStep)
  /\ WF_vars(WriterStep)
  /\ WF_vars(PingerStep)
  /\ WF_vars(Tick)

Spec == Init /\ [][Next]_vars
FairSpec == Spec /\ Fairness

-----------------------------------------------------------------------------
(* What the connection keeps.                                              *)

(* A peer that reads and answers pings in time is not dropped by the read  *)
(* deadline, however slow single writes, validations, queries and pulls    *)
(* are within their own timeouts and whenever the pings fall.  Only a call *)
(* without a timeout (the role query, ws_handle.go:171-173, or a SET on    *)
(* context.Background()) that held the handler beyond that drops it.       *)
ResponsivePeerKept == expired => peer = "failed" \/ stalled

(* How long what is left may stay, unless a call without a timeout held    *)
(* the handler: HandleWS ends and closes the channel within EndTime of the *)
(* loss, the write goroutine with it; the ping goroutine needs its next    *)
(* tick only if a panic has left pingDone open.                            *)
EndsInTime == ~stalled =>
  /\ gone > EndTime => handler \in {"returned", "dead"} /\ writer \in {"ended", "dead"}
  /\ gone > EndTime /\ gone > PingPeriod => pinger \in {"ended", "dead"}

(* Nothing is left behind: once the connection is lost, closed or its      *)
(* handler has panicked, all three goroutines end.                         *)
GoroutinesEnd ==
  (~open \/ handler = "returned") ~>
    \/ handler = "returned" /\ writer = "ended" /\ pinger = "ended"
    \/ handler = "dead"

-----------------------------------------------------------------------------
(* What the documentation says and the connection does not keep.           *)

(* Pings keep the connection alive (README: "服务端 30 秒 ping 帧保活"): they *)
(* do no harm to the server.                                               *)
PingsHarmless == handler # "dead"
=============================================================================
