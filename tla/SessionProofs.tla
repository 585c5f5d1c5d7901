--------------------------- MODULE SessionProofs ---------------------------
(***************************************************************************)
(* Theorems about one session: about its goroutines (Pump), for any        *)
(* timeouts that PumpAssumption admits, and, in the second half, about     *)
(* what it leaves in Redis and the processes it runs in (Lifecycle).       *)
(***************************************************************************)
EXTENDS Pump, Lifecycle, TLAPS

(* The work on n requests.                                                 *)
Work(n) == n * RequestTime

(* What the timeouts are and how they add up.                              *)
LEMMA Times ==
  /\ ReadTimeout \in Nat /\ PingPeriod \in Nat /\ WriteTimeout \in Nat /\ CloseWait \in Nat
  /\ RequestTime \in Nat /\ MaxBacklog \in Nat /\ PongDelay \in Nat /\ Capacity \in Nat
  /\ ReadTimeout > 0 /\ PingPeriod > 0 /\ WriteTimeout > 0 /\ CloseWait > 0
  /\ RequestTime > 0 /\ Capacity > 0
  /\ EndTime \in Nat
  /\ MaxGone \in Nat /\ MaxGone = EndTime + PingPeriod + 1
<1>1. /\ ReadTimeout \in Nat /\ PingPeriod \in Nat /\ WriteTimeout \in Nat /\ CloseWait \in Nat
      /\ RequestTime \in Nat /\ MaxBacklog \in Nat /\ PongDelay \in Nat /\ Capacity \in Nat
      /\ ReadTimeout > 0 /\ PingPeriod > 0 /\ WriteTimeout > 0 /\ CloseWait > 0
      /\ RequestTime > 0 /\ Capacity > 0
  BY PumpAssumption
<1>2. (MaxBacklog + 2) * RequestTime \in Nat
  BY <1>1
<1> QED BY <1>1, <1>2 DEF EndTime, MaxGone

(* One request more, one unit of work more.                                *)
LEMMA WorkAdds ==
  /\ Work(0) = 0
  /\ \A n \in Nat : Work(n) \in Nat /\ Work(n + 1) = Work(n) + RequestTime
  /\ \A n \in Nat : n > 0 => Work(n) = Work(n - 1) + RequestTime
  /\ \A n \in 0..MaxBacklog : Work(n) <= Work(MaxBacklog)
  /\ PingPeriod + WriteTimeout + PongDelay + Work(MaxBacklog) + RequestTime < ReadTimeout
<1>1. RequestTime \in Nat /\ MaxBacklog \in Nat
  BY PumpAssumption
<1>2. \A n \in Nat : Work(n) \in Nat /\ Work(n + 1) = Work(n) + RequestTime
  BY <1>1 DEF Work
<1>3. \A n \in Nat : n > 0 => Work(n) = Work(n - 1) + RequestTime
  BY <1>1 DEF Work
<1>4. \A n \in 0..MaxBacklog : Work(n) <= Work(MaxBacklog)
  BY <1>1 DEF Work
<1>5. Work(MaxBacklog + 1) = (MaxBacklog + 1) * RequestTime
  BY DEF Work
<1>6. PingPeriod + WriteTimeout + PongDelay + Work(MaxBacklog) + RequestTime < ReadTimeout
  BY <1>1, <1>2, <1>5, PumpAssumption
<1> QED BY <1>1, <1>2, <1>3, <1>4, <1>6 DEF Work

-----------------------------------------------------------------------------
(* Types.                                                                  *)

(* The flags.                                                              *)
Flags == {ticked, sendClosed, pingDone, open, broken, expired, stalled} \subseteq BOOLEAN

(* They stay flags.                                                        *)
LEMMA FlagsNext == Flags /\ [Next]_vars => Flags'
<1> SUFFICES ASSUME Flags, [Next]_vars PROVE Flags'
  OBVIOUS
<1> USE DEF Next, HandlerStep, WriterStep, PingerStep, vars, connVars, handlerVars, writeVars, tickVars,
         chanVars, peerVars, ReadPong, RequestDone, ReadFails, CleanUpDone, Return, WriterTake, WriterOK,
         WriterFails, WriterEnds, PingerTake, PingerOK, PingerFails, PingerEnds, ReadFrame,
         RequestPanics, Stall, Enqueue, PongArrives, PeerFails, ConnClosed, Tick, Deferred, Closed, Stop, Crash
<1>1. ticked' \in {ticked, FALSE, ticked \/ ticker = 1}
  OBVIOUS
<1>2. sendClosed' \in {sendClosed, TRUE} /\ pingDone' \in {pingDone, TRUE}
  OBVIOUS
<1>3. open' \in {open, FALSE} /\ broken' \in {broken, TRUE} /\ expired' \in {expired, open}
  OBVIOUS
<1>4. stalled' \in {stalled, TRUE, FALSE}
  OBVIOUS
<1> HIDE DEF Next
<1> QED BY <1>1, <1>2, <1>3, <1>4 DEF Flags

(* The connection is fresh at first.                                       *)
LEMMA InitType == Init => TypeOK
<1>1. Init => Flags
  BY DEF Init, Flags
<1> QED BY <1>1, Times DEF Init, TypeOK, Flags

(* Every step keeps the types.                                             *)
LEMMA NextType == TypeOK /\ [Next]_vars => TypeOK'
<1> SUFFICES ASSUME TypeOK, [Next]_vars PROVE TypeOK'
  OBVIOUS
<1>f. Flags /\ Flags'
  BY FlagsNext DEF TypeOK, Flags
<1> USE Times, <1>f DEF handlerVars, writeVars, tickVars, chanVars, connVars, peerVars, TypeOK, Flags
<1>1. CASE ReadPong
  BY <1>1 DEF ReadPong
<1>2. CASE RequestDone
  BY <1>2 DEF RequestDone
<1>3. CASE ReadFails
  BY <1>3 DEF ReadFails
<1>4. CASE CleanUpDone
  BY <1>4 DEF CleanUpDone
<1>5. CASE Return
  BY <1>5 DEF Return, Deferred, Closed
<1>6. CASE WriterTake
  BY <1>6 DEF WriterTake, Crash, Closed
<1>7. CASE WriterOK
  BY <1>7 DEF WriterOK
<1>8. CASE WriterFails
  BY <1>8 DEF WriterFails, WriteMayFail
<1>9. CASE WriterEnds
  BY <1>9 DEF WriterEnds
<1>10. CASE PingerTake
  BY <1>10 DEF PingerTake, Crash, Closed
<1>11. CASE PingerOK
  BY <1>11 DEF PingerOK
<1>12. CASE PingerFails
  BY <1>12 DEF PingerFails, WriteMayFail, Stop
<1>13. CASE PingerEnds
  BY <1>13 DEF PingerEnds, Stop
<1>14. CASE ReadFrame
  BY <1>14 DEF ReadFrame
<1>15. CASE RequestPanics
  BY <1>15 DEF RequestPanics, Deferred, Closed
<1>16. CASE Enqueue
  BY <1>16 DEF Enqueue
<1>17. CASE PongArrives
  BY <1>17 DEF PongArrives
<1>18. CASE PeerFails
  BY <1>18 DEF PeerFails
<1>19. CASE ConnClosed
  BY <1>19 DEF ConnClosed, Closed
<1>20. CASE Tick
  <2>1. /\ work' \in 0..RequestTime /\ deadline' \in 0..ReadTimeout /\ waiting' \in 0..CloseWait
        /\ writeLeft' \in 0..WriteTimeout /\ pongLeft' \in 0..PongDelay
    BY <1>20 DEF Tick, Countdown
  <2>2. gone' \in 0..MaxGone /\ ticker' \in 1..PingPeriod /\ ticked' \in BOOLEAN
    BY <1>20 DEF Tick
  <2> QED BY <1>20, <2>1, <2>2 DEF Tick
<1>21. CASE UNCHANGED vars
  BY <1>21 DEF vars
<1>22. CASE Stall
  BY <1>22 DEF Stall
<1> QED
  BY <1>1, <1>2, <1>3, <1>4, <1>5, <1>6, <1>7, <1>8, <1>9, <1>10, <1>11, <1>12, <1>13, <1>14, <1>15, <1>16, <1>17, <1>18, <1>19, <1>20, <1>21, <1>22
  DEF Next, HandlerStep, WriterStep, PingerStep

(* In every reachable state the types are right; in particular a full      *)
(* channel takes no further frame.                                         *)
THEOREM PumpTypeCorrect == Spec => []TypeOK
  BY InitType, NextType, PTL DEF Spec

-----------------------------------------------------------------------------
(* A responsive peer is kept.                                              *)

Serving == handler \in {"read", "busy"}

(* A peer that answers, on a connection in use.                            *)
Responsive == Serving /\ open /\ peer = "up"

(* What is left once the pong is in the socket: the requests before it.    *)
Behind == (IF handler = "busy" THEN work ELSE 0) + Work(ahead)

(* From a ping's write to the reading of its pong, at most.                *)
RoundTrip == PongDelay + Work(MaxBacklog) + RequestTime

(* The longest time to the next pong that the handler reads.               *)
ToPong ==
  CASE pong = "arrived" -> Behind
    [] pong = "way" -> pongLeft + Work(MaxBacklog) + RequestTime
    [] pong = "none" /\ pinger = "writing" -> writeLeft + RoundTrip
    [] pong = "none" /\ pinger # "writing" /\ ticked -> WriteTimeout + RoundTrip
    [] OTHER -> ticker + WriteTimeout + RoundTrip

(* Pings go out as long as the connection serves a responsive peer.        *)
Pinging ==
  /\ Serving => ~pingDone
  /\ broken => ~open \/ peer = "failed"
  /\ Responsive => pinger \in {"select", "writing"}
  /\ expired => ~Serving

(* A pong is read before the deadline, unless a call without a timeout has *)
(* held the handler since the last one.                                    *)
InTime == Responsive /\ ~stalled => ToPong < deadline

KeptInv == TypeOK /\ Pinging /\ InTime /\ ResponsivePeerKept

(* Nothing disturbs the pings.                                             *)
LEMMA PingingNext == TypeOK /\ Pinging /\ [Next]_vars => Pinging'
<1> SUFFICES ASSUME TypeOK, Pinging, [Next]_vars PROVE Pinging'
  OBVIOUS
<1> USE DEF Pinging, Responsive, Serving,
         Next, HandlerStep, WriterStep, PingerStep, vars, connVars, handlerVars, writeVars, tickVars,
         chanVars, peerVars, ReadPong, RequestDone, ReadFails, CleanUpDone, Return, WriterTake,
         WriterOK, WriterFails, WriterEnds, PingerTake, PingerOK, PingerFails, PingerEnds,
         ReadFrame, RequestPanics, Stall, Enqueue, PongArrives, PeerFails, ConnClosed, Tick, Deferred,
         Closed, Stop, Crash, WriteMayFail
<1>1. (Serving => ~pingDone)'
  OBVIOUS
<1>2. (broken => ~open \/ peer = "failed")'
  OBVIOUS
<1>3. (Responsive => pinger \in {"select", "writing"})'
  BY Zenon
<1>4. (expired => ~Serving)'
  OBVIOUS
<1> HIDE DEF Next
<1> QED BY <1>1, <1>2, <1>3, <1>4

(* ToPong is a time, and less than the deadline when a pong was just read. *)
LEMMA ToPongType ==
  ASSUME TypeOK
  PROVE  ToPong \in Nat /\ (pong = "none" => ToPong < ReadTimeout)
<1>1. RoundTrip \in Nat /\ PingPeriod + WriteTimeout + RoundTrip < ReadTimeout
  BY Times, WorkAdds DEF RoundTrip
<1>2. Behind \in Nat /\ Work(MaxBacklog) \in Nat
  BY Times, WorkAdds DEF Behind, TypeOK
<1> QED BY <1>1, <1>2, Times DEF TypeOK, ToPong

(* Only a pong ends a stall.                                               *)
LEMMA StallStep ==
  ASSUME [Next]_vars, stalled, ~stalled'
  PROVE  ReadPong
  BY DEF Next, HandlerStep, WriterStep, PingerStep, vars, handlerVars, RequestDone, ReadFails,
         CleanUpDone, Return, WriterTake, WriterOK, WriterFails, WriterEnds, PingerTake, PingerOK,
         PingerFails, PingerEnds, ReadFrame, RequestPanics, Stall, Enqueue, PongArrives, PeerFails,
         ConnClosed, Tick

(* The pongs of a responsive peer keep ahead of the deadline: whatever a   *)
(* step does, what is left of the way to the next pong does not grow,      *)
(* except when a pong moves the deadline; and time takes from both.        *)
LEMMA InTimeNext ==
  TypeOK /\ Pinging /\ InTime /\ [Next]_vars => InTime'
<1> SUFFICES ASSUME TypeOK, TypeOK', Pinging, InTime, [Next]_vars, Responsive',
                    ~stalled'
             PROVE  ToPong' < deadline'
  BY NextType DEF InTime
<1>1. Responsive
  BY DEF Responsive, Serving, Next, HandlerStep, WriterStep, PingerStep, vars, connVars, handlerVars,
         writeVars, tickVars, chanVars, peerVars, ReadPong, RequestDone, ReadFails, CleanUpDone,
         Return, WriterTake, WriterOK, WriterFails, WriterEnds, PingerTake, PingerOK,
         PingerFails, PingerEnds, ReadFrame, RequestPanics, Stall, Enqueue, PongArrives, PeerFails,
         ConnClosed, Tick, Deferred, Closed, Stop, Crash
<1>s. ~stalled \/ ReadPong
  BY StallStep
<1>2. ToPong \in Nat /\ deadline \in Nat /\ (~stalled => ToPong < deadline)
  BY <1>1, ToPongType DEF InTime, TypeOK
<1>3. open /\ open' /\ peer' = "up" /\ handler' \in {"read", "busy"} /\ ~broken /\ ~pingDone
  BY <1>1 DEF Responsive, Serving, Pinging
<1>4. /\ Work(MaxBacklog) \in Nat /\ RoundTrip \in Nat /\ RequestTime \in Nat
      /\ RoundTrip = PongDelay + Work(MaxBacklog) + RequestTime
  BY Times, WorkAdds DEF RoundTrip
<1> USE <1>2, <1>3, <1>s DEF handlerVars, writeVars, tickVars, chanVars, connVars, peerVars
<1>5. CASE ReadPong
  <2>1. ToPong' <= PingPeriod + WriteTimeout + RoundTrip /\ ToPong' \in Nat
    BY <1>4, <1>5, Times DEF ReadPong, ToPong, TypeOK
  <2>2. deadline' = ReadTimeout /\ PingPeriod + WriteTimeout + RoundTrip < ReadTimeout
    BY <1>4, <1>5, Times, WorkAdds DEF ReadPong
  <2> QED BY <1>4, <2>1, <2>2, Times
<1>6. CASE ReadFrame
  BY <1>6, WorkAdds DEF ReadFrame, ToPong, Behind, TypeOK
<1>7. CASE RequestDone
  BY <1>7, WorkAdds, Times DEF RequestDone, ToPong, Behind, TypeOK
<1>8. CASE ReadFails \/ CleanUpDone \/ Return \/ RequestPanics \/ PeerFails \/ ConnClosed
  BY <1>8 DEF ReadFails, CleanUpDone, Return, RequestPanics, PeerFails, ConnClosed, Deferred,
              Closed
<1>9. CASE WriterTake
  BY <1>9 DEF WriterTake, Crash, ToPong, Behind
<1>10. CASE WriterOK \/ WriterFails
  BY <1>10, <1>4 DEF WriterOK, WriterFails, ToPong, Behind, TypeOK
<1>11. CASE WriterEnds \/ Enqueue
  BY <1>11 DEF WriterEnds, Enqueue, ToPong, Behind
<1>12. CASE PingerTake
  BY <1>12, <1>4, Times DEF PingerTake, Crash, ToPong, Behind, TypeOK
<1>13. CASE PingerOK
  BY <1>13, <1>4, Times DEF PingerOK, ToPong, Behind, TypeOK
<1>14. CASE PingerFails \/ PingerEnds
  BY <1>1, <1>14 DEF PingerFails, PingerEnds, WriteMayFail, Responsive
<1>15. CASE PongArrives
  <2>1. Behind' \in Nat /\ Behind' <= Work(MaxBacklog) + RequestTime
    BY <1>15, WorkAdds, Times DEF PongArrives, Behind, TypeOK
  <2>2. ToPong' = Behind' /\ deadline' = deadline /\ ~stalled
    BY <1>15 DEF PongArrives, ToPong
  <2>3. ToPong = pongLeft + Work(MaxBacklog) + RequestTime /\ pongLeft \in Nat
    BY <1>15 DEF PongArrives, ToPong, TypeOK
  <2> QED BY <1>4, <2>1, <2>2, <2>3
<1>16. CASE Tick
  <2>1. deadline' = deadline - 1
    BY <1>1, <1>16 DEF Tick, Countdown, Responsive, Serving
  <2>2. CASE pong = "arrived"
    BY <1>1, <1>16, <2>1, <2>2, WorkAdds
       DEF Tick, Idle, Countdown, ToPong, Behind, TypeOK, Responsive, Serving
  <2>3. CASE pong = "way"
    BY <1>1, <1>4, <1>16, <2>1, <2>3
       DEF Tick, Idle, Countdown, ToPong, TypeOK, Responsive
  <2>4. CASE pong = "none"
    BY <1>1, <1>4, <1>16, <2>1, <2>4, Times
       DEF Tick, Idle, Countdown, ToPong, TypeOK, Responsive, Pinging
  <2> QED BY <2>2, <2>3, <2>4 DEF TypeOK
<1>17. CASE UNCHANGED vars
  BY <1>17 DEF vars, ToPong, Behind
<1>18. CASE Stall
  BY <1>18 DEF Stall
<1> QED
  BY <1>5, <1>6, <1>7, <1>8, <1>9, <1>10, <1>11, <1>12, <1>13, <1>14, <1>15, <1>16, <1>17, <1>18
  DEF Next, HandlerStep, WriterStep, PingerStep

(* The deadline runs out for a silent peer, or after a stall, only; a peer *)
(* that failed has failed for good.                                        *)
LEMMA ExpiryStep ==
  ASSUME TypeOK, Pinging, InTime, [Next]_vars, expired'
  PROVE  /\ expired \/ peer = "failed" \/ stalled
         /\ peer = "failed" => peer' = "failed"
         /\ stalled => stalled'
<1>1. CASE ReadFails
  <2>1. Responsive /\ ~stalled => deadline > 0
    BY ToPongType DEF InTime, TypeOK
  <2> QED BY <1>1, <2>1 DEF ReadFails, Responsive, Serving, TypeOK, peerVars
<1>2. CASE ~ReadFails
  <2>1. expired' = expired /\ (peer' = peer \/ PeerFails)
    BY <1>2
    DEF Next, HandlerStep, WriterStep, PingerStep, vars, connVars, handlerVars, peerVars, ReadPong,
        RequestDone, CleanUpDone, Return, WriterTake, WriterOK, WriterFails, WriterEnds,
        PingerTake, PingerOK, PingerFails, PingerEnds, ReadFrame, RequestPanics, Stall, Enqueue,
        PongArrives, PeerFails, ConnClosed, Tick
  <2>2. ~ReadPong
    BY <2>1 DEF Pinging, Serving, ReadPong
  <2>3. stalled => stalled'
    BY <2>2, StallStep, FlagsNext DEF TypeOK, Flags
  <2> QED BY <2>1, <2>3 DEF PeerFails
<1> QED BY <1>1, <1>2

(* A peer that reads and answers pings in time is dropped by the read      *)
(* deadline only if a call of the handler without a timeout (the role      *)
(* query or a SET, ws_handle.go:171-186, 333) was held up since its last   *)
(* pong.                                                                   *)
THEOREM ResponsiveKept == Spec => []ResponsivePeerKept
<1>1. Init => KeptInv
  <2>1. Init => ToPong < deadline
    BY Times, WorkAdds DEF Init, ToPong, RoundTrip
  <2> QED BY <2>1, InitType DEF Init, KeptInv, Pinging, InTime, ResponsivePeerKept, Serving, Responsive
<1>2. KeptInv /\ [Next]_vars => KeptInv'
  BY NextType, PingingNext, InTimeNext, ExpiryStep DEF KeptInv, ResponsivePeerKept
<1> QED BY <1>1, <1>2, PTL DEF Spec, KeptInv


-----------------------------------------------------------------------------
(* What is left of a connection ends in time.                              *)

Alive(goroutine) == goroutine \notin {"returned", "ended", "dead"}

(* The longest time the handler still needs, once the connection is lost.  *)
HandlerLeft ==
  CASE handler = "read" -> Work(unread) + RequestTime + CloseWait
    [] handler = "busy" -> work + Work(unread) + RequestTime + CloseWait
    [] handler = "cleanup" -> work + CloseWait
    [] handler = "wait" -> waiting
    [] OTHER -> 0

(* EndTime is the work on all those requests and the wait.                 *)
LEMMA EndTimeIs == EndTime = Work(MaxBacklog) + RequestTime + RequestTime + CloseWait
<1>1. Work(MaxBacklog + 2) = (MaxBacklog + 2) * RequestTime
  BY DEF Work
<1>2. Work(MaxBacklog + 2) = Work(MaxBacklog) + RequestTime + RequestTime
  <2>1. MaxBacklog \in Nat /\ MaxBacklog + 1 \in Nat /\ (MaxBacklog + 1) + 1 = MaxBacklog + 2
    BY Times
  <2> QED BY <2>1, WorkAdds
<1> QED BY <1>1, <1>2 DEF EndTime

(* It is a time, and the frames a closed socket still gives are few.       *)
LEMMA HandlerLeftType ==
  ASSUME TypeOK
  PROVE  HandlerLeft \in Nat /\ Work(unread) \in Nat /\ Work(unread) <= Work(MaxBacklog)
<1>1. Work(unread) \in Nat /\ Work(unread) <= Work(MaxBacklog)
  BY WorkAdds, Times DEF TypeOK
<1> QED BY <1>1, Times DEF HandlerLeft, TypeOK

(* So it is after a step.                                                  *)
LEMMA LeftNext ==
  ASSUME TypeOK'
  PROVE  HandlerLeft' \in Nat
<1>1. PICK v \in Nat : v = Work(unread')
  BY WorkAdds DEF TypeOK
<1>2. work' \in Nat /\ waiting' \in Nat
  BY Times DEF TypeOK
<1> QED BY <1>1, <1>2, Times DEF HandlerLeft

(* How far the loss of a connection has got with its goroutines.           *)
Ending ==
  /\ ~Lost => gone = 0
  /\ handler = "dead" <=> writer = "dead"
  /\ handler = "dead" <=> pinger = "dead"
  /\ ~Alive(handler) => ~open
  /\ handler = "returned" => sendClosed
  /\ Serving => ~pingDone
  /\ handler \in {"cleanup", "wait"} => pingDone

HandlerInTime == Alive(handler) /\ ~stalled => gone + HandlerLeft <= EndTime
WriterInTime == Alive(writer) /\ ~stalled => gone <= EndTime
PingerInTime ==
  /\ Alive(pinger) /\ pingDone /\ ~stalled => gone <= EndTime
  /\ Alive(pinger) /\ ~pingDone => gone <= PingPeriod
  /\ ~pingDone /\ pinger = "select" /\ ~ticked => gone + ticker <= PingPeriod

EndInv == TypeOK /\ Ending /\ HandlerInTime /\ WriterInTime /\ PingerInTime


(* The connection is lost once, and its goroutines end each in its order.  *)
LEMMA EndingNext == TypeOK /\ Ending /\ [Next]_vars => Ending'
<1> SUFFICES ASSUME TypeOK, Ending, [Next]_vars PROVE Ending'
  OBVIOUS
<1> USE DEF Ending, Lost, Serving, Alive,
         Next, HandlerStep, WriterStep, PingerStep, vars, connVars, handlerVars, writeVars, tickVars,
         chanVars, peerVars, ReadPong, RequestDone, ReadFails, CleanUpDone, Return, WriterTake,
         WriterOK, WriterFails, WriterEnds, PingerTake, PingerOK, PingerFails, PingerEnds,
         ReadFrame, RequestPanics, Stall, Enqueue, PongArrives, PeerFails, ConnClosed, Tick, Deferred,
         Closed, Stop, Crash
<1>1. (~Lost => gone = 0)'
  OBVIOUS
<1>2. (handler = "dead" <=> writer = "dead")' /\ (handler = "dead" <=> pinger = "dead")'
  OBVIOUS
<1>3. (~Alive(handler) => ~open)'
  OBVIOUS
<1>4. (handler = "returned" => sendClosed)'
  OBVIOUS
<1>5. (Serving => ~pingDone)' /\ (handler \in {"cleanup", "wait"} => pingDone)'
  OBVIOUS
<1> HIDE DEF Next
<1> QED BY <1>1, <1>2, <1>3, <1>4, <1>5

(* Only time moves `gone`, when nothing is ready to run; a step that takes *)
(* no time may use up what the handler has left, and adds nothing to it.   *)
LEMMA GoneStep ==
  ASSUME TypeOK, [Next]_vars, ~Tick
  PROVE  gone' = gone
  BY DEF Next, HandlerStep, WriterStep, PingerStep, vars, connVars, handlerVars, writeVars, tickVars,
         chanVars, peerVars, ReadPong, RequestDone, ReadFails, CleanUpDone, Return, WriterTake,
         WriterOK, WriterFails, WriterEnds, PingerTake, PingerOK, PingerFails, PingerEnds,
         ReadFrame, RequestPanics, Stall, Enqueue, PongArrives, PeerFails, ConnClosed

(* The handler gets done with what it does within its time.                *)
LEMMA HandlerInTimeNext ==
  TypeOK /\ Ending /\ HandlerInTime /\ [Next]_vars => HandlerInTime'
<1> SUFFICES ASSUME TypeOK, TypeOK', Ending, HandlerInTime, [Next]_vars, Alive(handler)',
                    ~stalled'
             PROVE  gone' + HandlerLeft' <= EndTime
  BY NextType DEF HandlerInTime
<1>1. PICK w, most \in Nat : w = Work(unread) /\ most = Work(MaxBacklog) /\ w <= most
  BY HandlerLeftType, WorkAdds, Times
<1>2. PICK v \in Nat : v = Work(unread') /\ v <= most
  BY <1>1, WorkAdds DEF TypeOK
<1>3. PICK g, h \in Nat : g = gone' /\ h = work'
  BY Times DEF TypeOK
<1>4. /\ EndTime = most + RequestTime + RequestTime + CloseWait
      /\ RequestTime \in Nat /\ CloseWait \in Nat /\ gone \in Nat
      /\ work \in 0..RequestTime /\ h <= RequestTime
  BY <1>1, <1>3, EndTimeIs, Times DEF TypeOK
<1>s. ~stalled \/ ReadPong
  BY StallStep
<1>5. CASE Tick
  <2>0. ~stalled
    BY <1>5 DEF Tick
  <2>1. Alive(handler) /\ handler' = handler /\ g <= gone + 1 /\ v = w
    BY <1>1, <1>2, <1>3, <1>5 DEF Tick, connVars, Alive, TypeOK
  <2>2. CASE handler = "read"
    <3>1. g = 0
      BY <1>3, <1>5, <2>2 DEF Tick, Idle, Ending, Lost
    <3> QED BY <1>1, <1>2, <1>3, <1>4, <2>1, <2>2, <3>1 DEF HandlerLeft
  <2>3. CASE handler \in {"busy", "cleanup"}
    <3>1. h = work - 1 /\ work > 0
      BY <1>3, <1>4, <1>5, <2>3 DEF Tick, Idle, Countdown
    <3> QED BY <1>1, <1>2, <1>3, <1>4, <2>0, <2>1, <2>3, <3>1 DEF HandlerLeft, HandlerInTime
  <2>4. CASE handler = "wait"
    BY <1>5, <2>0, <2>1, <2>4, Times DEF Tick, Idle, Countdown, HandlerLeft, HandlerInTime, TypeOK
  <2> QED BY <2>1, <2>2, <2>3, <2>4 DEF Alive, TypeOK
<1>6. CASE ~Tick
  <2>1. g = gone
    BY <1>3, <1>6, GoneStep
  <2>0. CASE ReadPong
    <3>1. g = 0 /\ handler = "read" /\ handler' = "read"
      BY <2>0, <2>1 DEF ReadPong, Ending, Lost
    <3> QED BY <1>2, <1>3, <1>4, <3>1 DEF HandlerLeft
  <2>s. ReadPong \/ ~stalled
    BY <1>s
  <2>2. CASE ReadFrame
    <3>0. ~stalled
      BY <2>2 DEF ReadFrame
    <3>1. handler = "read" /\ handler' = "busy" /\ h = RequestTime
      BY <1>3, <2>2 DEF ReadFrame
    <3>2. CASE open
      BY <1>1, <1>2, <1>3, <1>4, <2>1, <3>1, <3>2 DEF HandlerLeft, Ending, Lost
    <3>3. CASE ~open
      <4>1. unread > 0 /\ unread' = unread - 1
        BY <2>2, <3>3 DEF ReadFrame
      <4>2. w = v + RequestTime
        BY <1>1, <1>2, <4>1, WorkAdds, Times DEF TypeOK
      <4> QED BY <1>1, <1>2, <1>3, <1>4, <2>1, <3>0, <3>1, <4>2 DEF HandlerLeft, HandlerInTime, Alive
    <3> QED BY <3>2, <3>3
  <2>3. CASE RequestDone
    <3>1. handler = "busy" /\ handler' = "read" /\ v = w /\ ~stalled
      BY <1>1, <1>2, <2>3 DEF RequestDone, connVars
    <3> QED BY <1>1, <1>2, <1>3, <1>4, <2>1, <3>1 DEF HandlerLeft, HandlerInTime, Alive
  <2>4. CASE ReadFails
    <3>1. handler = "read" /\ handler' = "cleanup" /\ h = RequestTime /\ ~stalled
      BY <1>3, <1>s, <2>4 DEF ReadFails, ReadPong
    <3> QED BY <1>1, <1>3, <1>4, <2>1, <3>1 DEF HandlerLeft, HandlerInTime, Alive
  <2>5. CASE CleanUpDone
    BY <1>3, <2>1, <2>5, Times DEF CleanUpDone, HandlerLeft, HandlerInTime, Alive, TypeOK
  <2>6. CASE ConnClosed
    <3>1. handler \in {"read", "busy"} /\ handler' = handler /\ g = 0
      BY <2>1, <2>6 DEF ConnClosed, handlerVars, Ending, Lost
    <3> QED BY <1>2, <1>3, <1>4, <3>1 DEF HandlerLeft
  <2>8. CASE Stall
    BY <2>8 DEF Stall
  <2>7. CASE ~(ReadPong \/ Stall \/ ReadFrame \/ RequestDone \/ ReadFails \/ CleanUpDone \/ ConnClosed)
    <3>1. handler' = handler /\ work' = work /\ waiting' = waiting /\ unread' = unread
      BY <1>6, <2>7
      DEF Next, HandlerStep, WriterStep, PingerStep, vars, connVars, handlerVars, Alive, ReadPong, Return,
          WriterTake, WriterOK, WriterFails, WriterEnds, PingerTake, PingerOK, PingerFails,
          PingerEnds, RequestPanics, Stall, Enqueue, PongArrives, PeerFails, Crash
    <3> QED BY <1>3, <1>s, <2>1, <2>7, <3>1 DEF HandlerLeft, HandlerInTime, Alive
  <2> QED BY <2>0, <2>8, <2>2, <2>3, <2>4, <2>5, <2>6, <2>7
<1> QED BY <1>5, <1>6

(* Once HandleWS is over nothing keeps the write goroutine waiting.        *)
LEMMA WriterInTimeNext ==
  TypeOK /\ Ending /\ HandlerInTime /\ WriterInTime /\ [Next]_vars => WriterInTime'
<1> SUFFICES ASSUME TypeOK, TypeOK', Ending, HandlerInTime', WriterInTime, [Next]_vars,
                    Alive(writer)', ~stalled'
             PROVE  gone' <= EndTime
  BY NextType, HandlerInTimeNext DEF WriterInTime
<1>1. CASE Tick
  <2>1. Alive(writer) /\ handler # "dead"
    BY <1>1 DEF Tick, Alive, Ending
  <2>2. handler # "returned"
    BY <1>1, <2>1 DEF Tick, Idle, Alive, Ending, TypeOK
  <2>3. gone' + HandlerLeft' <= EndTime
    BY <1>1, <2>1, <2>2 DEF Tick, HandlerInTime, Alive, TypeOK
  <2>4. HandlerLeft' \in Nat /\ gone' \in Nat
    BY LeftNext DEF TypeOK
  <2>5. \A m, n, e \in Nat : m + n <= e => m <= e
    OBVIOUS
  <2> QED BY <2>3, <2>4, <2>5, Times
<1>2. CASE ~Tick
  <2>1. Alive(writer)
    BY <1>2
    DEF Next, HandlerStep, WriterStep, PingerStep, vars, connVars, handlerVars, writeVars, Alive, ReadPong,
        RequestDone, ReadFails, CleanUpDone, Return, WriterTake, WriterOK, WriterFails, WriterEnds,
        PingerTake, PingerOK, PingerFails, PingerEnds, ReadFrame, RequestPanics, Stall, Enqueue,
        PongArrives, PeerFails, ConnClosed, Crash
  <2>2. CASE ReadPong
    BY <1>2, <2>2, GoneStep, Times DEF ReadPong, Ending, Lost
  <2>3. CASE ~ReadPong
    BY <1>2, <2>1, <2>3, GoneStep, StallStep DEF WriterInTime
  <2> QED BY <2>2, <2>3
<1> QED BY <1>1, <1>2


(* A connection that is lost while its ping goroutine is to go on is       *)
(* closed: a ping under way fails.                                         *)
LEMMA LostClosed == TypeOK /\ Ending /\ ~pingDone /\ Lost => ~open
  BY DEF TypeOK, Ending, Lost, Serving, Alive

(* The ping goroutine ends with its next tick, or earlier.                 *)
LEMMA PingerInTimeNext ==
  TypeOK /\ Ending /\ HandlerInTime /\ PingerInTime /\ [Next]_vars => PingerInTime'
<1> SUFFICES ASSUME TypeOK, TypeOK', Ending, HandlerInTime, HandlerInTime', PingerInTime,
                    [Next]_vars, pinger' \in {"select", "writing"}
             PROVE  PingerInTime'
  BY NextType, HandlerInTimeNext DEF PingerInTime, Alive, TypeOK
<1> DEFINE PingVars == <<pinger, ticked, ticker, pingDone>>
<1>1. /\ gone \in Nat /\ gone' \in Nat /\ PingPeriod \in Nat /\ EndTime \in Nat
      /\ ticker \in Nat \ {0} /\ ticker' \in Nat \ {0}
      /\ ticker <= PingPeriod /\ ticker' <= PingPeriod
  BY Times DEF TypeOK
<1>t. PICK g, t \in Nat : gone' = g /\ ticker' = t
  BY <1>1
<1>2. \A m, n, e \in Nat : m + n <= e => m <= e
  OBVIOUS
<1>3. Alive(pinger)
  BY DEF TypeOK, Next, HandlerStep, WriterStep, PingerStep, vars, connVars, handlerVars, writeVars, Alive, ReadPong,
        RequestDone, ReadFails, CleanUpDone, Return, WriterTake, WriterOK, WriterFails, WriterEnds,
        PingerTake, PingerOK, PingerFails, PingerEnds, ReadFrame, RequestPanics, Stall, Enqueue,
        PongArrives, PeerFails, ConnClosed, Tick, Crash
<1>4. CASE Tick
  <2>1. pinger' = pinger /\ pingDone' = pingDone /\ handler' = handler
    BY <1>4 DEF Tick, chanVars
  <2>2. CASE pingDone /\ stalled
    BY <1>4, <2>1, <2>2 DEF Tick, PingerInTime
  <2>5. CASE pingDone /\ ~stalled
    <3>1. Alive(handler)' /\ ~stalled'
      BY <1>3, <1>4, <2>1, <2>5 DEF Tick, Idle, Alive, Ending, TypeOK
    <3>2. gone' + HandlerLeft' <= EndTime
      BY <3>1 DEF HandlerInTime
    <3>3. HandlerLeft' \in Nat
      BY LeftNext
    <3>4. gone' <= EndTime
      BY <1>1, <1>2, <3>2, <3>3
    <3> QED BY <2>1, <2>5, <3>4 DEF PingerInTime
  <2>3. CASE ~pingDone /\ ~Lost
    <3>1. gone' = 0
      BY <1>4, <2>3 DEF Tick, Ending
    <3>2. g <= PingPeriod /\ g + t <= PingPeriod
      BY <1>1, <1>t, <3>1
    <3> QED BY <1>t, <2>1, <2>3, <3>2 DEF PingerInTime
  <2>4. CASE ~pingDone /\ Lost
    <3>1. pinger = "select" /\ ~ticked /\ ~open
      BY <1>3, <1>4, <2>4, LostClosed DEF Tick, Idle, Alive, TypeOK
    <3>2. gone + ticker <= PingPeriod
      BY <2>4, <3>1 DEF PingerInTime
    <3>3. g <= gone + 1
      BY <1>1, <1>t, <1>4 DEF Tick
    <3>4. (ticker = 1 => ticked') /\ (ticker # 1 => t = ticker - 1)
      BY <1>t, <1>4, <3>1 DEF Tick
    <3>5. g <= PingPeriod /\ (ticker # 1 => g + t <= PingPeriod)
      BY <1>1, <3>2, <3>3, <3>4
    <3> QED BY <1>t, <2>1, <2>4, <3>4, <3>5 DEF PingerInTime
  <2> QED BY <2>2, <2>3, <2>4, <2>5
<1>5. CASE ~Tick
  <2>1. gone' = gone
    BY <1>5, GoneStep
  <2>2. CASE ReadFails
    <3>1. ~stalled => gone + HandlerLeft <= EndTime /\ HandlerLeft \in Nat
      BY <2>2, HandlerLeftType DEF ReadFails, HandlerInTime, Alive
    <3>2. ~stalled => gone <= EndTime
      BY <1>1, <1>2, <3>1
    <3>3. stalled' = stalled /\ pingDone'
      BY <2>2 DEF ReadFails
    <3> QED BY <2>1, <3>2, <3>3 DEF PingerInTime
  <2>6. CASE ReadPong
    <3>1. g = 0
      BY <1>t, <2>1, <2>6 DEF ReadPong, Ending, Lost
    <3>2. g <= PingPeriod /\ g + t <= PingPeriod /\ g <= EndTime
      BY <1>1, <1>t, <3>1
    <3> QED BY <1>t, <3>2 DEF PingerInTime
  <2>7. CASE Stall
    BY <2>1, <2>7, <1>3 DEF Stall, PingerInTime, writeVars, tickVars, chanVars
  <2>3. CASE PingerTake
    BY <1>3, <2>1, <2>3 DEF PingerTake, PingerInTime, chanVars, Crash, Alive
  <2>4. CASE PingerOK
    <3>1. pingDone' = pingDone /\ open /\ stalled' = stalled
      BY <2>4 DEF PingerOK, chanVars, handlerVars
    <3>2. ~pingDone => gone = 0
      BY <3>1, LostClosed DEF Ending
    <3>3. ~pingDone => g <= PingPeriod /\ g + t <= PingPeriod
      BY <1>1, <1>t, <2>1, <3>2
    <3> QED BY <1>3, <1>t, <2>1, <3>1, <3>3 DEF PingerInTime
  <2>5. CASE ~(ReadFails \/ PingerTake \/ PingerOK \/ ReadPong \/ Stall)
    <3>1. UNCHANGED PingVars /\ stalled' = stalled
      BY <1>5, <2>5
      DEF Next, HandlerStep, WriterStep, PingerStep, vars, connVars, handlerVars, writeVars, tickVars,
          chanVars, Alive, RequestDone, CleanUpDone, Return, WriterTake, WriterOK, WriterFails,
          WriterEnds, PingerFails, PingerEnds, ReadFrame, RequestPanics, Enqueue, PongArrives, PeerFails, ConnClosed, Crash
    <3> QED BY <1>3, <2>1, <3>1 DEF PingerInTime
  <2> QED BY <2>2, <2>3, <2>4, <2>5, <2>6, <2>7
<1> QED BY <1>4, <1>5

(* Of a lost connection the handler and the write goroutine are gone       *)
(* within EndTime, and the ping goroutine as well, or with its next tick;  *)
(* unless a call without a timeout holds the handler.                      *)
THEOREM EndsSoon == Spec => []EndsInTime
<1>1. Init => EndInv
  <2>1. Init => Ending
    BY DEF Init, Ending, Lost, Serving, Alive
  <2>2. Init => HandlerInTime /\ WriterInTime /\ PingerInTime
    BY Times, WorkAdds, EndTimeIs DEF Init, HandlerInTime, WriterInTime, PingerInTime, HandlerLeft
  <2> QED BY <2>1, <2>2, InitType DEF EndInv
<1>2. EndInv /\ [Next]_vars => EndInv'
  BY NextType, EndingNext, HandlerInTimeNext, WriterInTimeNext, PingerInTimeNext DEF EndInv
<1>3. EndInv => EndsInTime
  <2> SUFFICES ASSUME EndInv, ~stalled PROVE EndsInTime
    BY DEF EndsInTime
  <2>1. \A m, n \in Nat : m <= n => ~(m > n)
    OBVIOUS
  <2>2. \A m, n, e \in Nat : m + n <= e => m <= e
    OBVIOUS
  <2>3. gone \in Nat /\ HandlerLeft \in Nat /\ PingPeriod \in Nat /\ EndTime \in Nat
    BY Times, HandlerLeftType DEF EndInv, TypeOK
  <2>4. Alive(handler) => gone <= EndTime
    BY <2>2, <2>3 DEF EndInv, HandlerInTime
  <2>5. gone > EndTime => ~Alive(handler) /\ ~Alive(writer)
    BY <2>1, <2>3, <2>4 DEF EndInv, WriterInTime
  <2>6. gone > EndTime /\ gone > PingPeriod => ~Alive(pinger)
    BY <2>1, <2>3 DEF EndInv, PingerInTime
  <2> QED BY <2>5, <2>6 DEF EndInv, TypeOK, EndsInTime, Alive
<1> QED BY <1>1, <1>2, <1>3, PTL DEF Spec

(***************************************************************************)
(* Lifecycle, for any numbers of sessions and logins.                      *)
(***************************************************************************)

(* What main of either process still has to do while it starts.            *)
Starting ==
  /\ gateway = "opening" => depth < Len(Services)
  /\ gateway = "down" => depth = 0
  /\ authsvc = "starting" => done < Len(AuthSteps)

(* Both processes go through four steps.                                   *)
LEMMA Lengths == Len(Services) = 4 /\ Len(AuthSteps) = 4
  BY DEF Services, AuthSteps

(* Nothing runs at first.                                                  *)
LEMMA LifecycleInitType == LCInit => LCTypeOK /\ Starting
<1> SUFFICES ASSUME LCInit PROVE LCTypeOK /\ Starting
  OBVIOUS
<1>1. depth \in 0..Len(Services) /\ done \in 0..Len(AuthSteps)
  BY Lengths DEF LCInit
<1>2. login \in [Logins -> {"idle", "answered", "cut"} \cup Running] /\ phase \in [Sessions -> Phases]
  BY DEF LCInit, Phases
<1> QED BY <1>1, <1>2 DEF LCInit, LCTypeOK, Starting

(* Every step of a process keeps the types.                                *)
LEMMA ProcessType ==
  ASSUME LCTypeOK, Starting, GatewayStep \/ AuthStep \/ Expire
  PROVE  LCTypeOK' /\ Starting'
<1> USE Lengths DEF LCTypeOK, Starting, gatewayVars, authVars, markerVars, Phases, Running
<1>1. CASE StartGateway
  BY <1>1 DEF StartGateway
<1>2. CASE Open
  <2>1. /\ depth \in Nat /\ depth < 4 /\ depth' = depth + 1
        /\ clients' \subseteq clients \cup {Services[depth']}
        /\ clients \subseteq {Services[i] : i \in 1..depth}
        /\ gateway' \in {"listen", "opening"} /\ (gateway' = "opening" => depth' # 4)
    BY <1>2 DEF Open
  <2>2. depth' \in 0..4 /\ depth' \in 1..depth' /\ 1..depth \subseteq 1..depth'
    BY <2>1
  <2>3. clients' \subseteq {Services[i] : i \in 1..depth'}
    BY <2>1, <2>2
  <2>4. gateway' = "opening" => depth' < 4
    BY <2>1
  <2> QED BY <1>2, <2>1, <2>2, <2>3, <2>4 DEF Open
<1>3. CASE Serve \/ Shutdown
  BY <1>3 DEF Serve, Shutdown
<1>4. CASE CloseNext
  <2>1. /\ depth \in Nat /\ 0 < depth /\ depth <= 4 /\ depth' = depth - 1
        /\ clients' = clients \ {Services[depth]}
        /\ clients \subseteq {Services[i] : i \in 1..depth}
    BY <1>4 DEF CloseNext
  <2>2. depth' \in 0..4 /\ \A i \in 1..depth : i = depth \/ i \in 1..depth'
    BY <2>1
  <2>3. clients' \subseteq {Services[i] : i \in 1..depth'}
    BY <2>1, <2>2
  <2> QED BY <1>4, <2>2, <2>3 DEF CloseNext
<1>5. CASE Exit \/ GatewayCrash
  <2>1. GatewayGone
    BY <1>5 DEF Exit, GatewayCrash
  <2>2. phase' \in [Sessions -> Phases] /\ stranded' \in BOOLEAN
    BY <2>1 DEF GatewayGone
  <2>3. depth' = 0 /\ depth' \in 0..4 /\ clients' = {}
    BY <2>1 DEF GatewayGone
  <2> QED BY <2>1, <2>2, <2>3 DEF GatewayGone
<1>6. CASE StartAuth \/ StartStep \/ StartFails \/ GracefulStop \/ ServeReturns
  BY <1>6 DEF StartAuth, StartStep, StartFails, GracefulStop, ServeReturns
<1>7. CASE AuthCrash
  BY <1>7 DEF AuthCrash
<1>8. CASE Expire
  BY <1>8 DEF Expire
<1> QED BY <1>1, <1>2, <1>3, <1>4, <1>5, <1>6, <1>7, <1>8 DEF GatewayStep, AuthStep

(* Every step keeps the types.                                             *)
LEMMA LifecycleNextType == LCTypeOK /\ Starting /\ [LCNext]_lcVars => LCTypeOK' /\ Starting'
<1> SUFFICES ASSUME LCTypeOK, Starting, [LCNext]_lcVars PROVE LCTypeOK' /\ Starting'
  OBVIOUS
<1>1. CASE GatewayStep \/ AuthStep \/ Expire
  BY <1>1, ProcessType
<1> USE DEF LCTypeOK, Starting, gatewayVars, authVars, markerVars, Phases, Running
<1>2. ASSUME NEW r \in Logins,
             LoginCall(r) \/ LoginQuery(r) \/ LoginSet(r) \/ LoginAgain(r)
      PROVE  LCTypeOK' /\ Starting'
  BY <1>2, ZenonT(40) DEF LoginCall, LoginQuery, LoginSet, LoginAgain
<1>3. ASSUME NEW s \in Sessions,
             \/ Connect(s) \/ Register(s) \/ Switch(s) \/ SetMarker(s)
             \/ Disconnect(s) \/ Unregister(s) \/ DelMarker(s) \/ Panic(s)
      PROVE  LCTypeOK' /\ Starting'
  <2>1. phase' \in [Sessions -> Phases]
    BY <1>3 DEF Connect, Register, Switch, SetMarker, Disconnect, Unregister, DelMarker,
                Panic, Goto
  <2>2. marker' \in {"absent", "expiring", "lasting"} /\ stranded' \in BOOLEAN
    BY <1>3 DEF Connect, Register, Switch, SetMarker, Disconnect, Unregister, DelMarker, Panic
  <2>3. UNCHANGED <<gatewayVars, authVars, login>>
    BY <1>3 DEF Connect, Register, Switch, SetMarker, Disconnect, Unregister, DelMarker, Panic
  <2> QED BY <2>1, <2>2, <2>3
<1>4. CASE UNCHANGED lcVars
  BY <1>4 DEF lcVars
<1> QED BY <1>1, <1>2, <1>3, <1>4 DEF LCNext

(* Types; and what is open was opened and not closed.                      *)
THEOREM LifecycleTypeCorrect == LCSpec => []LCTypeOK
<1>1. LCSpec => [](LCTypeOK /\ Starting)
  BY LifecycleInitType, LifecycleNextType, PTL DEF LCSpec
<1> QED BY <1>1, PTL

-----------------------------------------------------------------------------

(* The sessions that will delete the key, or try to.                       *)
Holds(s) == phase[s] \in {"set", "online", "del"}

(* A session that held the key holds it after the step, or failed, or the  *)
(* key is gone.                                                            *)
LEMMA HolderStep ==
  ASSUME LCTypeOK, [LCNext]_lcVars, NEW s \in Sessions, Holds(s)
  PROVE  Holds(s)' \/ stranded' \/ marker' # "lasting"
<1> USE DEF LCTypeOK, Holds, Goto, markerVars
<1>1. CASE GatewayStep
  BY <1>1 DEF GatewayStep, StartGateway, Open, Serve, Shutdown, CloseNext, Exit,
              GatewayCrash, GatewayGone
<1>2. CASE AuthStep
  BY <1>2 DEF AuthStep, StartAuth, StartStep, StartFails, GracefulStop, ServeReturns, AuthCrash
<1>3. CASE Expire \/ UNCHANGED lcVars
  BY <1>3 DEF Expire, lcVars
<1>4. ASSUME NEW r \in Logins,
             LoginCall(r) \/ LoginQuery(r) \/ LoginSet(r) \/ LoginAgain(r)
      PROVE  Holds(s)'
  BY <1>4 DEF LoginCall, LoginQuery, LoginSet, LoginAgain
<1>5. ASSUME NEW t \in Sessions,
             Connect(t) \/ Register(t) \/ SetMarker(t) \/ Disconnect(t) \/ Unregister(t)
      PROVE  Holds(s)'
  BY <1>5 DEF Connect, Register, SetMarker, Disconnect, Unregister
<1>6. ASSUME NEW t \in Sessions, Switch(t) \/ DelMarker(t) \/ Panic(t)
      PROVE  stranded' \/ marker' # "lasting"
  BY <1>6 DEF Switch, DelMarker, Panic
<1> QED BY <1>1, <1>2, <1>3, <1>4, <1>5, <1>6 DEF LCNext

(* Only a session makes the key last, and a step that clears `stranded`    *)
(* sets the key anew or deletes it.                                        *)
LEMMA MarkerWriters ==
  ASSUME LCTypeOK, [LCNext]_lcVars, marker' = "lasting"
  PROVE  \/ marker = "lasting" /\ (stranded => stranded')
         \/ \E s \in Sessions : Holds(s)'
<1> USE DEF LCTypeOK, markerVars
<1>1. CASE GatewayStep
  BY <1>1 DEF GatewayStep, StartGateway, Open, Serve, Shutdown, CloseNext, Exit,
              GatewayCrash, GatewayGone
<1>2. CASE AuthStep
  BY <1>2 DEF AuthStep, StartAuth, StartStep, StartFails, GracefulStop, ServeReturns, AuthCrash
<1>3. CASE Expire \/ UNCHANGED lcVars
  BY <1>3 DEF Expire, lcVars
<1>4. ASSUME NEW r \in Logins,
             LoginCall(r) \/ LoginQuery(r) \/ LoginSet(r) \/ LoginAgain(r)
      PROVE  marker = "lasting" /\ (stranded => stranded')
  BY <1>4 DEF LoginCall, LoginQuery, LoginSet, LoginAgain
<1>5. ASSUME NEW s \in Sessions, SetMarker(s) PROVE Holds(s)'
  BY <1>5 DEF SetMarker, Holds, Goto
<1>6. ASSUME NEW s \in Sessions,
             \/ Connect(s) \/ Register(s) \/ Switch(s)
             \/ Disconnect(s) \/ Unregister(s) \/ DelMarker(s) \/ Panic(s)
      PROVE  marker = "lasting" /\ (stranded => stranded')
  BY <1>6 DEF Connect, Register, Switch, Disconnect, Unregister, DelMarker, Panic
<1> QED BY <1>1, <1>2, <1>3, <1>4, <1>5, <1>6 DEF LCNext

(* A key without a time to live has a session that will delete it, or was  *)
(* left by one that could not.                                             *)
THEOREM MarkerHolds == LCSpec => []MarkerExplained
<1>1. LCInit => MarkerExplained
  BY DEF LCInit, MarkerExplained
<1>2. LCTypeOK /\ MarkerExplained /\ [LCNext]_lcVars => MarkerExplained'
  <2> SUFFICES ASSUME LCTypeOK, MarkerExplained, [LCNext]_lcVars, marker' = "lasting"
               PROVE  stranded' \/ \E s \in Sessions : Holds(s)'
    BY DEF MarkerExplained, Holds
  <2>1. CASE marker = "lasting" /\ (stranded => stranded')
    BY <2>1, HolderStep DEF MarkerExplained, Holds
  <2> QED BY <2>1, MarkerWriters
<1> QED BY <1>1, <1>2, LifecycleTypeCorrect, PTL DEF LCSpec
=============================================================================
