------------------------- MODULE TcpTransportProofs -------------------------
(***************************************************************************)
(* TcpTransport for any number of addresses, payloads and faults: the      *)
(* events of a transport keep the contract of LinkEvents, and a call that  *)
(* waits for ever has one of four reasons.                                 *)
(***************************************************************************)
EXTENDS TcpTransport, FiniteSetTheorems, TLAPS

Messages == {"write", "ping"}
Failures == {"send", "receive", "forced"}

PubType == [doing : {"run", "write", "ping", "fail", "over"}, chan : Nat, active : BOOLEAN,
            pending : Nat, payloads : Nat, pinged : BOOLEAN, seen : Nat]

\* The current connection has met a fault, or will be told that it has.
Doomed == \/ snd = "fail" \/ rcv = "fail"
          \/ failChan[conn] # <<>>
          \/ pub.doing = "fail" /\ pub.chan = conn

\* The controller has given up the last connection in order to make another.
Again == ctl \in {"dial", "report", "backoff"} \/ (ctl = "join" /\ after = "report")

\* A connection costs a fault, so that there is a channel for each of them.
ChanInv ==
    /\ faults \in 0 .. MaxFaults
    /\ conn \in Nat /\ conn <= faults + 1
    /\ Again \/ (ctl = "up" /\ Doomed) => conn <= faults
    /\ pub \in PubType /\ pub.chan <= conn
    /\ pub.pending <= pub.payloads
    /\ failChan \in [Conns -> Seq(Failures)] /\ sendChan \in [Conns -> Seq(Messages)]
    /\ \A c \in Conns : c > conn => failChan[c] = <<>>

\* What the goroutines do agrees with what has been told.
ToldInv ==
    /\ told \in {"down", "up", "over"}
    /\ after \in {"report", "last"}
    /\ told = "over" => ctl = "done"
    /\ ctl \in {"dial", "backoff"} => told = "down"
    /\ ctl \notin {"up", "join"} => snd = "off" /\ rcv = "off"
    /\ snd = "start" => told = "down"
    /\ snd \in {"idle", "write", "ping", "fail"} => told = "up"
    /\ rcv \in {"ack", "pong"} => told = "up"
    /\ rcv # "off" /\ unanswered # <<>> => told = "up"
    /\ eventChan \in Seq(Types)

LinkInv == ChanInv /\ ToldInv

-----------------------------------------------------------------------------
LEMMA InitLink == Init => LinkInv
  <1> SUFFICES ASSUME Init PROVE LinkInv
    OBVIOUS
  <1> USE TcpAssumption DEF Init
  <1>1. pub \in PubType /\ pub.chan = 0 /\ pub.doing = "run"
    BY DEF PubType
  <1>2. 0 \in Conns
    BY DEF Conns
  <1>3. ChanInv
    BY <1>1, <1>2 DEF ChanInv, Again, Doomed
  <1>4. ToldInv
    BY DEF ToldInv
  <1> QED  BY <1>3, <1>4 DEF LinkInv

\* The channels of the current connection, and of the publisher's call, exist.
LEMMA ChansExist ==
    ASSUME ChanInv
    PROVE  conn \in Conns /\ pub.chan \in Conns /\ pub.chan \in Nat
  BY TcpAssumption DEF ChanInv, Conns, PubType

LEMMA ToldStep ==
    ASSUME LinkInv, [Next]_vars
    PROVE  ToldInv'
  <1> USE DEF LinkInv, ToldInv, Types
  <1>c. conn \in Conns
    BY ChansExist
  <1>1. CASE Connect
    BY <1>1 DEF Connect, Controlling, userVars, confVars, chanVars, eventVars
  <1>2. CASE ConnectFails
    BY <1>2 DEF ConnectFails, Controlling, userVars, confVars, Fault, Failed, chanVars, eventVars
  <1>3. CASE TakeFailure
    BY <1>3 DEF TakeFailure, Controlling, userVars, confVars, Disconnect, Failed, eventVars
  <1>4. CASE TakeStop
    BY <1>4 DEF TakeStop, Controlling, userVars, confVars, Disconnect, chanVars, eventVars
  <1>5. CASE Join
    BY <1>5 DEF Join, Controlling, userVars, confVars, Joined, chanVars, eventVars
  <1>6. CASE Report
    BY <1>6 DEF Report, Controlling, userVars, confVars, SendEvent, chanVars, eventVars
  <1>7. CASE ReconnectWait
    BY <1>7 DEF ReconnectWait, Controlling, userVars, confVars, chanVars, eventVars
  <1>8. CASE ReportFinished
    BY <1>8 DEF ReportFinished, Controlling, userVars, confVars, SendEvent, chanVars
  <1>9. CASE SenderStart
    BY <1>9 DEF SenderStart, Sending, controlVars, userVars, confVars, SendEvent, chanVars, eventVars
  <1>10. CASE SenderTakes
    BY <1>10, <1>c DEF SenderTakes, Sending, controlVars, userVars, confVars, eventVars, ChanInv, Messages
  <1>11. CASE SenderWrites
    BY <1>11 DEF SenderWrites, Sending, controlVars, userVars, confVars, Writing, chanVars, eventVars
  <1>12. CASE SenderError
    BY <1>12 DEF SenderError, Sending, controlVars, userVars, confVars, Fault, Writing, chanVars, eventVars
  <1>13. CASE SenderReports
    BY <1>13 DEF SenderReports, Sending, controlVars, userVars, confVars, eventVars
  <1>14. CASE SenderStops
    BY <1>14 DEF SenderStops, Sending, controlVars, userVars, confVars, StopsSender, chanVars, eventVars
  <1>15. CASE ReceiverReads
    BY <1>15 DEF ReceiverReads, Receiving, controlVars, userVars, confVars, eventVars
  <1>16. CASE ReceiverReports
    BY <1>16 DEF ReceiverReports, Receiving, controlVars, userVars, confVars, SendEvent
  <1>17. CASE ReceiverError
    BY <1>17 DEF ReceiverError, Receiving, controlVars, userVars, confVars, Fault, eventVars
  <1>18. CASE ReceiverFails
    BY <1>18 DEF ReceiverFails, Receiving, controlVars, userVars, confVars, eventVars
  <1>19. CASE ReceiverStops
    BY <1>19 DEF ReceiverStops, Receiving, controlVars, userVars, confVars, eventVars
  <1>20. CASE PublisherTakes
    BY <1>20 DEF PublisherTakes, Using, controlVars, chanVars
  <1>21. CASE PublisherCalls
    BY <1>21 DEF PublisherCalls, Using, controlVars, Fault, Call, chanVars
  <1>22. CASE PublisherReturns
    BY <1>22 DEF PublisherReturns, Using, controlVars
  <1>23. CASE Shutdown
    BY <1>23 DEF Shutdown, Using, controlVars, chanVars
  <1>24. CASE ReloadConfig
    BY <1>24 DEF ReloadConfig, Using, controlVars, Fault, chanVars
  <1>25. CASE UNCHANGED vars
    BY <1>25 DEF vars, controlVars, userVars, confVars, eventVars, chanVars
  <1> QED
    BY <1>1, <1>2, <1>3, <1>4, <1>5, <1>6, <1>7, <1>8, <1>9, <1>10, <1>11, <1>12, <1>13, <1>14, <1>15, <1>16, <1>17, <1>18, <1>19, <1>20, <1>21, <1>22, <1>23, <1>24, <1>25
       DEF Next, Controller, Sender, Receiver, Publisher

\* What Call makes of the publisher's record.
LEMMA CallFields ==
    ASSUME pub \in PubType, conn \in Nat, NEW what \in {"write", "ping", "fail"}, NEW new \in BOOLEAN,
           Call(what, new)
    PROVE  /\ pub' \in PubType
           /\ pub'.doing = what /\ pub'.chan = conn /\ pub'.seen = pub.seen
           /\ pub'.active <=> pub.active /\ what # "fail"
           /\ pub'.pending = IF what = "write" THEN pub.pending + 1 ELSE pub.pending
           /\ pub'.payloads = IF new THEN pub.payloads + 1 ELSE pub.payloads
  <1> DEFINE n == IF what = "write" THEN pub.pending + 1 ELSE pub.pending
             m == IF new THEN pub.payloads + 1 ELSE pub.payloads
             g == pub.pinged \/ what = "ping"
             a == pub.active /\ what # "fail"
  <1>1. n \in Nat /\ m \in Nat
    BY DEF PubType
  <1>2. g \in BOOLEAN /\ a \in BOOLEAN
    OBVIOUS
  <1>3. pub' = [pub EXCEPT !.doing = what, !.chan = conn, !.pending = n, !.payloads = m, !.pinged = g,
                           !.active = a]
    BY DEF Call
  <1>4. a <=> pub.active /\ what # "fail"
    OBVIOUS
  <1> HIDE DEF n, m, g, a
  <1>5. pub' \in PubType /\ pub'.doing = what /\ pub'.chan = conn /\ pub'.seen = pub.seen
        /\ pub'.active = a /\ pub'.pending = n /\ pub'.payloads = m
    BY <1>1, <1>2, <1>3 DEF PubType
  <1> QED  BY <1>4, <1>5 DEF n, m

\* What an ACK makes of it.
LEMMA TakesAck ==
    ASSUME pub \in PubType, PublisherTakes, Head(eventChan) = "ack"
    PROVE  /\ IF pub.pending = 0 THEN pub' = pub
              ELSE /\ pub'.pending = pub.pending - 1 /\ pub'.payloads = pub.payloads - 1
                   /\ pub'.doing = pub.doing /\ pub'.chan = pub.chan
                   /\ pub'.active = pub.active /\ pub'.seen = pub.seen
           /\ pub.pending <= pub.payloads => pub' \in PubType
  <1>1. CASE pub.pending = 0
    BY <1>1 DEF PublisherTakes
  <1>2. CASE pub.pending # 0
    <2> DEFINE n == pub.pending - 1
               m == pub.payloads - 1
    <2>1. n \in Nat /\ m \in Int /\ (pub.pending <= pub.payloads => m \in Nat)
      BY <1>2 DEF PubType
    <2>2. pub' = [pub EXCEPT !.pending = n, !.payloads = m]
      BY <1>2 DEF PublisherTakes
    <2> HIDE DEF n, m
    <2>3. /\ pub'.pending = n /\ pub'.payloads = m /\ pub'.doing = pub.doing /\ pub'.chan = pub.chan
          /\ pub'.active = pub.active /\ pub'.seen = pub.seen
      BY <2>2 DEF PubType
    <2>4. m \in Nat => pub' \in PubType
      BY <2>1, <2>2 DEF PubType
    <2> QED  BY <1>2, <2>1, <2>3, <2>4 DEF n, m
  <1> QED  BY <1>1, <1>2

\* What a failure makes of it.
LEMMA TakesFailed ==
    ASSUME pub \in PubType, PublisherTakes, Head(eventChan) = "failed"
    PROVE  /\ pub' \in PubType
           /\ ~pub'.active /\ pub'.pending = 0 /\ pub'.payloads = pub.payloads
           /\ pub'.doing = pub.doing /\ pub'.chan = pub.chan /\ pub'.seen = pub.seen
  <1> DEFINE b == FALSE
  <1>1. b \in BOOLEAN /\ ~b
    OBVIOUS
  <1>2. pub' = [pub EXCEPT !.active = b, !.pending = 0, !.pinged = b]
    BY DEF PublisherTakes
  <1> HIDE DEF b
  <1>3. pub' \in PubType
    BY <1>1, <1>2 DEF PubType
  <1>4. pub'.active = b
    BY <1>2 DEF PubType
  <1>5. /\ pub'.pending = 0 /\ pub'.payloads = pub.payloads
        /\ pub'.doing = pub.doing /\ pub'.chan = pub.chan /\ pub'.seen = pub.seen
    BY <1>2 DEF PubType
  <1> QED  BY <1>1, <1>3, <1>4, <1>5

LEMMA ChanStep ==
    ASSUME LinkInv, [Next]_vars
    PROVE  ChanInv'
  <1> USE TcpAssumption DEF LinkInv, ChanInv, Again, Doomed
  <1>c. conn \in Conns /\ pub.chan \in Conns /\ pub.chan \in Nat
    BY ChansExist
  <1>1. CASE Connect
    <2>1. conn \in Nat /\ conn' = conn + 1 /\ conn <= faults /\ faults' = faults /\ ctl' = "up"
      BY <1>1 DEF Connect
    <2>2. conn' \in Conns /\ conn' > conn
      BY <2>1 DEF Conns
    <2>3. failChan' = failChan /\ sendChan' = sendChan /\ pub' = pub /\ snd' = "start" /\ rcv' = "read"
      BY <1>1 DEF Connect, chanVars, userVars, confVars
    <2>4. failChan'[conn'] = <<>>
      BY <2>2, <2>3
    <2>5. pub.chan < conn'
      BY <1>c, <2>1
    <2> QED  BY <1>c, <2>1, <2>2, <2>3, <2>4, <2>5
  <1>2. CASE ConnectFails
    BY <1>2, <1>c DEF ConnectFails, Controlling, userVars, confVars, Fault, Failed, chanVars, eventVars
  <1>3. CASE TakeFailure
    BY <1>3, <1>c DEF TakeFailure, Controlling, userVars, confVars, Disconnect, Failed, eventVars, Conns, Failures
  <1>4. CASE TakeStop
    BY <1>4, <1>c DEF TakeStop, Controlling, userVars, confVars, Disconnect, chanVars, eventVars
  <1>5. CASE Join
    BY <1>5, <1>c DEF ToldInv, Join, Controlling, userVars, confVars, Joined, chanVars, eventVars
  <1>6. CASE Report
    BY <1>6, <1>c DEF Report, Controlling, userVars, confVars, chanVars, eventVars
  <1>7. CASE ReconnectWait
    BY <1>7, <1>c DEF ReconnectWait, Controlling, userVars, confVars, chanVars, eventVars
  <1>8. CASE ReportFinished
    BY <1>8, <1>c DEF ReportFinished, Controlling, userVars, confVars, chanVars
  <1>9. CASE SenderStart
    BY <1>9, <1>c DEF SenderStart, Sending, controlVars, userVars, confVars, chanVars, eventVars
  <1>10. CASE SenderTakes
    <2>1. sendChan[conn] \in Seq(Messages) /\ sendChan[conn] # <<>>
      BY <1>10, <1>c DEF SenderTakes
    <2>2. Tail(sendChan[conn]) \in Seq(Messages) /\ Head(sendChan[conn]) \in Messages
      BY <2>1
    <2>3. sendChan' \in [Conns -> Seq(Messages)] /\ snd' \in Messages
      BY <1>10, <2>2 DEF SenderTakes
    <2> QED  BY <1>10, <1>c, <2>3 DEF SenderTakes, Sending, controlVars, userVars, confVars, Messages
  <1>11. CASE SenderWrites
    BY <1>11, <1>c DEF SenderWrites, Sending, controlVars, userVars, confVars, Writing, chanVars, eventVars
  <1>12. CASE SenderError
    BY <1>12, <1>c DEF SenderError, Sending, controlVars, userVars, confVars, Fault, Writing, chanVars, eventVars
  <1>13. CASE SenderReports
    BY <1>13, <1>c DEF SenderReports, Sending, controlVars, userVars, confVars, eventVars, Conns, Failures
  <1>14. CASE SenderStops
    BY <1>14, <1>c DEF SenderStops, Sending, controlVars, userVars, confVars, StopsSender, chanVars, eventVars
  <1>15. CASE ReceiverReads
    BY <1>15, <1>c DEF ReceiverReads, Receiving, controlVars, userVars, confVars, eventVars
  <1>16. CASE ReceiverReports
    BY <1>16, <1>c DEF ReceiverReports, Receiving, controlVars, userVars, confVars
  <1>17. CASE ReceiverError
    BY <1>17, <1>c DEF ReceiverError, Receiving, controlVars, userVars, confVars, Fault, eventVars
  <1>18. CASE ReceiverFails
    BY <1>18, <1>c DEF ReceiverFails, Receiving, controlVars, userVars, confVars, eventVars, Conns, Failures
  <1>19. CASE ReceiverStops
    BY <1>19, <1>c DEF ReceiverStops, Receiving, controlVars, userVars, confVars, eventVars
  <1>20. CASE PublisherTakes
    <2>1. Head(eventChan) \in Types
      BY <1>20 DEF PublisherTakes, ToldInv
    <2>2. pub' \in PubType /\ pub'.chan = pub.chan /\ pub'.doing # "fail" /\ pub'.pending <= pub'.payloads
      <3> USE <1>20, <2>1 DEF PublisherTakes, PubType
      <3>1. CASE Head(eventChan) = "started"
        <4> DEFINE a == ~stopping  n == pub.seen + 1
        <4>1. a \in BOOLEAN /\ n \in Nat
          OBVIOUS
        <4>2. pub' = [pub EXCEPT !.active = a, !.seen = n]
          BY <3>1
        <4> HIDE DEF a, n
        <4>3. pub' \in PubType /\ pub'.chan = pub.chan /\ pub'.doing = "run"
              /\ pub'.pending = pub.pending /\ pub'.payloads = pub.payloads
          BY <4>1, <4>2
        <4> QED  BY <4>3
      <3>2. CASE Head(eventChan) = "ack"
        <4> HIDE DEF PublisherTakes
        <4>1. pub.pending \in Nat /\ pub.payloads \in Nat /\ pub.doing = "run"
          BY DEF PublisherTakes
        <4> QED  BY <3>2, <4>1, TakesAck
      <3>3. CASE Head(eventChan) = "pong"
        BY <3>3
      <3>4. CASE Head(eventChan) = "failed"
        <4> HIDE DEF PublisherTakes
        <4>1. pub.payloads \in Nat /\ pub.doing = "run"
          BY DEF PublisherTakes
        <4> QED  BY <3>4, <4>1, TakesFailed
      <3>5. CASE Head(eventChan) = "finished"
        BY <3>5
      <3> QED  BY <3>1, <3>2, <3>3, <3>4, <3>5 DEF Types
    <2> QED  BY <1>20, <1>c, <2>2 DEF PublisherTakes, Using, controlVars, chanVars
  <1>21. CASE PublisherCalls
    <2>1. ASSUME NEW what \in {"write", "ping", "fail"}, NEW new \in BOOLEAN, Call(what, new)
          PROVE  /\ pub' \in PubType /\ pub'.chan = conn /\ pub'.doing = what
                 /\ pub'.pending = IF what = "write" THEN pub.pending + 1 ELSE pub.pending
                 /\ pub'.payloads = IF new THEN pub.payloads + 1 ELSE pub.payloads
      BY <2>1, CallFields
    <2>2. PICK what \in {"write", "ping", "fail"}, new \in BOOLEAN :
            /\ Call(what, new) /\ IF what = "fail" THEN Fault ELSE UNCHANGED faults
            /\ what = "write" => new \/ pub.pending < pub.payloads
      BY <1>21 DEF PublisherCalls
    <2>3. pub' \in PubType /\ pub'.chan = conn /\ (pub'.doing = "fail" <=> what = "fail")
          /\ pub'.pending <= pub'.payloads
      <3>1. pub.pending \in Nat /\ pub.payloads \in Nat
        BY DEF PubType
      <3> QED  BY <2>1, <2>2, <3>1
    <2>4. /\ conn' = conn /\ ctl' = ctl /\ after' = after /\ snd' = snd /\ rcv' = rcv
          /\ failChan' = failChan /\ sendChan' = sendChan
      BY <1>21 DEF PublisherCalls, Using, controlVars, chanVars
    <2>5. CASE what = "fail"
      BY <1>c, <2>2, <2>3, <2>4, <2>5 DEF Fault
    <2>6. CASE what # "fail"
      BY <1>c, <2>2, <2>3, <2>4, <2>6
    <2> QED  BY <2>5, <2>6
  <1>22. CASE PublisherReturns
    <2>1. pub' \in PubType /\ pub'.chan = pub.chan /\ pub'.doing = "run" /\ pub'.pending <= pub'.payloads
      BY <1>22 DEF PublisherReturns, PubType
    <2>2. /\ conn' = conn /\ ctl' = ctl /\ after' = after /\ snd' = snd /\ rcv' = rcv
          /\ faults' = faults
      BY <1>22 DEF PublisherReturns, Using, controlVars
    <2>3. CASE pub.doing = "fail"
      <3>1. failChan' = [failChan EXCEPT ![pub.chan] = Append(@, "forced")] /\ sendChan' = sendChan
        BY <1>22, <2>3 DEF PublisherReturns
      <3>2. failChan' \in [Conns -> Seq(Failures)]
        BY <1>c, <3>1 DEF Failures
      <3> QED  BY <1>c, <2>1, <2>2, <2>3, <3>1, <3>2
    <2>4. CASE pub.doing # "fail"
      <3>1. failChan' = failChan
            /\ sendChan' = [sendChan EXCEPT ![pub.chan] = Append(@, pub.doing)] /\ pub.doing \in Messages
        BY <1>22, <2>4 DEF PublisherReturns, Messages
      <3>2. sendChan' \in [Conns -> Seq(Messages)]
        BY <1>c, <3>1
      <3> QED  BY <1>c, <2>1, <2>2, <3>1, <3>2
    <2> QED  BY <2>3, <2>4
  <1>23. CASE Shutdown
    BY <1>23, <1>c DEF Shutdown, Using, controlVars, chanVars, PubType
  <1>24. CASE ReloadConfig
    BY <1>24, <1>c DEF ReloadConfig, Using, controlVars, Fault, chanVars
  <1>25. CASE UNCHANGED vars
    BY <1>25 DEF vars, controlVars, userVars, confVars, eventVars, chanVars
  <1> QED
    BY <1>1, <1>2, <1>3, <1>4, <1>5, <1>6, <1>7, <1>8, <1>9, <1>10, <1>11, <1>12, <1>13, <1>14, <1>15, <1>16, <1>17, <1>18, <1>19, <1>20, <1>21, <1>22, <1>23, <1>24, <1>25
       DEF Next, Controller, Sender, Receiver, Publisher

\* What each step does to the events.
LEMMA LinkStep ==
    ASSUME LinkInv, [Next]_vars
    PROVE  [Contract!LinkNext]_<<told, eventChan>>
  <1> USE DEF Contract!LinkNext
  <1> DEFINE Silent == UNCHANGED <<told, eventChan>>
  <1>1. CASE Connect
    BY <1>1 DEF Connect, eventVars
  <1>2. CASE ConnectFails
    BY <1>2 DEF ConnectFails, eventVars
  <1>3. CASE TakeFailure
    BY <1>3 DEF TakeFailure, eventVars
  <1>4. CASE TakeStop
    BY <1>4 DEF TakeStop, eventVars
  <1>5. CASE Join
    BY <1>5 DEF Join, eventVars
  <1>6. CASE Report
    BY <1>6 DEF Report, SendEvent, eventVars, Contract!Fails, Contract!Announce, LinkInv, ToldInv
  <1>7. CASE ReconnectWait
    BY <1>7 DEF ReconnectWait, eventVars
  <1>8. CASE ReportFinished
    BY <1>8 DEF ReportFinished, SendEvent, Contract!Finishes, Contract!Announce, LinkInv, ToldInv
  <1>9. CASE SenderStart
    BY <1>9 DEF SenderStart, Sending, SendEvent, eventVars, Contract!Starts, Contract!Announce, LinkInv, ToldInv
  <1>10. CASE SenderTakes
    BY <1>10 DEF SenderTakes, Sending, eventVars
  <1>11. CASE SenderWrites
    BY <1>11 DEF SenderWrites, Sending, eventVars
  <1>12. CASE SenderError
    BY <1>12 DEF SenderError, Sending, eventVars
  <1>13. CASE SenderReports
    BY <1>13 DEF SenderReports, Sending, eventVars
  <1>14. CASE SenderStops
    BY <1>14 DEF SenderStops, Sending, eventVars
  <1>15. CASE ReceiverReads
    BY <1>15 DEF ReceiverReads, Receiving, eventVars
  <1>16. CASE ReceiverReports
    BY <1>16 DEF ReceiverReports, Receiving, SendEvent, Contract!Answers, Contract!Announce, LinkInv, ToldInv
  <1>17. CASE ReceiverError
    BY <1>17 DEF ReceiverError, Receiving, eventVars
  <1>18. CASE ReceiverFails
    BY <1>18 DEF ReceiverFails, Receiving, eventVars
  <1>19. CASE ReceiverStops
    BY <1>19 DEF ReceiverStops, Receiving, eventVars
  <1>20. CASE PublisherTakes
    BY <1>20 DEF PublisherTakes, Using, Contract!Taken, Contract!Announce, LinkInv, ToldInv
  <1>21. CASE PublisherCalls
    BY <1>21 DEF PublisherCalls, Using
  <1>22. CASE PublisherReturns
    BY <1>22 DEF PublisherReturns, Using
  <1>23. CASE Shutdown
    BY <1>23 DEF Shutdown, Using
  <1>24. CASE ReloadConfig
    BY <1>24 DEF ReloadConfig, Using
  <1>25. CASE UNCHANGED vars
    BY <1>25 DEF vars, eventVars
  <1> QED
    BY <1>1, <1>2, <1>3, <1>4, <1>5, <1>6, <1>7, <1>8, <1>9, <1>10, <1>11, <1>12, <1>13, <1>14, <1>15, <1>16, <1>17, <1>18, <1>19, <1>20, <1>21, <1>22, <1>23, <1>24, <1>25
       DEF Next, Controller, Sender, Receiver, Publisher

\* The transport implements LinkEvents, for any number of faults: however the
\* controller, the sender and the receiver of transport.go interleave, an answer
\* comes only from an announced connection, and nothing after Finished.
THEOREM ContractKept == Spec => KeepsContract
  <1>1. Init => LinkInv
    BY InitLink
  <1>2. LinkInv /\ [Next]_vars => LinkInv'
    BY ToldStep, ChanStep DEF LinkInv
  <1>3. Init => Contract!LinkInit
    BY DEF Init, Contract!LinkInit
  <1>4. LinkInv /\ [Next]_vars => [Contract!LinkNext]_<<told, eventChan>>
    BY LinkStep
  <1> QED  BY <1>1, <1>2, <1>3, <1>4, PTL DEF Spec, KeepsContract, Contract!LinkSpec

-----------------------------------------------------------------------------
(* Why a call of the publisher waits.  Messages and events are counted: a    *)
(* payload the publisher counts as pending is on its way to the server or    *)
(* back, so that the payloads of a connection fit its channel.               *)

Calling == pub.doing \in {"write", "ping", "fail"}

\* The number of events or messages x in a channel.
Count(q, x) == Cardinality({i \in 1 .. Len(q) : q[i] = x})

\* The number of connections announced by the first n events.
StartsUpTo(q, n) == Cardinality({i \in 1 .. n : q[i] = "started"})

\* ACKs that come before the connection is reported lost.
Fresh(q) == {i \in 1 .. Len(q) : q[i] = "ack" /\ \A k \in 1 .. i - 1 : q[k] # "failed"}
FreshAcks(q) == Cardinality(Fresh(q))

One(p) == IF p THEN 1 ELSE 0

\* What the publisher is doing agrees with what it knows of its endpoint.
CallInv ==
    /\ stopping \in BOOLEAN
    /\ stopping => ~pub.active /\ ~Calling
    /\ pub.doing \in {"write", "ping"} => pub.active
    /\ pub.doing = "fail" => ~pub.active
    /\ pub.doing = "ping" => pub.pending = 0
    /\ Calling => pub.chan >= pub.seen
    /\ unanswered \in Seq(Messages)

\* The payloads that are not complete kept the limits there have been.
LimitInv ==
    /\ limits \in [now : Nat \ {0}, highest : Nat \ {0}] /\ limits.now <= limits.highest
    /\ netLimit \in Nat /\ sendCap \in [Conns -> Nat]
    /\ pub.payloads <= limits.highest

HasLoss(q) == \E k \in 1 .. Len(q) : q[k] = "failed"

\* Every announced connection is reported lost before the next is announced,
\* before it the one that the publisher knows, and in the end itself.
Separated(q) ==
    \A i, j \in 1 .. Len(q) : i < j /\ q[i] = "started" /\ q[j] = "started" =>
        \E k \in i + 1 .. j - 1 : q[k] = "failed"
LossFirst(q) == \A j \in 1 .. Len(q) : q[j] = "started" => \E k \in 1 .. j - 1 : q[k] = "failed"
LossLast(q) == \A i \in 1 .. Len(q) : q[i] = "started" => \E k \in i + 1 .. Len(q) : q[k] = "failed"

\* Every connection is announced, and reported lost before the next one is.
SeenInv ==
    ~stopping =>
        /\ pub.seen + StartsUpTo(eventChan, Len(eventChan)) + One(snd = "start") = conn
        /\ Separated(eventChan)
        /\ pub.active => LossFirst(eventChan)
        /\ pub.active /\ told = "down" => HasLoss(eventChan)
        /\ told = "down" => LossLast(eventChan)

\* A connection that the publisher has not seen is not used, but for late calls.
UnseenInv ==
    ~stopping =>
        /\ \A c \in Conns : c > pub.seen /\ c \notin late => sendChan[c] = <<>>
        /\ conn > pub.seen /\ conn \notin late =>
             snd \notin Messages /\ unanswered = <<>> /\ rcv \notin {"ack", "pong"}
        /\ \A j \in 1 .. Len(eventChan) :
             eventChan[j] = "ack" /\ StartsUpTo(eventChan, j) > 0 =>
                pub.seen + StartsUpTo(eventChan, j) \in late

\* The channel holds x; it holds at most one error of the sender.
Holds(q, x) == \E i \in 1 .. Len(q) : q[i] = x
SendOnce(q) == \A i, j \in 1 .. Len(q) : q[i] = "send" /\ q[j] = "send" => i = j

\* The sender reports one error, the publisher forces one failure.
FailInv ==
    /\ \A c \in Conns : SendOnce(failChan[c])
    /\ Holds(failChan[conn], "send") => snd = "off"
    /\ ~stopping => \A c \in Conns :
         c \notin late /\ Holds(failChan[c], "forced") =>
            /\ pub.seen >= c
            /\ pub.seen = c => ~pub.active
            /\ ~(pub.doing = "fail" /\ pub.chan = c)

\* Payloads that wait for the sender or in Write, and those on the way to the
\* server and back.
InChannel == Count(sendChan[pub.seen], "write")
InCall == One(pub.doing = "write" /\ pub.chan = pub.seen)
Underway == IF conn = pub.seen THEN One(snd = "write") + Count(unanswered, "write") + One(rcv = "ack") ELSE 0

PendingInv ==
    ~stopping /\ pub.active /\ pub.seen \notin late =>
        InChannel + InCall + Underway + FreshAcks(eventChan) <= pub.pending

StuckInv == CallInv /\ LimitInv /\ SeenInv /\ UnseenInv /\ FailInv /\ PendingInv

-----------------------------------------------------------------------------
(* Counting. *)

LEMMA PlacesFinite ==
    ASSUME NEW n \in Nat, NEW S \in SUBSET (1 .. n)
    PROVE  IsFiniteSet(S) /\ Cardinality(S) \in Nat
  <1>1. IsFiniteSet(1 .. n)
    BY FS_Interval, 1 \in Int, n \in Int
  <1>2. IsFiniteSet(S)
    BY <1>1, FS_Subset
  <1> QED  BY <1>2, FS_CardinalityType

LEMMA ShiftCard ==
    ASSUME NEW n \in Nat, NEW S \in SUBSET (1 .. n), NEW T \in SUBSET (2 .. n + 1),
           \A i \in 1 .. n : i \in S <=> i + 1 \in T
    PROVE  IsFiniteSet(T) /\ Cardinality(T) = Cardinality(S)
  <1> DEFINE f == [i \in S |-> i + 1]
  <1>1. \A i \in S : i \in 1 .. n /\ f[i] = i + 1 /\ f[i] \in T
    OBVIOUS
  <1>2. \A i, j \in S : f[i] = f[j] => i = j
    BY <1>1
  <1>3. \A t \in T : t - 1 \in S /\ f[t - 1] = t
    OBVIOUS
  <1>4. f \in [S -> T]
    BY <1>1
  <1>5. f \in Bijection(S, T)
    BY <1>2, <1>3, <1>4 DEF Bijection, Injection, Surjection, IsInjective
  <1>6. ExistsBijection(S, T)
    BY <1>5 DEF ExistsBijection
  <1> QED  BY <1>6, FS_Bijection, PlacesFinite

\* The same set with its first place taken off and the rest moved up.
LEMMA TailCard ==
    ASSUME NEW n \in Nat, NEW S \in SUBSET (1 .. n), NEW T \in SUBSET (1 .. n + 1),
           \A i \in 1 .. n : i \in S <=> i + 1 \in T
    PROVE  /\ Cardinality(S) \in Nat /\ Cardinality(T) \in Nat
           /\ Cardinality(T) = Cardinality(S) + One(1 \in T)
  <1> DEFINE U == T \ {1}
  <1>1. U \in SUBSET (2 .. n + 1) /\ \A i \in 1 .. n : i \in S <=> i + 1 \in U
    OBVIOUS
  <1>2. IsFiniteSet(U) /\ Cardinality(U) = Cardinality(S)
    BY <1>1, ShiftCard
  <1>3. IsFiniteSet(T) /\ Cardinality(T) \in Nat
    BY PlacesFinite, n + 1 \in Nat
  <1>4. Cardinality(U) = IF 1 \in T THEN Cardinality(T) - 1 ELSE Cardinality(T)
    BY <1>3, FS_RemoveElement
  <1>5. Cardinality(S) \in Nat
    BY PlacesFinite
  <1> QED  BY <1>2, <1>3, <1>4, <1>5 DEF One

LEMMA CountAppend ==
    ASSUME NEW V, NEW q \in Seq(V), NEW x \in V, NEW v
    PROVE  Count(q, v) \in Nat /\ Count(Append(q, x), v) = Count(q, v) + One(x = v)
  <1> DEFINE S == {i \in 1 .. Len(q) : q[i] = v}
             T == {i \in 1 .. Len(Append(q, x)) : Append(q, x)[i] = v}
             m == Len(q) + 1
  <1>1. Len(q) \in Nat /\ Len(Append(q, x)) = m /\ Append(q, x)[m] = x
        /\ \A i \in 1 .. Len(q) : Append(q, x)[i] = q[i]
    OBVIOUS
  <1>2. m \notin S /\ S \in SUBSET (1 .. Len(q))
    BY <1>1
  <1>3. IsFiniteSet(S) /\ Cardinality(S) \in Nat
    BY <1>1, <1>2, PlacesFinite
  <1>4. Count(q, v) = Cardinality(S) /\ Count(Append(q, x), v) = Cardinality(T)
    BY DEF Count
  <1>5. x = v => T = S \cup {m}
    BY <1>1
  <1>6. x # v => T = S
    BY <1>1
  <1>7. Cardinality(S \cup {m}) = Cardinality(S) + 1
    BY <1>2, <1>3, FS_AddElement
  <1> HIDE DEF S, T
  <1>8. CASE x = v
    <2>1. Cardinality(T) = Cardinality(S) + 1 /\ One(x = v) = 1
      BY <1>5, <1>7, <1>8 DEF One
    <2> QED  BY <1>3, <1>4, <2>1
  <1>9. CASE x # v
    <2>1. Cardinality(T) = Cardinality(S) /\ One(x = v) = 0
      BY <1>6, <1>9 DEF One
    <2> QED  BY <1>3, <1>4, <2>1
  <1> QED  BY <1>8, <1>9

LEMMA CountTail ==
    ASSUME NEW V, NEW q \in Seq(V), q # <<>>, NEW v
    PROVE  /\ Count(q, v) \in Nat /\ Count(Tail(q), v) \in Nat
           /\ Count(q, v) = Count(Tail(q), v) + One(Head(q) = v)
  <1> DEFINE n == Len(q) - 1
             S == {i \in 1 .. Len(Tail(q)) : Tail(q)[i] = v}
             T == {i \in 1 .. Len(q) : q[i] = v}
  <1>1. n \in Nat /\ Len(Tail(q)) = n /\ Len(q) = n + 1 /\ Head(q) = q[1]
        /\ \A i \in 1 .. n : Tail(q)[i] = q[i + 1]
    OBVIOUS
  <1>2. S \in SUBSET (1 .. n) /\ T \in SUBSET (1 .. n + 1) /\ \A i \in 1 .. n : i \in S <=> i + 1 \in T
    BY <1>1
  <1>3. 1 \in T <=> Head(q) = v
    BY <1>1
  <1>4. Count(Tail(q), v) = Cardinality(S) /\ Count(q, v) = Cardinality(T)
    BY DEF Count
  <1> HIDE DEF n, S, T
  <1>5. /\ Cardinality(S) \in Nat /\ Cardinality(T) \in Nat
        /\ Cardinality(T) = Cardinality(S) + One(1 \in T)
    BY <1>1, <1>2, TailCard
  <1> QED  BY <1>3, <1>4, <1>5 DEF One

LEMMA CountEmpty ==
    ASSUME NEW v
    PROVE  Count(<<>>, v) = 0
  <1>1. {i \in 1 .. Len(<<>>) : <<>>[i] = v} = {}
    OBVIOUS
  <1> QED  BY <1>1, FS_EmptySet DEF Count

\* A channel that holds nothing else.
LEMMA CountAll ==
    ASSUME NEW V, NEW q \in Seq(V), NEW v, \A i \in 1 .. Len(q) : q[i] = v
    PROVE  Count(q, v) = Len(q)
  <1>1. {i \in 1 .. Len(q) : q[i] = v} = 1 .. Len(q) /\ Len(q) \in Nat
    OBVIOUS
  <1>2. Cardinality(1 .. Len(q)) = IF 1 > Len(q) THEN 0 ELSE Len(q) - 1 + 1
    BY <1>1, FS_Interval, 1 \in Int, Len(q) \in Int
  <1>3. Count(q, v) = Cardinality(1 .. Len(q))
    BY <1>1 DEF Count
  <1> QED  BY <1>1, <1>2, <1>3

LEMMA StartsNat ==
    ASSUME NEW q, NEW n \in Nat
    PROVE  /\ StartsUpTo(q, n) \in Nat
           /\ StartsUpTo(q, n) = 0 <=> \A i \in 1 .. n : q[i] # "started"
  <1> DEFINE S == {i \in 1 .. n : q[i] = "started"}
  <1>1. IsFiniteSet(S) /\ Cardinality(S) \in Nat
    BY PlacesFinite
  <1> QED  BY <1>1, FS_EmptySet DEF StartsUpTo

LEMMA StartsAppend ==
    ASSUME NEW V, NEW q \in Seq(V), NEW x \in V
    PROVE  /\ \A n \in 0 .. Len(q) : StartsUpTo(Append(q, x), n) = StartsUpTo(q, n)
           /\ StartsUpTo(Append(q, x), Len(q) + 1) = StartsUpTo(q, Len(q)) + One(x = "started")
  <1>1. ASSUME NEW n \in 0 .. Len(q)
        PROVE  StartsUpTo(Append(q, x), n) = StartsUpTo(q, n)
    <2>1. {i \in 1 .. n : Append(q, x)[i] = "started"} = {i \in 1 .. n : q[i] = "started"}
      OBVIOUS
    <2> QED  BY <2>1 DEF StartsUpTo
  <1>2. Len(Append(q, x)) = Len(q) + 1
    OBVIOUS
  <1>3. /\ StartsUpTo(Append(q, x), Len(q) + 1) = Count(Append(q, x), "started")
        /\ StartsUpTo(q, Len(q)) = Count(q, "started")
    BY <1>2 DEF Count, StartsUpTo
  <1>4. Count(Append(q, x), "started") = Count(q, "started") + One(x = "started")
    BY CountAppend
  <1> QED  BY <1>1, <1>3, <1>4

LEMMA StartsTail ==
    ASSUME NEW V, NEW q \in Seq(V), q # <<>>, NEW n \in 0 .. Len(Tail(q))
    PROVE  /\ StartsUpTo(Tail(q), n) \in Nat
           /\ StartsUpTo(q, n + 1) = StartsUpTo(Tail(q), n) + One(Head(q) = "started")
  <1> DEFINE S == {i \in 1 .. n : Tail(q)[i] = "started"}
             T == {i \in 1 .. n + 1 : q[i] = "started"}
  <1>1. n \in Nat /\ Len(Tail(q)) = Len(q) - 1 /\ Head(q) = q[1]
        /\ \A i \in 1 .. n : Tail(q)[i] = q[i + 1]
    OBVIOUS
  <1>2. S \in SUBSET (1 .. n) /\ T \in SUBSET (1 .. n + 1) /\ \A i \in 1 .. n : i \in S <=> i + 1 \in T
    BY <1>1
  <1>3. 1 \in T <=> Head(q) = "started"
    BY <1>1
  <1>4. StartsUpTo(Tail(q), n) = Cardinality(S) /\ StartsUpTo(q, n + 1) = Cardinality(T)
    BY DEF StartsUpTo
  <1> HIDE DEF S, T
  <1>5. /\ Cardinality(S) \in Nat
        /\ Cardinality(T) = Cardinality(S) + One(1 \in T)
    BY <1>1, <1>2, TailCard
  <1> QED  BY <1>3, <1>4, <1>5 DEF One

\* An ACK that is added counts unless the connection has been reported lost.
LEMMA FreshAppend ==
    ASSUME NEW V, NEW q \in Seq(V), NEW x \in V
    PROVE  /\ FreshAcks(q) \in Nat
           /\ FreshAcks(Append(q, x)) \in Nat
           /\ FreshAcks(Append(q, x)) <= FreshAcks(q) + One(x = "ack")
           /\ x # "ack" \/ HasLoss(q) =>
                FreshAcks(Append(q, x)) = FreshAcks(q)
  <1> DEFINE S == Fresh(q)
             T == Fresh(Append(q, x))
             m == Len(q) + 1
  <1>1. Len(q) \in Nat /\ Len(Append(q, x)) = m /\ Append(q, x)[m] = x
        /\ \A i \in 1 .. Len(q) : Append(q, x)[i] = q[i]
    OBVIOUS
  <1>2. S \subseteq 1 .. Len(q) /\ T \subseteq 1 .. m
    BY <1>1 DEF Fresh
  <1>3. IsFiniteSet(S) /\ Cardinality(S) \in Nat /\ IsFiniteSet(T) /\ Cardinality(T) \in Nat /\ m \notin S
    <2>1. m \in Nat /\ S \in SUBSET (1 .. Len(q)) /\ T \in SUBSET (1 .. m) /\ m \notin S
      BY <1>1, <1>2
    <2> HIDE DEF S, T, m
    <2> QED  BY <1>1, <2>1, PlacesFinite
  <1>4. \A i \in 1 .. Len(q) : i \in T <=> i \in S
    BY <1>1 DEF Fresh
  <1>5. T = S \/ T = S \cup {m}
    BY <1>1, <1>2, <1>4
  <1>6. x # "ack" \/ HasLoss(q) => m \notin T
    BY <1>1 DEF Fresh, HasLoss
  <1>7. T = S \cup {m} => Cardinality(T) = Cardinality(S) + 1
    BY <1>3, FS_AddElement
  <1>8. x # "ack" \/ HasLoss(q) => T = S
    BY <1>5, <1>6
  <1> QED  BY <1>3, <1>5, <1>7, <1>8 DEF FreshAcks, One

LEMMA FreshTail ==
    ASSUME NEW V, NEW q \in Seq(V), q # <<>>, Head(q) # "failed"
    PROVE  /\ FreshAcks(q) \in Nat /\ FreshAcks(Tail(q)) \in Nat
           /\ FreshAcks(q) = FreshAcks(Tail(q)) + One(Head(q) = "ack")
  <1> DEFINE n == Len(q) - 1
             S == Fresh(Tail(q))
             T == Fresh(q)
  <1>1. n \in Nat /\ Len(Tail(q)) = n /\ Len(q) = n + 1 /\ Head(q) = q[1]
        /\ \A i \in 1 .. n : Tail(q)[i] = q[i + 1]
    OBVIOUS
  <1>2. S \in SUBSET (1 .. n) /\ T \in SUBSET (1 .. n + 1)
    BY <1>1 DEF Fresh
  <1>3. ASSUME NEW i \in 1 .. n
        PROVE  i \in S <=> i + 1 \in T
    <2>1. (\A k \in 1 .. i - 1 : Tail(q)[k] # "failed") <=> (\A k \in 1 .. (i + 1) - 1 : q[k] # "failed")
      <3>1. ASSUME \A k \in 1 .. i - 1 : Tail(q)[k] # "failed", NEW k \in 1 .. i
            PROVE  q[k] # "failed"
        <4>1. CASE k = 1  BY <4>1, <1>1
        <4>2. CASE k # 1
          <5>1. k - 1 \in 1 .. i - 1 /\ k - 1 \in 1 .. n /\ k = (k - 1) + 1
            BY <4>2, <1>1
          <5> QED  BY <5>1, <3>1, <1>1
        <4> QED  BY <4>1, <4>2
      <3>2. ASSUME \A k \in 1 .. i : q[k] # "failed", NEW k \in 1 .. i - 1
            PROVE  Tail(q)[k] # "failed"
        BY <3>2, <1>1
      <3> QED  BY <3>1, <3>2, (i + 1) - 1 = i
    <2>2. i \in 1 .. Len(Tail(q)) /\ i + 1 \in 1 .. Len(q) /\ Tail(q)[i] = q[i + 1]
      BY <1>1
    <2> QED  BY <2>1, <2>2 DEF Fresh
  <1>4. 1 \in T <=> Head(q) = "ack"
    BY <1>1 DEF Fresh
  <1>5. FreshAcks(Tail(q)) = Cardinality(S) /\ FreshAcks(q) = Cardinality(T)
    BY DEF FreshAcks
  <1> HIDE DEF n, S, T
  <1>6. /\ Cardinality(S) \in Nat /\ Cardinality(T) \in Nat
        /\ Cardinality(T) = Cardinality(S) + One(1 \in T)
    BY <1>1, <1>2, <1>3, TailCard
  <1> QED  BY <1>4, <1>5, <1>6 DEF One

LEMMA OrderAppend ==
    ASSUME NEW q \in Seq(Types), NEW x \in Types
    PROVE  /\ Separated(q) /\ (x = "started" => LossLast(q)) => Separated(Append(q, x))
           /\ LossFirst(q) /\ (x = "started" => HasLoss(q)) => LossFirst(Append(q, x))
           /\ HasLoss(q) \/ x = "failed" => HasLoss(Append(q, x))
           /\ x = "failed" \/ (LossLast(q) /\ x # "started") => LossLast(Append(q, x))
  <1> DEFINE p == Append(q, x)
  <1>1. Len(q) \in Nat /\ Len(p) = Len(q) + 1 /\ p[Len(q) + 1] = x /\ \A i \in 1 .. Len(q) : p[i] = q[i]
    OBVIOUS
  <1> HIDE DEF p
  <1>2. Separated(q) /\ (x = "started" => LossLast(q)) => Separated(p)
    <2> SUFFICES ASSUME Separated(q), x = "started" => LossLast(q),
                        NEW i \in 1 .. Len(p), NEW j \in 1 .. Len(p),
                        i < j, p[i] = "started", p[j] = "started"
                 PROVE  \E k \in i + 1 .. j - 1 : p[k] = "failed"
      BY DEF Separated
    <2>1. i \in 1 .. Len(q) /\ q[i] = "started"
      BY <1>1
    <2>2. CASE j \in 1 .. Len(q)
      <3>1. PICK k \in i + 1 .. j - 1 : q[k] = "failed"
        BY <1>1, <2>1, <2>2 DEF Separated
      <3> QED  BY <3>1, <2>2, <1>1
    <2>3. CASE j = Len(q) + 1
      <3>1. LossLast(q)
        BY <1>1, <2>3
      <3>2. PICK k \in i + 1 .. Len(q) : q[k] = "failed"
        BY <2>1, <3>1 DEF LossLast
      <3>3. k \in i + 1 .. j - 1 /\ k \in 1 .. Len(q)
        BY <1>1, <2>3
      <3> QED  BY <3>2, <3>3, <1>1
    <2> QED  BY <2>2, <2>3, <1>1
  <1>3. LossFirst(q) /\ (x = "started" => HasLoss(q)) => LossFirst(p)
    <2> SUFFICES ASSUME LossFirst(q), x = "started" => HasLoss(q),
                        NEW j \in 1 .. Len(p), p[j] = "started"
                 PROVE  \E k \in 1 .. j - 1 : p[k] = "failed"
      BY DEF LossFirst
    <2>1. CASE j \in 1 .. Len(q)
      BY <1>1, <2>1 DEF LossFirst
    <2>2. CASE j = Len(q) + 1
      BY <1>1, <2>2 DEF HasLoss
    <2> QED  BY <2>1, <2>2, <1>1
  <1>4. HasLoss(q) \/ x = "failed" => HasLoss(p)
    BY <1>1 DEF HasLoss
  <1>5. x = "failed" \/ (LossLast(q) /\ x # "started") => LossLast(p)
    <2> SUFFICES ASSUME x = "failed" \/ (LossLast(q) /\ x # "started"),
                        NEW i \in 1 .. Len(p), p[i] = "started"
                 PROVE  \E k \in i + 1 .. Len(p) : p[k] = "failed"
      BY DEF LossLast
    <2>1. i \in 1 .. Len(q) /\ q[i] = "started"
      BY <1>1
    <2>2. CASE x = "failed"
      BY <2>1, <2>2, <1>1
    <2>3. CASE LossLast(q)
      BY <2>1, <2>3, <1>1 DEF LossLast
    <2> QED  BY <2>2, <2>3
  <1> QED  BY <1>2, <1>3, <1>4, <1>5 DEF p

LEMMA OrderTail ==
    ASSUME NEW q \in Seq(Types), q # <<>>
    PROVE  /\ Separated(q) => Separated(Tail(q))
           /\ Separated(q) /\ Head(q) = "started" => LossFirst(Tail(q))
           /\ LossFirst(q) => Head(q) # "started"
           /\ LossFirst(q) /\ Head(q) # "failed" => LossFirst(Tail(q))
           /\ HasLoss(q) /\ Head(q) # "failed" => HasLoss(Tail(q))
           /\ LossLast(q) => LossLast(Tail(q))
           /\ LossLast(q) /\ Head(q) = "started" => HasLoss(Tail(q))
  <1> DEFINE p == Tail(q)
             n == Len(q) - 1
  <1>1. n \in Nat /\ Len(q) = n + 1 /\ Len(p) = n /\ Head(q) = q[1] /\ \A i \in 1 .. n : p[i] = q[i + 1]
    OBVIOUS
  <1>2. \A k \in 2 .. Len(q) : k - 1 \in 1 .. n /\ p[k - 1] = q[k]
    BY <1>1
  <1> HIDE DEF p, n
  <1>3. Separated(q) => Separated(p)
    <2> SUFFICES ASSUME Separated(q), NEW i \in 1 .. n, NEW j \in 1 .. n,
                        i < j, p[i] = "started", p[j] = "started"
                 PROVE  \E k \in i + 1 .. j - 1 : p[k] = "failed"
      BY <1>1 DEF Separated
    <2>1. PICK k \in (i + 1) + 1 .. (j + 1) - 1 : q[k] = "failed"
      BY <1>1 DEF Separated
    <2> QED  BY <2>1, <1>1, <1>2
  <1>4. Separated(q) /\ Head(q) = "started" => LossFirst(p)
    <2> SUFFICES ASSUME Separated(q), q[1] = "started", NEW j \in 1 .. n, p[j] = "started"
                 PROVE  \E k \in 1 .. j - 1 : p[k] = "failed"
      BY <1>1 DEF LossFirst
    <2>1. PICK k \in 1 + 1 .. (j + 1) - 1 : q[k] = "failed"
      BY <1>1 DEF Separated
    <2> QED  BY <2>1, <1>1, <1>2
  <1>5. LossFirst(q) => Head(q) # "started"
    BY <1>1 DEF LossFirst
  <1>6. LossFirst(q) /\ Head(q) # "failed" => LossFirst(p)
    <2> SUFFICES ASSUME LossFirst(q), q[1] # "failed", NEW j \in 1 .. n, p[j] = "started"
                 PROVE  \E k \in 1 .. j - 1 : p[k] = "failed"
      BY <1>1 DEF LossFirst
    <2>1. PICK k \in 1 .. (j + 1) - 1 : q[k] = "failed"
      BY <1>1 DEF LossFirst
    <2> QED  BY <2>1, <1>1, <1>2
  <1>7. HasLoss(q) /\ Head(q) # "failed" => HasLoss(p)
    BY <1>1, <1>2 DEF HasLoss
  <1>8. LossLast(q) => LossLast(p)
    <2> SUFFICES ASSUME LossLast(q), NEW i \in 1 .. n, p[i] = "started"
                 PROVE  \E k \in i + 1 .. n : p[k] = "failed"
      BY <1>1 DEF LossLast
    <2>1. PICK k \in (i + 1) + 1 .. Len(q) : q[k] = "failed"
      BY <1>1 DEF LossLast
    <2> QED  BY <2>1, <1>1, <1>2
  <1>9. LossLast(q) /\ Head(q) = "started" => HasLoss(p)
    <2> SUFFICES ASSUME LossLast(q), q[1] = "started" PROVE \E k \in 1 .. n : p[k] = "failed"
      BY <1>1 DEF HasLoss
    <2>1. PICK k \in 1 + 1 .. Len(q) : q[k] = "failed"
      BY <1>1 DEF LossLast
    <2> QED  BY <2>1, <1>1, <1>2
  <1> QED  BY <1>3, <1>4, <1>5, <1>6, <1>7, <1>8, <1>9 DEF p

\* A connection that has been announced and is not the one the publisher knows
\* comes after a loss.
LEMMA LossFound ==
    ASSUME NEW q \in Seq(Types), LossFirst(q), StartsUpTo(q, Len(q)) # 0
    PROVE  HasLoss(q)
  <1>1. PICK j \in 1 .. Len(q) : q[j] = "started"
    BY StartsNat, Len(q) \in Nat
  <1>2. PICK k \in 1 .. j - 1 : q[k] = "failed"
    BY <1>1 DEF LossFirst
  <1> QED  BY <1>2 DEF HasLoss

-----------------------------------------------------------------------------
(* What the publisher's steps do to its record, field by field. *)

LEMMA TakesFields ==
    ASSUME LinkInv, PublisherTakes
    PROVE  /\ eventChan # <<>> /\ Head(eventChan) \in Types /\ eventChan' = Tail(eventChan)
           /\ pub.doing = "run" /\ pub'.chan = pub.chan
           /\ pub'.doing = IF Head(eventChan) = "finished" THEN "over" ELSE "run"
           /\ pub'.seen = IF Head(eventChan) = "started" THEN pub.seen + 1 ELSE pub.seen
           /\ pub'.active => IF Head(eventChan) = "started" THEN ~stopping
                             ELSE pub.active /\ Head(eventChan) \in {"ack", "pong"}
           /\ pub'.pending = IF Head(eventChan) = "failed" THEN 0
                             ELSE IF Head(eventChan) = "ack" /\ pub.pending # 0 THEN pub.pending - 1
                             ELSE pub.pending
           /\ pub'.payloads <= pub.payloads
           /\ UNCHANGED <<snd, rcv, unanswered, told, conn, stopping, late, failChan, sendChan>>
  <1> USE DEF PublisherTakes, PubType
  <1>1. Head(eventChan) \in Types /\ pub \in PubType
    BY DEF LinkInv, ToldInv, ChanInv
  <1>2. UNCHANGED <<snd, rcv, unanswered, told, conn, stopping, late, failChan, sendChan>>
    BY DEF Using, controlVars, chanVars
  <1>3. CASE Head(eventChan) = "started"
    <2> DEFINE a == ~stopping  n == pub.seen + 1
    <2>1. a \in BOOLEAN /\ n \in Nat
      BY <1>1
    <2>2. pub' = [pub EXCEPT !.active = a, !.seen = n]
      BY <1>3
    <2>3. a => ~stopping
      OBVIOUS
    <2>4. n = pub.seen + 1
      OBVIOUS
    <2> HIDE DEF a, n
    <2>5. pub'.active = a /\ pub'.seen = n /\ pub'.pending = pub.pending /\ pub'.doing = pub.doing
          /\ pub'.chan = pub.chan /\ pub'.payloads = pub.payloads /\ pub.payloads \in Nat
      BY <2>1, <2>2, <1>1
    <2>6. eventChan # <<>> /\ eventChan' = Tail(eventChan) /\ pub.doing = "run"
      OBVIOUS
    <2> HIDE DEF PublisherTakes
    <2> QED  BY <1>1, <1>2, <1>3, <2>3, <2>4, <2>5, <2>6
  <1>4. CASE Head(eventChan) = "ack"
    <2>1. pub.pending \in Nat /\ pub.payloads \in Nat
          /\ eventChan # <<>> /\ eventChan' = Tail(eventChan) /\ pub.doing = "run"
      BY <1>1
    <2> HIDE DEF PublisherTakes
    <2> QED  BY <1>1, <1>2, <1>4, <2>1, TakesAck
  <1>5. CASE Head(eventChan) = "pong"
    BY <1>1, <1>2, <1>5
  <1>6. CASE Head(eventChan) = "failed"
    <2>1. eventChan # <<>> /\ eventChan' = Tail(eventChan) /\ pub.doing = "run" /\ pub.payloads \in Nat
      BY <1>1
    <2> HIDE DEF PublisherTakes
    <2> QED  BY <1>1, <1>2, <1>6, <2>1, TakesFailed
  <1>7. CASE Head(eventChan) = "finished"
    <2> DEFINE b == FALSE
    <2>1. pub' = [pub EXCEPT !.doing = "over", !.active = b] /\ b \in BOOLEAN /\ ~b
      BY <1>7
    <2> HIDE DEF b
    <2>2. /\ pub'.doing = "over" /\ pub'.seen = pub.seen /\ pub'.pending = pub.pending
          /\ pub'.chan = pub.chan /\ pub'.payloads = pub.payloads /\ pub.payloads \in Nat
      BY <1>1, <2>1
    <2>3. pub'.active = b
      BY <1>1, <2>1
    <2>4. eventChan # <<>> /\ eventChan' = Tail(eventChan) /\ pub.doing = "run"
      OBVIOUS
    <2> HIDE DEF PublisherTakes
    <2> QED  BY <1>1, <1>2, <1>7, <2>1, <2>2, <2>3, <2>4
  <1> QED  BY <1>1, <1>3, <1>4, <1>5, <1>6, <1>7 DEF Types

LEMMA CallsFields ==
    ASSUME LinkInv, PublisherCalls
    PROVE  /\ pub.doing = "run" /\ pub.active
           /\ pub'.doing \in {"write", "ping", "fail"} /\ pub'.chan = conn /\ pub'.seen = pub.seen
           /\ pub'.active <=> pub'.doing # "fail"
           /\ pub'.pending = IF pub'.doing = "write" THEN pub.pending + 1 ELSE pub.pending
           /\ pub'.payloads = pub.payloads \/ (pub.payloads < limits.now /\ pub'.payloads = pub.payloads + 1)
           /\ pub'.doing = "ping" => pub.pending = 0
           /\ UNCHANGED <<snd, rcv, unanswered, told, conn, stopping, late, failChan, sendChan, eventChan>>
  <1> USE DEF PublisherCalls, PubType
  <1>1. pub \in PubType /\ pub.active /\ conn \in Nat
    BY DEF LinkInv, ChanInv
  <1>2. UNCHANGED <<snd, rcv, unanswered, told, conn, stopping, late, failChan, sendChan, eventChan>>
    BY DEF Using, controlVars, chanVars
  <1>3. CASE pub.payloads < limits.now /\ Call("write", TRUE)
    BY <1>1, <1>2, <1>3, CallFields
  <1>4. CASE Call("write", FALSE)
    BY <1>1, <1>2, <1>4, CallFields
  <1>5. CASE pub.pending = 0 /\ Call("ping", FALSE)
    BY <1>1, <1>2, <1>5, CallFields
  <1>6. CASE Call("fail", FALSE)
    BY <1>1, <1>2, <1>6, CallFields
  <1> QED  BY <1>3, <1>4, <1>5, <1>6

LEMMA ReturnsFields ==
    ASSUME LinkInv, PublisherReturns
    PROVE  /\ Calling /\ pub'.doing = "run"
           /\ pub'.chan = pub.chan /\ pub'.seen = pub.seen /\ pub'.active = pub.active
           /\ pub'.pending = pub.pending
           /\ pub.doing = "fail" => /\ failChan' = [failChan EXCEPT ![pub.chan] = Append(@, "forced")]
                                    /\ sendChan' = sendChan
           /\ pub.doing # "fail" => /\ sendChan' = [sendChan EXCEPT ![pub.chan] = Append(@, pub.doing)]
                                    /\ failChan' = failChan
           /\ late' = IF pub.chan = pub.seen THEN late ELSE late \cup {pub.chan}
           /\ UNCHANGED <<snd, rcv, unanswered, told, conn, stopping, eventChan>>
  BY DEF PublisherReturns, PubType, LinkInv, ChanInv, Calling, Using, controlVars

LEMMA ShutdownFields ==
    ASSUME LinkInv, Shutdown
    PROVE  /\ pub.doing = "run" /\ stopping' = TRUE
           /\ pub'.doing = "run" /\ pub'.chan = pub.chan /\ pub'.seen = pub.seen /\ ~pub'.active
           /\ pub'.pending = pub.pending
           /\ UNCHANGED <<snd, rcv, unanswered, told, conn, late, failChan, sendChan, eventChan>>
  BY DEF Shutdown, PubType, LinkInv, ChanInv, Using, controlVars, chanVars

LEMMA CallStep ==
    ASSUME LinkInv, CallInv, SeenInv, [Next]_vars
    PROVE  CallInv'
  <1> USE TcpAssumption DEF CallInv, Calling
  <1>t. pub.seen \in Nat /\ pub.pending \in Nat /\ conn \in Nat
    BY DEF LinkInv, ChanInv, PubType
  <1>1. CASE Connect
    BY <1>1 DEF Connect, userVars, confVars
  <1>2. CASE ConnectFails
    BY <1>2 DEF ConnectFails, Controlling, userVars, confVars, Fault, Failed, chanVars, eventVars
  <1>3. CASE TakeFailure
    BY <1>3 DEF TakeFailure, Controlling, userVars, confVars, Disconnect, Failed, eventVars
  <1>4. CASE TakeStop
    BY <1>4 DEF TakeStop, Controlling, userVars, confVars, Disconnect, chanVars, eventVars
  <1>5. CASE Join
    BY <1>5 DEF Join, Controlling, userVars, confVars, Joined, chanVars, eventVars
  <1>6. CASE Report
    BY <1>6 DEF Report, Controlling, userVars, confVars, SendEvent, chanVars, eventVars
  <1>7. CASE ReconnectWait
    BY <1>7 DEF ReconnectWait, Controlling, userVars, confVars, chanVars, eventVars
  <1>8. CASE ReportFinished
    BY <1>8 DEF ReportFinished, Controlling, userVars, confVars, SendEvent, chanVars
  <1>9. CASE SenderStart
    BY <1>9 DEF SenderStart, Sending, controlVars, userVars, confVars, SendEvent, chanVars, eventVars
  <1>10. CASE SenderTakes
    BY <1>10 DEF SenderTakes, Sending, controlVars, userVars, confVars, eventVars, ChanInv, Messages
  <1>11. CASE SenderWrites
    BY <1>11 DEF SenderWrites, Sending, controlVars, userVars, confVars, Writing, Messages
  <1>12. CASE SenderError
    BY <1>12 DEF SenderError, Sending, controlVars, userVars, confVars, Fault, Writing, chanVars, eventVars
  <1>13. CASE SenderReports
    BY <1>13 DEF SenderReports, Sending, controlVars, userVars, confVars, eventVars
  <1>14. CASE SenderStops
    BY <1>14 DEF SenderStops, Sending, controlVars, userVars, confVars, StopsSender, chanVars, eventVars
  <1>15. CASE ReceiverReads
    BY <1>15 DEF ReceiverReads, Receiving, controlVars, userVars, confVars, eventVars
  <1>16. CASE ReceiverReports
    BY <1>16 DEF ReceiverReports, Receiving, controlVars, userVars, confVars, SendEvent
  <1>17. CASE ReceiverError
    BY <1>17 DEF ReceiverError, Receiving, controlVars, userVars, confVars, Fault, eventVars
  <1>18. CASE ReceiverFails
    BY <1>18 DEF ReceiverFails, Receiving, controlVars, userVars, confVars, eventVars
  <1>19. CASE ReceiverStops
    BY <1>19 DEF ReceiverStops, Receiving, controlVars, userVars, confVars, eventVars
  <1>20. CASE PublisherTakes
    BY <1>20, <1>t, TakesFields
  <1>21. CASE PublisherCalls
    <2>1. ~stopping
      BY <1>21, CallsFields
    <2>2. StartsUpTo(eventChan, Len(eventChan)) \in Nat
      BY StartsNat, Len(eventChan) \in Nat DEF LinkInv, ToldInv
    <2>3. conn >= pub.seen
      BY <1>t, <2>1, <2>2 DEF SeenInv, One
    <2> QED  BY <1>21, <1>t, <2>1, <2>3, CallsFields
  <1>22. CASE PublisherReturns
    BY <1>22, ReturnsFields
  <1>23. CASE Shutdown
    BY <1>23, ShutdownFields
  <1>24. CASE ReloadConfig
    BY <1>24 DEF ReloadConfig, Using, controlVars, Fault, chanVars
  <1>25. CASE UNCHANGED vars
    BY <1>25 DEF vars, controlVars, userVars, confVars, eventVars, chanVars
  <1> QED
    BY <1>1, <1>2, <1>3, <1>4, <1>5, <1>6, <1>7, <1>8, <1>9, <1>10, <1>11, <1>12, <1>13, <1>14, <1>15, <1>16, <1>17, <1>18, <1>19, <1>20, <1>21, <1>22, <1>23, <1>24, <1>25
       DEF Next, Controller, Sender, Receiver, Publisher

LEMMA SeenStep ==
    ASSUME LinkInv, SeenInv, [Next]_vars
    PROVE  SeenInv'
  <1> USE DEF SeenInv
  <1>t. /\ pub.seen \in Nat /\ conn \in Nat /\ eventChan \in Seq(Types) /\ Len(eventChan) \in Nat
        /\ StartsUpTo(eventChan, Len(eventChan)) \in Nat
    BY StartsNat, Len(eventChan) \in Nat DEF LinkInv, ChanInv, ToldInv, PubType
  <1>a. ASSUME NEW x \in Types, eventChan' = Append(eventChan, x)
        PROVE  /\ Len(eventChan') = Len(eventChan) + 1
               /\ StartsUpTo(eventChan', Len(eventChan')) = StartsUpTo(eventChan, Len(eventChan)) + One(x = "started")
    BY <1>t, <1>a, StartsAppend
  <1>1. CASE Connect
    <2>1. /\ conn' = conn + 1 /\ snd = "off" /\ snd' = "start"
          /\ UNCHANGED <<stopping, pub, eventChan, told>>
      BY <1>1 DEF Connect, userVars, confVars, eventVars, LinkInv, ToldInv
    <2> QED  BY <2>1, <1>t DEF One
  <1>2. CASE ConnectFails
    BY <1>2 DEF ConnectFails, Controlling, userVars, confVars, Fault, Failed, chanVars, eventVars
  <1>3. CASE TakeFailure
    BY <1>3 DEF TakeFailure, Controlling, userVars, confVars, Disconnect, Failed, eventVars
  <1>4. CASE TakeStop
    BY <1>4 DEF TakeStop, Controlling, userVars, confVars, Disconnect, chanVars, eventVars
  <1>5. CASE Join
    BY <1>5 DEF Join, Controlling, userVars, confVars, Joined, chanVars, eventVars
  <1>6. CASE Report
    <2>1. UNCHANGED <<stopping, pub, conn, snd>>
      BY <1>6 DEF Report, Controlling, userVars, confVars
    <2>2. CASE UNCHANGED eventVars
      BY <2>1, <2>2 DEF eventVars
    <2>3. CASE SendEvent("failed")
      <3>1. eventChan' = Append(eventChan, "failed") /\ told' = "down" /\ "failed" \in Types
        BY <2>3 DEF SendEvent, Types
      <3>2. One("failed" = "started") = 0
        BY DEF One
      <3>3. HasLoss(eventChan') /\ LossLast(eventChan') /\ (Separated(eventChan) => Separated(eventChan'))
            /\ (LossFirst(eventChan) => LossFirst(eventChan'))
        BY <3>1, <1>t, OrderAppend
      <3> QED  BY <1>t, <1>a, <2>1, <3>1, <3>2, <3>3
    <2> QED  BY <1>6, <2>2, <2>3 DEF Report, eventVars
  <1>7. CASE ReconnectWait
    BY <1>7 DEF ReconnectWait, Controlling, userVars, confVars, chanVars, eventVars
  <1>8. CASE ReportFinished
    <2>1. UNCHANGED <<stopping, pub, conn, snd>>
      BY <1>8 DEF ReportFinished, Controlling, userVars, confVars
    <2>2. eventChan' = Append(eventChan, "finished") /\ told' = "over" /\ "finished" \in Types
      BY <1>8 DEF ReportFinished, SendEvent, Types
    <2>3. One("finished" = "started") = 0
      BY DEF One
    <2>4. (Separated(eventChan) => Separated(eventChan')) /\ (LossFirst(eventChan) => LossFirst(eventChan'))
      BY <2>2, <1>t, OrderAppend
    <2> QED  BY <1>t, <1>a, <2>1, <2>2, <2>3, <2>4
  <1>9. CASE SenderStart
    <2>1. snd = "start" /\ told = "down" /\ UNCHANGED <<stopping, pub, conn>>
      BY <1>9 DEF SenderStart, Sending, controlVars, userVars, confVars, LinkInv, ToldInv
    <2>2. CASE stopping
      BY <2>1, <2>2
    <2>3. CASE ~stopping
      <3>1. eventChan' = Append(eventChan, "started") /\ told' = "up" /\ "started" \in Types /\ snd' = "idle"
        BY <1>9, <2>3 DEF SenderStart, SendEvent, Types
      <3>2. One(snd = "start") = 1 /\ One(snd' = "start") = 0
        BY <2>1, <3>1 DEF One
      <3>3. LossLast(eventChan) /\ Separated(eventChan) /\ (pub.active => LossFirst(eventChan) /\ HasLoss(eventChan))
        BY <2>1, <2>3
      <3>4. Separated(eventChan') /\ (pub.active => LossFirst(eventChan'))
        BY <3>1, <3>3, <1>t, OrderAppend
      <3>5. StartsUpTo(eventChan', Len(eventChan')) = StartsUpTo(eventChan, Len(eventChan)) + 1
        BY <3>1, <1>a DEF One
      <3>6. pub.seen + StartsUpTo(eventChan, Len(eventChan)) + 1 = conn
        BY <2>3, <3>2
      <3>7. pub.seen + StartsUpTo(eventChan', Len(eventChan')) + One(snd' = "start") = conn
        BY <1>t, <3>2, <3>5, <3>6
      <3> QED  BY <2>1, <3>1, <3>4, <3>7
    <2> QED  BY <2>2, <2>3
  <1>10. CASE SenderTakes
    <2>1. /\ snd = "idle" /\ snd' = Head(sendChan[conn]) /\ sendChan[conn] # <<>>
          /\ UNCHANGED <<stopping, pub, conn, eventChan, told>>
      BY <1>10 DEF SenderTakes, Sending, controlVars, userVars, confVars, eventVars
    <2>2. sendChan[conn] \in Seq(Messages)
      BY ChansExist DEF LinkInv, ChanInv
    <2>3. snd' \in Messages
      BY <2>1, <2>2
    <2>4. One(snd = "start") = 0 /\ One(snd' = "start") = 0
      BY <2>1, <2>3 DEF One, Messages
    <2> QED  BY <2>1, <2>4
  <1>11. CASE SenderWrites
    BY <1>11 DEF SenderWrites, Sending, controlVars, userVars, confVars, Writing, eventVars, One
  <1>12. CASE SenderError
    BY <1>12 DEF SenderError, Sending, controlVars, userVars, confVars, Writing, eventVars, One
  <1>13. CASE SenderReports
    BY <1>13 DEF SenderReports, Sending, controlVars, userVars, confVars, eventVars, One
  <1>14. CASE SenderStops
    BY <1>14 DEF SenderStops, Sending, controlVars, userVars, confVars, StopsSender, Writing, eventVars, One
  <1>15. CASE ReceiverReads
    BY <1>15 DEF ReceiverReads, Receiving, controlVars, userVars, confVars, eventVars
  <1>16. CASE ReceiverReports
    <2>1. UNCHANGED <<stopping, pub, conn, snd>>
      BY <1>16 DEF ReceiverReports, Receiving, controlVars, userVars, confVars
    <2>2. /\ rcv \in {"ack", "pong"} /\ eventChan' = Append(eventChan, rcv) /\ told = "up" /\ told' = "up"
          /\ rcv \in Types
      BY <1>16 DEF ReceiverReports, SendEvent, Types, LinkInv, ToldInv
    <2>3. One(rcv = "started") = 0
      BY <2>2 DEF One
    <2>4. (Separated(eventChan) => Separated(eventChan')) /\ (LossFirst(eventChan) => LossFirst(eventChan'))
      BY <2>2, <1>t, OrderAppend
    <2> QED  BY <1>t, <1>a, <2>1, <2>2, <2>3, <2>4
  <1>17. CASE ReceiverError
    BY <1>17 DEF ReceiverError, Receiving, controlVars, userVars, confVars, Fault, eventVars
  <1>18. CASE ReceiverFails
    BY <1>18 DEF ReceiverFails, Receiving, controlVars, userVars, confVars, eventVars
  <1>19. CASE ReceiverStops
    BY <1>19 DEF ReceiverStops, Receiving, controlVars, userVars, confVars, eventVars
  <1>20. CASE PublisherTakes
    <2>1. UNCHANGED <<stopping, conn, snd, told>>
      BY <1>20, TakesFields
    <2>2. CASE stopping
      BY <2>1, <2>2
    <2>3. CASE ~stopping
      <3> DEFINE q == eventChan  n == Len(Tail(q))
      <3>1. q \in Seq(Types) /\ q # <<>> /\ eventChan' = Tail(q) /\ Len(eventChan') = n /\ n + 1 = Len(q)
            /\ n \in 0 .. Len(Tail(q))
        BY <1>20, <1>t, TakesFields
      <3>2. StartsUpTo(Tail(q), n) \in Nat
            /\ StartsUpTo(q, Len(q)) = StartsUpTo(Tail(q), n) + One(Head(q) = "started")
        <4> HIDE DEF n
        <4>1. StartsUpTo(q, n + 1) = StartsUpTo(Tail(q), n) + One(Head(q) = "started")
              /\ StartsUpTo(Tail(q), n) \in Nat
          BY <3>1, StartsTail
        <4> QED  BY <3>1, <4>1
      <3>3. pub'.seen = pub.seen + One(Head(q) = "started")
        BY <1>20, <1>t, TakesFields DEF One
      <3>4. One(Head(q) = "started") \in Nat /\ One(snd = "start") \in Nat
        BY DEF One
      <3>5. Separated(Tail(q))
        BY <2>3, <3>1, OrderTail
      <3>6. told = "down" => LossLast(Tail(q))
        BY <2>3, <3>1, OrderTail
      <3>7. CASE Head(q) = "started"
        <4>1. LossFirst(Tail(q)) /\ (told = "down" => HasLoss(Tail(q)))
          BY <2>3, <3>1, <3>7, OrderTail
        <4> QED  BY <1>t, <2>1, <3>1, <3>2, <3>3, <3>4, <3>5, <3>6, <4>1
      <3>8. CASE Head(q) # "started"
        <4>1. pub'.active => pub.active /\ Head(q) # "failed"
          BY <1>20, <3>8, TakesFields
        <4>2. pub'.active => LossFirst(Tail(q)) /\ (told = "down" => HasLoss(Tail(q)))
          BY <2>3, <3>1, <4>1, OrderTail
        <4> QED  BY <1>t, <2>1, <3>1, <3>2, <3>3, <3>4, <3>5, <3>6, <4>2
      <3> QED  BY <3>7, <3>8
    <2> QED  BY <2>2, <2>3
  <1>21. CASE PublisherCalls
    BY <1>21, CallsFields
  <1>22. CASE PublisherReturns
    BY <1>22, ReturnsFields
  <1>23. CASE Shutdown
    BY <1>23, ShutdownFields
  <1>24. CASE ReloadConfig
    BY <1>24 DEF ReloadConfig, Using, controlVars, Fault, chanVars
  <1>25. CASE UNCHANGED vars
    BY <1>25 DEF vars, controlVars, userVars, confVars, eventVars, chanVars
  <1> QED
    BY <1>1, <1>2, <1>3, <1>4, <1>5, <1>6, <1>7, <1>8, <1>9, <1>10, <1>11, <1>12, <1>13, <1>14, <1>15, <1>16, <1>17, <1>18, <1>19, <1>20, <1>21, <1>22, <1>23, <1>24, <1>25
       DEF Next, Controller, Sender, Receiver, Publisher

LEMMA UnseenStep ==
    ASSUME LinkInv, CallInv, SeenInv, UnseenInv, [Next]_vars
    PROVE  UnseenInv'
  <1> USE DEF UnseenInv
  <1>t. /\ pub.seen \in Nat /\ conn \in Nat /\ eventChan \in Seq(Types) /\ Len(eventChan) \in Nat
        /\ StartsUpTo(eventChan, Len(eventChan)) \in Nat
        /\ conn \in Conns /\ sendChan \in [Conns -> Seq(Messages)] /\ pub.chan \in Conns /\ pub.chan \in Nat
    BY StartsNat, ChansExist, Len(eventChan) \in Nat DEF LinkInv, ChanInv, ToldInv, PubType
  <1>a. ASSUME NEW x \in Types \ {"ack"}, eventChan' = Append(eventChan, x), ~stopping
        PROVE  \A j \in 1 .. Len(eventChan') : eventChan'[j] = "ack" /\ StartsUpTo(eventChan', j) > 0 =>
                  pub.seen + StartsUpTo(eventChan', j) \in late
    <2> SUFFICES ASSUME NEW j \in 1 .. Len(eventChan'), eventChan'[j] = "ack", StartsUpTo(eventChan', j) > 0
                 PROVE  pub.seen + StartsUpTo(eventChan', j) \in late
      OBVIOUS
    <2>1. j \in 1 .. Len(eventChan) /\ eventChan[j] = "ack" /\ j \in 0 .. Len(eventChan)
      BY <1>a, <1>t
    <2>2. StartsUpTo(eventChan', j) = StartsUpTo(eventChan, j)
      BY <1>a, <1>t, <2>1, StartsAppend
    <2> QED  BY <2>1, <2>2, <1>a
  <1>1. CASE Connect
    BY <1>1 DEF Connect, userVars, confVars, chanVars, eventVars, Messages
  <1>2. CASE ConnectFails
    BY <1>2 DEF ConnectFails, Controlling, userVars, confVars, Fault, Failed, chanVars, eventVars
  <1>3. CASE TakeFailure
    BY <1>3 DEF TakeFailure, Controlling, userVars, confVars, Disconnect, Failed, eventVars
  <1>4. CASE TakeStop
    BY <1>4 DEF TakeStop, Controlling, userVars, confVars, Disconnect, chanVars, eventVars
  <1>5. CASE Join
    BY <1>5 DEF Join, Controlling, userVars, confVars, Joined, chanVars, eventVars
  <1>6. CASE Report
    <2>1. UNCHANGED <<stopping, pub, late, conn, snd, rcv, unanswered, sendChan>>
      BY <1>6 DEF Report, Controlling, userVars, confVars, chanVars
    <2>2. CASE UNCHANGED eventVars
      BY <2>1, <2>2 DEF eventVars
    <2>3. CASE SendEvent("failed")
      <3>1. eventChan' = Append(eventChan, "failed") /\ "failed" \in Types \ {"ack"}
        BY <2>3 DEF SendEvent, Types
      <3> QED  BY <1>a, <2>1, <3>1
    <2> QED  BY <1>6, <2>2, <2>3 DEF Report
  <1>7. CASE ReconnectWait
    BY <1>7 DEF ReconnectWait, Controlling, userVars, confVars, chanVars, eventVars
  <1>8. CASE ReportFinished
    <2>1. UNCHANGED <<stopping, pub, late, conn, snd, rcv, unanswered, sendChan>>
      BY <1>8 DEF ReportFinished, Controlling, userVars, confVars, chanVars
    <2>2. eventChan' = Append(eventChan, "finished") /\ "finished" \in Types \ {"ack"}
      BY <1>8 DEF ReportFinished, SendEvent, Types
    <2> QED  BY <1>a, <2>1, <2>2
  <1>9. CASE SenderStart
    <2>1. UNCHANGED <<stopping, pub, late, conn, rcv, unanswered, sendChan>>
      BY <1>9 DEF SenderStart, Sending, controlVars, userVars, confVars, chanVars
    <2>2. CASE stopping
      BY <2>1, <2>2
    <2>3. CASE ~stopping
      <3>1. eventChan' = Append(eventChan, "started") /\ "started" \in Types \ {"ack"} /\ snd' = "idle"
        BY <1>9, <2>3 DEF SenderStart, SendEvent, Types
      <3> QED  BY <1>a, <2>1, <2>3, <3>1 DEF Messages
    <2> QED  BY <2>2, <2>3
  <1>10. CASE SenderTakes
    <2>1. /\ sendChan[conn] # <<>> /\ sendChan' = [sendChan EXCEPT ![conn] = Tail(@)]
          /\ UNCHANGED <<stopping, pub, late, conn, rcv, unanswered, eventChan>>
      BY <1>10 DEF SenderTakes, Sending, controlVars, userVars, confVars, eventVars
    <2>2. ~stopping => ~(conn > pub.seen /\ conn \notin late)
      BY <2>1, <1>t
    <2>3. \A c \in Conns : c # conn => sendChan'[c] = sendChan[c]
      BY <2>1, <1>t
    <2> QED  BY <2>1, <2>2, <2>3
  <1>11. CASE SenderWrites
    BY <1>11 DEF SenderWrites, Sending, controlVars, userVars, confVars, Writing, chanVars, eventVars, Messages
  <1>12. CASE SenderError
    BY <1>12 DEF SenderError, Sending, controlVars, userVars, confVars, chanVars, eventVars, Messages
  <1>13. CASE SenderReports
    BY <1>13 DEF SenderReports, Sending, controlVars, userVars, confVars, eventVars, Messages
  <1>14. CASE SenderStops
    BY <1>14 DEF SenderStops, Sending, controlVars, userVars, confVars, chanVars, eventVars, Messages
  <1>15. CASE ReceiverReads
    BY <1>15 DEF ReceiverReads, Receiving, controlVars, userVars, confVars, eventVars
  <1>16. CASE ReceiverReports
    <2>1. /\ rcv \in {"ack", "pong"} /\ rcv' = "read" /\ eventChan' = Append(eventChan, rcv) /\ rcv \in Types
          /\ told = "up" /\ UNCHANGED <<stopping, pub, late, conn, snd, unanswered, sendChan>>
      BY <1>16 DEF ReceiverReports, Receiving, controlVars, userVars, confVars, SendEvent, Types, LinkInv, ToldInv
    <2>2. CASE rcv = "pong"
      BY <1>a, <2>1, <2>2
    <2>3. CASE rcv = "ack" /\ ~stopping
      <3>1. One(snd = "start") = 0 /\ One("ack" = "started") = 0
        BY <2>1 DEF One, LinkInv, ToldInv
      <3>2. pub.seen + StartsUpTo(eventChan, Len(eventChan)) = conn
        BY <1>t, <2>3, <3>1 DEF SeenInv
      <3>3. conn > pub.seen => conn \in late
        BY <2>3
      <3>4. ASSUME NEW j \in 1 .. Len(eventChan'), eventChan'[j] = "ack", StartsUpTo(eventChan', j) > 0
            PROVE  pub.seen + StartsUpTo(eventChan', j) \in late
        <4>1. CASE j \in 1 .. Len(eventChan)
          <5>1. eventChan[j] = "ack" /\ j \in 0 .. Len(eventChan)
            BY <1>t, <2>1, <3>4, <4>1
          <5>2. StartsUpTo(eventChan', j) = StartsUpTo(eventChan, j)
            BY <1>t, <2>1, <5>1, StartsAppend
          <5> QED  BY <2>3, <3>4, <4>1, <5>1, <5>2
        <4>2. CASE j = Len(eventChan) + 1
          <5>1. StartsUpTo(eventChan', Len(eventChan) + 1) = StartsUpTo(eventChan, Len(eventChan)) + One(rcv = "started")
            BY <1>t, <2>1, StartsAppend
          <5>2. StartsUpTo(eventChan', j) = StartsUpTo(eventChan, Len(eventChan))
            BY <1>t, <2>3, <3>1, <4>2, <5>1
          <5> QED  BY <1>t, <3>2, <3>3, <3>4, <5>2
        <4> QED  BY <1>t, <2>1, <4>1, <4>2
      <3> QED  BY <2>1, <2>3, <3>4
    <2> QED  BY <2>1, <2>2, <2>3
  <1>17. CASE ReceiverError
    BY <1>17 DEF ReceiverError, Receiving, controlVars, userVars, confVars, Fault, eventVars
  <1>18. CASE ReceiverFails
    BY <1>18 DEF ReceiverFails, Receiving, controlVars, userVars, confVars, eventVars
  <1>19. CASE ReceiverStops
    BY <1>19 DEF ReceiverStops, Receiving, controlVars, userVars, confVars, eventVars
  <1>20. CASE PublisherTakes
    <2>1. UNCHANGED <<stopping, late, conn, snd, rcv, unanswered, sendChan>>
      BY <1>20, TakesFields
    <2>2. CASE stopping
      BY <2>1, <2>2
    <2>3. CASE ~stopping
      <3> DEFINE q == eventChan
      <3>1. q \in Seq(Types) /\ q # <<>> /\ eventChan' = Tail(q) /\ Len(Tail(q)) + 1 = Len(q)
            /\ \A j \in 1 .. Len(Tail(q)) : Tail(q)[j] = q[j + 1]
        BY <1>20, <1>t, TakesFields
      <3>2. pub'.seen = pub.seen + One(Head(q) = "started") /\ pub'.seen >= pub.seen
        BY <1>20, <1>t, TakesFields DEF One
      <3>3. One(Head(q) = "started") \in Nat
        BY DEF One
      <3>4. ASSUME NEW j \in 1 .. Len(Tail(q)), Tail(q)[j] = "ack", StartsUpTo(Tail(q), j) > 0
            PROVE  pub'.seen + StartsUpTo(Tail(q), j) \in late
        <4>1. j + 1 \in 1 .. Len(q) /\ q[j + 1] = "ack" /\ j \in 0 .. Len(Tail(q))
          BY <3>1, <3>4
        <4>2. StartsUpTo(Tail(q), j) \in Nat
              /\ StartsUpTo(q, j + 1) = StartsUpTo(Tail(q), j) + One(Head(q) = "started")
          BY <3>1, <4>1, StartsTail
        <4>3. StartsUpTo(q, j + 1) > 0 /\ pub'.seen + StartsUpTo(Tail(q), j) = pub.seen + StartsUpTo(q, j + 1)
          BY <1>t, <3>2, <3>3, <3>4, <4>2
        <4> QED  BY <2>3, <4>1, <4>3
      <3>5. pub'.seen \in Nat
        BY <1>t, <3>2, <3>3
      <3>6. \A c \in Conns : c > pub'.seen => c > pub.seen
        BY <1>t, <3>2, <3>5 DEF Conns
      <3>7. conn > pub'.seen => conn > pub.seen
        BY <1>t, <3>2, <3>5
      <3> QED  BY <2>1, <2>3, <3>1, <3>4, <3>6, <3>7
    <2> QED  BY <2>2, <2>3
  <1>21. CASE PublisherCalls
    BY <1>21, CallsFields
  <1>22. CASE PublisherReturns
    <2>1. /\ UNCHANGED <<stopping, conn, snd, rcv, unanswered, eventChan>> /\ pub'.seen = pub.seen
          /\ late' = IF pub.chan = pub.seen THEN late ELSE late \cup {pub.chan}
      BY <1>22, ReturnsFields
    <2>2. \A c \in Conns : c # pub.chan => sendChan'[c] = sendChan[c]
      BY <1>22, <1>t, ReturnsFields
    <2>3. \A c \in Conns : c > pub.seen /\ c \notin late' => c # pub.chan /\ c \notin late
      BY <1>t, <2>1
    <2>4. late \subseteq late'
      BY <2>1
    <2> QED  BY <2>1, <2>2, <2>3, <2>4
  <1>23. CASE Shutdown
    BY <1>23, ShutdownFields
  <1>24. CASE ReloadConfig
    BY <1>24 DEF ReloadConfig, Using, controlVars, Fault, chanVars
  <1>25. CASE UNCHANGED vars
    BY <1>25 DEF vars, controlVars, userVars, confVars, eventVars, chanVars
  <1> QED
    BY <1>1, <1>2, <1>3, <1>4, <1>5, <1>6, <1>7, <1>8, <1>9, <1>10, <1>11, <1>12, <1>13, <1>14, <1>15, <1>16, <1>17, <1>18, <1>19, <1>20, <1>21, <1>22, <1>23, <1>24, <1>25
       DEF Next, Controller, Sender, Receiver, Publisher

\* What a failure taken from a channel, or added to it, leaves there.
LEMMA FailuresTail ==
    ASSUME NEW q \in Seq(Failures), q # <<>>
    PROVE  /\ SendOnce(q) => SendOnce(Tail(q))
           /\ \A x : Holds(Tail(q), x) => Holds(q, x)
  <1> DEFINE p == Tail(q)
  <1>1. \A i \in 1 .. Len(p) : i \in Int /\ i + 1 \in 1 .. Len(q) /\ p[i] = q[i + 1]
    OBVIOUS
  <1> HIDE DEF p
  <1>2. SendOnce(q) => SendOnce(p)
    <2> SUFFICES ASSUME SendOnce(q), NEW i \in 1 .. Len(p), NEW j \in 1 .. Len(p), p[i] = "send", p[j] = "send"
                 PROVE  i = j
      BY DEF SendOnce
    <2>1. i + 1 = j + 1
      BY <1>1 DEF SendOnce
    <2> QED  BY <1>1, <2>1
  <1>3. \A x : Holds(p, x) => Holds(q, x)
    BY <1>1 DEF Holds
  <1> QED  BY <1>2, <1>3 DEF p

LEMMA FailuresAppend ==
    ASSUME NEW q \in Seq(Failures), NEW x \in Failures
    PROVE  /\ SendOnce(q) /\ (x = "send" => ~Holds(q, "send")) => SendOnce(Append(q, x))
           /\ \A y : Holds(Append(q, x), y) => Holds(q, y) \/ x = y
  <1> DEFINE p == Append(q, x)
             n == Len(q) + 1
  <1>1. \A i \in 1 .. Len(p) : (i \in 1 .. Len(q) /\ p[i] = q[i]) \/ (i = n /\ p[i] = x)
    OBVIOUS
  <1> HIDE DEF p, n
  <1>2. SendOnce(q) /\ (x = "send" => ~Holds(q, "send")) => SendOnce(p)
    BY <1>1 DEF SendOnce, Holds
  <1>3. \A y : Holds(p, y) => Holds(q, y) \/ x = y
    BY <1>1 DEF Holds
  <1> QED  BY <1>2, <1>3 DEF p

LEMMA FailStep ==
    ASSUME LinkInv, CallInv, SeenInv, FailInv, [Next]_vars
    PROVE  FailInv'
  <1> USE DEF FailInv
  <1>t. /\ pub.seen \in Nat /\ conn \in Nat /\ Conns \subseteq Nat
        /\ conn \in Conns /\ failChan \in [Conns -> Seq(Failures)] /\ pub.chan \in Conns /\ pub.chan \in Nat
    BY TcpAssumption, ChansExist DEF LinkInv, ChanInv, PubType, Conns
  <1>1. CASE Connect
    <2>1. /\ conn' = conn + 1 /\ conn' \in Conns /\ failChan' = failChan /\ failChan[conn'] = <<>>
          /\ UNCHANGED <<stopping, pub, late>>
      BY <1>1, <1>t, TcpAssumption DEF Connect, userVars, confVars, chanVars, LinkInv, ChanInv, Again, Conns
    <2>2. ~Holds(failChan[conn'], "send")
      BY <2>1 DEF Holds
    <2> QED  BY <2>1, <2>2, <1>t
  <1>2. CASE ConnectFails
    BY <1>2 DEF ConnectFails, Controlling, userVars, confVars, Fault, Failed, chanVars, eventVars
  <1>3. CASE TakeFailure
    <2>1. /\ failChan[conn] \in Seq(Failures) /\ failChan[conn] # <<>>
          /\ failChan' = [failChan EXCEPT ![conn] = Tail(failChan[conn])]
          /\ UNCHANGED <<stopping, pub, late, conn, snd>>
      BY <1>3, <1>t DEF TakeFailure, Controlling, userVars, confVars, Disconnect
    <2>2. failChan'[conn] = Tail(failChan[conn]) /\ \A c \in Conns : c # conn => failChan'[c] = failChan[c]
      BY <2>1, <1>t
    <2>3. \A c \in Conns : SendOnce(failChan'[c]) /\ \A x : Holds(failChan'[c], x) => Holds(failChan[c], x)
      BY <2>1, <2>2, FailuresTail
    <2> QED  BY <1>t, <2>1, <2>3
  <1>4. CASE TakeStop
    BY <1>4 DEF TakeStop, Controlling, userVars, confVars, Disconnect, chanVars, eventVars
  <1>5. CASE Join
    BY <1>5 DEF Join, Controlling, userVars, confVars, Joined, chanVars, eventVars
  <1>6. CASE Report
    BY <1>6 DEF Report, Controlling, userVars, confVars, SendEvent, chanVars, eventVars
  <1>7. CASE ReconnectWait
    BY <1>7 DEF ReconnectWait, Controlling, userVars, confVars, chanVars, eventVars
  <1>8. CASE ReportFinished
    BY <1>8 DEF ReportFinished, Controlling, userVars, confVars, SendEvent, chanVars
  <1>9. CASE SenderStart
    BY <1>9 DEF SenderStart, Sending, controlVars, userVars, confVars, SendEvent, chanVars, eventVars
  <1>10. CASE SenderTakes
    BY <1>10 DEF SenderTakes, Sending, controlVars, userVars, confVars
  <1>11. CASE SenderWrites
    BY <1>11 DEF SenderWrites, Sending, controlVars, userVars, confVars, Writing, chanVars, eventVars
  <1>12. CASE SenderError
    BY <1>12 DEF SenderError, Sending, controlVars, userVars, confVars, Fault, Writing, chanVars, eventVars
  <1>13. CASE SenderReports
    <2>1. /\ failChan[conn] \in Seq(Failures) /\ failChan' = [failChan EXCEPT ![conn] = Append(failChan[conn], "send")]
          /\ snd = "fail" /\ snd' = "off" /\ UNCHANGED <<stopping, pub, late, conn>>
      BY <1>13, <1>t DEF SenderReports, Sending, controlVars, userVars, confVars
    <2>2. /\ failChan'[conn] = Append(failChan[conn], "send") /\ ~Holds(failChan[conn], "send")
          /\ \A c \in Conns : c # conn => failChan'[c] = failChan[c]
      BY <2>1, <1>t
    <2>3. \A c \in Conns : SendOnce(failChan'[c]) /\ (Holds(failChan'[c], "forced") => Holds(failChan[c], "forced"))
      BY <2>1, <2>2, FailuresAppend DEF Failures
    <2> QED  BY <1>t, <2>1, <2>3
  <1>14. CASE SenderStops
    BY <1>14 DEF SenderStops, Sending, controlVars, userVars, confVars, StopsSender, chanVars, eventVars
  <1>15. CASE ReceiverReads
    BY <1>15 DEF ReceiverReads, Receiving, controlVars, userVars, confVars, eventVars
  <1>16. CASE ReceiverReports
    BY <1>16 DEF ReceiverReports, Receiving, controlVars, userVars, confVars, SendEvent
  <1>17. CASE ReceiverError
    BY <1>17 DEF ReceiverError, Receiving, controlVars, userVars, confVars, Fault, eventVars
  <1>18. CASE ReceiverFails
    <2>1. /\ failChan[conn] \in Seq(Failures) /\ failChan' = [failChan EXCEPT ![conn] = Append(failChan[conn], "receive")]
          /\ UNCHANGED <<stopping, pub, late, conn, snd>>
      BY <1>18, <1>t DEF ReceiverFails, Receiving, controlVars, userVars, confVars
    <2>2. /\ failChan'[conn] = Append(failChan[conn], "receive")
          /\ \A c \in Conns : c # conn => failChan'[c] = failChan[c]
      BY <2>1, <1>t
    <2>3. \A c \in Conns : /\ SendOnce(failChan'[c])
                           /\ Holds(failChan'[c], "forced") => Holds(failChan[c], "forced")
                           /\ Holds(failChan'[c], "send") => Holds(failChan[c], "send")
      BY <2>1, <2>2, FailuresAppend DEF Failures
    <2> QED  BY <1>t, <2>1, <2>3
  <1>19. CASE ReceiverStops
    BY <1>19 DEF ReceiverStops, Receiving, controlVars, userVars, confVars, eventVars
  <1>20. CASE PublisherTakes
    <2>1. UNCHANGED <<stopping, late, conn, snd, failChan>> /\ pub'.doing # "fail"
      BY <1>20, TakesFields
    <2>2. ~stopping /\ pub'.seen = pub.seen => (pub'.active => pub.active)
      BY <1>20, <1>t, TakesFields
    <2>3. pub'.seen = pub.seen \/ pub'.seen = pub.seen + 1
      BY <1>20, TakesFields
    <2>4. \A c \in Conns : pub.seen >= c => pub'.seen >= c /\ (pub'.seen = c => pub'.seen = pub.seen)
      BY <1>t, <2>3
    <2> QED  BY <1>t, <2>1, <2>2, <2>4
  <1>21. CASE PublisherCalls
    <2>1. UNCHANGED <<stopping, late, conn, snd, failChan>> /\ pub.active /\ pub'.chan = conn /\ pub'.seen = pub.seen
      BY <1>21, CallsFields
    <2>2. ~stopping => conn >= pub.seen
      <3>1. StartsUpTo(eventChan, Len(eventChan)) \in Nat
        BY StartsNat, Len(eventChan) \in Nat DEF LinkInv, ToldInv
      <3> QED  BY <1>t, <3>1 DEF SeenInv, One
    <2>3. \A c \in Conns : ~stopping /\ pub.seen >= c /\ pub.seen # c => conn # c
      BY <1>t, <2>2
    <2> QED  BY <1>t, <2>1, <2>3
  <1>22. CASE PublisherReturns
    <2>1. /\ UNCHANGED <<stopping, conn, snd>> /\ pub'.doing = "run" /\ pub'.seen = pub.seen /\ pub'.active = pub.active
          /\ late' = IF pub.chan = pub.seen THEN late ELSE late \cup {pub.chan}
      BY <1>22, ReturnsFields
    <2>2. CASE pub.doing # "fail"
      <3>1. failChan' = failChan /\ late \subseteq late'
        BY <1>22, <2>1, <2>2, ReturnsFields
      <3> QED  BY <1>t, <2>1, <3>1
    <2>3. CASE pub.doing = "fail"
      <3>1. /\ failChan[pub.chan] \in Seq(Failures) /\ ~pub.active
            /\ failChan' = [failChan EXCEPT ![pub.chan] = Append(failChan[pub.chan], "forced")]
        BY <1>22, <1>t, <2>3, ReturnsFields DEF CallInv
      <3>2. /\ failChan'[pub.chan] = Append(failChan[pub.chan], "forced")
            /\ \A c \in Conns : c # pub.chan => failChan'[c] = failChan[c]
        BY <3>1, <1>t
      <3>3. \A c \in Conns : /\ SendOnce(failChan'[c])
                             /\ Holds(failChan'[c], "send") => Holds(failChan[c], "send")
        BY <3>1, <3>2, FailuresAppend DEF Failures
      <3>4. ASSUME ~stopping, NEW c \in Conns, c \notin late', Holds(failChan'[c], "forced")
            PROVE  pub.seen >= c /\ (pub.seen = c => ~pub.active)
        BY <1>t, <2>1, <3>1, <3>2, <3>4
      <3> QED  BY <1>t, <2>1, <3>3, <3>4
    <2> QED  BY <2>2, <2>3
  <1>23. CASE Shutdown
    BY <1>23, ShutdownFields
  <1>24. CASE ReloadConfig
    BY <1>24 DEF ReloadConfig, Using, controlVars, Fault, chanVars
  <1>25. CASE UNCHANGED vars
    BY <1>25 DEF vars, controlVars, userVars, confVars, eventVars, chanVars
  <1> QED
    BY <1>1, <1>2, <1>3, <1>4, <1>5, <1>6, <1>7, <1>8, <1>9, <1>10, <1>11, <1>12, <1>13, <1>14, <1>15, <1>16, <1>17, <1>18, <1>19, <1>20, <1>21, <1>22, <1>23, <1>24, <1>25
       DEF Next, Controller, Sender, Receiver, Publisher

\* A shutdown is not taken back.
LEMMA StoppedForGood ==
    ASSUME LinkInv, stopping, [Next]_vars
    PROVE  stopping'
  <1>1. CASE Connect
    BY <1>1 DEF Connect, Controlling, userVars, confVars, chanVars, eventVars
  <1>2. CASE ConnectFails
    BY <1>2 DEF ConnectFails, Controlling, userVars, confVars, Fault, Failed, chanVars, eventVars
  <1>3. CASE TakeFailure
    BY <1>3 DEF TakeFailure, Controlling, userVars, confVars, Disconnect, Failed, eventVars
  <1>4. CASE TakeStop
    BY <1>4 DEF TakeStop, Controlling, userVars, confVars, Disconnect, chanVars, eventVars
  <1>5. CASE Join
    BY <1>5 DEF Join, Controlling, userVars, confVars, Joined, chanVars, eventVars
  <1>6. CASE Report
    BY <1>6 DEF Report, Controlling, userVars, confVars, SendEvent, chanVars, eventVars
  <1>7. CASE ReconnectWait
    BY <1>7 DEF ReconnectWait, Controlling, userVars, confVars, chanVars, eventVars
  <1>8. CASE ReportFinished
    BY <1>8 DEF ReportFinished, Controlling, userVars, confVars, SendEvent, chanVars
  <1>9. CASE SenderStart
    BY <1>9 DEF SenderStart, Sending, controlVars, userVars, confVars, SendEvent, chanVars, eventVars
  <1>10. CASE SenderTakes
    BY <1>10 DEF SenderTakes, Sending, controlVars, userVars, confVars, eventVars, ChanInv, Messages
  <1>11. CASE SenderWrites
    BY <1>11 DEF SenderWrites, Sending, controlVars, userVars, confVars, Writing, chanVars, eventVars
  <1>12. CASE SenderError
    BY <1>12 DEF SenderError, Sending, controlVars, userVars, confVars, Fault, Writing, chanVars, eventVars
  <1>13. CASE SenderReports
    BY <1>13 DEF SenderReports, Sending, controlVars, userVars, confVars, eventVars
  <1>14. CASE SenderStops
    BY <1>14 DEF SenderStops, Sending, controlVars, userVars, confVars, StopsSender, chanVars, eventVars
  <1>15. CASE ReceiverReads
    BY <1>15 DEF ReceiverReads, Receiving, controlVars, userVars, confVars, eventVars
  <1>16. CASE ReceiverReports
    BY <1>16 DEF ReceiverReports, Receiving, controlVars, userVars, confVars, SendEvent
  <1>17. CASE ReceiverError
    BY <1>17 DEF ReceiverError, Receiving, controlVars, userVars, confVars, Fault, eventVars
  <1>18. CASE ReceiverFails
    BY <1>18 DEF ReceiverFails, Receiving, controlVars, userVars, confVars, eventVars
  <1>19. CASE ReceiverStops
    BY <1>19 DEF ReceiverStops, Receiving, controlVars, userVars, confVars, eventVars
  <1>20. CASE PublisherTakes
    BY <1>20 DEF PublisherTakes, Using, controlVars, chanVars
  <1>21. CASE PublisherCalls
    BY <1>21 DEF PublisherCalls, Using, controlVars, Fault, Call, chanVars
  <1>22. CASE PublisherReturns
    BY <1>22 DEF PublisherReturns, Using, controlVars
  <1>23. CASE Shutdown
    BY <1>23 DEF Shutdown, Using, controlVars, chanVars
  <1>24. CASE ReloadConfig
    BY <1>24 DEF ReloadConfig, Using, controlVars, Fault, chanVars
  <1>25. CASE UNCHANGED vars
    BY <1>25 DEF vars, controlVars, userVars, confVars, eventVars, chanVars
  <1> QED
    BY <1>1, <1>2, <1>3, <1>4, <1>5, <1>6, <1>7, <1>8, <1>9, <1>10, <1>11, <1>12, <1>13, <1>14, <1>15, <1>16, <1>17, <1>18, <1>19, <1>20, <1>21, <1>22, <1>23, <1>24, <1>25
       DEF Next, Controller, Sender, Receiver, Publisher

\* No ACK comes from a connection before it has been announced, but for a late
\* call: when it is announced, none of those in the channel is its own.
LEMMA NoneFresh ==
    ASSUME NEW q \in Seq(Types), q # <<>>, Head(q) = "started", Separated(q),
           NEW s \in Nat, NEW L, s + 1 \notin L,
           \A j \in 1 .. Len(q) : q[j] = "ack" /\ StartsUpTo(q, j) > 0 => s + StartsUpTo(q, j) \in L
    PROVE  FreshAcks(Tail(q)) = 0
  <1> DEFINE p == Tail(q)
  <1>1. LossFirst(p)
    BY OrderTail
  <1>2. Len(p) + 1 = Len(q) /\ \A i \in 1 .. Len(p) : i \in Nat /\ i + 1 \in 1 .. Len(q) /\ p[i] = q[i + 1]
    OBVIOUS
  <1>3. \A i \in 0 .. Len(p) : StartsUpTo(q, i + 1) = StartsUpTo(p, i) + One(Head(q) = "started")
    BY StartsTail
  <1>4. One(Head(q) = "started") = 1
    BY DEF One
  <1> HIDE DEF p
  <1>5. ASSUME NEW i \in Fresh(p)
        PROVE  FALSE
    <2>1. i \in 1 .. Len(p) /\ i \in 0 .. Len(p) /\ i \in Nat /\ p[i] = "ack" /\ \A k \in 1 .. i - 1 : p[k] # "failed"
      BY <1>2 DEF Fresh
    <2>2. ASSUME NEW j \in 1 .. i, p[j] = "started" PROVE FALSE
      <3>1. PICK k \in 1 .. j - 1 : p[k] = "failed"
        BY <1>1, <2>1, <2>2 DEF LossFirst
      <3> QED  BY <2>1, <3>1
    <2>3. StartsUpTo(p, i) = 0
      BY <2>1, <2>2, StartsNat
    <2>4. StartsUpTo(q, i + 1) = 1
      BY <1>3, <1>4, <2>1, <2>3
    <2>5. i + 1 \in 1 .. Len(q) /\ q[i + 1] = "ack"
      BY <1>2, <2>1
    <2> QED  BY <2>4, <2>5
  <1>6. Fresh(p) = {}
    BY <1>5
  <1> QED  BY <1>6, FS_EmptySet DEF FreshAcks, p

\* Where the publisher's payloads are, in numbers.
LEMMA PlacesNat ==
    ASSUME LinkInv, CallInv, SeenInv, ~stopping
    PROVE  /\ pub.seen \in Nat /\ conn \in Nat /\ pub.pending \in Nat /\ pub.seen <= conn
           /\ pub.seen \in Conns /\ conn \in Conns /\ sendChan[pub.seen] \in Seq(Messages)
           /\ unanswered \in Seq(Messages) /\ eventChan \in Seq(Types)
           /\ One(snd = "write") \in Nat /\ Count(unanswered, "write") \in Nat /\ One(rcv = "ack") \in Nat
           /\ InChannel \in Nat /\ InCall \in Nat /\ Underway \in Nat /\ FreshAcks(eventChan) \in Nat
  <1>1. pub.seen \in Nat /\ conn \in Nat /\ pub.pending \in Nat /\ eventChan \in Seq(Types) /\ conn \in Conns
    BY ChansExist DEF LinkInv, ChanInv, ToldInv, PubType
  <1>2. StartsUpTo(eventChan, Len(eventChan)) \in Nat
    BY <1>1, StartsNat, Len(eventChan) \in Nat
  <1>3. pub.seen <= conn
    BY <1>1, <1>2 DEF SeenInv, One
  <1>4. pub.seen \in Conns
    BY <1>1, <1>3, TcpAssumption DEF Conns
  <1>5. sendChan[pub.seen] \in Seq(Messages) /\ unanswered \in Seq(Messages)
    BY <1>4 DEF LinkInv, ChanInv, CallInv
  <1>6. "write" \in Messages /\ "ack" \in Types
    BY DEF Messages, Types
  <1>7. InChannel \in Nat /\ Count(unanswered, "write") \in Nat
    BY <1>5, <1>6, CountAppend DEF InChannel
  <1>8. FreshAcks(eventChan) \in Nat
    BY <1>1, <1>6, FreshAppend
  <1>9. One(snd = "write") \in Nat /\ One(rcv = "ack") \in Nat /\ InCall \in Nat
    BY DEF One, InCall
  <1>10. Underway \in Nat
    BY <1>7, <1>9 DEF Underway
  <1> QED  BY <1>1, <1>3, <1>4, <1>5, <1>7, <1>8, <1>9, <1>10

LEMMA PendingStep ==
    ASSUME LinkInv, CallInv, SeenInv, UnseenInv, PendingInv, [Next]_vars
    PROVE  PendingInv'
  <1>s. CASE stopping
    BY <1>s, StoppedForGood DEF PendingInv
  <1> SUFFICES ASSUME ~stopping PROVE PendingInv'
    BY <1>s
  <1> USE DEF PendingInv
  <1>t. /\ pub.seen \in Nat /\ conn \in Nat /\ pub.pending \in Nat /\ pub.seen <= conn
        /\ InChannel \in Nat /\ InCall \in Nat /\ Underway \in Nat /\ FreshAcks(eventChan) \in Nat
    BY PlacesNat
  <1>u. One(snd = "write") \in Nat /\ Count(unanswered, "write") \in Nat /\ One(rcv = "ack") \in Nat
    BY PlacesNat
  <1>v. eventChan \in Seq(Types) /\ sendChan[pub.seen] \in Seq(Messages) /\ unanswered \in Seq(Messages)
        /\ pub.seen \in Conns /\ conn \in Conns /\ sendChan \in [Conns -> Seq(Messages)]
    BY PlacesNat DEF LinkInv, ChanInv
  <1>d. \* the steps that move no payload
        ASSUME UNCHANGED <<stopping, pub, late, sendChan, conn, snd, unanswered, rcv, eventChan>>
        PROVE  PendingInv'
    BY <1>d DEF InChannel, InCall, Underway
  <1>e. \* those that add an event which is no ACK
        ASSUME NEW x \in Types \ {"ack"}, eventChan' = Append(eventChan, x),
               UNCHANGED <<stopping, pub, late, sendChan, conn, unanswered, rcv>>, snd' = "write" <=> snd = "write"
        PROVE  PendingInv'
    <2>1. FreshAcks(eventChan') = FreshAcks(eventChan)
      BY <1>e, <1>v, FreshAppend
    <2>2. InChannel' = InChannel /\ InCall' = InCall /\ Underway' = Underway
      BY <1>e DEF InChannel, InCall, Underway, One
    <2> QED  BY <1>e, <2>1, <2>2
  <1>f. \* those of the sender or the receiver that give one up
        ASSUME UNCHANGED <<stopping, pub, late, sendChan, conn, unanswered, eventChan>>,
               snd' = "write" => snd = "write", rcv' = "ack" => rcv = "ack"
        PROVE  PendingInv'
    <2>1. InChannel' = InChannel /\ InCall' = InCall
      BY <1>f DEF InChannel, InCall
    <2>2. One(snd' = "write") <= One(snd = "write") /\ One(rcv' = "ack") <= One(rcv = "ack")
          /\ One(snd' = "write") \in Nat /\ One(rcv' = "ack") \in Nat
      BY <1>f DEF One
    <2>3. Underway' \in Nat /\ Underway' <= Underway
      BY <1>f, <1>u, <2>2 DEF Underway
    <2> QED  BY <1>f, <1>t, <2>1, <2>3
  <1>1. CASE Connect
    <2>1. conn' = conn + 1 /\ UNCHANGED <<stopping, pub, late, sendChan, eventChan>>
      BY <1>1 DEF Connect, userVars, confVars, chanVars, eventVars
    <2>2. Underway' = 0
      BY <1>t, <2>1 DEF Underway
    <2>3. InChannel' = InChannel /\ InCall' = InCall
      BY <2>1 DEF InChannel, InCall
    <2> QED  BY <1>t, <2>1, <2>2, <2>3
  <1>2. CASE ConnectFails
    BY <1>2, <1>d DEF ConnectFails, Controlling, userVars, confVars, chanVars, eventVars
  <1>3. CASE TakeFailure
    BY <1>3, <1>d DEF TakeFailure, Controlling, userVars, confVars, Disconnect, eventVars
  <1>4. CASE TakeStop
    BY <1>4, <1>d DEF TakeStop, Controlling, userVars, confVars, Disconnect, chanVars, eventVars
  <1>5. CASE Join
    BY <1>5, <1>d DEF Join, Controlling, userVars, confVars, chanVars, eventVars
  <1>6. CASE Report
    <2>1. eventChan' = Append(eventChan, "failed") /\ "failed" \in Types \ {"ack"}
      BY <1>6 DEF Report, SendEvent, Types
    <2> QED  BY <1>6, <1>e, <2>1 DEF Report, Controlling, userVars, confVars, chanVars
  <1>7. CASE ReconnectWait
    BY <1>7, <1>d DEF ReconnectWait, Controlling, userVars, confVars, chanVars, eventVars
  <1>8. CASE ReportFinished
    <2>1. eventChan' = Append(eventChan, "finished") /\ "finished" \in Types \ {"ack"}
      BY <1>8 DEF ReportFinished, SendEvent, Types
    <2> QED  BY <1>8, <1>e, <2>1 DEF ReportFinished, Controlling, userVars, confVars, chanVars
  <1>9. CASE SenderStart
    <2>1. eventChan' = Append(eventChan, "started") /\ "started" \in Types \ {"ack"} /\ snd = "start" /\ snd' = "idle"
      BY <1>9 DEF SenderStart, SendEvent, Types
    <2>2. UNCHANGED <<stopping, pub, late, sendChan, conn, unanswered, rcv>>
      BY <1>9 DEF SenderStart, Sending, controlVars, userVars, confVars, chanVars
    <2> QED  BY <1>e, <2>1, <2>2
  <1>10. CASE SenderTakes
    <2>1. /\ snd = "idle" /\ sendChan[conn] # <<>> /\ snd' = Head(sendChan[conn])
          /\ sendChan' = [sendChan EXCEPT ![conn] = Tail(sendChan[conn])]
          /\ UNCHANGED <<stopping, pub, late, conn, unanswered, rcv, eventChan>>
      BY <1>10 DEF SenderTakes, Sending, controlVars, userVars, confVars, eventVars
    <2>2. InCall' = InCall
      BY <2>1 DEF InCall
    <2>3. CASE conn # pub.seen
      <3>1. InChannel' = InChannel /\ Underway' = Underway
        BY <1>v, <2>1, <2>3 DEF InChannel, Underway
      <3> QED  BY <2>1, <2>2, <3>1
    <2>4. CASE conn = pub.seen
      <3>1. sendChan'[pub.seen] = Tail(sendChan[pub.seen]) /\ sendChan[pub.seen] # <<>> /\ snd' = Head(sendChan[pub.seen])
        BY <1>v, <2>1, <2>4
      <3>2. InChannel' = Count(Tail(sendChan[pub.seen]), "write")
        BY <2>1, <3>1 DEF InChannel
      <3>3. InChannel' \in Nat /\ InChannel = InChannel' + One(snd' = "write")
        BY <1>v, <3>1, <3>2, CountTail DEF InChannel
      <3>4. One(snd = "write") = 0 /\ One(snd' = "write") \in Nat
        BY <2>1 DEF One
      <3>5. Underway' = Underway + One(snd' = "write")
        BY <1>u, <2>1, <2>4, <3>4 DEF Underway
      <3>6. InChannel' + InCall' + Underway' = InChannel + InCall + Underway
        BY <1>t, <2>2, <3>3, <3>4, <3>5
      <3>7. FreshAcks(eventChan') = FreshAcks(eventChan) /\ pub' = pub
        BY <2>1
      <3> QED  BY <2>1, <3>6, <3>7
    <2> QED  BY <2>3, <2>4
  <1>11. CASE SenderWrites
    <2>1. /\ snd \in Messages /\ snd' = "idle" /\ unanswered' = Append(unanswered, snd)
          /\ UNCHANGED <<stopping, pub, late, conn, sendChan, rcv, eventChan>>
      BY <1>11 DEF SenderWrites, Sending, controlVars, userVars, confVars, chanVars, eventVars, Writing, Messages
    <2>2. InChannel' = InChannel /\ InCall' = InCall
      BY <2>1 DEF InChannel, InCall
    <2>3. Count(unanswered', "write") = Count(unanswered, "write") + One(snd = "write")
      BY <1>v, <2>1, CountAppend
    <2>4. One(snd' = "write") = 0
      BY <2>1 DEF One
    <2>5. Underway' = Underway
      BY <1>u, <2>1, <2>3, <2>4 DEF Underway
    <2> QED  BY <2>1, <2>2, <2>5
  <1>12. CASE SenderError
    BY <1>12, <1>f DEF SenderError, Sending, controlVars, userVars, confVars, chanVars, eventVars
  <1>13. CASE SenderReports
    BY <1>13, <1>f DEF SenderReports, Sending, controlVars, userVars, confVars, eventVars
  <1>14. CASE SenderStops
    BY <1>14, <1>f DEF SenderStops, Sending, controlVars, userVars, confVars, chanVars, eventVars
  <1>15. CASE ReceiverReads
    <2>1. /\ rcv = "read" /\ unanswered # <<>> /\ unanswered' = Tail(unanswered)
          /\ rcv' = IF Head(unanswered) = "ping" THEN "pong" ELSE "ack"
          /\ UNCHANGED <<stopping, pub, late, conn, sendChan, snd, eventChan>>
      BY <1>15 DEF ReceiverReads, Receiving, controlVars, userVars, confVars, eventVars
    <2>2. InChannel' = InChannel /\ InCall' = InCall
      BY <2>1 DEF InChannel, InCall
    <2>3. /\ Count(unanswered', "write") \in Nat
          /\ Count(unanswered, "write") = Count(unanswered', "write") + One(Head(unanswered) = "write")
      BY <1>v, <2>1, CountTail
    <2>4. Head(unanswered) \in Messages
      BY <1>v, <2>1
    <2>5. One(rcv = "ack") = 0 /\ One(rcv' = "ack") = One(Head(unanswered) = "write") /\ One(rcv' = "ack") \in Nat
      BY <2>1, <2>4 DEF One, Messages
    <2>6. Underway' = Underway
      BY <1>u, <2>1, <2>3, <2>5 DEF Underway
    <2> QED  BY <2>1, <2>2, <2>6
  <1>16. CASE ReceiverReports
    <2>1. /\ rcv \in {"ack", "pong"} /\ rcv' = "read" /\ rcv \in Types /\ eventChan' = Append(eventChan, rcv)
          /\ told = "up" /\ snd # "start"
          /\ UNCHANGED <<stopping, pub, late, conn, sendChan, snd, unanswered>>
      BY <1>16 DEF ReceiverReports, Receiving, controlVars, userVars, confVars, SendEvent, Types, LinkInv, ToldInv
    <2>2. InChannel' = InChannel /\ InCall' = InCall
      BY <2>1 DEF InChannel, InCall
    <2>3. /\ FreshAcks(eventChan') \in Nat /\ FreshAcks(eventChan') <= FreshAcks(eventChan) + One(rcv = "ack")
          /\ rcv # "ack" \/ HasLoss(eventChan) => FreshAcks(eventChan') = FreshAcks(eventChan)
      BY <1>v, <2>1, FreshAppend
    <2>4. One(rcv' = "ack") = 0
      BY <2>1 DEF One
    <2>5. CASE conn = pub.seen
      <3>1. Underway' + One(rcv = "ack") = Underway /\ Underway' \in Nat
        BY <1>u, <2>1, <2>4, <2>5 DEF Underway
      <3>2. InChannel' + InCall' + Underway' + FreshAcks(eventChan') <= InChannel + InCall + Underway + FreshAcks(eventChan)
            /\ InChannel' + InCall' + Underway' + FreshAcks(eventChan') \in Nat
        BY <1>t, <1>u, <2>2, <2>3, <3>1
      <3> QED  BY <1>t, <2>1, <3>2
    <2>6. CASE conn # pub.seen
      <3>1. Underway' = Underway
        BY <2>1, <2>6 DEF Underway
      <3>2. One(snd = "start") = 0
        BY <2>1 DEF One
      <3>3. StartsUpTo(eventChan, Len(eventChan)) # 0
        BY <1>t, <2>6, <3>2 DEF SeenInv
      <3>4. pub.active => HasLoss(eventChan)
        BY <1>v, <3>3, LossFound DEF SeenInv
      <3> QED  BY <1>t, <2>1, <2>2, <2>3, <3>1, <3>4
    <2> QED  BY <2>5, <2>6
  <1>17. CASE ReceiverError
    BY <1>17, <1>f DEF ReceiverError, Receiving, controlVars, userVars, confVars, eventVars
  <1>18. CASE ReceiverFails
    BY <1>18, <1>d DEF ReceiverFails, Receiving, controlVars, userVars, confVars, eventVars
  <1>19. CASE ReceiverStops
    BY <1>19, <1>f DEF ReceiverStops, Receiving, controlVars, userVars, confVars, eventVars
  <1>20. CASE PublisherTakes
    <2> DEFINE q == eventChan
    <2>1. /\ q # <<>> /\ Head(q) \in Types /\ eventChan' = Tail(q) /\ pub.doing = "run" /\ pub'.doing # "write"
          /\ UNCHANGED <<snd, rcv, unanswered, conn, stopping, late, sendChan>>
      BY <1>20, TakesFields
    <2>2. InCall = 0 /\ InCall' = 0
      BY <2>1 DEF InCall, One
    <2>3. CASE Head(q) = "started"
      <3>1. pub'.seen = pub.seen + 1 /\ pub'.pending = pub.pending
        BY <1>20, <2>3, TakesFields
      <3> SUFFICES ASSUME pub'.seen \notin late PROVE InChannel' + InCall' + Underway' + FreshAcks(eventChan') <= pub'.pending
        BY <2>1
      <3>2. InChannel' = 0
        <4>1. CASE pub.seen + 1 \in Conns
          <5>1. sendChan[pub.seen + 1] = <<>>
            BY <1>t, <3>1, <4>1 DEF UnseenInv
          <5>2. InChannel' = Count(<<>>, "write")
            BY <2>1, <3>1, <5>1 DEF InChannel
          <5> QED  BY <5>2, CountEmpty
        <4>2. pub.seen + 1 \in Conns
          <5>1. StartsUpTo(eventChan, Len(eventChan)) \in Nat /\ StartsUpTo(eventChan, Len(eventChan)) # 0
            <6>1. 1 \in 1 .. Len(eventChan) /\ eventChan[1] = "started" /\ Len(eventChan) \in Nat
              BY <1>v, <2>1, <2>3
            <6> QED  BY <6>1, StartsNat
          <5>2. pub.seen + 1 <= conn
            BY <1>t, <5>1 DEF SeenInv, One
          <5> QED  BY <1>t, <1>v, <5>2, TcpAssumption DEF Conns
        <4> QED  BY <4>1, <4>2
      <3>3. Underway' = 0
        <4>1. CASE conn # pub.seen + 1
          BY <2>1, <3>1, <4>1 DEF Underway
        <4>2. CASE conn = pub.seen + 1
          <5>1. snd \notin Messages /\ unanswered = <<>> /\ rcv # "ack"
            BY <1>t, <3>1, <4>2, <2>1 DEF UnseenInv
          <5>2. One(snd = "write") = 0 /\ Count(unanswered, "write") = 0 /\ One(rcv = "ack") = 0
            BY <5>1, CountEmpty DEF One, Messages
          <5> QED  BY <2>1, <5>2 DEF Underway
        <4> QED  BY <4>1, <4>2
      <3>4. FreshAcks(eventChan') = 0
        <4>1. Separated(q) /\ pub.seen + 1 \notin late
          BY <3>1 DEF SeenInv
        <4>2. \A j \in 1 .. Len(q) : q[j] = "ack" /\ StartsUpTo(q, j) > 0 => pub.seen + StartsUpTo(q, j) \in late
          BY DEF UnseenInv
        <4> QED  BY <1>t, <1>v, <2>1, <2>3, <4>1, <4>2, NoneFresh
      <3> QED  BY <1>t, <2>2, <3>1, <3>2, <3>3, <3>4
    <2>4. CASE Head(q) \in {"ack", "pong"}
      <3>1. /\ pub'.seen = pub.seen /\ (pub'.active => pub.active) /\ Head(q) # "failed"
            /\ pub'.pending = IF Head(q) = "ack" /\ pub.pending # 0 THEN pub.pending - 1 ELSE pub.pending
        BY <1>20, <2>4, TakesFields
      <3>2. InChannel' = InChannel /\ Underway' = Underway
        BY <2>1, <3>1 DEF InChannel, Underway
      <3>3. FreshAcks(Tail(q)) \in Nat /\ FreshAcks(q) = FreshAcks(Tail(q)) + One(Head(q) = "ack")
        BY <1>v, <2>1, <3>1, FreshTail
      <3>4. One(Head(q) = "ack") = IF Head(q) = "ack" THEN 1 ELSE 0
        BY DEF One
      <3> QED  BY <1>t, <2>1, <2>2, <3>1, <3>2, <3>3, <3>4
    <2>5. CASE Head(q) \in {"failed", "finished"}
      BY <1>20, <2>5, TakesFields
    <2> QED  BY <2>1, <2>3, <2>4, <2>5 DEF Types
  <1>21. CASE PublisherCalls
    <2>1. /\ pub.doing = "run" /\ pub.active /\ pub'.seen = pub.seen /\ (pub'.active => pub'.doing # "fail")
          /\ pub'.doing \in {"write", "ping", "fail"}
          /\ pub'.pending = IF pub'.doing = "write" THEN pub.pending + 1 ELSE pub.pending
          /\ UNCHANGED <<snd, rcv, unanswered, conn, stopping, late, sendChan, eventChan>>
      BY <1>21, CallsFields
    <2>2. InChannel' = InChannel /\ Underway' = Underway
      BY <2>1 DEF InChannel, Underway
    <2>3. InCall' \in Nat /\ InCall' <= IF pub'.doing = "write" THEN 1 ELSE 0
      BY DEF InCall, One
    <2>4. InCall = 0
      BY <2>1 DEF InCall, One
    <2> QED  BY <1>t, <2>1, <2>2, <2>3, <2>4
  <1>22. CASE PublisherReturns
    <2>1. /\ pub'.doing = "run" /\ pub'.seen = pub.seen /\ pub'.active = pub.active /\ pub'.pending = pub.pending
          /\ late' = IF pub.chan = pub.seen THEN late ELSE late \cup {pub.chan}
          /\ UNCHANGED <<snd, rcv, unanswered, conn, stopping, eventChan>>
      BY <1>22, ReturnsFields
    <2>2. Underway' = Underway /\ InCall' = 0 /\ (pub.seen \notin late' => pub.seen \notin late)
      BY <2>1 DEF Underway, InCall, One
    <2>3. CASE pub.doing = "fail"
      BY <2>1, <2>3 DEF CallInv
    <2>4. CASE pub.doing # "fail"
      <3>1. sendChan' = [sendChan EXCEPT ![pub.chan] = Append(@, pub.doing)] /\ pub.doing \in Messages
        BY <1>22, <2>4, ReturnsFields DEF Calling, Messages
      <3>2. CASE pub.chan # pub.seen
        <4>1. InChannel' = InChannel
          BY <1>v, <2>1, <3>1, <3>2 DEF InChannel
        <4> QED  BY <1>t, <2>1, <2>2, <4>1
      <3>3. CASE pub.chan = pub.seen
        <4>1. sendChan'[pub.seen] = Append(sendChan[pub.seen], pub.doing)
          BY <1>v, <3>1, <3>3
        <4>2. InChannel' = Count(Append(sendChan[pub.seen], pub.doing), "write")
          BY <2>1, <4>1 DEF InChannel
        <4>3. InChannel' = InChannel + One(pub.doing = "write")
          BY <1>v, <3>1, <4>2, CountAppend DEF InChannel
        <4>4. InCall = One(pub.doing = "write")
          BY <3>3 DEF InCall, One
        <4> QED  BY <1>t, <2>1, <2>2, <4>3, <4>4
      <3> QED  BY <3>2, <3>3
    <2> QED  BY <2>3, <2>4
  <1>23. CASE Shutdown
    BY <1>23, ShutdownFields
  <1>24. CASE ReloadConfig
    BY <1>24, <1>d DEF ReloadConfig, Using, controlVars, chanVars
  <1>25. CASE UNCHANGED vars
    BY <1>25, <1>d DEF vars, controlVars, userVars, confVars, eventVars, chanVars
  <1> QED
    BY <1>1, <1>2, <1>3, <1>4, <1>5, <1>6, <1>7, <1>8, <1>9, <1>10, <1>11, <1>12, <1>13, <1>14, <1>15, <1>16, <1>17, <1>18, <1>19, <1>20, <1>21, <1>22, <1>23, <1>24, <1>25
       DEF Next, Controller, Sender, Receiver, Publisher

LEMMA LimitStep ==
    ASSUME LinkInv, LimitInv, [Next]_vars
    PROVE  LimitInv'
  <1> USE TcpAssumption DEF LimitInv
  <1>t. pub.payloads \in Nat
    BY DEF LinkInv, ChanInv, PubType
  <1>1. CASE Connect
    BY <1>1 DEF Connect, userVars, confVars
  <1>2. CASE ConnectFails \/ TakeFailure \/ TakeStop \/ Join \/ Report \/ ReconnectWait \/ ReportFinished
    BY <1>2 DEF ConnectFails, TakeFailure, TakeStop, Join, Report, ReconnectWait, ReportFinished,
                Controlling, Disconnect, userVars, confVars
  <1>3. CASE Sender
    BY <1>3 DEF Sender, SenderStart, SenderTakes, SenderWrites, SenderError, SenderReports, SenderStops,
                Sending, controlVars, userVars, confVars
  <1>4. CASE Receiver
    BY <1>4 DEF Receiver, ReceiverReads, ReceiverReports, ReceiverError, ReceiverFails, ReceiverStops,
                Receiving, controlVars, userVars, confVars
  <1>5. CASE PublisherTakes
    <2>1. UNCHANGED <<confVars, sendCap>> /\ pub'.payloads <= pub.payloads /\ pub'.payloads \in Nat
      BY <1>5, TakesFields, ChanStep DEF PublisherTakes, Using, controlVars, ChanInv, PubType, Next, Publisher
    <2> QED  BY <1>t, <2>1 DEF confVars
  <1>6. CASE PublisherCalls
    <2>1. UNCHANGED <<confVars, sendCap>>
      BY <1>6 DEF PublisherCalls, Using, controlVars
    <2> QED  BY <1>6, <1>t, <2>1, CallsFields DEF confVars
  <1>7. CASE PublisherReturns \/ Shutdown
    BY <1>7 DEF PublisherReturns, Shutdown, Using, controlVars, confVars, LinkInv, ChanInv, PubType
  <1>8. CASE ReloadConfig
    <2>1. PICK now \in PendingLimits :
            /\ limits' = [now |-> now, highest |-> IF now > limits.highest THEN now ELSE limits.highest]
            /\ netLimit' \in {netLimit, now}
      BY <1>8 DEF ReloadConfig
    <2>2. UNCHANGED <<pub, sendCap>> /\ now \in Nat \ {0}
      BY <1>8 DEF ReloadConfig, Using, controlVars
    <2> QED  BY <1>t, <2>1, <2>2
  <1>9. CASE UNCHANGED vars
    BY <1>9 DEF vars, controlVars, userVars, confVars
  <1> QED
    BY <1>1, <1>2, <1>3, <1>4, <1>5, <1>6, <1>7, <1>8, <1>9 DEF Next, Controller, Publisher

LEMMA InitStuck == Init => StuckInv
  <1> SUFFICES ASSUME Init PROVE StuckInv
    OBVIOUS
  <1>1. /\ stopping = FALSE /\ conn = 0 /\ snd = "off" /\ rcv = "off" /\ unanswered = <<>> /\ eventChan = <<>>
        /\ pub.doing = "run" /\ pub.chan = 0 /\ pub.active = FALSE /\ pub.pending = 0 /\ pub.seen = 0
        /\ told = "down" /\ Len(eventChan) = 0
    BY DEF Init
  <1>2. \A c \in Conns : failChan[c] = <<>> /\ sendChan[c] = <<>>
    BY DEF Init
  <1>3. 0 \in Conns
    BY TcpAssumption DEF Conns
  <1>4. CallInv
    <2>1. stopping \in BOOLEAN
      BY <1>1
    <2>2. <<>> \in Seq(Messages)
      OBVIOUS
    <2> QED  BY <1>1, <2>1, <2>2 DEF CallInv, Calling
  <1>9. LimitInv
    <2>0. PICK s \in InitialLimits :
            /\ limits = [now |-> s.now, highest |-> s.highest] /\ netLimit = s.net
            /\ pub.payloads = s.payloads
      BY DEF Init
    <2>1. /\ s.now \in Nat \ {0} /\ s.highest \in Nat \ {0} /\ s.net \in Nat
          /\ s.now <= s.highest /\ s.payloads \in 0 .. s.highest
      BY TcpAssumption
    <2>2. sendCap \in [Conns -> Nat]  BY DEF Init
    <2> QED  BY <2>0, <2>1, <2>2 DEF LimitInv
  <1>5. SeenInv
    <2>1. StartsUpTo(eventChan, Len(eventChan)) = 0
      BY <1>1, StartsNat
    <2>2. One(snd = "start") = 0
      BY <1>1 DEF One
    <2> QED  BY <1>1, <2>1, <2>2 DEF SeenInv, Separated, LossLast
  <1>6. UnseenInv
    BY <1>1, <1>2 DEF UnseenInv, Messages
  <1>7. FailInv
    BY <1>1, <1>2, <1>3 DEF FailInv, SendOnce, Holds
  <1>8. PendingInv
    BY <1>1 DEF PendingInv
  <1> QED  BY <1>4, <1>5, <1>6, <1>7, <1>8, <1>9 DEF StuckInv

\* A full failChan without an error of the receiver would hold two failures of
\* one connection that are made once: the sender's and the publisher's.
LEMMA FailHasReason ==
    ASSUME LinkInv, StuckInv, pub.doing = "fail", ~HasRoom, pub.chan \notin late
    PROVE  \E i \in DOMAIN failChan[pub.chan] : failChan[pub.chan][i] = "receive"
  <1> DEFINE q == failChan[pub.chan]
  <1>1. pub.chan \in Conns /\ q \in Seq(Failures) /\ DOMAIN q = 1 .. Len(q) /\ Len(q) \in Nat
    BY ChansExist DEF LinkInv, ChanInv
  <1>2. Len(q) >= 2
    BY <1>1 DEF HasRoom, FailCap
  <1>3. ~stopping
    BY DEF StuckInv, CallInv, Calling
  <1>4. ~Holds(q, "forced") /\ SendOnce(q)
    BY <1>1, <1>3 DEF StuckInv, FailInv
  <1> HIDE DEF q
  <1>5. 1 \in 1 .. Len(q) /\ 2 \in 1 .. Len(q) /\ 1 # 2
    BY <1>1, <1>2
  <1>6. q[1] \in Failures /\ q[2] \in Failures
    BY <1>1, <1>5
  <1>7. q[1] # "forced" /\ q[2] # "forced"
    BY <1>4, <1>5 DEF Holds
  <1>8. q[1] # "send" \/ q[2] # "send"
    BY <1>4, <1>5 DEF SendOnce
  <1>9. \E i \in DOMAIN q : q[i] = "receive"
    BY <1>1, <1>5, <1>6, <1>7, <1>8 DEF Failures
  <1> QED  BY <1>9 DEF q

\* A full sendChan without a ping would hold more payloads than are pending, if
\* it was made for as many as the highest limit there has been.
LEMMA WriteHasReason ==
    ASSUME LinkInv, StuckInv, pub.doing \in {"write", "ping"}, ~HasRoom, pub.chan \notin late,
           ~(sendCap[pub.chan] < limits.highest)
    PROVE  \E i \in DOMAIN sendChan[pub.chan] : sendChan[pub.chan][i] = "ping"
  <1> DEFINE q == sendChan[pub.chan]
  <1>1. pub.chan \in Conns /\ q \in Seq(Messages) /\ DOMAIN q = 1 .. Len(q) /\ Len(q) \in Nat
    BY ChansExist DEF LinkInv, ChanInv
  <1> DEFINE most == limits.highest
  <1>2. Len(q) >= most /\ most \in Nat \ {0} /\ pub.pending <= most
    <2>1. sendCap[pub.chan] \in Nat /\ most \in Nat \ {0} /\ pub.payloads <= most
      BY <1>1 DEF StuckInv, LimitInv
    <2>2. Len(q) >= sendCap[pub.chan]
      BY <1>1, <2>1 DEF HasRoom, SendRoom
    <2>3. pub.pending \in Nat /\ pub.payloads \in Nat /\ pub.pending <= pub.payloads
      BY DEF LinkInv, ChanInv, PubType
    <2> HIDE DEF q, most
    <2>4. ~(sendCap[pub.chan] < most)
      BY DEF most
    <2> QED  BY <1>1, <2>1, <2>2, <2>3, <2>4
  <1>3. ~stopping /\ pub.active /\ pub.chan >= pub.seen /\ (pub.doing = "ping" => pub.pending = 0)
    BY DEF StuckInv, CallInv, Calling
  <1> HIDE DEF most
  <1>4. /\ pub.seen \in Nat /\ pub.pending \in Nat
        /\ InChannel \in Nat /\ InCall \in Nat /\ Underway \in Nat /\ FreshAcks(eventChan) \in Nat
    BY <1>3, PlacesNat DEF StuckInv
  <1>5. q # <<>>
    BY <1>2
  <1>6. pub.chan = pub.seen
    <2>1. ~(pub.chan > pub.seen)
      BY <1>1, <1>3, <1>5 DEF StuckInv, UnseenInv
    <2> QED  BY <1>1, <1>3, <1>4, <2>1, ChansExist DEF LinkInv
  <1> SUFFICES ASSUME \A i \in 1 .. Len(q) : q[i] # "ping" PROVE FALSE
    BY <1>1
  <1>7. \A i \in 1 .. Len(q) : q[i] = "write"
    <2> HIDE DEF q
    <2> QED  BY <1>1 DEF Messages
  <1>8. Count(q, "write") = Len(q)
    <2> HIDE DEF q
    <2> QED  BY <1>1, <1>7, CountAll
  <1>9. InChannel = Len(q)
    BY <1>6, <1>8 DEF InChannel
  <1>10. InChannel + InCall + Underway + FreshAcks(eventChan) <= pub.pending
    BY <1>3, <1>6 DEF StuckInv, PendingInv
  <1>11. CASE pub.doing = "write"
    <2>1. InCall = 1
      BY <1>6, <1>11 DEF InCall, One
    <2> HIDE DEF q
    <2> QED  BY <1>1, <1>2, <1>3, <1>4, <1>9, <1>10, <2>1
  <1>12. CASE pub.doing = "ping"
    <2> HIDE DEF q
    <2> QED  BY <1>1, <1>2, <1>3, <1>4, <1>9, <1>10, <1>12
  <1> QED  BY <1>11, <1>12

\* For any capacities and any number of faults: Write, Ping and Fail of
\* transport.go, which wait for room without looking at the connection, wait for
\* ever only because the receiver repeated its error, because a ping took a
\* payload's place, because an earlier call used the next connection's channels
\* before that connection was announced, or because another configuration had a
\* higher "max pending payloads" than the one the channel was made with.
THEOREM StuckHasReason == Spec => []StuckExplained
  <1>1. Init => LinkInv /\ StuckInv
    BY InitLink, InitStuck
  <1>2. LinkInv /\ StuckInv /\ [Next]_vars => LinkInv' /\ StuckInv'
    BY ToldStep, ChanStep, CallStep, LimitStep, SeenStep, UnseenStep, FailStep, PendingStep DEF LinkInv, StuckInv
  <1>3. LinkInv /\ StuckInv => StuckExplained
    BY FailHasReason, WriteHasReason DEF StuckExplained, Stuck
  <1> QED  BY <1>1, <1>2, <1>3, PTL DEF Spec
=============================================================================
