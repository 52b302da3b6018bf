---------------------------- MODULE TcpTransport ----------------------------
(***************************************************************************)
(* The goroutines of one transport of transports/tcp: the controller that  *)
(* connects, waits and reconnects, and the sender and the receiver of the  *)
(* connection, with the channels between them and to the publisher.  The   *)
(* publisher is the user: it takes events, writes, pings, forces failures  *)
(* and shuts the transport down.  A channel is made anew for each          *)
(* connection, and a goroutine that waits on the old one goes on waiting   *)
(* there.                                                                  *)
(***************************************************************************)
EXTENDS Integers, Sequences, FiniteSets

CONSTANTS Wrapped,        \* TLS: writes go through transportTCPWrap
          PendingLimits,  \* values of "max pending payloads" a configuration may have
          InitialLimits,  \* what the program may have been given before the transport is
                          \* made: the limit now, the highest so far, the one the sink
                          \* has kept, and the payloads there are to send again
          EventChanCap,   \* capacity of the publisher's event channel
          Addresses,      \* the addresses a lookup finds, in order
          Reachable,      \* those that accept connections
          Reconnect,      \* the initial back off, may be 0
          ReconnectMax,   \* the largest one
          MaxFaults       \* bound on lost connections, failed lookups, timeouts and reloads

ASSUME TcpAssumption ==
    /\ Wrapped \in BOOLEAN
    /\ PendingLimits \subseteq Nat \ {0} /\ EventChanCap \in Nat \ {0}
    /\ \A s \in InitialLimits :
          /\ {s.now, s.highest, s.net} \subseteq PendingLimits
          /\ s.now <= s.highest /\ s.net <= s.highest /\ s.payloads \in 0 .. s.highest
    /\ Len(Addresses) > 0
    /\ Reachable \subseteq {Addresses[i] : i \in DOMAIN Addresses}
    /\ Reconnect \in Nat /\ ReconnectMax \in Nat /\ MaxFaults \in Nat

VARIABLES
    ctl,         \* the controller: dial, up, join, report, backoff, last, done
    after,       \* where it goes when sender and receiver have ended
    addresses,   \* the address pool: what is left of the last lookup
    expCount,    \* the back off
    stopping,    \* controllerChan is closed
    finishOnFail,
    netLimit,    \* netConfig.MaxPendingPayloads of the transport
    limits,      \* p.config.MaxPendingPayloads now; history: the highest so far
    conn,        \* connections made so far; the channels are those of the last
    closing,     \* sendControl and recvControl are closed
    sendCap,     \* the capacity of each connection's sendChan
    failChan, sendChan,   \* for each connection, oldest first
    snd,         \* the sender: off, start, idle, fail, or the message it writes
    rcv,         \* the receiver: off, read, ack, pong, fail
    unanswered,  \* what the server has been sent on this connection
    eventChan,   \* the types of the events for the publisher
    told,        \* history: down, up or over, from the last status event
    pub,         \* the publisher: doing run, write, ping, fail or over, on chan;
                 \* its endpoint is active, has pending payloads and a ping;
                 \* its payloads that are not complete, p.numPayloads;
                 \* history: it has seen that many Started
    late,        \* history: connections used before their Started was seen
    faults

controlVars == <<ctl, after, addresses, expCount, conn, closing, sendCap>>
confVars == <<finishOnFail, netLimit, limits>>
userVars == <<stopping, confVars, pub, late>>
eventVars == <<eventChan, told>>
chanVars == <<failChan, sendChan>>
vars == <<controlVars, userVars, eventVars, chanVars, snd, rcv, unanswered, faults>>

FailCap == 2
Conns == 0 .. MaxFaults + 1
Types == {"started", "failed", "finished", "ack", "pong"}

TypeOK ==
    /\ ctl \in {"dial", "up", "join", "report", "backoff", "last", "done"}
    /\ after \in {"report", "last"}
    /\ \E i \in 1 .. Len(Addresses) + 1 : addresses = SubSeq(Addresses, i, Len(Addresses))
    /\ expCount \in 0 .. ReconnectMax
    /\ stopping \in BOOLEAN /\ closing \in BOOLEAN /\ finishOnFail \in BOOLEAN
    /\ conn \in Conns
    /\ \A c \in Conns : Len(failChan[c]) <= FailCap /\ Len(sendChan[c]) <= sendCap[c]
    /\ snd \in {"off", "start", "idle", "fail", "write", "ping"}
    /\ rcv \in {"off", "read", "ack", "pong", "fail"}
    /\ Len(eventChan) <= EventChanCap
    /\ \A i \in DOMAIN eventChan : eventChan[i] \in Types
    /\ told \in {"down", "up", "over"}
    /\ pub.doing \in {"run", "write", "ping", "fail", "over"}
    /\ pub.chan \in Conns /\ pub.seen \in Conns
    /\ pub.payloads \in 0 .. limits.highest /\ pub.pending \in 0 .. pub.payloads
    /\ netLimit \in PendingLimits /\ limits.now \in PendingLimits
    /\ late \subseteq Conns

\* The transport may be made by a program that has run for a while, with payloads
\* to send again, and the sink makes it with the first configuration there was.
Init ==
    /\ \E s \in InitialLimits :
          /\ limits = [now |-> s.now, highest |-> s.highest] /\ netLimit = s.net
          /\ pub = [doing |-> "run", chan |-> 0, active |-> FALSE, pending |-> 0,
                    payloads |-> s.payloads, pinged |-> FALSE, seen |-> 0]
    /\ sendCap = [c \in Conns |-> 0]
    /\ ctl = "dial" /\ after = "last"
    /\ addresses = <<>> /\ expCount = 0
    /\ stopping = FALSE /\ finishOnFail \in BOOLEAN /\ conn = 0 /\ closing = FALSE
    /\ failChan = [c \in Conns |-> <<>>] /\ sendChan = [c \in Conns |-> <<>>]
    /\ snd = "off" /\ rcv = "off" /\ unanswered = <<>>
    /\ eventChan = <<>> /\ told = "down"
    /\ late = {}
    /\ faults = 0

Fault == faults < MaxFaults /\ faults' = faults + 1

\* sendEvent without its other case: waits for room in the event channel.
SendEvent(type) ==
    /\ Len(eventChan) < EventChanCap
    /\ eventChan' = Append(eventChan, type)
    /\ told' = CASE type = "started"  -> "up"
                 [] type = "failed"   -> "down"
                 [] type = "finished" -> "over"
                 [] OTHER             -> told

-----------------------------------------------------------------------------
(* The address pool and the back off. *)

\* Mutant of TakeAddress: every connect looks the addresses up again.
TakeFirst == addresses' = <<>>

\* Pool.Next: the list is looked up again when it has been used up.
Pool == IF addresses = <<>> THEN Addresses ELSE addresses
TakeAddress == addresses' = Tail(Pool)

\* ExpBackoff.Trigger: an initial delay of 0 means at once for the first time
\* and a second (1 here) from then on.  The count grows until the limit.
Trigger ==
    expCount' = IF Reconnect = 0 /\ expCount = 0 THEN 1
                ELSE LET delay == IF Reconnect = 0 THEN 1 ELSE Reconnect
                     IN  IF delay * 2^expCount < ReconnectMax THEN expCount + 1 ELSE expCount

-----------------------------------------------------------------------------
(* The controller. *)

Controlling == UNCHANGED <<userVars, unanswered>>

\* The end of a pass that met an error.
Failed == IF finishOnFail THEN "last" ELSE "report"

\* connect: fresh channels, the sender and the receiver start.
Connect ==
    /\ ctl = "dial"
    /\ Head(Pool) \in Reachable
    /\ TakeAddress
    /\ ctl' = "up"
    /\ conn' = conn + 1
    /\ sendCap' = [sendCap EXCEPT ![conn + 1] = netLimit]
    /\ closing' = FALSE
    /\ snd' = "start" /\ rcv' = "read" /\ unanswered' = <<>>
    /\ expCount' = 0
    /\ UNCHANGED <<after, userVars, chanVars, eventVars, faults>>

\* connect fails: nobody answers there, the lookup or the handshake fails.
ConnectFails ==
    /\ ctl = "dial"
    /\ \/ Head(Pool) \notin Reachable /\ TakeAddress /\ UNCHANGED faults
       \/ Head(Pool) \in Reachable /\ Fault /\ TakeAddress
       \/ addresses = <<>> /\ Fault /\ UNCHANGED addresses
    /\ ctl' = Failed
    /\ Controlling /\ UNCHANGED <<after, expCount, conn, closing, sendCap, chanVars, eventVars, snd, rcv>>

\* disconnect closes both control channels and waits for the goroutines.
Disconnect(next) ==
    /\ ctl' = "join"
    /\ after' = next
    /\ closing' = TRUE
    /\ UNCHANGED <<addresses, expCount, conn, sendCap>>

\* While connected: an error, or the nil that Fail() sends.
TakeFailure ==
    /\ ctl = "up"
    /\ failChan[conn] # <<>>
    /\ failChan' = [failChan EXCEPT ![conn] = Tail(@)]
    /\ Disconnect(Failed)
    /\ Controlling /\ UNCHANGED <<sendChan, eventVars, snd, rcv, faults>>

TakeStop ==
    /\ ctl = "up"
    /\ stopping
    /\ Disconnect("last")
    /\ Controlling /\ UNCHANGED <<chanVars, eventVars, snd, rcv, faults>>

\* Mutant of Joined: the controller does not wait for the goroutines.
NotJoined == TRUE

\* t.wait.Wait()
Joined == snd = "off" /\ rcv = "off"

Join ==
    /\ ctl = "join"
    /\ Joined
    /\ ctl' = after
    /\ Controlling
    /\ UNCHANGED <<after, addresses, expCount, conn, closing, sendCap, chanVars, eventVars, snd, rcv, faults>>

\* Failed is reported, unless the transport is shut down meanwhile.
Report ==
    /\ ctl = "report"
    /\ \/ SendEvent("failed") /\ Trigger /\ ctl' = "backoff"
       \/ stopping /\ ctl' = "last" /\ UNCHANGED <<eventVars, expCount>>
    /\ Controlling /\ UNCHANGED <<after, addresses, conn, closing, sendCap, chanVars, snd, rcv, faults>>

\* reconnectWait ends with the delay or with a shutdown.
ReconnectWait ==
    /\ ctl = "backoff"
    /\ ctl' = "dial" \/ (stopping /\ ctl' = "last")
    /\ Controlling
    /\ UNCHANGED <<after, addresses, expCount, conn, closing, sendCap, chanVars, eventVars, snd, rcv, faults>>

\* The deferred call of the controller.
ReportFinished ==
    /\ ctl = "last"
    /\ SendEvent("finished")
    /\ ctl' = "done"
    /\ Controlling /\ UNCHANGED <<after, addresses, expCount, conn, closing, sendCap, chanVars, snd, rcv, faults>>

-----------------------------------------------------------------------------
(* The sender. *)

Sending == UNCHANGED <<controlVars, userVars, rcv>>

\* Started is reported, unless the transport is shut down.
SenderStart ==
    /\ snd = "start"
    /\ \/ SendEvent("started") /\ snd' = "idle"
       \/ stopping /\ snd' = "off" /\ UNCHANGED eventVars
    /\ Sending /\ UNCHANGED <<chanVars, unanswered, faults>>

SenderTakes ==
    /\ snd = "idle"
    /\ sendChan[conn] # <<>>
    /\ snd' = Head(sendChan[conn])
    /\ sendChan' = [sendChan EXCEPT ![conn] = Tail(@)]
    /\ Sending /\ UNCHANGED <<failChan, unanswered, eventVars, faults>>

Writing == snd \in {"write", "ping"}

\* The server has read the whole message.
SenderWrites ==
    /\ Writing
    /\ snd' = "idle"
    /\ unanswered' = Append(unanswered, snd)
    /\ Sending /\ UNCHANGED <<chanVars, eventVars, faults>>

SenderError ==
    /\ Writing
    /\ Fault
    /\ snd' = "fail"
    /\ Sending /\ UNCHANGED <<chanVars, unanswered, eventVars>>

SenderReports ==
    /\ snd = "fail"
    /\ Len(failChan[conn]) < FailCap
    /\ failChan' = [failChan EXCEPT ![conn] = Append(@, "send")]
    /\ snd' = "off"
    /\ Sending /\ UNCHANGED <<sendChan, unanswered, eventVars, faults>>

\* Mutant of StopsSender: a write that the server does not read is not given up.
StopsIdleSender == snd \in {"idle", "fail"}

\* sendControl is seen in both selects, and by the wrapper between two attempts
\* to write; without TLS there is no wrapper and a write waits for the server.
StopsSender == snd \in {"idle", "fail"} \/ (Writing /\ Wrapped)

SenderStops ==
    /\ closing
    /\ StopsSender
    /\ snd' = "off"
    /\ Sending /\ UNCHANGED <<chanVars, unanswered, eventVars, faults>>

-----------------------------------------------------------------------------
(* The receiver and the server, which answers in order or not at all. *)

Receiving == UNCHANGED <<controlVars, userVars, sendChan, snd>>

ReceiverReads ==
    /\ rcv = "read"
    /\ unanswered # <<>>
    /\ rcv' = IF Head(unanswered) = "ping" THEN "pong" ELSE "ack"
    /\ unanswered' = Tail(unanswered)
    /\ Receiving /\ UNCHANGED <<failChan, eventVars, faults>>

ReceiverReports ==
    /\ rcv \in {"ack", "pong"}
    /\ SendEvent(rcv)
    /\ rcv' = "read"
    /\ Receiving /\ UNCHANGED <<failChan, unanswered, faults>>

\* The connection is lost, or what was read is not a message.
ReceiverError ==
    /\ rcv = "read"
    /\ Fault
    /\ rcv' = "fail"
    /\ Receiving /\ UNCHANGED <<failChan, unanswered, eventVars>>

\* FailLoop: the error is sent again and again until recvControl is closed.
ReceiverFails ==
    /\ rcv = "fail"
    /\ Len(failChan[conn]) < FailCap
    /\ failChan' = [failChan EXCEPT ![conn] = Append(@, "receive")]
    /\ Receiving /\ UNCHANGED <<rcv, unanswered, eventVars, faults>>

ReceiverStops ==
    /\ closing
    /\ rcv # "off"
    /\ rcv' = "off"
    /\ Receiving /\ UNCHANGED <<failChan, unanswered, eventVars, faults>>

-----------------------------------------------------------------------------
(* The publisher. *)

Using == UNCHANGED <<controlVars, snd, rcv, unanswered, told>>

\* What the sink makes of an event.
PublisherTakes ==
    /\ pub.doing = "run"
    /\ eventChan # <<>>
    /\ eventChan' = Tail(eventChan)
    /\ pub' = LET type == Head(eventChan)
              IN CASE type = "started"  -> [pub EXCEPT !.active = ~stopping, !.seen = @ + 1]
                   [] type = "ack"      -> IF pub.pending = 0 THEN pub
                                           ELSE [pub EXCEPT !.pending = @ - 1, !.payloads = @ - 1]
                   [] type = "pong"     -> [pub EXCEPT !.pinged = FALSE]
                   [] type = "failed"   -> [pub EXCEPT !.active = FALSE, !.pending = 0, !.pinged = FALSE]
                   [] type = "finished" -> [pub EXCEPT !.doing = "over", !.active = FALSE]
    /\ Using /\ UNCHANGED <<stopping, confVars, late, chanVars, faults>>

\* The call puts its value into a channel of this connection, or waits for room.
Call(what, new) ==
    pub' = [pub EXCEPT !.doing = what, !.chan = conn,
                       !.pending = IF what = "write" THEN @ + 1 ELSE @,
                       !.payloads = IF new THEN @ + 1 ELSE @,
                       !.pinged = @ \/ what = "ping",
                       !.active = @ /\ what # "fail"]

\* A new payload counts against the limit, one that is sent again does not.
PublisherCalls ==
    /\ pub.doing = "run"
    /\ pub.active
    /\ \/ pub.payloads < limits.now /\ Call("write", TRUE) /\ UNCHANGED faults
       \/ pub.pending < pub.payloads /\ Call("write", FALSE) /\ UNCHANGED faults
       \/ pub.pending = 0 /\ ~pub.pinged /\ Call("ping", FALSE) /\ UNCHANGED faults
       \/ (pub.pending > 0 \/ pub.pinged) /\ Fault /\ Call("fail", FALSE)
    /\ Using /\ UNCHANGED <<stopping, confVars, late, chanVars, eventChan>>

\* Mutant of SendRoom: room for one message less.
SendRoomLess(c) == Len(sendChan[c]) < sendCap[c] - 1

\* sendChan of connection c has room.
SendRoom(c) == Len(sendChan[c]) < sendCap[c]

\* Write and Ping put into sendChan, Fail into failChan.
HasRoom == IF pub.doing = "fail" THEN Len(failChan[pub.chan]) < FailCap
                                 ELSE SendRoom(pub.chan)

PublisherReturns ==
    /\ pub.doing \in {"write", "ping", "fail"}
    /\ HasRoom
    /\ IF pub.doing = "fail"
       THEN failChan' = [failChan EXCEPT ![pub.chan] = Append(@, "forced")] /\ UNCHANGED sendChan
       ELSE sendChan' = [sendChan EXCEPT ![pub.chan] = Append(@, pub.doing)] /\ UNCHANGED failChan
    /\ late' = IF pub.chan = pub.seen THEN late ELSE late \cup {pub.chan}
    /\ pub' = [pub EXCEPT !.doing = "run"]
    /\ Using /\ UNCHANGED <<stopping, confVars, eventChan, faults>>

Shutdown ==
    /\ pub.doing = "run"
    /\ ~stopping
    /\ stopping' = TRUE
    /\ pub' = [pub EXCEPT !.active = FALSE]
    /\ Using /\ UNCHANGED <<confVars, late, chanVars, eventChan, faults>>

\* The publisher takes a new configuration, with another method or limit.  The
\* transport does not if its certificates changed, in which case nobody heeds that
\* it asks to be restarted, or if the method passes it over.  The channel of a
\* connection stays as it was made.
ReloadConfig ==
    /\ pub.doing = "run"
    /\ Fault
    /\ \E now \in PendingLimits :
          /\ limits' = [now |-> now, highest |-> IF now > limits.highest THEN now ELSE limits.highest]
          /\ netLimit' \in {netLimit, now}
    /\ finishOnFail' \in BOOLEAN
    /\ Using /\ UNCHANGED <<stopping, pub, late, chanVars, eventChan>>

-----------------------------------------------------------------------------
Controller == Connect \/ ConnectFails \/ TakeFailure \/ TakeStop \/ Join \/ Report
              \/ ReconnectWait \/ ReportFinished
Sender == SenderStart \/ SenderTakes \/ SenderWrites \/ SenderError \/ SenderReports \/ SenderStops
Receiver == ReceiverReads \/ ReceiverReports \/ ReceiverError \/ ReceiverFails \/ ReceiverStops
Publisher == PublisherTakes \/ PublisherCalls \/ PublisherReturns \/ Shutdown \/ ReloadConfig

Next == Controller \/ Sender \/ Receiver \/ Publisher

Spec == Init /\ [][Next]_vars

\* Goroutines run whenever they can.  Nothing is assumed about the server: it
\* may read and answer nothing.  A select between a closed control channel and
\* the channel of a loop takes the first in the end.
FairSpec ==
    /\ Spec
    /\ WF_vars(Controller)
    /\ WF_vars(SenderStart) /\ WF_vars(SenderTakes) /\ WF_vars(SenderReports) /\ WF_vars(SenderStops)
    /\ WF_vars(ReceiverReports) /\ WF_vars(ReceiverFails) /\ WF_vars(ReceiverStops)
    /\ WF_vars(PublisherTakes) /\ WF_vars(PublisherReturns)
    /\ SF_vars(TakeStop) /\ SF_vars(ReconnectWait /\ ctl' = "last")

-----------------------------------------------------------------------------
(* Properties. *)

\* The publisher waits in Write, Ping or Fail for room in a channel that nobody
\* empties any more: that of a connection being torn down.
Stuck ==
    /\ pub.doing \in {"write", "ping", "fail"}
    /\ ~HasRoom
    /\ pub.chan # conn \/ ctl # "up" \/ (pub.doing # "fail" /\ snd \in {"off", "fail"})

\* Implementation of LinkEvents: however the controller, the sender and the
\* receiver interleave, no answer comes outside an announced connection, and
\* nothing after Finished.
Contract ==
    INSTANCE LinkEvents WITH
        link  <- told,
        queue <- eventChan
KeepsContract == Contract!LinkSpec

\* Write, Ping and Fail wait without looking at the connection.  They are left
\* waiting for ever only where the receiver repeated its error until failChan
\* was full, where a ping took the place of a payload in sendChan, where an
\* earlier call, made before the failure of the last connection was seen, used
\* the channels of the next one, or where "max pending payloads" was higher at
\* some time, before or after, than when sendChan was made.
StuckExplained ==
    Stuck => \/ pub.chan \in late
             \/ pub.doing # "fail" /\ sendCap[pub.chan] < limits.highest
             \/ IF pub.doing = "fail"
                THEN \E i \in DOMAIN failChan[pub.chan] : failChan[pub.chan][i] = "receive"
                ELSE \E i \in DOMAIN sendChan[pub.chan] : sendChan[pub.chan][i] = "ping"

\* A transport that is shut down ends, whatever the server does with what it is
\* sent, unless the publisher is stuck and takes no events.
TransportEnds == stopping ~> (pub.doing = "over" \/ Stuck)

\* A server with a reachable address is connected to in the end: failed
\* attempts move on to the next address.
Reconnects == ctl = "dial" ~> (ctl \in {"up", "done"} \/ stopping \/ Stuck)
=============================================================================
