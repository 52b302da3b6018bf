----------------------------- MODULE Transport -----------------------------
(***************************************************************************)
(* The transports the endpoints own, the connection each of them keeps and *)
(* the remote server, as the publisher sees them: calls (NewTransport,     *)
(* Write, Ping, Fail, Shutdown) on one side, events on the sink's shared   *)
(* event channel on the other.  One step is one pass of the controller of  *)
(* transports/tcp/tcp.go to its next event.                                *)
(***************************************************************************)
EXTENDS Integers, FiniteSets, Sequences, Payload

CONSTANTS Servers,        \* the server entries of the configuration
          Method,         \* "random" or "loadbalance"
          EventChanCap,   \* capacity of the sink's event channel (10 in the code)
          MaxFaults       \* bound on what goes wrong: failed connections, missed
                          \* network timeouts, repeated ACKs, failed registry writes

ASSUME TransportAssumption ==
    /\ Servers # {}
    /\ IsFiniteSet(Servers)
    /\ Method \in {"random", "loadbalance"}
    /\ EventChanCap \in Nat \ {0}
    /\ MaxFaults \in Nat

VARIABLES
    link,       \* what the controller of each server's transport is doing
    stopping,   \* controllerChan is closed: Shutdown() was called
    failing,    \* a nil error waits in failChan: Fail() was called
    wire,       \* payload messages of this connection not fully acknowledged
    pinged,     \* a PING of this connection is unanswered
    eventChan,  \* the sink's event channel, oldest first
    received,   \* events some server has acknowledged processing (history)
    faults      \* failures injected so far

transportVars == <<link, stopping, failing, wire, pinged, eventChan, received, faults>>

\* none: no transport; down: dialling or waiting to reconnect; up: connected,
\* sender and receiver running; finished: controller returned.
Links == {"none", "down", "up", "finished"}

\* A payload message: the payload (its nonce), the offset before its first
\* event, its number of events and the highest sequence acknowledged so far.
Message == [nonce : Nat, base : Nat, size : Nat, acked : Nat]

StatusEvent == [type : {"started", "failed", "finished", "pong"}, ep : Servers]
AckedEvent  == [type : {"ack"}, ep : Servers, nonce : Nat, sequence : Nat]

TransportTypeOK ==
    /\ link \in [Servers -> Links]
    /\ stopping \in [Servers -> BOOLEAN]
    /\ failing \in [Servers -> BOOLEAN]
    /\ wire \in [Servers -> SUBSET Message]
    /\ pinged \in [Servers -> BOOLEAN]
    /\ eventChan \in Seq(StatusEvent \cup AckedEvent)
    /\ received \subseteq Nat
    /\ faults \in Nat

\* Mutant of FinishOnFail: every transport reconnects by itself.
NeverFinishOnFail == FALSE

\* Transports of method random end on failure instead of reconnecting.
FinishOnFail == Method = "random"

ChanHasRoom == Len(eventChan) < EventChanCap

\* sendEvent: the channel is a bounded queue, so the sender waits for room.
SendEvent(event) ==
    /\ ChanHasRoom
    /\ eventChan' = Append(eventChan, event)

Status(type, s) == [type |-> type, ep |-> s]

-----------------------------------------------------------------------------
(* The calls the publisher makes. *)

\* Write queues one JDAT message. With no connection it lands in the send
\* channel of the last one, which connect() throws away.
Write(s, p, pp) ==
    wire' = IF link[s] = "up"
            THEN [wire EXCEPT ![s] = @ \cup
                    {[nonce |-> p, base |-> EventsFrom(pp), size |-> EventsLen(pp), acked |-> 0]}]
            ELSE wire

Ping(s) == pinged' = [pinged EXCEPT ![s] = link[s] = "up"]

\* Fail() without a connection fills the old failChan, dropped by connect().
Fail(s) == failing' = [failing EXCEPT ![s] = link[s] = "up"]

-----------------------------------------------------------------------------
(* The controller. *)

\* The connection is gone: whatever was queued on it is lost.
DropConnection(s) ==
    /\ wire' = [wire EXCEPT ![s] = {}]
    /\ pinged' = [pinged EXCEPT ![s] = FALSE]
    /\ failing' = [failing EXCEPT ![s] = FALSE]

\* The controller's error path: disconnect, then end or report and reconnect.
Disconnect(s) ==
    /\ DropConnection(s)
    /\ link' = [link EXCEPT ![s] = IF FinishOnFail THEN "finished" ELSE "down"]
    /\ SendEvent(Status(IF FinishOnFail THEN "finished" ELSE "failed", s))
    /\ UNCHANGED <<stopping, received>>

\* connect() succeeds with fresh channels; the sender reports Started.
Connect(s) ==
    /\ link[s] = "down"
    /\ DropConnection(s)
    /\ link' = [link EXCEPT ![s] = "up"]
    /\ SendEvent(Status("started", s))
    /\ UNCHANGED <<stopping, received, faults>>

\* connect() fails, or an established connection does.
ConnectionError(s) ==
    /\ link[s] \in {"down", "up"}
    /\ faults < MaxFaults
    /\ faults' = faults + 1
    /\ Disconnect(s)

\* The controller takes the nil error that Fail() left.
ForcedFailure(s) ==
    /\ link[s] = "up"
    /\ failing[s]
    /\ Disconnect(s)
    /\ UNCHANGED faults

\* The controller sees controllerChan closed; its deferred call reports Finished.
StopTransport(s) ==
    /\ stopping[s]
    /\ link[s] \in {"down", "up"}
    /\ DropConnection(s)
    /\ link' = [link EXCEPT ![s] = "finished"]
    /\ SendEvent(Status("finished", s))
    /\ UNCHANGED <<stopping, received, faults>>

-----------------------------------------------------------------------------
(* The remote server (external), read by the receiver of the connection. *)

\* The server acknowledges the first k events of a message.  Repeating the last
\* sequence, or 0, says it is still working and costs one of MaxFaults.
ServerAck(s, m, k) ==
    /\ link[s] = "up"
    /\ m \in wire[s]
    /\ k \in m.acked .. m.size
    /\ k = m.acked => faults < MaxFaults
    /\ faults' = IF k = m.acked THEN faults + 1 ELSE faults
    /\ received' = received \cup ((m.base + 1) .. (m.base + k))
    /\ wire' = [wire EXCEPT ![s] = (@ \ {m}) \cup
                    (IF k = m.size THEN {} ELSE {[m EXCEPT !.acked = k]})]
    /\ SendEvent([type |-> "ack", ep |-> s, nonce |-> m.nonce, sequence |-> k])
    /\ UNCHANGED <<link, stopping, failing, pinged>>

ServerPong(s) ==
    /\ link[s] = "up"
    /\ pinged[s]
    /\ pinged' = [pinged EXCEPT ![s] = FALSE]
    /\ SendEvent(Status("pong", s))
    /\ UNCHANGED <<link, stopping, failing, wire, received, faults>>

TransportStep(s) ==
    \/ Connect(s)
    \/ ConnectionError(s)
    \/ ForcedFailure(s)
    \/ StopTransport(s)
    \/ \E m \in wire[s] : \E k \in 0 .. m.size : ServerAck(s, m, k)
    \/ ServerPong(s)
=============================================================================
