-------------------------- MODULE PublisherProofs --------------------------
(***************************************************************************)
(* Machine-checked proofs about Publisher, for every set of servers and    *)
(* every value of the bounds, under both methods; those about the network  *)
(* timeout and about OrderedDelivery are for method random only.           *)
(***************************************************************************)
EXTENDS Publisher, FiniteSetTheorems, TLAPS

-----------------------------------------------------------------------------
(* The arithmetic of one payload. *)

\* payload.go: a new payload counts exactly its own events.
LEMMA NewPayloadConsistent ==
    ASSUME NEW lo \in Nat, NEW n \in Nat
    PROVE  /\ NewPayload(lo, n) \in PayloadRec
           /\ SequenceConsistent(NewPayload(lo, n))
  BY DEF NewPayload, PayloadRec, SequenceConsistent, Complete, EventsLen

\* Changing the numbers of a payload keeps it a payload.
LEMMA PayloadUpdate ==
    ASSUME NEW pp \in PayloadRec, NEW lo \in Nat, NEW ack \in Nat, NEW last \in Nat, NEW len \in Nat
    PROVE  /\ [pp EXCEPT !.ackEvents = ack, !.lastSequence = last] \in PayloadRec
           /\ [pp EXCEPT !.lastSequence = last, !.sequenceLen = len] \in PayloadRec
           /\ [pp EXCEPT !.lo = lo, !.ackEvents = ack] \in PayloadRec
  BY DEF PayloadRec

\* Payload.Ack: whatever sequence number arrives, acknowledged events stay
\* within the payload and the sequence still counts the others.
LEMMA AckConsistent ==
    ASSUME NEW pp \in PayloadRec, SequenceConsistent(pp), NEW sequence \in Nat
    PROVE  /\ Ack(pp, sequence) \in PayloadRec
           /\ SequenceConsistent(Ack(pp, sequence))
           /\ Ack(pp, sequence).lo = pp.lo
           /\ Ack(pp, sequence).hi = pp.hi
  <1> DEFINE q == Ack(pp, sequence)
  <1>0. /\ pp.lo \in Nat /\ pp.hi \in Nat /\ pp.ackEvents \in Nat
        /\ pp.lastSequence \in Nat /\ pp.sequenceLen \in Nat
    BY DEF PayloadRec
  <1>1. CASE sequence <= pp.lastSequence
    BY <1>1 DEF Ack
  <1>2. CASE sequence > pp.lastSequence
    <2> DEFINE ack == IF sequence >= pp.sequenceLen THEN pp.hi - pp.lo
                      ELSE pp.ackEvents + (sequence - pp.lastSequence)
    <2>1. q = [pp EXCEPT !.ackEvents = ack, !.lastSequence = sequence]
      BY <1>0, <1>2 DEF Ack
    <2>2. ack \in Nat
      BY <1>0, <1>2 DEF SequenceConsistent, Complete, EventsLen
    <2>3. q \in PayloadRec
      <3> HIDE DEF ack, q
      <3> QED  BY <2>1, <2>2, PayloadUpdate, 0 \in Nat
    <2>4. /\ q.lo = pp.lo /\ q.hi = pp.hi /\ q.ackEvents = ack
          /\ q.lastSequence = sequence /\ q.sequenceLen = pp.sequenceLen
      <3> HIDE DEF ack, q
      <3> QED  BY <2>1 DEF PayloadRec
    <2>5. SequenceConsistent(q)
      <3> HIDE DEF q
      <3> QED  BY <1>0, <1>2, <2>4 DEF SequenceConsistent, Complete, EventsLen
    <2> QED  BY <2>3, <2>4, <2>5
  <1> QED  BY <1>0, <1>1, <1>2

\* Payload.ResetSequence renumbers what is left from 1.
LEMMA ResetConsistent ==
    ASSUME NEW pp \in PayloadRec, SequenceConsistent(pp)
    PROVE  /\ ResetSequence(pp) \in PayloadRec
           /\ SequenceConsistent(ResetSequence(pp))
           /\ ResetSequence(pp).lo = pp.lo
           /\ ResetSequence(pp).hi = pp.hi
  <1> DEFINE q == ResetSequence(pp)
             len == EventsLen(pp)
  <1>0. /\ pp.lo \in Nat /\ pp.hi \in Nat /\ pp.ackEvents \in Nat
    BY DEF PayloadRec
  <1>1. q = [pp EXCEPT !.lastSequence = 0, !.sequenceLen = len]
    BY DEF ResetSequence
  <1>2. len \in Nat
    BY <1>0 DEF SequenceConsistent, EventsLen
  <1> HIDE DEF q, len
  <1>3. q \in PayloadRec
    BY <1>1, <1>2, PayloadUpdate, 0 \in Nat
  <1>4. /\ q.lo = pp.lo /\ q.hi = pp.hi /\ q.ackEvents = pp.ackEvents
        /\ q.lastSequence = 0 /\ q.sequenceLen = len
    BY <1>1 DEF PayloadRec
  <1>5. SequenceConsistent(q)
    BY <1>0, <1>2, <1>4 DEF SequenceConsistent, Complete, EventsLen, len
  <1> QED  BY <1>3, <1>4, <1>5 DEF q

\* Payload.Rollup hands over the acknowledged events and keeps the numbering.
LEMMA RollupConsistent ==
    ASSUME NEW pp \in PayloadRec, SequenceConsistent(pp)
    PROVE  /\ Rollup(pp) \in PayloadRec
           /\ SequenceConsistent(Rollup(pp))
           /\ RollupEvents(pp) \in AckEvent
           /\ RollupEvents(pp).from = pp.lo
           /\ RollupEvents(pp).to = pp.lo + pp.ackEvents
           /\ Rollup(pp).lo = pp.lo + pp.ackEvents
           /\ Rollup(pp).hi = pp.hi
  <1> DEFINE q == Rollup(pp)
             to == pp.lo + pp.ackEvents
  <1>0. /\ pp.lo \in Nat /\ pp.hi \in Nat /\ pp.ackEvents \in Nat
        /\ pp.lastSequence \in Nat /\ pp.sequenceLen \in Nat
    BY DEF PayloadRec
  <1>1. q = [pp EXCEPT !.lo = to, !.ackEvents = 0]
    BY DEF Rollup, EventsFrom
  <1>2. to \in Nat
    BY <1>0
  <1>3. RollupEvents(pp) = [from |-> pp.lo, to |-> to]
    BY DEF RollupEvents, EventsFrom
  <1> HIDE DEF q, to
  <1>4. q \in PayloadRec
    BY <1>1, <1>2, PayloadUpdate, 0 \in Nat
  <1>5. /\ q.lo = to /\ q.hi = pp.hi /\ q.ackEvents = 0
        /\ q.lastSequence = pp.lastSequence /\ q.sequenceLen = pp.sequenceLen
    BY <1>1 DEF PayloadRec
  <1>6. SequenceConsistent(q)
    BY <1>0, <1>5 DEF SequenceConsistent, Complete, EventsLen, to
  <1>7. /\ RollupEvents(pp) \in AckEvent
        /\ RollupEvents(pp).from = pp.lo
        /\ RollupEvents(pp).to = to
    BY <1>0, <1>2, <1>3 DEF AckEvent
  <1> QED  BY <1>4, <1>5, <1>6, <1>7 DEF q, to

\* The Resending flag is not part of the arithmetic.
LEMMA FlagConsistent ==
    ASSUME NEW pp \in PayloadRec, SequenceConsistent(pp), NEW b \in BOOLEAN
    PROVE  /\ [pp EXCEPT !.resending = b] \in PayloadRec
           /\ SequenceConsistent([pp EXCEPT !.resending = b])
  <1> DEFINE q == [pp EXCEPT !.resending = b]
  <1>1. q \in PayloadRec
    BY DEF PayloadRec
  <1>2. /\ q.lo = pp.lo /\ q.hi = pp.hi /\ q.ackEvents = pp.ackEvents
        /\ q.lastSequence = pp.lastSequence /\ q.sequenceLen = pp.sequenceLen
    BY DEF PayloadRec
  <1> QED  BY <1>1, <1>2 DEF SequenceConsistent, Complete, EventsLen

-----------------------------------------------------------------------------
(* Lists. *)

\* internallist Remove: what remains are elements of the list.
LEMMA WithoutType ==
    ASSUME NEW S, NEW list \in Seq(S), NEW x
    PROVE  Without(list, x) \in Seq(S)
  <1>1. CASE x \notin Members(list)
    BY <1>1 DEF Without
  <1>2. CASE x \in Members(list)
    <2> DEFINE at == CHOOSE i \in 1 .. Len(list) : list[i] = x
    <2>1. Len(list) - 1 \in Nat
      BY <1>2 DEF Members
    <2>2. \A i \in 1 .. Len(list) - 1 : (IF i < at THEN list[i] ELSE list[i + 1]) \in S
      OBVIOUS
    <2>3. Without(list, x) = [i \in 1 .. Len(list) - 1 |-> IF i < at THEN list[i] ELSE list[i + 1]]
      BY <1>2 DEF Without
    <2> QED  BY <2>1, <2>2, <2>3
  <1> QED  BY <1>1, <1>2

\* Whatever order a map is iterated in, its members come out.
LEMMA OrdersType ==
    ASSUME NEW n \in Nat, NEW S \in SUBSET (1 .. n), NEW f \in Orders(S)
    PROVE  f \in Seq(S) /\ f \in Seq(1 .. n)
  <1>1. IsFiniteSet(S)
    <2>1. IsFiniteSet(1 .. n)
      BY FS_Interval
    <2> QED  BY <2>1, FS_Subset
  <1>2. Cardinality(S) \in Nat
    BY <1>1, FS_CardinalityType
  <1>3. f \in [1 .. Cardinality(S) -> S]
    BY DEF Orders
  <1>4. \A i \in 1 .. Cardinality(S) : f[i] \in S
    BY <1>3
  <1>5. f \in Seq(S)
    BY <1>2, <1>3
  <1>6. f \in [1 .. Cardinality(S) -> 1 .. n]
    BY <1>3, <1>4
  <1>7. f \in Seq(1 .. n)
    BY <1>2, <1>6
  <1> QED  BY <1>5, <1>7

\* Appending an element to a list.
LEMMA AppendType ==
    ASSUME NEW S, NEW list \in Seq(S), NEW x \in S
    PROVE  Append(list, x) \in Seq(S)
  OBVIOUS

\* A list over 1..n is a list over any longer range.
LEMMA SeqWiden ==
    ASSUME NEW n \in Nat, NEW m \in Nat, n <= m, NEW list \in Seq(1 .. n)
    PROVE  list \in Seq(1 .. m)
  <1>1. \A i \in 1 .. Len(list) : list[i] \in 1 .. m
    OBVIOUS
  <1>2. list \in [1 .. Len(list) -> 1 .. m]
    BY <1>1
  <1> QED  BY <1>2

-----------------------------------------------------------------------------
(* Type correctness.  ResetSequence and Ack subtract, so that the numbers  *)
(* of a payload stay natural only because its sequence numbers count its   *)
(* events: the two facts are proved together.                              *)

Consistent == \A p \in 1 .. Len(payload) : SequenceConsistent(payload[p])

TypeInv == TypeOK /\ Consistent

\* What an action leaves alone keeps its type.
LEMMA UnchangedTypes ==
    ASSUME TypeInv
    PROVE  /\ UNCHANGED transportVars => TransportTypeOK'
           /\ UNCHANGED controlVars => ControlTypeOK'
           /\ UNCHANGED <<payloadVars, pending>> => PayloadTypeOK' /\ Consistent'
           /\ UNCHANGED <<status, ready, warming, pongPending, timeout, methodVars>> => EndpointTypeOK'
           /\ UNCHANGED registrarVars => RegistrarTypeOK'
  <1>1. UNCHANGED transportVars => TransportTypeOK'
    BY DEF TypeInv, TypeOK, TransportTypeOK, transportVars
  <1>2. UNCHANGED controlVars => ControlTypeOK'
    BY DEF TypeInv, TypeOK, ControlTypeOK, controlVars
  <1>3. UNCHANGED <<payloadVars, pending>> => PayloadTypeOK' /\ Consistent'
    BY DEF TypeInv, TypeOK, PayloadTypeOK, Consistent, payloadVars
  <1>4. UNCHANGED <<status, ready, warming, pongPending, timeout, methodVars>> => EndpointTypeOK'
    BY DEF TypeInv, TypeOK, EndpointTypeOK, methodVars
  <1>5. UNCHANGED registrarVars => RegistrarTypeOK'
    BY DEF TypeInv, TypeOK, RegistrarTypeOK, registrarVars
  <1> QED  BY <1>1, <1>2, <1>3, <1>4, <1>5

\* Every step of a transport or its server.
LEMMA TransportStepType ==
    ASSUME TypeInv, NEW s \in Servers, TransportStep(s), UNCHANGED publisherVars
    PROVE  TypeInv'
  <1>1. TransportTypeOK
    BY DEF TypeInv, TypeOK
  <1>2. /\ ControlTypeOK' /\ PayloadTypeOK' /\ Consistent' /\ EndpointTypeOK' /\ RegistrarTypeOK'
    BY UnchangedTypes DEF publisherVars, controlVars, payloadVars, endpointVars, methodVars, registrarVars
  <1>3. TransportTypeOK'
    <2>0. \A t \in {"started", "failed", "finished", "pong"} : Status(t, s) \in StatusEvent
      BY DEF Status, StatusEvent
    <2>1. ASSUME NEW e \in StatusEvent \cup AckedEvent, SendEvent(e)
          PROVE  eventChan' \in Seq(StatusEvent \cup AckedEvent)
      BY <1>1, <2>1 DEF TransportTypeOK, SendEvent
    <2>2. ASSUME DropConnection(s)
          PROVE  /\ wire' \in [Servers -> SUBSET Message]
                 /\ pinged' \in [Servers -> BOOLEAN]
                 /\ failing' \in [Servers -> BOOLEAN]
      BY <1>1, <2>2 DEF TransportTypeOK, DropConnection
    <2>3. ASSUME Disconnect(s), faults' \in Nat  PROVE TransportTypeOK'
      <3>1. link' \in [Servers -> Links]
        BY <1>1, <2>3 DEF TransportTypeOK, Disconnect, Links
      <3>2. eventChan' \in Seq(StatusEvent \cup AckedEvent)
        BY <2>0, <2>1, <2>3 DEF Disconnect
      <3> QED  BY <1>1, <2>2, <2>3, <3>1, <3>2 DEF TransportTypeOK, Disconnect
    <2>4. CASE Connect(s)
      <3>1. link' \in [Servers -> Links]
        BY <1>1, <2>4 DEF TransportTypeOK, Connect, Links
      <3>2. eventChan' \in Seq(StatusEvent \cup AckedEvent)
        BY <2>0, <2>1, <2>4 DEF Connect
      <3> QED  BY <1>1, <2>2, <2>4, <3>1, <3>2 DEF TransportTypeOK, Connect
    <2>5. CASE ConnectionError(s)
      BY <1>1, <2>3, <2>5 DEF TransportTypeOK, ConnectionError
    <2>6. CASE ForcedFailure(s)
      BY <1>1, <2>3, <2>6 DEF TransportTypeOK, ForcedFailure
    <2>7. CASE StopTransport(s)
      <3>1. link' \in [Servers -> Links]
        BY <1>1, <2>7 DEF TransportTypeOK, StopTransport, Links
      <3>2. eventChan' \in Seq(StatusEvent \cup AckedEvent)
        BY <2>0, <2>1, <2>7 DEF StopTransport
      <3> QED  BY <1>1, <2>2, <2>7, <3>1, <3>2 DEF TransportTypeOK, StopTransport
    <2>8. ASSUME NEW m \in wire[s], NEW k \in 0 .. m.size, ServerAck(s, m, k)
          PROVE  TransportTypeOK'
      <3>1. m \in Message /\ k \in Nat
        BY <1>1 DEF TransportTypeOK, Message
      <3>2. [m EXCEPT !.acked = k] \in Message
        BY <3>1 DEF Message
      <3>3. wire' \in [Servers -> SUBSET Message]
        BY <1>1, <2>8, <3>2 DEF TransportTypeOK, ServerAck
      <3>4. [type |-> "ack", ep |-> s, nonce |-> m.nonce, sequence |-> k] \in AckedEvent
        BY <3>1 DEF Message, AckedEvent
      <3>5. eventChan' \in Seq(StatusEvent \cup AckedEvent)
        BY <2>1, <2>8, <3>4 DEF ServerAck
      <3>6. received' \subseteq Nat
        BY <1>1, <2>8, <3>1 DEF TransportTypeOK, ServerAck, Message
      <3>7. faults' \in Nat
        BY <1>1, <2>8 DEF TransportTypeOK, ServerAck
      <3> QED  BY <1>1, <2>8, <3>3, <3>5, <3>6, <3>7 DEF TransportTypeOK, ServerAck
    <2>9. CASE ServerPong(s)
      <3>1. eventChan' \in Seq(StatusEvent \cup AckedEvent)
        BY <2>0, <2>1, <2>9 DEF ServerPong
      <3> QED  BY <1>1, <2>9, <3>1 DEF TransportTypeOK, ServerPong
    <2> QED  BY <2>4, <2>5, <2>6, <2>7, <2>8, <2>9 DEF TransportStep
  <1> QED  BY <1>2, <1>3 DEF TypeInv, TypeOK

\* sendPayload hands any payload of consistent numbers to an endpoint.
LEMMA SendPayloadType ==
    ASSUME TypeInv, NEW s \in Servers, NEW p \in Nat, NEW pp \in PayloadRec,
           SequenceConsistent(pp), SendPayload(s, p, pp)
    PROVE  TransportTypeOK' /\ EndpointTypeOK' /\ RegistrarTypeOK'
  <1>1. TransportTypeOK'
    <2> DEFINE m == [nonce |-> p, base |-> EventsFrom(pp), size |-> EventsLen(pp), acked |-> 0]
    <2>1. m \in Message
      BY DEF Message, PayloadRec, SequenceConsistent, EventsFrom, EventsLen
    <2>2. wire' \in [Servers -> SUBSET Message]
      BY <2>1 DEF TypeInv, TypeOK, TransportTypeOK, SendPayload, Write
    <2> QED  BY <2>2 DEF TypeInv, TypeOK, TransportTypeOK, SendPayload
  <1>2. EndpointTypeOK'
    BY DEF TypeInv, TypeOK, EndpointTypeOK, SendPayload, Timeouts, methodVars
  <1>3. RegistrarTypeOK'
    BY UnchangedTypes DEF SendPayload
  <1> QED  BY <1>1, <1>2, <1>3

\* sendEvents appends a payload to the list.
LEMMA SendEventsType ==
    ASSUME TypeInv, NEW s \in Servers, NEW n \in Nat, SendEvents(s, n)
    PROVE  TransportTypeOK' /\ EndpointTypeOK' /\ RegistrarTypeOK' /\ PayloadTypeOK' /\ Consistent'
  <1> DEFINE pp == NewPayload(spooled, n)
             p  == Len(payload) + 1
  <1>1. PayloadTypeOK /\ Consistent
    BY DEF TypeInv, TypeOK
  <1>2. pp \in PayloadRec /\ SequenceConsistent(pp)
    BY <1>1, NewPayloadConsistent DEF PayloadTypeOK
  <1>3. p \in Nat
    BY <1>1 DEF PayloadTypeOK
  <1>4. /\ payload' = Append(payload, pp)
        /\ payloadList' = Append(payloadList, p)
        /\ numPayloads' = numPayloads + 1
        /\ spooled' = spooled + n
        /\ SendPayload(s, p, pp)
        /\ UNCHANGED <<outOfSync, resendList>>
    BY DEF SendEvents
  <1> HIDE DEF pp
  <1>5. TransportTypeOK' /\ EndpointTypeOK' /\ RegistrarTypeOK'
    BY <1>2, <1>3, <1>4, SendPayloadType
  <1>6. /\ payload' \in Seq(PayloadRec)
        /\ Len(payload') = p
        /\ \A q \in 1 .. Len(payload) : payload'[q] = payload[q]
        /\ payload'[p] = pp
    BY <1>1, <1>2, <1>4 DEF PayloadTypeOK
  <1>7. PayloadTypeOK'
    <2>1. payloadList \in Seq(1 .. p) /\ resendList \in Seq(1 .. p)
      BY <1>1, <1>3, SeqWiden DEF PayloadTypeOK
    <2>2. payloadList' \in Seq(1 .. p) /\ resendList' \in Seq(1 .. p)
      BY <1>3, <1>4, <2>1
    <2>3. pending' \in [Servers -> SUBSET (1 .. p)]
      BY <1>1, <1>3, <1>4 DEF PayloadTypeOK, SendPayload
    <2> QED  BY <1>1, <1>4, <1>6, <2>2, <2>3 DEF PayloadTypeOK
  <1>8. Consistent'
    <2>1. ASSUME NEW q \in 1 .. Len(payload')  PROVE SequenceConsistent(payload'[q])
      <3>1. CASE q = p
        BY <1>2, <1>6, <3>1
      <3>2. CASE q # p
        <4>1. q \in 1 .. Len(payload)
          BY <1>1, <1>3, <1>6, <3>2 DEF PayloadTypeOK
        <4> QED  BY <1>1, <1>6, <4>1 DEF Consistent
      <3> QED  BY <3>1, <3>2
    <2> QED  BY <2>1 DEF Consistent
  <1> QED  BY <1>5, <1>7, <1>8

LEMMA SpoolStepType ==
    ASSUME TypeInv, SpoolStep
    PROVE  TypeInv'
  <1>1. ASSUME NEW n \in SpoolSizes, HoldSpool(n)  PROVE TypeInv'
    <2>1. ControlTypeOK'
      BY <1>1 DEF TypeInv, TypeOK, ControlTypeOK, HoldSpool
    <2>2. TransportTypeOK' /\ PayloadTypeOK' /\ Consistent' /\ EndpointTypeOK' /\ RegistrarTypeOK'
      BY <1>1, UnchangedTypes DEF HoldSpool, endpointVars, payloadVars, methodVars, registrarVars
    <2> QED  BY <2>1, <2>2 DEF TypeInv, TypeOK
  <1>2. ASSUME NEW n \in SpoolSizes, NEW s \in Servers, SendSpool(s, n)  PROVE TypeInv'
    <2>1. n \in Nat
      BY PublisherAssumption
    <2>2. TransportTypeOK' /\ EndpointTypeOK' /\ RegistrarTypeOK' /\ PayloadTypeOK' /\ Consistent'
      BY <1>2, <2>1, SendEventsType DEF SendSpool
    <2>3. ControlTypeOK'
      BY <1>2, UnchangedTypes DEF SendSpool, SendEvents, controlVars
    <2> QED  BY <2>2, <2>3 DEF TypeInv, TypeOK
  <1> QED  BY <1>1, <1>2 DEF SpoolStep

LEMMA QueueStepType ==
    ASSUME TypeInv, QueueStep
    PROVE  TypeInv'
  <1>1. ASSUME NEW s \in Servers, QueueResend(s)  PROVE TypeInv'
    <2> DEFINE p  == Head(resendList)
               pp == payload[p]
               q  == [ResetSequence(pp) EXCEPT !.resending = FALSE]
    <2>1. PayloadTypeOK /\ Consistent
      BY DEF TypeInv, TypeOK
    <2>2. /\ resendList # <<>>
          /\ SendPayload(s, p, pp)
          /\ payload' = [payload EXCEPT ![p] = q]
          /\ resendList' = Tail(resendList)
          /\ pc' \in {"select", "queueHeld"}
          /\ starting' = {}
          /\ UNCHANGED <<shuttingDown, nextSpool, spooled, payloadList, numPayloads, outOfSync>>
      BY <1>1 DEF QueueResend
    <2>3. p \in 1 .. Len(payload)
      BY <2>1, <2>2 DEF PayloadTypeOK
    <2>4. pp \in PayloadRec /\ SequenceConsistent(pp)
      BY <2>1, <2>3 DEF PayloadTypeOK, Consistent
    <2>5. q \in PayloadRec /\ SequenceConsistent(q)
      BY <2>4, ResetConsistent, FlagConsistent
    <2> HIDE DEF p, pp, q
    <2>6. TransportTypeOK' /\ EndpointTypeOK' /\ RegistrarTypeOK'
      BY <2>1, <2>2, <2>3, <2>4, SendPayloadType DEF PayloadTypeOK
    <2>7. payload' \in Seq(PayloadRec) /\ Len(payload') = Len(payload)
      BY <2>1, <2>2, <2>3, <2>5 DEF PayloadTypeOK
    <2>8. Consistent'
      <3>1. \A i \in 1 .. Len(payload) : payload'[i] = IF i = p THEN q ELSE payload[i]
        BY <2>1, <2>2, <2>3 DEF PayloadTypeOK
      <3> QED  BY <2>1, <2>5, <2>7, <3>1 DEF Consistent
    <2>9. PayloadTypeOK'
      <3>1. resendList' \in Seq(1 .. Len(payload))
        BY <2>1, <2>2 DEF PayloadTypeOK
      <3>2. pending' \in [Servers -> SUBSET (1 .. Len(payload))]
        BY <2>1, <2>2, <2>3 DEF PayloadTypeOK, SendPayload
      <3> QED  BY <2>1, <2>2, <2>7, <3>1, <3>2 DEF PayloadTypeOK
    <2>10. ControlTypeOK'
      BY <2>2 DEF TypeInv, TypeOK, ControlTypeOK
    <2> QED  BY <2>6, <2>8, <2>9, <2>10 DEF TypeInv, TypeOK
  <1>2. ASSUME NEW s \in Servers, QueueNextSpool(s)  PROVE TypeInv'
    <2>1. nextSpool \in Nat
      BY <1>2, PublisherAssumption
      DEF TypeInv, TypeOK, ControlTypeOK, QueueNextSpool, MayQueueNextSpool, MayQueueHeld
    <2>2. TransportTypeOK' /\ EndpointTypeOK' /\ RegistrarTypeOK' /\ PayloadTypeOK' /\ Consistent'
      BY <1>2, <2>1, SendEventsType DEF QueueNextSpool
    <2>3. ControlTypeOK'
      BY <1>2 DEF TypeInv, TypeOK, ControlTypeOK, QueueNextSpool, SendEvents
    <2> QED  BY <2>2, <2>3 DEF TypeInv, TypeOK
  <1>3. CASE QueueNothing
    <2>1. ControlTypeOK'
      BY <1>3 DEF TypeInv, TypeOK, ControlTypeOK, QueueNothing
    <2>2. EndpointTypeOK'
      BY <1>3 DEF TypeInv, TypeOK, EndpointTypeOK, QueueNothing, Timeouts, methodVars
    <2>3. TransportTypeOK' /\ PayloadTypeOK' /\ Consistent' /\ RegistrarTypeOK'
      BY <1>3, UnchangedTypes DEF QueueNothing, payloadVars, registrarVars
    <2> QED  BY <2>1, <2>2, <2>3 DEF TypeInv, TypeOK
  <1> QED  BY <1>1, <1>2, <1>3 DEF QueueStep

\* pullBackPending renumbers and lists what the endpoint had pending.
LEMMA PullBackType ==
    ASSUME TypeInv, NEW s \in Servers, NEW order, PullBackPending(s, order),
           pending' = [pending EXCEPT ![s] = {}]
    PROVE  /\ PayloadTypeOK' /\ Consistent'
           /\ pc' \in {"select", "queueHeld"} /\ starting' = {}
  <1>1. PayloadTypeOK /\ Consistent
    BY DEF TypeInv, TypeOK
  <1>2. order \in Seq(1 .. Len(payload))
    <2>1. order \in Orders(pending[s])
      BY DEF PullBackPending
    <2>2. Len(payload) \in Nat /\ pending[s] \in SUBSET (1 .. Len(payload))
      BY <1>1 DEF PayloadTypeOK
    <2> QED  BY <2>1, <2>2, OrdersType
  <1> DEFINE New(p) == IF p \in pending[s]
                       THEN [ResetSequence(payload[p]) EXCEPT !.resending = TRUE] ELSE payload[p]
  <1>3. payload' = [p \in 1 .. Len(payload) |-> New(p)]
    BY DEF PullBackPending
  <1>4. \A p \in 1 .. Len(payload) : New(p) \in PayloadRec /\ SequenceConsistent(New(p))
    <2> TAKE p \in 1 .. Len(payload)
    <2>1. payload[p] \in PayloadRec /\ SequenceConsistent(payload[p])
      BY <1>1 DEF PayloadTypeOK, Consistent
    <2>2. CASE p \in pending[s]
      BY <2>1, <2>2, ResetConsistent, FlagConsistent
    <2>3. CASE p \notin pending[s]
      BY <2>1, <2>3
    <2> QED  BY <2>2, <2>3
  <1> HIDE DEF New
  <1>5. Len(payload) \in Nat
    BY <1>1 DEF PayloadTypeOK
  <1>6. payload' \in Seq(PayloadRec) /\ Len(payload') = Len(payload)
    BY <1>3, <1>4, <1>5
  <1>7. Consistent'
    BY <1>3, <1>4, <1>6 DEF Consistent
  <1>8. resendList' \in Seq(1 .. Len(payload))
    BY <1>1, <1>2 DEF PayloadTypeOK, PullBackPending
  <1>9. pending' \in [Servers -> SUBSET (1 .. Len(payload))]
    BY <1>1 DEF PayloadTypeOK
  <1>10. PayloadTypeOK'
    BY <1>1, <1>6, <1>8, <1>9 DEF PayloadTypeOK, PullBackPending
  <1>11. pc' \in {"select", "queueHeld"} /\ starting' = {}
    BY DEF PullBackPending
  <1> QED  BY <1>7, <1>10, <1>11

\* Receiving an event shortens the channel.
LEMMA TakeType ==
    ASSUME TypeInv, NEW type, NEW s, Take(type, s)
    PROVE  /\ eventChan' \in Seq(StatusEvent \cup AckedEvent)
           /\ Head(eventChan) \in StatusEvent \cup AckedEvent
  BY DEF TypeInv, TypeOK, TransportTypeOK, Take

LEMMA StatusStepType ==
    ASSUME TypeInv, NEW s \in Servers, StatusStep(s)
    PROVE  TypeInv'
  <1>0. TransportTypeOK /\ ControlTypeOK /\ PayloadTypeOK /\ EndpointTypeOK /\ RegistrarTypeOK
    BY DEF TypeInv, TypeOK
  <1>1. Without(ready, s) \in Seq(Servers)
    BY <1>0, WithoutType DEF EndpointTypeOK
  <1>2. CASE StartedIdle(s)
    <2>1. TransportTypeOK'
      BY <1>0, <1>2, TakeType DEF TransportTypeOK, StartedIdle
    <2>2. ControlTypeOK'
      BY <1>0, <1>2 DEF ControlTypeOK, StartedIdle, MarkActive
    <2>3. EndpointTypeOK'
      BY <1>0, <1>2 DEF EndpointTypeOK, StartedIdle, MarkActive, Statuses, methodVars
    <2>4. PayloadTypeOK' /\ Consistent' /\ RegistrarTypeOK'
      BY <1>2, UnchangedTypes DEF StartedIdle, payloadVars, registrarVars
    <2> QED  BY <2>1, <2>2, <2>3, <2>4 DEF TypeInv, TypeOK
  <1>3. CASE StartedFailed(s)
    <2>1. TransportTypeOK'
      BY <1>0, <1>3, TakeType DEF TransportTypeOK, StartedFailed
    <2>2. EndpointTypeOK'
      BY <1>0, <1>3 DEF EndpointTypeOK, StartedFailed, SetTimeout, Statuses, Timeouts, methodVars
    <2>3. PayloadTypeOK' /\ Consistent' /\ RegistrarTypeOK' /\ ControlTypeOK'
      BY <1>3, UnchangedTypes DEF StartedFailed, payloadVars, registrarVars
    <2> QED  BY <2>1, <2>2, <2>3 DEF TypeInv, TypeOK
  <1>4. ASSUME NEW order, Failed(s, order)  PROVE TypeInv'
    <2>1. TransportTypeOK'
      BY <1>0, <1>4, TakeType DEF TransportTypeOK, Failed
    <2>2. EndpointTypeOK'
      BY <1>0, <1>1, <1>4 DEF EndpointTypeOK, Failed, SetTimeout, Statuses, Timeouts, methodVars
    <2>3. /\ PayloadTypeOK' /\ Consistent'
          /\ pc' \in {"select", "queueHeld"} /\ starting' = {}
      BY <1>4, PullBackType DEF Failed
    <2>4. ControlTypeOK'
      BY <1>0, <1>4, <2>3 DEF ControlTypeOK, Failed
    <2>5. RegistrarTypeOK'
      BY <1>4, UnchangedTypes DEF Failed
    <2> QED  BY <2>1, <2>2, <2>3, <2>4, <2>5 DEF TypeInv, TypeOK
  <1>5. ASSUME NEW order, Finished(s, order)  PROVE TypeInv'
    <2>1. TransportTypeOK'
      BY <1>0, <1>5, TakeType DEF TransportTypeOK, Finished, FreshEndpoint, Links
    <2>2. EndpointTypeOK'
      BY <1>0, <1>1, <1>5 DEF EndpointTypeOK, Finished, FreshEndpoint, SetTimeout, Statuses, Timeouts
    <2>3. /\ PayloadTypeOK' /\ Consistent'
          /\ pc' \in {"select", "queueHeld"} /\ starting' = {}
      BY <1>5, PullBackType DEF Finished, FreshEndpoint
    <2>4. ControlTypeOK'
      BY <1>0, <1>5, <2>3 DEF ControlTypeOK, Finished
    <2>5. RegistrarTypeOK'
      BY <1>5, UnchangedTypes DEF Finished
    <2> QED  BY <2>1, <2>2, <2>3, <2>4, <2>5 DEF TypeInv, TypeOK
  <1>6. CASE FinishedClosing(s)
    <2>1. TransportTypeOK'
      BY <1>0, <1>6, TakeType DEF TransportTypeOK, FinishedClosing, FreshEndpoint, Links
    <2>2. EndpointTypeOK'
      BY <1>0, <1>1, <1>6
      DEF EndpointTypeOK, FinishedClosing, FreshEndpoint, SetTimeout, Statuses, Timeouts, methodVars
    <2>3. PayloadTypeOK' /\ Consistent'
      BY <1>0, <1>6 DEF PayloadTypeOK, Consistent, TypeInv, FinishedClosing, FreshEndpoint, payloadVars
    <2>4. ControlTypeOK'
      BY <1>0, <1>6 DEF ControlTypeOK, FinishedClosing
    <2>5. RegistrarTypeOK'
      BY <1>6, UnchangedTypes DEF FinishedClosing
    <2> QED  BY <2>1, <2>2, <2>3, <2>4, <2>5 DEF TypeInv, TypeOK
  <1> QED  BY <1>2, <1>3, <1>4, <1>5, <1>6 DEF StatusStep

\* OnAck for the front payload, on payloads that already carry the ACK.
LEMMA RegisterPrefixType ==
    ASSUME TypeInv, NEW acked \in Seq(PayloadRec), Len(acked) = Len(payload),
           \A p \in 1 .. Len(payload) : SequenceConsistent(acked[p]),
           NEW k \in 0 .. Len(payloadList), RegisterPrefix(acked, k)
    PROVE  /\ payload' \in Seq(PayloadRec)
           /\ Len(payload') = Len(payload)
           /\ Consistent'
           /\ payloadList' \in Seq(1 .. Len(payload))
           /\ numPayloads' \in Int /\ outOfSync' \in Int
           /\ registrarChan' \in Seq(Seq(AckEvent) \ {<<>>})
  <1>0. PayloadTypeOK /\ RegistrarTypeOK
    BY DEF TypeInv, TypeOK
  <1> DEFINE m == RolledUp(acked, k)
             spool == [i \in 1 .. m |-> RollupEvents(acked[payloadList[i]])]
             New(p) == IF \E i \in 1 .. m : payloadList[i] = p THEN Rollup(acked[p]) ELSE acked[p]
  <1>1. m \in 0 .. Len(payloadList)
    BY <1>0 DEF RolledUp, PayloadTypeOK
  <1>2. /\ payload' = [p \in 1 .. Len(payload) |-> New(p)]
        /\ payloadList' = SubSeq(payloadList, k + 1, Len(payloadList))
        /\ numPayloads' = numPayloads - k
        /\ outOfSync' \in {outOfSync, outOfSync + 1 - k}
        /\ \/ registrarChan' = registrarChan
           \/ m # 0 /\ registrarChan' = Append(registrarChan, spool)
    BY DEF RegisterPrefix
  <1>3. \A p \in 1 .. Len(payload) : acked[p] \in PayloadRec /\ SequenceConsistent(acked[p])
    OBVIOUS
  <1>4. \A p \in 1 .. Len(payload) : New(p) \in PayloadRec /\ SequenceConsistent(New(p))
    BY <1>3, RollupConsistent
  <1>5. spool \in Seq(AckEvent) /\ (m # 0 => spool # <<>>)
    <2>1. \A i \in 1 .. m : payloadList[i] \in 1 .. Len(payload)
      BY <1>0, <1>1 DEF PayloadTypeOK
    <2>2. \A i \in 1 .. m : RollupEvents(acked[payloadList[i]]) \in AckEvent
      BY <1>3, <2>1, RollupConsistent
    <2> HIDE DEF m
    <2>3. m \in Nat
      BY <1>0, <1>1 DEF PayloadTypeOK
    <2>4. spool \in [1 .. m -> AckEvent]
      BY <2>2
    <2>5. spool \in Seq(AckEvent) /\ Len(spool) = m
      BY <2>3, <2>4
    <2> QED  BY <2>3, <2>5
  <1> HIDE DEF m, spool, New
  <1>6. payload' \in Seq(PayloadRec) /\ Len(payload') = Len(payload)
    BY <1>0, <1>2, <1>4 DEF PayloadTypeOK
  <1>7. Consistent'
    BY <1>2, <1>4, <1>6 DEF Consistent
  <1>8. payloadList' \in Seq(1 .. Len(payload))
    BY <1>0, <1>2 DEF PayloadTypeOK
  <1>9. numPayloads' \in Int /\ outOfSync' \in Int
    BY <1>0, <1>2 DEF PayloadTypeOK
  <1>10. registrarChan' \in Seq(Seq(AckEvent) \ {<<>>})
    <2>1. CASE registrarChan' = registrarChan
      BY <1>0, <2>1 DEF RegistrarTypeOK
    <2>2. CASE m # 0 /\ registrarChan' = Append(registrarChan, spool)
      <3>1. spool \in Seq(AckEvent) \ {<<>>}
        BY <1>5, <2>2
      <3> QED  BY <1>0, <2>2, <3>1, AppendType DEF RegistrarTypeOK
    <2> QED  BY <1>2, <2>1, <2>2
  <1> QED  BY <1>6, <1>7, <1>8, <1>9, <1>10

\* The payloads after an acknowledgement, before anything is rolled up.
AckedPayloads == ApplyAck(Head(eventChan).nonce, Head(eventChan).sequence)

LEMMA AckedPayloadsType ==
    ASSUME TypeInv, NEW s \in Servers, Take("ack", s), Head(eventChan).nonce \in pending[s]
    PROVE  /\ AckedPayloads \in Seq(PayloadRec)
           /\ Len(AckedPayloads) = Len(payload)
           /\ \A q \in 1 .. Len(payload) : /\ SequenceConsistent(AckedPayloads[q])
                                           /\ AckedPayloads[q].lo = payload[q].lo
                                           /\ AckedPayloads[q].hi = payload[q].hi
           /\ \A q \in 1 .. Len(payload) :
                q # Head(eventChan).nonce => AckedPayloads[q] = payload[q]
  <1>0. PayloadTypeOK /\ Consistent /\ TransportTypeOK
    BY DEF TypeInv, TypeOK
  <1> DEFINE p == Head(eventChan).nonce
             sequence == Head(eventChan).sequence
             pp == Ack(payload[p], sequence)
             new == [pp EXCEPT !.resending = @ /\ ~Complete(pp)]
  <1>1. p \in 1 .. Len(payload)
    BY <1>0 DEF PayloadTypeOK
  <1>2. sequence \in Nat
    BY <1>0, TakeType DEF Take, StatusEvent, AckedEvent
  <1>3. payload[p] \in PayloadRec /\ SequenceConsistent(payload[p])
    BY <1>0, <1>1 DEF PayloadTypeOK, Consistent
  <1>4. /\ pp \in PayloadRec /\ SequenceConsistent(pp)
        /\ pp.lo = payload[p].lo /\ pp.hi = payload[p].hi
    BY <1>2, <1>3, AckConsistent
  <1> HIDE DEF pp
  <1>5. /\ new \in PayloadRec /\ SequenceConsistent(new)
        /\ new.lo = payload[p].lo /\ new.hi = payload[p].hi
    <2> DEFINE b == pp.resending /\ ~Complete(pp)
    <2>1. b \in BOOLEAN
      OBVIOUS
    <2>2. new = [pp EXCEPT !.resending = b]
      OBVIOUS
    <2> HIDE DEF b, new
    <2>3. new \in PayloadRec /\ SequenceConsistent(new)
      BY <1>4, <2>1, <2>2, FlagConsistent
    <2>4. new.lo = pp.lo /\ new.hi = pp.hi
      BY <1>4, <2>2 DEF PayloadRec
    <2> QED  BY <1>4, <2>3, <2>4
  <1>6. AckedPayloads = [payload EXCEPT ![p] = new]
    BY DEF AckedPayloads, ApplyAck, pp
  <1> HIDE DEF new, p
  <1>7. AckedPayloads \in Seq(PayloadRec) /\ Len(AckedPayloads) = Len(payload)
    BY <1>0, <1>1, <1>5, <1>6 DEF PayloadTypeOK
  <1>8. \A q \in 1 .. Len(payload) : AckedPayloads[q] = IF q = p THEN new ELSE payload[q]
    BY <1>0, <1>1, <1>6 DEF PayloadTypeOK
  <1>9. \A q \in 1 .. Len(payload) : SequenceConsistent(payload[q])
    BY <1>0 DEF Consistent
  <1> QED  BY <1>5, <1>7, <1>8, <1>9 DEF p

LEMMA AnswerStepType ==
    ASSUME TypeInv, NEW s \in Servers, AnswerStep(s)
    PROVE  TypeInv'
  <1>0. TransportTypeOK /\ ControlTypeOK /\ PayloadTypeOK /\ EndpointTypeOK /\ RegistrarTypeOK /\ Consistent
    BY DEF TypeInv, TypeOK
  <1>1. ASSUME NEW k \in 0 .. Len(payloadList), Acked(s, k)  PROVE TypeInv'
    <2> DEFINE p    == Head(eventChan).nonce
               full == AckIsFull(payload[p], Head(eventChan).sequence)
               left == IF full THEN pending[s] \ {p} ELSE pending[s]
    <2>1. Take("ack", s) /\ p \in pending[s]
      BY <1>1 DEF Acked
    <2>2. /\ pending' = [pending EXCEPT ![s] = left]
          /\ resendList' \in {Without(resendList, p), resendList}
          /\ UNCHANGED <<spooled, registered, persisted, crashes>>
      BY <1>1 DEF Acked
    <2>3. /\ AckedPayloads \in Seq(PayloadRec)
          /\ Len(AckedPayloads) = Len(payload)
          /\ \A q \in 1 .. Len(payload) : SequenceConsistent(AckedPayloads[q])
      BY <2>1, AckedPayloadsType
    <2>4. /\ payload' \in Seq(PayloadRec)
          /\ Len(payload') = Len(payload)
          /\ Consistent'
          /\ payloadList' \in Seq(1 .. Len(payload))
          /\ numPayloads' \in Int /\ outOfSync' \in Int
          /\ registrarChan' \in Seq(Seq(AckEvent) \ {<<>>})
      <3>1. CASE RegisterPrefix(AckedPayloads, k)
        BY <2>3, <3>1, RegisterPrefixType
      <3>2. CASE KeepOutOfOrder(p, AckedPayloads)
        <4>1. /\ payload' = AckedPayloads
              /\ outOfSync' \in {outOfSync, outOfSync + 1}
              /\ UNCHANGED <<payloadList, numPayloads, registrarChan>>
          BY <3>2 DEF KeepOutOfOrder
        <4> QED  BY <1>0, <2>3, <4>1 DEF PayloadTypeOK, RegistrarTypeOK, Consistent
      <3> QED  BY <1>1, <3>1, <3>2 DEF Acked, AckedPayloads
    <2>5. PayloadTypeOK'
      <3>1. Without(resendList, p) \in Seq(1 .. Len(payload))
        BY <1>0, WithoutType DEF PayloadTypeOK
      <3> QED  BY <1>0, <2>2, <2>4, <3>1 DEF PayloadTypeOK
    <2>6. TransportTypeOK'
      BY <1>0, <1>1, <2>1, TakeType DEF TransportTypeOK, Acked
    <2>7. EndpointTypeOK'
      BY <1>0, <1>1 DEF EndpointTypeOK, Acked, SetTimeout, Timeouts, methodVars
    <2>8. ControlTypeOK'
      BY <1>0, <1>1 DEF ControlTypeOK, Acked
    <2>9. RegistrarTypeOK'
      BY <1>0, <2>2, <2>4 DEF RegistrarTypeOK
    <2> QED  BY <2>4, <2>5, <2>6, <2>7, <2>8, <2>9 DEF TypeInv, TypeOK
  <1>2. CASE Pong(s)
    <2>1. TransportTypeOK'
      BY <1>0, <1>2, TakeType DEF TransportTypeOK, Pong
    <2>2. EndpointTypeOK'
      BY <1>0, <1>2 DEF EndpointTypeOK, Pong, Timeouts, methodVars
    <2>3. ControlTypeOK' /\ PayloadTypeOK' /\ Consistent' /\ RegistrarTypeOK'
      BY <1>2, UnchangedTypes DEF Pong, controlVars, payloadVars, registrarVars
    <2> QED  BY <2>1, <2>2, <2>3 DEF TypeInv, TypeOK
  <1>3. CASE Ignored(s)
    <2>1. TransportTypeOK'
      BY <1>0, <1>3, TakeType DEF TransportTypeOK, Ignored
    <2>2. ControlTypeOK' /\ PayloadTypeOK' /\ Consistent' /\ EndpointTypeOK' /\ RegistrarTypeOK'
      BY <1>3, UnchangedTypes
      DEF Ignored, publisherVars, controlVars, payloadVars, endpointVars, methodVars, registrarVars
    <2> QED  BY <2>1, <2>2 DEF TypeInv, TypeOK
  <1> QED  BY <1>1, <1>2, <1>3 DEF AnswerStep

LEMMA TimeoutStepType ==
    ASSUME TypeInv, NEW s \in Servers, TimeoutStep(s)
    PROVE  TypeInv'
  <1>0. TransportTypeOK /\ ControlTypeOK /\ PayloadTypeOK /\ EndpointTypeOK /\ RegistrarTypeOK /\ Consistent
    BY DEF TypeInv, TypeOK
  <1>1. Without(ready, s) \in Seq(Servers)
    BY <1>0, WithoutType DEF EndpointTypeOK
  <1>2. CASE TimeoutPending(s)
    <2>1. TransportTypeOK'
      <3>1. failing' \in [Servers -> BOOLEAN]
        BY <1>0, <1>2 DEF TransportTypeOK, TimeoutPending, Fail
      <3>2. faults' \in Nat
        BY <1>0, <1>2 DEF TransportTypeOK, TimeoutPending
      <3> QED  BY <1>0, <1>2, <3>1, <3>2 DEF TransportTypeOK, TimeoutPending
    <2>2. EndpointTypeOK'
      BY <1>0, <1>1, <1>2 DEF EndpointTypeOK, TimeoutPending, SetTimeout, Timeouts, Statuses, methodVars
    <2>3. ControlTypeOK' /\ PayloadTypeOK' /\ Consistent' /\ RegistrarTypeOK'
      BY <1>2, UnchangedTypes DEF TimeoutPending, controlVars, payloadVars, registrarVars
    <2> QED  BY <2>1, <2>2, <2>3 DEF TypeInv, TypeOK
  <1>3. CASE TimeoutKeepalive(s)
    <2>1. TransportTypeOK'
      BY <1>0, <1>3 DEF TransportTypeOK, TimeoutKeepalive, Ping
    <2>2. EndpointTypeOK'
      BY <1>0, <1>3 DEF EndpointTypeOK, TimeoutKeepalive, SetTimeout, Timeouts, methodVars
    <2>3. ControlTypeOK' /\ PayloadTypeOK' /\ Consistent' /\ RegistrarTypeOK'
      BY <1>3, UnchangedTypes DEF TimeoutKeepalive, controlVars, payloadVars, registrarVars
    <2> QED  BY <2>1, <2>2, <2>3 DEF TypeInv, TypeOK
  <1>4. CASE TimeoutBackoff(s)
    <2>1. EndpointTypeOK'
      <3>1. status' \in [Servers -> Statuses] /\ ready' \in Seq(Servers)
        BY <1>0, <1>4 DEF EndpointTypeOK, TimeoutBackoff, MarkActive, Statuses
      <3>2. timeout' \in [Servers -> Timeouts]
        BY <1>0, <1>4 DEF EndpointTypeOK, TimeoutBackoff, SetTimeout, Timeouts
      <3> QED  BY <1>0, <1>4, <3>1, <3>2 DEF EndpointTypeOK, TimeoutBackoff, methodVars
    <2>2. ControlTypeOK'
      BY <1>0, <1>4 DEF ControlTypeOK, TimeoutBackoff, MarkActive
    <2>3. TransportTypeOK' /\ PayloadTypeOK' /\ Consistent' /\ RegistrarTypeOK'
      BY <1>4, UnchangedTypes DEF TimeoutBackoff, payloadVars, registrarVars
    <2> QED  BY <2>1, <2>2, <2>3 DEF TypeInv, TypeOK
  <1>5. CASE ConnectRandom(s)
    <2>1. TransportTypeOK'
      BY <1>0, <1>5 DEF TransportTypeOK, ConnectRandom, FreshEndpoint, Links
    <2>2. EndpointTypeOK'
      BY <1>0, <1>5 DEF EndpointTypeOK, ConnectRandom, FreshEndpoint, Statuses
    <2>3. PayloadTypeOK' /\ Consistent'
      BY <1>0, <1>5 DEF PayloadTypeOK, Consistent, ConnectRandom, FreshEndpoint, payloadVars
    <2>4. ControlTypeOK' /\ RegistrarTypeOK'
      BY <1>5, UnchangedTypes DEF ConnectRandom, controlVars, registrarVars
    <2> QED  BY <2>1, <2>2, <2>3, <2>4 DEF TypeInv, TypeOK
  <1> QED  BY <1>2, <1>3, <1>4, <1>5 DEF TimeoutStep

LEMMA ShutdownType ==
    ASSUME TypeInv, Shutdown
    PROVE  TypeInv'
  <1>0. TransportTypeOK /\ ControlTypeOK /\ PayloadTypeOK /\ EndpointTypeOK /\ RegistrarTypeOK /\ Consistent
    BY DEF TypeInv, TypeOK
  <1>1. TransportTypeOK'
    BY <1>0 DEF TransportTypeOK, Shutdown
  <1>2. ControlTypeOK'
    BY <1>0 DEF ControlTypeOK, Shutdown
  <1>3. EndpointTypeOK'
    BY <1>0 DEF EndpointTypeOK, Shutdown, Statuses, Timeouts, methodVars
  <1>4. PayloadTypeOK' /\ Consistent' /\ RegistrarTypeOK'
    BY UnchangedTypes DEF Shutdown, payloadVars, registrarVars
  <1> QED  BY <1>1, <1>2, <1>3, <1>4 DEF TypeInv, TypeOK

LEMMA RegistrarRunType ==
    ASSUME TypeInv, NEW written \in BOOLEAN, RegistrarRun(written)
    PROVE  TypeInv'
  <1>0. TransportTypeOK /\ RegistrarTypeOK
    BY DEF TypeInv, TypeOK
  <1> DEFINE spool == Head(registrarChan)
  <1>1. spool \in Seq(AckEvent) \ {<<>>}
    BY <1>0 DEF RegistrarTypeOK, RegistrarRun
  <1>2. registered' = spool[Len(spool)].to
    BY DEF RegistrarRun
  <1> HIDE DEF spool
  <1>3. registered' \in Nat
    <2>1. spool[Len(spool)] \in AckEvent
      BY <1>1
    <2> QED  BY <1>2, <2>1 DEF AckEvent
  <1>4. RegistrarTypeOK'
    <2>1. registrarChan' \in Seq(Seq(AckEvent) \ {<<>>})
      BY <1>0 DEF RegistrarTypeOK, RegistrarRun
    <2> QED  BY <1>0, <1>3, <2>1 DEF RegistrarTypeOK, RegistrarRun
  <1>5. TransportTypeOK'
    BY <1>0 DEF TransportTypeOK, RegistrarRun
  <1>6. ControlTypeOK' /\ PayloadTypeOK' /\ Consistent' /\ EndpointTypeOK'
    BY UnchangedTypes DEF RegistrarRun, controlVars, payloadVars, endpointVars, methodVars
  <1> QED  BY <1>4, <1>5, <1>6 DEF TypeInv, TypeOK

\* The values of a newly started process.
LEMMA ConnectedType ==
    ASSUME NEW connected \in Connected
    PROVE  /\ NewStatus(connected) \in [Servers -> Statuses]
           /\ NewLink(connected) \in [Servers -> Links]
           /\ AllFalse \in [Servers -> BOOLEAN]
           /\ connected \subseteq Servers
  <1>1. connected \subseteq Servers /\ connected # {}
    BY TransportAssumption DEF Connected
  <1> QED  BY <1>1 DEF NewStatus, NewLink, AllFalse, Statuses, Links

LEMMA CrashType ==
    ASSUME TypeInv, Crash
    PROVE  TypeInv'
  <1>0. TransportTypeOK /\ RegistrarTypeOK
    BY DEF TypeInv, TypeOK
  <1>1. TransportTypeOK'
    BY <1>0, ConnectedType DEF TransportTypeOK, Crash
  <1>2. ControlTypeOK'
    BY DEF ControlTypeOK, Crash
  <1>3. EndpointTypeOK'
    <2>1. PICK connected \in Connected :
             /\ status' = NewStatus(connected) /\ pongPending' = AllFalse
             /\ activeServer' \in connected
      BY DEF Crash
    <2>2. /\ warming' \in [Servers -> BOOLEAN] /\ timeout' \in [Servers -> Timeouts]
          /\ ready' \in Seq(Servers)
      BY DEF Crash, Timeouts
    <2>3. methodTimer' \in BOOLEAN
      BY DEF Crash
    <2>4. status' \in [Servers -> Statuses] /\ pongPending' \in [Servers -> BOOLEAN]
      BY <2>1, ConnectedType
    <2>5. activeServer' \in Servers
      BY <2>1, ConnectedType
    <2> QED  BY <2>2, <2>3, <2>4, <2>5 DEF EndpointTypeOK
  <1>4. PayloadTypeOK' /\ Consistent' /\ RegistrarTypeOK'
    BY <1>0 DEF PayloadTypeOK, Consistent, RegistrarTypeOK, Crash
  <1> QED  BY <1>1, <1>2, <1>3, <1>4 DEF TypeInv, TypeOK

LEMMA InitType == Init => TypeInv
  <1> SUFFICES ASSUME Init PROVE TypeInv
    OBVIOUS
  <1>1. TransportTypeOK
    BY ConnectedType DEF TransportTypeOK, Init
  <1>2. ControlTypeOK
    BY DEF ControlTypeOK, Init
  <1>3. EndpointTypeOK
    <2>1. PICK connected \in Connected :
             /\ status = NewStatus(connected) /\ pongPending = AllFalse
             /\ activeServer \in connected
      BY DEF Init
    <2>2. /\ warming \in [Servers -> BOOLEAN] /\ timeout \in [Servers -> Timeouts]
          /\ ready \in Seq(Servers)
      BY DEF Init, Timeouts
    <2>3. methodTimer \in BOOLEAN
      BY DEF Init
    <2>4. status \in [Servers -> Statuses] /\ pongPending \in [Servers -> BOOLEAN]
      BY <2>1, ConnectedType
    <2>5. activeServer \in Servers
      BY <2>1, ConnectedType
    <2> QED  BY <2>2, <2>3, <2>4, <2>5 DEF EndpointTypeOK
  <1>4. PayloadTypeOK /\ Consistent /\ RegistrarTypeOK
    BY DEF PayloadTypeOK, Consistent, RegistrarTypeOK, Init
  <1> QED  BY <1>1, <1>2, <1>3, <1>4 DEF TypeInv, TypeOK

LEMMA NextType == TypeInv /\ [Next]_vars => TypeInv'
  <1> SUFFICES ASSUME TypeInv, [Next]_vars PROVE TypeInv'
    OBVIOUS
  <1>1. CASE Next
    BY <1>1, SpoolStepType, QueueStepType, StatusStepType, AnswerStepType, TimeoutStepType,
       TransportStepType, RegistrarRunType, ShutdownType, CrashType DEF Next
  <1>2. CASE UNCHANGED vars
    BY <1>2, UnchangedTypes
    DEF vars, publisherVars, controlVars, payloadVars, endpointVars, methodVars, registrarVars,
        transportVars, TypeInv, TypeOK
  <1> QED  BY <1>1, <1>2

\* The specification is type correct, and the sequence numbers of every payload
\* count its unacknowledged events for ever (payload.go, Ack and ResetSequence).
THEOREM TypeCorrect == Spec => []TypeOK
  <1>1. TypeInv => TypeOK
    BY DEF TypeInv
  <1> QED  BY InitType, NextType, <1>1, PTL DEF Spec

-----------------------------------------------------------------------------
(* Acknowledgements reach the registrar in order.  AcksInOrder alone is    *)
(* not inductive: OnAck may register several payloads at once, so the list *)
(* must hold them in the order of creation, each beginning where the one   *)
(* before it ends.                                                         *)

\* Payloads leave the list in the order in which they were created.
ListOrder ==
    \A i \in 1 .. Len(payloadList) : payloadList[i] = Len(payload) - Len(payloadList) + i

\* Together they cover the stream up to the last event spooled.
Contiguous ==
    /\ \A i \in 1 .. Len(payloadList) - 1 :
         payload[payloadList[i]].hi = payload[payloadList[i + 1]].lo
    /\ payloadList # <<>> => payload[payloadList[Len(payloadList)]].hi = spooled

OrderInv == ListOrder /\ Contiguous /\ AcksInOrder

\* Steps that renumber payloads, or change no more than their flags.
LEMMA OrderFrame ==
    ASSUME TypeInv, OrderInv, Len(payload') = Len(payload),
           \A p \in 1 .. Len(payload) : payload'[p].lo = payload[p].lo /\ payload'[p].hi = payload[p].hi,
           UNCHANGED <<spooled, payloadList, registrarChan, registered>>
    PROVE  OrderInv'
  <1>1. PayloadTypeOK
    BY DEF TypeInv, TypeOK
  <1>2. \A i \in 1 .. Len(payloadList) : payloadList[i] \in 1 .. Len(payload)
    BY <1>1 DEF PayloadTypeOK
  <1>3. ListOrder'
    BY DEF OrderInv, ListOrder
  <1>4. Contiguous'
    <2>1. ASSUME NEW i \in 1 .. Len(payloadList) - 1
          PROVE  payload'[payloadList[i]].hi = payload'[payloadList[i + 1]].lo
      <3>1. i \in 1 .. Len(payloadList) /\ i + 1 \in 1 .. Len(payloadList)
        BY <1>1 DEF PayloadTypeOK
      <3>2. payload[payloadList[i]].hi = payload[payloadList[i + 1]].lo
        BY DEF OrderInv, Contiguous
      <3> QED  BY <1>2, <3>1, <3>2
    <2>2. ASSUME payloadList # <<>>
          PROVE  payload'[payloadList[Len(payloadList)]].hi = spooled
      <3>1. Len(payloadList) \in 1 .. Len(payloadList)
        BY <1>1, <2>2 DEF PayloadTypeOK
      <3> QED  BY <1>2, <2>2, <3>1 DEF OrderInv, Contiguous
    <2> QED  BY <2>1, <2>2 DEF Contiguous
  <1>5. FirstUnregistered' = FirstUnregistered
    BY <1>1, <1>2 DEF FirstUnregistered, PayloadTypeOK
  <1>6. AcksInOrder'
    BY <1>5 DEF OrderInv, AcksInOrder, RegistrarEnd
  <1> QED  BY <1>3, <1>4, <1>6 DEF OrderInv

LEMMA OrderUnchanged ==
    ASSUME TypeInv, OrderInv, UNCHANGED payloadVars, UNCHANGED <<registrarChan, registered>>
    PROVE  OrderInv'
  BY OrderFrame DEF payloadVars

\* sendEvents adds a payload that begins where the last one ends.
LEMMA SendEventsOrder ==
    ASSUME TypeInv, OrderInv, NEW s \in Servers, NEW n \in Nat, SendEvents(s, n)
    PROVE  OrderInv'
  <1> DEFINE pp == NewPayload(spooled, n)
             N  == Len(payloadList)
  <1>1. PayloadTypeOK
    BY DEF TypeInv, TypeOK
  <1>2. /\ payload' = Append(payload, pp)
        /\ payloadList' = Append(payloadList, Len(payload) + 1)
        /\ spooled' = spooled + n
        /\ UNCHANGED <<registrarChan, registered>>
    BY DEF SendEvents, SendPayload, registrarVars
  <1>3. pp.lo = spooled /\ pp.hi = spooled + n
    BY DEF NewPayload
  <1>4. pp \in PayloadRec
    BY <1>1, NewPayloadConsistent DEF PayloadTypeOK
  <1> HIDE DEF pp
  <1>5. /\ Len(payload') = Len(payload) + 1
        /\ payload'[Len(payload) + 1] = pp
        /\ \A p \in 1 .. Len(payload) : payload'[p] = payload[p]
    BY <1>1, <1>2, <1>4 DEF PayloadTypeOK
  <1>6. /\ N \in Nat
        /\ Len(payloadList') = N + 1
        /\ payloadList'[N + 1] = Len(payload) + 1
        /\ \A i \in 1 .. N : payloadList'[i] = payloadList[i] /\ payloadList[i] \in 1 .. Len(payload)
    BY <1>1, <1>2 DEF PayloadTypeOK
  <1>7. ListOrder'
    <2>1. Len(payload) \in Nat
      BY <1>1 DEF PayloadTypeOK
    <2>2. ASSUME NEW i \in 1 .. N + 1
          PROVE  payloadList'[i] = Len(payload') - Len(payloadList') + i
      <3>1. CASE i = N + 1
        BY <1>5, <1>6, <2>1, <3>1
      <3>2. CASE i \in 1 .. N
        <4>1. payloadList[i] = Len(payload) - N + i
          BY <3>2 DEF OrderInv, ListOrder
        <4>2. payloadList'[i] = payloadList[i]
          BY <1>6, <3>2
        <4> HIDE DEF N
        <4> QED  BY <1>5, <1>6, <2>1, <4>1, <4>2
      <3> QED  BY <1>6, <3>1, <3>2
    <2> QED  BY <1>6, <2>2 DEF ListOrder
  <1>8. Contiguous'
    <2>1. payload'[payloadList'[N + 1]].hi = spooled'
      BY <1>2, <1>3, <1>5, <1>6
    <2>2. ASSUME NEW i \in 1 .. N
          PROVE  payload'[payloadList'[i]].hi = payload'[payloadList'[i + 1]].lo
      <3>1. payload'[payloadList'[i]] = payload[payloadList[i]]
        BY <1>5, <1>6
      <3>2. CASE i = N
        BY <1>3, <1>5, <1>6, <3>1, <3>2 DEF OrderInv, Contiguous
      <3>3. CASE i # N
        <4>1. i \in 1 .. N - 1 /\ i + 1 \in 1 .. N
          BY <1>6, <3>3
        <4>2. payload'[payloadList'[i + 1]] = payload[payloadList[i + 1]]
          BY <1>5, <1>6, <4>1
        <4> QED  BY <3>1, <4>1, <4>2 DEF OrderInv, Contiguous
      <3> QED  BY <3>2, <3>3
    <2> QED  BY <1>6, <2>1, <2>2 DEF Contiguous
  <1>9. FirstUnregistered' = FirstUnregistered
    <2>1. payloadList' # <<>>
      BY <1>6
    <2>2. CASE payloadList = <<>>
      BY <1>3, <1>5, <1>6, <2>1, <2>2 DEF FirstUnregistered
    <2>3. CASE payloadList # <<>>
      <3>1. 1 \in 1 .. N
        BY <1>1, <1>6, <2>3 DEF PayloadTypeOK
      <3> QED  BY <1>5, <1>6, <2>1, <2>3, <3>1 DEF FirstUnregistered
    <2> QED  BY <2>2, <2>3
  <1>10. AcksInOrder'
    BY <1>2, <1>9 DEF OrderInv, AcksInOrder, RegistrarEnd
  <1> QED  BY <1>7, <1>8, <1>10 DEF OrderInv

\* What is known of the payloads of the list when OnAck registers a prefix.
LEMMA ListedPayloads ==
    ASSUME TypeInv, OrderInv, NEW acked \in Seq(PayloadRec), Len(acked) = Len(payload),
           \A p \in 1 .. Len(payload) : /\ SequenceConsistent(acked[p])
                                        /\ acked[p].lo = payload[p].lo
                                        /\ acked[p].hi = payload[p].hi,
           NEW i \in 1 .. Len(payloadList)
    PROVE  /\ payloadList[i] \in 1 .. Len(payload)
           /\ acked[payloadList[i]] \in PayloadRec
           /\ SequenceConsistent(acked[payloadList[i]])
           /\ acked[payloadList[i]].lo = payload[payloadList[i]].lo
           /\ acked[payloadList[i]].hi = payload[payloadList[i]].hi
           /\ acked[payloadList[i]].lo \in Nat
           /\ acked[payloadList[i]].hi \in Nat
           /\ acked[payloadList[i]].ackEvents \in Nat
           /\ Complete(acked[payloadList[i]]) =>
                acked[payloadList[i]].lo + acked[payloadList[i]].ackEvents = acked[payloadList[i]].hi
  <1>1. payloadList[i] \in 1 .. Len(payload)
    BY DEF TypeInv, TypeOK, PayloadTypeOK
  <1> DEFINE q == acked[payloadList[i]]
  <1>2. q \in PayloadRec /\ SequenceConsistent(q)
    BY <1>1
  <1>3. q.lo = payload[payloadList[i]].lo /\ q.hi = payload[payloadList[i]].hi
    BY <1>1
  <1> HIDE DEF q
  <1>4. q.lo \in Nat /\ q.hi \in Nat /\ q.ackEvents \in Nat
    BY <1>2 DEF PayloadRec
  <1>5. Complete(q) => q.lo + q.ackEvents = q.hi
    BY <1>4 DEF Complete, EventsLen
  <1> QED  BY <1>1, <1>2, <1>3, <1>4, <1>5 DEF q

\* OnAck for the front payload: the spool it hands over goes on where the last
\* one ends, and the new front of the list begins where this one ends.
LEMMA RegisterPrefixOrder ==
    ASSUME TypeInv, OrderInv, NEW acked \in Seq(PayloadRec), Len(acked) = Len(payload),
           \A p \in 1 .. Len(payload) : /\ SequenceConsistent(acked[p])
                                        /\ acked[p].lo = payload[p].lo
                                        /\ acked[p].hi = payload[p].hi,
           NEW k \in 0 .. Len(payloadList), RegisterPrefix(acked, k),
           UNCHANGED <<spooled, registered>>
    PROVE  OrderInv'
  <1> DEFINE N == Len(payloadList)
             P == Len(payload)
             C == Len(registrarChan)
             m == RolledUp(acked, k)
             A(i) == acked[payloadList[i]]
             spool == [i \in 1 .. m |-> RollupEvents(A(i))]
  <1>0. /\ PayloadTypeOK /\ RegistrarTypeOK
        /\ N \in Nat /\ P \in Nat /\ C \in Nat
    BY DEF TypeInv, TypeOK, PayloadTypeOK, RegistrarTypeOK
  <1>1. /\ m \in 0 .. N
        /\ m = k \/ (m = k + 1 /\ k < N /\ HasAck(A(m)))
    BY <1>0 DEF RolledUp
  <1>2. /\ payload' = [p \in 1 .. P |->
                         IF \E i \in 1 .. m : payloadList[i] = p THEN Rollup(acked[p]) ELSE acked[p]]
        /\ payloadList' = SubSeq(payloadList, k + 1, N)
        /\ registrarChan' = IF m = 0 THEN registrarChan ELSE Append(registrarChan, spool)
    BY DEF RegisterPrefix
  <1>3. \A i \in 1 .. k : HasAck(A(i)) /\ Complete(A(i))
    BY DEF RegisterPrefix, CompletedPrefix
  <1> HIDE DEF m
  <1>4. \A i \in 1 .. N : /\ payloadList[i] \in 1 .. P
                          /\ A(i) \in PayloadRec /\ SequenceConsistent(A(i))
                          /\ A(i).lo \in Nat /\ A(i).hi \in Nat /\ A(i).ackEvents \in Nat
    BY ListedPayloads
  <1>5. \A i \in 1 .. N - 1 : A(i).hi = A(i + 1).lo
    <2>1. ASSUME NEW i \in 1 .. N - 1  PROVE A(i).hi = A(i + 1).lo
      <3>1. i \in 1 .. N /\ i + 1 \in 1 .. N
        BY <1>0
      <3>2. A(i).hi = payload[payloadList[i]].hi /\ A(i + 1).lo = payload[payloadList[i + 1]].lo
        BY <3>1, ListedPayloads
      <3> QED  BY <3>2 DEF OrderInv, Contiguous
    <2> QED  BY <2>1
  <1>6. N # 0 => A(N).hi = spooled /\ A(1).lo = FirstUnregistered
    <2> SUFFICES ASSUME N # 0 PROVE A(N).hi = spooled /\ A(1).lo = FirstUnregistered
      OBVIOUS
    <2>1. N \in 1 .. N /\ 1 \in 1 .. N /\ payloadList # <<>>
      BY <1>0
    <2>2. A(N).hi = payload[payloadList[N]].hi /\ A(1).lo = payload[payloadList[1]].lo
      BY <2>1, ListedPayloads
    <2> QED  BY <2>1, <2>2 DEF OrderInv, Contiguous, FirstUnregistered
  <1>7. \A i \in 1 .. k : A(i).lo + A(i).ackEvents = A(i).hi
    BY <1>0, <1>3, ListedPayloads
  <1>8. \A i \in 1 .. m : A(i).ackEvents # 0
    BY <1>0, <1>1, <1>3 DEF HasAck
  <1>9. \A i \in 1 .. N : payload'[payloadList[i]] = IF i <= m THEN Rollup(A(i)) ELSE A(i)
    <2>1. \A i, j \in 1 .. N : payloadList[i] = payloadList[j] => i = j
      BY <1>0 DEF OrderInv, ListOrder
    <2>2. ASSUME NEW i \in 1 .. N
          PROVE  (\E j \in 1 .. m : payloadList[j] = payloadList[i]) <=> i <= m
      BY <1>0, <1>1, <2>1
    <2> QED  BY <1>2, <1>4, <2>2
  <1>10. \A i \in 1 .. N : /\ payload'[payloadList[i]].hi = A(i).hi
                           /\ payload'[payloadList[i]].lo =
                                IF i <= m THEN A(i).lo + A(i).ackEvents ELSE A(i).lo
    BY <1>4, <1>9, RollupConsistent
  <1>11. /\ Len(payloadList') = N - k
         /\ \A j \in 1 .. N - k : payloadList'[j] = payloadList[k + j]
         /\ Len(payload') = P
    BY <1>0, <1>2 DEF PayloadTypeOK
  <1> HIDE DEF A
  <1>12. ListOrder'
    <2>1. \A j \in 1 .. N - k : payloadList[k + j] = P - N + (k + j)
      <3>1. \A i \in 1 .. N : payloadList[i] = P - N + i
        BY DEF OrderInv, ListOrder
      <3>2. \A j \in 1 .. N - k : k + j \in 1 .. N
        BY <1>0
      <3> QED  BY <3>1, <3>2
    <2> HIDE DEF N, P
    <2> QED  BY <1>0, <1>11, <2>1 DEF ListOrder
  <1>13. Contiguous'
    <2>1. ASSUME NEW j \in 1 .. N - k - 1
          PROVE  payload'[payloadList'[j]].hi = payload'[payloadList'[j + 1]].lo
      <3>1. /\ k + j \in 1 .. N - 1 /\ k + j \in 1 .. N /\ (k + j) + 1 \in 1 .. N
            /\ (k + j) + 1 > m
        BY <1>0, <1>1
      <3>2. payloadList'[j] = payloadList[k + j] /\ payloadList'[j + 1] = payloadList[(k + j) + 1]
        <4>1. j \in 1 .. N - k /\ j + 1 \in 1 .. N - k /\ k + (j + 1) = (k + j) + 1
          BY <1>0
        <4> QED  BY <1>11, <4>1
      <3>3. payload'[payloadList[(k + j) + 1]].lo = A((k + j) + 1).lo
        BY <1>1, <1>10, <3>1
      <3> QED  BY <1>5, <1>10, <3>1, <3>2, <3>3
    <2>2. ASSUME N - k # 0
          PROVE  payload'[payloadList'[N - k]].hi = spooled
      <3>1. N - k \in 1 .. N - k /\ k + (N - k) = N /\ N \in 1 .. N /\ N # 0
        BY <1>0, <2>2
      <3> QED  BY <1>6, <1>10, <1>11, <3>1
    <2>3. payloadList' # <<>> => N - k # 0
      BY <1>0, <1>2, <1>11 DEF PayloadTypeOK
    <2> QED  BY <1>11, <2>1, <2>2, <2>3 DEF Contiguous
  <1>14. FirstUnregistered' = IF m = 0 THEN FirstUnregistered ELSE A(m).lo + A(m).ackEvents
    <2>1. CASE k = N
      <3>1. payloadList' = <<>>
        BY <1>0, <1>2, <1>11, <2>1 DEF PayloadTypeOK
      <3>2. FirstUnregistered' = spooled
        BY <3>1 DEF FirstUnregistered
      <3>3. m = N
        BY <1>0, <1>1, <2>1
      <3>4. CASE N = 0
        BY <1>0, <3>2, <3>3, <3>4 DEF FirstUnregistered, PayloadTypeOK
      <3>5. CASE N # 0
        <4>1. N \in 1 .. k
          BY <1>0, <2>1, <3>5
        <4> QED  BY <1>6, <1>7, <3>2, <3>3, <3>5, <4>1
      <3> QED  BY <3>4, <3>5
    <2>2. CASE k # N
      <3>1. /\ k + 1 \in 1 .. N /\ 1 \in 1 .. N - k /\ N # 0
            /\ payloadList' # <<>> /\ payloadList'[1] = payloadList[k + 1]
        BY <1>0, <1>11, <2>2
      <3>2. FirstUnregistered' = payload'[payloadList[k + 1]].lo
        BY <3>1 DEF FirstUnregistered
      <3>3. CASE m = k + 1
        BY <1>0, <1>10, <3>1, <3>2, <3>3
      <3>4. CASE m = k
        <4>1. FirstUnregistered' = A(k + 1).lo
          BY <1>0, <1>10, <3>1, <3>2, <3>4
        <4>2. CASE k = 0
          BY <1>6, <3>1, <3>4, <4>1, <4>2
        <4>3. CASE k # 0
          <5>1. k \in 1 .. k /\ k \in 1 .. N - 1
            BY <1>0, <2>2, <4>3
          <5> QED  BY <1>5, <1>7, <3>4, <4>1, <4>3, <5>1
        <4> QED  BY <4>2, <4>3
      <3> QED  BY <1>1, <3>3, <3>4
    <2> QED  BY <2>1, <2>2
  <1>15. AcksInOrder'
    <2>1. CASE m = 0
      <3>1. registrarChan' = registrarChan /\ FirstUnregistered' = FirstUnregistered
        BY <1>2, <1>14, <2>1
      <3> QED  BY <3>1 DEF OrderInv, AcksInOrder, RegistrarEnd
    <2>2. CASE m # 0
      <3>1. m \in Nat /\ 1 \in 1 .. m /\ m \in 1 .. m /\ N # 0
        BY <1>0, <1>1, <2>2
      <3>2. \A i \in 1 .. m : /\ spool[i].from = A(i).lo
                              /\ spool[i].to = A(i).lo + A(i).ackEvents
        <4>1. \A i \in 1 .. m : spool[i] = RollupEvents(A(i))
          BY DEF A
        <4>2. \A i \in 1 .. m : i \in 1 .. N
          BY <1>0, <1>1
        <4> HIDE DEF spool
        <4> QED  BY <1>4, <4>1, <4>2, RollupConsistent
      <3>3. Len(spool) = m
        BY <3>1
      <3> HIDE DEF spool
      <3>4. ContinuesFrom(spool, FirstUnregistered)
        <4>1. spool[1].from = FirstUnregistered
          BY <1>6, <3>1, <3>2
        <4>2. \A i \in 1 .. m : spool[i].from < spool[i].to
          <5>1. ASSUME NEW i \in 1 .. m  PROVE A(i).lo < A(i).lo + A(i).ackEvents
            <6>1. i \in 1 .. N
              BY <1>0, <1>1
            <6>2. A(i).lo \in Nat /\ A(i).ackEvents \in Nat /\ A(i).ackEvents # 0
              BY <1>4, <1>8, <6>1
            <6> QED  BY <6>2
          <5> QED  BY <3>2, <5>1
        <4>3. ASSUME NEW i \in 1 .. m - 1  PROVE spool[i].to = spool[i + 1].from
          <5>1. i \in 1 .. k /\ i \in 1 .. N - 1 /\ i \in 1 .. m /\ i + 1 \in 1 .. m
            BY <1>0, <1>1
          <5> QED  BY <1>5, <1>7, <3>2, <5>1
        <4> QED  BY <3>1, <3>3, <4>1, <4>2, <4>3 DEF ContinuesFrom
      <3>5. /\ Len(registrarChan') = C + 1
            /\ registrarChan'[C + 1] = spool
            /\ \A j \in 1 .. C : registrarChan'[j] = registrarChan[j]
        <4>1. registrarChan' = Append(registrarChan, spool)
          BY <1>2, <2>2
        <4> QED  BY <1>0, <4>1 DEF RegistrarTypeOK
      <3>6. /\ \A j \in 0 .. C : RegistrarEnd(j)' = RegistrarEnd(j)
            /\ RegistrarEnd(Len(registrarChan))' = A(m).lo + A(m).ackEvents
        <4>1. ASSUME NEW j \in 0 .. C  PROVE RegistrarEnd(j)' = RegistrarEnd(j)
          BY <1>0, <3>5 DEF RegistrarEnd
        <4>2. C + 1 # 0
          BY <1>0
        <4>3. RegistrarEnd(Len(registrarChan))' = spool[Len(spool)].to
          BY <3>5, <4>2 DEF RegistrarEnd
        <4> QED  BY <3>1, <3>2, <3>3, <4>1, <4>3
      <3>7. RegistrarEnd(C) = FirstUnregistered
        BY DEF OrderInv, AcksInOrder
      <3>8. ASSUME NEW j \in 1 .. C + 1
            PROVE  ContinuesFrom(registrarChan'[j], RegistrarEnd(j - 1)')
        <4>1. CASE j = C + 1
          BY <1>0, <3>4, <3>5, <3>6, <3>7, <4>1
        <4>2. CASE j \in 1 .. C
          <5>1. ContinuesFrom(registrarChan[j], RegistrarEnd(j - 1))
            BY <4>2 DEF OrderInv, AcksInOrder
          <5>2. j - 1 \in 0 .. C
            BY <1>0, <4>2
          <5> QED  BY <3>5, <3>6, <4>2, <5>1, <5>2
        <4> QED  BY <1>0, <4>1, <4>2
      <3>9. RegistrarEnd(Len(registrarChan))' = FirstUnregistered'
        BY <1>14, <2>2, <3>6
      <3>10. \A j \in 1 .. Len(registrarChan') : ContinuesFrom(registrarChan'[j], RegistrarEnd(j - 1)')
        BY <3>5, <3>8
      <3> QED  BY <3>5, <3>9, <3>10 DEF AcksInOrder
    <2> QED  BY <2>1, <2>2
  <1> QED  BY <1>12, <1>13, <1>15 DEF OrderInv

\* Renumbering a payload for another endpoint leaves its events alone.
LEMMA RenumberKeepsEvents ==
    ASSUME NEW pp \in PayloadRec, SequenceConsistent(pp), NEW b \in BOOLEAN
    PROVE  /\ [ResetSequence(pp) EXCEPT !.resending = b].lo = pp.lo
           /\ [ResetSequence(pp) EXCEPT !.resending = b].hi = pp.hi
  <1> DEFINE q == ResetSequence(pp)
  <1>1. q \in PayloadRec /\ q.lo = pp.lo /\ q.hi = pp.hi
    BY ResetConsistent
  <1> HIDE DEF q
  <1>2. [q EXCEPT !.resending = b].lo = q.lo /\ [q EXCEPT !.resending = b].hi = q.hi
    BY <1>1 DEF PayloadRec
  <1> QED  BY <1>1, <1>2 DEF q

LEMMA PullBackOrder ==
    ASSUME TypeInv, OrderInv, NEW s \in Servers, NEW order, PullBackPending(s, order),
           UNCHANGED <<registrarChan, registered>>
    PROVE  OrderInv'
  <1>1. /\ Len(payload) \in Nat
        /\ \A p \in 1 .. Len(payload) : payload[p] \in PayloadRec /\ SequenceConsistent(payload[p])
    BY DEF TypeInv, TypeOK, PayloadTypeOK, Consistent
  <1> DEFINE New(p) == IF p \in pending[s]
                       THEN [ResetSequence(payload[p]) EXCEPT !.resending = TRUE] ELSE payload[p]
  <1>2. payload' = [p \in 1 .. Len(payload) |-> New(p)]
    BY DEF PullBackPending
  <1>3. \A p \in 1 .. Len(payload) : New(p).lo = payload[p].lo /\ New(p).hi = payload[p].hi
    BY <1>1, RenumberKeepsEvents
  <1> HIDE DEF New
  <1>4. Len(payload') = Len(payload)
    BY <1>1, <1>2
  <1>5. \A p \in 1 .. Len(payload) : payload'[p].lo = payload[p].lo /\ payload'[p].hi = payload[p].hi
    BY <1>2, <1>3
  <1> QED  BY <1>4, <1>5, OrderFrame DEF PullBackPending

LEMMA QueueStepOrder ==
    ASSUME TypeInv, OrderInv, QueueStep
    PROVE  OrderInv'
  <1>1. ASSUME NEW s \in Servers, QueueResend(s)  PROVE OrderInv'
    <2> DEFINE p == Head(resendList)
               q == [ResetSequence(payload[p]) EXCEPT !.resending = FALSE]
    <2>1. PayloadTypeOK /\ Consistent
      BY DEF TypeInv, TypeOK
    <2>2. /\ resendList # <<>>
          /\ payload' = [payload EXCEPT ![p] = q]
          /\ UNCHANGED <<spooled, payloadList, registrarChan, registered>>
      BY <1>1 DEF QueueResend, SendPayload, registrarVars
    <2>3. p \in 1 .. Len(payload)
      BY <2>1, <2>2 DEF PayloadTypeOK
    <2>4. q.lo = payload[p].lo /\ q.hi = payload[p].hi
      <3>1. payload[p] \in PayloadRec /\ SequenceConsistent(payload[p])
        BY <2>1, <2>3 DEF PayloadTypeOK, Consistent
      <3> HIDE DEF p
      <3> QED  BY <3>1, RenumberKeepsEvents
    <2> HIDE DEF p, q
    <2>5. Len(payload') = Len(payload)
      BY <2>1, <2>2 DEF PayloadTypeOK
    <2>6. \A i \in 1 .. Len(payload) : payload'[i] = IF i = p THEN q ELSE payload[i]
      BY <2>1, <2>2, <2>3 DEF PayloadTypeOK
    <2> QED  BY <2>2, <2>4, <2>5, <2>6, OrderFrame
  <1>2. ASSUME NEW s \in Servers, QueueNextSpool(s)  PROVE OrderInv'
    <2>1. nextSpool \in Nat
      BY <1>2, PublisherAssumption
      DEF TypeInv, TypeOK, ControlTypeOK, QueueNextSpool, MayQueueNextSpool, MayQueueHeld
    <2> QED  BY <1>2, <2>1, SendEventsOrder DEF QueueNextSpool
  <1>3. CASE QueueNothing
    BY <1>3, OrderUnchanged DEF QueueNothing, registrarVars
  <1> QED  BY <1>1, <1>2, <1>3 DEF QueueStep

LEMMA SpoolStepOrder ==
    ASSUME TypeInv, OrderInv, SpoolStep
    PROVE  OrderInv'
  <1>1. ASSUME NEW n \in SpoolSizes, HoldSpool(n)  PROVE OrderInv'
    BY <1>1, OrderUnchanged DEF HoldSpool, registrarVars
  <1>2. ASSUME NEW n \in SpoolSizes, NEW s \in Servers, SendSpool(s, n)  PROVE OrderInv'
    BY <1>2, SendEventsOrder, PublisherAssumption DEF SendSpool
  <1> QED  BY <1>1, <1>2 DEF SpoolStep

LEMMA StatusStepOrder ==
    ASSUME TypeInv, OrderInv, NEW s \in Servers, StatusStep(s)
    PROVE  OrderInv'
  <1>1. CASE StartedIdle(s) \/ StartedFailed(s) \/ FinishedClosing(s)
    BY <1>1, OrderUnchanged DEF StartedIdle, StartedFailed, FinishedClosing, registrarVars
  <1>2. ASSUME NEW order, Failed(s, order) \/ Finished(s, order)  PROVE OrderInv'
    BY <1>2, PullBackOrder DEF Failed, Finished, registrarVars
  <1> QED  BY <1>1, <1>2 DEF StatusStep

LEMMA AnswerStepOrder ==
    ASSUME TypeInv, OrderInv, NEW s \in Servers, AnswerStep(s)
    PROVE  OrderInv'
  <1>1. ASSUME NEW k \in 0 .. Len(payloadList), Acked(s, k)  PROVE OrderInv'
    <2> DEFINE p == Head(eventChan).nonce
    <2>1. /\ Take("ack", s) /\ p \in pending[s]
          /\ RegisterPrefix(AckedPayloads, k) \/ KeepOutOfOrder(p, AckedPayloads)
          /\ UNCHANGED <<spooled, registered>>
      BY <1>1 DEF Acked, AckedPayloads
    <2>2. /\ AckedPayloads \in Seq(PayloadRec)
          /\ Len(AckedPayloads) = Len(payload)
          /\ \A q \in 1 .. Len(payload) : /\ SequenceConsistent(AckedPayloads[q])
                                          /\ AckedPayloads[q].lo = payload[q].lo
                                          /\ AckedPayloads[q].hi = payload[q].hi
      BY <2>1, AckedPayloadsType
    <2>3. CASE RegisterPrefix(AckedPayloads, k)
      BY <2>1, <2>2, <2>3, RegisterPrefixOrder
    <2>4. CASE KeepOutOfOrder(p, AckedPayloads)
      BY <2>1, <2>2, <2>4, OrderFrame DEF KeepOutOfOrder
    <2> QED  BY <2>1, <2>3, <2>4
  <1>2. CASE Pong(s) \/ Ignored(s)
    BY <1>2, OrderUnchanged DEF Pong, Ignored, publisherVars, registrarVars
  <1> QED  BY <1>1, <1>2 DEF AnswerStep

LEMMA TimeoutStepOrder ==
    ASSUME TypeInv, OrderInv, NEW s \in Servers, TimeoutStep(s)
    PROVE  OrderInv'
  BY OrderUnchanged
  DEF TimeoutStep, TimeoutPending, TimeoutKeepalive, TimeoutBackoff, ConnectRandom, registrarVars

\* Registrar.Run takes the oldest spool: the next one continues from its end.
LEMMA RegistrarRunOrder ==
    ASSUME TypeInv, OrderInv, NEW written \in BOOLEAN, RegistrarRun(written)
    PROVE  OrderInv'
  <1> DEFINE C == Len(registrarChan)
  <1>1. /\ RegistrarTypeOK
        /\ registrarChan # <<>>
        /\ registrarChan' = Tail(registrarChan)
        /\ registered' = registrarChan[1][Len(registrarChan[1])].to
        /\ UNCHANGED payloadVars
    BY DEF TypeInv, TypeOK, RegistrarRun, RegistrarTypeOK
  <1>2. /\ C \in Nat \ {0}
        /\ Len(registrarChan') = C - 1
        /\ \A j \in 1 .. C - 1 : registrarChan'[j] = registrarChan[j + 1]
    BY <1>1 DEF RegistrarTypeOK
  <1>3. ASSUME NEW j \in 0 .. C - 1  PROVE RegistrarEnd(j)' = RegistrarEnd(j + 1)
    BY <1>1, <1>2 DEF RegistrarEnd
  <1>4. FirstUnregistered' = FirstUnregistered
    BY <1>1 DEF FirstUnregistered, payloadVars
  <1>5. ASSUME NEW j \in 1 .. C - 1
        PROVE  ContinuesFrom(registrarChan'[j], RegistrarEnd(j - 1)')
    <2>1. j + 1 \in 1 .. C /\ (j + 1) - 1 = j /\ j - 1 \in 0 .. C - 1 /\ (j - 1) + 1 = j
      BY <1>2
    <2>2. ContinuesFrom(registrarChan[j + 1], RegistrarEnd(j))
      BY <2>1 DEF OrderInv, AcksInOrder
    <2>3. RegistrarEnd(j - 1)' = RegistrarEnd(j)
      BY <1>3, <2>1
    <2> QED  BY <1>2, <2>2, <2>3
  <1>6. RegistrarEnd(Len(registrarChan))' = FirstUnregistered'
    <2>1. \A j \in 0 .. C - 1 : j = Len(registrarChan') => RegistrarEnd(j)' = RegistrarEnd(C)
      BY <1>2, <1>3
    <2>2. RegistrarEnd(Len(registrarChan))' = RegistrarEnd(C)
      BY <1>2, <2>1 DEF RegistrarEnd
    <2> QED  BY <1>4, <2>2 DEF OrderInv, AcksInOrder
  <1>7. AcksInOrder'
    BY <1>2, <1>5, <1>6 DEF AcksInOrder
  <1>8. ListOrder' /\ Contiguous'
    BY <1>1 DEF OrderInv, ListOrder, Contiguous, payloadVars
  <1> QED  BY <1>7, <1>8 DEF OrderInv

\* A process that starts has no payloads and resumes where the registrar is.
LEMMA FreshOrder ==
    ASSUME payload = <<>>, payloadList = <<>>, registrarChan = <<>>, spooled = registered
    PROVE  OrderInv
  BY DEF OrderInv, ListOrder, Contiguous, AcksInOrder, RegistrarEnd, FirstUnregistered

LEMMA CrashOrder ==
    ASSUME Crash
    PROVE  OrderInv'
  <1>1. /\ payload' = <<>> /\ payloadList' = <<>> /\ registrarChan' = <<>>
        /\ spooled' = registered'
    BY DEF Crash
  <1> QED  BY <1>1 DEF OrderInv, ListOrder, Contiguous, AcksInOrder, RegistrarEnd, FirstUnregistered

LEMMA NextOrder == TypeInv /\ OrderInv /\ [Next]_vars => OrderInv'
  <1> SUFFICES ASSUME TypeInv, OrderInv, [Next]_vars PROVE OrderInv'
    OBVIOUS
  <1>1. ASSUME NEW s \in Servers, TransportStep(s), UNCHANGED publisherVars  PROVE OrderInv'
    BY <1>1, OrderUnchanged DEF publisherVars, registrarVars
  <1>2. CASE Shutdown
    BY <1>2, OrderUnchanged DEF Shutdown, registrarVars
  <1>3. CASE UNCHANGED vars
    BY <1>3, OrderUnchanged DEF vars, publisherVars, registrarVars
  <1>4. CASE Next
    BY <1>1, <1>2, <1>4, SpoolStepOrder, QueueStepOrder, StatusStepOrder, AnswerStepOrder,
       TimeoutStepOrder, RegistrarRunOrder, CrashOrder DEF Next
  <1> QED  BY <1>3, <1>4

\* Whatever fails, is resent, arrives out of order or crashes, the registrar is
\* handed consecutive events: AckEvent.Process may overwrite the stored offset
\* without comparing (publisher.go:304-387, OnAck).
THEOREM AcksOrdered == Spec => []AcksInOrder
  <1>1. Init => OrderInv
    BY FreshOrder DEF Init
  <1>2. OrderInv => AcksInOrder
    BY DEF OrderInv
  <1> QED  BY InitType, NextType, NextOrder, <1>1, <1>2, PTL DEF Spec

\* The sequence numbers of every listed payload count its unacknowledged events,
\* through partial ACKs, rollups and resends (payload.go:62-110).
THEOREM SequencesCorrect == Spec => []SequencesMatch
  <1>1. TypeInv => SequencesMatch
    BY DEF TypeInv, TypeOK, PayloadTypeOK, Consistent, SequencesMatch, Members
  <1> QED  BY InitType, NextType, <1>1, PTL DEF Spec

-----------------------------------------------------------------------------
(* The limit on pending payloads. *)

LEMMA NextLimit == TypeInv /\ PayloadLimit /\ [Next]_vars => PayloadLimit'
  <1> SUFFICES ASSUME TypeInv, PayloadLimit, [Next]_vars PROVE PayloadLimit'
    OBVIOUS
  <1>0. /\ PayloadTypeOK
        /\ MaxPendingPayloads \in Nat
        /\ Len(payloadList) \in Nat
    BY PublisherAssumption DEF TypeInv, TypeOK, PayloadTypeOK
  <1>1. ASSUME UNCHANGED <<numPayloads, payloadList>>  PROVE PayloadLimit'
    BY <1>1 DEF PayloadLimit
  <1>2. ASSUME NEW s, NEW n, SendEvents(s, n), numPayloads < MaxPendingPayloads
        PROVE  PayloadLimit'
    <2>1. Len(payloadList') = Len(payloadList) + 1 /\ numPayloads' = numPayloads + 1
      BY <1>0, <1>2 DEF SendEvents, PayloadTypeOK
    <2> QED  BY <1>0, <1>2, <2>1 DEF PayloadLimit
  <1>3. CASE SpoolStep
    <2>1. ASSUME NEW n, HoldSpool(n)  PROVE PayloadLimit'
      BY <1>1, <2>1 DEF HoldSpool, payloadVars
    <2>2. ASSUME NEW n, NEW s, SendSpool(s, n)  PROVE PayloadLimit'
      BY <1>2, <2>2 DEF SendSpool, MaySendSpool
    <2> QED  BY <1>3, <2>1, <2>2 DEF SpoolStep
  <1>4. CASE QueueStep
    <2>1. ASSUME NEW s, QueueResend(s)  PROVE PayloadLimit'
      BY <1>1, <2>1 DEF QueueResend
    <2>2. ASSUME NEW s, QueueNextSpool(s)  PROVE PayloadLimit'
      BY <1>2, <2>2 DEF QueueNextSpool, MayQueueNextSpool
    <2>3. CASE QueueNothing
      BY <1>1, <2>3 DEF QueueNothing, payloadVars
    <2> QED  BY <1>4, <2>1, <2>2, <2>3 DEF QueueStep
  <1>5. ASSUME NEW s \in Servers, StatusStep(s)  PROVE PayloadLimit'
    BY <1>1, <1>5
    DEF StatusStep, StartedIdle, StartedFailed, Failed, Finished, FinishedClosing, PullBackPending, payloadVars
  <1>6. ASSUME NEW s \in Servers, AnswerStep(s)  PROVE PayloadLimit'
    <2>1. ASSUME NEW k \in 0 .. Len(payloadList), NEW acked, RegisterPrefix(acked, k)
          PROVE  PayloadLimit'
      <3>1. Len(payloadList') = Len(payloadList) - k /\ numPayloads' = numPayloads - k
        BY <1>0, <2>1 DEF RegisterPrefix, PayloadTypeOK
      <3> QED  BY <1>0, <3>1 DEF PayloadLimit
    <2>2. ASSUME NEW k \in 0 .. Len(payloadList), Acked(s, k)  PROVE PayloadLimit'
      BY <1>1, <2>1, <2>2 DEF Acked, KeepOutOfOrder
    <2>3. CASE Pong(s) \/ Ignored(s)
      BY <1>1, <2>3 DEF Pong, Ignored, publisherVars, payloadVars
    <2> QED  BY <1>6, <2>2, <2>3 DEF AnswerStep
  <1>7. ASSUME NEW s \in Servers, TimeoutStep(s)  PROVE PayloadLimit'
    BY <1>1, <1>7
    DEF TimeoutStep, TimeoutPending, TimeoutKeepalive, TimeoutBackoff, ConnectRandom, payloadVars
  <1>8. CASE UNCHANGED payloadVars
    BY <1>1, <1>8 DEF payloadVars
  <1>9. CASE Crash
    BY <1>0, <1>9 DEF Crash, PayloadLimit
  <1>10. CASE UNCHANGED vars \/ Shutdown \/ \E written \in BOOLEAN : RegistrarRun(written)
    BY <1>8, <1>10 DEF vars, publisherVars, Shutdown, RegistrarRun
  <1>11. CASE \E s \in Servers : TransportStep(s) /\ UNCHANGED publisherVars
    BY <1>8, <1>11 DEF publisherVars
  <1> QED  BY <1>3, <1>4, <1>5, <1>6, <1>7, <1>9, <1>10, <1>11 DEF Next

\* The publisher never has more than "max pending payloads" payloads, and the
\* counter it tests is the length of its list, however acknowledgements,
\* failures and resends are interleaved (publisher.go:161-212, 453-485).
THEOREM PendingLimited == Spec => []PayloadLimit
  <1>1. Init => PayloadLimit
    BY PublisherAssumption DEF Init, PayloadLimit
  <1> QED  BY InitType, NextType, NextLimit, <1>1, PTL DEF Spec

-----------------------------------------------------------------------------
(* The ready list.  ConnectRandom replaces an endpoint without looking at  *)
(* it, so that the list stays right only because method random has one     *)
(* endpoint at a time; and that is so because Finished is the last event   *)
(* of a transport.                                                         *)

Present(s) == status[s] # "absent"

\* methodRandom waits to connect again only when no endpoint is left.
OneConnected ==
    /\ methodTimer => Method = "random" /\ \A s \in Servers : ~Present(s)
    /\ Method = "random" => \A s, t \in Servers : Present(s) /\ Present(t) => s = t

\* An endpoint has a transport; events come from transports that exist, and
\* none follows Finished.
FinishedLast ==
    /\ \A s \in Servers : link[s] = "none" <=> ~Present(s)
    /\ \A i \in 1 .. Len(eventChan) : link[eventChan[i].ep] # "none"
    /\ \A i \in 1 .. Len(eventChan) : eventChan[i].type = "finished" =>
         /\ link[eventChan[i].ep] = "finished"
         /\ \A j \in 1 .. Len(eventChan) : eventChan[j].ep = eventChan[i].ep => j <= i

EndpointInv == OneConnected /\ FinishedLast /\ ReadyAreActive

Events == StatusEvent \cup AckedEvent

LEMMA EventsTaken ==
    ASSUME TypeInv, NEW type, NEW s, Take(type, s)
    PROVE  /\ Len(eventChan) \in Nat \ {0} /\ 1 \in 1 .. Len(eventChan)
           /\ eventChan[1].type = type /\ eventChan[1].ep = s /\ Head(eventChan) = eventChan[1]
           /\ eventChan[1] \in Events
           /\ Len(eventChan') = Len(eventChan) - 1
           /\ \A i \in 1 .. Len(eventChan') : i + 1 \in 1 .. Len(eventChan) /\ eventChan'[i] = eventChan[i + 1]
  <1>1. eventChan \in Seq(Events) /\ eventChan # <<>> /\ eventChan' = Tail(eventChan)
    BY DEF TypeInv, TypeOK, TransportTypeOK, Take, Events
  <1>2. Head(eventChan) = eventChan[1] /\ eventChan[1] \in Events
    BY <1>1
  <1>3. Len(eventChan) \in Nat \ {0} /\ Len(eventChan') = Len(eventChan) - 1
    BY <1>1
  <1>4. \A i \in 1 .. Len(eventChan') : i + 1 \in 1 .. Len(eventChan) /\ eventChan'[i] = eventChan[i + 1]
    BY <1>1, <1>3
  <1> QED  BY <1>2, <1>3, <1>4 DEF Take

LEMMA EventsSent ==
    ASSUME TypeInv, NEW e \in Events, SendEvent(e)
    PROVE  /\ Len(eventChan) \in Nat
           /\ Len(eventChan') = Len(eventChan) + 1
           /\ eventChan'[Len(eventChan) + 1] = e
           /\ \A i \in 1 .. Len(eventChan) : eventChan'[i] = eventChan[i]
  BY DEF TypeInv, TypeOK, TransportTypeOK, SendEvent, Events

\* Taking an event, with or without its transport: Finished takes the last one.
LEMMA TakeFinishedLast ==
    ASSUME TypeInv, FinishedLast, NEW type, NEW s \in Servers, Take(type, s),
           \A t \in Servers : t # s \/ type # "finished" => link'[t] = link[t] /\ (Present(t)' <=> Present(t)),
           link'[s] = "none" <=> ~Present(s)'
    PROVE  FinishedLast'
  <1> DEFINE N == Len(eventChan)
  <1>1. /\ N \in Nat \ {0} /\ 1 \in 1 .. N /\ eventChan[1].type = type /\ eventChan[1].ep = s
        /\ Len(eventChan') = N - 1
        /\ \A i \in 1 .. N - 1 : i + 1 \in 1 .. N /\ eventChan'[i] = eventChan[i + 1]
    BY EventsTaken
  <1>2. \A i \in 1 .. N : eventChan[i].ep \in Servers
    BY DEF TypeInv, TypeOK, TransportTypeOK, StatusEvent, AckedEvent
  <1>3. ASSUME type = "finished", NEW i \in 1 .. N - 1  PROVE eventChan'[i].ep # s
    <2>1. i + 1 \in 1 .. N /\ ~(i + 1 <= 1)
      BY <1>1
    <2> QED  BY <1>1, <1>3, <2>1 DEF FinishedLast
  <1>4. ASSUME NEW i \in 1 .. N - 1  PROVE link'[eventChan'[i].ep] = link[eventChan[i + 1].ep]
    BY <1>1, <1>2, <1>3
  <1>5. \A i \in 1 .. Len(eventChan') : link'[eventChan'[i].ep] # "none"
    BY <1>1, <1>4 DEF FinishedLast
  <1>6. ASSUME NEW i \in 1 .. Len(eventChan'), eventChan'[i].type = "finished"
        PROVE  /\ link'[eventChan'[i].ep] = "finished"
               /\ \A j \in 1 .. Len(eventChan') : eventChan'[j].ep = eventChan'[i].ep => j <= i
    <2>1. link'[eventChan'[i].ep] = "finished"
      BY <1>1, <1>4, <1>6 DEF FinishedLast
    <2>2. ASSUME NEW j \in 1 .. Len(eventChan'), eventChan'[j].ep = eventChan'[i].ep  PROVE j <= i
      <3>1. i + 1 \in 1 .. N /\ j + 1 \in 1 .. N /\ i \in 1 .. N - 1 /\ j \in 1 .. N - 1
        BY <1>1
      <3>2. j + 1 <= i + 1
        BY <1>1, <1>6, <2>2, <3>1 DEF FinishedLast
      <3> QED  BY <3>1, <3>2
    <2> QED  BY <2>1, <2>2
  <1>7. \A t \in Servers : link'[t] = "none" <=> ~Present(t)'
    BY DEF FinishedLast
  <1> QED  BY <1>5, <1>6, <1>7 DEF FinishedLast

\* An event of a transport that has not finished.
LEMMA SendFinishedLast ==
    ASSUME TypeInv, FinishedLast, NEW s \in Servers, NEW e \in Events, SendEvent(e), e.ep = s,
           link[s] \in {"down", "up"}, link'[s] # "none",
           e.type = "finished" => link'[s] = "finished",
           \A t \in Servers : t # s => link'[t] = link[t],
           UNCHANGED status
    PROVE  FinishedLast'
  <1> DEFINE N == Len(eventChan)
  <1>1. /\ N \in Nat /\ Len(eventChan') = N + 1 /\ eventChan'[N + 1] = e
        /\ \A i \in 1 .. N : eventChan'[i] = eventChan[i]
    BY EventsSent
  <1>2. \A i \in 1 .. N : eventChan[i].ep \in Servers
    BY DEF TypeInv, TypeOK, TransportTypeOK, StatusEvent, AckedEvent
  <1>3. \A i \in 1 .. N : eventChan[i].type = "finished" => eventChan[i].ep # s
    BY DEF FinishedLast
  <1>4. \A i \in 1 .. N + 1 : i \in 1 .. N \/ i = N + 1
    BY <1>1
  <1>5. \A i \in 1 .. Len(eventChan') : link'[eventChan'[i].ep] # "none"
    BY <1>1, <1>2, <1>4 DEF FinishedLast
  <1>6. ASSUME NEW i \in 1 .. Len(eventChan'), eventChan'[i].type = "finished"
        PROVE  /\ link'[eventChan'[i].ep] = "finished"
               /\ \A j \in 1 .. Len(eventChan') : eventChan'[j].ep = eventChan'[i].ep => j <= i
    <2>1. CASE i = N + 1
      BY <1>1, <1>6, <2>1
    <2>2. CASE i \in 1 .. N
      BY <1>1, <1>2, <1>3, <1>4, <1>6, <2>2 DEF FinishedLast
    <2> QED  BY <1>1, <1>4, <2>1, <2>2
  <1>7. \A t \in Servers : link'[t] = "none" <=> ~Present(t)'
    BY DEF FinishedLast, Present
  <1> QED  BY <1>5, <1>6, <1>7 DEF FinishedLast

LEMMA TransportFinishedLast ==
    ASSUME TypeInv, FinishedLast, NEW s \in Servers, TransportStep(s), UNCHANGED publisherVars
    PROVE  FinishedLast'
  <1>0. link \in [Servers -> Links] /\ UNCHANGED status
    BY DEF TypeInv, TypeOK, TransportTypeOK, publisherVars, endpointVars
  <1>1. \A type \in {"started", "failed", "finished", "pong"} :
          Status(type, s) \in Events /\ Status(type, s).ep = s /\ Status(type, s).type = type
    BY DEF Status, StatusEvent, Events
  <1>2. ASSUME Disconnect(s), link[s] \in {"down", "up"}  PROVE FinishedLast'
    BY <1>0, <1>1, <1>2, SendFinishedLast DEF Disconnect
  <1>3. CASE Connect(s)
    BY <1>0, <1>1, <1>3, SendFinishedLast DEF Connect
  <1>4. CASE ConnectionError(s) \/ ForcedFailure(s)
    BY <1>2, <1>4 DEF ConnectionError, ForcedFailure
  <1>5. CASE StopTransport(s)
    BY <1>0, <1>1, <1>5, SendFinishedLast DEF StopTransport
  <1>6. ASSUME NEW m \in wire[s], NEW k \in 0 .. m.size, ServerAck(s, m, k)  PROVE FinishedLast'
    <2> DEFINE e == [type |-> "ack", ep |-> s, nonce |-> m.nonce, sequence |-> k]
    <2>1. m.nonce \in Nat /\ k \in Nat
      BY DEF TypeInv, TypeOK, TransportTypeOK, Message
    <2>2. e \in Events /\ e.ep = s /\ e.type = "ack"
      BY <2>1 DEF AckedEvent, Events
    <2>3. SendEvent(e) /\ link[s] = "up" /\ UNCHANGED link
      BY <1>6 DEF ServerAck
    <2> HIDE DEF e
    <2> QED  BY <1>0, <2>2, <2>3, SendFinishedLast
  <1>7. CASE ServerPong(s)
    BY <1>0, <1>1, <1>7, SendFinishedLast DEF ServerPong
  <1> QED  BY <1>3, <1>4, <1>5, <1>6, <1>7 DEF TransportStep

NoneTwice(list) == \A i, j \in 1 .. Len(list) : list[i] = list[j] => i = j

\* Remove() takes out the one entry of an element.
LEMMA WithoutElement ==
    ASSUME NEW S, NEW list \in Seq(S), NoneTwice(list), NEW x
    PROVE  NoneTwice(Without(list, x)) /\ Members(Without(list, x)) = Members(list) \ {x}
  <1>1. CASE x \notin Members(list)
    BY <1>1 DEF Without, Members
  <1>2. CASE x \in Members(list)
    <2> DEFINE at == CHOOSE i \in 1 .. Len(list) : list[i] = x
               r == Without(list, x)
               N == Len(list)
    <2>1. at \in 1 .. N /\ list[at] = x
      BY <1>2 DEF Members
    <2> HIDE DEF at
    <2>2. N \in Nat \ {0}
      BY <2>1
    <2>3. r = [i \in 1 .. N - 1 |-> IF i < at THEN list[i] ELSE list[i + 1]]
      BY <1>2 DEF Without, at
    <2>4. Len(r) = N - 1 /\ \A i \in 1 .. N - 1 : r[i] = IF i < at THEN list[i] ELSE list[i + 1]
      BY <2>2, <2>3
    <2> HIDE DEF r
    <2>5. ASSUME NEW i \in 1 .. N - 1
          PROVE  \E k \in 1 .. N : k # at /\ r[i] = list[k] /\ k = IF i < at THEN i ELSE i + 1
      <3>1. CASE i < at
        BY <2>1, <2>2, <2>4, <3>1
      <3>2. CASE ~(i < at)
        BY <2>1, <2>2, <2>4, <3>2
      <3> QED  BY <3>1, <3>2
    <2>6. NoneTwice(r)
      <3>1. ASSUME NEW i \in 1 .. N - 1, NEW j \in 1 .. N - 1, r[i] = r[j]  PROVE i = j
        <4>1. PICK k \in 1 .. N : r[i] = list[k] /\ k = IF i < at THEN i ELSE i + 1
          BY <2>5
        <4>2. PICK l \in 1 .. N : r[j] = list[l] /\ l = IF j < at THEN j ELSE j + 1
          BY <2>5
        <4>3. k = l
          BY <3>1, <4>1, <4>2 DEF NoneTwice
        <4> QED  BY <2>1, <4>1, <4>2, <4>3
      <3> QED  BY <2>4, <3>1 DEF NoneTwice
    <2>7. ASSUME NEW y PROVE y \in Members(r) <=> y \in Members(list) /\ y # x
      <3>1. ASSUME y \in Members(r) PROVE y \in Members(list) /\ y # x
        <4>1. PICK i \in 1 .. N - 1 : y = r[i]
          BY <2>4, <3>1 DEF Members
        <4>2. PICK k \in 1 .. N : k # at /\ r[i] = list[k]
          BY <2>5
        <4> QED  BY <2>1, <4>1, <4>2 DEF Members, NoneTwice
      <3>2. ASSUME y \in Members(list), y # x PROVE y \in Members(r)
        <4>1. PICK k \in 1 .. N : y = list[k]
          BY <3>2 DEF Members
        <4>2. k # at
          BY <2>1, <3>2, <4>1
        <4>3. CASE k < at
          <5>1. k \in 1 .. N - 1 /\ r[k] = list[k]
            BY <2>1, <2>2, <2>4, <4>3
          <5> QED  BY <2>4, <4>1, <5>1 DEF Members
        <4>4. CASE k > at
          <5>1. k - 1 \in 1 .. N - 1 /\ ~(k - 1 < at) /\ (k - 1) + 1 = k
            BY <2>1, <2>2, <4>4
          <5>2. r[k - 1] = list[k]
            BY <2>4, <5>1
          <5> QED  BY <2>4, <4>1, <5>1, <5>2 DEF Members
        <4> QED  BY <2>1, <4>2, <4>3, <4>4
      <3> QED  BY <3>1, <3>2
    <2> QED  BY <2>6, <2>7 DEF r
  <1> QED  BY <1>1, <1>2

LEMMA AppendElement ==
    ASSUME NEW S, NEW list \in Seq(S), NoneTwice(list), NEW x \in S, x \notin Members(list)
    PROVE  NoneTwice(Append(list, x)) /\ Members(Append(list, x)) = Members(list) \cup {x}
  <1> DEFINE N == Len(list)
             r == Append(list, x)
  <1>1. N \in Nat /\ Len(r) = N + 1 /\ r[N + 1] = x /\ \A i \in 1 .. N : r[i] = list[i]
    OBVIOUS
  <1> HIDE DEF r
  <1>2. \A i \in 1 .. N + 1 : i \in 1 .. N \/ i = N + 1
    BY <1>1
  <1>3. \A i \in 1 .. N : i \in 1 .. N + 1
    BY <1>1
  <1>4. N + 1 \in 1 .. N + 1
    BY <1>1
  <1>5. NoneTwice(r)
    BY <1>1, <1>2 DEF NoneTwice, Members
  <1>6. ASSUME NEW y PROVE y \in Members(r) <=> y \in Members(list) \cup {x}
    BY <1>1, <1>2, <1>3, <1>4 DEF Members
  <1> QED  BY <1>5, <1>6 DEF r

\* The endpoint leaves the ready list when it is no longer active.
LEMMA ReadyWithout ==
    ASSUME TypeInv, ReadyAreActive, NEW s \in Servers, ready' = Without(ready, s),
           status'[s] # "active", \A t \in Servers : t # s => status'[t] = status[t]
    PROVE  ReadyAreActive'
  <1>1. ready \in Seq(Servers) /\ NoneTwice(ready)
    BY DEF TypeInv, TypeOK, EndpointTypeOK, ReadyAreActive, NoneTwice
  <1>2. NoneTwice(ready') /\ Members(ready') = Members(ready) \ {s}
    BY <1>1, WithoutElement
  <1>3. {t \in Servers : status'[t] = "active"} = {t \in Servers : status[t] = "active"} \ {s}
    OBVIOUS
  <1> QED  BY <1>2, <1>3 DEF ReadyAreActive, NoneTwice

LEMMA ReadyMarked ==
    ASSUME TypeInv, ReadyAreActive, NEW s \in Servers, status[s] = "idle", MarkActive(s)
    PROVE  ReadyAreActive'
  <1>1. ready \in Seq(Servers) /\ NoneTwice(ready) /\ s \notin Members(ready)
    BY DEF TypeInv, TypeOK, EndpointTypeOK, ReadyAreActive, NoneTwice
  <1>2. NoneTwice(ready') /\ Members(ready') = Members(ready) \cup {s}
    BY <1>1, AppendElement DEF MarkActive
  <1>3. {t \in Servers : status'[t] = "active"} = {t \in Servers : status[t] = "active"} \cup {s}
    BY DEF TypeInv, TypeOK, EndpointTypeOK, MarkActive
  <1> QED  BY <1>2, <1>3 DEF ReadyAreActive, NoneTwice

\* What leaves the endpoints and the transports alone.
LEMMA EndpointFrame ==
    ASSUME EndpointInv, UNCHANGED <<status, ready, methodTimer>>
    PROVE  /\ OneConnected' /\ ReadyAreActive'
           /\ UNCHANGED <<link, eventChan>> => EndpointInv'
  BY DEF EndpointInv, OneConnected, FinishedLast, ReadyAreActive, Present

LEMMA StatusStepEndpoint ==
    ASSUME TypeInv, EndpointInv, NEW s \in Servers, StatusStep(s)
    PROVE  EndpointInv'
  <1>0. status \in [Servers -> Statuses] /\ link \in [Servers -> Links]
    BY DEF TypeInv, TypeOK, EndpointTypeOK, TransportTypeOK
  <1>f. Take("finished", s) => link[s] = "finished" /\ Present(s)
    BY EventsTaken DEF EndpointInv, FinishedLast
  <1>1. CASE StartedIdle(s)
    <2>1. OneConnected'
      BY <1>0, <1>1 DEF StartedIdle, MarkActive, EndpointInv, OneConnected, Present, methodVars
    <2>2. ReadyAreActive'
      BY <1>1, ReadyMarked DEF StartedIdle, EndpointInv
    <2>3. FinishedLast'
      BY <1>0, <1>1, TakeFinishedLast DEF StartedIdle, MarkActive, EndpointInv, FinishedLast, Present
    <2> QED  BY <2>1, <2>2, <2>3 DEF EndpointInv
  <1>2. CASE StartedFailed(s)
    <2>1. OneConnected'
      BY <1>0, <1>2 DEF StartedFailed, EndpointInv, OneConnected, Present, methodVars
    <2>2. ReadyAreActive'
      BY <1>0, <1>2 DEF StartedFailed, EndpointInv, ReadyAreActive
    <2>3. FinishedLast'
      BY <1>0, <1>2, TakeFinishedLast DEF StartedFailed, EndpointInv, FinishedLast, Present
    <2> QED  BY <2>1, <2>2, <2>3 DEF EndpointInv
  <1>3. ASSUME NEW order, Failed(s, order)  PROVE EndpointInv'
    <2>1. OneConnected'
      BY <1>0, <1>3 DEF Failed, EndpointInv, OneConnected, Present, methodVars
    <2>2. ReadyAreActive'
      BY <1>0, <1>3, ReadyWithout DEF Failed, EndpointInv
    <2>3. FinishedLast'
      BY <1>0, <1>3, TakeFinishedLast DEF Failed, EndpointInv, FinishedLast, Present
    <2> QED  BY <2>1, <2>2, <2>3 DEF EndpointInv
  <1>4. ASSUME NEW order, Finished(s, order)  PROVE EndpointInv'
    <2>1. OneConnected'
      BY <1>0, <1>4, <1>f DEF Finished, EndpointInv, OneConnected, Present
    <2>2. ReadyAreActive'
      BY <1>0, <1>4, ReadyWithout DEF Finished, EndpointInv
    <2>3. FinishedLast'
      BY <1>0, <1>4, TakeFinishedLast DEF Finished, EndpointInv, FinishedLast, Present
    <2> QED  BY <2>1, <2>2, <2>3 DEF EndpointInv
  <1>5. CASE FinishedClosing(s)
    <2>1. OneConnected'
      BY <1>0, <1>5 DEF FinishedClosing, EndpointInv, OneConnected, Present, methodVars
    <2>2. ReadyAreActive'
      BY <1>0, <1>5, ReadyWithout DEF FinishedClosing, EndpointInv
    <2>3. FinishedLast'
      BY <1>0, <1>5, TakeFinishedLast DEF FinishedClosing, EndpointInv, FinishedLast, Present
    <2> QED  BY <2>1, <2>2, <2>3 DEF EndpointInv
  <1> QED  BY <1>1, <1>2, <1>3, <1>4, <1>5 DEF StatusStep

LEMMA AnswerStepEndpoint ==
    ASSUME TypeInv, EndpointInv, NEW s \in Servers, AnswerStep(s)
    PROVE  EndpointInv'
  <1>1. UNCHANGED <<status, ready, methodTimer, link>>
    BY DEF AnswerStep, Acked, Pong, Ignored, publisherVars, endpointVars, methodVars
  <1>2. \E type \in {"started", "failed", "ack", "pong"} : Take(type, s)
    BY DEF AnswerStep, Acked, Pong, Ignored
  <1>3. FinishedLast'
    BY <1>1, <1>2, TakeFinishedLast DEF EndpointInv, FinishedLast, Present
  <1> QED  BY <1>1, <1>3, EndpointFrame DEF EndpointInv

LEMMA TimeoutStepEndpoint ==
    ASSUME TypeInv, EndpointInv, NEW s \in Servers, TimeoutStep(s)
    PROVE  EndpointInv'
  <1>0. status \in [Servers -> Statuses] /\ link \in [Servers -> Links]
    BY DEF TypeInv, TypeOK, EndpointTypeOK, TransportTypeOK
  <1>1. CASE TimeoutPending(s)
    <2>1. UNCHANGED <<link, eventChan, methodTimer>> /\ \A t \in Servers : Present(t)' <=> Present(t)
      BY <1>0, <1>1 DEF TimeoutPending, Present, methodVars
    <2>2. ReadyAreActive'
      BY <1>0, <1>1, ReadyWithout DEF TimeoutPending, EndpointInv
    <2> QED  BY <2>1, <2>2 DEF EndpointInv, OneConnected, FinishedLast
  <1>2. CASE TimeoutKeepalive(s)
    BY <1>2, EndpointFrame DEF TimeoutKeepalive, methodVars
  <1>3. CASE TimeoutBackoff(s)
    <2>1. CASE status[s] = "idle"
      <3>1. UNCHANGED <<link, eventChan, methodTimer>> /\ \A t \in Servers : Present(t)' <=> Present(t)
        BY <1>0, <1>3, <2>1 DEF TimeoutBackoff, MarkActive, Present, methodVars, transportVars
      <3>2. ReadyAreActive'
        BY <1>3, <2>1, ReadyMarked DEF TimeoutBackoff, EndpointInv
      <3> QED  BY <3>1, <3>2 DEF EndpointInv, OneConnected, FinishedLast
    <2>2. CASE status[s] # "idle"
      BY <1>3, <2>2, EndpointFrame DEF TimeoutBackoff, methodVars, transportVars
    <2> QED  BY <2>1, <2>2
  <1>4. CASE ConnectRandom(s)
    <2>1. /\ methodTimer /\ methodTimer' = FALSE /\ UNCHANGED <<ready, eventChan>>
          /\ status' = [status EXCEPT ![s] = "idle"] /\ link' = [link EXCEPT ![s] = "down"]
      BY <1>4 DEF ConnectRandom
    <2>2. \A t \in Servers : ~Present(t) /\ link[t] = "none"
      BY <2>1 DEF EndpointInv, OneConnected, FinishedLast
    <2>3. \A i \in 1 .. Len(eventChan) : eventChan[i].ep \in Servers
      BY DEF TypeInv, TypeOK, TransportTypeOK, StatusEvent, AckedEvent
    <2>4. OneConnected' /\ ReadyAreActive'
      BY <1>0, <2>1, <2>2 DEF EndpointInv, OneConnected, ReadyAreActive, Present
    <2>5. FinishedLast'
      BY <1>0, <2>1, <2>2, <2>3 DEF EndpointInv, FinishedLast, Present
    <2> QED  BY <2>4, <2>5 DEF EndpointInv
  <1> QED  BY <1>1, <1>2, <1>3, <1>4 DEF TimeoutStep

\* A process that starts: no event yet, and the endpoints the method connects.
LEMMA FreshEndpoints ==
    ASSUME NEW connected \in Connected, status = NewStatus(connected), link = NewLink(connected),
           ready = <<>>, eventChan = <<>>, methodTimer = FALSE
    PROVE  EndpointInv
  <1>1. OneConnected
    BY TransportAssumption DEF OneConnected, Present, NewStatus, Connected
  <1>2. FinishedLast
    BY DEF FinishedLast, Present, NewStatus, NewLink
  <1>3. ReadyAreActive
    BY DEF ReadyAreActive, Members, NewStatus
  <1> QED  BY <1>1, <1>2, <1>3 DEF EndpointInv

LEMMA NextEndpoint == TypeInv /\ EndpointInv /\ [Next]_vars => EndpointInv'
  <1> SUFFICES ASSUME TypeInv, EndpointInv, [Next]_vars PROVE EndpointInv'
    OBVIOUS
  <1>1. ASSUME NEW s \in Servers, TransportStep(s), UNCHANGED publisherVars  PROVE EndpointInv'
    BY <1>1, EndpointFrame, TransportFinishedLast
    DEF publisherVars, endpointVars, methodVars, EndpointInv
  <1>2. CASE SpoolStep \/ QueueStep
    <2>1. UNCHANGED <<status, ready, methodTimer, link, eventChan>>
      BY <1>2 DEF SpoolStep, QueueStep, HoldSpool, SendSpool, QueueResend, QueueNextSpool, QueueNothing,
                  SendEvents, SendPayload, endpointVars, methodVars, transportVars
    <2> QED  BY <2>1, EndpointFrame
  <1>3. CASE \E written \in BOOLEAN : RegistrarRun(written)
    BY <1>3, EndpointFrame DEF RegistrarRun, endpointVars, methodVars
  <1>4. CASE Shutdown
    <2>1. /\ UNCHANGED <<link, eventChan, methodTimer>> /\ ready' = <<>>
          /\ \A t \in Servers : (Present(t)' <=> Present(t)) /\ status'[t] # "active"
      BY <1>4 DEF Shutdown, Present, methodVars
    <2>2. ReadyAreActive'
      BY <2>1 DEF ReadyAreActive, Members
    <2> QED  BY <2>1, <2>2 DEF EndpointInv, OneConnected, FinishedLast
  <1>5. CASE Crash
    <2>1. PICK connected \in Connected :
            /\ status' = NewStatus(connected) /\ link' = NewLink(connected)
            /\ ready' = <<>> /\ eventChan' = <<>> /\ methodTimer' = FALSE
      BY <1>5 DEF Crash
    <2>2. OneConnected'
      BY <2>1, TransportAssumption DEF OneConnected, Present, NewStatus, Connected
    <2>3. FinishedLast'
      BY <2>1 DEF FinishedLast, Present, NewStatus, NewLink
    <2>4. ReadyAreActive'
      BY <2>1 DEF ReadyAreActive, Members, NewStatus
    <2> QED  BY <2>2, <2>3, <2>4 DEF EndpointInv
  <1>6. CASE UNCHANGED vars
    BY <1>6, EndpointFrame DEF vars, publisherVars, endpointVars, methodVars, transportVars
  <1> QED  BY <1>1, <1>2, <1>3, <1>4, <1>5, <1>6, StatusStepEndpoint, AnswerStepEndpoint,
              TimeoutStepEndpoint DEF Next

\* The ready list is the active endpoints, each once: queuePayload never meets
\* one that is not active (endpoint.go:122), whatever events, timeouts and
\* reconnections come in which order (sink_status.go, sink_timeout.go).
THEOREM ReadyCorrect == Spec => []ReadyAreActive
  <1>1. Init => EndpointInv
    BY FreshEndpoints DEF Init
  <1>2. EndpointInv => ReadyAreActive
    BY DEF EndpointInv
  <1> QED  BY InitType, NextType, NextEndpoint, <1>1, <1>2, PTL DEF Spec

-----------------------------------------------------------------------------
(* Every unfinished payload has one owner.                                 *)

\* What an ACK does to the numbers of a payload that is not complete.
LEMMA AckNumbers ==
    ASSUME NEW pp \in PayloadRec, SequenceConsistent(pp), NEW sequence \in Nat
    PROVE  /\ Ack(pp, sequence).sequenceLen = pp.sequenceLen
           /\ Ack(pp, sequence).ackEvents =
                IF sequence <= pp.lastSequence THEN pp.ackEvents
                ELSE IF sequence >= pp.sequenceLen THEN pp.hi - pp.lo
                ELSE pp.ackEvents + (sequence - pp.lastSequence)
           /\ ~Complete(pp) => (Complete(Ack(pp, sequence)) <=> AckIsFull(pp, sequence))
  <1> DEFINE q == Ack(pp, sequence)
             ack == IF sequence >= pp.sequenceLen THEN pp.hi - pp.lo
                    ELSE pp.ackEvents + (sequence - pp.lastSequence)
  <1>0. /\ pp.lo \in Nat /\ pp.hi \in Nat /\ pp.ackEvents \in Nat
        /\ pp.lastSequence \in Nat /\ pp.sequenceLen \in Nat
    BY DEF PayloadRec
  <1>1. CASE sequence <= pp.lastSequence
    BY <1>0, <1>1 DEF Ack, AckIsFull
  <1>2. CASE ~(sequence <= pp.lastSequence)
    <2>1. q = [pp EXCEPT !.ackEvents = ack, !.lastSequence = sequence]
      BY <1>2 DEF Ack
    <2> HIDE DEF ack
    <2>2. q.sequenceLen = pp.sequenceLen /\ q.ackEvents = ack /\ q.lo = pp.lo /\ q.hi = pp.hi
      BY <2>1 DEF PayloadRec
    <2> HIDE DEF q
    <2>3. Complete(q) <=> pp.hi - pp.lo - ack = 0
      BY <2>2 DEF Complete, EventsLen
    <2>4. ~Complete(pp) => (Complete(q) <=> AckIsFull(pp, sequence))
      <3> SUFFICES ASSUME ~Complete(pp) PROVE Complete(q) <=> AckIsFull(pp, sequence)
        OBVIOUS
      <3>1. pp.sequenceLen - pp.lastSequence = pp.hi - pp.lo - pp.ackEvents
        BY DEF SequenceConsistent, EventsLen
      <3>2. CASE sequence >= pp.sequenceLen
        BY <1>0, <1>2, <2>3, <3>2 DEF AckIsFull, ack
      <3>3. CASE ~(sequence >= pp.sequenceLen)
        <4>1. ack = pp.ackEvents + (sequence - pp.lastSequence)
          BY <3>3 DEF ack
        <4> QED  BY <1>0, <1>2, <2>3, <3>1, <3>3, <4>1 DEF AckIsFull
      <3> QED  BY <3>2, <3>3
    <2> QED  BY <1>2, <2>2, <2>4 DEF q, ack
  <1> QED  BY <1>1, <1>2

\* The payload an ACK is applied to.
LEMMA AckedNumbers ==
    ASSUME TypeInv, NEW s \in Servers, Take("ack", s), NEW p, p = Head(eventChan).nonce, p \in pending[s],
           NEW sequence, sequence = Head(eventChan).sequence
    PROVE  /\ p \in 1 .. Len(payload) /\ sequence \in Nat
           /\ payload[p] \in PayloadRec /\ SequenceConsistent(payload[p])
           /\ AckedPayloads[p].sequenceLen = payload[p].sequenceLen
           /\ AckedPayloads[p].ackEvents = Ack(payload[p], sequence).ackEvents
           /\ Complete(AckedPayloads[p]) <=> Complete(Ack(payload[p], sequence))
  <1>0. PayloadTypeOK /\ Consistent /\ TransportTypeOK
    BY DEF TypeInv, TypeOK
  <1>1. p \in 1 .. Len(payload)
    BY <1>0 DEF PayloadTypeOK
  <1>2. sequence \in Nat
    BY <1>0, TakeType DEF Take, StatusEvent, AckedEvent
  <1>3. payload[p] \in PayloadRec /\ SequenceConsistent(payload[p])
    BY <1>0, <1>1 DEF PayloadTypeOK, Consistent
  <1> DEFINE pp == Ack(payload[p], sequence)
             new == [pp EXCEPT !.resending = @ /\ ~Complete(pp)]
  <1>4. pp \in PayloadRec
    BY <1>2, <1>3, AckConsistent
  <1>5. AckedPayloads[p] = new
    <2>1. AckedPayloads = [payload EXCEPT ![p] = new]
      BY DEF AckedPayloads, ApplyAck
    <2> HIDE DEF new
    <2> QED  BY <1>0, <1>1, <2>1 DEF PayloadTypeOK
  <1> HIDE DEF pp
  <1>6. /\ new.sequenceLen = pp.sequenceLen /\ new.ackEvents = pp.ackEvents
        /\ new.lo = pp.lo /\ new.hi = pp.hi
    BY <1>4 DEF PayloadRec
  <1>7. pp.sequenceLen = payload[p].sequenceLen
    BY <1>2, <1>3, AckNumbers DEF pp
  <1>8. Complete(new) <=> Complete(pp)
    BY <1>6 DEF Complete, EventsLen
  <1> QED  BY <1>1, <1>2, <1>3, <1>5, <1>6, <1>7, <1>8 DEF pp

\* Renumbering and rolling up leave open what is left to acknowledge.
LEMMA RenumberComplete ==
    ASSUME NEW pp \in PayloadRec, SequenceConsistent(pp), NEW b \in BOOLEAN
    PROVE  /\ Complete([ResetSequence(pp) EXCEPT !.resending = b]) <=> Complete(pp)
           /\ [ResetSequence(pp) EXCEPT !.resending = b].ackEvents = pp.ackEvents
           /\ [ResetSequence(pp) EXCEPT !.resending = b].sequenceLen = EventsLen(pp)
  <1> DEFINE n == EventsLen(pp)
             q == [ResetSequence(pp) EXCEPT !.resending = b]
  <1>1. ResetSequence(pp) = [pp EXCEPT !.lastSequence = 0, !.sequenceLen = n]
    BY DEF ResetSequence
  <1> HIDE DEF n
  <1>2. q.lo = pp.lo /\ q.hi = pp.hi /\ q.ackEvents = pp.ackEvents /\ q.sequenceLen = n
    BY <1>1 DEF PayloadRec
  <1> HIDE DEF q
  <1>3. Complete(q) <=> Complete(pp)
    BY <1>2 DEF Complete, EventsLen
  <1> QED  BY <1>2, <1>3 DEF q, n

LEMMA RollupComplete ==
    ASSUME NEW pp \in PayloadRec
    PROVE  /\ Complete(Rollup(pp)) <=> Complete(pp)
           /\ Rollup(pp).ackEvents = 0
           /\ Rollup(pp).sequenceLen = pp.sequenceLen
  <1> DEFINE lo == EventsFrom(pp)
             q == Rollup(pp)
  <1>0. pp.lo \in Nat /\ pp.hi \in Nat /\ pp.ackEvents \in Nat
    BY DEF PayloadRec
  <1>1. lo = pp.lo + pp.ackEvents
    BY DEF EventsFrom
  <1>2. q = [pp EXCEPT !.lo = lo, !.ackEvents = 0]
    BY DEF Rollup
  <1> HIDE DEF lo
  <1>3. q.lo = lo /\ q.hi = pp.hi /\ q.ackEvents = 0 /\ q.sequenceLen = pp.sequenceLen
    BY <1>2 DEF PayloadRec
  <1> HIDE DEF q
  <1>4. Complete(q) <=> Complete(pp)
    BY <1>0, <1>1, <1>3 DEF Complete, EventsLen
  <1> QED  BY <1>3, <1>4 DEF q

\* Iterating a map yields each of its members once.
LEMMA OrdersOnce ==
    ASSUME NEW n \in Nat, NEW S \in SUBSET (1 .. n), NEW f \in Orders(S)
    PROVE  NoneTwice(f) /\ Members(f) = S
  <1> DEFINE c == Cardinality(S)
  <1>1. IsFiniteSet(S) /\ c \in Nat
    <2>1. IsFiniteSet(1 .. n)
      BY FS_Interval
    <2>2. IsFiniteSet(S)
      BY <2>1, FS_Subset
    <2> QED  BY <2>2, FS_CardinalityType
  <1>2. f \in Surjection(1 .. c, S)
    BY DEF Orders, Surjection
  <1>3. IsFiniteSet(1 .. c) /\ Cardinality(1 .. c) = c
    BY <1>1, FS_Interval
  <1>4. f \in Injection(1 .. c, S)
    BY <1>1, <1>2, <1>3, FS_SurjSameCardinalityImpliesInj
  <1>5. f \in [1 .. c -> S] /\ Len(f) = c
    BY <1>1 DEF Orders
  <1>6. NoneTwice(f)
    BY <1>4, <1>5 DEF NoneTwice, Injection, IsInjective
  <1>7. Members(f) = S
    BY <1>5 DEF Members, Orders
  <1> QED  BY <1>6, <1>7

LEMMA ConcatOnce ==
    ASSUME NEW S, NEW a \in Seq(S), NEW b \in Seq(S), NoneTwice(a), NoneTwice(b),
           \A x \in Members(a) : x \notin Members(b)
    PROVE  NoneTwice(a \o b) /\ Members(a \o b) = Members(a) \cup Members(b)
  <1> DEFINE r == a \o b
             A == Len(a)
             B == Len(b)
  <1>1. A \in Nat /\ B \in Nat /\ Len(r) = A + B
    OBVIOUS
  <1>2. \A i \in 1 .. A + B : r[i] = IF i <= A THEN a[i] ELSE b[i - A]
    OBVIOUS
  <1> HIDE DEF r
  <1>3. ASSUME NEW i \in 1 .. A + B
        PROVE  \/ i \in 1 .. A /\ r[i] = a[i]
               \/ i - A \in 1 .. B /\ r[i] = b[i - A]
    BY <1>1, <1>2
  <1>4. NoneTwice(r)
    <2>1. ASSUME NEW i \in 1 .. A + B, NEW j \in 1 .. A + B, r[i] = r[j]  PROVE i = j
      <3>1. CASE i \in 1 .. A /\ j \in 1 .. A /\ r[i] = a[i] /\ r[j] = a[j]
        BY <2>1, <3>1 DEF NoneTwice
      <3>2. CASE i - A \in 1 .. B /\ j - A \in 1 .. B /\ r[i] = b[i - A] /\ r[j] = b[j - A]
        <4>1. i - A = j - A
          BY <2>1, <3>2 DEF NoneTwice
        <4> QED  BY <1>1, <4>1
      <3>3. CASE i \in 1 .. A /\ j - A \in 1 .. B /\ r[i] = a[i] /\ r[j] = b[j - A]
        BY <2>1, <3>3 DEF Members
      <3>4. CASE i - A \in 1 .. B /\ j \in 1 .. A /\ r[i] = b[i - A] /\ r[j] = a[j]
        BY <2>1, <3>4 DEF Members
      <3> QED  BY <1>3, <3>1, <3>2, <3>3, <3>4
    <2> QED  BY <1>1, <2>1 DEF NoneTwice
  <1>5. ASSUME NEW x PROVE x \in Members(r) <=> x \in Members(a) \/ x \in Members(b)
    <2>1. ASSUME x \in Members(r) PROVE x \in Members(a) \/ x \in Members(b)
      BY <1>1, <1>3, <2>1 DEF Members
    <2>2. ASSUME x \in Members(a) PROVE x \in Members(r)
      <3>1. PICK i \in 1 .. A : x = a[i]
        BY <2>2 DEF Members
      <3>2. i \in 1 .. A + B /\ r[i] = a[i]
        BY <1>1, <1>2
      <3> QED  BY <1>1, <3>1, <3>2 DEF Members
    <2>3. ASSUME x \in Members(b) PROVE x \in Members(r)
      <3>1. PICK i \in 1 .. B : x = b[i]
        BY <2>3 DEF Members
      <3>2. A + i \in 1 .. A + B /\ ~(A + i <= A) /\ (A + i) - A = i
        BY <1>1
      <3>3. r[A + i] = b[i]
        BY <1>2, <3>2
      <3> QED  BY <1>1, <3>1, <3>2, <3>3 DEF Members
    <2> QED  BY <2>1, <2>2, <2>3
  <1> QED  BY <1>4, <1>5 DEF r

LEMMA TailOnce ==
    ASSUME NEW S, NEW list \in Seq(S), NoneTwice(list), list # <<>>
    PROVE  /\ NoneTwice(Tail(list)) /\ Members(Tail(list)) = Members(list) \ {Head(list)}
           /\ Head(list) \in Members(list)
  <1> DEFINE r == Tail(list)
             N == Len(list)
  <1>1. /\ N \in Nat \ {0} /\ Head(list) = list[1] /\ 1 \in 1 .. N /\ Len(r) = N - 1
        /\ \A i \in 1 .. N - 1 : i + 1 \in 1 .. N /\ r[i] = list[i + 1]
    OBVIOUS
  <1> HIDE DEF r
  <1>2. NoneTwice(r)
    <2>1. ASSUME NEW i \in 1 .. N - 1, NEW j \in 1 .. N - 1, r[i] = r[j]  PROVE i = j
      <3>1. i + 1 = j + 1
        BY <1>1, <2>1 DEF NoneTwice
      <3> QED  BY <3>1
    <2> QED  BY <1>1, <2>1 DEF NoneTwice
  <1>3. ASSUME NEW x PROVE x \in Members(r) <=> x \in Members(list) /\ x # list[1]
    <2>1. ASSUME x \in Members(r) PROVE x \in Members(list) /\ x # list[1]
      <3>1. PICK i \in 1 .. N - 1 : x = list[i + 1]
        BY <1>1, <2>1 DEF Members
      <3>2. i + 1 # 1 /\ i + 1 \in 1 .. N
        BY <1>1
      <3> QED  BY <1>1, <3>1, <3>2 DEF Members, NoneTwice
    <2>2. ASSUME x \in Members(list), x # list[1] PROVE x \in Members(r)
      <3>1. PICK k \in 1 .. N : x = list[k]
        BY <2>2 DEF Members
      <3>2. k - 1 \in 1 .. N - 1 /\ (k - 1) + 1 = k
        BY <1>1, <2>2, <3>1
      <3>3. r[k - 1] = list[k]
        BY <1>1, <3>2
      <3> QED  BY <1>1, <3>1, <3>2, <3>3 DEF Members
    <2> QED  BY <2>1, <2>2
  <1> QED  BY <1>1, <1>2, <1>3 DEF r, Members

\* A payload is on an endpoint or on the resend list.
Held(p) == p \in Members(resendList) \/ \E s \in Servers : p \in pending[s]

\* No payload has two owners, and what has none is not pending.
OneOwner ==
    /\ \A s, t \in Servers : \A p \in pending[s] : p \in pending[t] => s = t
    /\ NoneTwice(resendList)
    /\ \A s \in Servers : \A p \in pending[s] : p \notin Members(resendList)
    /\ \A s \in Servers : ~Present(s) => pending[s] = {}

HeldUnfinished ==
    \A p \in 1 .. Len(payload) : Held(p) => p \in Members(payloadList) /\ ~Complete(payload[p])

UnfinishedHeld ==
    shuttingDown \/ \A p \in Members(payloadList) : Complete(payload[p]) \/ Held(p)

HoldInv == OneOwner /\ HeldUnfinished /\ UnfinishedHeld

\* The owners as Holders counts them.
LEMMA HoldersCounted ==
    ASSUME TypeInv, HoldInv, NEW p \in 1 .. Len(payload)
    PROVE  Holders(p) = IF Held(p) THEN 1 ELSE 0
  <1> DEFINE E == {s \in Servers : p \in pending[s]}
             R == {i \in 1 .. Len(resendList) : resendList[i] = p}
  <1>1. Cardinality({}) = 0 /\ \A x : Cardinality({x}) = 1
    BY FS_EmptySet, FS_Singleton
  <1>h. Holders(p) = Cardinality(E) + Cardinality(R)
    BY DEF Holders
  <1>2. CASE p \in Members(resendList)
    <2>1. E = {}
      BY <1>2 DEF HoldInv, OneOwner
    <2>2. PICK i \in 1 .. Len(resendList) : resendList[i] = p
      BY <1>2 DEF Members
    <2>3. R = {i}
      BY <2>2 DEF HoldInv, OneOwner, NoneTwice
    <2>4. Cardinality(E) = 0 /\ Cardinality(R) = 1
      BY <1>1, <2>1, <2>3
    <2> HIDE DEF E, R
    <2> QED  BY <1>h, <1>2, <2>4 DEF Held
  <1>3. CASE p \notin Members(resendList) /\ \E s \in Servers : p \in pending[s]
    <2>1. PICK s \in Servers : p \in pending[s]
      BY <1>3
    <2>2. E = {s}
      BY <2>1 DEF HoldInv, OneOwner
    <2>3. R = {}
      BY <1>3 DEF Members
    <2>4. Cardinality(E) = 1 /\ Cardinality(R) = 0
      BY <1>1, <2>2, <2>3
    <2> HIDE DEF E, R
    <2> QED  BY <1>h, <1>3, <2>4 DEF Held
  <1>4. CASE ~Held(p)
    <2>1. E = {} /\ R = {}
      BY <1>4 DEF Held, Members
    <2>2. Cardinality(E) = 0 /\ Cardinality(R) = 0
      BY <1>1, <2>1
    <2> HIDE DEF E, R
    <2> QED  BY <1>h, <1>4, <2>2
  <1> QED  BY <1>2, <1>3, <1>4 DEF Held

LEMMA HeldOnce ==
    ASSUME TypeInv, HoldInv
    PROVE  PayloadsConserved
  <1> SUFFICES ASSUME NEW p \in 1 .. Len(payload)
               PROVE  IF p \in Members(payloadList) /\ ~Complete(payload[p])
                      THEN Holders(p) = 1 \/ (shuttingDown /\ Holders(p) = 0)
                      ELSE Holders(p) = 0
    BY DEF PayloadsConserved
  <1>1. Holders(p) = IF Held(p) THEN 1 ELSE 0
    BY HoldersCounted
  <1> QED  BY <1>1 DEF HoldInv, HeldUnfinished, UnfinishedHeld

\* Steps that move no payload and complete none.
LEMMA HoldFrame ==
    ASSUME HoldInv, UNCHANGED <<resendList, pending, payloadList>>, Len(payload') = Len(payload),
           \A p \in 1 .. Len(payload) : Complete(payload'[p]) <=> Complete(payload[p]),
           payloadList \in Seq(1 .. Len(payload)),
           shuttingDown => shuttingDown', \A s \in Servers : Present(s) => Present(s)' \/ pending[s] = {}
    PROVE  HoldInv'
  <1>1. \A p : Held(p)' <=> Held(p)
    BY DEF Held
  <1>2. OneOwner'
    BY DEF HoldInv, OneOwner
  <1>3. Members(payloadList') = Members(payloadList) /\ Members(payloadList) \subseteq 1 .. Len(payload)
    BY DEF Members
  <1>4. HeldUnfinished'
    BY <1>1, <1>3 DEF HoldInv, HeldUnfinished
  <1>5. UnfinishedHeld'
    BY <1>1, <1>3 DEF HoldInv, UnfinishedHeld
  <1> QED  BY <1>2, <1>4, <1>5 DEF HoldInv

LEMMA HoldUnchanged ==
    ASSUME TypeInv, HoldInv, UNCHANGED <<payloadVars, pending>>,
           shuttingDown => shuttingDown', \A s \in Servers : Present(s) => Present(s)' \/ pending[s] = {}
    PROVE  HoldInv'
  BY HoldFrame DEF TypeInv, TypeOK, PayloadTypeOK, payloadVars

\* sendEvents gives a new payload to one endpoint.
LEMMA SendEventsHold ==
    ASSUME TypeInv, HoldInv, NEW s \in Servers, Present(s), NEW n \in Nat \ {0}, SendEvents(s, n),
           UNCHANGED status
    PROVE  HoldInv'
  <1> DEFINE pp == NewPayload(spooled, n)
             N  == Len(payload)
             q  == N + 1
  <1>1. PayloadTypeOK /\ N \in Nat
    BY DEF TypeInv, TypeOK, PayloadTypeOK
  <1>2. /\ payload' = Append(payload, pp) /\ payloadList' = Append(payloadList, q)
        /\ pending' = [pending EXCEPT ![s] = @ \cup {q}]
        /\ UNCHANGED <<resendList, shuttingDown>>
    BY DEF SendEvents, SendPayload
  <1>3. pp \in PayloadRec /\ ~Complete(pp)
    <2>1. spooled \in Nat
      BY <1>1 DEF PayloadTypeOK
    <2>2. pp.lo = spooled /\ pp.hi = spooled + n /\ pp.ackEvents = 0
      BY DEF NewPayload
    <2>3. pp \in PayloadRec
      BY <1>1, NewPayloadConsistent DEF PayloadTypeOK
    <2> HIDE DEF pp
    <2> QED  BY <2>1, <2>2, <2>3 DEF Complete, EventsLen
  <1> HIDE DEF pp
  <1>4. /\ Len(payload') = q /\ payload'[q] = pp
        /\ \A p \in 1 .. N : payload'[p] = payload[p]
    BY <1>1, <1>2, <1>3 DEF PayloadTypeOK
  <1>5. /\ Len(payloadList') = Len(payloadList) + 1 /\ payloadList'[Len(payloadList) + 1] = q
        /\ Len(payloadList) \in Nat
        /\ \A i \in 1 .. Len(payloadList) : payloadList'[i] = payloadList[i]
    BY <1>1, <1>2 DEF PayloadTypeOK
  <1>6. \A p : p \in Members(payloadList') <=> p \in Members(payloadList) \/ p = q
    BY <1>5 DEF Members
  <1>7. Members(payloadList) \subseteq 1 .. N /\ Members(resendList) \subseteq 1 .. N
        /\ \A t \in Servers : pending[t] \subseteq 1 .. N
    BY <1>1 DEF PayloadTypeOK, Members
  <1>8. q \notin 1 .. N /\ \A p \in 1 .. q : p \in 1 .. N \/ p = q
    BY <1>1
  <1>9. \A t \in Servers : pending'[t] = IF t = s THEN pending[s] \cup {q} ELSE pending[t]
    BY <1>1, <1>2 DEF PayloadTypeOK
  <1> HIDE DEF q, N
  <1>10. Members(resendList') = Members(resendList)
    BY <1>2
  <1>11. \A p \in 1 .. N : p # q /\ (Held(p)' <=> Held(p))
    BY <1>8, <1>9, <1>10 DEF Held
  <1>12. \A p : p = q => Held(p)'
    BY <1>9 DEF Held
  <1>13. OneOwner'
    BY <1>2, <1>7, <1>8, <1>9, <1>10 DEF HoldInv, OneOwner, NoneTwice, Present
  <1>14. HeldUnfinished'
    BY <1>3, <1>4, <1>6, <1>8, <1>11 DEF HoldInv, HeldUnfinished, N
  <1>15. UnfinishedHeld'
    BY <1>2, <1>4, <1>6, <1>7, <1>11, <1>12 DEF HoldInv, UnfinishedHeld
  <1> QED  BY <1>13, <1>14, <1>15 DEF HoldInv

\* tryQueueHeld hands the oldest payload of the resend list to an endpoint.
LEMMA QueueResendHold ==
    ASSUME TypeInv, HoldInv, NEW s \in Servers, Present(s), QueueResend(s)
    PROVE  HoldInv'
  <1> DEFINE q == Head(resendList)
             new == [ResetSequence(payload[q]) EXCEPT !.resending = FALSE]
  <1>1. PayloadTypeOK /\ Consistent
    BY DEF TypeInv, TypeOK
  <1>2. /\ resendList # <<>> /\ resendList' = Tail(resendList)
        /\ payload' = [payload EXCEPT ![q] = new]
        /\ pending' = [pending EXCEPT ![s] = @ \cup {q}]
        /\ UNCHANGED <<payloadList, shuttingDown, status>>
    BY DEF QueueResend, SendPayload
  <1>3. /\ NoneTwice(resendList') /\ Members(resendList') = Members(resendList) \ {q}
        /\ q \in Members(resendList)
    BY <1>1, <1>2, TailOnce DEF PayloadTypeOK, HoldInv, OneOwner
  <1>4. q \in 1 .. Len(payload)
    BY <1>1, <1>2 DEF PayloadTypeOK
  <1>5. Complete(new) <=> Complete(payload[q])
    <2>1. payload[q] \in PayloadRec /\ SequenceConsistent(payload[q])
      BY <1>1, <1>4 DEF PayloadTypeOK, Consistent
    <2> HIDE DEF q
    <2> QED  BY <2>1, RenumberComplete
  <1> HIDE DEF q, new
  <1>6. /\ Len(payload') = Len(payload)
        /\ \A p \in 1 .. Len(payload) : payload'[p] = IF p = q THEN new ELSE payload[p]
    BY <1>1, <1>2, <1>4 DEF PayloadTypeOK
  <1>7. \A t \in Servers : pending'[t] = IF t = s THEN pending[s] \cup {q} ELSE pending[t]
    BY <1>1, <1>2 DEF PayloadTypeOK
  <1>8. \A p : Held(p)' <=> Held(p)
    BY <1>3, <1>7 DEF Held
  <1>9. OneOwner'
    BY <1>2, <1>3, <1>7 DEF HoldInv, OneOwner, Present
  <1>10. Members(payloadList') = Members(payloadList) /\ Members(payloadList) \subseteq 1 .. Len(payload)
    BY <1>1, <1>2 DEF PayloadTypeOK, Members
  <1>11. HeldUnfinished'
    BY <1>5, <1>6, <1>8, <1>10 DEF HoldInv, HeldUnfinished
  <1>12. UnfinishedHeld'
    BY <1>2, <1>5, <1>6, <1>8, <1>10 DEF HoldInv, UnfinishedHeld
  <1> QED  BY <1>9, <1>11, <1>12 DEF HoldInv

\* pullBackPending hands everything that was pending to the resend list.
LEMMA PullBackHold ==
    ASSUME TypeInv, HoldInv, NEW s \in Servers, NEW order, PullBackPending(s, order),
           pending' = [pending EXCEPT ![s] = {}], UNCHANGED shuttingDown,
           \A t \in Servers : t # s => (Present(t)' <=> Present(t))
    PROVE  HoldInv'
  <1> DEFINE New(p) == IF p \in pending[s]
                       THEN [ResetSequence(payload[p]) EXCEPT !.resending = TRUE] ELSE payload[p]
  <1>1. PayloadTypeOK /\ Len(payload) \in Nat
    BY DEF TypeInv, TypeOK, PayloadTypeOK
  <1>2. \A p \in 1 .. Len(payload) : payload[p] \in PayloadRec /\ SequenceConsistent(payload[p])
    BY DEF TypeInv, TypeOK, PayloadTypeOK, Consistent
  <1>3. /\ payload' = [p \in 1 .. Len(payload) |-> New(p)]
        /\ order \in Orders(pending[s]) /\ resendList' = resendList \o order
        /\ UNCHANGED payloadList
    BY DEF PullBackPending
  <1>4. \A p \in 1 .. Len(payload) : Complete(New(p)) <=> Complete(payload[p])
    BY <1>2, RenumberComplete
  <1> HIDE DEF New
  <1>5. Len(payload') = Len(payload) /\ \A p \in 1 .. Len(payload) : payload'[p] = New(p)
    BY <1>1, <1>3
  <1>6. pending[s] \in SUBSET (1 .. Len(payload))
    BY <1>1 DEF PayloadTypeOK
  <1>7. order \in Seq(1 .. Len(payload)) /\ NoneTwice(order) /\ Members(order) = pending[s]
    BY <1>1, <1>3, <1>6, OrdersType, OrdersOnce
  <1>8. NoneTwice(resendList') /\ Members(resendList') = Members(resendList) \cup pending[s]
    <2>1. resendList \in Seq(1 .. Len(payload)) /\ NoneTwice(resendList)
          /\ \A p \in Members(resendList) : p \notin Members(order)
      BY <1>1, <1>7 DEF PayloadTypeOK, HoldInv, OneOwner
    <2> QED  BY <1>3, <1>7, <2>1, ConcatOnce
  <1>9. \A t \in Servers : pending'[t] = IF t = s THEN {} ELSE pending[t]
    BY <1>1 DEF PayloadTypeOK
  <1>10. \A p : Held(p)' <=> Held(p)
    BY <1>8, <1>9 DEF Held
  <1>11. OneOwner'
    BY <1>8, <1>9 DEF HoldInv, OneOwner
  <1>12. Members(payloadList') = Members(payloadList) /\ Members(payloadList) \subseteq 1 .. Len(payload)
    BY <1>1, <1>3 DEF PayloadTypeOK, Members
  <1>13. HeldUnfinished'
    BY <1>4, <1>5, <1>10, <1>12 DEF HoldInv, HeldUnfinished
  <1>14. UnfinishedHeld'
    BY <1>4, <1>5, <1>10, <1>12 DEF HoldInv, UnfinishedHeld
  <1> QED  BY <1>11, <1>13, <1>14 DEF HoldInv

\* OnAck takes a payload from its endpoint exactly when it is complete, and
\* from the list only what is complete.
LEMMA AckedHold ==
    ASSUME TypeInv, HoldInv, NEW s \in Servers, NEW k \in 0 .. Len(payloadList), Acked(s, k)
    PROVE  HoldInv'
  <1> DEFINE q == Head(eventChan).nonce
             sequence == Head(eventChan).sequence
             A == AckedPayloads
  <1>1. /\ Take("ack", s) /\ q \in pending[s]
        /\ pending' = [pending EXCEPT ![s] = IF AckIsFull(payload[q], sequence) THEN pending[s] \ {q} ELSE pending[s]]
        /\ resendList' = resendList \/ resendList' = Without(resendList, q)
        /\ RegisterPrefix(A, k) \/ KeepOutOfOrder(q, A)
        /\ UNCHANGED <<shuttingDown, status>>
    BY DEF Acked, AckedPayloads
  <1>2. /\ A \in Seq(PayloadRec) /\ Len(A) = Len(payload)
        /\ \A p \in 1 .. Len(payload) : p # q => A[p] = payload[p]
    BY <1>1, AckedPayloadsType
  <1>3. /\ q \in 1 .. Len(payload) /\ sequence \in Nat
        /\ payload[q] \in PayloadRec /\ SequenceConsistent(payload[q])
        /\ Complete(A[q]) <=> Complete(Ack(payload[q], sequence))
    BY <1>1, AckedNumbers
  <1>4. q \in Members(payloadList) /\ ~Complete(payload[q])
    BY <1>1, <1>3 DEF HoldInv, HeldUnfinished, Held
  <1>5. Complete(A[q]) <=> AckIsFull(payload[q], sequence)
    BY <1>3, <1>4, AckNumbers
  <1> HIDE DEF A, q, sequence
  <1>6. PayloadTypeOK /\ Len(payload) \in Nat /\ Len(payloadList) \in Nat
    BY DEF TypeInv, TypeOK, PayloadTypeOK
  <1>7. resendList' = resendList
    BY <1>1 DEF HoldInv, OneOwner, Without
  <1>8. \A t \in Servers : pending'[t] = IF t = s /\ Complete(A[q]) THEN pending[s] \ {q} ELSE pending[t]
    BY <1>1, <1>5, <1>6 DEF PayloadTypeOK
  <1>9. \A p : Held(p)' <=> Held(p) /\ (p = q => ~Complete(A[q]))
    BY <1>1, <1>7, <1>8 DEF Held, HoldInv, OneOwner
  <1>10. OneOwner'
    BY <1>1, <1>7, <1>8 DEF HoldInv, OneOwner, Present
  <1>11. /\ Len(payload') = Len(payload)
         /\ \A p \in 1 .. Len(payload) : Complete(payload'[p]) <=> Complete(A[p])
         /\ \A p \in Members(payloadList') : p \in Members(payloadList)
         /\ \A p \in Members(payloadList) : ~Complete(A[p]) => p \in Members(payloadList')
    <2>1. CASE KeepOutOfOrder(q, A)
      BY <1>2, <2>1 DEF KeepOutOfOrder
    <2>2. CASE RegisterPrefix(A, k)
      <3> DEFINE m == RolledUp(A, k)
                 Rolled(p) == \E i \in 1 .. m : payloadList[i] = p
      <3>1. /\ payload' = [p \in 1 .. Len(payload) |-> IF Rolled(p) THEN Rollup(A[p]) ELSE A[p]]
            /\ payloadList' = SubSeq(payloadList, k + 1, Len(payloadList))
            /\ \A i \in 1 .. k : Complete(A[payloadList[i]])
        BY <2>2 DEF RegisterPrefix, CompletedPrefix
      <3> HIDE DEF m
      <3>2. Len(payload') = Len(payload) /\ \A p \in 1 .. Len(payload) : Complete(payload'[p]) <=> Complete(A[p])
        <4>1. \A p \in 1 .. Len(payload) : Complete(Rollup(A[p])) <=> Complete(A[p])
          BY <1>2, RollupComplete
        <4> HIDE DEF Rolled
        <4> QED  BY <1>6, <3>1, <4>1
      <3>3. /\ Len(payloadList') = Len(payloadList) - k
            /\ \A i \in 1 .. Len(payloadList) - k : k + i \in 1 .. Len(payloadList) /\ payloadList'[i] = payloadList[k + i]
        BY <1>6, <3>1 DEF PayloadTypeOK
      <3>4. ASSUME NEW p \in Members(payloadList'), TRUE PROVE p \in Members(payloadList)
        BY <3>3 DEF Members
      <3>5. ASSUME NEW p \in Members(payloadList), ~Complete(A[p]) PROVE p \in Members(payloadList')
        <4>1. PICK i \in 1 .. Len(payloadList) : p = payloadList[i]
          BY DEF Members
        <4>2. ~(i \in 1 .. k)
          BY <3>1, <3>5, <4>1
        <4>3. i - k \in 1 .. Len(payloadList) - k /\ k + (i - k) = i
          BY <1>6, <4>2
        <4>4. payloadList'[i - k] = p
          BY <3>3, <4>1, <4>3
        <4> QED  BY <3>3, <4>3, <4>4 DEF Members
      <3> QED  BY <3>2, <3>4, <3>5
    <2> QED  BY <1>1, <2>1, <2>2
  <1>12. Members(payloadList) \subseteq 1 .. Len(payload)
    BY <1>6 DEF PayloadTypeOK, Members
  <1>13. HeldUnfinished'
    BY <1>2, <1>9, <1>11 DEF HoldInv, HeldUnfinished
  <1>14. UnfinishedHeld'
    <2>1. ASSUME NEW p \in Members(payloadList'), Complete(payload[p]) \/ Held(p)
          PROVE  Complete(payload'[p]) \/ Held(p)'
      <3>1. p \in 1 .. Len(payload)
        BY <1>11, <1>12
      <3>2. CASE p = q
        <4>1. Held(p)
          BY <1>1, <3>2 DEF Held
        <4> QED  BY <1>9, <1>11, <3>1, <3>2, <4>1
      <3>3. CASE p # q
        BY <1>2, <1>9, <1>11, <2>1, <3>1, <3>3
      <3> QED  BY <3>2, <3>3
    <2> QED  BY <1>1, <1>11, <2>1 DEF HoldInv, UnfinishedHeld
  <1> QED  BY <1>10, <1>13, <1>14 DEF HoldInv

\* Payloads are queued on endpoints of the ready list.
LEMMA ReadyPresent ==
    ASSUME TypeInv, ReadyAreActive, NEW s \in BestEndpoints
    PROVE  s \in Servers /\ status[s] = "active" /\ Present(s)
  BY DEF BestEndpoints, ReadyAreActive, Present

LEMMA SpoolStepHold ==
    ASSUME TypeInv, EndpointInv, HoldInv, SpoolStep
    PROVE  HoldInv'
  <1>1. ASSUME NEW n \in SpoolSizes, HoldSpool(n)  PROVE HoldInv'
    BY <1>1, HoldUnchanged DEF HoldSpool, endpointVars, Present
  <1>2. ASSUME NEW n \in SpoolSizes, NEW s \in Servers, SendSpool(s, n)  PROVE HoldInv'
    <2>1. Present(s) /\ n \in Nat \ {0} /\ SendEvents(s, n)
      BY <1>2, ReadyPresent, PublisherAssumption DEF SendSpool, EndpointInv
    <2> QED  BY <2>1, SendEventsHold DEF SendEvents, SendPayload
  <1> QED  BY <1>1, <1>2 DEF SpoolStep

LEMMA QueueStepHold ==
    ASSUME TypeInv, EndpointInv, HoldInv, QueueStep
    PROVE  HoldInv'
  <1>1. ASSUME NEW s \in Servers, QueueResend(s)  PROVE HoldInv'
    BY <1>1, ReadyPresent, QueueResendHold DEF QueueResend, EndpointInv
  <1>2. ASSUME NEW s \in Servers, QueueNextSpool(s)  PROVE HoldInv'
    <2>1. nextSpool \in Nat \ {0}
      BY <1>2, PublisherAssumption
      DEF TypeInv, TypeOK, ControlTypeOK, QueueNextSpool, MayQueueNextSpool, MayQueueHeld
    <2>2. Present(s) /\ SendEvents(s, nextSpool)
      BY <1>2, ReadyPresent DEF QueueNextSpool, EndpointInv
    <2> QED  BY <2>1, <2>2, SendEventsHold DEF SendEvents, SendPayload
  <1>3. CASE QueueNothing
    BY <1>3, HoldUnchanged DEF QueueNothing, Present
  <1> QED  BY <1>1, <1>2, <1>3 DEF QueueStep

LEMMA StatusStepHold ==
    ASSUME TypeInv, EndpointInv, HoldInv, NEW s \in Servers, StatusStep(s)
    PROVE  HoldInv'
  <1>0. status \in [Servers -> Statuses] /\ pending \in [Servers -> SUBSET (1 .. Len(payload))]
    BY DEF TypeInv, TypeOK, EndpointTypeOK, PayloadTypeOK
  <1>1. CASE StartedIdle(s)
    BY <1>0, <1>1, HoldUnchanged DEF StartedIdle, MarkActive, Present
  <1>2. CASE StartedFailed(s)
    BY <1>0, <1>2, HoldUnchanged DEF StartedFailed, Present, controlVars
  <1>3. ASSUME NEW order, Failed(s, order)  PROVE HoldInv'
    BY <1>0, <1>3, PullBackHold DEF Failed, Present
  <1>4. ASSUME NEW order, Finished(s, order)  PROVE HoldInv'
    BY <1>0, <1>4, PullBackHold DEF Finished, FreshEndpoint, Present
  <1>5. CASE FinishedClosing(s)
    <2>1. /\ UNCHANGED payloadVars /\ shuttingDown'
          /\ \A t \in Servers : pending'[t] = IF t = s THEN {} ELSE pending[t]
          /\ \A t \in Servers : t # s => (Present(t)' <=> Present(t))
      BY <1>0, <1>5 DEF FinishedClosing, FreshEndpoint, Present
    <2>2. \A p : Held(p)' => Held(p)
      BY <2>1 DEF Held, payloadVars
    <2>3. OneOwner'
      BY <2>1 DEF HoldInv, OneOwner, payloadVars
    <2>4. HeldUnfinished' /\ UnfinishedHeld'
      BY <2>1, <2>2 DEF HoldInv, HeldUnfinished, UnfinishedHeld, payloadVars
    <2> QED  BY <2>3, <2>4 DEF HoldInv
  <1> QED  BY <1>1, <1>2, <1>3, <1>4, <1>5 DEF StatusStep

LEMMA TimeoutStepHold ==
    ASSUME TypeInv, EndpointInv, HoldInv, NEW s \in Servers, TimeoutStep(s)
    PROVE  HoldInv'
  <1>0. status \in [Servers -> Statuses] /\ pending \in [Servers -> SUBSET (1 .. Len(payload))]
    BY DEF TypeInv, TypeOK, EndpointTypeOK, PayloadTypeOK
  <1>1. CASE TimeoutPending(s) \/ TimeoutKeepalive(s)
    BY <1>0, <1>1, HoldUnchanged DEF TimeoutPending, TimeoutKeepalive, Present, controlVars
  <1>2. CASE TimeoutBackoff(s)
    BY <1>0, <1>2, HoldUnchanged DEF TimeoutBackoff, MarkActive, Present
  <1>3. CASE ConnectRandom(s)
    <2>1. pending[s] = {} /\ pending' = [pending EXCEPT ![s] = {}]
      BY <1>3 DEF ConnectRandom, FreshEndpoint, EndpointInv, OneConnected, HoldInv, OneOwner
    <2>2. pending' = pending
      BY <1>0, <2>1
    <2> QED  BY <1>0, <1>3, <2>2, HoldUnchanged DEF ConnectRandom, Present, controlVars
  <1> QED  BY <1>1, <1>2, <1>3 DEF TimeoutStep

\* A process that starts has no payloads.
LEMMA FreshHold ==
    ASSUME payload = <<>>, payloadList = <<>>, resendList = <<>>, pending = [s \in Servers |-> {}]
    PROVE  HoldInv
  BY DEF HoldInv, OneOwner, HeldUnfinished, UnfinishedHeld, NoneTwice, Members

LEMMA NextHold == TypeInv /\ EndpointInv /\ HoldInv /\ [Next]_vars => HoldInv'
  <1> SUFFICES ASSUME TypeInv, EndpointInv, HoldInv, [Next]_vars PROVE HoldInv'
    OBVIOUS
  <1>1. CASE UNCHANGED publisherVars
    BY <1>1, HoldUnchanged DEF publisherVars, controlVars, endpointVars, Present
  <1>2. ASSUME NEW s \in Servers, AnswerStep(s)  PROVE HoldInv'
    <2>1. ASSUME NEW k \in 0 .. Len(payloadList), Acked(s, k)  PROVE HoldInv'
      BY <2>1, AckedHold
    <2>2. CASE Pong(s)
      BY <2>2, HoldUnchanged DEF Pong, controlVars, Present
    <2>3. CASE Ignored(s)
      BY <1>1, <2>3 DEF Ignored
    <2> QED  BY <1>2, <2>1, <2>2, <2>3 DEF AnswerStep
  <1>3. CASE \E written \in BOOLEAN : RegistrarRun(written)
    BY <1>3, HoldUnchanged DEF RegistrarRun, controlVars, endpointVars, Present
  <1>4. CASE Shutdown
    BY <1>4, HoldUnchanged DEF Shutdown, Present
  <1>5. CASE Crash
    <2>1. /\ payload' = <<>> /\ payloadList' = <<>> /\ resendList' = <<>>
          /\ pending' = [s \in Servers |-> {}]
      BY <1>5 DEF Crash
    <2> QED  BY <2>1 DEF HoldInv, OneOwner, HeldUnfinished, UnfinishedHeld, NoneTwice, Members
  <1>6. CASE UNCHANGED vars
    BY <1>1, <1>6 DEF vars
  <1> QED  BY <1>1, <1>2, <1>3, <1>4, <1>5, <1>6, SpoolStepHold, QueueStepHold, StatusStepHold,
              TimeoutStepHold DEF Next

\* Until it is complete a payload is on exactly one endpoint or on the resend
\* list, and afterwards nowhere: nothing is sent by two endpoints at once, lost
\* between pullBackPending and tryQueueHeld, or acknowledged after OnAck has
\* dropped it (publisher.go:259-387, 416-485), under both methods.
THEOREM PayloadsKept == Spec => []PayloadsConserved
  <1>1. Init => EndpointInv /\ HoldInv
    BY FreshEndpoints, FreshHold DEF Init
  <1>2. TypeInv /\ HoldInv => PayloadsConserved
    BY HeldOnce
  <1> QED  BY InitType, NextType, NextEndpoint, NextHold, <1>1, <1>2, PTL DEF Spec

-----------------------------------------------------------------------------
(* The network timeout, method random.  An endpoint becomes active with    *)
(* payloads pending only when it connects a second time, which transports  *)
(* of this method never do: they finish, and the endpoint with them.       *)

\* A transport that has not connected, or whose Started is still on its way,
\* belongs to an endpoint that was never active.
StartedOnce ==
    /\ \A s \in Servers : link[s] = "down" => status[s] \in {"idle", "closing"}
    /\ \A i \in 1 .. Len(eventChan) : eventChan[i].type = "started" =>
         /\ link[eventChan[i].ep] # "down"
         /\ status[eventChan[i].ep] \in {"idle", "closing"}
         /\ \A j \in 1 .. Len(eventChan) :
              eventChan[j].type = "started" /\ eventChan[j].ep = eventChan[i].ep => j = i

\* OnStarted starts the keepalive of an endpoint without payloads.
NothingPending ==
    /\ \A s \in Servers : status[s] \in {"idle", "absent"} => pending[s] = {}
    /\ \A s \in Servers : timeout[s] # "backoff"
    /\ \A s \in starting : pending[s] = {}
    /\ pc # "queueHeld" => starting = {}

WatchInv == StartedOnce /\ NothingPending /\ PendingWatched

LEMMA TakeStartedOnce ==
    ASSUME TypeInv, StartedOnce, NEW type, NEW s \in Servers, Take(type, s),
           \A t \in Servers : link'[t] = "down" => status'[t] \in {"idle", "closing"},
           \A i \in 1 .. Len(eventChan') : eventChan'[i].type = "started" =>
             /\ link'[eventChan'[i].ep] = link[eventChan'[i].ep]
             /\ status'[eventChan'[i].ep] = status[eventChan'[i].ep]
    PROVE  StartedOnce'
  <1> DEFINE N == Len(eventChan)
  <1>1. /\ N \in Nat \ {0} /\ Len(eventChan') = N - 1
        /\ \A i \in 1 .. N - 1 : i + 1 \in 1 .. N /\ eventChan'[i] = eventChan[i + 1]
    BY EventsTaken
  <1>2. ASSUME NEW i \in 1 .. N - 1, eventChan'[i].type = "started"
        PROVE  /\ link'[eventChan'[i].ep] # "down"
               /\ status'[eventChan'[i].ep] \in {"idle", "closing"}
               /\ \A j \in 1 .. N - 1 :
                    eventChan'[j].type = "started" /\ eventChan'[j].ep = eventChan'[i].ep => j = i
    <2>1. /\ link'[eventChan'[i].ep] # "down"
          /\ status'[eventChan'[i].ep] \in {"idle", "closing"}
      BY <1>1, <1>2 DEF StartedOnce
    <2>2. ASSUME NEW j \in 1 .. N - 1, eventChan'[j].type = "started", eventChan'[j].ep = eventChan'[i].ep
          PROVE  j = i
      <3>1. j + 1 = i + 1
        BY <1>1, <1>2, <2>2 DEF StartedOnce
      <3> QED  BY <3>1
    <2> QED  BY <2>1, <2>2
  <1> QED  BY <1>1, <1>2 DEF StartedOnce

LEMMA SendStartedOnce ==
    ASSUME TypeInv, StartedOnce, NEW s \in Servers, NEW e \in Events, SendEvent(e), e.ep = s,
           e.type = "started" => link[s] = "down", link'[s] # "down",
           \A t \in Servers : t # s => link'[t] = link[t],
           UNCHANGED status
    PROVE  StartedOnce'
  <1> DEFINE N == Len(eventChan)
  <1>1. /\ N \in Nat /\ Len(eventChan') = N + 1 /\ eventChan'[N + 1] = e
        /\ \A i \in 1 .. N : eventChan'[i] = eventChan[i]
    BY EventsSent
  <1>2. \A i \in 1 .. N : eventChan[i].ep \in Servers
    BY DEF TypeInv, TypeOK, TransportTypeOK, StatusEvent, AckedEvent
  <1>3. \A i \in 1 .. N + 1 : i \in 1 .. N \/ i = N + 1
    BY <1>1
  <1>4. ASSUME NEW i \in 1 .. N + 1, eventChan'[i].type = "started"
        PROVE  /\ link'[eventChan'[i].ep] # "down"
               /\ status'[eventChan'[i].ep] \in {"idle", "closing"}
               /\ \A j \in 1 .. N + 1 :
                    eventChan'[j].type = "started" /\ eventChan'[j].ep = eventChan'[i].ep => j = i
    <2>1. CASE i = N + 1
      BY <1>1, <1>2, <1>3, <1>4, <2>1 DEF StartedOnce
    <2>2. CASE i \in 1 .. N
      BY <1>1, <1>2, <1>3, <1>4, <2>2 DEF StartedOnce
    <2> QED  BY <1>3, <2>1, <2>2
  <1>5. \A t \in Servers : link'[t] = "down" => status'[t] \in {"idle", "closing"}
    BY DEF StartedOnce
  <1> QED  BY <1>1, <1>4, <1>5 DEF StartedOnce

LEMMA TransportStartedOnce ==
    ASSUME Method = "random", TypeInv, StartedOnce, NEW s \in Servers, TransportStep(s),
           UNCHANGED publisherVars
    PROVE  StartedOnce'
  <1>0. link \in [Servers -> Links] /\ UNCHANGED status
    BY DEF TypeInv, TypeOK, TransportTypeOK, publisherVars, endpointVars
  <1>1. \A type \in {"started", "failed", "finished", "pong"} :
          Status(type, s) \in Events /\ Status(type, s).ep = s /\ Status(type, s).type = type
    BY DEF Status, StatusEvent, Events
  <1>2. CASE Connect(s)
    BY <1>0, <1>1, <1>2, SendStartedOnce DEF Connect
  <1>3. CASE ConnectionError(s) \/ ForcedFailure(s)
    BY <1>0, <1>1, <1>3, SendStartedOnce DEF ConnectionError, ForcedFailure, Disconnect, FinishOnFail
  <1>4. CASE StopTransport(s)
    BY <1>0, <1>1, <1>4, SendStartedOnce DEF StopTransport
  <1>5. ASSUME NEW m \in wire[s], NEW k \in 0 .. m.size, ServerAck(s, m, k)  PROVE StartedOnce'
    <2> DEFINE e == [type |-> "ack", ep |-> s, nonce |-> m.nonce, sequence |-> k]
    <2>1. m.nonce \in Nat /\ k \in Nat
      BY DEF TypeInv, TypeOK, TransportTypeOK, Message
    <2>2. e \in Events /\ e.ep = s /\ e.type = "ack"
      BY <2>1 DEF AckedEvent, Events
    <2>3. SendEvent(e) /\ link[s] = "up" /\ UNCHANGED link
      BY <1>5 DEF ServerAck
    <2> HIDE DEF e
    <2> QED  BY <1>0, <2>2, <2>3, SendStartedOnce
  <1>6. CASE ServerPong(s)
    BY <1>0, <1>1, <1>6, SendStartedOnce DEF ServerPong
  <1> QED  BY <1>2, <1>3, <1>4, <1>5, <1>6 DEF TransportStep

\* sendPayload starts the timeout with the first payload.
LEMMA SendPayloadWatch ==
    ASSUME TypeInv, EndpointInv, WatchInv, NEW s \in BestEndpoints, NEW p, NEW pp, SendPayload(s, p, pp),
           starting' = {}
    PROVE  WatchInv'
  <1>0. /\ pending \in [Servers -> SUBSET (1 .. Len(payload))] /\ timeout \in [Servers -> Timeouts]
        /\ s \in Servers /\ status[s] = "active"
    BY ReadyPresent DEF TypeInv, TypeOK, PayloadTypeOK, EndpointTypeOK, EndpointInv
  <1>1. /\ UNCHANGED <<status, link, eventChan>>
        /\ \A t \in Servers : t # s => pending'[t] = pending[t] /\ timeout'[t] = timeout[t]
        /\ timeout'[s] = IF pending[s] = {} THEN "pending" ELSE timeout[s]
    BY <1>0 DEF SendPayload
  <1>2. timeout'[s] = "pending"
    BY <1>0, <1>1 DEF WatchInv, PendingWatched
  <1>3. StartedOnce'
    BY <1>1 DEF WatchInv, StartedOnce
  <1>4. NothingPending'
    BY <1>0, <1>1, <1>2 DEF WatchInv, NothingPending
  <1>5. PendingWatched'
    BY <1>1, <1>2 DEF WatchInv, PendingWatched
  <1> QED  BY <1>3, <1>4, <1>5 DEF WatchInv

LEMMA StatusStepWatch ==
    ASSUME Method = "random", TypeInv, EndpointInv, WatchInv, NEW s \in Servers, StatusStep(s)
    PROVE  WatchInv'
  <1>0. /\ status \in [Servers -> Statuses] /\ link \in [Servers -> Links]
        /\ pending \in [Servers -> SUBSET (1 .. Len(payload))] /\ timeout \in [Servers -> Timeouts]
    BY DEF TypeInv, TypeOK, EndpointTypeOK, TransportTypeOK, PayloadTypeOK
  <1>e. \A type : Take(type, s) =>
          /\ Len(eventChan) \in Nat \ {0} /\ 1 \in 1 .. Len(eventChan)
          /\ eventChan[1].type = type /\ eventChan[1].ep = s
          /\ \A i \in 1 .. Len(eventChan') : i + 1 \in 1 .. Len(eventChan) /\ eventChan'[i] = eventChan[i + 1]
    BY EventsTaken
  <1>g. \A i \in 1 .. Len(eventChan) : i + 1 # 1
    BY DEF TypeInv, TypeOK, TransportTypeOK
  <1>1. CASE StartedIdle(s)
    <2>1. /\ Take("started", s) /\ status[s] = "idle" /\ pending[s] = {}
          /\ UNCHANGED <<link, pending, timeout>>
          /\ \A t \in Servers : status'[t] = IF t = s THEN "active" ELSE status[t]
          /\ pc' = "queueHeld" /\ starting' = {s}
      BY <1>0, <1>1 DEF StartedIdle, MarkActive, WatchInv, NothingPending
    <2>2. link[s] # "down"
      BY <1>e, <2>1 DEF WatchInv, StartedOnce
    <2>3. ASSUME NEW i \in 1 .. Len(eventChan'), eventChan'[i].type = "started"
          PROVE  eventChan'[i].ep # s /\ eventChan'[i].ep \in Servers
      <3>1. i + 1 \in 1 .. Len(eventChan) /\ eventChan'[i] = eventChan[i + 1] /\ i + 1 # 1
        BY <1>e, <2>1
      <3>2. eventChan[i + 1].ep # s
        BY <1>e, <2>1, <2>3, <3>1 DEF WatchInv, StartedOnce
      <3>3. eventChan[i + 1].ep \in Servers
        BY <3>1 DEF TypeInv, TypeOK, TransportTypeOK, StatusEvent, AckedEvent
      <3> QED  BY <3>1, <3>2, <3>3
    <2>4. StartedOnce'
      BY <2>1, <2>2, <2>3, TakeStartedOnce DEF WatchInv, StartedOnce
    <2> QED  BY <2>1, <2>4 DEF WatchInv, NothingPending, PendingWatched
  <1>2. CASE StartedFailed(s)
    BY <1>e, <1>2 DEF StartedFailed, WatchInv, StartedOnce
  <1>3. ASSUME NEW order, Failed(s, order)  PROVE WatchInv'
    <2>1. /\ Take("failed", s) /\ status[s] = "active" /\ UNCHANGED link
          /\ \A t \in Servers : /\ status'[t] = IF t = s THEN "failed" ELSE status[t]
                                /\ pending'[t] = IF t = s THEN {} ELSE pending[t]
                                /\ timeout'[t] = IF t = s THEN "none" ELSE timeout[t]
          /\ starting' = {}
      BY <1>0, <1>3 DEF Failed, SetTimeout, PullBackPending
    <2>2. ASSUME NEW i \in 1 .. Len(eventChan'), eventChan'[i].type = "started"
          PROVE  eventChan'[i].ep # s /\ eventChan'[i].ep \in Servers
      <3>1. i + 1 \in 1 .. Len(eventChan) /\ eventChan'[i] = eventChan[i + 1]
        BY <1>e, <2>1
      <3> QED  BY <2>1, <2>2, <3>1
               DEF WatchInv, StartedOnce, TypeInv, TypeOK, TransportTypeOK, StatusEvent, AckedEvent
    <2>3. StartedOnce'
      BY <2>1, <2>2, TakeStartedOnce DEF WatchInv, StartedOnce
    <2> QED  BY <2>1, <2>3 DEF WatchInv, NothingPending, PendingWatched
  <1>4. ASSUME Take("finished", s), starting' = {},
               \A t \in Servers : /\ status'[t] = IF t = s THEN "absent" ELSE status[t]
                                  /\ link'[t] = IF t = s THEN "none" ELSE link[t]
                                  /\ pending'[t] = IF t = s THEN {} ELSE pending[t]
                                  /\ timeout'[t] = IF t = s THEN "none" ELSE timeout[t]
        PROVE  WatchInv'
    <2>1. ASSUME NEW i \in 1 .. Len(eventChan')
          PROVE  eventChan'[i].ep # s /\ eventChan'[i].ep \in Servers
      <3>1. i + 1 \in 1 .. Len(eventChan) /\ eventChan'[i] = eventChan[i + 1] /\ ~(i + 1 <= 1)
        BY <1>e, <1>4
      <3>2. eventChan[i + 1].ep \in Servers
        BY <3>1 DEF TypeInv, TypeOK, TransportTypeOK, StatusEvent, AckedEvent
      <3>3. 1 \in 1 .. Len(eventChan) /\ eventChan[1].type = "finished" /\ eventChan[1].ep = s
        BY <1>e, <1>4
      <3>4. eventChan[i + 1].ep # s
        BY <3>1, <3>3 DEF EndpointInv, FinishedLast
      <3> QED  BY <3>1, <3>2, <3>4
    <2>2. StartedOnce'
      BY <1>4, <2>1, TakeStartedOnce DEF WatchInv, StartedOnce
    <2> QED  BY <1>4, <2>2 DEF WatchInv, NothingPending, PendingWatched
  <1>5. ASSUME NEW order, Finished(s, order)  PROVE WatchInv'
    BY <1>0, <1>4, <1>5 DEF Finished, FreshEndpoint, SetTimeout, PullBackPending
  <1>6. CASE FinishedClosing(s)
    <2>1. starting' = {}
      BY <1>6 DEF FinishedClosing, Take, WatchInv, NothingPending
    <2> QED  BY <1>0, <1>4, <1>6, <2>1 DEF FinishedClosing, FreshEndpoint, SetTimeout
  <1> QED  BY <1>1, <1>2, <1>3, <1>5, <1>6 DEF StatusStep

LEMMA AnswerStepWatch ==
    ASSUME TypeInv, WatchInv, NEW s \in Servers, AnswerStep(s)
    PROVE  WatchInv'
  <1>0. /\ pending \in [Servers -> SUBSET (1 .. Len(payload))] /\ timeout \in [Servers -> Timeouts]
    BY DEF TypeInv, TypeOK, EndpointTypeOK, PayloadTypeOK
  <1>1. UNCHANGED <<status, link>> /\ \E type \in {"started", "failed", "ack", "pong"} : Take(type, s)
    BY DEF AnswerStep, Acked, Pong, Ignored, publisherVars, endpointVars
  <1>2. StartedOnce'
    BY <1>1, TakeStartedOnce DEF WatchInv, StartedOnce
  <1>3. ASSUME NEW k, Acked(s, k)  PROVE NothingPending' /\ PendingWatched'
    <2>1. PICK left \in SUBSET pending[s] :
            /\ pending' = [pending EXCEPT ![s] = left]
            /\ timeout' = [timeout EXCEPT ![s] = IF left = {} THEN "keepalive" ELSE "pending"]
      BY <1>3 DEF Acked, SetTimeout
    <2>2. starting' = {}
      BY <1>3 DEF Acked
    <2>3. \A t \in Servers : /\ pending'[t] \subseteq pending[t]
                             /\ t # s => pending'[t] = pending[t] /\ timeout'[t] = timeout[t]
      BY <1>0, <2>1
    <2>4. timeout'[s] = (IF pending'[s] = {} THEN "keepalive" ELSE "pending")
      BY <1>0, <2>1
    <2> QED  BY <1>1, <2>2, <2>3, <2>4 DEF WatchInv, NothingPending, PendingWatched
  <1>4. ASSUME Pong(s)  PROVE NothingPending' /\ PendingWatched'
    <2>1. /\ UNCHANGED <<pc, starting, pending>>
          /\ \A t \in Servers : timeout'[t] = IF t = s /\ pending[s] = {} THEN "keepalive" ELSE timeout[t]
      BY <1>0, <1>4 DEF Pong, controlVars
    <2> QED  BY <1>1, <2>1 DEF WatchInv, NothingPending, PendingWatched
  <1>5. ASSUME Ignored(s)  PROVE NothingPending' /\ PendingWatched'
    <2>1. UNCHANGED <<pc, starting, status, pending, timeout>>
      BY <1>5 DEF Ignored, publisherVars, controlVars, endpointVars
    <2> QED  BY <2>1 DEF WatchInv, NothingPending, PendingWatched
  <1> QED  BY <1>2, <1>3, <1>4, <1>5 DEF AnswerStep, WatchInv

LEMMA TimeoutStepWatch ==
    ASSUME TypeInv, EndpointInv, WatchInv, NEW s \in Servers, TimeoutStep(s)
    PROVE  WatchInv'
  <1>0. /\ status \in [Servers -> Statuses] /\ link \in [Servers -> Links]
        /\ pending \in [Servers -> SUBSET (1 .. Len(payload))] /\ timeout \in [Servers -> Timeouts]
    BY DEF TypeInv, TypeOK, EndpointTypeOK, TransportTypeOK, PayloadTypeOK
  <1>c. pc = "select" => starting = {}
    BY DEF WatchInv, NothingPending
  <1>1. CASE TimeoutPending(s)
    <2>1. /\ UNCHANGED <<link, eventChan, pending, starting>> /\ starting = {}
          /\ \A t \in Servers : /\ status'[t] = IF t = s /\ status[s] = "active" THEN "failed" ELSE status[t]
                                /\ timeout'[t] = IF t = s THEN "none" ELSE timeout[t]
      BY <1>0, <1>c, <1>1 DEF TimeoutPending, SetTimeout, controlVars
    <2>2. \A i \in 1 .. Len(eventChan) : eventChan[i].ep \in Servers
      BY DEF TypeInv, TypeOK, TransportTypeOK, StatusEvent, AckedEvent
    <2>3. StartedOnce'
      BY <2>1, <2>2 DEF WatchInv, StartedOnce
    <2> QED  BY <2>1, <2>3 DEF WatchInv, NothingPending, PendingWatched
  <1>2. CASE TimeoutKeepalive(s)
    <2>1. /\ UNCHANGED <<link, eventChan, pending, starting, status>> /\ starting = {}
          /\ \A t \in Servers : timeout'[t] = IF t = s THEN "pending" ELSE timeout[t]
      BY <1>0, <1>c, <1>2 DEF TimeoutKeepalive, SetTimeout, controlVars
    <2> QED  BY <2>1 DEF WatchInv, StartedOnce, NothingPending, PendingWatched
  <1>3. CASE TimeoutBackoff(s)
    BY <1>3 DEF TimeoutBackoff, WatchInv, NothingPending
  <1>4. CASE ConnectRandom(s)
    <2>1. /\ methodTimer /\ UNCHANGED <<eventChan, starting, timeout>> /\ starting = {}
          /\ \A t \in Servers : /\ status'[t] = IF t = s THEN "idle" ELSE status[t]
                                /\ link'[t] = IF t = s THEN "down" ELSE link[t]
                                /\ pending'[t] = IF t = s THEN {} ELSE pending[t]
      BY <1>0, <1>c, <1>4 DEF ConnectRandom, FreshEndpoint, controlVars
    <2>2. \A i \in 1 .. Len(eventChan) : eventChan[i].ep \in Servers
      BY DEF TypeInv, TypeOK, TransportTypeOK, StatusEvent, AckedEvent
    <2>3. link[s] = "none" /\ \A i \in 1 .. Len(eventChan) : eventChan[i].ep # s
      BY <2>1 DEF EndpointInv, OneConnected, FinishedLast
    <2>4. StartedOnce'
      BY <2>1, <2>2, <2>3 DEF WatchInv, StartedOnce
    <2> QED  BY <2>1, <2>4 DEF WatchInv, NothingPending, PendingWatched
  <1> QED  BY <1>1, <1>2, <1>3, <1>4 DEF TimeoutStep

LEMMA NextWatch == Method = "random" /\ TypeInv /\ EndpointInv /\ WatchInv /\ [Next]_vars => WatchInv'
  <1> SUFFICES ASSUME Method = "random", TypeInv, EndpointInv, WatchInv, [Next]_vars PROVE WatchInv'
    OBVIOUS
  <1>0. timeout \in [Servers -> Timeouts] /\ starting \subseteq Servers
    BY DEF TypeInv, TypeOK, EndpointTypeOK, ControlTypeOK
  <1>u. ASSUME UNCHANGED <<pc, starting, status, pending, timeout>>
        PROVE  /\ NothingPending' /\ PendingWatched'
               /\ UNCHANGED <<link, eventChan>> => WatchInv'
    BY <1>u DEF WatchInv, StartedOnce, NothingPending, PendingWatched
  <1>1. ASSUME NEW s \in Servers, TransportStep(s), UNCHANGED publisherVars  PROVE WatchInv'
    BY <1>1, <1>u, TransportStartedOnce DEF publisherVars, controlVars, endpointVars, WatchInv
  <1>2. CASE SpoolStep
    <2>1. ASSUME NEW n, HoldSpool(n)  PROVE WatchInv'
      BY <1>u, <2>1 DEF HoldSpool, endpointVars, transportVars
    <2>2. ASSUME NEW n, NEW s \in Servers, SendSpool(s, n)  PROVE WatchInv'
      BY <2>2, SendPayloadWatch DEF SendSpool, SendEvents, WatchInv, NothingPending
    <2> QED  BY <1>2, <2>1, <2>2 DEF SpoolStep
  <1>3. CASE QueueStep
    <2>1. ASSUME NEW s \in Servers, QueueResend(s) \/ QueueNextSpool(s)  PROVE WatchInv'
      BY <2>1, SendPayloadWatch DEF QueueResend, QueueNextSpool, SendEvents
    <2>2. CASE QueueNothing
      <3>1. /\ UNCHANGED <<status, pending, link, eventChan>> /\ starting' = {}
            /\ \A t \in Servers : timeout'[t] = IF t \in starting THEN "keepalive" ELSE timeout[t]
        BY <2>2 DEF QueueNothing, transportVars
      <3> QED  BY <1>0, <3>1 DEF WatchInv, StartedOnce, NothingPending, PendingWatched
    <2> QED  BY <1>3, <2>1, <2>2 DEF QueueStep
  <1>4. CASE \E written \in BOOLEAN : RegistrarRun(written)
    BY <1>4, <1>u DEF RegistrarRun, controlVars, endpointVars
  <1>5. CASE Shutdown
    <2>1. /\ UNCHANGED <<link, eventChan, pending, starting>> /\ starting = {}
          /\ \A t \in Servers : /\ status'[t] = IF status[t] = "absent" THEN "absent" ELSE "closing"
                                /\ timeout'[t] \in {"none", timeout[t]}
      BY <1>5 DEF Shutdown, WatchInv, NothingPending
    <2>2. \A i \in 1 .. Len(eventChan) : eventChan[i].ep \in Servers
      BY DEF TypeInv, TypeOK, TransportTypeOK, StatusEvent, AckedEvent
    <2>3. StartedOnce'
      BY <2>1, <2>2 DEF WatchInv, StartedOnce
    <2> QED  BY <2>1, <2>3 DEF WatchInv, NothingPending, PendingWatched
  <1>6. CASE Crash
    <2>1. PICK connected \in Connected :
            /\ status' = NewStatus(connected) /\ link' = NewLink(connected) /\ eventChan' = <<>>
            /\ pending' = [s \in Servers |-> {}] /\ timeout' = [s \in Servers |-> "none"]
            /\ starting' = {}
      BY <1>6 DEF Crash
    <2> QED  BY <2>1 DEF NewStatus, NewLink, WatchInv, StartedOnce, NothingPending, PendingWatched
  <1>7. CASE UNCHANGED vars
    BY <1>7, <1>u DEF vars, publisherVars, controlVars, endpointVars, transportVars
  <1> QED  BY <1>1, <1>2, <1>3, <1>4, <1>5, <1>6, <1>7, StatusStepWatch, AnswerStepWatch,
              TimeoutStepWatch DEF Next

\* With method random an endpoint in use never owes acknowledgements without its
\* network timeout running, however ACKs, PONGs, keepalives and reconnections
\* interleave (endpoint.go, sink_timeout.go; publisher.go, sendPayload and OnAck).
THEOREM PendingTimed ==
    ASSUME Method = "random"
    PROVE  Spec => []PendingWatched
  <1>1. Init => EndpointInv
    BY FreshEndpoints DEF Init
  <1>2. Init => WatchInv
    BY DEF Init, NewStatus, NewLink, WatchInv, StartedOnce, NothingPending, PendingWatched
  <1>3. TypeInv /\ EndpointInv /\ WatchInv /\ [Next]_vars => WatchInv'
    BY NextWatch
  <1>4. WatchInv => PendingWatched
    BY DEF WatchInv
  <1> QED  BY InitType, NextType, NextEndpoint, <1>1, <1>2, <1>3, <1>4, PTL DEF Spec

-----------------------------------------------------------------------------
(* Publisher keeps the promise of OrderedDelivery.  The offsets of the     *)
(* stream are treated first, for both methods; what servers acknowledged,  *)
(* for method random, follows.                                             *)

(* Offsets.  That the registrar moves forward is not inductive: the spools *)
(* on their way must each end after they begin and none may end after the  *)
(* oldest payload begins, which needs the order of all payloads.           *)

\* A payload begins no earlier than any that was created before it ends.
Ascending ==
    /\ \A p, q \in 1 .. Len(payload) : p < q => payload[p].hi <= payload[q].lo
    /\ \A p \in 1 .. Len(payload) : payload[p].hi <= spooled

\* What the registrar has, or has on its way, lies before the payloads left.
RegistrarBehind ==
    /\ persisted <= registered
    /\ \A j \in 0 .. Len(registrarChan) : RegistrarEnd(j) <= FirstUnregistered
    /\ \A j \in 1 .. Len(registrarChan) : registrarChan[j][1].from < RegistrarEnd(j)

OffsetsInv == Ascending /\ RegistrarBehind

LEMMA PayloadNumbers ==
    ASSUME TypeInv, NEW p \in 1 .. Len(payload)
    PROVE  /\ payload[p] \in PayloadRec /\ SequenceConsistent(payload[p])
           /\ payload[p].lo \in Nat /\ payload[p].hi \in Nat /\ payload[p].ackEvents \in Nat
           /\ payload[p].sequenceLen \in Nat /\ payload[p].lastSequence \in Nat
           /\ payload[p].lo + payload[p].ackEvents <= payload[p].hi
           /\ EventsFrom(payload[p]) = payload[p].lo + payload[p].ackEvents
  <1> DEFINE pp == payload[p]
  <1>1. pp \in PayloadRec /\ SequenceConsistent(pp)
    BY DEF TypeInv, TypeOK, PayloadTypeOK, Consistent
  <1> HIDE DEF pp
  <1>2. /\ pp.lo \in Nat /\ pp.hi \in Nat /\ pp.ackEvents \in Nat
        /\ pp.sequenceLen \in Nat /\ pp.lastSequence \in Nat
    BY <1>1 DEF PayloadRec
  <1>3. pp.lo + pp.ackEvents <= pp.hi /\ EventsFrom(pp) = pp.lo + pp.ackEvents
    BY <1>1 DEF SequenceConsistent, EventsFrom
  <1> QED  BY <1>1, <1>2, <1>3 DEF pp

LEMMA RegistrarEndType ==
    ASSUME TypeInv, NEW j \in 0 .. Len(registrarChan)
    PROVE  RegistrarEnd(j) \in Nat
  <1>0. registered \in Nat /\ registrarChan \in Seq(Seq(AckEvent) \ {<<>>})
    BY DEF TypeInv, TypeOK, RegistrarTypeOK
  <1>1. CASE j = 0
    BY <1>0, <1>1 DEF RegistrarEnd
  <1>2. CASE j # 0
    <2> DEFINE spool == registrarChan[j]
    <2>1. spool \in Seq(AckEvent) /\ spool # <<>>
      BY <1>0, <1>2
    <2> HIDE DEF spool
    <2>2. spool[Len(spool)] \in AckEvent
      BY <2>1
    <2>3. RegistrarEnd(j) = spool[Len(spool)].to
      BY <1>2 DEF RegistrarEnd, spool
    <2> QED  BY <2>2, <2>3 DEF AckEvent
  <1> QED  BY <1>1, <1>2

\* The payload at the front of the list begins before every other ends.
LEMMA FrontLowest ==
    ASSUME TypeInv, OrderInv, Ascending
    PROVE  /\ FirstUnregistered \in Nat
           /\ FirstUnregistered <= spooled
           /\ \A i \in 1 .. Len(payloadList) : FirstUnregistered <= payload[payloadList[i]].lo
  <1>0. /\ spooled \in Nat /\ Len(payload) \in Nat /\ Len(payloadList) \in Nat
        /\ payloadList # <<>> => 1 \in 1 .. Len(payloadList)
        /\ \A i \in 1 .. Len(payloadList) : payloadList[i] \in 1 .. Len(payload)
    BY DEF TypeInv, TypeOK, PayloadTypeOK
  <1>1. CASE payloadList = <<>>
    BY <1>0, <1>1 DEF FirstUnregistered
  <1>2. CASE payloadList # <<>>
    <2>1. 1 \in 1 .. Len(payloadList) /\ payloadList[1] \in 1 .. Len(payload)
      BY <1>0, <1>2
    <2> DEFINE f == payload[payloadList[1]]
    <2>2. f.lo \in Nat /\ f.hi \in Nat /\ f.lo <= f.hi
      <3>1. f.lo \in Nat /\ f.hi \in Nat /\ f.ackEvents \in Nat /\ f.lo + f.ackEvents <= f.hi
        BY <2>1, PayloadNumbers
      <3> HIDE DEF f
      <3> QED  BY <3>1
    <2>3. f.hi <= spooled
      BY <2>1 DEF Ascending
    <2>4. FirstUnregistered = f.lo
      BY <1>2 DEF FirstUnregistered
    <2>5. ASSUME NEW i \in 1 .. Len(payloadList)  PROVE f.lo <= payload[payloadList[i]].lo
      <3>1. CASE i = 1
        BY <2>2, <3>1
      <3>2. CASE i # 1
        <4>1. /\ payloadList[i] \in 1 .. Len(payload)
              /\ payloadList[i] = Len(payload) - Len(payloadList) + i
              /\ payloadList[1] = Len(payload) - Len(payloadList) + 1
          BY <1>0, <2>1 DEF OrderInv, ListOrder
        <4>2. payloadList[1] < payloadList[i]
          BY <1>0, <3>2, <4>1
        <4>3. f.hi <= payload[payloadList[i]].lo /\ payload[payloadList[i]].lo \in Nat
          BY <2>1, <4>1, <4>2, PayloadNumbers DEF Ascending
        <4> HIDE DEF f
        <4> QED  BY <2>2, <4>3
      <3> QED  BY <3>1, <3>2
    <2> HIDE DEF f
    <2> QED  BY <1>0, <2>2, <2>3, <2>4, <2>5
  <1> QED  BY <1>1, <1>2

\* Payloads may be rolled up: they begin later, and end where they did.
LEMMA AscendingFrame ==
    ASSUME TypeInv, TypeInv', Ascending, Len(payload') = Len(payload), UNCHANGED spooled,
           \A p \in 1 .. Len(payload) : payload'[p].hi = payload[p].hi /\ payload[p].lo <= payload'[p].lo
    PROVE  Ascending'
  <1>1. ASSUME NEW p \in 1 .. Len(payload), NEW q \in 1 .. Len(payload), p < q
        PROVE  payload'[p].hi <= payload'[q].lo
    <2>1. payload[p].hi <= payload[q].lo
      BY <1>1 DEF Ascending
    <2>2. payload[p].hi \in Nat /\ payload[q].lo \in Nat
      BY PayloadNumbers
    <2>3. payload'[q].lo \in Nat
      <3>1. payload'[q] \in PayloadRec
        BY DEF TypeInv, TypeOK, PayloadTypeOK
      <3> QED  BY <3>1 DEF PayloadRec
    <2> QED  BY <2>1, <2>2, <2>3
  <1> QED  BY <1>1 DEF Ascending

\* Steps that change no offset.
LEMMA OffsetsFrame ==
    ASSUME TypeInv, TypeInv', OffsetsInv, Len(payload') = Len(payload),
           \A p \in 1 .. Len(payload) : payload'[p].lo = payload[p].lo /\ payload'[p].hi = payload[p].hi,
           UNCHANGED <<spooled, payloadList, registrarChan, registered, persisted>>
    PROVE  OffsetsInv'
  <1>1. \A i \in 1 .. Len(payloadList) : payloadList[i] \in 1 .. Len(payload)
    BY DEF TypeInv, TypeOK, PayloadTypeOK
  <1>2. \A p \in 1 .. Len(payload) : payload[p].lo <= payload'[p].lo
    BY PayloadNumbers
  <1>3. Ascending'
    BY <1>2, AscendingFrame DEF OffsetsInv
  <1>4. FirstUnregistered' = FirstUnregistered
    <2>1. payloadList # <<>> => 1 \in 1 .. Len(payloadList)
      BY DEF TypeInv, TypeOK, PayloadTypeOK
    <2> QED  BY <1>1, <2>1 DEF FirstUnregistered
  <1>5. RegistrarBehind'
    BY <1>4 DEF OffsetsInv, RegistrarBehind, RegistrarEnd
  <1> QED  BY <1>3, <1>5 DEF OffsetsInv

LEMMA OffsetsUnchanged ==
    ASSUME TypeInv, TypeInv', OffsetsInv, UNCHANGED <<payloadVars, registrarChan, registered, persisted>>
    PROVE  OffsetsInv'
  BY OffsetsFrame DEF payloadVars

\* sendEvents: the new payload begins where everything spooled before ends.
LEMMA SendEventsOffsets ==
    ASSUME TypeInv, TypeInv', OrderInv, OffsetsInv, NEW s \in Servers, NEW n \in Nat, SendEvents(s, n)
    PROVE  OffsetsInv'
  <1> DEFINE pp == NewPayload(spooled, n)
             N  == Len(payload)
  <1>1. PayloadTypeOK /\ N \in Nat /\ spooled \in Nat
    BY DEF TypeInv, TypeOK, PayloadTypeOK
  <1>2. /\ payload' = Append(payload, pp)
        /\ payloadList' = Append(payloadList, N + 1)
        /\ spooled' = spooled + n
        /\ UNCHANGED <<registrarChan, registered, persisted>>
    BY DEF SendEvents, SendPayload, registrarVars
  <1>3. pp.lo = spooled /\ pp.hi = spooled + n /\ pp \in PayloadRec
    BY <1>1, NewPayloadConsistent DEF NewPayload
  <1> HIDE DEF pp
  <1>4. /\ Len(payload') = N + 1 /\ payload'[N + 1] = pp
        /\ \A p \in 1 .. N : payload'[p] = payload[p]
    BY <1>1, <1>2, <1>3 DEF PayloadTypeOK
  <1>5. \A p \in 1 .. N : payload[p].hi \in Nat /\ payload[p].hi <= spooled
    BY PayloadNumbers DEF OffsetsInv, Ascending
  <1>6. \A p \in 1 .. N + 1 : p \in 1 .. N \/ p = N + 1
    BY <1>1
  <1>7. Ascending'
    <2>1. ASSUME NEW p \in 1 .. N + 1, NEW q \in 1 .. N + 1, p < q
          PROVE  payload'[p].hi <= payload'[q].lo
      <3>1. p \in 1 .. N
        BY <1>1, <2>1
      <3>2. CASE q = N + 1
        BY <1>3, <1>4, <1>5, <3>1, <3>2
      <3>3. CASE q \in 1 .. N
        BY <1>4, <2>1, <3>1, <3>3 DEF OffsetsInv, Ascending
      <3> QED  BY <1>6, <3>2, <3>3
    <2>2. ASSUME NEW p \in 1 .. N + 1  PROVE payload'[p].hi <= spooled'
      <3>1. CASE p = N + 1
        BY <1>1, <1>2, <1>3, <1>4, <3>1
      <3>2. CASE p \in 1 .. N
        BY <1>1, <1>2, <1>4, <1>5, <3>2
      <3> QED  BY <1>6, <3>1, <3>2
    <2> QED  BY <1>4, <2>1, <2>2 DEF Ascending
  <1>8. FirstUnregistered' = FirstUnregistered
    <2>1. /\ Len(payloadList) \in Nat /\ Len(payloadList') = Len(payloadList) + 1
          /\ payloadList'[Len(payloadList) + 1] = N + 1
          /\ \A i \in 1 .. Len(payloadList) : payloadList'[i] = payloadList[i] /\ payloadList[i] \in 1 .. N
      BY <1>1, <1>2 DEF PayloadTypeOK
    <2>2. payloadList' # <<>>
      BY <2>1
    <2>3. CASE payloadList = <<>>
      BY <1>3, <1>4, <2>1, <2>2, <2>3 DEF FirstUnregistered
    <2>4. CASE payloadList # <<>>
      <3>1. 1 \in 1 .. Len(payloadList)
        BY <1>1, <2>1, <2>4 DEF PayloadTypeOK
      <3> QED  BY <1>4, <2>1, <2>2, <2>4, <3>1 DEF FirstUnregistered
    <2> QED  BY <2>3, <2>4
  <1>9. RegistrarBehind'
    BY <1>2, <1>8 DEF OffsetsInv, RegistrarBehind, RegistrarEnd
  <1> QED  BY <1>7, <1>9 DEF OffsetsInv

\* OnAck moves the oldest unregistered event forward exactly when it registers.
LEMMA RegisterPrefixFront ==
    ASSUME TypeInv, TypeInv', OrderInv, OffsetsInv,
           NEW acked \in Seq(PayloadRec), Len(acked) = Len(payload),
           \A p \in 1 .. Len(payload) : /\ SequenceConsistent(acked[p])
                                        /\ acked[p].lo = payload[p].lo
                                        /\ acked[p].hi = payload[p].hi,
           NEW k \in 0 .. Len(payloadList), RegisterPrefix(acked, k), UNCHANGED spooled
    PROVE  /\ Ascending'
           /\ FirstUnregistered <= FirstUnregistered'
           /\ RolledUp(acked, k) # 0 => FirstUnregistered < FirstUnregistered'
  <1> DEFINE N == Len(payloadList)
             m == RolledUp(acked, k)
             Rolled(p) == \E i \in 1 .. m : payloadList[i] = p
             A(i) == acked[payloadList[i]]
  <1>0. /\ PayloadTypeOK /\ N \in Nat /\ Len(payload) \in Nat /\ k \in Nat /\ k <= N /\ spooled \in Nat
        /\ \A i \in 1 .. N : payloadList[i] \in 1 .. Len(payload)
    BY DEF TypeInv, TypeOK, PayloadTypeOK
  <1>1. /\ payload' = [p \in 1 .. Len(payload) |-> IF Rolled(p) THEN Rollup(acked[p]) ELSE acked[p]]
        /\ payloadList' = SubSeq(payloadList, k + 1, N)
        /\ \A i \in 1 .. k : HasAck(A(i)) /\ Complete(A(i))
        /\ m = IF k < N /\ HasAck(A(k + 1)) THEN k + 1 ELSE k
    BY DEF RegisterPrefix, CompletedPrefix, RolledUp
  <1>2. /\ Len(payloadList') = N - k
        /\ \A i \in 1 .. N - k : payloadList'[i] = payloadList[k + i]
    BY <1>0, <1>1 DEF PayloadTypeOK
  <1>3. \A i \in 1 .. N : /\ A(i).lo \in Nat /\ A(i).hi \in Nat /\ A(i).ackEvents \in Nat
                          /\ A(i).lo = payload[payloadList[i]].lo /\ A(i).hi = payload[payloadList[i]].hi
                          /\ Complete(A(i)) => A(i).lo + A(i).ackEvents = A(i).hi
    BY ListedPayloads
  <1>r. \A p \in 1 .. Len(payload) :
           /\ acked[p].lo \in Nat /\ acked[p].ackEvents \in Nat
           /\ Rollup(acked[p]).lo = acked[p].lo + acked[p].ackEvents /\ Rollup(acked[p]).hi = acked[p].hi
    <2> SUFFICES ASSUME NEW p \in 1 .. Len(payload)
                 PROVE /\ acked[p].lo \in Nat /\ acked[p].ackEvents \in Nat
                       /\ Rollup(acked[p]).lo = acked[p].lo + acked[p].ackEvents /\ Rollup(acked[p]).hi = acked[p].hi
      OBVIOUS
    <2>1. acked[p] \in PayloadRec
      OBVIOUS
    <2>2. acked[p].lo \in Nat /\ acked[p].ackEvents \in Nat
      BY <2>1 DEF PayloadRec
    <2> QED  BY <2>1, <2>2, RollupConsistent
  <1>4. \A p \in 1 .. Len(payload) :
          /\ payload'[p].hi = payload[p].hi
          /\ payload'[p].lo = IF Rolled(p) THEN acked[p].lo + acked[p].ackEvents ELSE acked[p].lo
          /\ payload[p].lo <= payload'[p].lo
    <2> HIDE DEF Rolled, m
    <2> QED  BY <1>1, <1>r
  <1>s. \A p \in 1 .. Len(payload) : payload'[p].lo \in Nat
    <2> HIDE DEF Rolled, m
    <2> QED  BY <1>r, <1>4
  <1>5. Len(payload') = Len(payload)
    <2> HIDE DEF Rolled, m
    <2> QED  BY <1>0, <1>1
  <1>6. Ascending'
    BY <1>4, <1>5, AscendingFrame DEF OffsetsInv
  <1>7. /\ FirstUnregistered \in Nat /\ FirstUnregistered <= spooled
        /\ \A i \in 1 .. N : FirstUnregistered <= payload[payloadList[i]].lo
    BY FrontLowest DEF OffsetsInv
  <1>8. FirstUnregistered' = IF k < N THEN payload'[payloadList[k + 1]].lo ELSE spooled
    <2>1. k < N => 1 \in 1 .. N - k /\ payloadList'[1] = payloadList[k + 1]
      <3>1. k < N => 1 \in 1 .. N - k
        BY <1>0
      <3> QED  BY <1>0, <1>2, <3>1
    <2>2. payloadList' = <<>> <=> k = N
      <3>1. payloadList' \in Seq(1 .. Len(payload'))
        BY DEF TypeInv, TypeOK, PayloadTypeOK
      <3>2. payloadList' = <<>> <=> Len(payloadList') = 0
        BY <3>1
      <3> QED  BY <1>0, <1>2, <3>2
    <2> QED  BY <1>0, <2>1, <2>2 DEF FirstUnregistered
  <1> HIDE DEF m, A
  <1>9. FirstUnregistered <= FirstUnregistered'
    <2>1. CASE k < N
      <3>1. k + 1 \in 1 .. N
        BY <1>0, <2>1
      <3>2. payloadList[k + 1] \in 1 .. Len(payload)
        BY <1>0, <3>1
      <3>3. /\ FirstUnregistered <= payload[payloadList[k + 1]].lo
            /\ payload[payloadList[k + 1]].lo <= payload'[payloadList[k + 1]].lo
        BY <1>4, <1>7, <3>1, <3>2
      <3>4. payload[payloadList[k + 1]].lo \in Nat /\ payload'[payloadList[k + 1]].lo \in Nat
        BY <1>s, <3>2, PayloadNumbers
      <3> QED  BY <1>7, <1>8, <2>1, <3>3, <3>4
    <2>2. CASE ~(k < N)
      BY <1>7, <1>8, <2>2
    <2> QED  BY <2>1, <2>2
  <1>10. ASSUME m # 0  PROVE FirstUnregistered < FirstUnregistered'
    <2>1. CASE k = 0
      <3>1. k < N /\ m = 1 /\ HasAck(A(1)) /\ 1 \in 1 .. N
        BY <1>0, <1>1, <1>10, <2>1
      <3>2. Rolled(payloadList[1]) /\ payloadList[1] \in 1 .. Len(payload)
        BY <1>0, <3>1
      <3>3. payload'[payloadList[1]].lo = A(1).lo + A(1).ackEvents
        BY <1>4, <3>2 DEF A
      <3>4. A(1).lo \in Nat /\ A(1).ackEvents \in Nat \ {0} /\ FirstUnregistered <= A(1).lo
        BY <1>3, <1>7, <3>1 DEF HasAck
      <3>5. FirstUnregistered' = A(1).lo + A(1).ackEvents
        BY <1>8, <2>1, <3>1, <3>3
      <3> QED  BY <1>7, <3>4, <3>5
    <2>2. CASE k # 0
      <3>1. 1 \in 1 .. k /\ 1 \in 1 .. N
        BY <1>0, <2>2
      <3>2. /\ A(1).lo \in Nat /\ A(1).ackEvents \in Nat \ {0} /\ A(1).hi = A(1).lo + A(1).ackEvents
            /\ FirstUnregistered <= A(1).lo /\ A(1).hi = payload[payloadList[1]].hi
            /\ payloadList[1] \in 1 .. Len(payload)
        BY <1>0, <1>1, <1>3, <1>7, <3>1 DEF HasAck
      <3>3. A(1).hi <= FirstUnregistered' /\ FirstUnregistered' \in Nat
        <4>1. CASE k < N
          <5>1. k + 1 \in 1 .. N
            BY <1>0, <4>1
          <5>2. payloadList[k + 1] \in 1 .. Len(payload) /\ payloadList[1] < payloadList[k + 1]
            BY <1>0, <2>2, <3>1, <5>1 DEF OrderInv, ListOrder
          <5>3. payload[payloadList[1]].hi <= payload[payloadList[k + 1]].lo
            BY <3>2, <5>2 DEF OffsetsInv, Ascending
          <5>4. /\ payload[payloadList[k + 1]].lo <= payload'[payloadList[k + 1]].lo
                /\ payload[payloadList[k + 1]].lo \in Nat /\ payload'[payloadList[k + 1]].lo \in Nat
            BY <1>4, <1>s, <5>2, PayloadNumbers
          <5> QED  BY <1>8, <3>2, <4>1, <5>3, <5>4
        <4>2. CASE ~(k < N)
          BY <1>0, <1>8, <3>2, <4>2 DEF OffsetsInv, Ascending
        <4> QED  BY <4>1, <4>2
      <3> QED  BY <1>7, <3>2, <3>3
    <2> QED  BY <2>1, <2>2
  <1> QED  BY <1>6, <1>9, <1>10 DEF m

LEMMA RegisterPrefixOffsets ==
    ASSUME TypeInv, TypeInv', OrderInv, OrderInv', OffsetsInv,
           NEW acked \in Seq(PayloadRec), Len(acked) = Len(payload),
           \A p \in 1 .. Len(payload) : /\ SequenceConsistent(acked[p])
                                        /\ acked[p].lo = payload[p].lo
                                        /\ acked[p].hi = payload[p].hi,
           NEW k \in 0 .. Len(payloadList), RegisterPrefix(acked, k),
           UNCHANGED <<spooled, registered, persisted>>
    PROVE  OffsetsInv'
  <1> DEFINE m == RolledUp(acked, k)
             C == Len(registrarChan)
             spool == [i \in 1 .. m |-> RollupEvents(acked[payloadList[i]])]
  <1>1. /\ Ascending'
        /\ FirstUnregistered <= FirstUnregistered'
        /\ m # 0 => FirstUnregistered < FirstUnregistered'
    BY RegisterPrefixFront
  <1>2. /\ m = 0 => registrarChan' = registrarChan
        /\ m # 0 => registrarChan' = Append(registrarChan, spool)
    BY DEF RegisterPrefix
  <1>3. /\ C \in Nat /\ registrarChan \in Seq(Seq(AckEvent) \ {<<>>})
        /\ registrarChan' \in Seq(Seq(AckEvent) \ {<<>>})
    BY DEF TypeInv, TypeOK, RegistrarTypeOK
  <1>4. FirstUnregistered \in Nat /\ FirstUnregistered' \in Nat
    <2>1. FirstUnregistered \in Nat
      BY FrontLowest DEF OffsetsInv
    <2>2. FirstUnregistered' \in Nat
      <3>1. CASE payloadList' = <<>>
        BY <3>1 DEF FirstUnregistered, TypeInv, TypeOK, PayloadTypeOK
      <3>2. CASE payloadList' # <<>>
        <4>1. payloadList'[1] \in 1 .. Len(payload')
          BY <3>2 DEF TypeInv, TypeOK, PayloadTypeOK
        <4>2. payload'[payloadList'[1]] \in PayloadRec
          BY <4>1 DEF TypeInv, TypeOK, PayloadTypeOK
        <4> QED  BY <3>2, <4>2 DEF FirstUnregistered, PayloadRec
      <3> QED  BY <3>1, <3>2
    <2> QED  BY <2>1, <2>2
  <1> HIDE DEF m, spool
  <1>5. CASE m = 0
    <2>1. \A j \in 0 .. C : RegistrarEnd(j)' = RegistrarEnd(j)
      BY <1>2, <1>5 DEF RegistrarEnd
    <2>2. \A j \in 0 .. C : RegistrarEnd(j) \in Nat
      BY RegistrarEndType
    <2>3. RegistrarBehind'
      BY <1>1, <1>2, <1>4, <1>5, <2>1, <2>2 DEF OffsetsInv, RegistrarBehind
    <2> QED  BY <1>1, <2>3 DEF OffsetsInv
  <1>6. CASE m # 0
    <2>1. /\ Len(registrarChan') = C + 1 /\ registrarChan'[C + 1] = spool
          /\ \A j \in 1 .. C : registrarChan'[j] = registrarChan[j]
      BY <1>2, <1>3, <1>6
    <2>2. \A j \in 0 .. C : RegistrarEnd(j)' = RegistrarEnd(j)
      BY <1>3, <2>1 DEF RegistrarEnd
    <2>3. \A j \in 0 .. C : RegistrarEnd(j) \in Nat
      BY RegistrarEndType
    <2>4. \A j \in 0 .. C + 1 : j = C + 1 => RegistrarEnd(j)' = FirstUnregistered'
      BY <2>1 DEF OrderInv, AcksInOrder, RegistrarEnd
    <2>5. registrarChan'[C + 1][1].from = FirstUnregistered
      <3>1. C + 1 \in 1 .. Len(registrarChan') /\ (C + 1) - 1 = C /\ C \in 0 .. C
        BY <1>3, <2>1
      <3>2. \A j \in 1 .. Len(registrarChan') : ContinuesFrom(registrarChan'[j], RegistrarEnd(j - 1)')
        BY DEF OrderInv, AcksInOrder
      <3>3. \A i \in 0 .. C : i = C => RegistrarEnd(i)' = FirstUnregistered
        BY <2>2 DEF OrderInv, AcksInOrder
      <3>4. \A i \in 0 .. C : i = C => ContinuesFrom(registrarChan'[C + 1], RegistrarEnd(i)')
        <4>1. \A j \in 1 .. Len(registrarChan') : j = C + 1 =>
                 \A i \in 0 .. C : i = j - 1 => ContinuesFrom(registrarChan'[j], RegistrarEnd(i)')
          BY <3>2
        <4> QED  BY <3>1, <4>1
      <3>5. ContinuesFrom(registrarChan'[C + 1], FirstUnregistered)
        BY <3>1, <3>3, <3>4
      <3> QED  BY <3>5 DEF ContinuesFrom
    <2>6. \A j \in 0 .. C + 1 : j \in 0 .. C \/ j = C + 1
      BY <1>3
    <2>7. \A j \in 0 .. C + 1 : RegistrarEnd(j)' <= FirstUnregistered'
      BY <1>1, <1>4, <2>2, <2>3, <2>4, <2>6 DEF OffsetsInv, RegistrarBehind
    <2>8. \A j \in 1 .. C + 1 : registrarChan'[j][1].from < RegistrarEnd(j)'
      <3>1. \A j \in 1 .. C : registrarChan'[j][1].from < RegistrarEnd(j)'
        BY <2>1, <2>2 DEF OffsetsInv, RegistrarBehind
      <3>2. \A j \in 1 .. C + 1 : j \in 1 .. C \/ j = C + 1
        BY <1>3
      <3> QED  BY <1>1, <1>3, <1>6, <2>4, <2>5, <3>1, <3>2
    <2>9. RegistrarBehind'
      BY <2>1, <2>7, <2>8 DEF OffsetsInv, RegistrarBehind
    <2> QED  BY <1>1, <2>9 DEF OffsetsInv
  <1> QED  BY <1>5, <1>6

\* Registrar.Run takes a spool that begins at its offset and ends after it.
LEMMA RegistrarForward ==
    ASSUME TypeInv, OrderInv, OffsetsInv, NEW written \in BOOLEAN, RegistrarRun(written)
    PROVE  /\ Len(registrarChan) \in Nat \ {0} /\ registered' = RegistrarEnd(1)
           /\ registered \in Nat /\ registered' \in Nat /\ registered < registered'
           /\ registered' <= FirstUnregistered
           /\ persisted \in Nat /\ persisted' \in {persisted, registered'}
  <1>1. /\ registrarChan \in Seq(Seq(AckEvent) \ {<<>>}) /\ registrarChan # <<>>
        /\ registered \in Nat /\ persisted \in Nat
    BY DEF TypeInv, TypeOK, RegistrarTypeOK, RegistrarRun
  <1>2. Len(registrarChan) \in Nat \ {0} /\ 1 \in 1 .. Len(registrarChan) /\ 1 \in 0 .. Len(registrarChan)
    BY <1>1
  <1>3. registered' = RegistrarEnd(1)
    BY <1>1 DEF RegistrarRun, RegistrarEnd
  <1>4. registrarChan[1][1].from = registered
    BY <1>2 DEF OrderInv, AcksInOrder, ContinuesFrom, RegistrarEnd
  <1>5. registered < RegistrarEnd(1) /\ RegistrarEnd(1) <= FirstUnregistered /\ RegistrarEnd(1) \in Nat
    BY <1>2, <1>4, RegistrarEndType DEF OffsetsInv, RegistrarBehind
  <1>6. persisted' \in {persisted, registered'}
    BY DEF RegistrarRun
  <1> QED  BY <1>1, <1>2, <1>3, <1>5, <1>6

LEMMA RegistrarRunOffsets ==
    ASSUME TypeInv, TypeInv', OrderInv, OffsetsInv, NEW written \in BOOLEAN, RegistrarRun(written)
    PROVE  OffsetsInv'
  <1> DEFINE C == Len(registrarChan)
  <1>1. /\ registrarChan' = Tail(registrarChan) /\ UNCHANGED payloadVars
        /\ registrarChan \in Seq(Seq(AckEvent) \ {<<>>})
    BY DEF TypeInv, TypeOK, RegistrarTypeOK, RegistrarRun
  <1>2. /\ C \in Nat \ {0} /\ registered' = RegistrarEnd(1)
        /\ registered \in Nat /\ registered' \in Nat /\ registered < registered'
        /\ persisted \in Nat /\ persisted' \in {persisted, registered'}
    BY RegistrarForward
  <1>3. /\ Len(registrarChan') = C - 1
        /\ \A j \in 1 .. C - 1 : j + 1 \in 1 .. C /\ registrarChan'[j] = registrarChan[j + 1]
    BY <1>1, <1>2
  <1>4. \A j \in 0 .. C - 1 : j + 1 \in 0 .. C /\ RegistrarEnd(j)' = RegistrarEnd(j + 1)
    BY <1>2, <1>3 DEF RegistrarEnd
  <1>5. FirstUnregistered' = FirstUnregistered
    BY <1>1 DEF FirstUnregistered, payloadVars
  <1>6. persisted' <= registered'
    BY <1>2 DEF OffsetsInv, RegistrarBehind
  <1>7. \A j \in 0 .. C - 1 : RegistrarEnd(j)' <= FirstUnregistered'
    BY <1>4, <1>5 DEF OffsetsInv, RegistrarBehind
  <1>8. \A j \in 1 .. C - 1 : registrarChan'[j][1].from < RegistrarEnd(j)'
    <2>1. \A j \in 1 .. C - 1 : j \in 0 .. C - 1
      BY <1>2
    <2> QED  BY <1>3, <1>4, <2>1 DEF OffsetsInv, RegistrarBehind
  <1>9. RegistrarBehind'
    BY <1>3, <1>6, <1>7, <1>8 DEF RegistrarBehind
  <1> QED  BY <1>1, <1>9 DEF OffsetsInv, Ascending, payloadVars

\* A process that starts resumes at the persisted offset.
LEMMA FreshOffsets ==
    ASSUME payload = <<>>, payloadList = <<>>, registrarChan = <<>>, spooled = registered,
           registered = persisted, persisted \in Nat
    PROVE  OffsetsInv
  BY DEF OffsetsInv, Ascending, RegistrarBehind, RegistrarEnd, FirstUnregistered

\* Payloads change their numbering but keep their events when they are resent.
LEMMA RenumberedOffsets ==
    ASSUME TypeInv, NEW s \in Servers,
           QueueResend(s) \/ \E order \in Orders(pending[s]) : PullBackPending(s, order)
    PROVE  /\ Len(payload') = Len(payload)
           /\ \A p \in 1 .. Len(payload) :
                /\ payload'[p].lo = payload[p].lo /\ payload'[p].hi = payload[p].hi
                /\ payload'[p].ackEvents = payload[p].ackEvents
           /\ UNCHANGED <<spooled, payloadList>>
  <1>0. PayloadTypeOK /\ Len(payload) \in Nat
    BY DEF TypeInv, TypeOK, PayloadTypeOK
  <1>1. \A p \in 1 .. Len(payload) : \A b \in BOOLEAN :
          LET new == [ResetSequence(payload[p]) EXCEPT !.resending = b]
          IN  new.lo = payload[p].lo /\ new.hi = payload[p].hi /\ new.ackEvents = payload[p].ackEvents
    BY PayloadNumbers, RenumberKeepsEvents, RenumberComplete
  <1>2. CASE QueueResend(s)
    <2> DEFINE q == Head(resendList)
               new == [ResetSequence(payload[q]) EXCEPT !.resending = FALSE]
    <2>1. /\ payload' = [payload EXCEPT ![q] = new] /\ resendList # <<>>
          /\ UNCHANGED <<spooled, payloadList>>
      BY <1>2 DEF QueueResend
    <2>2. q \in 1 .. Len(payload)
      BY <1>0, <2>1 DEF PayloadTypeOK
    <2>3. new.lo = payload[q].lo /\ new.hi = payload[q].hi /\ new.ackEvents = payload[q].ackEvents
      BY <1>1, <2>2
    <2> HIDE DEF q, new
    <2>4. /\ Len(payload') = Len(payload)
          /\ \A p \in 1 .. Len(payload) : payload'[p] = IF p = q THEN new ELSE payload[p]
      BY <1>0, <2>1, <2>2 DEF PayloadTypeOK
    <2> QED  BY <2>1, <2>3, <2>4
  <1>3. ASSUME NEW order \in Orders(pending[s]), PullBackPending(s, order)
        PROVE  /\ Len(payload') = Len(payload)
               /\ \A p \in 1 .. Len(payload) :
                    /\ payload'[p].lo = payload[p].lo /\ payload'[p].hi = payload[p].hi
                    /\ payload'[p].ackEvents = payload[p].ackEvents
               /\ UNCHANGED <<spooled, payloadList>>
    <2> DEFINE New(p) == IF p \in pending[s]
                         THEN [ResetSequence(payload[p]) EXCEPT !.resending = TRUE] ELSE payload[p]
    <2>1. payload' = [p \in 1 .. Len(payload) |-> New(p)] /\ UNCHANGED <<spooled, payloadList>>
      BY <1>3 DEF PullBackPending
    <2>2. \A p \in 1 .. Len(payload) : /\ New(p).lo = payload[p].lo /\ New(p).hi = payload[p].hi
                                       /\ New(p).ackEvents = payload[p].ackEvents
      BY <1>1
    <2> HIDE DEF New
    <2> QED  BY <1>0, <2>1, <2>2
  <1> QED  BY <1>2, <1>3

LEMMA NextOffsets ==
    ASSUME TypeInv, TypeInv', OrderInv, OrderInv', OffsetsInv, [Next]_vars
    PROVE  OffsetsInv'
  <1>1. CASE UNCHANGED publisherVars
    BY <1>1, OffsetsUnchanged DEF publisherVars, registrarVars
  <1>2. CASE SpoolStep
    <2>1. ASSUME NEW n \in SpoolSizes, HoldSpool(n)  PROVE OffsetsInv'
      BY <2>1, OffsetsUnchanged DEF HoldSpool, registrarVars
    <2>2. ASSUME NEW n \in SpoolSizes, NEW s \in Servers, SendSpool(s, n)  PROVE OffsetsInv'
      BY <2>2, SendEventsOffsets, PublisherAssumption DEF SendSpool
    <2> QED  BY <1>2, <2>1, <2>2 DEF SpoolStep
  <1>3. CASE QueueStep
    <2>1. ASSUME NEW s \in Servers, QueueResend(s)  PROVE OffsetsInv'
      BY <2>1, RenumberedOffsets, OffsetsFrame DEF QueueResend, SendPayload, registrarVars
    <2>2. ASSUME NEW s \in Servers, QueueNextSpool(s)  PROVE OffsetsInv'
      <3>1. nextSpool \in Nat
        BY <2>2, PublisherAssumption
        DEF TypeInv, TypeOK, ControlTypeOK, QueueNextSpool, MayQueueNextSpool, MayQueueHeld
      <3> QED  BY <2>2, <3>1, SendEventsOffsets DEF QueueNextSpool
    <2>3. CASE QueueNothing
      BY <2>3, OffsetsUnchanged DEF QueueNothing, registrarVars
    <2> QED  BY <1>3, <2>1, <2>2, <2>3 DEF QueueStep
  <1>4. ASSUME NEW s \in Servers, StatusStep(s)  PROVE OffsetsInv'
    <2>1. CASE StartedIdle(s) \/ StartedFailed(s) \/ FinishedClosing(s)
      BY <2>1, OffsetsUnchanged DEF StartedIdle, StartedFailed, FinishedClosing, registrarVars
    <2>2. ASSUME NEW order \in Orders(pending[s]), Failed(s, order) \/ Finished(s, order)  PROVE OffsetsInv'
      <3>1. PullBackPending(s, order) /\ UNCHANGED <<registrarChan, registered, persisted>>
        BY <2>2 DEF Failed, Finished, registrarVars
      <3> QED  BY <3>1, RenumberedOffsets, OffsetsFrame
    <2> QED  BY <1>4, <2>1, <2>2 DEF StatusStep
  <1>5. ASSUME NEW s \in Servers, AnswerStep(s)  PROVE OffsetsInv'
    <2>1. ASSUME NEW k \in 0 .. Len(payloadList), Acked(s, k)  PROVE OffsetsInv'
      <3> DEFINE q == Head(eventChan).nonce
      <3>1. /\ Take("ack", s) /\ q \in pending[s]
            /\ RegisterPrefix(AckedPayloads, k) \/ KeepOutOfOrder(q, AckedPayloads)
            /\ UNCHANGED <<spooled, registered, persisted>>
        BY <2>1 DEF Acked, AckedPayloads
      <3>2. /\ AckedPayloads \in Seq(PayloadRec)
            /\ Len(AckedPayloads) = Len(payload)
            /\ \A p \in 1 .. Len(payload) : /\ SequenceConsistent(AckedPayloads[p])
                                            /\ AckedPayloads[p].lo = payload[p].lo
                                            /\ AckedPayloads[p].hi = payload[p].hi
        BY <3>1, AckedPayloadsType
      <3>3. CASE RegisterPrefix(AckedPayloads, k)
        BY <3>1, <3>2, <3>3, RegisterPrefixOffsets
      <3>4. CASE KeepOutOfOrder(q, AckedPayloads)
        BY <3>1, <3>2, <3>4, OffsetsFrame DEF KeepOutOfOrder
      <3> QED  BY <3>1, <3>3, <3>4
    <2>2. CASE Pong(s) \/ Ignored(s)
      BY <1>1, <2>2, OffsetsUnchanged DEF Pong, Ignored, registrarVars
    <2> QED  BY <1>5, <2>1, <2>2 DEF AnswerStep
  <1>6. ASSUME NEW s \in Servers, TimeoutStep(s)  PROVE OffsetsInv'
    BY <1>6, OffsetsUnchanged
    DEF TimeoutStep, TimeoutPending, TimeoutKeepalive, TimeoutBackoff, ConnectRandom, registrarVars
  <1>7. CASE Shutdown
    BY <1>7, OffsetsUnchanged DEF Shutdown, registrarVars
  <1>8. CASE Crash
    <2>1. /\ payload' = <<>> /\ payloadList' = <<>> /\ registrarChan' = <<>>
          /\ spooled' = registered' /\ registered' = persisted' /\ persisted' \in Nat
      BY <1>8 DEF Crash, TypeInv, TypeOK, RegistrarTypeOK
    <2> QED  BY <2>1 DEF OffsetsInv, Ascending, RegistrarBehind, RegistrarEnd, FirstUnregistered
  <1>9. CASE UNCHANGED vars
    BY <1>1, <1>9 DEF vars
  <1> QED  BY <1>1, <1>2, <1>3, <1>4, <1>5, <1>6, <1>7, <1>8, <1>9, RegistrarRunOffsets DEF Next

-----------------------------------------------------------------------------
(* What servers acknowledged, for method random.  An ACK counts events     *)
(* from the numbering its payload had when it was sent, so that it may be  *)
(* believed only while that numbering lasts: renumbering must wait until   *)
(* no message and no ACK of the payload is left.  With method random it    *)
(* does, because a payload is pulled back when Finished is taken, which is *)
(* the last event of the one transport there is.  With loadbalance it does *)
(* not, and AtLeastOnce fails.                                             *)

\* The payload is with an endpoint, if with any.
Sent(p) == p \in 1 .. Len(payload) /\ p \notin Members(resendList)

\* The offset from which the sequence numbers of payload p count.
Base(p) == payload[p].hi - payload[p].sequenceLen

QuietLinks ==
    /\ \A s \in Servers : link[s] # "up" => wire[s] = {}
    /\ \A i \in 1 .. Len(eventChan) : eventChan[i].type # "failed"

\* A message on its way carries what its payload counts.
MessagesNumbered ==
    \A s \in Servers : \A m \in wire[s] :
      /\ Sent(m.nonce)
      /\ m.base = Base(m.nonce)
      /\ m.size = payload[m.nonce].sequenceLen

\* An ACK on its way counts events a server has processed.
Truthful(e) ==
    /\ Sent(e.nonce)
    /\ \A n \in Nat : Base(e.nonce) < n /\ n <= Base(e.nonce) + e.sequence => n \in received

AnswersReceived ==
    \A i \in 1 .. Len(eventChan) : eventChan[i].type = "ack" => Truthful(eventChan[i])

\* Event n is still to be acknowledged in payload p.
Open(p, n) == EventsFrom(payload[p]) < n /\ n <= payload[p].hi

\* Every event spooled has been processed or is still to be acknowledged.
Covered ==
    \A n \in 1 .. spooled : n \in received \/ \E p \in Members(payloadList) : Open(p, n)

DeliverInv == QuietLinks /\ MessagesNumbered /\ AnswersReceived /\ Covered

\* A step that renumbers no payload an endpoint may have.
Undisturbed ==
    \A p : Sent(p) =>
      /\ p \in 1 .. Len(payload') /\ p \notin Members(resendList')
      /\ payload'[p].hi = payload[p].hi
      /\ payload'[p].sequenceLen = payload[p].sequenceLen

LEMMA MessagesKept ==
    ASSUME MessagesNumbered, Undisturbed, \A s \in Servers : wire'[s] \subseteq wire[s]
    PROVE  MessagesNumbered'
  BY DEF MessagesNumbered, Undisturbed, Sent, Base

LEMMA AnswersKept ==
    ASSUME AnswersReceived, Undisturbed, received \subseteq received',
           \A i \in 1 .. Len(eventChan') : eventChan'[i].type = "ack" =>
             \E j \in 1 .. Len(eventChan) : eventChan'[i] = eventChan[j]
    PROVE  AnswersReceived'
  <1>1. ASSUME NEW e, Truthful(e)  PROVE Truthful(e)'
    <2>1. Sent(e.nonce)' /\ Base(e.nonce)' = Base(e.nonce)
      BY <1>1 DEF Truthful, Undisturbed, Sent, Base
    <2> QED  BY <1>1, <2>1 DEF Truthful
  <1> QED  BY <1>1 DEF AnswersReceived

\* The events still open in a listed payload stay so or have been processed.
LEMMA CoveredKept ==
    ASSUME Covered, UNCHANGED spooled, received \subseteq received',
           \A p \in Members(payloadList) : \A n \in 1 .. spooled : Open(p, n) =>
             n \in received' \/ (p \in Members(payloadList') /\ Open(p, n)')
    PROVE  Covered'
  BY DEF Covered

LEMMA TakenEvents ==
    ASSUME TypeInv, QuietLinks, NEW type, NEW s \in Servers, Take(type, s),
           \A t \in Servers : link'[t] # "up" => wire'[t] = {}
    PROVE  /\ QuietLinks'
           /\ \A i \in 1 .. Len(eventChan') : \E j \in 1 .. Len(eventChan) : eventChan'[i] = eventChan[j]
  <1>1. \A i \in 1 .. Len(eventChan') : \E j \in 1 .. Len(eventChan) : eventChan'[i] = eventChan[j]
    BY EventsTaken
  <1> QED  BY <1>1 DEF QuietLinks

\* Steps that leave payloads, messages and answers alone.
LEMMA DeliverUnchanged ==
    ASSUME DeliverInv, UNCHANGED <<payloadVars, wire, link, eventChan, received>>
    PROVE  DeliverInv'
  BY DEF DeliverInv, QuietLinks, MessagesNumbered, AnswersReceived, Truthful, Covered, Sent, Base, Open,
         payloadVars

\* Steps that take an event and leave payloads and messages alone.
LEMMA DeliverTaken ==
    ASSUME TypeInv, DeliverInv, NEW type, NEW s \in Servers, Take(type, s),
           \A t \in Servers : link'[t] # "up" => wire'[t] = {},
           UNCHANGED <<payloadVars, wire, received>>
    PROVE  DeliverInv'
  <1>1. /\ QuietLinks'
        /\ \A i \in 1 .. Len(eventChan') : \E j \in 1 .. Len(eventChan) : eventChan'[i] = eventChan[j]
    BY TakenEvents DEF DeliverInv
  <1>2. Undisturbed
    BY DEF Undisturbed, Sent, payloadVars
  <1>3. MessagesNumbered' /\ AnswersReceived'
    BY <1>1, <1>2, MessagesKept, AnswersKept DEF DeliverInv
  <1>4. Covered'
    BY DEF DeliverInv, Covered, Open, payloadVars
  <1> QED  BY <1>1, <1>3, <1>4 DEF DeliverInv

\* A transport reports an event; messages keep what they carry.
LEMMA DeliverReported ==
    ASSUME TypeInv, DeliverInv, UNCHANGED payloadVars, NEW e \in Events, SendEvent(e),
           e.type # "failed", e.type = "ack" => Truthful(e)', received \subseteq received',
           \A t \in Servers : link'[t] # "up" => wire'[t] = {},
           \A t \in Servers : \A m \in wire'[t] : \E o \in wire[t] :
             m.nonce = o.nonce /\ m.base = o.base /\ m.size = o.size
    PROVE  DeliverInv'
  <1> DEFINE N == Len(eventChan)
  <1>1. /\ N \in Nat /\ Len(eventChan') = N + 1 /\ eventChan'[N + 1] = e
        /\ \A i \in 1 .. N : eventChan'[i] = eventChan[i]
        /\ \A i \in 1 .. N + 1 : i \in 1 .. N \/ i = N + 1
    BY EventsSent
  <1>2. QuietLinks'
    BY <1>1 DEF DeliverInv, QuietLinks
  <1>3. MessagesNumbered'
    BY DEF DeliverInv, MessagesNumbered, Sent, Base, payloadVars
  <1>4. \A f : Truthful(f) => Truthful(f)'
    BY DEF Truthful, Sent, Base, payloadVars
  <1>5. AnswersReceived'
    <2>1. ASSUME NEW i \in 1 .. N + 1, eventChan'[i].type = "ack"
          PROVE  \A f : f = eventChan'[i] => Truthful(f)'
      <3>1. CASE i = N + 1
        <4>1. eventChan'[i] = e
          BY <1>1, <3>1
        <4>2. \A f : f = e => Truthful(f)'
          BY <2>1, <4>1
        <4> QED  BY <4>1, <4>2
      <3>2. CASE i \in 1 .. N
        <4>1. eventChan'[i] = eventChan[i] /\ Truthful(eventChan[i])
          BY <1>1, <2>1, <3>2 DEF DeliverInv, AnswersReceived
        <4> QED  BY <1>4, <4>1
      <3> QED  BY <1>1, <3>1, <3>2
    <2> QED  BY <1>1, <2>1 DEF AnswersReceived
  <1>6. Covered'
    BY DEF DeliverInv, Covered, Open, payloadVars
  <1> QED  BY <1>2, <1>3, <1>5, <1>6 DEF DeliverInv

\* A server has processed what it acknowledges.
LEMMA ServerAckDeliver ==
    ASSUME TypeInv, DeliverInv, UNCHANGED publisherVars, NEW s \in Servers,
           NEW m \in wire[s], NEW k \in 0 .. m.size, ServerAck(s, m, k)
    PROVE  DeliverInv'
  <1> DEFINE e == [type |-> "ack", ep |-> s, nonce |-> m.nonce, sequence |-> k]
             rest == IF k = m.size THEN {} ELSE {[m EXCEPT !.acked = k]}
  <1>0. /\ wire \in [Servers -> SUBSET Message] /\ m \in Message /\ k \in Nat
        /\ UNCHANGED payloadVars
    BY DEF TypeInv, TypeOK, TransportTypeOK, publisherVars, Message
  <1>1. /\ e \in Events /\ e.type = "ack" /\ e.nonce = m.nonce /\ e.sequence = k
        /\ m.base \in Nat
    BY <1>0 DEF AckedEvent, Events, Message
  <1>2. /\ link[s] = "up" /\ UNCHANGED link /\ SendEvent(e)
        /\ received' = received \cup ((m.base + 1) .. (m.base + k))
        /\ wire' = [wire EXCEPT ![s] = (@ \ {m}) \cup rest]
    BY DEF ServerAck
  <1>3. \A o \in rest : o.nonce = m.nonce /\ o.base = m.base /\ o.size = m.size
    BY <1>0 DEF Message
  <1>4. Sent(m.nonce) /\ m.base = Base(m.nonce)
    BY DEF DeliverInv, MessagesNumbered
  <1>5. Truthful(e)'
    <2>1. \A p : p = m.nonce => Sent(p)' /\ Base(p)' = m.base
      BY <1>0, <1>4 DEF Sent, Base, payloadVars
    <2>2. \A n \in Nat : m.base < n /\ n <= m.base + k => n \in received'
      BY <1>0, <1>1, <1>2
    <2> QED  BY <1>1, <2>1, <2>2 DEF Truthful
  <1> HIDE DEF e, rest
  <1>6. \A t \in Servers : wire'[t] = IF t = s THEN (wire[s] \ {m}) \cup rest ELSE wire[t]
    BY <1>0, <1>2
  <1>7. \A t \in Servers : link'[t] # "up" => wire'[t] = {}
    BY <1>2, <1>6 DEF DeliverInv, QuietLinks
  <1>8. \A t \in Servers : \A x \in wire'[t] : \E o \in wire[t] :
          x.nonce = o.nonce /\ x.base = o.base /\ x.size = o.size
    BY <1>3, <1>6
  <1> QED  BY <1>0, <1>1, <1>2, <1>5, <1>7, <1>8, DeliverReported

LEMMA TransportDeliver ==
    ASSUME Method = "random", TypeInv, DeliverInv, UNCHANGED publisherVars, NEW s \in Servers, TransportStep(s)
    PROVE  DeliverInv'
  <1>0. /\ wire \in [Servers -> SUBSET Message] /\ link \in [Servers -> Links]
        /\ UNCHANGED payloadVars /\ FinishOnFail
    BY DEF TypeInv, TypeOK, TransportTypeOK, publisherVars, FinishOnFail
  <1>1. \A type \in {"started", "finished", "pong"} :
          Status(type, s) \in Events /\ Status(type, s).type = type
    BY DEF Status, StatusEvent, Events
  <1>2. ASSUME NEW type \in {"started", "finished", "pong"}, SendEvent(Status(type, s)), UNCHANGED received,
               \A t \in Servers : link'[t] # "up" => wire'[t] = {},
               \A t \in Servers : wire'[t] \subseteq wire[t]
        PROVE  DeliverInv'
    <2>1. \A t \in Servers : \A m \in wire'[t] : \E o \in wire[t] :
             m.nonce = o.nonce /\ m.base = o.base /\ m.size = o.size
      BY <1>2
    <2> DEFINE e == Status(type, s)
    <2>2. e \in Events /\ e.type # "failed" /\ e.type # "ack" /\ SendEvent(e)
      BY <1>1, <1>2
    <2> HIDE DEF e
    <2> QED  BY <1>0, <1>2, <2>1, <2>2, DeliverReported
  <1>3. ASSUME DropConnection(s), \A t \in Servers : t # s => link'[t] = link[t]
        PROVE  /\ \A t \in Servers : link'[t] # "up" => wire'[t] = {}
               /\ \A t \in Servers : wire'[t] \subseteq wire[t]
    <2>1. \A t \in Servers : wire'[t] = IF t = s THEN {} ELSE wire[t]
      BY <1>0, <1>3 DEF DropConnection
    <2> QED  BY <1>3, <2>1 DEF DeliverInv, QuietLinks
  <1>4. CASE Connect(s)
    BY <1>0, <1>2, <1>3, <1>4 DEF Connect
  <1>5. CASE ConnectionError(s) \/ ForcedFailure(s)
    BY <1>0, <1>2, <1>3, <1>5 DEF ConnectionError, ForcedFailure, Disconnect
  <1>6. CASE StopTransport(s)
    BY <1>0, <1>2, <1>3, <1>6 DEF StopTransport
  <1>7. CASE ServerPong(s)
    <2>1. UNCHANGED <<link, wire, received>> /\ SendEvent(Status("pong", s))
      BY <1>7 DEF ServerPong
    <2> QED  BY <1>2, <2>1 DEF DeliverInv, QuietLinks
  <1> QED  BY <1>4, <1>5, <1>6, <1>7, ServerAckDeliver DEF TransportStep

\* sendPayload: the message carries the numbering its payload has from now on.
LEMMA SendPayloadDeliver ==
    ASSUME TypeInv, DeliverInv, NEW s \in Servers, NEW p, NEW pp, SendPayload(s, p, pp),
           Undisturbed, p \in 1 .. Len(payload'), p \notin Members(resendList'),
           payload'[p].sequenceLen = EventsLen(pp),
           payload'[p].hi - payload'[p].sequenceLen = EventsFrom(pp),
           Covered'
    PROVE  DeliverInv'
  <1> DEFINE msg == [nonce |-> p, base |-> EventsFrom(pp), size |-> EventsLen(pp), acked |-> 0]
  <1>0. wire \in [Servers -> SUBSET Message]
    BY DEF TypeInv, TypeOK, TransportTypeOK
  <1>1. /\ wire' = IF link[s] = "up" THEN [wire EXCEPT ![s] = @ \cup {msg}] ELSE wire
        /\ UNCHANGED <<link, eventChan, received>>
    BY DEF SendPayload, Write
  <1>2. msg.nonce = p /\ msg.base = EventsFrom(pp) /\ msg.size = EventsLen(pp)
    OBVIOUS
  <1> HIDE DEF msg
  <1>3. \A t \in Servers : /\ \A m \in wire'[t] : m \in wire[t] \/ m = msg
                           /\ link[t] # "up" => wire'[t] = wire[t]
    BY <1>0, <1>1
  <1>4. QuietLinks'
    BY <1>1, <1>3 DEF DeliverInv, QuietLinks
  <1>5. MessagesNumbered'
    <2>1. ASSUME NEW t \in Servers, NEW m \in wire'[t]
          PROVE  /\ m.nonce \in 1 .. Len(payload') /\ m.nonce \notin Members(resendList')
                 /\ m.base = payload'[m.nonce].hi - payload'[m.nonce].sequenceLen
                 /\ m.size = payload'[m.nonce].sequenceLen
      <3>1. CASE m = msg
        BY <1>2, <3>1
      <3>2. CASE m \in wire[t]
        BY <3>2 DEF DeliverInv, MessagesNumbered, Undisturbed, Base
      <3> QED  BY <1>3, <3>1, <3>2
    <2> QED  BY <2>1 DEF MessagesNumbered, Sent, Base
  <1>6. AnswersReceived'
    BY <1>1, AnswersKept DEF DeliverInv
  <1> QED  BY <1>4, <1>5, <1>6 DEF DeliverInv

LEMMA SendEventsDeliver ==
    ASSUME TypeInv, DeliverInv, NEW s \in Servers, NEW n \in Nat, SendEvents(s, n)
    PROVE  DeliverInv'
  <1> DEFINE pp == NewPayload(spooled, n)
             N  == Len(payload)
             q  == N + 1
  <1>1. PayloadTypeOK /\ N \in Nat /\ spooled \in Nat
    BY DEF TypeInv, TypeOK, PayloadTypeOK
  <1>2. /\ payload' = Append(payload, pp) /\ payloadList' = Append(payloadList, q)
        /\ spooled' = spooled + n /\ SendPayload(s, q, pp) /\ UNCHANGED <<resendList, received>>
    BY DEF SendEvents, SendPayload
  <1>3. /\ pp \in PayloadRec /\ pp.lo = spooled /\ pp.hi = spooled + n
        /\ pp.ackEvents = 0 /\ pp.sequenceLen = n
    BY <1>1, NewPayloadConsistent DEF NewPayload
  <1> HIDE DEF pp
  <1>4. EventsFrom(pp) = spooled /\ EventsLen(pp) = n
    BY <1>1, <1>3 DEF EventsFrom, EventsLen
  <1>5. /\ Len(payload') = q /\ payload'[q] = pp
        /\ \A p \in 1 .. N : payload'[p] = payload[p]
    BY <1>1, <1>2, <1>3 DEF PayloadTypeOK
  <1>6. \A p : p \in Members(payloadList) \/ p = q => p \in Members(payloadList')
    <2>1. /\ Len(payloadList) \in Nat /\ Len(payloadList') = Len(payloadList) + 1
          /\ payloadList'[Len(payloadList) + 1] = q
          /\ \A i \in 1 .. Len(payloadList) : payloadList'[i] = payloadList[i]
      BY <1>1, <1>2 DEF PayloadTypeOK
    <2> QED  BY <2>1 DEF Members
  <1>7. Members(payloadList) \subseteq 1 .. N /\ Members(resendList) \subseteq 1 .. N
    BY <1>1 DEF PayloadTypeOK, Members
  <1>8. q \in 1 .. q /\ q \notin 1 .. N /\ 1 .. N \subseteq 1 .. q
    BY <1>1
  <1>9. Undisturbed
    BY <1>2, <1>5, <1>8 DEF Undisturbed, Sent
  <1>10. Covered'
    <2>1. ASSUME NEW i \in 1 .. spooled + n
          PROVE  i \in received \/ \E p \in Members(payloadList') :
                   EventsFrom(payload'[p]) < i /\ i <= payload'[p].hi
      <3>1. CASE i <= spooled
        <4>1. i \in 1 .. spooled
          BY <1>1, <3>1
        <4>2. i \in received \/ \E p \in Members(payloadList) : Open(p, i)
          BY <4>1 DEF DeliverInv, Covered
        <4> QED  BY <1>5, <1>6, <1>7, <4>2 DEF Open
      <3>2. CASE ~(i <= spooled)
        <4>1. EventsFrom(payload'[q]) < i /\ i <= payload'[q].hi
          BY <1>1, <1>3, <1>4, <1>5, <3>2
        <4> QED  BY <1>6, <4>1
      <3> QED  BY <3>1, <3>2
    <2> QED  BY <1>2, <2>1 DEF Covered, Open
  <1>11. payload'[q].hi - payload'[q].sequenceLen = EventsFrom(pp) /\ payload'[q].sequenceLen = EventsLen(pp)
    BY <1>1, <1>3, <1>4, <1>5
  <1>12. q \in 1 .. Len(payload') /\ q \notin Members(resendList')
    BY <1>2, <1>5, <1>7, <1>8
  <1> HIDE DEF q
  <1> QED  BY <1>2, <1>9, <1>10, <1>11, <1>12, SendPayloadDeliver

\* Resent payloads keep the events they have open.
LEMMA RenumberedCovered ==
    ASSUME TypeInv, Covered, UNCHANGED received, NEW s \in Servers,
           QueueResend(s) \/ \E order \in Orders(pending[s]) : PullBackPending(s, order)
    PROVE  Covered'
  <1>1. Members(payloadList) \subseteq 1 .. Len(payload)
    BY DEF TypeInv, TypeOK, PayloadTypeOK, Members
  <1>2. /\ UNCHANGED <<spooled, payloadList>>
        /\ \A p \in Members(payloadList) : /\ payload'[p].hi = payload[p].hi
                                           /\ EventsFrom(payload'[p]) = EventsFrom(payload[p])
    BY <1>1, RenumberedOffsets DEF EventsFrom
  <1> QED  BY <1>2 DEF Covered, Open

LEMMA QueueResendDeliver ==
    ASSUME TypeInv, HoldInv, DeliverInv, NEW s \in Servers, QueueResend(s)
    PROVE  DeliverInv'
  <1> DEFINE q == Head(resendList)
             new == [ResetSequence(payload[q]) EXCEPT !.resending = FALSE]
  <1>1. PayloadTypeOK
    BY DEF TypeInv, TypeOK
  <1>2. /\ resendList # <<>> /\ resendList' = Tail(resendList)
        /\ payload' = [payload EXCEPT ![q] = new]
        /\ SendPayload(s, q, payload[q]) /\ UNCHANGED received
    BY DEF QueueResend, SendPayload
  <1>3. Members(resendList') = Members(resendList) \ {q} /\ q \in Members(resendList)
    BY <1>1, <1>2, TailOnce DEF PayloadTypeOK, HoldInv, OneOwner
  <1>4. q \in 1 .. Len(payload)
    BY <1>1, <1>2 DEF PayloadTypeOK
  <1>c. Covered'
    BY <1>2, RenumberedCovered DEF DeliverInv
  <1> HIDE DEF q
  <1>n. /\ payload[q].lo \in Nat /\ payload[q].hi \in Nat /\ payload[q].ackEvents \in Nat
        /\ payload[q] \in PayloadRec /\ SequenceConsistent(payload[q])
        /\ EventsFrom(payload[q]) = payload[q].lo + payload[q].ackEvents
        /\ EventsLen(payload[q]) = payload[q].hi - payload[q].lo - payload[q].ackEvents
    BY <1>4, PayloadNumbers DEF EventsLen
  <1>5. new.sequenceLen = EventsLen(payload[q]) /\ new.hi = payload[q].hi
    BY <1>n, RenumberComplete, RenumberKeepsEvents
  <1>6. new.hi - new.sequenceLen = EventsFrom(payload[q])
    BY <1>n, <1>5
  <1> HIDE DEF new
  <1>7. /\ Len(payload') = Len(payload)
        /\ \A p \in 1 .. Len(payload) : payload'[p] = IF p = q THEN new ELSE payload[p]
    BY <1>1, <1>2, <1>4 DEF PayloadTypeOK
  <1>8. Undisturbed
    BY <1>3, <1>7 DEF Undisturbed, Sent
  <1> QED  BY <1>2, <1>3, <1>4, <1>5, <1>6, <1>7, <1>8, <1>c, SendPayloadDeliver

\* When Finished is taken nothing of the connection is left.
LEMMA FinishedDeliver ==
    ASSUME Method = "random", TypeInv, EndpointInv, DeliverInv, NEW s \in Servers,
           Take("finished", s), UNCHANGED <<wire, received>>, Covered'
    PROVE  DeliverInv'
  <1>1. /\ Len(eventChan) \in Nat \ {0} /\ 1 \in 1 .. Len(eventChan)
        /\ eventChan[1].type = "finished" /\ eventChan[1].ep = s
        /\ Len(eventChan') = Len(eventChan) - 1
    BY EventsTaken
  <1>2. link[s] = "finished" /\ Present(s)
    BY <1>1 DEF EndpointInv, FinishedLast
  <1>3. \A t \in Servers : t # s => ~Present(t) /\ link[t] = "none"
    BY <1>2 DEF EndpointInv, OneConnected, FinishedLast
  <1>4. \A t \in Servers : wire[t] = {}
    BY <1>2, <1>3 DEF DeliverInv, QuietLinks
  <1>5. \A i \in 1 .. Len(eventChan) : i <= 1
    <2>1. ASSUME NEW i \in 1 .. Len(eventChan)  PROVE eventChan[i].ep = s
      <3>1. eventChan[i].ep \in Servers
        BY DEF TypeInv, TypeOK, TransportTypeOK, StatusEvent, AckedEvent
      <3> QED  BY <1>3, <3>1 DEF EndpointInv, FinishedLast
    <2> QED  BY <1>1, <2>1 DEF EndpointInv, FinishedLast
  <1>6. Len(eventChan') = 0
    <2>1. Len(eventChan) \in 1 .. Len(eventChan)
      BY <1>1
    <2> QED  BY <1>1, <1>5, <2>1
  <1> QED  BY <1>4, <1>6 DEF DeliverInv, QuietLinks, MessagesNumbered, AnswersReceived

LEMMA StatusStepDeliver ==
    ASSUME Method = "random", TypeInv, EndpointInv, DeliverInv, NEW s \in Servers, StatusStep(s)
    PROVE  DeliverInv'
  <1>1. CASE StartedIdle(s) \/ StartedFailed(s)
    BY <1>1, DeliverTaken DEF StartedIdle, StartedFailed, DeliverInv, QuietLinks
  <1>2. ASSUME NEW order, Failed(s, order)  PROVE DeliverInv'
    <2>1. 1 \in 1 .. Len(eventChan) /\ eventChan[1].type = "failed"
      BY <1>2, EventsTaken DEF Failed
    <2> QED  BY <2>1 DEF DeliverInv, QuietLinks
  <1>3. ASSUME NEW order \in Orders(pending[s]), Finished(s, order)  PROVE DeliverInv'
    <2>1. Covered'
      BY <1>3, RenumberedCovered DEF Finished, DeliverInv
    <2> QED  BY <1>3, <2>1, FinishedDeliver DEF Finished
  <1>4. CASE FinishedClosing(s)
    <2>1. Covered'
      BY <1>4 DEF FinishedClosing, DeliverInv, Covered, Open, payloadVars
    <2> QED  BY <1>4, <2>1, FinishedDeliver DEF FinishedClosing
  <1> QED  BY <1>1, <1>2, <1>3, <1>4 DEF StatusStep

\* OnAck keeps the numbering of every payload, rolls up only what the ACK has
\* acknowledged and drops only complete payloads.
LEMMA AckedEffect ==
    ASSUME TypeInv, HoldInv, NEW s \in Servers, NEW k \in 0 .. Len(payloadList), Acked(s, k)
    PROVE  /\ Len(payload') = Len(payload) /\ UNCHANGED <<resendList, spooled>>
           /\ \A p \in 1 .. Len(payload) :
                /\ payload'[p].hi = payload[p].hi
                /\ payload'[p].sequenceLen = payload[p].sequenceLen
                /\ EventsFrom(payload'[p]) = EventsFrom(AckedPayloads[p])
           /\ \A p \in Members(payloadList) : p \in Members(payloadList') \/ Complete(AckedPayloads[p])
  <1> DEFINE q == Head(eventChan).nonce
             A == AckedPayloads
  <1>1. /\ Take("ack", s) /\ q \in pending[s]
        /\ resendList' = resendList \/ resendList' = Without(resendList, q)
        /\ RegisterPrefix(A, k) \/ KeepOutOfOrder(q, A)
        /\ UNCHANGED spooled
    BY DEF Acked, AckedPayloads
  <1>2. /\ A \in Seq(PayloadRec) /\ Len(A) = Len(payload)
        /\ \A p \in 1 .. Len(payload) : SequenceConsistent(A[p]) /\ A[p].hi = payload[p].hi
        /\ \A p \in 1 .. Len(payload) : p # q => A[p] = payload[p]
    BY <1>1, AckedPayloadsType
  <1>3. A[q].sequenceLen = payload[q].sequenceLen
    BY <1>1, AckedNumbers
  <1> HIDE DEF A, q
  <1>4. resendList' = resendList
    BY <1>1 DEF HoldInv, OneOwner, Without
  <1>5. PayloadTypeOK /\ Len(payload) \in Nat /\ Len(payloadList) \in Nat
    BY DEF TypeInv, TypeOK, PayloadTypeOK
  <1>6. \A p \in 1 .. Len(payload) : A[p].sequenceLen = payload[p].sequenceLen /\ A[p].hi = payload[p].hi
    BY <1>2, <1>3
  <1>7. CASE KeepOutOfOrder(q, A)
    BY <1>1, <1>2, <1>4, <1>6, <1>7 DEF KeepOutOfOrder, A
  <1>8. CASE RegisterPrefix(A, k)
    <2> DEFINE m == RolledUp(A, k)
               Rolled(p) == \E i \in 1 .. m : payloadList[i] = p
    <2>1. /\ payload' = [p \in 1 .. Len(payload) |-> IF Rolled(p) THEN Rollup(A[p]) ELSE A[p]]
          /\ payloadList' = SubSeq(payloadList, k + 1, Len(payloadList))
          /\ \A i \in 1 .. k : Complete(A[payloadList[i]])
      BY <1>8 DEF RegisterPrefix, CompletedPrefix
    <2>2. \A p \in 1 .. Len(payload) : /\ Rollup(A[p]).hi = A[p].hi
                                       /\ Rollup(A[p]).sequenceLen = A[p].sequenceLen
                                       /\ EventsFrom(Rollup(A[p])) = EventsFrom(A[p])
      <3> SUFFICES ASSUME NEW p \in 1 .. Len(payload)
                   PROVE  /\ Rollup(A[p]).hi = A[p].hi
                          /\ Rollup(A[p]).sequenceLen = A[p].sequenceLen
                          /\ EventsFrom(Rollup(A[p])) = EventsFrom(A[p])
        OBVIOUS
      <3>1. A[p] \in PayloadRec /\ SequenceConsistent(A[p])
        BY <1>2
      <3>2. A[p].lo \in Nat /\ A[p].ackEvents \in Nat
        BY <3>1 DEF PayloadRec
      <3>3. /\ Rollup(A[p]).hi = A[p].hi /\ Rollup(A[p]).lo = A[p].lo + A[p].ackEvents
            /\ Rollup(A[p]).sequenceLen = A[p].sequenceLen /\ Rollup(A[p]).ackEvents = 0
        BY <3>1, RollupConsistent, RollupComplete
      <3> QED  BY <3>2, <3>3 DEF EventsFrom
    <2>3. /\ Len(payload') = Len(payload)
          /\ \A p \in 1 .. Len(payload) : /\ payload'[p].hi = A[p].hi
                                          /\ payload'[p].sequenceLen = A[p].sequenceLen
                                          /\ EventsFrom(payload'[p]) = EventsFrom(A[p])
      <3> HIDE DEF Rolled
      <3> QED  BY <1>5, <2>1, <2>2
    <2>4. /\ Len(payloadList') = Len(payloadList) - k
          /\ \A i \in 1 .. Len(payloadList) - k : payloadList'[i] = payloadList[k + i]
      BY <1>5, <2>1 DEF PayloadTypeOK
    <2>5. ASSUME NEW p \in Members(payloadList), ~Complete(A[p])  PROVE p \in Members(payloadList')
      <3>1. PICK i \in 1 .. Len(payloadList) : p = payloadList[i]
        BY DEF Members
      <3>2. ~(i \in 1 .. k)
        BY <2>1, <2>5, <3>1
      <3>3. i - k \in 1 .. Len(payloadList) - k /\ k + (i - k) = i
        BY <1>5, <3>2
      <3>4. payloadList'[i - k] = p
        BY <2>4, <3>1, <3>3
      <3> QED  BY <2>4, <3>3, <3>4 DEF Members
    <2> QED  BY <1>1, <1>4, <1>6, <2>3, <2>5 DEF A
  <1> QED  BY <1>1, <1>7, <1>8

\* What a truthful ACK adds to the acknowledged events of an unfinished payload.
LEMMA TruthfulAck ==
    ASSUME NEW pp \in PayloadRec, SequenceConsistent(pp), ~Complete(pp), NEW sequence \in Nat,
           NEW n \in Nat, pp.lo + pp.ackEvents < n, n <= pp.lo + Ack(pp, sequence).ackEvents
    PROVE  pp.hi - pp.sequenceLen < n /\ n <= pp.hi - pp.sequenceLen + sequence
  <1>0. /\ pp.lo \in Nat /\ pp.hi \in Nat /\ pp.ackEvents \in Nat
        /\ pp.lastSequence \in Nat /\ pp.sequenceLen \in Nat
    BY DEF PayloadRec
  <1>1. pp.sequenceLen - pp.lastSequence = pp.hi - pp.lo - pp.ackEvents
    BY DEF SequenceConsistent, EventsLen
  <1> DEFINE ack == Ack(pp, sequence).ackEvents
  <1>2. ack = IF sequence <= pp.lastSequence THEN pp.ackEvents
              ELSE IF sequence >= pp.sequenceLen THEN pp.hi - pp.lo
              ELSE pp.ackEvents + (sequence - pp.lastSequence)
    BY AckNumbers
  <1>3. pp.lo + pp.ackEvents < n /\ n <= pp.lo + ack
    OBVIOUS
  <1> HIDE DEF ack
  <1>4. pp.hi - pp.sequenceLen < n
    BY <1>0, <1>1, <1>3
  <1>5. CASE sequence <= pp.lastSequence
    BY <1>0, <1>2, <1>3, <1>5
  <1>6. CASE ~(sequence <= pp.lastSequence) /\ sequence >= pp.sequenceLen
    <2>1. ack = pp.hi - pp.lo
      BY <1>2, <1>6
    <2> QED  BY <1>0, <1>3, <1>4, <1>6, <2>1
  <1>7. CASE ~(sequence <= pp.lastSequence) /\ ~(sequence >= pp.sequenceLen)
    <2>1. ack = pp.ackEvents + (sequence - pp.lastSequence)
      BY <1>2, <1>7
    <2> QED  BY <1>0, <1>1, <1>3, <1>4, <1>7, <2>1
  <1> QED  BY <1>5, <1>6, <1>7

LEMMA AckedDeliver ==
    ASSUME TypeInv, HoldInv, DeliverInv, NEW s \in Servers, NEW k \in 0 .. Len(payloadList), Acked(s, k)
    PROVE  DeliverInv'
  <1> DEFINE q == Head(eventChan).nonce
             sequence == Head(eventChan).sequence
             A == AckedPayloads
  <1>1. /\ Take("ack", s) /\ q \in pending[s]
        /\ UNCHANGED <<link, wire, received>>
    BY DEF Acked
  <1>2. /\ Len(payload') = Len(payload) /\ UNCHANGED <<resendList, spooled>>
        /\ \A p \in 1 .. Len(payload) :
             /\ payload'[p].hi = payload[p].hi
             /\ payload'[p].sequenceLen = payload[p].sequenceLen
             /\ EventsFrom(payload'[p]) = EventsFrom(A[p])
        /\ \A p \in Members(payloadList) : p \in Members(payloadList') \/ Complete(A[p])
    BY AckedEffect
  <1>3. Undisturbed
    BY <1>2 DEF Undisturbed, Sent
  <1>4. /\ QuietLinks'
        /\ \A i \in 1 .. Len(eventChan') : \E j \in 1 .. Len(eventChan) : eventChan'[i] = eventChan[j]
    BY <1>1, TakenEvents DEF DeliverInv, QuietLinks
  <1>5. MessagesNumbered' /\ AnswersReceived'
    BY <1>1, <1>3, <1>4, MessagesKept, AnswersKept DEF DeliverInv
  <1>6. \A p \in 1 .. Len(payload) : /\ A[p] \in PayloadRec /\ SequenceConsistent(A[p])
                                     /\ A[p].lo = payload[p].lo /\ A[p].hi = payload[p].hi
                                     /\ p # q => A[p] = payload[p]
    BY <1>1, AckedPayloadsType
  <1>7. /\ q \in 1 .. Len(payload) /\ sequence \in Nat
        /\ payload[q] \in PayloadRec /\ SequenceConsistent(payload[q])
        /\ A[q].ackEvents = Ack(payload[q], sequence).ackEvents
    BY <1>1, AckedNumbers
  <1>8. ~Complete(payload[q])
    BY <1>1, <1>7 DEF HoldInv, HeldUnfinished, Held
  <1>9. \A n \in Nat : payload[q].hi - payload[q].sequenceLen < n
                       /\ n <= payload[q].hi - payload[q].sequenceLen + sequence => n \in received
    <2>1. 1 \in 1 .. Len(eventChan) /\ eventChan[1] = Head(eventChan) /\ eventChan[1].type = "ack"
      BY <1>1, EventsTaken
    <2>2. Truthful(Head(eventChan))
      BY <2>1 DEF DeliverInv, AnswersReceived
    <2> QED  BY <2>2 DEF Truthful, Base
  <1>10. Members(payloadList) \subseteq 1 .. Len(payload) /\ spooled \in Nat
    BY DEF TypeInv, TypeOK, PayloadTypeOK, Members
  <1> HIDE DEF A, q, sequence
  <1>11. ASSUME NEW p \in Members(payloadList), NEW n \in 1 .. spooled, Open(p, n)
         PROVE  n \in received \/ (p \in Members(payloadList') /\ Open(p, n)')
    <2>1. /\ p \in 1 .. Len(payload) /\ n \in Nat
          /\ A[p] \in PayloadRec /\ A[p].lo = payload[p].lo /\ A[p].hi = payload[p].hi
      BY <1>6, <1>10
    <2>2. A[p].lo \in Nat /\ A[p].hi \in Nat /\ A[p].ackEvents \in Nat
      BY <2>1 DEF PayloadRec
    <2>3. CASE EventsFrom(A[p]) < n
      <3>1. n <= A[p].hi
        BY <1>11, <2>1 DEF Open
      <3>2. ~Complete(A[p])
        BY <2>1, <2>2, <2>3, <3>1 DEF Complete, EventsLen, EventsFrom
      <3> QED  BY <1>2, <1>11, <2>1, <2>3, <3>2 DEF Open
    <2>4. CASE ~(EventsFrom(A[p]) < n)
      <3>1. p = q
        BY <1>6, <1>11, <2>1, <2>4 DEF Open
      <3>2. n <= payload[q].lo + Ack(payload[q], sequence).ackEvents
        BY <1>7, <2>1, <2>2, <2>4, <3>1 DEF EventsFrom
      <3>3. payload[q].lo + payload[q].ackEvents < n
        BY <1>11, <3>1 DEF Open, EventsFrom
      <3>4. /\ payload[q].hi - payload[q].sequenceLen < n
            /\ n <= payload[q].hi - payload[q].sequenceLen + sequence
        BY <1>7, <1>8, <2>1, <3>2, <3>3, TruthfulAck
      <3> QED  BY <1>9, <2>1, <3>4
    <2> QED  BY <2>3, <2>4
  <1>12. Covered'
    BY <1>1, <1>2, <1>11, CoveredKept DEF DeliverInv
  <1> QED  BY <1>4, <1>5, <1>12 DEF DeliverInv

\* Everything before the oldest payload left has been processed.
LEMMA ProcessedBefore ==
    ASSUME TypeInv, OrderInv, OffsetsInv, DeliverInv
    PROVE  1 .. FirstUnregistered \subseteq received /\ 1 .. registered \subseteq received
  <1>1. /\ FirstUnregistered \in Nat /\ FirstUnregistered <= spooled /\ spooled \in Nat
        /\ \A i \in 1 .. Len(payloadList) : FirstUnregistered <= payload[payloadList[i]].lo
    BY FrontLowest DEF OffsetsInv, TypeInv, TypeOK, PayloadTypeOK
  <1>2. ASSUME NEW n \in 1 .. FirstUnregistered  PROVE n \in received
    <2>1. n \in 1 .. spooled
      BY <1>1
    <2>2. ASSUME NEW p \in Members(payloadList)  PROVE ~Open(p, n)
      <3>1. PICK i \in 1 .. Len(payloadList) : payloadList[i] = p
        BY DEF Members
      <3>2. p \in 1 .. Len(payload)
        BY <3>1 DEF TypeInv, TypeOK, PayloadTypeOK
      <3>3. /\ payload[p].lo \in Nat /\ payload[p].ackEvents \in Nat
            /\ EventsFrom(payload[p]) = payload[p].lo + payload[p].ackEvents
        BY <3>2, PayloadNumbers
      <3>4. FirstUnregistered <= payload[p].lo
        BY <1>1, <3>1
      <3> QED  BY <1>1, <3>3, <3>4 DEF Open
    <2> QED  BY <2>1, <2>2 DEF DeliverInv, Covered
  <1>3. registered \in Nat /\ registered <= FirstUnregistered
    <2>1. 0 \in 0 .. Len(registrarChan) /\ registered \in Nat
      BY DEF TypeInv, TypeOK, RegistrarTypeOK
    <2> QED  BY <2>1 DEF OffsetsInv, RegistrarBehind, RegistrarEnd
  <1> QED  BY <1>1, <1>2, <1>3

\* The invariants a step of method random needs, and keeps.
PublisherInv == TypeInv /\ OrderInv /\ EndpointInv /\ HoldInv /\ OffsetsInv

LEMMA NextDeliver ==
    ASSUME Method = "random", PublisherInv, DeliverInv, [Next]_vars
    PROVE  DeliverInv'
  <1> USE DEF PublisherInv
  <1>1. ASSUME NEW s \in Servers, TransportStep(s), UNCHANGED publisherVars  PROVE DeliverInv'
    BY <1>1, TransportDeliver
  <1>2. CASE SpoolStep
    <2>1. ASSUME NEW n \in SpoolSizes, HoldSpool(n)  PROVE DeliverInv'
      BY <2>1, DeliverUnchanged DEF HoldSpool, transportVars
    <2>2. ASSUME NEW n \in SpoolSizes, NEW s \in Servers, SendSpool(s, n)  PROVE DeliverInv'
      BY <2>2, SendEventsDeliver, PublisherAssumption DEF SendSpool
    <2> QED  BY <1>2, <2>1, <2>2 DEF SpoolStep
  <1>3. CASE QueueStep
    <2>1. ASSUME NEW s \in Servers, QueueResend(s)  PROVE DeliverInv'
      BY <2>1, QueueResendDeliver
    <2>2. ASSUME NEW s \in Servers, QueueNextSpool(s)  PROVE DeliverInv'
      <3>1. nextSpool \in Nat
        BY <2>2, PublisherAssumption
        DEF TypeInv, TypeOK, ControlTypeOK, QueueNextSpool, MayQueueNextSpool, MayQueueHeld
      <3> QED  BY <2>2, <3>1, SendEventsDeliver DEF QueueNextSpool
    <2>3. CASE QueueNothing
      BY <2>3, DeliverUnchanged DEF QueueNothing, transportVars
    <2> QED  BY <1>3, <2>1, <2>2, <2>3 DEF QueueStep
  <1>4. ASSUME NEW s \in Servers, AnswerStep(s)  PROVE DeliverInv'
    <2>1. ASSUME NEW k \in 0 .. Len(payloadList), Acked(s, k)  PROVE DeliverInv'
      BY <2>1, AckedDeliver
    <2>2. CASE Pong(s) \/ Ignored(s)
      <3>1. /\ \E type : Take(type, s)
            /\ UNCHANGED <<payloadVars, link, wire, received>>
        BY <2>2 DEF Pong, Ignored, publisherVars
      <3> QED  BY <3>1, DeliverTaken DEF DeliverInv, QuietLinks
    <2> QED  BY <1>4, <2>1, <2>2 DEF AnswerStep
  <1>5. ASSUME NEW s \in Servers, TimeoutStep(s)  PROVE DeliverInv'
    <2>1. CASE TimeoutPending(s) \/ TimeoutKeepalive(s) \/ TimeoutBackoff(s)
      BY <2>1, DeliverUnchanged DEF TimeoutPending, TimeoutKeepalive, TimeoutBackoff, transportVars
    <2>2. CASE ConnectRandom(s)
      <3>1. /\ UNCHANGED <<payloadVars, wire, eventChan, received>>
            /\ methodTimer /\ link' = [link EXCEPT ![s] = "down"]
        BY <2>2 DEF ConnectRandom
      <3>2. wire[s] = {}
        BY <3>1 DEF EndpointInv, OneConnected, FinishedLast, DeliverInv, QuietLinks
      <3>3. \A t \in Servers : link'[t] = IF t = s THEN "down" ELSE link[t]
        BY <3>1 DEF TypeInv, TypeOK, TransportTypeOK
      <3>4. QuietLinks'
        BY <3>1, <3>2, <3>3 DEF DeliverInv, QuietLinks
      <3>5. MessagesNumbered' /\ AnswersReceived' /\ Covered'
        BY <3>1 DEF DeliverInv, MessagesNumbered, AnswersReceived, Truthful, Covered, Sent, Base, Open,
                    payloadVars
      <3> QED  BY <3>4, <3>5 DEF DeliverInv
    <2> QED  BY <1>5, <2>1, <2>2 DEF TimeoutStep
  <1>6. CASE \E written \in BOOLEAN : RegistrarRun(written)
    BY <1>6, DeliverUnchanged DEF RegistrarRun
  <1>7. CASE Shutdown
    BY <1>7, DeliverUnchanged DEF Shutdown
  <1>8. CASE Crash
    <2>1. /\ wire' = [s \in Servers |-> {}] /\ eventChan' = <<>>
          /\ payloadList' = <<>> /\ spooled' = persisted /\ UNCHANGED received
      BY <1>8 DEF Crash
    <2>2. 1 .. persisted \subseteq received
      <3>1. persisted \in Nat /\ registered \in Nat /\ persisted <= registered
        BY DEF OffsetsInv, RegistrarBehind, TypeInv, TypeOK, RegistrarTypeOK
      <3>2. 1 .. registered \subseteq received
        BY ProcessedBefore
      <3> QED  BY <3>1, <3>2
    <2>3. Covered'
      BY <2>1, <2>2 DEF Covered
    <2> QED  BY <2>1, <2>3 DEF DeliverInv, QuietLinks, MessagesNumbered, AnswersReceived
  <1>9. CASE UNCHANGED vars
    BY <1>9, DeliverUnchanged DEF vars, publisherVars, transportVars
  <1> QED  BY <1>1, <1>2, <1>3, <1>4, <1>5, <1>6, <1>7, <1>8, <1>9, StatusStepDeliver DEF Next

LEMMA InitDeliver == Init => PublisherInv /\ DeliverInv
  <1> SUFFICES ASSUME Init PROVE PublisherInv /\ DeliverInv
    OBVIOUS
  <1>1. OrderInv /\ EndpointInv /\ HoldInv /\ OffsetsInv
    <2>1. EndpointInv
      BY FreshEndpoints DEF Init
    <2>2. /\ payload = <<>> /\ payloadList = <<>> /\ resendList = <<>> /\ registrarChan = <<>>
          /\ pending = [s \in Servers |-> {}]
          /\ spooled = 0 /\ registered = 0 /\ persisted = 0
      BY DEF Init
    <2> QED  BY <2>1, <2>2, FreshOrder, FreshHold, FreshOffsets
  <1>2. /\ wire = [s \in Servers |-> {}] /\ eventChan = <<>> /\ spooled = 0
    BY DEF Init
  <1>3. DeliverInv
    BY <1>2 DEF DeliverInv, QuietLinks, MessagesNumbered, AnswersReceived, Covered
  <1> QED  BY <1>1, <1>3, InitType DEF PublisherInv

LEMMA NextPublisher == PublisherInv /\ [Next]_vars => PublisherInv'
  <1> SUFFICES ASSUME PublisherInv, [Next]_vars PROVE PublisherInv'
    OBVIOUS
  <1>1. TypeInv' /\ OrderInv' /\ EndpointInv' /\ HoldInv'
    BY NextType, NextOrder, NextEndpoint, NextHold DEF PublisherInv
  <1>2. OffsetsInv'
    BY <1>1, NextOffsets DEF PublisherInv
  <1> QED  BY <1>1, <1>2 DEF PublisherInv

\* With method random no event is registered, in memory or in the state file,
\* that no server has acknowledged, whatever is resent, arrives late, is repeated
\* or crashes (publisher.go, OnAck and pullBackPending; registrar.go, Run).
THEOREM NothingLost ==
    ASSUME Method = "random"
    PROVE  Spec => []AtLeastOnce
  <1>1. PublisherInv /\ DeliverInv => AtLeastOnce
    BY ProcessedBefore DEF PublisherInv, OffsetsInv, RegistrarBehind, AtLeastOnce
  <1>2. PublisherInv /\ DeliverInv /\ [Next]_vars => DeliverInv'
    BY NextDeliver
  <1> QED  BY InitDeliver, NextPublisher, <1>1, <1>2, PTL DEF Spec

-----------------------------------------------------------------------------
(* The refinement of OrderedDelivery. *)

LEMMA InitKeepsPromise == Init => Promise!Init
  BY DEF Init, Promise!Init

\* A server acknowledges events of messages that have been spooled.
LEMMA ServerAckReceives ==
    ASSUME TypeInv, OffsetsInv, DeliverInv, UNCHANGED publisherVars, NEW s \in Servers,
           NEW m \in wire[s], NEW k \in 0 .. m.size, ServerAck(s, m, k)
    PROVE  Promise!Receive
  <1>1. /\ received' = received \cup ((m.base + 1) .. (m.base + k))
        /\ UNCHANGED <<spooled, registered, persisted>>
    BY DEF ServerAck, publisherVars, payloadVars, registrarVars
  <1>2. m.base \in Nat /\ m.size \in Nat /\ spooled \in Nat
    BY DEF TypeInv, TypeOK, TransportTypeOK, PayloadTypeOK, Message
  <1>3. m.nonce \in 1 .. Len(payload) /\ m.base = payload[m.nonce].hi - m.size
    BY DEF DeliverInv, MessagesNumbered, Sent, Base
  <1>4. payload[m.nonce].hi \in Nat /\ payload[m.nonce].hi <= spooled
    BY <1>3, PayloadNumbers DEF OffsetsInv, Ascending
  <1>5. (m.base + 1) .. (m.base + k) \subseteq 1 .. spooled
    BY <1>2, <1>3, <1>4
  <1> QED  BY <1>1, <1>5 DEF Promise!Receive

LEMMA SendEventsSpools ==
    ASSUME TypeInv, NEW s \in Servers, NEW n \in Nat, SendEvents(s, n)
    PROVE  Promise!Spool
  <1>1. spooled' = spooled + n /\ UNCHANGED <<received, registered, persisted>>
    BY DEF SendEvents, SendPayload, registrarVars
  <1>2. spooled \in Nat
    BY DEF TypeInv, TypeOK, PayloadTypeOK
  <1> QED  BY <1>1, <1>2 DEF Promise!Spool

LEMMA NextKeepsPromise ==
    ASSUME PublisherInv, DeliverInv, [Next]_vars
    PROVE  [Promise!Next]_(Promise!deliveryVars)
  <1> USE DEF PublisherInv
  <1>0. ASSUME UNCHANGED <<spooled, received, registered, persisted>>
        PROVE  [Promise!Next]_(Promise!deliveryVars)
    BY <1>0 DEF Promise!deliveryVars
  <1>1. ASSUME NEW s \in Servers, TransportStep(s), UNCHANGED publisherVars
        PROVE  [Promise!Next]_(Promise!deliveryVars)
    <2>1. UNCHANGED <<spooled, registered, persisted>>
      BY <1>1 DEF publisherVars, payloadVars, registrarVars
    <2>2. CASE UNCHANGED received
      BY <1>0, <2>1, <2>2
    <2>3. ASSUME NEW m \in wire[s], NEW k \in 0 .. m.size, ServerAck(s, m, k)
          PROVE  [Promise!Next]_(Promise!deliveryVars)
      BY <1>1, <2>3, ServerAckReceives DEF Promise!Next
    <2> QED  BY <1>1, <2>2, <2>3
             DEF TransportStep, Connect, ConnectionError, ForcedFailure, Disconnect, StopTransport, ServerPong
  <1>2. CASE SpoolStep
    <2>1. ASSUME NEW n \in SpoolSizes, HoldSpool(n)  PROVE [Promise!Next]_(Promise!deliveryVars)
      BY <1>0, <2>1 DEF HoldSpool, payloadVars, registrarVars, transportVars
    <2>2. ASSUME NEW n \in SpoolSizes, NEW s \in Servers, SendSpool(s, n)
          PROVE  [Promise!Next]_(Promise!deliveryVars)
      BY <2>2, SendEventsSpools, PublisherAssumption DEF SendSpool, Promise!Next
    <2> QED  BY <1>2, <2>1, <2>2 DEF SpoolStep
  <1>3. CASE QueueStep
    <2>1. ASSUME NEW s \in Servers, QueueResend(s)  PROVE [Promise!Next]_(Promise!deliveryVars)
      BY <1>0, <2>1 DEF QueueResend, SendPayload, registrarVars
    <2>2. ASSUME NEW s \in Servers, QueueNextSpool(s)  PROVE [Promise!Next]_(Promise!deliveryVars)
      <3>1. nextSpool \in Nat
        BY <2>2, PublisherAssumption
        DEF TypeInv, TypeOK, ControlTypeOK, QueueNextSpool, MayQueueNextSpool, MayQueueHeld
      <3> QED  BY <2>2, <3>1, SendEventsSpools DEF QueueNextSpool, Promise!Next
    <2>3. CASE QueueNothing
      BY <1>0, <2>3 DEF QueueNothing, payloadVars, registrarVars, transportVars
    <2> QED  BY <1>3, <2>1, <2>2, <2>3 DEF QueueStep
  <1>4. ASSUME NEW s \in Servers, StatusStep(s)  PROVE [Promise!Next]_(Promise!deliveryVars)
    BY <1>0, <1>4
    DEF StatusStep, StartedIdle, StartedFailed, Failed, Finished, FinishedClosing, PullBackPending,
        payloadVars, registrarVars
  <1>5. ASSUME NEW s \in Servers, AnswerStep(s)  PROVE [Promise!Next]_(Promise!deliveryVars)
    BY <1>0, <1>5 DEF AnswerStep, Acked, Pong, Ignored, publisherVars, payloadVars, registrarVars
  <1>6. ASSUME NEW s \in Servers, TimeoutStep(s)  PROVE [Promise!Next]_(Promise!deliveryVars)
    BY <1>0, <1>6
    DEF TimeoutStep, TimeoutPending, TimeoutKeepalive, TimeoutBackoff, ConnectRandom, payloadVars,
        registrarVars, transportVars
  <1>7. ASSUME NEW written \in BOOLEAN, RegistrarRun(written)  PROVE [Promise!Next]_(Promise!deliveryVars)
    <2>1. /\ registered \in Nat /\ registered' \in Nat /\ registered < registered'
          /\ registered' <= FirstUnregistered /\ persisted' \in {persisted, registered'}
      BY <1>7, RegistrarForward
    <2>2. FirstUnregistered \in Nat /\ FirstUnregistered <= spooled /\ spooled \in Nat
      BY FrontLowest DEF OffsetsInv, TypeInv, TypeOK, PayloadTypeOK
    <2>3. 1 .. FirstUnregistered \subseteq received
      BY ProcessedBefore
    <2>4. registered' \in registered + 1 .. spooled /\ 1 .. registered' \subseteq received
      BY <2>1, <2>2, <2>3
    <2>5. UNCHANGED <<spooled, received>>
      BY <1>7 DEF RegistrarRun, payloadVars
    <2>6. Promise!Register
      BY <2>1, <2>4, <2>5 DEF Promise!Register
    <2> QED  BY <2>6 DEF Promise!Next
  <1>8. CASE Shutdown
    BY <1>0, <1>8 DEF Shutdown, payloadVars, registrarVars
  <1>9. CASE Crash
    <2>1. Promise!Crash
      BY <1>9 DEF Crash, Promise!Crash
    <2> QED  BY <2>1 DEF Promise!Next
  <1>10. CASE UNCHANGED vars
    BY <1>0, <1>10 DEF vars, publisherVars, payloadVars, registrarVars, transportVars
  <1> QED  BY <1>1, <1>2, <1>3, <1>4, <1>5, <1>6, <1>7, <1>8, <1>9, <1>10 DEF Next

\* With method random the publisher, its transports and the registrar implement
\* OrderedDelivery: the offset moves forward only, over events that a server has
\* acknowledged, and a crash goes back to the state file and no further
\* (publisher.go:304-387; registrar.go, Run).
THEOREM PromiseKept ==
    ASSUME Method = "random"
    PROVE  Spec => KeepsPromise
  <1>1. PublisherInv /\ DeliverInv /\ [Next]_vars => DeliverInv'
    BY NextDeliver
  <1>2. PublisherInv /\ DeliverInv /\ [Next]_vars => [Promise!Next]_(Promise!deliveryVars)
    BY NextKeepsPromise
  <1> QED  BY InitDeliver, InitKeepsPromise, NextPublisher, <1>1, <1>2, PTL
           DEF Spec, KeepsPromise, Promise!Spec
=============================================================================
