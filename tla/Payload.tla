------------------------------ MODULE Payload ------------------------------
(***************************************************************************)
(* lc-lib/payload/payload.go: a spool of events, how many of them have     *)
(* been acknowledged, and the translation of the sequence numbers of the   *)
(* ACKN messages into events.                                              *)
(*                                                                         *)
(* The events of a stream are numbered 1, 2, 3, ... in file order, so the  *)
(* event slice is the interval of offsets lo+1..hi; re-slicing it in       *)
(* Rollup moves lo.  `processed' and the cached `payload' bytes are never  *)
(* read by the program and are left out; membership of Element and         *)
(* ResendElement is membership of the publisher's two lists.               *)
(***************************************************************************)
EXTENDS Integers

\* type Payload
PayloadRec == [lo : Nat, hi : Nat, lastSequence : Nat, sequenceLen : Nat,
               ackEvents : Nat, resending : BOOLEAN]

\* An AckEvent for the registrar: the events from+1..to.
AckEvent == [from : Nat, to : Nat]

NewPayload(lo, n) ==
    [lo |-> lo, hi |-> lo + n, lastSequence |-> 0, sequenceLen |-> n,
     ackEvents |-> 0, resending |-> FALSE]

\* Events(): offset before the first unacknowledged event, and how many.
EventsFrom(pp) == pp.lo + pp.ackEvents
EventsLen(pp)  == pp.hi - pp.lo - pp.ackEvents

HasAck(pp) == pp.ackEvents # 0

Complete(pp) == EventsLen(pp) = 0

\* The boolean that Ack(sequence) returns: this call acknowledged everything.
AckIsFull(pp, sequence) ==
    /\ sequence > pp.lastSequence
    /\ sequence >= pp.sequenceLen

\* Mutant of Ack: counts from the end of the sequence instead of the last one.
AckFromEnd(pp, sequence) ==
    IF sequence <= pp.lastSequence
    THEN pp
    ELSE [pp EXCEPT !.ackEvents = IF sequence >= pp.sequenceLen
                                  THEN pp.hi - pp.lo
                                  ELSE @ + (sequence - pp.sequenceLen),
                    !.lastSequence = sequence]

\* Mutant of Ack: off by one, the last but one event completes the payload.
AckEarly(pp, sequence) ==
    IF sequence <= pp.lastSequence
    THEN pp
    ELSE [pp EXCEPT !.ackEvents = IF sequence + 1 >= pp.sequenceLen
                                  THEN pp.hi - pp.lo
                                  ELSE @ + (sequence - pp.lastSequence),
                    !.lastSequence = sequence]

\* Ack(sequence): no change, full acknowledgement, or partial.
Ack(pp, sequence) ==
    IF sequence <= pp.lastSequence
    THEN pp
    ELSE [pp EXCEPT !.ackEvents = IF sequence >= pp.sequenceLen
                                  THEN pp.hi - pp.lo
                                  ELSE @ + (sequence - pp.lastSequence),
                    !.lastSequence = sequence]

\* Mutant of ResetSequence: keeps the length the first transmission had.
ResetSequenceOnly(pp) == [pp EXCEPT !.lastSequence = 0]

\* Mutant of ResetSequence: a resend goes on with the old numbering.
ResetNothing(pp) == pp

ResetSequence(pp) ==
    [pp EXCEPT !.lastSequence = 0, !.sequenceLen = EventsLen(pp)]

\* Rollup(): the events handed over, and the payload without them.
RollupEvents(pp) == [from |-> pp.lo, to |-> EventsFrom(pp)]
Rollup(pp)       == [pp EXCEPT !.lo = EventsFrom(pp), !.ackEvents = 0]

\* The relation the sequence numbers keep with the events, whatever the order
\* of Ack, Rollup and ResetSequence: what is left to acknowledge is what the
\* sequence still has to count, and a completed payload expects no more.
SequenceConsistent(pp) ==
    /\ pp.lo + pp.ackEvents <= pp.hi
    /\ IF Complete(pp) THEN pp.lastSequence >= pp.sequenceLen
                       ELSE pp.sequenceLen - pp.lastSequence = EventsLen(pp)
=============================================================================
