------------------------------- MODULE Codecs -------------------------------
(***************************************************************************)
(* The codecs of a harvester (lc-lib/codecs): plain, filter, and multiline *)
(* with what = previous or next.  A codec takes a line with its offsets    *)
(* and hands events to the next codec of the chain.  Lines are sequences   *)
(* of bytes without their endings.                                         *)
(***************************************************************************)
EXTENDS LineReader

CodecKinds == {"plain", "filter", "previous", "next"}

Event(start, end, text) == [start |-> start, end |-> end, text |-> text]

\* PatternCollection.Match for the patterns at hand: the line starts with Matcher.
Match(text) == text # <<>> /\ text[1] = Matcher

\* NewCodec: conf is [kind, max, timeout], max and timeout are multiline's.
NewCodec(conf, offset) ==
    [conf |-> conf, lastOffset |-> offset, startOffset |-> 0, endOffset |-> offset, buffer |-> <<>>]

Multiline(c) == c.conf.kind \in {"previous", "next"}

\* Mutant of ResetCodec: multiline keeps the lines of the file that is gone.
ResetOffsetOnly(c) == IF Multiline(c) THEN [c EXCEPT !.lastOffset = 0] ELSE c

\* Reset: plain and filter do nothing.
ResetCodec(c) ==
    IF Multiline(c) THEN [c EXCEPT !.lastOffset = 0, !.buffer = <<>>] ELSE c

\* The lines of a multiline event, joined with a newline.
Join(lines) ==
    LET joined[n \in 1 .. Len(lines)] ==
            IF n = 1 THEN lines[1] ELSE Append(joined[n - 1], Newline) \o lines[n]
    IN  joined[Len(lines)]

\* What a codec makes of a call: its new state and the events it handed on.
Result(c, events) == [codec |-> c, events |-> events]

\* Mutant of Flush: the offset to resume from stays where it was.
FlushKeepingOffset(c) ==
    IF c.buffer = <<>> THEN Result(c, <<>>)
    ELSE Result([c EXCEPT !.buffer = <<>>], <<Event(c.startOffset, c.endOffset, Join(c.buffer))>>)

Flush(c) ==
    IF c.buffer = <<>> THEN Result(c, <<>>)
    ELSE Result([c EXCEPT !.buffer = <<>>, !.lastOffset = c.endOffset],
                <<Event(c.startOffset, c.endOffset, Join(c.buffer))>>)

PlainEvent(c, e) == Result([c EXCEPT !.lastOffset = e.end], <<e>>)

FilterEvent(c, e) ==
    Result([c EXCEPT !.lastOffset = e.end], IF Match(e.text) THEN <<e>> ELSE <<>>)

\* The loop that splits at max: as long as what is buffered and the line reach
\* max, the part that fits is sent.  The ends count back from the end of the
\* line, as if the line had no ending.
Split(c, e) ==
    LET max    == c.conf.max
        used   == IF c.buffer = <<>> THEN 0 ELSE Len(Join(c.buffer)) + 1
        over   == used + Len(e.text) - max
        pieces == IF over < 0 THEN 0 ELSE 1 + (over \div max)
        cut(j) == max - used + (j - 1) * max      \* where piece j of the text ends
        end(j) == e.end - (Len(e.text) - cut(j))
        piece(j) == IF j = 1
                    THEN Event(c.startOffset, end(1),
                               Join(Append(c.buffer, SubSeq(e.text, 1, cut(1)))))
                    ELSE Event(end(j - 1), end(j), SubSeq(e.text, cut(j - 1) + 1, cut(j)))
    IN  IF pieces = 0 THEN [codec |-> c, text |-> e.text, events |-> <<>>]
        ELSE [codec  |-> [c EXCEPT !.buffer = <<>>, !.lastOffset = end(pieces),
                                   !.startOffset = end(pieces)],
              text   |-> SubSeq(e.text, cut(pieces) + 1, Len(e.text)),
              events |-> [j \in 1 .. pieces |-> piece(j)]]

MultilineEvent(c, e) ==
    LET before == IF c.conf.kind = "previous" /\ ~Match(e.text) THEN Flush(c) ELSE Result(c, <<>>)
        opened == IF before.codec.buffer = <<>> THEN [before.codec EXCEPT !.startOffset = e.start]
                  ELSE before.codec
        split  == Split(opened, e)
        stored == [split.codec EXCEPT !.endOffset = e.end, !.buffer = Append(@, split.text)]
        after  == IF c.conf.kind = "next" /\ ~Match(e.text) THEN Flush(stored)
                  ELSE Result(stored, <<>>)
    IN  Result(after.codec, before.events \o split.events \o after.events)

CodecEvent(c, e) ==
    CASE c.conf.kind = "plain"  -> PlainEvent(c, e)
      [] c.conf.kind = "filter" -> FilterEvent(c, e)
      [] OTHER                  -> MultilineEvent(c, e)

\* Every event that one codec hands on goes through the next of the chain.
FeedAll(c, events) ==
    LET fed[n \in 0 .. Len(events)] ==
            IF n = 0 THEN Result(c, <<>>)
            ELSE LET p == fed[n - 1]
                     r == CodecEvent(p.codec, events[n])
                 IN  Result(r.codec, p.events \o r.events)
    IN  fed[Len(events)]

\* A line goes through the whole chain: the codecs after it, and what came out.
ChainEvent(chain, e) ==
    LET fed[i \in 0 .. Len(chain)] ==
            IF i = 0 THEN [chain |-> chain, events |-> <<e>>]
            ELSE LET p == fed[i - 1]
                     r == FeedAll(chain[i], p.events)
                 IN  [chain |-> [p.chain EXCEPT ![i] = r.codec], events |-> r.events]
    IN  fed[Len(chain)]

\* Mutant of Teardown: the offset of what was read, not of what was sent.
TeardownRead(chain) == Head(chain).endOffset

\* codecTeardown: the offset of the first codec is the one to resume from.
Teardown(chain) == Head(chain).lastOffset
=============================================================================
