----------------------------- MODULE LineReader -----------------------------
(***************************************************************************)
(* harvester/linereader.go: the buffer between a file and the lines cut    *)
(* from it.  start and end of the code delimit what the buffer holds, so   *)
(* that buf here is that slice; overflow is the joined list of full        *)
(* buffers that a line longer than one buffer has left behind.  A call of  *)
(* ReadSlice is a loop of scans and fills, and the file may change between *)
(* them: the operators below are one pass of that loop each.               *)
(***************************************************************************)
EXTENDS Integers, Sequences

\* Bytes that matter: a line terminator, the carriage return before it, and a
\* byte that makes the line match the patterns of a codec.
Newline == "n"
Return  == "r"
Matcher == "m"
Bytes   == {Newline, Return, Matcher}

NewLineReader(size, maxLine) ==
    [size |-> size, maxLine |-> maxLine, curMax |-> maxLine, buf |-> <<>>, overflow |-> <<>>]

\* Reset forgets the buffer only: overflow and curMax stay.
ResetReader(r) == [r EXCEPT !.buf = <<>>]

BufferedLen(r) == Len(r.buf)

\* Where the first newline is that the limit lets through, 0 if nowhere.
LineEnd(r) ==
    LET ends == {n \in 1 .. Len(r.buf) : n <= r.curMax /\ r.buf[n] = Newline}
    IN  IF ends = {} THEN 0 ELSE CHOOSE n \in ends : \A k \in ends : n <= k

TooLong(r) == Len(r.buf) >= r.curMax

\* The end of ReadSlice: n bytes of the buffer leave, after the overflow.
CutLine(r, n) ==
    [line   |-> r.overflow \o SubSeq(r.buf, 1, n),
     reader |-> [r EXCEPT !.buf = SubSeq(@, n + 1, Len(@)), !.overflow = <<>>,
                          !.curMax = r.maxLine]]

\* A full buffer without a line is put aside, and counts towards the limit.
Spill(r) ==
    IF Len(r.buf) < r.size THEN r
    ELSE [r EXCEPT !.overflow = @ \o r.buf, !.buf = <<>>, !.curMax = @ - r.size]

\* fill: the unread bytes move to the front and the rest of the buffer is read.
Fill(r, available) ==
    LET room == r.size - Len(r.buf)
    IN  [r EXCEPT !.buf = @ \o (IF Len(available) <= room THEN available
                                ELSE SubSeq(available, 1, room))]

\* readline: how many bytes of a complete line are its ending.
EndingLen(line) == IF Len(line) > 1 /\ line[Len(line) - 1] = Return THEN 2 ELSE 1
=============================================================================
