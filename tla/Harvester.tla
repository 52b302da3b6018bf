----------------------------- MODULE Harvester ------------------------------
(***************************************************************************)
(* One file, the application that writes it, the harvester that reads it   *)
(* (harvester/harvester.go) through its line reader and its codecs, and    *)
(* the prospector's decision to start a stopped harvester again.           *)
(*                                                                         *)
(* The goroutines are the harvester's read loop, the deadline routine of   *)
(* the multiline codec and the prospector's scan.  Times are abstracted to *)
(* what they guarantee: a periodic check of the file is due only when at   *)
(* least two passes of the read loop have ended since the last one (10     *)
(* seconds against a back off of one), and the dead time has passed only   *)
(* when the pass before ended at the end of the file.                      *)
(***************************************************************************)
EXTENDS Codecs, FiniteSets

CONSTANT Setups   \* configurations, files and faults to consider, see Setup

\* bytes, length: what the application writes, and the bound on it; size, maxLine: the line buffer; chain: codec configurations, first to last;
\* truncations: how often the application may start the file again; patient:
\* the pipeline never blocks for longer than the dead time; faults: reads, opens
\* or stats that fail; stops: Log Courier shuts down.
Setup == [bytes : SUBSET Bytes, length : Nat, size : Nat \ {0}, maxLine : Nat \ {0},
          chain : Seq([kind : CodecKinds, max : Nat \ {0}, timeout : BOOLEAN]),
          truncations : Nat, patient : BOOLEAN, faults : Nat,
          stops : BOOLEAN]

ASSUME HarvesterAssumption ==
    \A s \in Setups :
        /\ s \in Setup
        /\ s.chain # <<>>
        /\ \A i \in 1 .. Len(s.chain) :
              s.chain[i].timeout => i = Len(s.chain) /\ s.chain[i].kind = "previous"

VARIABLES
    setup,    \* the configuration, chosen at the start
    file,     \* the bytes of the file
    epoch,    \* how often it was truncated
    faults,   \* faults so far
    pc,       \* the read loop: start, read, got, emit, stop, closed
    pos,      \* the position of the open file
    reader,   \* h.reader
    eof,      \* err of ReadSlice: the last fill found nothing
    line,     \* what readline returned: [text, len], len = 0 at the end of file
    offset,   \* h.offset
    chain,    \* h.codec and h.codecChain
    stat,     \* h.fileinfo: the modification time seen last
    idle,     \* the last pass ended at the end of the file
    wait,     \* passes until a check of the file can be due
    error,    \* the harvester ends with an error
    out,      \* events in eventCallback, the first one waiting for the pipeline
    owner,    \* the goroutine that called it: event or deadline
    stopped,  \* stopChan is closed
    info,     \* what the prospector remembers: finishOffset, mtime, failed
    scan,     \* the modification time the scan in progress found
    seen,     \* epoch of the file that the harvester reads (history)
    covered,  \* bytes of that file in events sent, or filtered (history)
    dropped,  \* bytes of that file in events given up (history)
    last      \* the event sent last (history)

fileVars == <<setup, file, epoch>>
readVars == <<pos, reader, eof, line>>
histVars == <<seen, covered, dropped, last>>
vars == <<fileVars, faults, pc, readVars, offset, chain, stat, idle, wait, error, out, owner,
          stopped, info, scan, histVars>>

\* Every write and every truncation changes the modification time.
ModTime == <<epoch, Len(file)>>

AtEOF == [text |-> <<>>, len |-> 0]
NoEvent == Event(0, 0, <<>>)

NewChain(from) == [i \in DOMAIN setup.chain |-> NewCodec(setup.chain[i], from)]

TypeOK ==
    /\ setup \in Setups
    /\ file \in Seq(Bytes) /\ Len(file) <= setup.length
    /\ epoch \in 0 .. setup.truncations /\ seen \in 0 .. epoch
    /\ faults \in 0 .. setup.faults
    /\ pc \in {"start", "read", "got", "emit", "stop", "closed"}
    /\ pos \in Nat /\ offset \in Nat
    /\ reader.curMax \in 1 .. reader.maxLine
    /\ BufferedLen(reader) <= reader.size
    /\ eof \in BOOLEAN /\ idle \in BOOLEAN /\ error \in BOOLEAN /\ stopped \in BOOLEAN
    /\ Len(line.text) <= line.len /\ line.len <= reader.maxLine
    /\ Len(chain) = Len(setup.chain)
    /\ wait \in 0 .. 2
    /\ owner \in {"event", "deadline"}
    /\ info.finishOffset \in Nat /\ info.failed \in BOOLEAN
    /\ covered \cup dropped \subseteq 1 .. setup.length

Init ==
    /\ setup \in Setups
    /\ file = <<>> /\ epoch = 0 /\ faults = 0
    /\ pc = "start" /\ pos = 0
    /\ reader = NewLineReader(setup.size, setup.maxLine)
    /\ eof = FALSE /\ line = AtEOF
    /\ offset = 0 /\ chain = NewChain(0)
    /\ stat = ModTime /\ idle = FALSE /\ wait = 2 /\ error = FALSE
    /\ out = <<>> /\ owner = "event" /\ stopped = FALSE
    /\ info = [finishOffset |-> 0, mtime |-> ModTime, failed |-> FALSE]
    /\ scan = <<>>
    /\ seen = 0 /\ covered = {} /\ dropped = {} /\ last = NoEvent

-----------------------------------------------------------------------------
(* The application. *)

WriteByte(b) ==
    /\ b \in setup.bytes
    /\ Len(file) < setup.length
    /\ file' = Append(file, b)
    /\ UNCHANGED <<setup, epoch, faults, pc, readVars, offset, chain, stat, idle, wait, error,
                   out, owner, stopped, info, scan, histVars>>

Truncate ==
    /\ epoch < setup.truncations
    /\ file # <<>>
    /\ file' = <<>>
    /\ epoch' = epoch + 1
    /\ UNCHANGED <<setup, faults, pc, readVars, offset, chain, stat, idle, wait, error,
                   out, owner, stopped, info, scan, histVars>>

-----------------------------------------------------------------------------
(* Opening and reading. *)

Fault == faults < setup.faults /\ faults' = faults + 1

\* prepareHarvester and the start of harvest.
Open ==
    /\ pc = "start"
    /\ pc' = "read"
    /\ pos' = offset
    /\ reader' = NewLineReader(setup.size, setup.maxLine)
    /\ eof' = FALSE
    /\ stat' = ModTime
    /\ idle' = FALSE
    /\ wait' = 2
    /\ UNCHANGED <<fileVars, faults, line, offset, chain, error, out, owner, stopped, info,
                   scan, histVars>>

\* The file cannot be opened: harvest returns the offset it was given.
OpenFails ==
    /\ pc = "start"
    /\ Fault
    /\ pc' = "closed"
    /\ info' = [info EXCEPT !.finishOffset = offset, !.failed = TRUE]
    /\ UNCHANGED <<fileVars, readVars, offset, chain, stat, idle, wait, error, out, owner,
                   stopped, scan, histVars>>

\* ReadSlice has a line, or a piece of one that is too long.
ReadLine ==
    LET end == LineEnd(reader)
        cut == CutLine(reader, IF end > 0 THEN end ELSE reader.curMax)
        cr  == IF end > 0 THEN EndingLen(cut.line) ELSE 0
    IN  /\ pc = "read"
        /\ end > 0 \/ (~eof /\ TooLong(reader))
        /\ line' = [text |-> SubSeq(cut.line, 1, Len(cut.line) - cr), len |-> Len(cut.line)]
        /\ reader' = cut.reader
        /\ pc' = "got"
        /\ eof' = FALSE
        /\ UNCHANGED <<fileVars, faults, pos, offset, chain, stat, idle, wait, error, out,
                       owner, stopped, info, scan, histVars>>

\* ReadSlice goes round: the buffer is made room in and filled from the file.
ReadMore ==
    LET r == Spill(reader)
        available == SubSeq(file, pos + 1, Len(file))
    IN  /\ pc = "read"
        /\ ~eof /\ ~TooLong(reader) /\ LineEnd(reader) = 0
        /\ reader' = Fill(r, available)
        /\ pos' = pos + Len(reader'.buf) - Len(r.buf)
        /\ eof' = (available = <<>>)
        /\ UNCHANGED <<fileVars, faults, pc, line, offset, chain, stat, idle, wait, error,
                       out, owner, stopped, info, scan, histVars>>

\* ReadSlice returns io.EOF, and readline backs off.
ReadEOF ==
    /\ pc = "read"
    /\ eof /\ LineEnd(reader) = 0
    /\ line' = AtEOF
    /\ pc' = "got"
    /\ eof' = FALSE
    /\ UNCHANGED <<fileVars, faults, pos, reader, offset, chain, stat, idle, wait, error, out,
                   owner, stopped, info, scan, histVars>>

\* A read of the file fails, or the Stat of a check.
ReadFails ==
    /\ pc \in {"read", "got"}
    /\ Fault
    /\ pc' = "stop"
    /\ error' = TRUE
    /\ UNCHANGED <<fileVars, readVars, offset, chain, stat, idle, wait, out, owner, stopped,
                   info, scan, histVars>>

-----------------------------------------------------------------------------
(* The rest of performRead: a measurement with or without a check of the   *)
(* file, then the line goes to the codecs.                                 *)

\* The codec's timerLock: Event waits for a flush of the deadline routine.
CodecFree == out = <<>>

\* A line that passes no event on was filtered or is buffered by a multiline
\* codec; the first codec decides what is filtered.
Filtered(e) == setup.chain[1].kind = "filter" /\ ~Match(e.text)

Positions(e) == e.start + 1 .. e.end

ApplyLine ==
    LET e == Event(offset, offset + line.len, line.text)
    IN  /\ CodecFree
        /\ offset' = offset + line.len
        /\ \E r \in {ChainEvent(chain, e)} : chain' = r.chain /\ out' = r.events
        /\ owner' = "event"
        /\ covered' = IF Filtered(e) THEN covered \cup Positions(e) ELSE covered
        /\ pc' = "emit"
        /\ idle' = FALSE

\* Mutant of ApplyEOF: stopChan is looked at by measurements only.
ApplyEOFAnyway ==
    /\ idle' = TRUE
    /\ pc' = "read"
    /\ UNCHANGED <<offset, chain, out, owner, covered>>

\* A pass that ends at the end of the file looks at stopChan.
ApplyEOF ==
    /\ idle' = TRUE
    /\ pc' = IF stopped THEN "stop" ELSE "read"
    /\ UNCHANGED <<offset, chain, out, owner, covered>>

Apply ==
    /\ IF line.len > 0 THEN ApplyLine ELSE ApplyEOF
    /\ line' = AtEOF

Tick == wait' = IF wait = 0 THEN 0 ELSE wait - 1

\* No measurement is due, or one without a check that finds no stop request.
PerformRead ==
    /\ pc = "got"
    /\ Apply
    /\ Tick
    /\ UNCHANGED <<fileVars, faults, pos, reader, eof, stat, error, stopped, info, scan, seen, dropped,
                   last>>

\* A measurement finds stopChan closed: the line in hand is not used.
MeasureStop ==
    /\ pc = "got"
    /\ stopped
    /\ pc' = "stop"
    /\ UNCHANGED <<fileVars, faults, readVars, offset, chain, stat, idle, wait, error, out,
                   owner, stopped, info, scan, histVars>>

CheckDue == pc = "got" /\ wait = 0
Truncated == Len(file) < offset

\* statCheck: the file has not been modified since the last check.
Unchanged == stat = ModTime

Dead == idle /\ ~Truncated /\ Unchanged

\* handleTruncation, and the line in hand is dropped.
CheckTruncated ==
    /\ CheckDue
    /\ Truncated
    /\ pos' = 0
    /\ offset' = 0
    /\ reader' = ResetReader(reader)
    /\ chain' = [chain EXCEPT ![1] = ResetCodec(@)]
    /\ wait' = 1
    /\ pc' = "read"
    /\ seen' = epoch /\ covered' = {} /\ dropped' = {} /\ last' = NoEvent
    /\ UNCHANGED <<fileVars, faults, eof, line, stat, idle, error, out, owner, stopped, info,
                   scan>>

\* Nothing was read for the dead time.  A deadline flush comes first: the
\* previous timeout is shorter than the dead time.
CheckDead ==
    /\ CheckDue
    /\ Dead
    /\ CodecFree
    /\ chain[Len(chain)].conf.timeout => chain[Len(chain)].buffer = <<>>
    /\ pc' = "stop"
    /\ UNCHANGED <<fileVars, faults, readVars, offset, chain, stat, idle, wait, error, out,
                   owner, stopped, info, scan, histVars>>

\* The check passes and its result is kept; the next one is 10 seconds away.
CheckPasses ==
    /\ CheckDue
    /\ ~Truncated
    /\ ~stopped
    /\ Apply
    /\ stat' = ModTime
    /\ wait' = 1
    /\ UNCHANGED <<fileVars, faults, pos, reader, eof, error, stopped, info, scan, seen, dropped,
                   last>>

-----------------------------------------------------------------------------
(* eventCallback, called by the read loop or by the deadline routine. *)

\* Where the read loop goes once its own call has nothing left to send.
Returned == IF owner = "event" /\ pc = "emit" /\ out' = <<>> THEN "read" ELSE pc

\* The pipeline takes the event.
Send ==
    /\ out # <<>>
    /\ out' = Tail(out)
    /\ last' = Head(out)
    /\ covered' = covered \cup Positions(Head(out))
    /\ pc' = Returned
    /\ UNCHANGED <<fileVars, faults, readVars, offset, chain, stat, idle, wait, error, owner,
                   stopped, info, scan, seen, dropped>>

\* The codec had nothing to hand on.
NothingToSend ==
    /\ pc = "emit" /\ owner = "event" /\ out = <<>>
    /\ pc' = "read"
    /\ UNCHANGED <<fileVars, faults, readVars, offset, chain, stat, idle, wait, error, out,
                   owner, stopped, info, scan, histVars>>

\* The event is given up: a stop was requested, or the pipeline was blocked for
\* longer than the dead time while the file did not change.
GiveUp ==
    /\ out # <<>>
    /\ \/ stopped /\ UNCHANGED wait
       \/ ~setup.patient /\ wait = 0 /\ ~Truncated /\ Unchanged /\ wait' = 2
    /\ out' = Tail(out)
    /\ dropped' = dropped \cup Positions(Head(out))
    /\ pc' = Returned
    /\ UNCHANGED <<fileVars, faults, readVars, offset, chain, stat, idle, error, owner,
                   stopped, info, scan, seen, covered, last>>

\* A measurement while the pipeline is blocked: what the check finds is kept,
\* but for a truncation, which is left to the next one.
BlockedCheck ==
    /\ out # <<>>
    /\ wait = 0
    /\ wait' = 2
    /\ stat' = IF Truncated THEN stat ELSE ModTime
    /\ UNCHANGED <<fileVars, faults, pc, readVars, offset, chain, idle, error, out, owner,
                   stopped, info, scan, histVars>>

\* deadlineRoutine: the previous timeout flushes the buffered lines, unless an
\* Event of the read loop holds timerLock.
DeadlineFlush ==
    LET c == chain[Len(chain)]
        r == Flush(c)
    IN  /\ pc \in {"read", "got", "stop"}
        /\ CodecFree
        /\ c.conf.timeout
        /\ c.buffer # <<>>
        /\ chain' = [chain EXCEPT ![Len(chain)] = r.codec]
        /\ out' = r.events
        /\ owner' = "deadline"
        /\ UNCHANGED <<fileVars, faults, pc, readVars, offset, stat, idle, wait, error,
                       stopped, info, scan, histVars>>

-----------------------------------------------------------------------------
(* The end of the harvester, and the prospector. *)

\* The harvester is gone, and with it what it has read and not sent.
Forget ==
    /\ pos' = 0 /\ eof' = FALSE /\ line' = AtEOF
    /\ reader' = NewLineReader(setup.size, setup.maxLine)
    /\ chain' = NewChain(Teardown(chain))
    /\ stat' = <<0, 0>> /\ idle' = FALSE /\ wait' = 2

\* codecTeardown waits for the deadline routine; setHarvesterStopped.
Finish ==
    /\ pc = "stop"
    /\ CodecFree
    /\ pc' = "closed"
    /\ error' = FALSE
    /\ info' = [finishOffset |-> Teardown(chain), mtime |-> stat, failed |-> error]
    /\ Forget
    /\ UNCHANGED <<fileVars, faults, offset, out, owner, stopped, scan, histVars>>

\* A scan of the prospector finds the file.
ScanStat ==
    /\ ~stopped
    /\ scan = <<>>
    /\ scan' = ModTime
    /\ UNCHANGED <<fileVars, faults, pc, readVars, offset, chain, stat, idle, wait, error, out,
                   owner, stopped, info, histVars>>

\* Mutant of Resumes: a failed harvester waits for the file to change.
ResumesChanged == info.mtime # scan

Resumes == info.failed \/ info.mtime # scan

\* The scan goes on, with the stat it made before.  What it remembers of a file
\* whose harvester runs is not looked at until setHarvesterStopped replaces it.
ScanProcess ==
    /\ ~stopped
    /\ scan # <<>>
    /\ scan' = <<>>
    /\ info' = IF pc = "closed" THEN [info EXCEPT !.mtime = scan, !.failed = FALSE] ELSE info
    /\ IF pc = "closed" /\ Resumes
       THEN /\ pc' = "start"
            /\ offset' = info.finishOffset
            /\ chain' = NewChain(info.finishOffset)
       ELSE UNCHANGED <<pc, offset, chain>>
    /\ UNCHANGED <<fileVars, faults, readVars, stat, idle, wait, error, out, owner, stopped,
                   histVars>>

Stop ==
    /\ setup.stops
    /\ ~stopped
    /\ stopped' = TRUE
    /\ scan' = <<>>
    /\ UNCHANGED <<fileVars, faults, pc, readVars, offset, chain, stat, idle, wait, error, out,
                   owner, info, histVars>>

-----------------------------------------------------------------------------
Check == CheckTruncated \/ CheckDead \/ CheckPasses
ReadLoop == Open \/ ReadLine \/ ReadMore \/ ReadEOF \/ PerformRead \/ MeasureStop
            \/ NothingToSend \/ Finish

Next ==
    \/ \E b \in Bytes : WriteByte(b)
    \/ Truncate
    \/ OpenFails
    \/ ReadFails
    \/ ReadLoop
    \/ Check
    \/ Send
    \/ GiveUp
    \/ BlockedCheck
    \/ DeadlineFlush
    \/ ScanStat
    \/ ScanProcess
    \/ Stop

Spec == Init /\ [][Next]_vars

\* Goroutines that can go on do; a check comes round every 10 seconds, the
\* pipeline takes an event in the end, and the prospector scans for ever.
FairSpec ==
    /\ Spec
    /\ WF_vars(ReadLoop \/ Check)
    /\ SF_vars(Check)
    /\ WF_vars(Send \/ GiveUp)
    /\ WF_vars(DeadlineFlush)
    /\ WF_vars(ScanStat \/ ScanProcess)

-----------------------------------------------------------------------------
(* Properties. *)

\* The harvester reads the file there is: no truncation has gone unnoticed.
InSync == seen = epoch

\* What the registrar will resume from after a crash, and what the prospector
\* resumes from, is never beyond a byte that was neither sent nor filtered, but
\* for the events that eventCallback has given up.
NothingPassedOver ==
    InSync => /\ 1 .. last.end \subseteq covered \cup dropped
              /\ pc = "closed" => 1 .. info.finishOffset \subseteq covered \cup dropped

\* What is left of bytes without line endings.
Content(bytes) ==
    LET kept[n \in 0 .. Len(bytes)] ==
            IF n = 0 THEN <<>>
            ELSE IF bytes[n] \in {Newline, Return} THEN kept[n - 1]
            ELSE Append(kept[n - 1], bytes[n])
    IN  kept[Len(bytes)]

\* An event holds what the file has between the offsets of the event.
EventsFaithful ==
    InSync /\ last.end <= Len(file) =>
        Content(last.text) = Content(SubSeq(file, last.start + 1, last.end))

\* Events of one file never overlap: nothing is sent twice without a restart.
SentOnce ==
    [][last' # last /\ seen' = seen => Positions(last') \cap covered = {}]_vars

\* The chain holds no lines back for a line that may never come.
Prompt == \A i \in DOMAIN setup.chain :
             setup.chain[i].kind \in {"plain", "filter"} \/ setup.chain[i].timeout

\* Every line that was completed is sent in the end, however often the harvester
\* stops for the dead time or fails, and however its stops race with the writes
\* and the scans; and a truncation is noticed as long as the file stays shorter
\* than what was read of it.
Harvested ==
    <>[](~stopped =>
            IF InSync
            THEN Prompt => \A n \in 1 .. Len(file) :
                              file[n] = Newline => 1 .. n \subseteq covered \cup dropped
            ELSE Len(file) >= offset)

\* A stop request ends the harvester, also when the pipeline is blocked.
StopEnds == stopped ~> (pc = "closed")
=============================================================================
