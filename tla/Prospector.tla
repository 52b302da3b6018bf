----------------------------- MODULE Prospector -----------------------------
(***************************************************************************)
(* lc-lib/prospector with the harvesters it starts (lc-lib/harvester) and  *)
(* the registrar events of both (lc-lib/registrar): finding, rotating and  *)
(* resuming files.                                                         *)
(*                                                                         *)
(* Files are inodes with a number of lines, and every change of a file     *)
(* adds a line, so that its size is its modification time too.  Offsets    *)
(* are lines.  What follows the harvesters is a queue: AcksInOrder of the  *)
(* publisher gives acknowledgements in the order of the events.  The       *)
(* registrar applies what it is sent at once and saves without an error.   *)
(***************************************************************************)
EXTENDS Integers, Sequences, FiniteSets

CONSTANTS NumNames,       \* paths the configuration matches, in the order of Glob
          Inodes,
          Infos,          \* bound: prospectorInfo structures in use at a time
          MaxLines,       \* bound: lines per file
          MaxChanges,     \* bound: files created, renamed and deleted
          PipeCap,        \* events between the harvesters and their acknowledgement
          MaxFaults,      \* bound: crashes, and events held up for longer than "dead time"
          FromBeginning   \* the flag -from-beginning

ASSUME ProspectorAssumption ==
    /\ NumNames \in Nat \ {0}
    /\ IsFiniteSet(Infos) /\ Infos \subseteq Nat \ {0}
    /\ IsFiniteSet(Inodes) /\ Inodes \subseteq Nat \ {0}
    /\ MaxLines \in Nat /\ MaxChanges \in Nat /\ MaxFaults \in Nat
    /\ PipeCap \in Nat \ {0}
    /\ FromBeginning \in BOOLEAN

Names == 1 .. NumNames
Lines == 0 .. MaxLines
None  == 0

\* The size of an inode that is not in use.
Unused == -1

VARIABLES
    dir,            \* the inode each path leads to, or None
    size,           \* lines of each inode
    changes,
    pc,             \* "idle", "scan" or "clean" of runOnce
    todo,           \* matches of Glob that scan has not processed
    info,           \* the prospectorInfo structures, and their harvesters
    index,          \* prospectorindex: the info of each path, or None
    prospectors,    \* the infos of p.prospectors
    fromBeginning,
    spool,          \* registrarSpool
    pipe,           \* events on their way, oldest first
    registry,       \* the registrar's state: its entry for each info
    saved,          \* the entries of the state file
    hasState,       \* there is a state file
    acked,          \* lines of each inode that were acknowledged (history)
    skipped,        \* lines that were there before harvesting began (history)
    dropped,        \* lines eventCallback gave up (history)
    stubbed,        \* an error was stored in place of a file (history)
    crashes

fileVars    == <<dir, size, changes>>
scanVars    == <<pc, todo, info, index, prospectors, fromBeginning, spool>>
stateVars   == <<registry, saved, hasState>>
historyVars == <<acked, skipped, dropped, stubbed, crashes>>
vars        == <<fileVars, scanVars, pipe, stateVars, historyVars>>

\* type prospectorInfo, with its harvester: run, path, off, hstat and failed are
\* the harvester's; "done" is a FinishStatus that waits in its channel.
InfoRec == [file : Names, inode : Inodes \cup {None}, stat : Lines \cup {Unused}, seen : BOOLEAN,
            status : {"ok", "resume", "failed", "missing", "duplicate"},
            orphaned : {"no", "maybe", "yes"}, finish : Lines,
            run : {"no", "open", "read", "done"}, path : Names, off : Lines,
            hstat : Lines \cup {Unused}, failed : BOOLEAN]

\* type FileState
Entry == [source : Names, inode : Inodes, offset : Lines]

\* Registrar events of the prospector, in the order they were added: at most one
\* per info in a scan.
SpoolEvent == [type : {"discover"}, info : Infos, entry : Entry]
         \cup [type : {"renamed"}, info : Infos, source : Names]
         \cup [type : {"deleted"}, info : Infos]

\* The state keeps its types: no harvester reads past the end of its file.
TypeOK ==
    /\ dir \in [Names -> Inodes \cup {None}] /\ size \in [Inodes -> Lines \cup {Unused}] /\ changes \in Nat
    /\ pc \in {"idle", "scan", "clean"} /\ todo \subseteq Names
    /\ info \in [Infos -> InfoRec]
    /\ index \in [Names -> Infos \cup {None}]
    /\ prospectors \subseteq Infos
    /\ fromBeginning \in BOOLEAN
    /\ spool \subseteq SpoolEvent
    /\ pipe \in Seq([info : Infos, line : Lines])
    /\ DOMAIN registry \subseteq Infos /\ \A i \in DOMAIN registry : registry[i] \in Entry
    /\ saved \subseteq Entry /\ hasState \in BOOLEAN

-----------------------------------------------------------------------------
(* The log files (external). *)

CreateFile(f, ino) ==
    /\ dir[f] = None
    /\ size[ino] = Unused /\ \A j \in Inodes : size[j] = Unused => ino <= j
    /\ dir' = [dir EXCEPT ![f] = ino]
    /\ size' = [size EXCEPT ![ino] = 0]

RenameFile(f, g) ==
    /\ dir[f] # None /\ f # g
    /\ dir' = [dir EXCEPT ![g] = dir[f], ![f] = None]
    /\ UNCHANGED size

DeleteFile(f) ==
    /\ dir[f] # None
    /\ dir' = [dir EXCEPT ![f] = None]
    /\ UNCHANGED size

AppendLine(ino) ==
    /\ size[ino] \in 0 .. MaxLines - 1
    /\ size' = [size EXCEPT ![ino] = @ + 1]
    /\ UNCHANGED <<dir, changes, scanVars, pipe, stateVars, historyVars>>

ChangeFiles ==
    /\ changes < MaxChanges
    /\ changes' = changes + 1
    /\ \E f \in Names :
         \/ \E ino \in Inodes : CreateFile(f, ino)
         \/ \E g \in Names : RenameFile(f, g)
         \/ DeleteFile(f)
    /\ UNCHANGED <<scanVars, pipe, stateVars, historyVars>>

-----------------------------------------------------------------------------
(* Harvesters. *)

MoreFaults == crashes + Cardinality(dropped) < MaxFaults

Harvesting(i) == UNCHANGED <<fileVars, pc, todo, index, prospectors, fromBeginning, spool,
                             stateVars, acked, skipped, stubbed, crashes>>

\* prepareHarvester opens the path, and wants the file the prospector saw there.
Open(i) ==
    /\ info[i].run = "open"
    /\ info' = IF dir[info[i].path] = info[i].inode
               THEN [info EXCEPT ![i].run = "read", ![i].hstat = size[info[i].inode]]
               ELSE [info EXCEPT ![i].run = "done", ![i].failed = TRUE]
    /\ UNCHANGED <<pipe, dropped>>
    /\ Harvesting(i)

Unread(i) == info[i].run = "read" /\ info[i].off < size[info[i].inode]

\* performRead with a line, and eventCallback when there is room.
Read(i) ==
    /\ Unread(i)
    /\ Len(pipe) < PipeCap
    /\ pipe' = Append(pipe, [info |-> i, line |-> info[i].off + 1])
    /\ info' = [info EXCEPT ![i].off = @ + 1]
    /\ UNCHANGED dropped
    /\ Harvesting(i)

\* eventCallback waits for longer than "dead time" and the file has not changed:
\* takeMeasurements asks to stop, the event is not sent, and reading goes on.
ReadBlocked(i) ==
    /\ Unread(i)
    /\ Len(pipe) = PipeCap
    /\ info[i].hstat = size[info[i].inode]
    /\ MoreFaults
    /\ dropped' = dropped \cup {<<info[i].inode, info[i].off + 1>>}
    /\ info' = [info EXCEPT ![i].off = @ + 1]
    /\ UNCHANGED pipe
    /\ Harvesting(i)

\* statCheck stores what it has seen, or stops when nothing was read or changed
\* for "dead time".
StatCheck(i) ==
    /\ info[i].run = "read"
    /\ \/ /\ info[i].hstat # size[info[i].inode]
          /\ info' = [info EXCEPT ![i].hstat = size[info[i].inode]]
       \/ /\ info[i].hstat = size[info[i].inode] /\ ~Unread(i)
          /\ info' = [info EXCEPT ![i].run = "done"]
    /\ UNCHANGED <<pipe, dropped>>
    /\ Harvesting(i)

-----------------------------------------------------------------------------
(* The registrar. *)

\* toCanonical and writeRegistry: one entry per path, any of them on conflict.
Canonical(reg) ==
    LET entries == {reg[i] : i \in DOMAIN reg}
    IN  {S \in SUBSET entries : \A e \in entries : Cardinality({d \in S : d.source = e.source}) = 1}

Save(reg) == saved' \in Canonical(reg) /\ hasState' = TRUE

\* Mutant of Acked: looks for the entry by path and not by stream.
AckedByPath(ack) ==
    [i \in DOMAIN registry |-> IF registry[i].source = info[ack.info].path
                               THEN [registry[i] EXCEPT !.offset = ack.line] ELSE registry[i]]

\* AckEvent.Process: streams without an entry are left out.
Acked(ack) ==
    [i \in DOMAIN registry |-> IF i = ack.info THEN [registry[i] EXCEPT !.offset = ack.line]
                               ELSE registry[i]]

\* The publisher acknowledges the oldest event.
Acknowledge ==
    LET ack == Head(pipe)
    IN  /\ pipe # <<>>
        /\ pipe' = Tail(pipe)
        /\ acked' = [acked EXCEPT ![info[ack.info].inode] = @ \cup {ack.line}]
        /\ registry' = Acked(ack)
        /\ Save(registry')
        /\ UNCHANGED <<fileVars, scanVars, skipped, dropped, stubbed, crashes>>

\* DiscoverEvent, RenamedEvent and DeletedEvent.Process.
Discovered(events) == {e \in events : e.type = "discover"}
Deleted(events)    == {e.info : e \in {d \in events : d.type = "deleted"}}
Processed(events)  ==
    LET Source(i) == {e.source : e \in {d \in events : d.type = "renamed" /\ d.info = i}}
        New(i)    == {e.entry : e \in {d \in Discovered(events) : d.info = i}}
    IN  [i \in (DOMAIN registry \cup {e.info : e \in Discovered(events)}) \ Deleted(events) |->
           IF New(i) # {} THEN CHOOSE e \in New(i) : TRUE
           ELSE IF Source(i) # {} THEN [registry[i] EXCEPT !.source = CHOOSE s \in Source(i) : TRUE]
           ELSE registry[i]]

\* registrarSpool.Send: the registrar gets the events of a scan together.
Send(events) ==
    IF events = {} THEN UNCHANGED stateVars ELSE registry' = Processed(events) /\ Save(registry')

-----------------------------------------------------------------------------
(* processFile. *)

\* Structures nothing refers to any more.
Free == {i \in Infos : /\ i \notin prospectors /\ i \notin DOMAIN registry
                       /\ \A f \in Names : index[f] # i
                       /\ info[i].run = "no"
                       /\ \A e \in spool : e.info # i
                       /\ \A n \in 1 .. Len(pipe) : pipe[n].info # i}
NewInfo == CHOOSE i \in Free : \A j \in Free : i <= j

Invalid(i) == info[i].status \in {"missing", "duplicate"}

Blank(f) == [file |-> f, inode |-> None, stat |-> Unused, seen |-> FALSE, status |-> "ok",
             orphaned |-> "no", finish |-> 0, run |-> "no", path |-> f, off |-> 0,
             hstat |-> Unused, failed |-> FALSE]

\* newProspectorInfoInvalid, seen in this scan.
Stub(f, error) == [Blank(f) EXCEPT !.status = error, !.seen = TRUE]

FromFileInfo(f) == [Blank(f) EXCEPT !.inode = dir[f], !.stat = size[dir[f]]]

\* isRunning and setHarvesterStopped.
Polled(r) ==
    IF r.run # "done" THEN r
    ELSE [Blank(r.file) EXCEPT !.inode = r.inode, !.seen = r.seen, !.orphaned = r.orphaned,
                               !.finish = r.off, !.stat = r.hstat,
                               !.status = IF r.failed THEN "failed" ELSE r.status]

\* startHarvesterWithOffset
Started(r, offset) ==
    [r EXCEPT !.run = "open", !.path = r.file, !.off = offset, !.hstat = r.stat,
              !.failed = FALSE, !.status = "ok"]

Resumes(r, lines, dead) ==
    /\ r.run = "no"
    /\ \/ r.status = "resume" /\ ~(r.finish = lines /\ dead)
       \/ r.status = "failed"
       \/ r.status = "ok" /\ r.stat # lines

\* The end of processFile: resume a stopped harvester, and update the info.
Updated(r, lines, dead) ==
    LET q == Polled(r)
        u == [q EXCEPT !.stat = lines, !.seen = TRUE,
                       !.status = IF q.run = "no" /\ @ = "resume" THEN "ok" ELSE @]
    IN  IF Resumes(q, lines, dead) THEN Started(u, u.finish) ELSE u

\* Mutant of SameFile: does not look among the orphans.
SameFileIndexed(f) == {k \in prospectors : /\ ~Invalid(k)
                                           /\ info[k].orphaned = "no" /\ info[k].file # f
                                           /\ info[k].inode = dir[f]}

\* What lookupFileIds may find for a path: the files with its inode, except
\* the one this path had.
SameFile(f) == {k \in prospectors : /\ ~Invalid(k)
                                    /\ ~(info[k].orphaned = "no" /\ info[k].file = f)
                                    /\ info[k].inode = dir[f]}

\* The next match, and how it compares with the index.
IsNext(f) == pc = "scan" /\ f \in todo /\ \A g \in todo : f <= g
IsKnown(f)   == index[f] # None /\ ~Invalid(index[f])
IsRotated(f) == IsKnown(f) /\ info[index[f]].inode # dir[f]

\* The structures once the file that had the path is orphaned.
Orphaned(f) ==
    [i \in Infos |-> IF IsKnown(f) /\ i = index[f] THEN [info[i] EXCEPT !.orphaned = "maybe"] ELSE info[i]]

ProcessedFile(f) ==
    /\ todo' = todo \ {f}
    /\ pc' = IF todo = {f} THEN "clean" ELSE "scan"
    /\ UNCHANGED <<fileVars, fromBeginning, pipe, stateVars, acked, dropped, crashes>>

\* Store an error in place of the file.
StoreStub(f, error) ==
    /\ Free # {}
    /\ info' = [Orphaned(f) EXCEPT ![NewInfo] = Stub(f, error)]
    /\ prospectors' = prospectors \cup {NewInfo}
    /\ index' = [index EXCEPT ![f] = NewInfo]
    /\ stubbed' = TRUE
    /\ UNCHANGED <<spool, skipped>>

\* Stat fails: the file is gone since Glob matched it.  The same error again only
\* updates the stub.
StatFails(f) ==
    /\ IsNext(f) /\ dir[f] = None
    /\ IF index[f] # None /\ info[index[f]].status = "missing"
       THEN /\ info' = [info EXCEPT ![index[f]].seen = TRUE]
            /\ UNCHANGED <<prospectors, index, stubbed, spool, skipped>>
       ELSE StoreStub(f, "missing")
    /\ ProcessedFile(f)

\* Another path led to the same file in this scan.
IsDuplicate(f) ==
    /\ IsNext(f) /\ dir[f] # None
    /\ ~IsKnown(f) \/ IsRotated(f)
    /\ \E k \in SameFile(f) : info[k].seen
    /\ IF index[f] # None /\ info[index[f]].status = "duplicate"
       THEN UNCHANGED <<info, prospectors, index, stubbed, spool, skipped>>
       ELSE StoreStub(f, "duplicate")
    /\ ProcessedFile(f)

\* Mutant of Reindexed: leaves the old path in the index.
ReindexedOnly(f, k) == [index EXCEPT ![f] = k]

\* The index when info k moves to path f.
Reindexed(f, k) == [g \in Names |-> IF g = f THEN k
                                    ELSE IF info[k].orphaned = "no" /\ g = info[k].file THEN None
                                    ELSE index[g]]

\* The file had another path before: its info moves to this one.
IsRenamed(f, k, dead) ==
    /\ IsNext(f) /\ dir[f] # None
    /\ ~IsKnown(f) \/ IsRotated(f)
    /\ k \in SameFile(f) /\ ~info[k].seen
    /\ info' = [Orphaned(f) EXCEPT ![k] =
                  Updated([info[k] EXCEPT !.orphaned = "no", !.file = f], size[dir[f]], dead)]
    /\ index' = Reindexed(f, k)
    /\ spool' = spool \cup {[type |-> "renamed", info |-> k, source |-> f]}
    /\ UNCHANGED <<prospectors, stubbed, skipped>>
    /\ ProcessedFile(f)

\* startHarvester
StartOffset(lines) == IF fromBeginning THEN 0 ELSE lines

\* A file not seen before: start a harvester, or skip the file if it is old.  A
\* rotated file is not compared with "dead time".
IsNew(f, old) ==
    LET lines  == size[dir[f]]
        offset == IF old THEN lines ELSE StartOffset(lines)
        new    == [FromFileInfo(f) EXCEPT !.finish = IF old THEN lines ELSE 0]
    IN  /\ IsNext(f) /\ dir[f] # None
        /\ ~IsKnown(f) \/ (IsRotated(f) /\ ~old)
        /\ SameFile(f) = {}
        /\ Free # {}
        /\ info' = [Orphaned(f) EXCEPT ![NewInfo] =
                      Updated(IF old THEN new ELSE Started(new, offset), lines, FALSE)]
        /\ prospectors' = prospectors \cup {NewInfo}
        /\ index' = [index EXCEPT ![f] = NewInfo]
        /\ spool' = spool \cup {[type |-> "discover", info |-> NewInfo,
                                 entry |-> [source |-> f, inode |-> dir[f], offset |-> offset]]}
        /\ skipped' = [skipped EXCEPT ![dir[f]] = @ \cup 1 .. offset]
        /\ UNCHANGED stubbed
        /\ ProcessedFile(f)

\* The file the index knows.
IsSame(f, dead) ==
    /\ IsNext(f) /\ dir[f] # None
    /\ IsKnown(f) /\ ~IsRotated(f)
    /\ info' = [info EXCEPT ![index[f]] = Updated(@, size[dir[f]], dead)]
    /\ UNCHANGED <<prospectors, index, stubbed, spool, skipped>>
    /\ ProcessedFile(f)

-----------------------------------------------------------------------------
(* runOnce. *)

\* A new iteration: Glob finds what is there.
StartScan ==
    LET matches == {f \in Names : dir[f] # None}
    IN  /\ pc = "idle"
        /\ todo' = matches
        /\ pc' = IF matches = {} THEN "clean" ELSE "scan"
        /\ UNCHANGED <<fileVars, info, index, prospectors, fromBeginning, spool, pipe, stateVars, historyVars>>

\* Files that the scan has not seen, and orphans.
Vanished == {i \in prospectors : info[i].orphaned = "no" /\ ~info[i].seen}
Orphans  == {i \in prospectors : info[i].orphaned # "no"}

\* Mutant of GivenUp: keeps the entry of a file another one took the path of.
GivenUpVanished == Vanished

\* What the registrar is told to forget: once per file.
GivenUp == Vanished \cup {i \in Orphans : info[i].orphaned = "maybe"}

\* Clean up: files not seen leave the index, orphans leave the registrar, and
\* those without a harvester the prospectors; then the events are sent.  Nothing is seen in the next
\* iteration yet.
CleanUp ==
    LET polled == [i \in Infos |-> IF i \in Orphans THEN Polled(info[i]) ELSE info[i]]
    IN  /\ pc = "clean"
        /\ pc' = "idle"
        /\ fromBeginning' = TRUE
        /\ index' = [f \in Names |-> IF \E i \in Vanished : info[i].file = f THEN None ELSE index[f]]
        /\ prospectors' = prospectors \ {i \in Orphans : polled[i].run = "no"}
        /\ info' = [i \in Infos |->
                      [polled[i] EXCEPT !.seen = FALSE,
                                        !.orphaned = IF i \in GivenUp THEN "yes" ELSE @]]
        /\ Send(spool \cup {[type |-> "deleted", info |-> i] : i \in GivenUp})
        /\ spool' = {}
        /\ UNCHANGED <<fileVars, todo, pipe, historyVars>>

\* The process dies and starts again: LoadPrevious gives every saved entry an
\* info, and with a state file new files are read from the beginning.
Crash ==
    /\ MoreFaults
    /\ crashes' = crashes + 1
    /\ LET given == CHOOSE g \in [saved -> Infos] : \A d, e \in saved : g[d] = g[e] => d = e
           Loaded(i) == {e \in saved : given[e] = i}
           Of(i) == CHOOSE e \in Loaded(i) : TRUE
       IN  /\ info' = [i \in Infos |->
                         IF Loaded(i) = {} THEN Blank(1)
                         ELSE [Blank(Of(i).source) EXCEPT !.inode = Of(i).inode, !.status = "resume",
                                                          !.finish = Of(i).offset]]
           /\ index' = [f \in Names |-> IF \E e \in saved : e.source = f
                                        THEN given[CHOOSE e \in saved : e.source = f] ELSE None]
           /\ prospectors' = {given[e] : e \in saved}
           /\ registry' = [i \in {given[e] : e \in saved} |-> Of(i)]
    /\ fromBeginning' = (hasState \/ FromBeginning)
    /\ pc' = "idle" /\ todo' = {} /\ spool' = {} /\ pipe' = <<>>
    /\ UNCHANGED <<fileVars, saved, hasState, acked, skipped, dropped, stubbed>>

Init ==
    /\ dir = [f \in Names |-> None] /\ size = [ino \in Inodes |-> Unused] /\ changes = 0
    /\ pc = "idle" /\ todo = {}
    /\ info = [i \in Infos |-> Blank(1)]
    /\ index = [f \in Names |-> None] /\ prospectors = {}
    /\ fromBeginning = FromBeginning
    /\ spool = {} /\ pipe = <<>>
    /\ registry = [i \in {} |-> None] /\ saved = {} /\ hasState = FALSE
    /\ acked = [ino \in Inodes |-> {}] /\ skipped = [ino \in Inodes |-> {}]
    /\ dropped = {} /\ stubbed = FALSE /\ crashes = 0

ScanStep ==
    \E f \in Names :
      \/ StatFails(f)
      \/ IsDuplicate(f)
      \/ \E dead \in BOOLEAN : \/ \E k \in Infos : IsRenamed(f, k, dead)
                               \/ IsNew(f, dead)
                               \/ IsSame(f, dead)

HarvesterStep(i) ==
    \/ Open(i)
    \/ Read(i)
    \/ ReadBlocked(i)
    \/ StatCheck(i)

Next ==
    \/ ChangeFiles
    \/ \E ino \in Inodes : AppendLine(ino)
    \/ \E i \in Infos : HarvesterStep(i)
    \/ Acknowledge
    \/ StartScan
    \/ ScanStep
    \/ CleanUp
    \/ Crash

Spec == Init /\ [][Next]_vars

-----------------------------------------------------------------------------
(* Properties. *)

\* Lines up to an offset that were acknowledged, or were in the file before
\* harvesting began.
Covered(e) == 1 .. e.offset \subseteq acked[e.inode] \cup skipped[e.inode]

\* Whatever renames, rotations, late acknowledgements and crashes do, an entry of
\* the state file never lies behind a line of its file that no server has
\* acknowledged, unless eventCallback gave a line up.
ResumesSafely == dropped = {} => \A e \in saved : Covered(e)

\* "At-least-once delivery of events ... a Log Courier crash should never lose
\* events" (README.md:48-49): also when the pipeline is blocked for long.
NeverSkips == \A e \in saved : Covered(e)

\* "BUG: Unexpected registrar conflict" (registrar.go:139) is never reported: no
\* two streams have the same path, or one of them would lose its offset.
NoConflict ==
    \A i, j \in DOMAIN registry : registry[i].source = registry[j].source => i = j

\* What the index leads to is one of the prospectors, under this path and not an
\* orphan: a file that moved is never still found under its old path.
IndexConsistent ==
    \A f \in Names : index[f] # None => /\ index[f] \in prospectors
                                        /\ info[index[f]].file = f
                                        /\ info[index[f]].orphaned = "no"

\* "Conditions for starting a new harvester: file path hasn't been seen before,
\* the file's inode or device changed" (prospector.go:273-275): so two harvesters
\* never read the same file, which would send every line twice.
OneHarvester ==
    \A i, j \in Infos : info[i].run \in {"open", "read"} /\ info[j].run \in {"open", "read"}
                        /\ info[i].inode = info[j].inode => i = j

\* OneHarvester, as long as no scan has put an error in the place of a file.
OneHarvesterUnlessError == stubbed \/ OneHarvester
=============================================================================
