-------------------------- MODULE ProspectorProofs --------------------------
(***************************************************************************)
(* Prospector for any number of paths, files, lines, changes, faults and   *)
(* any capacity of the pipeline: its structures stay consistent, the state *)
(* file never has two entries for a path, no file is read twice unless an  *)
(* error took its place, and an entry of the state file never lies behind  *)
(* a line that no server has acknowledged.                                 *)
(***************************************************************************)
EXTENDS Prospector, TLAPS, FiniteSetTheorems, WellFoundedInduction

\* The types, with those of the history variables.  A path leads to a file with a
\* size, and a harvester has one.
TypeInv ==
  /\ TypeOK
  /\ \A f \in Names : dir[f] # None => size[dir[f]] \in Lines
  /\ \A i \in Infos : info[i].run # "no" => info[i].inode # None
  /\ acked \in [Inodes -> SUBSET Nat] /\ skipped \in [Inodes -> SUBSET Nat]
  /\ stubbed \in BOOLEAN

\* What is seen in this scan has a path that was processed already, and that no
\* other structure is seen with.
ScanInv ==
  /\ pc # "scan" => todo = {}
  /\ pc = "idle" => spool = {} /\ \A i \in Infos : ~info[i].seen
  /\ \A i \in Infos : info[i].seen /\ info[i].orphaned = "no" =>
       /\ info[i].file \notin todo
       /\ \A j \in Infos : info[j].seen /\ info[j].orphaned = "no" /\ info[j].file = info[i].file
                           => j = i

\* An event that waits for the end of the scan: of a structure that was seen, with
\* the path it has, the first of a file that the registrar does not know or a new
\* path of one that it may know.
EventInv(e) ==
  /\ e.info \in prospectors
  /\ info[e.info].seen /\ info[e.info].orphaned = "no"
  /\ \/ /\ e.type = "discover" /\ e.info \notin DOMAIN registry
        /\ e.entry.source = info[e.info].file /\ e.entry.inode = info[e.info].inode
     \/ e.type = "renamed" /\ e.source = info[e.info].file

\* The registrar knows files of the prospectors, under their paths as far as no
\* event waits.
RegistryInv ==
  /\ \A e \in spool : EventInv(e)
  /\ \A i \in DOMAIN registry :
       /\ i \in prospectors /\ info[i].orphaned # "yes"
       /\ registry[i].inode = info[i].inode
       /\ \/ info[i].orphaned = "maybe"
          \/ registry[i].source = info[i].file
          \/ \E e \in spool : e.info = i /\ e.type = "renamed"
  /\ NoConflict

\* The state file has entries of the registrar, one for a path.
SavedInv ==
  /\ \A e \in saved : \E i \in DOMAIN registry : registry[i] = e
  /\ \A d, e \in saved : d.source = e.source => d = e

\* As long as no error took the place of a file: the prospectors are different
\* files, and the index leads to all that are not orphans.
UniqueInv ==
  ~stubbed =>
    /\ \A i \in prospectors : info[i].inode # None /\ ~Invalid(i)
    /\ \A i, j \in prospectors : info[i].inode = info[j].inode => i = j
    /\ \A i \in prospectors : info[i].orphaned = "no" => index[info[i].file] = i

\* A harvester belongs to a prospector, and a structure that is used to its file.
UseInv ==
  /\ \A i \in Infos : info[i].run # "no" => i \in prospectors
  /\ \A n \in 1 .. Len(pipe) : info[pipe[n].info].inode # None

\* Lines of each file that were acknowledged, or were there before harvesting began.
Sent == [ino \in Inodes |-> acked[ino] \cup skipped[ino]]

\* Line m of a file is among the first n events of a pipeline.
OnTheWay(events, infos, ino, m, n) ==
  \E k \in 1 .. n : events[k].line = m /\ infos[events[k].info].inode = ino

\* Every line of a file up to an offset was sent, or is among the first n events.
SentUpTo(sent, events, infos, ino, offset, n) ==
  \A m \in 1 .. offset : m \in sent[ino] \/ OnTheWay(events, infos, ino, m, n)

\* Where harvesters are and where they will resume, and every event on its way:
\* nothing before was passed over.
SentInv ==
  dropped = {} =>
    /\ \A e \in saved : Covered(e)
    /\ \A i \in DOMAIN registry : Covered(registry[i])
    /\ \A e \in spool : e.type = "discover" => Covered(e.entry)
    /\ \A i \in Infos : info[i].inode # None =>
         /\ SentUpTo(Sent, pipe, info, info[i].inode, info[i].off, Len(pipe))
         /\ SentUpTo(Sent, pipe, info, info[i].inode, info[i].finish, Len(pipe))
    /\ \A n \in 1 .. Len(pipe) :
         SentUpTo(Sent, pipe, info, info[pipe[n].info].inode, pipe[n].line, n)

IndInv ==
  /\ TypeInv /\ IndexConsistent /\ ScanInv /\ RegistryInv
  /\ SavedInv /\ UniqueInv /\ UseInv /\ SentInv

-----------------------------------------------------------------------------
(* The operators of the model. *)

LEMMA BlankInfo ==
  ASSUME NEW f \in Names
  PROVE  Blank(f) \in InfoRec
  BY ProspectorAssumption DEF Blank, InfoRec, Lines, None, Unused

\* Polled stores where a harvester stopped, and leaves the rest.
LEMMA PolledInfo ==
  ASSUME NEW r \in InfoRec
  PROVE  /\ Polled(r) \in InfoRec
         /\ Polled(r).file = r.file /\ Polled(r).inode = r.inode
         /\ Polled(r).seen = r.seen /\ Polled(r).orphaned = r.orphaned
         /\ Polled(r).run # "no" => r.run # "no"
         /\ Polled(r).off \in {r.off, 0} /\ Polled(r).finish \in {r.off, r.finish}
         /\ Polled(r).status \in {"missing", "duplicate"} => r.status \in {"missing", "duplicate"}
  <1>1. r.file \in Names
    BY DEF InfoRec
  <1>2. Blank(r.file) \in InfoRec
    BY <1>1, BlankInfo
  <1>3. CASE r.run # "done"
    BY <1>3 DEF Polled
  <1>4. CASE r.run = "done"
    <2>1. Polled(r) = [Blank(r.file) EXCEPT !.inode = r.inode, !.seen = r.seen, !.orphaned = r.orphaned,
                               !.finish = r.off, !.stat = r.hstat,
                               !.status = IF r.failed THEN "failed" ELSE r.status]
      BY <1>4 DEF Polled
    <2> DEFINE s == IF r.failed THEN "failed" ELSE r.status
    <2>2. s \in {"ok", "resume", "failed", "missing", "duplicate"} /\ (s = "failed" \/ s = r.status)
      BY DEF InfoRec
    <2>3. Polled(r) = [file |-> r.file, inode |-> r.inode, stat |-> r.hstat, seen |-> r.seen, status |-> s,
             orphaned |-> r.orphaned, finish |-> r.off, run |-> "no", path |-> r.file, off |-> 0,
             hstat |-> Unused, failed |-> FALSE]
      BY <2>1 DEF Blank
    <2> HIDE DEF s
    <2>4. Polled(r) \in InfoRec
      BY <2>2, <2>3, <1>1, ProspectorAssumption DEF InfoRec, Lines, Unused
    <2> QED  BY <2>2, <2>3, <2>4, <1>4
  <1> QED  BY <1>3, <1>4

LEMMA StartedInfo ==
  ASSUME NEW r \in InfoRec, NEW offset \in Lines
  PROVE  /\ Started(r, offset) \in InfoRec
         /\ Started(r, offset).file = r.file /\ Started(r, offset).inode = r.inode
         /\ Started(r, offset).seen = r.seen /\ Started(r, offset).orphaned = r.orphaned
         /\ Started(r, offset).off = offset /\ Started(r, offset).finish = r.finish
         /\ Started(r, offset).status = "ok" /\ Started(r, offset).run = "open"
         /\ Started(r, offset).stat = r.stat
  BY DEF Started, InfoRec

\* The end of processFile: the structure was seen and is the same file under the
\* same path; its harvester is where it was or resumes where the last one stopped.
LEMMA UpdatedInfo ==
  ASSUME NEW r \in InfoRec, NEW lines \in Lines, NEW dead \in BOOLEAN
  PROVE  LET u == Updated(r, lines, dead)
         IN  /\ u \in InfoRec
             /\ u.file = r.file /\ u.inode = r.inode /\ u.orphaned = r.orphaned /\ u.seen
             /\ u.off \in {r.off, r.finish, 0} /\ u.finish \in {r.off, r.finish}
             /\ u.status \in {"missing", "duplicate"} => r.status \in {"missing", "duplicate"}
  <1> DEFINE q == Polled(r)
             s == IF q.run = "no" /\ q.status = "resume" THEN "ok" ELSE q.status
             v == [q EXCEPT !.stat = lines, !.seen = TRUE, !.status = s]
  <1>1. /\ q \in InfoRec /\ q.file = r.file /\ q.inode = r.inode /\ q.orphaned = r.orphaned
        /\ q.off \in {r.off, 0} /\ q.finish \in {r.off, r.finish}
        /\ q.status \in {"missing", "duplicate"} => r.status \in {"missing", "duplicate"}
    BY PolledInfo
  <1>2. Updated(r, lines, dead) = IF Resumes(q, lines, dead) THEN Started(v, v.finish) ELSE v
    BY DEF Updated
  <1> HIDE DEF q
  <1>3. s \in {"ok", "resume", "failed", "missing", "duplicate"} /\ (s = "ok" \/ s = q.status)
    BY <1>1 DEF InfoRec
  <1> HIDE DEF s
  <1>4. /\ v \in InfoRec /\ v.file = q.file /\ v.inode = q.inode /\ v.orphaned = q.orphaned /\ v.seen
        /\ v.off = q.off /\ v.finish = q.finish /\ v.status = s
    BY <1>1, <1>3 DEF InfoRec
  <1> HIDE DEF v
  <1>5. v.finish \in Lines
    BY <1>4 DEF InfoRec
  <1>6. CASE Resumes(q, lines, dead)
    <2>1. Updated(r, lines, dead) = Started(v, v.finish)
      BY <1>2, <1>6
    <2> QED  BY <2>1, <1>1, <1>3, <1>4, <1>5, StartedInfo
  <1>7. CASE ~Resumes(q, lines, dead)
    <2>1. Updated(r, lines, dead) = v
      BY <1>2, <1>7
    <2> QED  BY <2>1, <1>1, <1>3, <1>4
  <1> QED  BY <1>6, <1>7

LEMMA NewInfoFree ==
  ASSUME Free # {}
  PROVE  NewInfo \in Free
  <1>1. Free \subseteq Nat
    BY ProspectorAssumption DEF Free
  <1> DEFINE R == OpToRel(<, Nat)
  <1>2. IsWellFoundedOn(R, Nat)
    BY NatLessThanWellFounded, Zenon
  <1>3. \A x, y \in Nat : y < x => <<y, x>> \in R
    BY DEF OpToRel
  <1> HIDE DEF R
  <1>4. \E x \in Free : \A y \in Free : ~(<<y, x>> \in R)
    BY <1>1, <1>2, WFMin, Zenon
  <1>5. PICK x \in Free : \A y \in Free : ~(<<y, x>> \in R)
    BY <1>4
  <1>6. ASSUME NEW y \in Free PROVE x <= y
    <2>1. ~(<<y, x>> \in R)
      BY <1>5
    <2>2. x \in Nat /\ y \in Nat
      BY <1>1
    <2>3. ~(y < x)
      BY <2>1, <2>2, <1>3, Zenon
    <2> QED  BY <2>2, <2>3
  <1> QED  BY <1>6 DEF NewInfo

\* toCanonical: entries of the registrar, one for a path.
LEMMA CanonicalEntries ==
  ASSUME NEW reg, IsFiniteSet(DOMAIN reg), NEW S \in Canonical(reg)
  PROVE  /\ \A e \in S : \E i \in DOMAIN reg : reg[i] = e
         /\ \A d, e \in S : d.source = e.source => d = e
  <1> DEFINE entries == {reg[i] : i \in DOMAIN reg}
  <1>1. S \subseteq entries /\ \A e \in entries : Cardinality({d \in S : d.source = e.source}) = 1
    BY DEF Canonical
  <1>2. IsFiniteSet(entries)
    <2> DEFINE F == [i \in DOMAIN reg |-> reg[i]]
    <2>1. entries = {F[i] : i \in DOMAIN reg}
      OBVIOUS
    <2>2. F \in Surjection(DOMAIN reg, entries)
      BY DEF Surjection
    <2> QED  BY <2>2, FS_Surjection
  <1>3. ASSUME NEW d \in S, NEW e \in S, d.source = e.source PROVE d = e
    <2> DEFINE same == {c \in S : c.source = e.source}
    <2>1. IsFiniteSet(same)
      BY <1>1, <1>2, FS_Subset
    <2>2. Cardinality(same) = 1
      BY <1>1
    <2>3. \E x : same = {x}
      BY <2>1, <2>2, FS_Singleton
    <2> QED  BY <2>3, <1>3
  <1> QED  BY <1>1, <1>3

\* LoadPrevious has a structure for every entry.
LEMMA EntriesGiven ==
  ASSUME TypeOK, SavedInv
  PROVE  \E g \in [saved -> Infos] : \A d, e \in saved : g[d] = g[e] => d = e
  <1> DEFINE g == [e \in saved |-> CHOOSE i \in DOMAIN registry : registry[i] = e]
  <1>1. \A e \in saved : g[e] \in DOMAIN registry /\ registry[g[e]] = e
    BY DEF SavedInv
  <1>2. g \in [saved -> Infos]
    BY <1>1 DEF TypeOK
  <1>3. \A d, e \in saved : g[d] = g[e] => d = e
    BY <1>1
  <1> QED  BY <1>2, <1>3

-----------------------------------------------------------------------------
(* What processFile does with a path f, in four ways.                       *)

\* Nothing but the path being processed.
PassedOver(f) ==
  /\ f \in Names /\ f \in todo /\ pc = "scan"
  /\ ProcessedFile(f)
  /\ UNCHANGED <<info, prospectors, index, stubbed, spool, skipped>>

\* The structure that the index has is seen, and r is what it becomes.
Touched(f, r) ==
  /\ f \in Names /\ f \in todo /\ pc = "scan"
  /\ ProcessedFile(f)
  /\ index[f] # None /\ r \in InfoRec
  /\ r.file = f /\ r.inode = info[index[f]].inode /\ r.orphaned = "no" /\ r.seen
  /\ r.run # "no" => info[index[f]].run # "no" \/ r.inode # None
  /\ r.off \in {info[index[f]].off, info[index[f]].finish, 0}
  /\ r.finish \in {info[index[f]].off, info[index[f]].finish}
  /\ r.status \in {"missing", "duplicate"} => Invalid(index[f])
  /\ info' = [info EXCEPT ![index[f]] = r]
  /\ UNCHANGED <<prospectors, index, stubbed, spool, skipped>>

\* A structure that was not in use takes the path.
Placed(f, i, r) ==
  /\ f \in Names /\ f \in todo /\ pc = "scan"
  /\ ProcessedFile(f)
  /\ i \in Free /\ r \in InfoRec
  /\ r.file = f /\ r.orphaned = "no" /\ r.seen
  /\ info' = [Orphaned(f) EXCEPT ![i] = r]
  /\ prospectors' = prospectors \cup {i}
  /\ index' = [index EXCEPT ![f] = i]

PlacedStub(f, i, r) ==
  /\ Placed(f, i, r)
  /\ r.inode = None /\ r.run = "no"
  /\ stubbed' = TRUE
  /\ UNCHANGED <<spool, skipped>>

PlacedNew(f, i, r, offset) ==
  /\ Placed(f, i, r)
  /\ dir[f] # None /\ SameFile(f) = {} /\ (~IsKnown(f) \/ IsRotated(f))
  /\ r.inode = dir[f] /\ r.status \notin {"missing", "duplicate"}
  /\ offset \in Lines /\ r.off \in {0, offset} /\ r.finish \in {0, offset}
  /\ spool' = spool \cup {[type |-> "discover", info |-> i,
                           entry |-> [source |-> f, inode |-> dir[f], offset |-> offset]]}
  /\ skipped' = [skipped EXCEPT ![dir[f]] = @ \cup 1 .. offset]
  /\ UNCHANGED stubbed

\* A file moves from another path, or comes back.
Moved(f, k, r) ==
  /\ f \in Names /\ f \in todo /\ pc = "scan"
  /\ ProcessedFile(f)
  /\ dir[f] # None /\ (~IsKnown(f) \/ IsRotated(f))
  /\ k \in SameFile(f) /\ ~info[k].seen
  /\ r \in InfoRec
  /\ r.file = f /\ r.inode = info[k].inode /\ r.orphaned = "no" /\ r.seen
  /\ r.off \in {info[k].off, info[k].finish, 0}
  /\ r.finish \in {info[k].off, info[k].finish}
  /\ r.status \notin {"missing", "duplicate"}
  /\ info' = [Orphaned(f) EXCEPT ![k] = r]
  /\ index' = Reindexed(f, k)
  /\ spool' = spool \cup {[type |-> "renamed", info |-> k, source |-> f]}
  /\ UNCHANGED <<prospectors, stubbed, skipped>>

LEMMA StubStored ==
  ASSUME NEW f \in Names, NEW error \in {"missing", "duplicate"},
         f \in todo, pc = "scan", StoreStub(f, error), ProcessedFile(f)
  PROVE  \E i \in Infos, r \in InfoRec : PlacedStub(f, i, r)
  <1> DEFINE r == Stub(f, error)
  <1>1. r = [file |-> f, inode |-> None, stat |-> Unused, seen |-> TRUE, status |-> error,
             orphaned |-> "no", finish |-> 0, run |-> "no", path |-> f, off |-> 0,
             hstat |-> Unused, failed |-> FALSE]
    <2>1. r = [Blank(f) EXCEPT !.status = error, !.seen = TRUE]
      BY DEF Stub
    <2> HIDE DEF r
    <2> QED  BY <2>1 DEF Blank
  <1>2. r \in InfoRec
    BY <1>1, ProspectorAssumption DEF InfoRec, Lines, None, Unused
  <1>3. NewInfo \in Free /\ NewInfo \in Infos
    BY NewInfoFree DEF StoreStub, Free
  <1>4. info' = [Orphaned(f) EXCEPT ![NewInfo] = r]
    BY DEF StoreStub
  <1> HIDE DEF r
  <1>5. Placed(f, NewInfo, r)
    BY <1>1, <1>2, <1>3, <1>4 DEF Placed, StoreStub
  <1>6. PlacedStub(f, NewInfo, r)
    BY <1>1, <1>5 DEF PlacedStub, StoreStub
  <1> QED  BY <1>2, <1>3, <1>6

LEMMA FileIsNew ==
  ASSUME TypeInv, NEW f \in Names, NEW old \in BOOLEAN, IsNew(f, old)
  PROVE  \E i \in Infos, r \in InfoRec, offset \in Lines : PlacedNew(f, i, r, offset)
  <1> DEFINE lines  == size[dir[f]]
             offset == IF old THEN lines ELSE StartOffset(lines)
             new    == [FromFileInfo(f) EXCEPT !.finish = IF old THEN lines ELSE 0]
             s      == IF old THEN new ELSE Started(new, offset)
             r      == Updated(s, lines, FALSE)
  <1>0. dir[f] \in Inodes /\ dir[f] # None /\ lines \in Lines /\ f \in todo /\ pc = "scan"
    BY DEF TypeInv, TypeOK, IsNew, IsNext
  <1>1. offset \in Lines
    BY <1>0, ProspectorAssumption DEF StartOffset, Lines
  <1>2. new = [file |-> f, inode |-> dir[f], stat |-> lines, seen |-> FALSE, status |-> "ok",
             orphaned |-> "no", finish |-> IF old THEN lines ELSE 0, run |-> "no", path |-> f, off |-> 0,
             hstat |-> Unused, failed |-> FALSE]
    <2> DEFINE b == FromFileInfo(f)
    <2>1. b = [Blank(f) EXCEPT !.inode = dir[f], !.stat = lines]
      BY DEF FromFileInfo
    <2> HIDE DEF lines, b
    <2>2. b = [file |-> f, inode |-> dir[f], stat |-> lines, seen |-> FALSE, status |-> "ok",
             orphaned |-> "no", finish |-> 0, run |-> "no", path |-> f, off |-> 0,
             hstat |-> Unused, failed |-> FALSE]
      BY <2>1 DEF Blank
    <2>3. new = [b EXCEPT !.finish = IF old THEN lines ELSE 0]
      BY DEF b
    <2> HIDE DEF new
    <2> QED  BY <2>2, <2>3
  <1>3. old => offset = lines
    OBVIOUS
  <1>4. /\ info' = [Orphaned(f) EXCEPT ![NewInfo] = r]
        /\ prospectors' = prospectors \cup {NewInfo}
        /\ index' = [index EXCEPT ![f] = NewInfo]
        /\ spool' = spool \cup {[type |-> "discover", info |-> NewInfo,
                                 entry |-> [source |-> f, inode |-> dir[f], offset |-> offset]]}
        /\ skipped' = [skipped EXCEPT ![dir[f]] = @ \cup 1 .. offset]
        /\ UNCHANGED stubbed /\ ProcessedFile(f) /\ Free # {} /\ SameFile(f) = {}
        /\ ~IsKnown(f) \/ IsRotated(f)
    BY DEF IsNew
  <1> HIDE DEF lines, offset, new
  <1>5. /\ new \in InfoRec /\ new.off = 0 /\ new.finish \in {0, offset} /\ new.status = "ok"
        /\ new.file = f /\ new.inode = dir[f] /\ new.orphaned = "no"
    BY <1>0, <1>1, <1>2, <1>3, ProspectorAssumption DEF InfoRec, Lines, Unused
  <1>6. /\ s \in InfoRec /\ s.off \in {0, offset} /\ s.finish \in {0, offset} /\ s.status = "ok"
        /\ s.file = f /\ s.inode = dir[f] /\ s.orphaned = "no"
    BY <1>1, <1>5, StartedInfo
  <1> HIDE DEF s
  <1>7. /\ r \in InfoRec /\ r.off \in {0, offset} /\ r.finish \in {0, offset} /\ r.seen
        /\ r.file = f /\ r.inode = dir[f] /\ r.orphaned = "no"
        /\ r.status \notin {"missing", "duplicate"}
    <2>1. /\ r \in InfoRec
          /\ r.file = s.file /\ r.inode = s.inode /\ r.orphaned = s.orphaned /\ r.seen
          /\ r.off \in {s.off, s.finish, 0} /\ r.finish \in {s.off, s.finish}
          /\ r.status \in {"missing", "duplicate"} => s.status \in {"missing", "duplicate"}
      BY <1>0, <1>6, UpdatedInfo
    <2> HIDE DEF r
    <2> QED  BY <2>1, <1>6
  <1> HIDE DEF r
  <1>8. NewInfo \in Free /\ NewInfo \in Infos
    BY <1>4, NewInfoFree DEF Free
  <1>9. Placed(f, NewInfo, r)
    BY <1>0, <1>4, <1>7, <1>8 DEF Placed
  <1>10. PlacedNew(f, NewInfo, r, offset)
    BY <1>0, <1>1, <1>4, <1>7, <1>9 DEF PlacedNew
  <1> QED  BY <1>1, <1>7, <1>8, <1>10

LEMMA FileIsRenamed ==
  ASSUME TypeInv, NEW f \in Names, NEW k \in Infos, NEW dead \in BOOLEAN, IsRenamed(f, k, dead)
  PROVE  \E r \in InfoRec : Moved(f, k, r)
  <1> DEFINE lines == size[dir[f]]
             s     == [info[k] EXCEPT !.orphaned = "no", !.file = f]
             r     == Updated(s, lines, dead)
  <1>0. dir[f] # None /\ lines \in Lines /\ f \in todo /\ pc = "scan" /\ info[k] \in InfoRec
    BY DEF TypeInv, TypeOK, IsRenamed, IsNext
  <1>1. /\ info' = [Orphaned(f) EXCEPT ![k] = r]
        /\ index' = Reindexed(f, k)
        /\ spool' = spool \cup {[type |-> "renamed", info |-> k, source |-> f]}
        /\ UNCHANGED <<prospectors, stubbed, skipped>> /\ ProcessedFile(f)
        /\ ~IsKnown(f) \/ IsRotated(f)
        /\ k \in SameFile(f) /\ ~info[k].seen
    BY DEF IsRenamed
  <1> HIDE DEF lines
  <1>2. /\ s \in InfoRec /\ s.file = f /\ s.inode = info[k].inode /\ s.orphaned = "no"
        /\ s.off = info[k].off /\ s.finish = info[k].finish /\ s.status = info[k].status
    BY <1>0 DEF InfoRec
  <1> HIDE DEF s
  <1>3. /\ r \in InfoRec
        /\ r.file = s.file /\ r.inode = s.inode /\ r.orphaned = s.orphaned /\ r.seen
        /\ r.off \in {s.off, s.finish, 0} /\ r.finish \in {s.off, s.finish}
        /\ r.status \in {"missing", "duplicate"} => s.status \in {"missing", "duplicate"}
    BY <1>0, <1>2, UpdatedInfo
  <1> HIDE DEF r
  <1>4. info[k].status \notin {"missing", "duplicate"}
    BY <1>1 DEF SameFile, Invalid
  <1>5. Moved(f, k, r)
    BY <1>0, <1>1, <1>2, <1>3, <1>4 DEF Moved
  <1> QED  BY <1>3, <1>5

LEMMA FileIsSame ==
  ASSUME TypeInv, IndexConsistent, NEW f \in Names, NEW dead \in BOOLEAN, IsSame(f, dead)
  PROVE  \E r \in InfoRec : Touched(f, r)
  <1> DEFINE lines == size[dir[f]]
             i     == index[f]
             r     == Updated(info[i], lines, dead)
  <1>0. /\ dir[f] # None /\ lines \in Lines /\ f \in todo /\ pc = "scan"
        /\ i # None /\ info[i].inode = dir[f]
    BY DEF TypeInv, TypeOK, IsSame, IsNext, IsKnown, IsRotated
  <1>1. i \in Infos /\ info[i] \in InfoRec
    BY <1>0 DEF TypeInv, TypeOK
  <1>2. info[i].file = f /\ info[i].orphaned = "no"
    BY <1>0 DEF IndexConsistent
  <1>3. info' = [info EXCEPT ![i] = r]
    BY DEF IsSame
  <1>4. UNCHANGED <<prospectors, index, stubbed, spool, skipped>> /\ ProcessedFile(f)
    BY DEF IsSame
  <1> HIDE DEF lines
  <1>5. /\ r \in InfoRec
        /\ r.file = info[i].file /\ r.inode = info[i].inode /\ r.orphaned = info[i].orphaned /\ r.seen
        /\ r.off \in {info[i].off, info[i].finish, 0} /\ r.finish \in {info[i].off, info[i].finish}
        /\ r.status \in {"missing", "duplicate"} => info[i].status \in {"missing", "duplicate"}
    BY <1>0, <1>1, UpdatedInfo
  <1> HIDE DEF r
  <1>6. r.status \in {"missing", "duplicate"} => Invalid(i)
    BY <1>5 DEF Invalid
  <1>7. Touched(f, r)
    BY <1>0, <1>1, <1>2, <1>3, <1>4, <1>5, <1>6, Zenon DEF Touched
  <1> QED  BY <1>5, <1>7

LEMMA StatFailure ==
  ASSUME TypeInv, IndexConsistent, NEW f \in Names, StatFails(f)
  PROVE  \/ \E r \in InfoRec : Touched(f, r)
         \/ \E i \in Infos, r \in InfoRec : PlacedStub(f, i, r)
  <1>1. f \in todo /\ pc = "scan" /\ ProcessedFile(f)
    BY DEF StatFails, IsNext
  <1>2. CASE index[f] # None /\ info[index[f]].status = "missing"
    <2> DEFINE i == index[f]
               r == [info[i] EXCEPT !.seen = TRUE]
    <2>1. i \in Infos /\ info[i] \in InfoRec
      BY <1>2 DEF TypeInv, TypeOK
    <2>2. info[i].file = f /\ info[i].orphaned = "no"
      BY <1>2 DEF IndexConsistent
    <2>3. info' = [info EXCEPT ![i].seen = TRUE]
      BY <1>2 DEF StatFails
    <2>4. info' = [info EXCEPT ![i] = r]
      BY <2>1, <2>3 DEF TypeInv, TypeOK
    <2>5. UNCHANGED <<prospectors, index, stubbed, spool, skipped>>
      BY <1>2 DEF StatFails
    <2>6. /\ r \in InfoRec /\ r.file = info[i].file /\ r.inode = info[i].inode
          /\ r.orphaned = info[i].orphaned /\ r.seen /\ r.off = info[i].off
          /\ r.finish = info[i].finish /\ r.status = info[i].status /\ r.run = info[i].run
      BY <2>1 DEF InfoRec
    <2> HIDE DEF r
    <2>7. Invalid(i)
      BY <1>2 DEF Invalid
    <2>8. Touched(f, r)
      BY <1>1, <1>2, <2>2, <2>4, <2>5, <2>6, <2>7 DEF Touched
    <2> QED  BY <2>6, <2>8
  <1>3. CASE ~(index[f] # None /\ info[index[f]].status = "missing")
    <2>1. StoreStub(f, "missing")
      BY <1>3 DEF StatFails
    <2> QED  BY <1>1, <2>1, StubStored
  <1> QED  BY <1>2, <1>3

LEMMA Duplicate ==
  ASSUME NEW f \in Names, IsDuplicate(f)
  PROVE  \/ PassedOver(f)
         \/ \E i \in Infos, r \in InfoRec : PlacedStub(f, i, r)
  <1>1. f \in todo /\ pc = "scan" /\ ProcessedFile(f)
    BY DEF IsDuplicate, IsNext
  <1>2. CASE index[f] # None /\ info[index[f]].status = "duplicate"
    BY <1>1, <1>2 DEF IsDuplicate, PassedOver
  <1>3. CASE ~(index[f] # None /\ info[index[f]].status = "duplicate")
    <2>1. StoreStub(f, "duplicate")
      BY <1>3 DEF IsDuplicate
    <2> QED  BY <1>1, <2>1, StubStored
  <1> QED  BY <1>2, <1>3

\* Every step of a scan is one of the four.
LEMMA ScanForms ==
  ASSUME TypeInv, IndexConsistent, ScanStep
  PROVE  \E f \in Names :
           \/ PassedOver(f)
           \/ \E r \in InfoRec : Touched(f, r)
           \/ \E i \in Infos, r \in InfoRec : PlacedStub(f, i, r)
           \/ \E i \in Infos, r \in InfoRec, offset \in Lines : PlacedNew(f, i, r, offset)
           \/ \E k \in Infos, r \in InfoRec : Moved(f, k, r)
  <1>1. PICK f \in Names :
          \/ StatFails(f)
          \/ IsDuplicate(f)
          \/ \E dead \in BOOLEAN : \/ \E k \in Infos : IsRenamed(f, k, dead)
                                   \/ IsNew(f, dead)
                                   \/ IsSame(f, dead)
    BY DEF ScanStep
  <1>2. CASE StatFails(f)
    BY <1>2, StatFailure
  <1>3. CASE IsDuplicate(f)
    BY <1>3, Duplicate
  <1>4. ASSUME NEW dead \in BOOLEAN, NEW k \in Infos, IsRenamed(f, k, dead)
        PROVE  \E r \in InfoRec : Moved(f, k, r)
    BY <1>4, FileIsRenamed
  <1>5. ASSUME NEW dead \in BOOLEAN, IsNew(f, dead)
        PROVE  \E i \in Infos, r \in InfoRec, offset \in Lines : PlacedNew(f, i, r, offset)
    BY <1>5, FileIsNew
  <1>6. ASSUME NEW dead \in BOOLEAN, IsSame(f, dead)
        PROVE  \E r \in InfoRec : Touched(f, r)
    BY <1>6, FileIsSame
  <1> QED  BY <1>1, <1>2, <1>3, <1>4, <1>5, <1>6, Zenon

-----------------------------------------------------------------------------
(* What the other steps do. *)

\* Harvester i changes nothing but its own fields.
OnlyHarvester(i) ==
  /\ info' \in [Infos -> InfoRec]
  /\ \A j \in Infos : /\ info'[j].file = info[j].file /\ info'[j].inode = info[j].inode
                      /\ info'[j].seen = info[j].seen /\ info'[j].orphaned = info[j].orphaned
                      /\ info'[j].status = info[j].status /\ info'[j].finish = info[j].finish
                      /\ info'[j].run # "no" => info[j].run # "no"
                      /\ j # i => info'[j].off = info[j].off

\* Every structure is that of an entry of the state file or not in use.
RestartedInfos(given) ==
  /\ info' \in [Infos -> InfoRec]
  /\ \A i \in Infos : /\ info'[i].run = "no" /\ ~info'[i].seen /\ info'[i].orphaned = "no"
                      /\ info'[i].off = 0 /\ ~Invalid(i)'
                      /\ info'[i].inode = None \/ \E e \in saved : given[e] = i
  /\ \A e \in saved : /\ info'[given[e]].file = e.source /\ info'[given[e]].inode = e.inode
                      /\ info'[given[e]].finish = e.offset

RestartedLists(given) ==
  /\ index' \in [Names -> Infos \cup {None}]
  /\ \A e \in saved : index'[e.source] = given[e] /\ registry'[given[e]] = e
  /\ \A f \in Names : index'[f] # None => \E e \in saved : e.source = f
  /\ prospectors' = {given[e] : e \in saved}
  /\ DOMAIN registry' = {given[e] : e \in saved}

RestartedRest ==
  /\ pc' = "idle" /\ todo' = {} /\ spool' = {} /\ pipe' = <<>>
  /\ UNCHANGED <<dir, size, changes, saved, hasState, acked, skipped, dropped, stubbed>>
  /\ fromBeginning' \in BOOLEAN

\* A harvester changes nothing that the prospector looks at while it runs, and
\* what it reads goes into the pipeline or is given up.
LEMMA HarvesterFacts ==
  ASSUME TypeInv, NEW i \in Infos, HarvesterStep(i)
  PROVE  /\ OnlyHarvester(i) /\ Harvesting(i)
         /\ \/ info'[i].off = info[i].off /\ UNCHANGED <<pipe, dropped>>
            \/ /\ info'[i].off = info[i].off + 1 /\ info[i].off + 1 \in Lines /\ info[i].inode # None
               /\ pipe' = Append(pipe, [info |-> i, line |-> info[i].off + 1])
               /\ UNCHANGED dropped
            \/ dropped' # {} /\ UNCHANGED pipe
  <1> DEFINE r == info[i]
  <1>1. r \in InfoRec /\ info \in [Infos -> InfoRec] /\ (r.run # "no" => r.inode \in Inodes)
    BY DEF TypeInv, TypeOK, InfoRec
  <1>2. /\ \A ino \in Inodes : size[ino] \in Lines \cup {Unused}
        /\ \A m \in Lines : m + 1 > m
        /\ \A m \in Lines, n \in Lines \cup {Unused} : m < n => m + 1 \in Lines
    BY ProspectorAssumption DEF TypeInv, TypeOK, Lines, Unused
  <1>3. ASSUME NEW q \in InfoRec, info' = [info EXCEPT ![i] = q],
               q.file = r.file, q.inode = r.inode, q.seen = r.seen, q.orphaned = r.orphaned,
               q.status = r.status, q.finish = r.finish, q.run # "no" => r.run # "no"
        PROVE  OnlyHarvester(i) /\ info'[i] = q
    BY <1>1, <1>3 DEF OnlyHarvester
  <1>4. CASE Open(i)
    <2>1. r.run = "open" /\ r.inode \in Inodes
      BY <1>1, <1>4 DEF Open
    <2> DEFINE q == IF dir[r.path] = r.inode THEN [r EXCEPT !.run = "read", !.hstat = size[r.inode]]
                    ELSE [r EXCEPT !.run = "done", !.failed = TRUE]
    <2>2. /\ q \in InfoRec /\ q.file = r.file /\ q.inode = r.inode /\ q.seen = r.seen
          /\ q.orphaned = r.orphaned /\ q.status = r.status /\ q.finish = r.finish /\ q.off = r.off
          /\ q.run # "no"
      BY <1>1, <1>2, <2>1 DEF InfoRec
    <2>3. info' = [info EXCEPT ![i] = q]
      BY <1>1, <1>4 DEF Open
    <2> HIDE DEF q
    <2>4. UNCHANGED <<pipe, dropped>> /\ Harvesting(i)
      BY <1>4 DEF Open
    <2>5. info'[i].off = info[i].off
      BY <1>1, <2>2, <2>3
    <2>6. q.run # "no" => r.run # "no"
      BY <2>1
    <2> QED  BY <1>3, <2>2, <2>3, <2>4, <2>5, <2>6
  <1>5. CASE Unread(i) /\ info' = [info EXCEPT ![i].off = @ + 1]
    <2> DEFINE q == [r EXCEPT !.off = r.off + 1]
    <2>1. r.run = "read" /\ r.inode \in Inodes /\ r.off < size[r.inode]
      BY <1>1, <1>5 DEF Unread
    <2>2. r.off + 1 \in Lines
      BY <1>1, <1>2, <2>1 DEF InfoRec
    <2>3. /\ q \in InfoRec /\ q.file = r.file /\ q.inode = r.inode /\ q.seen = r.seen
          /\ q.orphaned = r.orphaned /\ q.status = r.status /\ q.finish = r.finish
          /\ q.off = r.off + 1 /\ q.run = r.run
      BY <1>1, <2>2 DEF InfoRec
    <2>4. info' = [info EXCEPT ![i] = q]
      BY <1>1, <1>5
    <2> HIDE DEF q
    <2>5. info'[i].off = info[i].off + 1
      BY <1>1, <2>3, <2>4
    <2>6. r.inode # None
      BY <2>1 DEF TypeInv
    <2>7. CASE Read(i)
      BY <1>3, <2>2, <2>3, <2>4, <2>5, <2>6, <2>7 DEF Read
    <2>8. CASE ReadBlocked(i)
      <3>1. dropped' # {} /\ UNCHANGED pipe
        BY <2>8 DEF ReadBlocked
      <3> QED  BY <1>3, <2>3, <2>4, <2>8, <3>1 DEF ReadBlocked
    <2>9. Read(i) \/ ReadBlocked(i)
      <3>1. ASSUME Open(i) PROVE FALSE
        BY <2>1, <3>1 DEF Open
      <3>2. ASSUME StatCheck(i) PROVE FALSE
        <4>1. info'[i].off = r.off
          BY <1>1, <3>2 DEF StatCheck, InfoRec
        <4>2. r.off \in Int
          BY <1>1, ProspectorAssumption DEF InfoRec, Lines
        <4> QED  BY <4>1, <4>2, <2>5
      <3> QED  BY <3>1, <3>2 DEF HarvesterStep
    <2> QED  BY <2>7, <2>8, <2>9
  <1>6. CASE StatCheck(i)
    <2>1. r.run = "read" /\ r.inode \in Inodes
      BY <1>1, <1>6 DEF StatCheck
    <2>2. \E q \in InfoRec : /\ info' = [info EXCEPT ![i] = q]
            /\ q.file = r.file /\ q.inode = r.inode /\ q.seen = r.seen
            /\ q.orphaned = r.orphaned /\ q.status = r.status /\ q.finish = r.finish /\ q.off = r.off
      <3>1. CASE info' = [info EXCEPT ![i].hstat = size[info[i].inode]]
        <4> DEFINE q == [r EXCEPT !.hstat = size[r.inode]]
        <4>1. q \in InfoRec
          BY <1>1, <1>2, <2>1 DEF InfoRec
        <4>2. info' = [info EXCEPT ![i] = q]
          BY <1>1, <3>1
        <4> WITNESS q \in InfoRec
        <4> QED  BY <1>1, <4>2 DEF InfoRec
      <3>2. CASE info' = [info EXCEPT ![i].run = "done"]
        <4> DEFINE q == [r EXCEPT !.run = "done"]
        <4>1. q \in InfoRec
          BY <1>1 DEF InfoRec
        <4>2. info' = [info EXCEPT ![i] = q]
          BY <1>1, <3>2
        <4> WITNESS q \in InfoRec
        <4> QED  BY <1>1, <4>2 DEF InfoRec
      <3> QED  BY <1>6, <3>1, <3>2 DEF StatCheck
    <2>3. PICK q \in InfoRec : /\ info' = [info EXCEPT ![i] = q]
            /\ q.file = r.file /\ q.inode = r.inode /\ q.seen = r.seen
            /\ q.orphaned = r.orphaned /\ q.status = r.status /\ q.finish = r.finish /\ q.off = r.off
      BY <2>2
    <2>4. UNCHANGED <<pipe, dropped>> /\ Harvesting(i)
      BY <1>6 DEF StatCheck
    <2>5. info'[i].off = info[i].off
      BY <1>1, <2>3
    <2>6. q.run # "no" => r.run # "no"
      BY <2>1
    <2>7. OnlyHarvester(i)
      BY <1>3, <2>3, <2>6
    <2> QED  BY <2>4, <2>5, <2>7
  <1>7. Read(i) \/ ReadBlocked(i) => Unread(i) /\ info' = [info EXCEPT ![i].off = @ + 1]
    BY DEF Read, ReadBlocked
  <1> QED  BY <1>4, <1>5, <1>6, <1>7, Zenon DEF HarvesterStep

\* LoadPrevious gives each saved entry a structure of its own.
LEMMA CrashFacts ==
  ASSUME TypeInv, SavedInv, Crash
  PROVE  /\ RestartedRest
         /\ \E given \in [saved -> Infos] :
              /\ \A d, e \in saved : given[d] = given[e] => d = e
              /\ RestartedInfos(given) /\ RestartedLists(given)
  <1> DEFINE given == CHOOSE g \in [saved -> Infos] : \A d, e \in saved : g[d] = g[e] => d = e
             Loaded(i) == {e \in saved : given[e] = i}
             Of(i) == CHOOSE e \in Loaded(i) : TRUE
             R(i) == [Blank(Of(i).source) EXCEPT !.inode = Of(i).inode, !.status = "resume",
                                                 !.finish = Of(i).offset]
  <1>1. given \in [saved -> Infos] /\ \A d, e \in saved : given[d] = given[e] => d = e
    BY EntriesGiven DEF TypeInv
  <1>2. /\ info' = [i \in Infos |-> IF Loaded(i) = {} THEN Blank(1) ELSE R(i)]
        /\ index' = [f \in Names |-> IF \E e \in saved : e.source = f
                                     THEN given[CHOOSE e \in saved : e.source = f] ELSE None]
        /\ prospectors' = {given[e] : e \in saved}
        /\ registry' = [i \in {given[e] : e \in saved} |-> Of(i)]
    BY DEF Crash
  <1>3. /\ pc' = "idle" /\ todo' = {} /\ spool' = {} /\ pipe' = <<>>
        /\ UNCHANGED <<dir, size, changes, saved, hasState, acked, skipped, dropped, stubbed>>
    BY DEF Crash, fileVars
  <1> HIDE DEF given
  <1>4. \A e \in saved : Of(given[e]) = e /\ Loaded(given[e]) # {}
    <2> SUFFICES ASSUME NEW e \in saved PROVE Of(given[e]) = e /\ Loaded(given[e]) # {}
      OBVIOUS
    <2>1. Loaded(given[e]) = {e}
      BY <1>1
    <2> QED  BY <2>1
  <1>5. \A i \in Infos : Loaded(i) # {} => Of(i) \in saved /\ given[Of(i)] = i
    OBVIOUS
  <1> HIDE DEF Loaded, Of
  <1>6. saved \subseteq Entry
    BY DEF TypeInv, TypeOK
  <1>7. ASSUME NEW e \in Entry
        PROVE  LET r == [Blank(e.source) EXCEPT !.inode = e.inode, !.status = "resume", !.finish = e.offset]
               IN  /\ r \in InfoRec /\ r.run = "no" /\ r.seen = FALSE /\ r.orphaned = "no" /\ r.off = 0
                   /\ r.file = e.source /\ r.inode = e.inode /\ r.finish = e.offset /\ r.status = "resume"
    <2>1. Blank(e.source) \in InfoRec /\ e.inode \in Inodes /\ e.offset \in Lines
      BY BlankInfo DEF Entry
    <2> QED  BY <2>1 DEF InfoRec, Blank
  <1>8. ASSUME NEW i \in Infos
        PROVE  /\ info'[i] \in InfoRec /\ info'[i].run = "no" /\ info'[i].seen = FALSE
               /\ info'[i].orphaned = "no" /\ info'[i].off = 0
               /\ info'[i].status \notin {"missing", "duplicate"}
               /\ info'[i].inode = None \/ \E e \in saved : given[e] = i
    <2>1. CASE Loaded(i) = {}
      <3>1. info'[i] = Blank(1)
        BY <1>2, <2>1
      <3>2. Blank(1) \in InfoRec
        BY BlankInfo, ProspectorAssumption DEF Names
      <3> QED  BY <3>1, <3>2 DEF Blank
    <2>2. CASE Loaded(i) # {}
      <3>1. info'[i] = R(i)
        BY <1>2, <2>2
      <3>2. Of(i) \in Entry /\ Of(i) \in saved /\ given[Of(i)] = i
        BY <1>5, <1>6, <2>2
      <3> QED  BY <3>1, <3>2, <1>7
    <2> QED  BY <2>1, <2>2
  <1>9. ASSUME NEW e \in saved
        PROVE  /\ info'[given[e]].file = e.source /\ info'[given[e]].inode = e.inode
               /\ info'[given[e]].finish = e.offset
    <2>1. given[e] \in Infos /\ e \in Entry
      BY <1>1, <1>6
    <2>2. info'[given[e]] = R(given[e])
      BY <1>2, <1>4, <2>1
    <2>3. info'[given[e]] = [Blank(e.source) EXCEPT !.inode = e.inode, !.status = "resume", !.finish = e.offset]
      BY <1>4, <2>2
    <2> QED  BY <2>1, <2>3, <1>7
  <1>10. ASSUME NEW e \in saved PROVE index'[e.source] = given[e] /\ registry'[given[e]] = e
    <2>1. e.source \in Names
      BY <1>6 DEF Entry
    <2>2. (CHOOSE d \in saved : d.source = e.source) = e
      BY DEF SavedInv
    <2> QED  BY <1>2, <1>4, <2>1, <2>2
  <1>11. index' \in [Names -> Infos \cup {None}] /\ \A f \in Names : index'[f] # None => \E e \in saved : e.source = f
    BY <1>1, <1>2
  <1>12. DOMAIN registry' = {given[e] : e \in saved}
    BY <1>2
  <1>13. info' \in [Infos -> InfoRec]
    <2> HIDE DEF R
    <2> QED  BY <1>2, <1>8
  <1>14. \A i \in Infos : ~Invalid(i)'
    BY <1>8 DEF Invalid
  <1>15. RestartedInfos(given)
    BY <1>8, <1>9, <1>13, <1>14 DEF RestartedInfos
  <1>16. RestartedLists(given)
    BY <1>2, <1>10, <1>11, <1>12 DEF RestartedLists
  <1>17. hasState \in BOOLEAN
    BY DEF TypeInv, TypeOK
  <1>18. RestartedRest
    BY <1>3, <1>17, ProspectorAssumption DEF RestartedRest, Crash
  <1> QED  BY <1>1, <1>15, <1>16, <1>18

\* Nothing is seen any more, what is given up is an orphan that the registrar does
\* not know, and prospectors that are left out have no harvester.
CleanedInfos ==
  /\ info' \in [Infos -> InfoRec]
  /\ \A i \in Infos : /\ info'[i].file = info[i].file /\ info'[i].inode = info[i].inode
                      /\ ~info'[i].seen
                      /\ i \in GivenUp => info'[i].orphaned = "yes"
                      /\ i \notin GivenUp => info'[i].orphaned = info[i].orphaned
                      /\ info'[i].run # "no" => info[i].run # "no"
                      /\ info'[i].off \in {info[i].off, 0}
                      /\ info'[i].finish \in {info[i].off, info[i].finish}
                      /\ Invalid(i)' => Invalid(i)
  /\ prospectors' = prospectors \ {i \in Orphans : info'[i].run = "no"}

LEMMA CleanUpInfos ==
  ASSUME TypeInv, CleanUp
  PROVE  CleanedInfos
  <1> DEFINE polled == [i \in Infos |-> IF i \in Orphans THEN Polled(info[i]) ELSE info[i]]
             r(i) == [polled[i] EXCEPT !.seen = FALSE,
                                       !.orphaned = IF i \in GivenUp THEN "yes" ELSE @]
  <1>1. /\ info' = [i \in Infos |-> r(i)]
        /\ prospectors' = prospectors \ {i \in Orphans : polled[i].run = "no"}
    BY DEF CleanUp
  <1>2. ASSUME NEW i \in Infos
        PROVE  /\ polled[i] \in InfoRec
               /\ polled[i].file = info[i].file /\ polled[i].inode = info[i].inode
               /\ polled[i].orphaned = info[i].orphaned
               /\ polled[i].run # "no" => info[i].run # "no"
               /\ polled[i].off \in {info[i].off, 0} /\ polled[i].finish \in {info[i].off, info[i].finish}
               /\ polled[i].status \in {"missing", "duplicate"}
                    => info[i].status \in {"missing", "duplicate"}
    <2>1. info[i] \in InfoRec
      BY DEF TypeInv, TypeOK
    <2>2. CASE i \in Orphans
      BY <2>1, <2>2, PolledInfo
    <2>3. CASE i \notin Orphans
      BY <2>1, <2>3
    <2> QED  BY <2>2, <2>3
  <1> HIDE DEF polled
  <1>3. ASSUME NEW i \in Infos
        PROVE  /\ r(i) \in InfoRec /\ r(i).file = polled[i].file /\ r(i).inode = polled[i].inode
               /\ r(i).seen = FALSE /\ r(i).run = polled[i].run
               /\ i \in GivenUp => r(i).orphaned = "yes"
               /\ i \notin GivenUp => r(i).orphaned = polled[i].orphaned
               /\ r(i).off = polled[i].off /\ r(i).finish = polled[i].finish
               /\ r(i).status = polled[i].status
    <2> DEFINE o == IF i \in GivenUp THEN "yes" ELSE polled[i].orphaned
    <2>1. o \in {"no", "maybe", "yes"}
      BY <1>2 DEF InfoRec
    <2>2. r(i) = [polled[i] EXCEPT !.seen = FALSE, !.orphaned = o]
      BY <1>2
    <2>3. (i \in GivenUp => o = "yes") /\ (i \notin GivenUp => o = polled[i].orphaned)
      OBVIOUS
    <2> DEFINE p == polled[i]
               q == [p EXCEPT !.seen = FALSE, !.orphaned = o]
    <2>4. p \in InfoRec /\ r(i) = q
      BY <1>2, <2>2
    <2> HIDE DEF o, p
    <2>5. /\ q \in InfoRec /\ q.file = p.file /\ q.inode = p.inode /\ q.seen = FALSE /\ q.run = p.run
          /\ q.orphaned = o /\ q.off = p.off /\ q.finish = p.finish /\ q.status = p.status
      BY <2>1, <2>4 DEF InfoRec
    <2> HIDE DEF q, r
    <2> QED  BY <2>3, <2>4, <2>5 DEF p
  <1> HIDE DEF r
  <1>4. \A i \in Infos : info'[i] = r(i)
    BY <1>1
  <1>5. info' \in [Infos -> InfoRec]
    BY <1>1, <1>3
  <1>6. Orphans \subseteq Infos
    BY DEF Orphans, TypeInv, TypeOK
  <1>7. prospectors' = prospectors \ {i \in Orphans : info'[i].run = "no"}
    BY <1>1, <1>3, <1>4, <1>6
  <1>8. ASSUME NEW i \in Infos
        PROVE  /\ info'[i].file = info[i].file /\ info'[i].inode = info[i].inode
               /\ ~info'[i].seen
               /\ i \in GivenUp => info'[i].orphaned = "yes"
               /\ i \notin GivenUp => info'[i].orphaned = info[i].orphaned
               /\ info'[i].run # "no" => info[i].run # "no"
               /\ info'[i].off \in {info[i].off, 0}
               /\ info'[i].finish \in {info[i].off, info[i].finish}
               /\ Invalid(i)' => Invalid(i)
    BY <1>2, <1>3, <1>4 DEF Invalid
  <1> QED  BY <1>5, <1>7, <1>8 DEF CleanedInfos

\* The registrar knows files that are seen, under their paths: those it knew and
\* those that were discovered.
CleanedRegistry ==
  \A i \in DOMAIN registry' :
    /\ i \in prospectors /\ i \notin GivenUp
    /\ info[i].seen /\ info[i].orphaned = "no"
    /\ registry'[i] \in Entry
    /\ registry'[i].source = info[i].file /\ registry'[i].inode = info[i].inode
    /\ \/ i \in DOMAIN registry /\ registry'[i].offset = registry[i].offset
       \/ \E e \in spool : e.type = "discover" /\ registry'[i] = e.entry

LEMMA Kept ==
  ASSUME TypeInv, NEW i \in prospectors, i \notin GivenUp, info[i].orphaned # "yes"
  PROVE  info[i].seen /\ info[i].orphaned = "no"
  <1>1. i \in Infos /\ info[i].orphaned \in {"no", "maybe", "yes"}
    BY DEF TypeInv, TypeOK, InfoRec
  <1> QED  BY <1>1 DEF GivenUp, Vanished, Orphans

LEMMA CleanUpRegistry ==
  ASSUME TypeInv, RegistryInv, CleanUp
  PROVE  CleanedRegistry
  <1> DEFINE events == spool \cup {[type |-> "deleted", info |-> i] : i \in GivenUp}
             Source(i) == {e.source : e \in {d \in events : d.type = "renamed" /\ d.info = i}}
             New(i)    == {e.entry : e \in {d \in Discovered(events) : d.info = i}}
  <1>1. IF events = {} THEN UNCHANGED stateVars ELSE registry' = Processed(events)
    BY DEF CleanUp, Send
  <1>2. \A e \in spool : e \in SpoolEvent /\ EventInv(e)
    BY DEF TypeInv, TypeOK, RegistryInv
  <1>3. \A i \in DOMAIN registry : i \in prospectors /\ info[i].orphaned # "yes" /\ registry[i] \in Entry
                                   /\ registry[i].inode = info[i].inode
    BY DEF TypeInv, TypeOK, RegistryInv
  <1>4. CASE events = {}
    <2>1. spool = {} /\ GivenUp = {} /\ registry' = registry
      BY <1>1, <1>4 DEF stateVars
    <2>2. ASSUME NEW i \in DOMAIN registry PROVE info[i].seen /\ info[i].orphaned = "no"
      BY <1>3, <2>1, Kept
    <2> QED  BY <1>3, <2>1, <2>2 DEF CleanedRegistry, RegistryInv
  <1>5. CASE events # {}
    <2>1. registry' = [i \in (DOMAIN registry \cup {e.info : e \in Discovered(events)}) \ Deleted(events) |->
           IF New(i) # {} THEN CHOOSE e \in New(i) : TRUE
           ELSE IF Source(i) # {} THEN [registry[i] EXCEPT !.source = CHOOSE s \in Source(i) : TRUE]
           ELSE registry[i]]
      BY <1>1, <1>5 DEF Processed
    <2>2. Discovered(events) = {e \in spool : e.type = "discover"}
      BY DEF Discovered
    <2>3. GivenUp \subseteq Deleted(events)
      <3> SUFFICES ASSUME NEW i \in GivenUp PROVE i \in Deleted(events)
        OBVIOUS
      <3> DEFINE d == [type |-> "deleted", info |-> i]
      <3>1. d \in events /\ d.type = "deleted" /\ d.info = i
        OBVIOUS
      <3> QED  BY <3>1 DEF Deleted
    <2>4. \A i : Source(i) = {e.source : e \in {d \in spool : d.type = "renamed" /\ d.info = i}}
      OBVIOUS
    <2> HIDE DEF events
    <2>5. ASSUME NEW i \in DOMAIN registry'
          PROVE  /\ i \in prospectors /\ i \notin GivenUp
                 /\ info[i].seen /\ info[i].orphaned = "no"
                 /\ registry'[i] \in Entry
                 /\ registry'[i].source = info[i].file /\ registry'[i].inode = info[i].inode
                 /\ \/ i \in DOMAIN registry /\ registry'[i].offset = registry[i].offset
                    \/ \E e \in spool : e.type = "discover" /\ registry'[i] = e.entry
      <3>1. /\ i \notin GivenUp
            /\ i \in DOMAIN registry \/ \E e \in Discovered(events) : e.info = i
        BY <2>1, <2>3
      <3>2. registry'[i] = IF New(i) # {} THEN CHOOSE e \in New(i) : TRUE
              ELSE IF Source(i) # {} THEN [registry[i] EXCEPT !.source = CHOOSE s \in Source(i) : TRUE]
              ELSE registry[i]
        BY <2>1
      <3>3. CASE New(i) # {}
        <4>1. registry'[i] \in New(i)
          BY <3>2, <3>3
        <4>2. PICK e \in Discovered(events) : e.info = i /\ registry'[i] = e.entry
          BY <4>1
        <4>3. e \in spool /\ e.type = "discover"
          BY <2>2, <4>2
        <4>4. e.entry \in Entry
          BY <1>2, <4>3 DEF SpoolEvent
        <4>5. /\ i \in prospectors /\ info[i].seen /\ info[i].orphaned = "no"
              /\ e.entry.source = info[i].file /\ e.entry.inode = info[i].inode
          BY <1>2, <4>2, <4>3 DEF EventInv
        <4> QED  BY <3>1, <4>2, <4>3, <4>4, <4>5
      <3>4. CASE New(i) = {}
        <4>1. i \in DOMAIN registry
          <5>1. ASSUME NEW e \in Discovered(events), e.info = i PROVE FALSE
            <6>1. e.entry \in New(i)
              BY <5>1
            <6> QED  BY <6>1, <3>4
          <5> QED  BY <3>1, <5>1
        <4>2. i \in prospectors /\ info[i].seen /\ info[i].orphaned = "no"
          BY <1>3, <3>1, <4>1, Kept
        <4>3. registry[i] \in Entry /\ registry[i].inode = info[i].inode
          BY <1>3, <4>1
        <4>4. CASE Source(i) # {}
          <5> DEFINE s == CHOOSE x \in Source(i) : TRUE
          <5>1. s \in Source(i)
            BY <4>4
          <5>2. PICK e \in spool : e.type = "renamed" /\ e.info = i /\ e.source = s
            BY <2>4, <5>1
          <5>3. s = info[i].file
            BY <1>2, <5>2 DEF EventInv
          <5>4. s \in Names
            BY <5>3, <4>2 DEF TypeInv, TypeOK, InfoRec
          <5>5. registry'[i] = [registry[i] EXCEPT !.source = s]
            BY <3>2, <3>4, <4>4
          <5> HIDE DEF s
          <5>6. registry'[i] \in Entry /\ registry'[i].source = s
                /\ registry'[i].inode = registry[i].inode /\ registry'[i].offset = registry[i].offset
            BY <4>3, <5>4, <5>5 DEF Entry
          <5> QED  BY <3>1, <4>1, <4>2, <4>3, <5>3, <5>6
        <4>5. CASE Source(i) = {}
          <5>1. registry'[i] = registry[i]
            BY <3>2, <3>4, <4>5
          <5>2. ~\E e \in spool : e.info = i /\ e.type = "renamed"
            <6> SUFFICES ASSUME NEW e \in spool, e.info = i, e.type = "renamed" PROVE FALSE
              OBVIOUS
            <6>1. e.source \in Source(i)
              BY <2>4
            <6> QED  BY <6>1, <4>5
          <5>3. registry[i].source = info[i].file
            BY <4>1, <4>2, <5>2 DEF RegistryInv
          <5> QED  BY <3>1, <4>1, <4>2, <4>3, <5>1, <5>3
        <4> QED  BY <4>4, <4>5
      <3> QED  BY <3>3, <3>4
    <2> QED  BY <2>5 DEF CleanedRegistry
  <1> QED  BY <1>4, <1>5

-----------------------------------------------------------------------------
(* Types. *)

LEMMA SeqTail ==
  ASSUME NEW S, NEW s \in Seq(S), s # <<>>
  PROVE  /\ Head(s) = s[1] /\ s[1] \in S /\ Len(s) \in Nat \ {0}
         /\ Tail(s) \in Seq(S) /\ Len(Tail(s)) = Len(s) - 1
         /\ \A n \in 1 .. Len(s) - 1 : Tail(s)[n] = s[n + 1]
  OBVIOUS

LEMMA SeqAppend ==
  ASSUME NEW S, NEW s \in Seq(S), NEW x \in S
  PROVE  /\ Append(s, x) \in Seq(S) /\ Len(Append(s, x)) = Len(s) + 1 /\ Len(s) \in Nat
         /\ \A n \in 1 .. Len(s) : Append(s, x)[n] = s[n]
         /\ Append(s, x)[Len(s) + 1] = x
  OBVIOUS

\* The state file after a save.
LEMMA SavedEntries ==
  ASSUME DOMAIN registry' \subseteq Infos, Save(registry')
  PROVE  /\ \A e \in saved' : \E i \in DOMAIN registry' : registry'[i] = e
         /\ \A d, e \in saved' : d.source = e.source => d = e
         /\ hasState' = TRUE
  <1>1. IsFiniteSet(DOMAIN registry')
    BY FS_Subset, ProspectorAssumption
  <1>2. saved' \in Canonical(registry') /\ hasState' = TRUE
    BY DEF Save
  <1> HIDE DEF Save
  <1>3. ASSUME NEW reg, reg = registry'
        PROVE  /\ \A e \in saved' : \E i \in DOMAIN reg : reg[i] = e
               /\ \A d, e \in saved' : d.source = e.source => d = e
    BY <1>1, <1>2, <1>3, CanonicalEntries
  <1> QED  BY <1>2, <1>3

LEMMA InitType == Init => TypeInv
  <1> SUFFICES ASSUME Init PROVE TypeInv
    OBVIOUS
  <1>1. info \in [Infos -> InfoRec] /\ \A i \in Infos : info[i].run = "no"
    <2>1. Blank(1) \in InfoRec /\ Blank(1).run = "no"
      BY BlankInfo, ProspectorAssumption DEF Names, Blank
    <2> QED  BY <2>1 DEF Init
  <1>2. DOMAIN registry = {}
    BY DEF Init
  <1>3. TypeOK
    <2> DEFINE E == [info : Infos, line : Lines]
    <2> HIDE DEF E
    <2>1. pipe \in Seq(E)
      BY DEF Init
    <2>2. FromBeginning \in BOOLEAN /\ hasState \in BOOLEAN /\ fromBeginning \in BOOLEAN
      BY ProspectorAssumption DEF Init
    <2>3. /\ dir \in [Names -> Inodes \cup {None}] /\ size \in [Inodes -> Lines \cup {Unused}] /\ changes \in Nat
          /\ index \in [Names -> Infos \cup {None}]
      BY DEF Init
    <2>4. pc = "idle" /\ todo = {} /\ prospectors = {} /\ spool = {} /\ saved = {}
      BY DEF Init
    <2> QED  BY <1>1, <1>2, <2>1, <2>2, <2>3, <2>4, Zenon DEF TypeOK, E
  <1>4. /\ \A f \in Names : dir[f] = None
        /\ acked \in [Inodes -> SUBSET Nat] /\ skipped \in [Inodes -> SUBSET Nat] /\ stubbed \in BOOLEAN
    BY DEF Init
  <1> QED  BY <1>1, <1>3, <1>4 DEF TypeInv

\* Steps of the log files.
LEMMA FilesType ==
  ASSUME TypeInv, ChangeFiles \/ \E ino \in Inodes : AppendLine(ino)
  PROVE  TypeInv'
  <1> USE DEF TypeInv, TypeOK
  <1>1. CASE ChangeFiles
    <2>0. /\ UNCHANGED <<scanVars, pipe, stateVars, historyVars>> /\ changes' = changes + 1
      BY <1>1 DEF ChangeFiles
    <2>1. PICK f \in Names : \/ \E ino \in Inodes : CreateFile(f, ino)
                             \/ \E g \in Names : RenameFile(f, g)
                             \/ DeleteFile(f)
      BY <1>1 DEF ChangeFiles
    <2>2. ASSUME NEW ino \in Inodes, CreateFile(f, ino)
          PROVE  /\ dir' \in [Names -> Inodes \cup {None}] /\ size' \in [Inodes -> Lines \cup {Unused}]
                 /\ \A g \in Names : dir'[g] # None => size'[dir'[g]] \in Lines
      <3>1. 0 \in Lines /\ dir' = [dir EXCEPT ![f] = ino] /\ size' = [size EXCEPT ![ino] = 0]
        BY <2>2, ProspectorAssumption DEF CreateFile, Lines
      <3> QED  BY <3>1
    <2>3. ASSUME NEW g \in Names, RenameFile(f, g)
          PROVE  /\ dir' \in [Names -> Inodes \cup {None}] /\ size' \in [Inodes -> Lines \cup {Unused}]
                 /\ \A h \in Names : dir'[h] # None => size'[dir'[h]] \in Lines
      BY <2>3 DEF RenameFile
    <2>4. ASSUME DeleteFile(f)
          PROVE  /\ dir' \in [Names -> Inodes \cup {None}] /\ size' \in [Inodes -> Lines \cup {Unused}]
                 /\ \A h \in Names : dir'[h] # None => size'[dir'[h]] \in Lines
      BY <2>4 DEF DeleteFile
    <2>5. /\ dir' \in [Names -> Inodes \cup {None}] /\ size' \in [Inodes -> Lines \cup {Unused}]
          /\ \A h \in Names : dir'[h] # None => size'[dir'[h]] \in Lines
      BY <2>1, <2>2, <2>3, <2>4
    <2> QED  BY <2>0, <2>5 DEF scanVars, stateVars, historyVars
  <1>2. ASSUME NEW ino \in Inodes, AppendLine(ino) PROVE TypeInv'
    <2>1. /\ size' = [size EXCEPT ![ino] = @ + 1] /\ size[ino] + 1 \in Lines
          /\ UNCHANGED <<dir, changes, scanVars, pipe, stateVars, historyVars>>
      BY <1>2, ProspectorAssumption DEF AppendLine, Lines
    <2>2. /\ size' \in [Inodes -> Lines \cup {Unused}]
          /\ \A h \in Names : dir[h] # None => size'[dir[h]] \in Lines
      BY <2>1
    <2> QED  BY <2>1, <2>2 DEF scanVars, stateVars, historyVars
  <1> QED  BY <1>1, <1>2

LEMMA HarvestType ==
  ASSUME TypeInv, NEW i \in Infos, HarvesterStep(i)
  PROVE  TypeInv'
  <1>1. OnlyHarvester(i) /\ Harvesting(i)
    BY HarvesterFacts
  <1>2. UNCHANGED pipe \/ (info[i].off + 1 \in Lines
                            /\ pipe' = Append(pipe, [info |-> i, line |-> info[i].off + 1]))
    BY HarvesterFacts
  <1>3. pipe' \in Seq([info : Infos, line : Lines])
    <2> DEFINE E == [info : Infos, line : Lines]
               x == [info |-> i, line |-> info[i].off + 1]
    <2>1. pipe \in Seq(E)
      BY DEF TypeInv, TypeOK
    <2>2. info[i].off + 1 \in Lines => x \in E
      OBVIOUS
    <2> HIDE DEF E
    <2>3. pipe' \in Seq(E)
      BY <1>2, <2>1, <2>2, SeqAppend, Zenon
    <2> QED  BY <2>3 DEF E
  <1>4. info' \in [Infos -> InfoRec] /\ \A j \in Infos : info'[j].run # "no" => info'[j].inode # None
    BY <1>1 DEF OnlyHarvester, TypeInv
  <1> QED  BY <1>1, <1>3, <1>4 DEF TypeInv, TypeOK, Harvesting, fileVars, stateVars

\* The registrar changes one offset.
LEMMA AcknowledgeFacts ==
  ASSUME TypeInv, Acknowledge
  PROVE  /\ pipe # <<>> /\ pipe' = Tail(pipe) /\ Len(pipe) \in Nat \ {0}
         /\ Head(pipe) = pipe[1] /\ pipe[1].info \in Infos /\ pipe[1].line \in Lines
         /\ DOMAIN registry' = DOMAIN registry
         /\ \A i \in DOMAIN registry :
              /\ registry'[i] \in Entry
              /\ registry'[i].source = registry[i].source /\ registry'[i].inode = registry[i].inode
              /\ \/ registry'[i].offset = registry[i].offset
                 \/ i = pipe[1].info /\ registry'[i].offset = pipe[1].line
         /\ Save(registry')
         /\ UNCHANGED <<fileVars, scanVars, skipped, dropped, stubbed, crashes>>
  <1>1. pipe \in Seq([info : Infos, line : Lines]) /\ pipe # <<>>
    BY DEF TypeInv, TypeOK, Acknowledge
  <1>2. /\ Head(pipe) = pipe[1] /\ pipe[1] \in [info : Infos, line : Lines]
        /\ Len(pipe) \in Nat \ {0} /\ pipe' = Tail(pipe)
    BY <1>1, SeqTail, Zenon DEF Acknowledge
  <1>3. registry' = [i \in DOMAIN registry |-> IF i = pipe[1].info THEN [registry[i] EXCEPT !.offset = pipe[1].line]
                                              ELSE registry[i]]
    BY <1>2 DEF Acknowledge, Acked
  <1>4. DOMAIN registry' = DOMAIN registry
    BY <1>3
  <1>5. ASSUME NEW i \in DOMAIN registry
        PROVE  /\ registry'[i] \in Entry
               /\ registry'[i].source = registry[i].source /\ registry'[i].inode = registry[i].inode
               /\ \/ registry'[i].offset = registry[i].offset
                  \/ i = pipe[1].info /\ registry'[i].offset = pipe[1].line
    <2>1. registry[i] \in Entry /\ pipe[1].line \in Lines
      BY <1>2 DEF TypeInv, TypeOK
    <2>2. CASE i = pipe[1].info
      <3>1. registry'[i] = [registry[i] EXCEPT !.offset = pipe[1].line]
        BY <1>3, <2>2
      <3> QED  BY <2>1, <2>2, <3>1 DEF Entry
    <2>3. CASE i # pipe[1].info
      BY <1>3, <2>1, <2>3
    <2> QED  BY <2>2, <2>3
  <1>6. Save(registry') /\ UNCHANGED <<fileVars, scanVars, skipped, dropped, stubbed, crashes>>
    BY DEF Acknowledge
  <1> QED  BY <1>1, <1>2, <1>4, <1>5, <1>6

LEMMA AcknowledgeType ==
  ASSUME TypeInv, Acknowledge, info[pipe[1].info].inode # None
  PROVE  TypeInv'
  <1>0. /\ pipe # <<>> /\ pipe' = Tail(pipe) /\ Head(pipe) = pipe[1]
        /\ pipe[1].info \in Infos /\ pipe[1].line \in Lines
        /\ Save(registry') /\ DOMAIN registry' = DOMAIN registry
        /\ \A i \in DOMAIN registry : registry'[i] \in Entry
    BY AcknowledgeFacts
  <1>1. DOMAIN registry' \subseteq Infos /\ \A i \in DOMAIN registry' : registry'[i] \in Entry
    BY <1>0 DEF TypeInv, TypeOK
  <1>2. saved' \subseteq Entry /\ hasState' \in BOOLEAN
    <2>1. (\A e \in saved' : \E i \in DOMAIN registry' : registry'[i] = e) /\ hasState' = TRUE
      BY <1>0, <1>1, SavedEntries
    <2> QED  BY <1>1, <2>1
  <1>3. pipe' \in Seq([info : Infos, line : Lines])
    BY <1>0, SeqTail, Zenon DEF TypeInv, TypeOK
  <1>4. acked' \in [Inodes -> SUBSET Nat]
    <2> DEFINE ino == info[pipe[1].info].inode
    <2>0. info[pipe[1].info] \in InfoRec
      BY <1>0 DEF TypeInv, TypeOK
    <2>1. ino \in Inodes /\ pipe[1].line \in Nat
      BY <1>0, <2>0, ProspectorAssumption DEF InfoRec, Lines
    <2>2. acked' = [acked EXCEPT ![ino] = @ \cup {pipe[1].line}]
      BY <1>0 DEF Acknowledge
    <2> QED  BY <2>1, <2>2 DEF TypeInv
  <1>5. UNCHANGED <<dir, size, changes, pc, todo, info, index, prospectors, fromBeginning, spool,
                    skipped, stubbed>>
    BY AcknowledgeFacts DEF fileVars, scanVars
  <1> QED  BY <1>1, <1>2, <1>3, <1>4, <1>5 DEF TypeInv, TypeOK

\* A path is processed: the rest of the matches stay.
LEMMA ProcessedFacts ==
  ASSUME TypeInv, NEW f \in Names, ProcessedFile(f)
  PROVE  /\ todo' = todo \ {f} /\ pc' \in {"clean", "scan"} /\ (pc' # "scan" => todo' = {})
         /\ UNCHANGED <<dir, size, changes, fromBeginning, pipe, registry, saved, hasState,
                        acked, dropped, crashes>>
  <1>1. pc' = IF todo = {f} THEN "clean" ELSE "scan"
    BY DEF ProcessedFile
  <1> QED  BY <1>1 DEF ProcessedFile, fileVars, stateVars

\* The structures once a path has another one: that which had it may be an orphan.
LEMMA OrphanedFacts ==
  ASSUME TypeInv, NEW f \in Names
  PROVE  /\ Orphaned(f) \in [Infos -> InfoRec]
         /\ \A j \in Infos : /\ IsKnown(f) /\ j = index[f] => Orphaned(f)[j].orphaned = "maybe"
                             /\ ~(IsKnown(f) /\ j = index[f]) => Orphaned(f)[j] = info[j]
                             /\ Orphaned(f)[j].file = info[j].file /\ Orphaned(f)[j].inode = info[j].inode
                             /\ Orphaned(f)[j].seen = info[j].seen /\ Orphaned(f)[j].run = info[j].run
                             /\ Orphaned(f)[j].off = info[j].off /\ Orphaned(f)[j].finish = info[j].finish
                             /\ Orphaned(f)[j].status = info[j].status
  <1> DEFINE q(j) == [info[j] EXCEPT !.orphaned = "maybe"]
  <1>1. \A j \in Infos : info[j] \in InfoRec
    BY DEF TypeInv, TypeOK
  <1>2. ASSUME NEW j \in Infos
        PROVE  /\ q(j) \in InfoRec /\ q(j).orphaned = "maybe" /\ q(j).file = info[j].file
               /\ q(j).inode = info[j].inode /\ q(j).seen = info[j].seen /\ q(j).run = info[j].run
               /\ q(j).off = info[j].off /\ q(j).finish = info[j].finish /\ q(j).status = info[j].status
    BY <1>1 DEF InfoRec
  <1>3. Orphaned(f) = [j \in Infos |-> IF IsKnown(f) /\ j = index[f] THEN q(j) ELSE info[j]]
    BY DEF Orphaned
  <1> HIDE DEF q
  <1> QED  BY <1>1, <1>2, <1>3

LEMMA ScanType ==
  ASSUME TypeInv, IndexConsistent, ScanStep
  PROVE  TypeInv'
  <1>1. PICK f \in Names :
           \/ PassedOver(f)
           \/ \E r \in InfoRec : Touched(f, r)
           \/ \E i \in Infos, r \in InfoRec : PlacedStub(f, i, r)
           \/ \E i \in Infos, r \in InfoRec, offset \in Lines : PlacedNew(f, i, r, offset)
           \/ \E k \in Infos, r \in InfoRec : Moved(f, k, r)
    BY ScanForms
  <1>2. ASSUME ProcessedFile(f),
               info' \in [Infos -> InfoRec], \A i \in Infos : info'[i].run # "no" => info'[i].inode # None,
               index' \in [Names -> Infos \cup {None}], prospectors' \subseteq Infos,
               spool' \subseteq SpoolEvent, skipped' \in [Inodes -> SUBSET Nat], stubbed' \in BOOLEAN
        PROVE  TypeInv'
    BY <1>2, ProcessedFacts DEF TypeInv, TypeOK
  <1>3. CASE PassedOver(f)
    BY <1>2, <1>3 DEF PassedOver, TypeInv, TypeOK
  <1>4. ASSUME NEW r \in InfoRec, Touched(f, r) PROVE TypeInv'
    <2>1. index[f] \in Infos /\ info' = [info EXCEPT ![index[f]] = r]
          /\ (r.run # "no" => info[index[f]].run # "no" \/ r.inode # None) /\ r.inode = info[index[f]].inode
      BY <1>4 DEF Touched, TypeInv, TypeOK
    <2>2. info' \in [Infos -> InfoRec] /\ \A i \in Infos : info'[i].run # "no" => info'[i].inode # None
      BY <2>1 DEF TypeInv, TypeOK
    <2>3. ProcessedFile(f) /\ UNCHANGED <<prospectors, index, stubbed, spool, skipped>>
      BY <1>4 DEF Touched
    <2> QED  BY <1>2, <2>2, <2>3 DEF TypeInv, TypeOK
  <1>5. ASSUME NEW i \in Infos, NEW r \in InfoRec, Placed(f, i, r), r.run # "no" => r.inode # None
        PROVE  /\ info' \in [Infos -> InfoRec] /\ \A j \in Infos : info'[j].run # "no" => info'[j].inode # None
               /\ index' \in [Names -> Infos \cup {None}] /\ prospectors' \subseteq Infos
               /\ ProcessedFile(f)
    <2>1. info' = [Orphaned(f) EXCEPT ![i] = r] /\ prospectors' = prospectors \cup {i}
          /\ index' = [index EXCEPT ![f] = i] /\ ProcessedFile(f)
      BY <1>5 DEF Placed
    <2>2. info' \in [Infos -> InfoRec] /\ \A j \in Infos : info'[j].run # "no" => info'[j].inode # None
      BY <1>5, <2>1, OrphanedFacts DEF TypeInv
    <2> QED  BY <2>1, <2>2 DEF TypeInv, TypeOK
  <1>6. ASSUME NEW i \in Infos, NEW r \in InfoRec, PlacedStub(f, i, r) PROVE TypeInv'
    <2>1. Placed(f, i, r) /\ r.run = "no" /\ stubbed' = TRUE /\ UNCHANGED <<spool, skipped>>
      BY <1>6 DEF PlacedStub
    <2>2. /\ info' \in [Infos -> InfoRec] /\ \A j \in Infos : info'[j].run # "no" => info'[j].inode # None
          /\ index' \in [Names -> Infos \cup {None}] /\ prospectors' \subseteq Infos
          /\ ProcessedFile(f)
      BY <1>5, <2>1
    <2>3. spool' \subseteq SpoolEvent /\ skipped' \in [Inodes -> SUBSET Nat] /\ stubbed' \in BOOLEAN
      BY <2>1 DEF TypeInv, TypeOK
    <2> QED  BY <1>2, <2>2, <2>3
  <1>7. ASSUME NEW i \in Infos, NEW r \in InfoRec, NEW offset \in Lines, PlacedNew(f, i, r, offset) PROVE TypeInv'
    <2> DEFINE n == [source |-> f, inode |-> dir[f], offset |-> offset]
               e == [type |-> "discover", info |-> i, entry |-> n]
    <2>1. /\ Placed(f, i, r) /\ r.inode = dir[f] /\ dir[f] # None /\ UNCHANGED stubbed
          /\ spool' = spool \cup {e}
          /\ skipped' = [skipped EXCEPT ![dir[f]] = @ \cup 1 .. offset]
      BY <1>7 DEF PlacedNew
    <2>2. /\ info' \in [Infos -> InfoRec] /\ \A j \in Infos : info'[j].run # "no" => info'[j].inode # None
          /\ index' \in [Names -> Infos \cup {None}] /\ prospectors' \subseteq Infos
          /\ ProcessedFile(f)
      BY <1>5, <2>1
    <2>3. dir[f] \in Inodes /\ offset \in Nat
      BY <2>1, ProspectorAssumption DEF TypeInv, TypeOK, Lines
    <2>4. skipped' \in [Inodes -> SUBSET Nat] /\ stubbed' \in BOOLEAN
      BY <2>1, <2>3 DEF TypeInv
    <2>5. e \in SpoolEvent
      <3>1. n \in Entry
        BY <2>3 DEF Entry
      <3> HIDE DEF n
      <3> QED  BY <3>1 DEF SpoolEvent
    <2> HIDE DEF e
    <2>6. spool' \subseteq SpoolEvent
      BY <2>1, <2>5 DEF TypeInv, TypeOK
    <2> QED  BY <1>2, <2>2, <2>4, <2>6
  <1>8. ASSUME NEW k \in Infos, NEW r \in InfoRec, Moved(f, k, r) PROVE TypeInv'
    <2> DEFINE e == [type |-> "renamed", info |-> k, source |-> f]
    <2>1. /\ info' = [Orphaned(f) EXCEPT ![k] = r] /\ index' = Reindexed(f, k) /\ spool' = spool \cup {e}
          /\ UNCHANGED <<prospectors, stubbed, skipped>> /\ ProcessedFile(f)
          /\ k \in SameFile(f) /\ dir[f] # None /\ r.inode = info[k].inode
      BY <1>8 DEF Moved
    <2>2. r.inode # None
      BY <2>1 DEF SameFile
    <2>3. info' \in [Infos -> InfoRec] /\ \A j \in Infos : info'[j].run # "no" => info'[j].inode # None
      BY <2>1, <2>2, OrphanedFacts DEF TypeInv
    <2>4. index' \in [Names -> Infos \cup {None}]
      BY <2>1 DEF Reindexed, TypeInv, TypeOK
    <2>5. e \in SpoolEvent
      BY DEF SpoolEvent
    <2> HIDE DEF e
    <2> QED  BY <1>2, <2>1, <2>3, <2>4, <2>5 DEF TypeInv, TypeOK
  <1> QED  BY <1>1, <1>3, <1>4, <1>6, <1>7, <1>8

LEMMA CleanUpType ==
  ASSUME TypeInv, RegistryInv, ScanInv, CleanUp
  PROVE  TypeInv'
  <1>1. CleanedInfos /\ CleanedRegistry
    BY CleanUpInfos, CleanUpRegistry
  <1>2. DOMAIN registry' \subseteq Infos /\ \A i \in DOMAIN registry' : registry'[i] \in Entry
    BY <1>1 DEF CleanedRegistry, TypeInv, TypeOK
  <1>3. saved' \subseteq Entry /\ hasState' \in BOOLEAN
    <2>1. Save(registry') \/ UNCHANGED <<saved, hasState>>
      BY DEF CleanUp, Send, stateVars
    <2>2. CASE Save(registry')
      <3>1. (\A e \in saved' : \E i \in DOMAIN registry' : registry'[i] = e) /\ hasState' = TRUE
        BY <1>2, <2>2, SavedEntries
      <3> QED  BY <1>2, <3>1
    <2> QED  BY <2>1, <2>2 DEF TypeInv, TypeOK
  <1>4. /\ pc' = "idle" /\ fromBeginning' = TRUE /\ spool' = {}
        /\ UNCHANGED <<dir, size, changes, todo, pipe, acked, skipped, dropped, stubbed, crashes>>
    BY DEF CleanUp, fileVars, historyVars
  <1>5. index' \in [Names -> Infos \cup {None}]
    BY DEF CleanUp, TypeInv, TypeOK
  <1>6. /\ info' \in [Infos -> InfoRec] /\ prospectors' \subseteq Infos
        /\ \A j \in Infos : info'[j].run # "no" => info'[j].inode # None
    BY <1>1 DEF CleanedInfos, TypeInv, TypeOK
  <1> QED  BY <1>2, <1>3, <1>4, <1>5, <1>6 DEF TypeInv, TypeOK

LEMMA CrashType ==
  ASSUME TypeInv, SavedInv, Crash
  PROVE  TypeInv'
  <1>1. RestartedRest
    BY CrashFacts
  <1>2. PICK given \in [saved -> Infos] :
              /\ \A d, e \in saved : given[d] = given[e] => d = e
              /\ RestartedInfos(given) /\ RestartedLists(given)
    BY CrashFacts
  <1>3. DOMAIN registry' \subseteq Infos /\ \A i \in DOMAIN registry' : registry'[i] \in Entry
    BY <1>2 DEF RestartedLists, TypeInv, TypeOK
  <1>4. info' \in [Infos -> InfoRec] /\ \A i \in Infos : info'[i].run = "no"
    BY <1>2 DEF RestartedInfos
  <1>5. index' \in [Names -> Infos \cup {None}] /\ prospectors' \subseteq Infos
    BY <1>2 DEF RestartedLists
  <1>6. pipe' \in Seq([info : Infos, line : Lines])
    <2> DEFINE E == [info : Infos, line : Lines]
    <2> HIDE DEF E
    <2>1. pipe' \in Seq(E)
      BY <1>1 DEF RestartedRest
    <2> QED  BY <2>1 DEF E
  <1>7. /\ pc' = "idle" /\ todo' = {} /\ spool' = {} /\ fromBeginning' \in BOOLEAN
        /\ UNCHANGED <<dir, size, changes, saved, hasState, acked, skipped, dropped, stubbed>>
    BY <1>1 DEF RestartedRest
  <1> QED  BY <1>3, <1>4, <1>5, <1>6, <1>7 DEF TypeInv, TypeOK

LEMMA TypeStep ==
  ASSUME IndInv, [Next]_vars
  PROVE  TypeInv'
  <1> USE DEF IndInv
  <1>1. CASE ChangeFiles \/ \E ino \in Inodes : AppendLine(ino)
    BY <1>1, FilesType
  <1>2. ASSUME NEW i \in Infos, HarvesterStep(i) PROVE TypeInv'
    BY <1>2, HarvestType
  <1>3. CASE Acknowledge
    <2>1. Len(pipe) \in Nat \ {0}
      BY <1>3, AcknowledgeFacts
    <2>2. info[pipe[1].info].inode # None
      BY <2>1 DEF UseInv
    <2> QED  BY <1>3, <2>2, AcknowledgeType
  <1>4. CASE StartScan
    <2>1. /\ todo' \subseteq Names /\ pc' \in {"clean", "scan"}
          /\ UNCHANGED <<fileVars, info, index, prospectors, fromBeginning, spool, pipe, stateVars, historyVars>>
      BY <1>4 DEF StartScan
    <2> QED  BY <2>1 DEF TypeInv, TypeOK, fileVars, stateVars, historyVars
  <1>5. CASE ScanStep
    BY <1>5, ScanType
  <1>6. CASE CleanUp
    BY <1>6, CleanUpType
  <1>7. CASE Crash
    BY <1>7, CrashType
  <1>8. CASE UNCHANGED vars
    BY <1>8 DEF vars, fileVars, scanVars, stateVars, historyVars, TypeInv, TypeOK
  <1> QED  BY <1>1, <1>2, <1>3, <1>4, <1>5, <1>6, <1>7, <1>8 DEF Next

-----------------------------------------------------------------------------
(* The index. *)

LEMMA IndexStep ==
  ASSUME IndInv, [Next]_vars
  PROVE  IndexConsistent'
  <1> USE DEF IndInv
  <1>0. /\ info \in [Infos -> InfoRec] /\ index \in [Names -> Infos \cup {None}]
        /\ \A f \in Names : index[f] # None => index[f] \in Infos
    BY DEF TypeInv, TypeOK
  <1>1. CASE UNCHANGED <<info, index, prospectors>>
    BY <1>1 DEF IndexConsistent
  <1>2. ASSUME NEW i \in Infos, HarvesterStep(i) PROVE IndexConsistent'
    <2>1. OnlyHarvester(i) /\ UNCHANGED <<index, prospectors>>
      BY <1>2, HarvesterFacts DEF Harvesting
    <2> QED  BY <1>0, <2>1 DEF OnlyHarvester, IndexConsistent
  <1>3. CASE ScanStep
    <2>1. PICK f \in Names :
           \/ PassedOver(f)
           \/ \E r \in InfoRec : Touched(f, r)
           \/ \E i \in Infos, r \in InfoRec : PlacedStub(f, i, r)
           \/ \E i \in Infos, r \in InfoRec, offset \in Lines : PlacedNew(f, i, r, offset)
           \/ \E k \in Infos, r \in InfoRec : Moved(f, k, r)
      BY <1>3, ScanForms
    <2>2. CASE PassedOver(f)
      BY <1>1, <2>2 DEF PassedOver
    <2>3. ASSUME NEW r \in InfoRec, Touched(f, r) PROVE IndexConsistent'
      <3>1. /\ index[f] \in Infos /\ info' = [info EXCEPT ![index[f]] = r] /\ r.file = f /\ r.orphaned = "no"
            /\ UNCHANGED <<index, prospectors>>
        BY <1>0, <2>3 DEF Touched
      <3> QED  BY <1>0, <3>1 DEF IndexConsistent
    <2>4. ASSUME NEW i \in Infos, NEW r \in InfoRec, Placed(f, i, r) PROVE IndexConsistent'
      <3>1. /\ info' = [Orphaned(f) EXCEPT ![i] = r] /\ r.file = f /\ r.orphaned = "no"
            /\ index' = [index EXCEPT ![f] = i] /\ prospectors' = prospectors \cup {i}
            /\ \A g \in Names : index[g] # i
        BY <2>4 DEF Placed, Free
      <3>2. ASSUME NEW g \in Names, index'[g] # None
            PROVE  /\ index'[g] \in prospectors' /\ info'[index'[g]].file = g
                   /\ info'[index'[g]].orphaned = "no"
        <4>1. info'[i] = r
          BY <3>1, OrphanedFacts
        <4>2. CASE g = f
          BY <1>0, <3>1, <4>1, <4>2
        <4>3. CASE g # f
          <5>1. index'[g] = index[g] /\ index[g] \in Infos /\ index[g] # i
            BY <1>0, <3>1, <3>2, <4>3
          <5>2. index[g] \in prospectors /\ info[index[g]].file = g /\ info[index[g]].orphaned = "no"
            BY <3>2, <5>1 DEF IndexConsistent
          <5>3. ~(IsKnown(f) /\ index[g] = index[f])
            BY <4>3, <5>2 DEF IsKnown, IndexConsistent
          <5>4. Orphaned(f)[index[g]] = info[index[g]] /\ Orphaned(f) \in [Infos -> InfoRec]
            BY <5>1, <5>3, OrphanedFacts
          <5>5. info'[index[g]] = info[index[g]]
            BY <3>1, <5>1, <5>4
          <5> QED  BY <3>1, <5>1, <5>2, <5>5
        <4> QED  BY <4>2, <4>3
      <3> QED  BY <3>2 DEF IndexConsistent
    <2>5. ASSUME NEW k \in Infos, NEW r \in InfoRec, Moved(f, k, r) PROVE IndexConsistent'
      <3>1. /\ info' = [Orphaned(f) EXCEPT ![k] = r] /\ r.file = f /\ r.orphaned = "no"
            /\ index' = Reindexed(f, k) /\ UNCHANGED prospectors /\ k \in prospectors
        BY <2>5 DEF Moved, SameFile
      <3>2. ASSUME NEW g \in Names, index'[g] # None
            PROVE  /\ index'[g] \in prospectors' /\ info'[index'[g]].file = g
                   /\ info'[index'[g]].orphaned = "no"
        <4>1. info'[k] = r
          BY <3>1, OrphanedFacts
        <4>2. CASE g = f
          BY <1>0, <3>1, <4>1, <4>2 DEF Reindexed
        <4>3. CASE g # f
          <5>1. index'[g] = index[g] /\ index[g] \in Infos /\ ~(info[k].orphaned = "no" /\ g = info[k].file)
            BY <1>0, <3>1, <3>2, <4>3 DEF Reindexed
          <5>2. index[g] \in prospectors /\ info[index[g]].file = g /\ info[index[g]].orphaned = "no"
            BY <3>2, <5>1 DEF IndexConsistent
          <5>3. ~(IsKnown(f) /\ index[g] = index[f]) /\ index[g] # k
            BY <4>3, <5>1, <5>2 DEF IsKnown, IndexConsistent
          <5>4. Orphaned(f)[index[g]] = info[index[g]] /\ Orphaned(f) \in [Infos -> InfoRec]
            BY <5>1, <5>3, OrphanedFacts
          <5>5. info'[index[g]] = info[index[g]]
            BY <3>1, <5>1, <5>3, <5>4
          <5> QED  BY <3>1, <5>1, <5>2, <5>5
        <4> QED  BY <4>2, <4>3
      <3> QED  BY <3>2 DEF IndexConsistent
    <2> QED  BY <2>1, <2>2, <2>3, <2>4, <2>5 DEF PlacedStub, PlacedNew
  <1>4. CASE CleanUp
    <2>1. CleanedInfos
      BY <1>4, CleanUpInfos
    <2>2. index' = [f \in Names |-> IF \E i \in Vanished : info[i].file = f THEN None ELSE index[f]]
      BY <1>4 DEF CleanUp
    <2>3. ASSUME NEW f \in Names, index'[f] # None
          PROVE  /\ index'[f] \in prospectors' /\ info'[index'[f]].file = f
                 /\ info'[index'[f]].orphaned = "no"
      <3>1. index'[f] = index[f] /\ index[f] \in Infos /\ ~\E i \in Vanished : info[i].file = f
        BY <1>0, <2>2, <2>3
      <3>2. index[f] \in prospectors /\ info[index[f]].file = f /\ info[index[f]].orphaned = "no"
        BY <2>3, <3>1 DEF IndexConsistent
      <3>3. index[f] \notin Orphans /\ index[f] \notin GivenUp
        BY <3>1, <3>2 DEF GivenUp, Orphans
      <3> QED  BY <2>1, <3>1, <3>2, <3>3 DEF CleanedInfos
    <2> QED  BY <2>3 DEF IndexConsistent
  <1>5. CASE Crash
    <2>1. PICK given \in [saved -> Infos] : RestartedInfos(given) /\ RestartedLists(given)
      BY <1>5, CrashFacts
    <2> QED  BY <2>1 DEF RestartedInfos, RestartedLists, IndexConsistent
  <1>6. CASE ChangeFiles \/ (\E ino \in Inodes : AppendLine(ino)) \/ Acknowledge \/ StartScan \/ UNCHANGED vars
    <2>1. UNCHANGED <<info, index, prospectors>>
      BY <1>6 DEF ChangeFiles, AppendLine, Acknowledge, StartScan, vars, scanVars
    <2> QED  BY <1>1, <2>1
  <1> QED  BY <1>2, <1>3, <1>4, <1>5, <1>6 DEF Next

-----------------------------------------------------------------------------
(* Scans. *)

LEMMA ScanInvStep ==
  ASSUME IndInv, [Next]_vars
  PROVE  ScanInv'
  <1> USE DEF IndInv
  <1>0. /\ info \in [Infos -> InfoRec] /\ index \in [Names -> Infos \cup {None}]
        /\ \A f \in Names : index[f] # None => index[f] \in Infos
        /\ \A i \in Infos : info[i].seen \in BOOLEAN
    BY DEF TypeInv, TypeOK, InfoRec
  <1>1. CASE UNCHANGED <<info, pc, todo, spool>>
    BY <1>1 DEF ScanInv
  <1>2. ASSUME NEW i \in Infos, HarvesterStep(i) PROVE ScanInv'
    <2>1. OnlyHarvester(i) /\ UNCHANGED <<pc, todo, spool>>
      BY <1>2, HarvesterFacts DEF Harvesting
    <2> QED  BY <1>0, <2>1 DEF OnlyHarvester, ScanInv
  <1>3. CASE StartScan
    <2>1. pc = "idle" /\ (pc' # "scan" => todo' = {}) /\ pc' # "idle" /\ UNCHANGED <<info, spool>>
      BY <1>3 DEF StartScan
    <2> QED  BY <2>1 DEF ScanInv
  <1>4. CASE ScanStep
    <2>1. PICK f \in Names :
           \/ PassedOver(f)
           \/ \E r \in InfoRec : Touched(f, r)
           \/ \E i \in Infos, r \in InfoRec : PlacedStub(f, i, r)
           \/ \E i \in Infos, r \in InfoRec, offset \in Lines : PlacedNew(f, i, r, offset)
           \/ \E k \in Infos, r \in InfoRec : Moved(f, k, r)
      BY <1>4, ScanForms
    <2>2. ASSUME f \in todo, ProcessedFile(f), NEW i \in Infos,
                 info'[i].file = f,
                 \A j \in Infos \ {i} : info'[j].seen /\ info'[j].orphaned = "no" =>
                                        info[j].seen /\ info[j].orphaned = "no" /\ info'[j].file = info[j].file
          PROVE  ScanInv'
      <3>1. /\ todo' = todo \ {f} /\ (pc' # "scan" => todo' = {}) /\ pc' # "idle"
        BY <2>2, ProcessedFacts
      <3>2. \A j \in Infos \ {i} : info'[j].seen /\ info'[j].orphaned = "no" =>
               info'[j].file \notin todo /\ info'[j].file # f
        BY <2>2 DEF ScanInv
      <3>3. \A j, m \in Infos \ {i} : info'[j].seen /\ info'[j].orphaned = "no" /\ info'[m].seen /\ info'[m].orphaned = "no"
               /\ info'[m].file = info'[j].file => m = j
        BY <2>2 DEF ScanInv
      <3> QED  BY <2>2, <3>1, <3>2, <3>3 DEF ScanInv
    <2>3. CASE PassedOver(f)
      <3>1. UNCHANGED info /\ todo' = todo \ {f} /\ (pc' # "scan" => todo' = {}) /\ pc' # "idle"
        BY <2>3, ProcessedFacts DEF PassedOver
      <3> QED  BY <3>1 DEF ScanInv
    <2>4. ASSUME NEW r \in InfoRec, Touched(f, r) PROVE ScanInv'
      <3>1. /\ index[f] \in Infos /\ info' = [info EXCEPT ![index[f]] = r] /\ r.file = f
            /\ f \in todo /\ ProcessedFile(f)
        BY <1>0, <2>4 DEF Touched
      <3>2. info'[index[f]] = r /\ \A j \in Infos \ {index[f]} : info'[j] = info[j]
        BY <1>0, <3>1
      <3> QED  BY <2>2, <3>1, <3>2
    <2>5. ASSUME NEW i \in Infos, NEW r \in InfoRec, info' = [Orphaned(f) EXCEPT ![i] = r], r.file = f,
                 f \in todo, ProcessedFile(f)
          PROVE  ScanInv'
      <3>1. info'[i] = r /\ \A j \in Infos \ {i} : info'[j] = Orphaned(f)[j]
        BY <2>5, OrphanedFacts
      <3>2. \A j \in Infos : /\ Orphaned(f)[j].seen = info[j].seen /\ Orphaned(f)[j].file = info[j].file
                             /\ Orphaned(f)[j].orphaned = "no" => info[j].orphaned = "no"
        BY OrphanedFacts
      <3> QED  BY <2>2, <2>5, <3>1, <3>2
    <2> QED  BY <2>1, <2>3, <2>4, <2>5 DEF PlacedStub, PlacedNew, Placed, Moved
  <1>5. CASE CleanUp
    <2>1. CleanedInfos /\ pc' = "idle" /\ spool' = {} /\ UNCHANGED todo /\ pc = "clean"
      BY <1>5, CleanUpInfos DEF CleanUp
    <2> QED  BY <2>1 DEF CleanedInfos, ScanInv
  <1>6. CASE Crash
    <2>1. RestartedRest /\ \E given \in [saved -> Infos] : RestartedInfos(given)
      BY <1>6, CrashFacts
    <2> QED  BY <2>1 DEF RestartedInfos, RestartedRest, ScanInv
  <1>7. CASE ChangeFiles \/ (\E ino \in Inodes : AppendLine(ino)) \/ Acknowledge \/ UNCHANGED vars
    <2>1. UNCHANGED <<info, pc, todo, spool>>
      BY <1>7 DEF ChangeFiles, AppendLine, Acknowledge, vars, scanVars
    <2> QED  BY <1>1, <2>1
  <1> QED  BY <1>2, <1>3, <1>4, <1>5, <1>6, <1>7 DEF Next

-----------------------------------------------------------------------------
(* The registrar and its state file. *)

\* What was seen in this scan is not the structure of a path still to be processed.
LEMMA SeenApart ==
  ASSUME IndInv, NEW f \in Names, f \in todo, index[f] # None,
         NEW j \in Infos, info[j].seen, info[j].orphaned = "no"
  PROVE  j # index[f]
  BY DEF IndInv, ScanInv, IndexConsistent

LEMMA RegistryStep ==
  ASSUME IndInv, [Next]_vars
  PROVE  RegistryInv'
  <1> USE DEF IndInv
  <1>0. /\ info \in [Infos -> InfoRec] /\ index \in [Names -> Infos \cup {None}]
        /\ \A f \in Names : index[f] # None => index[f] \in Infos
        /\ prospectors \subseteq Infos /\ DOMAIN registry \subseteq Infos
    BY DEF TypeInv, TypeOK
  <1>1. ASSUME \A j \in Infos : /\ info'[j].file = info[j].file /\ info'[j].inode = info[j].inode
                                /\ info'[j].seen = info[j].seen /\ info'[j].orphaned = info[j].orphaned,
               UNCHANGED <<prospectors, spool>>,
               DOMAIN registry' = DOMAIN registry,
               \A i \in DOMAIN registry : registry'[i].source = registry[i].source /\ registry'[i].inode = registry[i].inode
        PROVE  RegistryInv'
    <2>1. \A e \in spool : e.info \in Infos /\ EventInv(e)
      BY <1>0 DEF RegistryInv, EventInv
    <2>2. \A e \in spool : EventInv(e)'
      BY <1>1, <2>1 DEF EventInv
    <2> QED  BY <1>0, <1>1, <2>2 DEF RegistryInv, NoConflict
  <1>2. ASSUME NEW i \in Infos, HarvesterStep(i) PROVE RegistryInv'
    <2>1. OnlyHarvester(i) /\ UNCHANGED <<prospectors, spool, registry>>
      BY <1>2, HarvesterFacts DEF Harvesting, stateVars
    <2> QED  BY <1>1, <2>1 DEF OnlyHarvester
  <1>3. CASE Acknowledge
    <2>1. /\ DOMAIN registry' = DOMAIN registry
          /\ \A i \in DOMAIN registry : registry'[i].source = registry[i].source /\ registry'[i].inode = registry[i].inode
          /\ UNCHANGED <<info, prospectors, spool>>
      BY <1>3, AcknowledgeFacts DEF scanVars
    <2> QED  BY <1>1, <2>1
  <1>4. CASE ScanStep
    <2>1. PICK f \in Names :
           \/ PassedOver(f)
           \/ \E r \in InfoRec : Touched(f, r)
           \/ \E i \in Infos, r \in InfoRec : PlacedStub(f, i, r)
           \/ \E i \in Infos, r \in InfoRec, offset \in Lines : PlacedNew(f, i, r, offset)
           \/ \E k \in Infos, r \in InfoRec : Moved(f, k, r)
      BY <1>4, ScanForms
    <2>2. CASE PassedOver(f)
      <3>1. UNCHANGED <<info, prospectors, spool, registry>>
        BY <2>2, ProcessedFacts DEF PassedOver
      <3> QED  BY <1>1, <3>1
    <2>3. \A e \in spool : e.info \in Infos /\ info[e.info].seen /\ info[e.info].orphaned = "no" /\ EventInv(e)
      BY <1>0 DEF RegistryInv, EventInv
    <2>4. ASSUME prospectors \subseteq prospectors', UNCHANGED registry,
                 \A j \in Infos : info[j].seen /\ info[j].orphaned = "no" => info'[j] = info[j] \/ \A e \in spool : e.info # j
          PROVE  \A e \in spool : EventInv(e)'
      <3> SUFFICES ASSUME NEW e \in spool PROVE EventInv(e)'
        OBVIOUS
      <3>1. info'[e.info] = info[e.info] /\ EventInv(e) /\ e.info \in Infos
        BY <2>3, <2>4
      <3> QED  BY <2>4, <3>1 DEF EventInv
    <2>5. ASSUME NEW r \in InfoRec, Touched(f, r) PROVE RegistryInv'
      <3>1. /\ index[f] \in Infos /\ index[f] # None /\ info' = [info EXCEPT ![index[f]] = r] /\ r.file = f
            /\ r.orphaned = "no" /\ r.inode = info[index[f]].inode
            /\ f \in todo /\ UNCHANGED <<prospectors, spool, registry>>
        BY <1>0, <2>5, ProcessedFacts DEF Touched
      <3>2. info'[index[f]] = r /\ \A j \in Infos \ {index[f]} : info'[j] = info[j]
        BY <1>0, <3>1
      <3>3. \A j \in Infos : info[j].seen /\ info[j].orphaned = "no" => info'[j] = info[j]
        BY <3>1, <3>2, SeenApart
      <3>4. \A e \in spool : EventInv(e)'
        BY <2>4, <3>1, <3>3
      <3>5. info[index[f]].file = f /\ info[index[f]].orphaned = "no"
        BY <3>1 DEF IndexConsistent
      <3> QED  BY <1>0, <3>1, <3>2, <3>4, <3>5 DEF RegistryInv, NoConflict
    <2>6. ASSUME NEW i \in Infos, NEW r \in InfoRec, NEW e,
                 info' = [Orphaned(f) EXCEPT ![i] = r], f \in todo,
                 prospectors \subseteq prospectors', UNCHANGED registry,
                 spool' = spool \/ (spool' = spool \cup {e} /\ EventInv(e)'),
                 \/ i \notin DOMAIN registry /\ \A d \in spool : d.info # i
                 \/ /\ ~info[i].seen /\ r.orphaned = "no" /\ r.inode = info[i].inode
                    /\ e \in spool' /\ e.info = i /\ e.type = "renamed"
          PROVE  RegistryInv'
      <3>1. info'[i] = r /\ \A j \in Infos \ {i} : info'[j] = Orphaned(f)[j]
        BY <2>6, OrphanedFacts
      <3>2. \A j \in Infos \ {i} : /\ info'[j].file = info[j].file /\ info'[j].inode = info[j].inode
                                   /\ info'[j] = info[j] \/ (j = index[f] /\ index[f] # None /\ info'[j].orphaned = "maybe")
        BY <3>1, OrphanedFacts DEF IsKnown
      <3>3. \A j \in Infos : info[j].seen /\ info[j].orphaned = "no" => info'[j] = info[j] \/ \A d \in spool : d.info # j
        BY <2>6, <3>1, <3>2, SeenApart
      <3>4. \A d \in spool : EventInv(d)'
        BY <2>4, <2>6, <3>3
      <3>5. \A d \in spool' : EventInv(d)'
        BY <2>6, <3>4
      <3>6. spool \subseteq spool'
        BY <2>6
      <3>7. ASSUME NEW j \in DOMAIN registry
            PROVE  /\ j \in prospectors' /\ info'[j].orphaned # "yes"
                   /\ registry[j].inode = info'[j].inode
                   /\ \/ info'[j].orphaned = "maybe"
                      \/ registry[j].source = info'[j].file
                      \/ \E d \in spool' : d.info = j /\ d.type = "renamed"
        <4>1. /\ j \in prospectors /\ j \in Infos /\ info[j].orphaned # "yes" /\ registry[j].inode = info[j].inode
              /\ \/ info[j].orphaned = "maybe"
                 \/ registry[j].source = info[j].file
                 \/ \E d \in spool : d.info = j /\ d.type = "renamed"
          BY <1>0 DEF RegistryInv
        <4>2. CASE j = i
          BY <2>6, <3>1, <4>1, <4>2
        <4>3. CASE j # i
          BY <2>6, <3>2, <3>6, <4>1, <4>3
        <4> QED  BY <4>2, <4>3
      <3>8. NoConflict'
        BY <2>6 DEF RegistryInv, NoConflict
      <3> QED  BY <2>6, <3>5, <3>7, <3>8 DEF RegistryInv
    <2>7. ASSUME NEW i \in Infos, NEW r \in InfoRec, Placed(f, i, r)
          PROVE  /\ info' = [Orphaned(f) EXCEPT ![i] = r] /\ f \in todo /\ prospectors \subseteq prospectors'
                 /\ UNCHANGED registry /\ i \notin DOMAIN registry /\ \A d \in spool : d.info # i
                 /\ i \in prospectors' /\ r.file = f /\ r.orphaned = "no" /\ r.seen /\ info'[i] = r
      <3>1. info'[i] = r
        BY <2>7, OrphanedFacts DEF Placed
      <3> QED  BY <2>7, <3>1, ProcessedFacts DEF Placed, Free
    <2>8. ASSUME NEW i \in Infos, NEW r \in InfoRec, PlacedStub(f, i, r) PROVE RegistryInv'
      <3>1. Placed(f, i, r) /\ UNCHANGED spool
        BY <2>8 DEF PlacedStub
      <3> QED  BY <2>6, <2>7, <3>1
    <2>9. ASSUME NEW i \in Infos, NEW r \in InfoRec, NEW offset \in Lines, PlacedNew(f, i, r, offset) PROVE RegistryInv'
      <3> DEFINE n == [source |-> f, inode |-> dir[f], offset |-> offset]
                 e == [type |-> "discover", info |-> i, entry |-> n]
      <3>1. Placed(f, i, r) /\ spool' = spool \cup {e} /\ r.inode = dir[f]
        BY <2>9 DEF PlacedNew
      <3>2. e.type = "discover" /\ e.info = i /\ e.entry.source = f /\ e.entry.inode = dir[f]
        OBVIOUS
      <3> HIDE DEF e
      <3>3. \A x : x = e => EventInv(x)'
        BY <2>7, <3>1, <3>2 DEF EventInv
      <3>4. ASSUME NEW x, x = e PROVE RegistryInv'
        <4>1. EventInv(x)' /\ spool' = spool \cup {x}
          BY <3>1, <3>3, <3>4
        <4> QED  BY <2>6, <2>7, <3>1, <4>1
      <3> QED  BY <3>4
    <2>10. ASSUME NEW k \in Infos, NEW r \in InfoRec, Moved(f, k, r) PROVE RegistryInv'
      <3> DEFINE e == [type |-> "renamed", info |-> k, source |-> f]
      <3>1. /\ info' = [Orphaned(f) EXCEPT ![k] = r] /\ f \in todo /\ UNCHANGED <<prospectors, registry>>
            /\ spool' = spool \cup {e} /\ ~info[k].seen /\ r.orphaned = "no" /\ r.inode = info[k].inode
            /\ r.file = f /\ r.seen /\ k \in prospectors
        BY <2>10, ProcessedFacts DEF Moved, SameFile
      <3>2. e.type = "renamed" /\ e.info = k /\ e.source = f
        OBVIOUS
      <3> HIDE DEF e
      <3>3. info'[k] = r
        BY <3>1, OrphanedFacts
      <3>4. \A x : x = e => EventInv(x)'
        BY <3>1, <3>2, <3>3 DEF EventInv
      <3>5. ASSUME NEW x, x = e PROVE RegistryInv'
        <4>1. /\ EventInv(x)' /\ spool' = spool \cup {x} /\ x \in spool' /\ x.info = k /\ x.type = "renamed"
              /\ prospectors \subseteq prospectors' /\ UNCHANGED registry
          BY <3>1, <3>2, <3>4, <3>5
        <4> QED  BY <2>6, <3>1, <4>1
      <3> QED  BY <3>5
    <2> QED  BY <2>1, <2>2, <2>5, <2>8, <2>9, <2>10
  <1>5. CASE CleanUp
    <2>1. CleanedInfos /\ CleanedRegistry /\ spool' = {}
      BY <1>5, CleanUpInfos, CleanUpRegistry DEF CleanUp
    <2>2. ASSUME NEW i \in DOMAIN registry'
          PROVE  /\ i \in prospectors' /\ info'[i].orphaned # "yes"
                 /\ registry'[i].inode = info'[i].inode
                 /\ registry'[i].source = info'[i].file
      <3>1. /\ i \in prospectors /\ i \notin GivenUp /\ info[i].orphaned = "no"
            /\ registry'[i].source = info[i].file /\ registry'[i].inode = info[i].inode
        BY <2>1 DEF CleanedRegistry
      <3>2. i \in Infos /\ i \notin Orphans
        BY <1>0, <3>1 DEF Orphans
      <3> QED  BY <2>1, <3>1, <3>2 DEF CleanedInfos
    <2>3. NoConflict'
      <3>1. \A i \in DOMAIN registry' : i \in Infos /\ info[i].seen /\ info[i].orphaned = "no"
                                        /\ registry'[i].source = info[i].file
        BY <1>0, <2>1 DEF CleanedRegistry
      <3> QED  BY <3>1 DEF NoConflict, ScanInv
    <2> QED  BY <2>1, <2>2, <2>3 DEF RegistryInv
  <1>6. CASE Crash
    <2>1. PICK given \in [saved -> Infos] : RestartedInfos(given) /\ RestartedLists(given)
      BY <1>6, CrashFacts
    <2>2. spool' = {}
      BY <1>6, CrashFacts DEF RestartedRest
    <2>3. NoConflict'
      BY <2>1 DEF RestartedLists, NoConflict, SavedInv
    <2> QED  BY <2>1, <2>2, <2>3 DEF RestartedLists, RestartedInfos, RegistryInv
  <1>7. CASE ChangeFiles \/ (\E ino \in Inodes : AppendLine(ino)) \/ StartScan \/ UNCHANGED vars
    <2>1. UNCHANGED <<info, prospectors, spool, registry>>
      BY <1>7 DEF ChangeFiles, AppendLine, StartScan, vars, scanVars, stateVars
    <2> QED  BY <1>1, <2>1
  <1> QED  BY <1>2, <1>3, <1>4, <1>5, <1>6, <1>7 DEF Next

LEMMA SavedStep ==
  ASSUME IndInv, [Next]_vars
  PROVE  SavedInv'
  <1> USE DEF IndInv
  <1>1. CASE UNCHANGED <<saved, registry>>
    BY <1>1 DEF SavedInv
  <1>2. ASSUME DOMAIN registry' \subseteq Infos, Save(registry') PROVE SavedInv'
    BY <1>2, SavedEntries DEF SavedInv
  <1>3. ASSUME NEW i \in Infos, HarvesterStep(i) PROVE SavedInv'
    <2>1. UNCHANGED <<saved, registry>>
      BY <1>3, HarvesterFacts DEF Harvesting, stateVars
    <2> QED  BY <1>1, <2>1
  <1>4. CASE Acknowledge
    <2>1. DOMAIN registry' \subseteq Infos /\ Save(registry')
      BY <1>4, AcknowledgeFacts DEF TypeInv, TypeOK
    <2> QED  BY <1>2, <2>1
  <1>5. CASE ScanStep
    <2>1. UNCHANGED stateVars
      BY <1>5 DEF ScanStep, StatFails, IsDuplicate, IsRenamed, IsNew, IsSame, ProcessedFile
    <2> QED  BY <1>1, <2>1 DEF stateVars
  <1>6. CASE CleanUp
    <2>1. CleanedRegistry
      BY <1>6, CleanUpRegistry
    <2>2. DOMAIN registry' \subseteq Infos
      BY <2>1 DEF CleanedRegistry, TypeInv, TypeOK
    <2>3. Save(registry') \/ UNCHANGED <<saved, registry>>
      BY <1>6 DEF CleanUp, Send, stateVars
    <2> QED  BY <1>1, <1>2, <2>2, <2>3
  <1>7. CASE Crash
    <2>1. RestartedRest /\ \E given \in [saved -> Infos] : RestartedLists(given)
      BY <1>7, CrashFacts
    <2> QED  BY <2>1 DEF RestartedLists, RestartedRest, SavedInv
  <1>8. CASE ChangeFiles \/ (\E ino \in Inodes : AppendLine(ino)) \/ StartScan \/ UNCHANGED vars
    <2>1. UNCHANGED <<saved, registry>>
      BY <1>8 DEF ChangeFiles, AppendLine, StartScan, vars, stateVars
    <2> QED  BY <1>1, <2>1
  <1> QED  BY <1>3, <1>4, <1>5, <1>6, <1>7, <1>8 DEF Next

-----------------------------------------------------------------------------
(* One prospector for a file, and its harvester. *)

LEMMA UniqueStep ==
  ASSUME IndInv, [Next]_vars
  PROVE  UniqueInv'
  <1> USE DEF IndInv
  <1>0. /\ info \in [Infos -> InfoRec] /\ index \in [Names -> Infos \cup {None}]
        /\ \A f \in Names : index[f] # None => index[f] \in Infos
        /\ prospectors \subseteq Infos
        /\ \A i \in Infos : i # None /\ info[i].file \in Names
    BY ProspectorAssumption DEF TypeInv, TypeOK, InfoRec, None
  <1>1. ASSUME \A j \in Infos : /\ info'[j].file = info[j].file /\ info'[j].inode = info[j].inode
                                /\ info'[j].orphaned = info[j].orphaned /\ info'[j].status = info[j].status,
               UNCHANGED <<prospectors, index, stubbed>>
        PROVE  UniqueInv'
    BY <1>0, <1>1 DEF UniqueInv, Invalid
  <1>2. ASSUME NEW i \in Infos, HarvesterStep(i) PROVE UniqueInv'
    <2>1. OnlyHarvester(i) /\ UNCHANGED <<prospectors, index, stubbed>>
      BY <1>2, HarvesterFacts DEF Harvesting
    <2> QED  BY <1>1, <2>1 DEF OnlyHarvester
  <1>3. CASE ScanStep
    <2>1. PICK f \in Names :
           \/ PassedOver(f)
           \/ \E r \in InfoRec : Touched(f, r)
           \/ \E i \in Infos, r \in InfoRec : PlacedStub(f, i, r)
           \/ \E i \in Infos, r \in InfoRec, offset \in Lines : PlacedNew(f, i, r, offset)
           \/ \E k \in Infos, r \in InfoRec : Moved(f, k, r)
      BY <1>3, ScanForms
    <2>2. CASE PassedOver(f)
      <3>1. UNCHANGED <<info, prospectors, index, stubbed>>
        BY <2>2 DEF PassedOver
      <3> QED  BY <1>1, <3>1
    <2>3. ASSUME NEW r \in InfoRec, Touched(f, r) PROVE UniqueInv'
      <3>1. /\ index[f] \in Infos /\ index[f] # None /\ info' = [info EXCEPT ![index[f]] = r] /\ r.file = f
            /\ r.inode = info[index[f]].inode /\ r.orphaned = "no"
            /\ r.status \in {"missing", "duplicate"} => Invalid(index[f])
            /\ UNCHANGED <<prospectors, index, stubbed>>
        BY <1>0, <2>3 DEF Touched
      <3>2. info'[index[f]] = r /\ \A j \in Infos \ {index[f]} : info'[j] = info[j]
        BY <1>0, <3>1
      <3> QED  BY <1>0, <3>1, <3>2 DEF UniqueInv, Invalid
    <2>4. ASSUME NEW i \in Infos, NEW r \in InfoRec, PlacedStub(f, i, r) PROVE UniqueInv'
      BY <2>4 DEF PlacedStub, UniqueInv
    <2>5. ASSUME NEW i \in Infos, NEW r \in InfoRec, info' = [Orphaned(f) EXCEPT ![i] = r], ~stubbed,
                 NEW j \in prospectors, j # i
          PROVE  /\ info'[j].inode = info[j].inode /\ info'[j].file = info[j].file
                 /\ info[j].inode # None /\ info'[j].status = info[j].status
                 /\ ~Invalid(j) /\ ~Invalid(j)'
                 /\ info'[j].orphaned = "no" =>
                      info[j].file # f /\ info[j].orphaned = "no" /\ index[info[j].file] = j
      <3>1. info'[j] = Orphaned(f)[j] /\ j \in Infos
        BY <1>0, <2>5, OrphanedFacts
      <3>2. /\ info'[j].inode = info[j].inode /\ info'[j].file = info[j].file /\ info'[j].status = info[j].status
            /\ info'[j].orphaned = "no" => ~(IsKnown(f) /\ j = index[f]) /\ info[j].orphaned = "no"
        BY <3>1, OrphanedFacts
      <3>3. info[j].inode # None /\ ~Invalid(j) /\ (info[j].orphaned = "no" => index[info[j].file] = j)
        BY <2>5 DEF UniqueInv
      <3>4. info'[j].orphaned = "no" => info[j].file # f
        BY <1>0, <3>1, <3>2, <3>3 DEF IsKnown
      <3> QED  BY <3>2, <3>3, <3>4 DEF Invalid
    <2>6. ASSUME NEW i \in Infos, NEW r \in InfoRec, NEW offset \in Lines, PlacedNew(f, i, r, offset) PROVE UniqueInv'
      <3>1. /\ info' = [Orphaned(f) EXCEPT ![i] = r] /\ r.file = f /\ r.inode = dir[f] /\ dir[f] # None
            /\ r.status \notin {"missing", "duplicate"} /\ SameFile(f) = {} /\ (~IsKnown(f) \/ IsRotated(f))
            /\ prospectors' = prospectors \cup {i} /\ index' = [index EXCEPT ![f] = i] /\ UNCHANGED stubbed
            /\ i \notin prospectors
        BY <2>6 DEF PlacedNew, Placed, Free
      <3>2. info'[i] = r
        BY <3>1, OrphanedFacts
      <3>3. ASSUME ~stubbed, NEW j \in prospectors PROVE info[j].inode # dir[f]
        <4> SUFFICES ASSUME info[j].inode = dir[f] PROVE FALSE
          OBVIOUS
        <4>1. ~Invalid(j) /\ (info[j].orphaned = "no" => index[info[j].file] = j)
          BY <3>3 DEF UniqueInv
        <4>2. info[j].orphaned = "no" /\ info[j].file = f
          BY <3>1, <4>1 DEF SameFile
        <4>3. index[f] = j
          BY <4>1, <4>2
        <4>4. IsKnown(f) /\ ~IsRotated(f)
          BY <1>0, <4>1, <4>3 DEF IsKnown, IsRotated
        <4> QED  BY <3>1, <4>4
      <3> SUFFICES ASSUME ~stubbed
                   PROVE  /\ \A j \in prospectors' : info'[j].inode # None /\ ~Invalid(j)'
                          /\ \A j, m \in prospectors' : info'[j].inode = info'[m].inode => j = m
                          /\ \A j \in prospectors' : info'[j].orphaned = "no" => index'[info'[j].file] = j
        BY <3>1 DEF UniqueInv
      <3>4. ~Invalid(i)'
        BY <3>1, <3>2 DEF Invalid
      <3>5. \A j \in prospectors :
                 /\ info'[j].inode = info[j].inode /\ info'[j].file = info[j].file
                 /\ info[j].inode # None
                 /\ ~Invalid(j) /\ ~Invalid(j)'
                 /\ info'[j].orphaned = "no" => info[j].file # f /\ index[info[j].file] = j
        BY <2>5, <3>1
      <3>9. \A j \in prospectors' : j = i \/ j \in prospectors
        BY <3>1
      <3>10. info'[i].inode = dir[f] /\ info'[i].file = f /\ dir[f] # None
        BY <3>1, <3>2
      <3>11. \A g \in Names : index'[g] = IF g = f THEN i ELSE index[g]
        BY <1>0, <3>1
      <3>6. \A j \in prospectors' : info'[j].inode # None /\ ~Invalid(j)'
        BY <3>4, <3>5, <3>9, <3>10
      <3>7. \A j, m \in prospectors' : info'[j].inode = info'[m].inode => j = m
        <4>1. \A j, m \in prospectors : info[j].inode = info[m].inode => j = m
          BY DEF UniqueInv
        <4>2. \A j \in prospectors : info'[j].inode # dir[f]
          BY <3>3, <3>5
        <4> QED  BY <3>5, <3>9, <3>10, <4>1, <4>2
      <3>8. \A j \in prospectors' : info'[j].orphaned = "no" => index'[info'[j].file] = j
        BY <1>0, <3>5, <3>9, <3>10, <3>11
      <3> QED  BY <3>6, <3>7, <3>8
    <2>7. ASSUME NEW k \in Infos, NEW r \in InfoRec, Moved(f, k, r) PROVE UniqueInv'
      <3>1. /\ info' = [Orphaned(f) EXCEPT ![k] = r] /\ r.file = f /\ r.inode = info[k].inode
            /\ r.status \notin {"missing", "duplicate"} /\ index' = Reindexed(f, k)
            /\ UNCHANGED <<prospectors, stubbed>> /\ k \in prospectors
        BY <2>7 DEF Moved, SameFile
      <3>2. info'[k] = r
        BY <3>1, OrphanedFacts
      <3> SUFFICES ASSUME ~stubbed
                   PROVE  /\ \A j \in prospectors' : info'[j].inode # None /\ ~Invalid(j)'
                          /\ \A j, m \in prospectors' : info'[j].inode = info'[m].inode => j = m
                          /\ \A j \in prospectors' : info'[j].orphaned = "no" => index'[info'[j].file] = j
        BY <3>1 DEF UniqueInv
      <3>4. ~Invalid(k)'
        BY <3>1, <3>2 DEF Invalid
      <3>5. \A j \in prospectors : j # k =>
                 /\ info'[j].inode = info[j].inode /\ info'[j].file = info[j].file
                 /\ info[j].inode # None
                 /\ ~Invalid(j) /\ ~Invalid(j)'
                 /\ info'[j].orphaned = "no" => info[j].file # f /\ index[info[j].file] = j
        BY <2>5, <3>1
      <3>6. \A j \in prospectors' : info'[j].inode # None /\ ~Invalid(j)'
        BY <3>1, <3>2, <3>4, <3>5 DEF UniqueInv
      <3>7. \A j, m \in prospectors' : info'[j].inode = info'[m].inode => j = m
        BY <3>1, <3>2, <3>5 DEF UniqueInv
      <3>8. \A j \in prospectors' : info'[j].orphaned = "no" => index'[info'[j].file] = j
        <4>1. info[k].orphaned = "no" => index[info[k].file] = k
          BY <3>1 DEF UniqueInv
        <4> QED  BY <1>0, <3>1, <3>2, <3>5, <4>1 DEF Reindexed
      <3> QED  BY <3>6, <3>7, <3>8
    <2> QED  BY <2>1, <2>2, <2>3, <2>4, <2>6, <2>7
  <1>4. CASE CleanUp
    <2>1. CleanedInfos /\ UNCHANGED stubbed
      BY <1>4, CleanUpInfos DEF CleanUp, historyVars
    <2>2. index' = [f \in Names |-> IF \E i \in Vanished : info[i].file = f THEN None ELSE index[f]]
      BY <1>4 DEF CleanUp
    <2>3. prospectors' \subseteq prospectors
      BY <2>1 DEF CleanedInfos
    <2>4. ASSUME ~stubbed, NEW i \in prospectors', info'[i].orphaned = "no" PROVE index'[info'[i].file] = i
      <3>1. i \in prospectors /\ i \in Infos
        BY <1>0, <2>3
      <3>2. i \notin GivenUp /\ info[i].orphaned = "no" /\ info'[i].file = info[i].file
        BY <2>1, <2>4, <3>1 DEF CleanedInfos
      <3>3. index[info[i].file] = i
        BY <2>4, <3>1, <3>2 DEF UniqueInv
      <3>4. ~\E v \in Vanished : info[v].file = info[i].file
        BY <2>4, <3>1, <3>2, <3>3 DEF UniqueInv, Vanished, GivenUp
      <3> QED  BY <1>0, <2>2, <3>1, <3>2, <3>3, <3>4
    <2>5. \A i \in prospectors' : i \in prospectors /\ i \in Infos /\ info'[i].inode = info[i].inode /\ (Invalid(i)' => Invalid(i))
      BY <1>0, <2>1, <2>3 DEF CleanedInfos
    <2> QED  BY <2>1, <2>4, <2>5 DEF UniqueInv
  <1>5. CASE Crash
    <2>1. PICK given \in [saved -> Infos] : RestartedInfos(given) /\ RestartedLists(given)
      BY <1>5, CrashFacts
    <2>2. UNCHANGED <<stubbed, saved>>
      BY <1>5, CrashFacts DEF RestartedRest
    <2>3. \A e \in saved : e.inode # None
      BY ProspectorAssumption DEF TypeInv, TypeOK, Entry, None
    <2>4. ASSUME ~stubbed, NEW d \in saved, NEW e \in saved, d.inode = e.inode PROVE d = e
      <3>1. PICK i \in DOMAIN registry : registry[i] = d
        BY DEF SavedInv
      <3>2. PICK j \in DOMAIN registry : registry[j] = e
        BY DEF SavedInv
      <3>3. /\ i \in prospectors /\ j \in prospectors
            /\ info[i].inode = d.inode /\ info[j].inode = e.inode
        BY <3>1, <3>2 DEF RegistryInv
      <3>4. i = j
        BY <2>4, <3>3 DEF UniqueInv
      <3> QED  BY <3>1, <3>2, <3>4
    <2>5. \A i \in prospectors' : \E e \in saved : given[e] = i
      BY <2>1 DEF RestartedLists
    <2>6. \A e \in saved : /\ given[e] \in Infos /\ info'[given[e]].inode = e.inode /\ info'[given[e]].file = e.source
                           /\ index'[e.source] = given[e] /\ ~Invalid(given[e])'
      BY <2>1 DEF RestartedInfos, RestartedLists
    <2>7. \A i \in prospectors' : info'[i].inode # None /\ ~Invalid(i)' /\ index'[info'[i].file] = i
      BY <2>3, <2>5, <2>6
    <2>8. ~stubbed => \A i, j \in prospectors' : info'[i].inode = info'[j].inode => i = j
      BY <2>4, <2>5, <2>6
    <2> QED  BY <2>2, <2>7, <2>8 DEF UniqueInv
  <1>6. CASE ChangeFiles \/ (\E ino \in Inodes : AppendLine(ino)) \/ Acknowledge \/ StartScan \/ UNCHANGED vars
    <2>1. UNCHANGED <<info, index, prospectors, stubbed>>
      BY <1>6 DEF ChangeFiles, AppendLine, Acknowledge, StartScan, vars, scanVars, historyVars
    <2> QED  BY <1>1, <2>1
  <1> QED  BY <1>2, <1>3, <1>4, <1>5, <1>6 DEF Next

LEMMA PipeTyped ==
  ASSUME TypeInv
  PROVE  /\ Len(pipe) \in Nat
         /\ \A n \in 1 .. Len(pipe) : pipe[n].info \in Infos /\ pipe[n].line \in Lines
  <1> DEFINE E == [info : Infos, line : Lines]
  <1>1. pipe \in Seq(E)
    BY DEF TypeInv, TypeOK
  <1> HIDE DEF E
  <1>2. Len(pipe) \in Nat /\ \A n \in 1 .. Len(pipe) : pipe[n] \in E
    BY <1>1
  <1> QED  BY <1>2 DEF E

LEMMA UseStep ==
  ASSUME IndInv, [Next]_vars
  PROVE  UseInv'
  <1> USE DEF IndInv
  <1>0. /\ info \in [Infos -> InfoRec] /\ index \in [Names -> Infos \cup {None}]
        /\ \A f \in Names : index[f] # None => index[f] \in Infos
        /\ prospectors \subseteq Infos
    BY DEF TypeInv, TypeOK
  <1>1. Len(pipe) \in Nat /\ \A n \in 1 .. Len(pipe) : pipe[n].info \in Infos
    BY PipeTyped
  <1>2. ASSUME \A j \in Infos : info'[j].run # "no" => j \in prospectors',
               \A j \in Infos : info'[j].inode = info[j].inode \/ \A n \in 1 .. Len(pipe) : pipe[n].info # j,
               UNCHANGED pipe
        PROVE  UseInv'
    BY <1>1, <1>2 DEF UseInv
  <1>3. ASSUME NEW i \in Infos, HarvesterStep(i) PROVE UseInv'
    <2>1. OnlyHarvester(i) /\ UNCHANGED prospectors
      BY <1>3, HarvesterFacts DEF Harvesting
    <2>2. \A j \in Infos : (info'[j].run # "no" => j \in prospectors') /\ info'[j].inode = info[j].inode
      BY <2>1 DEF OnlyHarvester, UseInv
    <2>3. CASE UNCHANGED pipe
      BY <1>2, <2>2, <2>3
    <2>4. CASE ~UNCHANGED pipe
      <3> DEFINE x == [info |-> i, line |-> info[i].off + 1]
                 E == [info : Infos, line : Lines]
      <3>1. info[i].inode # None /\ pipe' = Append(pipe, x) /\ info[i].off + 1 \in Lines
        BY <1>3, <2>4, HarvesterFacts
      <3>2. pipe \in Seq(E) /\ x \in E
        BY <3>1 DEF TypeInv, TypeOK
      <3>3. x.info = i
        OBVIOUS
      <3> HIDE DEF x, E
      <3>4. /\ Len(pipe') = Len(pipe) + 1 /\ pipe'[Len(pipe) + 1] = x
            /\ \A n \in 1 .. Len(pipe) : pipe'[n] = pipe[n]
        BY <3>1, <3>2, SeqAppend
      <3>5. \A n \in 1 .. Len(pipe') : info'[pipe'[n].info].inode # None
        <4> SUFFICES ASSUME NEW n \in 1 .. Len(pipe') PROVE info'[pipe'[n].info].inode # None
          OBVIOUS
        <4>1. n \in 1 .. Len(pipe) \/ n = Len(pipe) + 1
          BY <1>1, <3>4
        <4>2. CASE n \in 1 .. Len(pipe)
          BY <1>1, <2>2, <3>4, <4>2 DEF UseInv
        <4>3. CASE n = Len(pipe) + 1
          BY <2>2, <3>1, <3>3, <3>4, <4>3
        <4> QED  BY <4>1, <4>2, <4>3
      <3> QED  BY <2>2, <3>5 DEF UseInv
    <2> QED  BY <2>3, <2>4
  <1>4. CASE Acknowledge
    <2>1. UNCHANGED <<info, prospectors>> /\ pipe' = Tail(pipe) /\ pipe # <<>>
      BY <1>4, AcknowledgeFacts DEF scanVars
    <2> DEFINE E == [info : Infos, line : Lines]
    <2>2. pipe \in Seq(E)
      BY DEF TypeInv, TypeOK
    <2> HIDE DEF E
    <2>3. Len(pipe') = Len(pipe) - 1 /\ \A n \in 1 .. Len(pipe) - 1 : pipe'[n] = pipe[n + 1]
      BY <2>1, <2>2, SeqTail, Zenon
    <2>4. ASSUME NEW n \in 1 .. Len(pipe') PROVE info'[pipe'[n].info].inode # None
      <3>1. n \in 1 .. Len(pipe) - 1 /\ n + 1 \in 1 .. Len(pipe)
        BY <1>1, <2>3
      <3>2. pipe'[n] = pipe[n + 1]
        BY <2>3, <3>1
      <3> QED  BY <2>1, <3>1, <3>2 DEF UseInv
    <2> QED  BY <2>1, <2>4 DEF UseInv
  <1>5. CASE ScanStep
    <2>1. PICK f \in Names :
           \/ PassedOver(f)
           \/ \E r \in InfoRec : Touched(f, r)
           \/ \E i \in Infos, r \in InfoRec : PlacedStub(f, i, r)
           \/ \E i \in Infos, r \in InfoRec, offset \in Lines : PlacedNew(f, i, r, offset)
           \/ \E k \in Infos, r \in InfoRec : Moved(f, k, r)
      BY <1>5, ScanForms
    <2>2. UNCHANGED pipe
      BY <1>5 DEF ScanStep, StatFails, IsDuplicate, IsRenamed, IsNew, IsSame, ProcessedFile
    <2>3. CASE PassedOver(f)
      BY <1>2, <2>2, <2>3 DEF PassedOver, UseInv
    <2>4. ASSUME NEW r \in InfoRec, Touched(f, r) PROVE UseInv'
      <3>1. /\ index[f] \in Infos /\ info' = [info EXCEPT ![index[f]] = r]
            /\ r.inode = info[index[f]].inode /\ UNCHANGED prospectors /\ index[f] \in prospectors
        BY <1>0, <2>4 DEF Touched, IndexConsistent
      <3>2. info'[index[f]] = r /\ \A j \in Infos \ {index[f]} : info'[j] = info[j]
        BY <1>0, <3>1
      <3> QED  BY <1>2, <2>2, <3>1, <3>2 DEF UseInv
    <2>5. ASSUME NEW i \in Infos, NEW r \in InfoRec, info' = [Orphaned(f) EXCEPT ![i] = r],
                 i \in prospectors', prospectors \subseteq prospectors',
                 r.inode = info[i].inode \/ \A n \in 1 .. Len(pipe) : pipe[n].info # i
          PROVE  UseInv'
      <3>1. info'[i] = r /\ \A j \in Infos \ {i} : info'[j] = Orphaned(f)[j]
        BY <2>5, OrphanedFacts
      <3>2. \A j \in Infos \ {i} : info'[j].run = info[j].run /\ info'[j].inode = info[j].inode
        BY <3>1, OrphanedFacts
      <3> QED  BY <1>2, <2>2, <2>5, <3>1, <3>2 DEF UseInv
    <2>6. ASSUME NEW i \in Infos, NEW r \in InfoRec, Placed(f, i, r) PROVE UseInv'
      <3>1. /\ info' = [Orphaned(f) EXCEPT ![i] = r] /\ prospectors' = prospectors \cup {i}
            /\ \A n \in 1 .. Len(pipe) : pipe[n].info # i
        BY <2>6 DEF Placed, Free
      <3>2. i \in prospectors' /\ prospectors \subseteq prospectors'
        BY <3>1
      <3> QED  BY <2>5, <3>1, <3>2
    <2>7. ASSUME NEW k \in Infos, NEW r \in InfoRec, Moved(f, k, r) PROVE UseInv'
      <3>1. /\ info' = [Orphaned(f) EXCEPT ![k] = r] /\ UNCHANGED prospectors /\ k \in prospectors
            /\ r.inode = info[k].inode
        BY <2>7 DEF Moved, SameFile
      <3> QED  BY <2>5, <3>1
    <2> QED  BY <2>1, <2>3, <2>4, <2>6, <2>7 DEF PlacedStub, PlacedNew
  <1>6. CASE CleanUp
    <2>1. CleanedInfos /\ UNCHANGED pipe
      BY <1>6, CleanUpInfos DEF CleanUp
    <2>2. \A j \in Infos : (info'[j].run # "no" => j \in prospectors') /\ info'[j].inode = info[j].inode
      BY <2>1 DEF CleanedInfos, UseInv
    <2> QED  BY <1>2, <2>1, <2>2
  <1>7. CASE Crash
    <2>1. RestartedRest /\ \E given \in [saved -> Infos] : RestartedInfos(given)
      BY <1>7, CrashFacts
    <2>2. pipe' = <<>> /\ \A i \in Infos : info'[i].run = "no"
      BY <2>1 DEF RestartedRest, RestartedInfos
    <2> QED  BY <2>2 DEF UseInv
  <1>8. CASE ChangeFiles \/ (\E ino \in Inodes : AppendLine(ino)) \/ StartScan \/ UNCHANGED vars
    <2>1. UNCHANGED <<info, prospectors, pipe>>
      BY <1>8 DEF ChangeFiles, AppendLine, StartScan, vars, scanVars
    <2> QED  BY <2>1 DEF UseInv
  <1> QED  BY <1>3, <1>4, <1>5, <1>6, <1>7, <1>8 DEF Next

-----------------------------------------------------------------------------
(* Nothing is passed over. *)

LEMMA SentMore ==
  ASSUME NEW s, NEW t, NEW p, NEW q, NEW a, NEW b, NEW ino, NEW offset, NEW n, NEW l,
         SentUpTo(s, p, a, ino, offset, n), s[ino] \subseteq t[ino],
         \A m : OnTheWay(p, a, ino, m, n) => m \in t[ino] \/ OnTheWay(q, b, ino, m, l)
  PROVE  SentUpTo(t, q, b, ino, offset, l)
  BY DEF SentUpTo

\* Events on their way keep their file while their structures do.
LEMMA WayKept ==
  ASSUME NEW p, NEW a, NEW b, NEW n,
         \A k \in 1 .. n : b[p[k].info].inode = a[p[k].info].inode
  PROVE  \A ino, m : OnTheWay(p, a, ino, m, n) => OnTheWay(p, b, ino, m, n)
  BY DEF OnTheWay

\* SentInv without the case of a line that was given up.
NothingLeftOut ==
  /\ \A e \in saved : Covered(e)
  /\ \A i \in DOMAIN registry : Covered(registry[i])
  /\ \A e \in spool : e.type = "discover" => Covered(e.entry)
  /\ \A i \in Infos : info[i].inode # None =>
       /\ SentUpTo(Sent, pipe, info, info[i].inode, info[i].off, Len(pipe))
       /\ SentUpTo(Sent, pipe, info, info[i].inode, info[i].finish, Len(pipe))
  /\ \A n \in 1 .. Len(pipe) :
       SentUpTo(Sent, pipe, info, info[pipe[n].info].inode, pipe[n].line, n)

\* Steps that only move offsets among values that were covered already, and at
\* most one structure to the file it is given.
LEMMA OffsetsKept ==
  ASSUME IndInv, NothingLeftOut, TypeInv',
         UNCHANGED pipe,
         \A ino \in Inodes : Sent[ino] \subseteq Sent'[ino],
         \A n \in 1 .. Len(pipe) : info'[pipe[n].info].inode = info[pipe[n].info].inode,
         \A j \in Infos : info'[j].inode # None =>
            \/ /\ info'[j].inode = info[j].inode
               /\ info'[j].off \in {info[j].off, info[j].finish, 0}
               /\ info'[j].finish \in {info[j].off, info[j].finish, 0}
            \/ /\ 1 .. info'[j].off \subseteq Sent'[info'[j].inode]
               /\ 1 .. info'[j].finish \subseteq Sent'[info'[j].inode]
  PROVE  /\ \A i \in Infos : info'[i].inode # None =>
              /\ SentUpTo(Sent', pipe', info', info'[i].inode, info'[i].off, Len(pipe'))
              /\ SentUpTo(Sent', pipe', info', info'[i].inode, info'[i].finish, Len(pipe'))
         /\ \A n \in 1 .. Len(pipe') :
              SentUpTo(Sent', pipe', info', info'[pipe'[n].info].inode, pipe'[n].line, n)
  <1>0. Len(pipe) \in Nat /\ \A n \in 1 .. Len(pipe) : pipe[n].info \in Infos
    BY PipeTyped DEF IndInv
  <1>1. \A n \in 0 .. Len(pipe) : \A ino, m : OnTheWay(pipe, info, ino, m, n) => OnTheWay(pipe, info', ino, m, n)
    <2> SUFFICES ASSUME NEW n \in 0 .. Len(pipe)
                 PROVE  \A ino, m : OnTheWay(pipe, info, ino, m, n) => OnTheWay(pipe, info', ino, m, n)
      OBVIOUS
    <2>1. \A k \in 1 .. n : k \in 1 .. Len(pipe)
      BY <1>0
    <2> QED  BY <2>1, WayKept
  <1>2. \A ino \in Inodes, n \in 0 .. Len(pipe) : \A o :
          SentUpTo(Sent, pipe, info, ino, o, n) => SentUpTo(Sent', pipe', info', ino, o, n)
    BY <1>1 DEF SentUpTo
  <1>3. \A ino, n : SentUpTo(Sent', pipe', info', ino, 0, n)
    BY DEF SentUpTo
  <1>4. \A ino, n, o : 1 .. o \subseteq Sent'[ino] => SentUpTo(Sent', pipe', info', ino, o, n)
    BY DEF SentUpTo
  <1>5. ASSUME NEW i \in Infos, info'[i].inode # None
        PROVE  /\ SentUpTo(Sent', pipe', info', info'[i].inode, info'[i].off, Len(pipe'))
               /\ SentUpTo(Sent', pipe', info', info'[i].inode, info'[i].finish, Len(pipe'))
    <2>1. info'[i].inode \in Inodes
      BY <1>5 DEF TypeInv, TypeOK, InfoRec
    <2>2. CASE /\ info'[i].inode = info[i].inode
               /\ info'[i].off \in {info[i].off, info[i].finish, 0}
               /\ info'[i].finish \in {info[i].off, info[i].finish, 0}
      <3>1. /\ SentUpTo(Sent, pipe, info, info[i].inode, info[i].off, Len(pipe))
            /\ SentUpTo(Sent, pipe, info, info[i].inode, info[i].finish, Len(pipe))
        BY <1>5, <2>2 DEF NothingLeftOut
      <3>2. /\ SentUpTo(Sent', pipe', info', info[i].inode, info[i].off, Len(pipe))
            /\ SentUpTo(Sent', pipe', info', info[i].inode, info[i].finish, Len(pipe))
        BY <1>0, <1>2, <2>1, <2>2, <3>1
      <3> QED  BY <1>3, <2>2, <3>2
    <2>3. CASE /\ 1 .. info'[i].off \subseteq Sent'[info'[i].inode]
               /\ 1 .. info'[i].finish \subseteq Sent'[info'[i].inode]
      BY <1>4, <2>3
    <2> QED  BY <1>5, <2>2, <2>3
  <1>6. ASSUME NEW n \in 1 .. Len(pipe')
        PROVE  SentUpTo(Sent', pipe', info', info'[pipe'[n].info].inode, pipe'[n].line, n)
    <2>1. n \in 1 .. Len(pipe) /\ n \in 0 .. Len(pipe) /\ pipe'[n] = pipe[n]
      BY <1>0
    <2>2. info[pipe[n].info].inode \in Inodes
      BY <1>0, <2>1 DEF IndInv, TypeInv, TypeOK, InfoRec, UseInv
    <2>3. SentUpTo(Sent, pipe, info, info[pipe[n].info].inode, pipe[n].line, n)
      BY <2>1 DEF NothingLeftOut
    <2> QED  BY <1>2, <2>1, <2>2, <2>3
  <1> QED  BY <1>5, <1>6

\* Entries stay covered while nothing is taken back.
LEMMA CoveredKept ==
  ASSUME \A ino \in Inodes : Sent[ino] \subseteq Sent'[ino], NEW e \in Entry, Covered(e)
  PROVE  1 .. e.offset \subseteq acked'[e.inode] \cup skipped'[e.inode]
  <1>1. e.inode \in Inodes
    BY DEF Entry
  <1>2. Sent[e.inode] = acked[e.inode] \cup skipped[e.inode] /\ Sent'[e.inode] = acked'[e.inode] \cup skipped'[e.inode]
    BY <1>1 DEF Sent
  <1> QED  BY <1>1, <1>2 DEF Covered

LEMMA SentHarvest ==
  ASSUME IndInv, NothingLeftOut, TypeInv', NEW i \in Infos, HarvesterStep(i), dropped' = {}
  PROVE  NothingLeftOut'
  <1>1. OnlyHarvester(i) /\ UNCHANGED <<spool, registry, saved, acked, skipped>>
    BY HarvesterFacts DEF IndInv, Harvesting, stateVars
  <1>2. Sent' = Sent
    BY <1>1 DEF Sent
  <1>3. /\ \A e \in saved' : Covered(e)'
        /\ \A j \in DOMAIN registry' : Covered(registry[j])'
        /\ \A e \in spool' : e.type = "discover" => Covered(e.entry)'
    BY <1>1 DEF NothingLeftOut, Covered
  <1>4. Len(pipe) \in Nat /\ \A n \in 1 .. Len(pipe) : pipe[n].info \in Infos
    BY PipeTyped DEF IndInv
  <1>5. \A j \in Infos : info'[j].inode = info[j].inode /\ info'[j].finish = info[j].finish
                         /\ (j # i => info'[j].off = info[j].off)
    BY <1>1 DEF OnlyHarvester
  <1>6. CASE info'[i].off = info[i].off /\ UNCHANGED pipe
    <2>1. /\ \A j \in Infos : info'[j].inode # None =>
              /\ SentUpTo(Sent', pipe', info', info'[j].inode, info'[j].off, Len(pipe'))
              /\ SentUpTo(Sent', pipe', info', info'[j].inode, info'[j].finish, Len(pipe'))
          /\ \A n \in 1 .. Len(pipe') :
              SentUpTo(Sent', pipe', info', info'[pipe'[n].info].inode, pipe'[n].line, n)
      BY <1>2, <1>4, <1>5, <1>6, OffsetsKept
    <2> QED  BY <1>3, <2>1 DEF NothingLeftOut
  <1>7. CASE ~(info'[i].off = info[i].off /\ UNCHANGED pipe)
    <2> DEFINE x == [info |-> i, line |-> info[i].off + 1]
               E == [info : Infos, line : Lines]
    <2>1. /\ info'[i].off = info[i].off + 1 /\ info[i].off + 1 \in Lines /\ info[i].inode # None
          /\ pipe' = Append(pipe, x)
      BY <1>7, HarvesterFacts DEF IndInv
    <2>2. pipe \in Seq(E) /\ x \in E /\ x.info = i /\ x.line = info[i].off + 1
      BY <2>1 DEF IndInv, TypeInv, TypeOK
    <2> HIDE DEF x, E
    <2>3. /\ Len(pipe') = Len(pipe) + 1 /\ pipe'[Len(pipe) + 1] = x
          /\ \A n \in 1 .. Len(pipe) : pipe'[n] = pipe[n]
      BY <2>1, <2>2, SeqAppend
    <2>4. ASSUME NEW n \in 0 .. Len(pipe), NEW l \in {n, Len(pipe')}, NEW ino, NEW m, OnTheWay(pipe, info, ino, m, n)
          PROVE  OnTheWay(pipe', info', ino, m, l)
      <3>1. PICK k \in 1 .. n : pipe[k].line = m /\ info[pipe[k].info].inode = ino
        BY <2>4 DEF OnTheWay
      <3>2. k \in 1 .. Len(pipe) /\ k \in 1 .. l
        BY <1>4, <2>3
      <3>3. pipe'[k] = pipe[k] /\ pipe[k].info \in Infos
        BY <1>4, <2>3, <3>2
      <3> QED  BY <1>5, <3>1, <3>2, <3>3 DEF OnTheWay
    <2>5. \A ino, o : SentUpTo(Sent, pipe, info, ino, o, Len(pipe)) => SentUpTo(Sent', pipe', info', ino, o, Len(pipe'))
      <3>1. Len(pipe) \in 0 .. Len(pipe)
        BY <1>4
      <3> QED  BY <1>2, <2>4, <3>1 DEF SentUpTo
    <2>6. \A ino, o, n : n \in 0 .. Len(pipe) /\ SentUpTo(Sent, pipe, info, ino, o, n) => SentUpTo(Sent', pipe', info', ino, o, n)
      BY <1>2, <2>4 DEF SentUpTo
    <2>7. info[i].off \in Nat
      BY ProspectorAssumption DEF IndInv, TypeInv, TypeOK, InfoRec, Lines
    <2>8. SentUpTo(Sent', pipe', info', info[i].inode, info[i].off + 1, Len(pipe'))
      <3>1. SentUpTo(Sent', pipe', info', info[i].inode, info[i].off, Len(pipe'))
        BY <2>1, <2>5 DEF NothingLeftOut
      <3>2. OnTheWay(pipe', info', info[i].inode, info[i].off + 1, Len(pipe'))
        <4>1. Len(pipe') \in 1 .. Len(pipe')
          BY <1>4, <2>3
        <4> QED  BY <1>5, <2>2, <2>3, <4>1 DEF OnTheWay
      <3>3. \A m \in 1 .. info[i].off + 1 : m \in 1 .. info[i].off \/ m = info[i].off + 1
        BY <2>7
      <3> QED  BY <3>1, <3>2, <3>3 DEF SentUpTo
    <2>9. ASSUME NEW j \in Infos, info'[j].inode # None
          PROVE  /\ SentUpTo(Sent', pipe', info', info'[j].inode, info'[j].off, Len(pipe'))
                 /\ SentUpTo(Sent', pipe', info', info'[j].inode, info'[j].finish, Len(pipe'))
      <3>1. /\ SentUpTo(Sent, pipe, info, info[j].inode, info[j].off, Len(pipe))
            /\ SentUpTo(Sent, pipe, info, info[j].inode, info[j].finish, Len(pipe))
        BY <1>5, <2>9 DEF NothingLeftOut
      <3>2. CASE j = i
        BY <1>5, <2>1, <2>5, <2>8, <3>1, <3>2
      <3>3. CASE j # i
        BY <1>5, <2>5, <3>1, <3>3
      <3> QED  BY <3>2, <3>3
    <2>10. ASSUME NEW n \in 1 .. Len(pipe')
           PROVE  SentUpTo(Sent', pipe', info', info'[pipe'[n].info].inode, pipe'[n].line, n)
      <3>1. n \in 1 .. Len(pipe) \/ n = Len(pipe')
        BY <1>4, <2>3
      <3>2. CASE n \in 1 .. Len(pipe)
        <4>1. n \in 0 .. Len(pipe) /\ pipe'[n] = pipe[n] /\ pipe[n].info \in Infos
          BY <1>4, <2>3, <3>2
        <4>2. SentUpTo(Sent, pipe, info, info[pipe[n].info].inode, pipe[n].line, n)
          BY <3>2 DEF NothingLeftOut
        <4>3. SentUpTo(Sent', pipe', info', info[pipe[n].info].inode, pipe[n].line, n)
          BY <2>6, <4>1, <4>2
        <4> QED  BY <1>5, <4>1, <4>3
      <3>3. CASE n = Len(pipe')
        <4>1. pipe'[n].info = i /\ pipe'[n].line = info[i].off + 1 /\ info'[i].inode = info[i].inode
          BY <1>5, <2>2, <2>3, <3>3
        <4> QED  BY <2>8, <3>3, <4>1
      <3> QED  BY <3>1, <3>2, <3>3
    <2> QED  BY <1>3, <2>9, <2>10 DEF NothingLeftOut
  <1> QED  BY <1>6, <1>7

LEMMA SentAcknowledge ==
  ASSUME IndInv, NothingLeftOut, TypeInv', SavedInv', Acknowledge
  PROVE  NothingLeftOut'
  <1> DEFINE h == pipe[1]
             file == info[h.info].inode
  <1>0. Len(pipe) \in Nat /\ \A n \in 1 .. Len(pipe) : pipe[n].info \in Infos
    BY PipeTyped DEF IndInv
  <1>1. /\ pipe # <<>> /\ pipe' = Tail(pipe) /\ Len(pipe) \in Nat \ {0} /\ Head(pipe) = h
        /\ h.info \in Infos /\ h.line \in Lines
        /\ DOMAIN registry' = DOMAIN registry
        /\ \A i \in DOMAIN registry :
             /\ registry'[i] \in Entry /\ registry'[i].inode = registry[i].inode
             /\ \/ registry'[i].offset = registry[i].offset
                \/ i = h.info /\ registry'[i].offset = h.line
        /\ UNCHANGED <<info, spool, skipped>>
    BY AcknowledgeFacts DEF IndInv, scanVars
  <1>2. 1 \in 1 .. Len(pipe) /\ file # None /\ file \in Inodes
    <2>1. 1 \in 1 .. Len(pipe)
      BY <1>1
    <2>2. info[h.info] \in InfoRec /\ file # None
      BY <1>1, <2>1 DEF IndInv, UseInv, TypeInv, TypeOK
    <2> QED  BY <2>1, <2>2 DEF InfoRec
  <1>3. acked' = [acked EXCEPT ![file] = @ \cup {h.line}]
    BY <1>1 DEF Acknowledge
  <1>4. /\ \A ino \in Inodes : Sent[ino] \subseteq Sent'[ino]
        /\ h.line \in Sent'[file]
    BY <1>1, <1>2, <1>3 DEF Sent, IndInv, TypeInv
  <1>5. Len(pipe') = Len(pipe) - 1 /\ \A n \in 1 .. Len(pipe) - 1 : pipe'[n] = pipe[n + 1]
    <2> DEFINE E == [info : Infos, line : Lines]
    <2>1. pipe \in Seq(E)
      BY DEF IndInv, TypeInv, TypeOK
    <2> HIDE DEF E
    <2> QED  BY <1>1, <2>1, SeqTail
  <1> HIDE DEF h
  <1>6. ASSUME NEW n \in 1 .. Len(pipe), NEW ino \in Inodes, NEW m, OnTheWay(pipe, info, ino, m, n)
        PROVE  m \in Sent'[ino] \/ OnTheWay(pipe', info', ino, m, n - 1)
    <2>1. PICK k \in 1 .. n : pipe[k].line = m /\ info[pipe[k].info].inode = ino
      BY <1>6 DEF OnTheWay
    <2>2. CASE k = 1
      BY <1>4, <2>1, <2>2 DEF h
    <2>3. CASE k # 1
      <3>1. k - 1 \in 1 .. n - 1 /\ k - 1 \in 1 .. Len(pipe) - 1 /\ (k - 1) + 1 = k
        BY <1>0, <2>3
      <3>2. pipe'[k - 1] = pipe[k]
        BY <1>5, <3>1
      <3> QED  BY <1>1, <2>1, <3>1, <3>2 DEF OnTheWay
    <2> QED  BY <2>2, <2>3
  <1>7. \A n \in 1 .. Len(pipe), ino \in Inodes : \A o :
          SentUpTo(Sent, pipe, info, ino, o, n) => SentUpTo(Sent', pipe', info', ino, o, n - 1)
    BY <1>4, <1>6 DEF SentUpTo
  <1>8. ASSUME NEW j \in Infos, info'[j].inode # None
        PROVE  /\ SentUpTo(Sent', pipe', info', info'[j].inode, info'[j].off, Len(pipe'))
               /\ SentUpTo(Sent', pipe', info', info'[j].inode, info'[j].finish, Len(pipe'))
    <2>1. info[j].inode \in Inodes /\ info'[j] = info[j] /\ Len(pipe) \in 1 .. Len(pipe) /\ Len(pipe') = Len(pipe) - 1
      BY <1>1, <1>5, <1>8 DEF IndInv, TypeInv, TypeOK, InfoRec
    <2>2. /\ SentUpTo(Sent, pipe, info, info[j].inode, info[j].off, Len(pipe))
          /\ SentUpTo(Sent, pipe, info, info[j].inode, info[j].finish, Len(pipe))
      BY <1>8, <2>1 DEF NothingLeftOut
    <2> QED  BY <1>7, <2>1, <2>2
  <1>9. ASSUME NEW n \in 1 .. Len(pipe')
        PROVE  SentUpTo(Sent', pipe', info', info'[pipe'[n].info].inode, pipe'[n].line, n)
    <2>1. n \in 1 .. Len(pipe) - 1 /\ n + 1 \in 1 .. Len(pipe) /\ (n + 1) - 1 = n
      BY <1>0, <1>5
    <2>2. pipe'[n] = pipe[n + 1] /\ info' = info
      BY <1>1, <1>5, <2>1
    <2>3. info[pipe[n + 1].info].inode \in Inodes
      <3>1. info[pipe[n + 1].info] \in InfoRec /\ info[pipe[n + 1].info].inode # None
        BY <1>0, <2>1 DEF IndInv, TypeInv, TypeOK, UseInv
      <3> QED  BY <3>1 DEF InfoRec
    <2>4. SentUpTo(Sent, pipe, info, info[pipe[n + 1].info].inode, pipe[n + 1].line, n + 1)
      BY <2>1 DEF NothingLeftOut
    <2>5. SentUpTo(Sent', pipe', info', info[pipe[n + 1].info].inode, pipe[n + 1].line, (n + 1) - 1)
      BY <1>7, <2>1, <2>3, <2>4
    <2> QED  BY <2>1, <2>2, <2>5
  <1>10. 1 .. h.line \subseteq Sent'[file]
    <2>1. SentUpTo(Sent, pipe, info, file, h.line, 1)
      BY <1>2 DEF NothingLeftOut, h
    <2>2. SentUpTo(Sent', pipe', info', file, h.line, 0)
      <3>1. SentUpTo(Sent', pipe', info', file, h.line, 1 - 1)
        BY <1>2, <1>7, <2>1
      <3> QED  BY <3>1
    <2> QED  BY <2>2 DEF SentUpTo, OnTheWay
  <1>11. ASSUME NEW i \in DOMAIN registry'
         PROVE  1 .. registry'[i].offset \subseteq acked'[registry'[i].inode] \cup skipped'[registry'[i].inode]
    <2>1. i \in DOMAIN registry /\ registry[i] \in Entry /\ registry[i].inode = info[i].inode
      BY <1>1 DEF IndInv, TypeInv, TypeOK, RegistryInv
    <2>2. CASE registry'[i].offset = registry[i].offset
      BY <1>1, <1>4, <2>1, <2>2, CoveredKept DEF NothingLeftOut
    <2>3. CASE i = h.info /\ registry'[i].offset = h.line
      <3>1. registry'[i].inode = file
        BY <1>1, <2>1, <2>3
      <3>2. Sent'[file] = acked'[file] \cup skipped'[file]
        BY <1>2 DEF Sent
      <3> QED  BY <1>10, <2>3, <3>1, <3>2
    <2> QED  BY <1>1, <2>1, <2>2, <2>3
  <1>12. \A e \in saved' : Covered(e)'
    <2> SUFFICES ASSUME NEW e \in saved' PROVE Covered(e)'
      OBVIOUS
    <2>1. PICK i \in DOMAIN registry' : registry'[i] = e
      BY DEF SavedInv
    <2> QED  BY <1>11, <2>1 DEF Covered
  <1>13. \A e \in spool' : e.type = "discover" => Covered(e.entry)'
    <2> SUFFICES ASSUME NEW e \in spool, e.type = "discover"
                 PROVE  1 .. e.entry.offset \subseteq acked'[e.entry.inode] \cup skipped'[e.entry.inode]
      BY <1>1 DEF Covered
    <2>1. e.entry \in Entry
      BY DEF IndInv, TypeInv, TypeOK, SpoolEvent
    <2> QED  BY <1>4, <2>1, CoveredKept DEF NothingLeftOut
  <1>14. \A i \in DOMAIN registry' : Covered(registry[i])'
    BY <1>11 DEF Covered
  <1> QED  BY <1>8, <1>9, <1>12, <1>13, <1>14 DEF NothingLeftOut

\* Entries that were there stay covered.
LEMMA EntriesKept ==
  ASSUME IndInv, NothingLeftOut, \A ino \in Inodes : Sent[ino] \subseteq Sent'[ino],
         UNCHANGED <<saved, registry>>
  PROVE  /\ \A e \in saved' : Covered(e)'
         /\ \A i \in DOMAIN registry' : Covered(registry[i])'
         /\ \A e \in spool : e.type = "discover" => Covered(e.entry)'
  <1>1. \A e \in Entry : Covered(e) => 1 .. e.offset \subseteq acked'[e.inode] \cup skipped'[e.inode]
    BY CoveredKept
  <1>2. saved \subseteq Entry /\ \A i \in DOMAIN registry : registry[i] \in Entry
    BY DEF IndInv, TypeInv, TypeOK
  <1>3. ASSUME NEW e \in spool, e.type = "discover" PROVE e.entry \in Entry
    BY <1>3 DEF IndInv, TypeInv, TypeOK, SpoolEvent
  <1>4. ASSUME NEW e \in spool, e.type = "discover" PROVE Covered(e.entry)'
    BY <1>1, <1>3, <1>4 DEF NothingLeftOut, Covered
  <1>5. ASSUME NEW e \in saved' PROVE Covered(e)'
    BY <1>1, <1>2, <1>5 DEF NothingLeftOut, Covered
  <1>6. ASSUME NEW i \in DOMAIN registry' PROVE Covered(registry[i])'
    BY <1>1, <1>2, <1>6 DEF NothingLeftOut, Covered
  <1> QED  BY <1>4, <1>5, <1>6

LEMMA SentScan ==
  ASSUME IndInv, NothingLeftOut, TypeInv', ScanStep
  PROVE  NothingLeftOut'
  <1>0. /\ info \in [Infos -> InfoRec] /\ \A f \in Names : index[f] # None => index[f] \in Infos
        /\ Len(pipe) \in Nat /\ \A n \in 1 .. Len(pipe) : pipe[n].info \in Infos
    BY PipeTyped DEF IndInv, TypeInv, TypeOK
  <1>1. PICK f \in Names :
         \/ PassedOver(f)
         \/ \E r \in InfoRec : Touched(f, r)
         \/ \E i \in Infos, r \in InfoRec : PlacedStub(f, i, r)
         \/ \E i \in Infos, r \in InfoRec, offset \in Lines : PlacedNew(f, i, r, offset)
         \/ \E k \in Infos, r \in InfoRec : Moved(f, k, r)
    BY ScanForms DEF IndInv
  <1>2. UNCHANGED <<pipe, saved, registry, acked>>
    BY DEF ScanStep, StatFails, IsDuplicate, IsRenamed, IsNew, IsSame, ProcessedFile, stateVars
  <1>3. ASSUME \A ino \in Inodes : Sent[ino] \subseteq Sent'[ino],
               \A e \in spool' : e \in spool \/ (e.type = "discover" => Covered(e.entry)'),
               \A n \in 1 .. Len(pipe) : info'[pipe[n].info].inode = info[pipe[n].info].inode,
               \A j \in Infos : info'[j].inode # None =>
                  \/ /\ info'[j].inode = info[j].inode
                     /\ info'[j].off \in {info[j].off, info[j].finish, 0}
                     /\ info'[j].finish \in {info[j].off, info[j].finish, 0}
                  \/ /\ 1 .. info'[j].off \subseteq Sent'[info'[j].inode]
                     /\ 1 .. info'[j].finish \subseteq Sent'[info'[j].inode]
        PROVE  NothingLeftOut'
    <2>1. /\ \A e \in saved' : Covered(e)'
          /\ \A i \in DOMAIN registry' : Covered(registry[i])'
          /\ \A e \in spool : e.type = "discover" => Covered(e.entry)'
      BY <1>2, <1>3, EntriesKept
    <2>2. /\ \A i \in Infos : info'[i].inode # None =>
              /\ SentUpTo(Sent', pipe', info', info'[i].inode, info'[i].off, Len(pipe'))
              /\ SentUpTo(Sent', pipe', info', info'[i].inode, info'[i].finish, Len(pipe'))
          /\ \A n \in 1 .. Len(pipe') :
              SentUpTo(Sent', pipe', info', info'[pipe'[n].info].inode, pipe'[n].line, n)
      BY <1>2, <1>3, OffsetsKept
    <2>3. \A e \in spool' : e.type = "discover" => Covered(e.entry)'
      BY <1>3, <2>1
    <2> QED  BY <2>1, <2>2, <2>3 DEF NothingLeftOut
  <1>4. UNCHANGED skipped => Sent' = Sent
    BY <1>2 DEF Sent
  <1>5. CASE PassedOver(f)
    <2>1. UNCHANGED <<info, spool, skipped>>
      BY <1>5 DEF PassedOver
    <2> QED  BY <1>3, <1>4, <2>1
  <1>6. ASSUME NEW r \in InfoRec, Touched(f, r) PROVE NothingLeftOut'
    <2>1. /\ index[f] \in Infos /\ info' = [info EXCEPT ![index[f]] = r]
          /\ r.inode = info[index[f]].inode
          /\ r.off \in {info[index[f]].off, info[index[f]].finish, 0}
          /\ r.finish \in {info[index[f]].off, info[index[f]].finish}
          /\ UNCHANGED <<spool, skipped>>
      BY <1>0, <1>6 DEF Touched
    <2>2. info'[index[f]] = r /\ \A j \in Infos \ {index[f]} : info'[j] = info[j]
      BY <1>0, <2>1
    <2>3. \A j \in Infos : /\ info'[j].inode = info[j].inode
                           /\ info'[j].off \in {info[j].off, info[j].finish, 0}
                           /\ info'[j].finish \in {info[j].off, info[j].finish, 0}
      BY <2>1, <2>2
    <2> QED  BY <1>0, <1>3, <1>4, <2>1, <2>3
  <1>7. ASSUME NEW i \in Infos, NEW r \in InfoRec, info' = [Orphaned(f) EXCEPT ![i] = r]
        PROVE  /\ info'[i] = r
               /\ \A j \in Infos \ {i} : /\ info'[j].inode = info[j].inode
                                         /\ info'[j].off = info[j].off /\ info'[j].finish = info[j].finish
    BY <1>7, OrphanedFacts DEF IndInv
  <1>8. ASSUME NEW i \in Infos, NEW r \in InfoRec, PlacedStub(f, i, r) PROVE NothingLeftOut'
    <2>1. /\ info' = [Orphaned(f) EXCEPT ![i] = r] /\ r.inode = None /\ UNCHANGED <<spool, skipped>>
          /\ \A n \in 1 .. Len(pipe) : pipe[n].info # i
      BY <1>8 DEF PlacedStub, Placed, Free
    <2>2. info'[i] = r /\ \A j \in Infos \ {i} : /\ info'[j].inode = info[j].inode
                                         /\ info'[j].off = info[j].off /\ info'[j].finish = info[j].finish
      BY <1>7, <2>1
    <2> QED  BY <1>0, <1>3, <1>4, <2>1, <2>2
  <1>9. ASSUME NEW i \in Infos, NEW r \in InfoRec, NEW offset \in Lines, PlacedNew(f, i, r, offset) PROVE NothingLeftOut'
    <2> DEFINE n == [source |-> f, inode |-> dir[f], offset |-> offset]
               e == [type |-> "discover", info |-> i, entry |-> n]
    <2>1. /\ info' = [Orphaned(f) EXCEPT ![i] = r] /\ r.inode = dir[f] /\ dir[f] # None
          /\ r.off \in {0, offset} /\ r.finish \in {0, offset}
          /\ spool' = spool \cup {e}
          /\ skipped' = [skipped EXCEPT ![dir[f]] = @ \cup 1 .. offset]
          /\ \A k \in 1 .. Len(pipe) : pipe[k].info # i
      BY <1>9 DEF PlacedNew, Placed, Free
    <2>2. e.entry.inode = dir[f] /\ e.entry.offset = offset
      OBVIOUS
    <2> HIDE DEF e
    <2>3. dir[f] \in Inodes
      BY <2>1 DEF IndInv, TypeInv, TypeOK
    <2>4. skipped' \in [Inodes -> SUBSET Nat] /\ 1 .. offset \subseteq skipped'[dir[f]]
          /\ \A ino \in Inodes : skipped[ino] \subseteq skipped'[ino]
      BY <2>1, <2>3 DEF IndInv, TypeInv
    <2>5. /\ \A ino \in Inodes : Sent[ino] \subseteq Sent'[ino]
          /\ 1 .. offset \subseteq Sent'[dir[f]]
      BY <1>2, <2>3, <2>4 DEF Sent
    <2>6. \A x \in spool' : x \in spool \/ (x.type = "discover" => Covered(x.entry)')
      BY <2>1, <2>2, <2>4 DEF Covered
    <2>7. info'[i] = r /\ \A j \in Infos \ {i} : /\ info'[j].inode = info[j].inode
                                         /\ info'[j].off = info[j].off /\ info'[j].finish = info[j].finish
      BY <1>7, <2>1
    <2>8. 1 .. r.off \subseteq Sent'[r.inode] /\ 1 .. r.finish \subseteq Sent'[r.inode]
      <3>1. 1 .. 0 \subseteq Sent'[r.inode]
        OBVIOUS
      <3> QED  BY <2>1, <2>5, <3>1
    <2>9. \A k \in 1 .. Len(pipe) : info'[pipe[k].info].inode = info[pipe[k].info].inode
      BY <1>0, <2>1, <2>7
    <2>10. \A j \in Infos : info'[j].inode # None =>
             \/ /\ info'[j].inode = info[j].inode
                /\ info'[j].off \in {info[j].off, info[j].finish, 0}
                /\ info'[j].finish \in {info[j].off, info[j].finish, 0}
             \/ /\ 1 .. info'[j].off \subseteq Sent'[info'[j].inode]
                /\ 1 .. info'[j].finish \subseteq Sent'[info'[j].inode]
      BY <2>7, <2>8
    <2> QED  BY <1>3, <2>5, <2>6, <2>9, <2>10
  <1>10. ASSUME NEW k \in Infos, NEW r \in InfoRec, Moved(f, k, r) PROVE NothingLeftOut'
    <2> DEFINE e == [type |-> "renamed", info |-> k, source |-> f]
    <2>1. /\ info' = [Orphaned(f) EXCEPT ![k] = r] /\ r.inode = info[k].inode
          /\ r.off \in {info[k].off, info[k].finish, 0} /\ r.finish \in {info[k].off, info[k].finish}
          /\ spool' = spool \cup {e} /\ UNCHANGED skipped
      BY <1>10 DEF Moved
    <2>2. e.type # "discover"
      OBVIOUS
    <2> HIDE DEF e
    <2>3. \A x \in spool' : x \in spool \/ (x.type = "discover" => Covered(x.entry)')
      BY <2>1, <2>2
    <2>4. info'[k] = r /\ \A j \in Infos \ {k} : /\ info'[j].inode = info[j].inode
                                         /\ info'[j].off = info[j].off /\ info'[j].finish = info[j].finish
      BY <1>7, <2>1
    <2>5. \A j \in Infos : /\ info'[j].inode = info[j].inode
                           /\ info'[j].off \in {info[j].off, info[j].finish, 0}
                           /\ info'[j].finish \in {info[j].off, info[j].finish, 0}
      BY <2>1, <2>4
    <2> QED  BY <1>0, <1>3, <1>4, <2>1, <2>3, <2>5
  <1> QED  BY <1>1, <1>5, <1>6, <1>8, <1>9, <1>10

LEMMA SentCleanUp ==
  ASSUME IndInv, NothingLeftOut, TypeInv', SavedInv', CleanUp
  PROVE  NothingLeftOut'
  <1>1. CleanedInfos /\ CleanedRegistry /\ spool' = {} /\ UNCHANGED <<pipe, acked, skipped>>
    BY CleanUpInfos, CleanUpRegistry DEF IndInv, CleanUp, historyVars
  <1>2. Sent' = Sent
    BY <1>1 DEF Sent
  <1>3. \A n \in 1 .. Len(pipe) : pipe[n].info \in Infos
    BY PipeTyped DEF IndInv
  <1>4. \A j \in Infos : /\ info'[j].inode = info[j].inode
                         /\ info'[j].off \in {info[j].off, info[j].finish, 0}
                         /\ info'[j].finish \in {info[j].off, info[j].finish, 0}
    BY <1>1 DEF CleanedInfos
  <1>5. /\ \A i \in Infos : info'[i].inode # None =>
              /\ SentUpTo(Sent', pipe', info', info'[i].inode, info'[i].off, Len(pipe'))
              /\ SentUpTo(Sent', pipe', info', info'[i].inode, info'[i].finish, Len(pipe'))
        /\ \A n \in 1 .. Len(pipe') :
              SentUpTo(Sent', pipe', info', info'[pipe'[n].info].inode, pipe'[n].line, n)
    BY <1>1, <1>2, <1>3, <1>4, OffsetsKept
  <1>6. ASSUME NEW i \in DOMAIN registry'
        PROVE  1 .. registry'[i].offset \subseteq acked[registry'[i].inode] \cup skipped[registry'[i].inode]
    <2>1. /\ registry'[i].inode = info[i].inode
          /\ \/ i \in DOMAIN registry /\ registry'[i].offset = registry[i].offset
             \/ \E e \in spool : e.type = "discover" /\ registry'[i] = e.entry
      BY <1>1 DEF CleanedRegistry
    <2>2. CASE i \in DOMAIN registry /\ registry'[i].offset = registry[i].offset
      BY <2>1, <2>2 DEF IndInv, RegistryInv, NothingLeftOut, Covered
    <2>3. CASE \E e \in spool : e.type = "discover" /\ registry'[i] = e.entry
      BY <2>3 DEF NothingLeftOut, Covered
    <2> QED  BY <2>1, <2>2, <2>3
  <1>7. \A i \in DOMAIN registry' : Covered(registry[i])'
    BY <1>1, <1>6 DEF Covered
  <1>8. ASSUME NEW e \in saved' PROVE Covered(e)'
    <2>1. PICK i \in DOMAIN registry' : registry'[i] = e
      BY <1>8 DEF SavedInv
    <2> QED  BY <1>1, <1>6, <2>1 DEF Covered
  <1> QED  BY <1>1, <1>5, <1>7, <1>8 DEF NothingLeftOut

LEMMA SentCrash ==
  ASSUME IndInv, NothingLeftOut, TypeInv', Crash
  PROVE  NothingLeftOut'
  <1>1. PICK given \in [saved -> Infos] : RestartedInfos(given) /\ RestartedLists(given)
    BY CrashFacts DEF IndInv
  <1>2. pipe' = <<>> /\ spool' = {} /\ UNCHANGED <<saved, acked, skipped>>
    BY CrashFacts DEF IndInv, RestartedRest
  <1>3. \A e \in saved' : Covered(e)'
    BY <1>2 DEF NothingLeftOut, Covered
  <1>4. \A i \in DOMAIN registry' : \E e \in saved : registry'[i] = e
    BY <1>1 DEF RestartedLists
  <1>5. \A i \in DOMAIN registry' : Covered(registry[i])'
    BY <1>2, <1>4 DEF NothingLeftOut, Covered
  <1>6. Sent' = Sent
    BY <1>2 DEF Sent
  <1>7. ASSUME NEW i \in Infos, info'[i].inode # None
        PROVE  /\ SentUpTo(Sent', pipe', info', info'[i].inode, info'[i].off, Len(pipe'))
               /\ SentUpTo(Sent', pipe', info', info'[i].inode, info'[i].finish, Len(pipe'))
    <2>1. info'[i].off = 0 /\ \E e \in saved : given[e] = i
      BY <1>1, <1>7 DEF RestartedInfos
    <2>2. PICK e \in saved : given[e] = i
      BY <2>1
    <2>3. info'[i].inode = e.inode /\ info'[i].finish = e.offset
      BY <1>1, <2>2 DEF RestartedInfos
    <2>4. e.inode \in Inodes
      BY DEF IndInv, TypeInv, TypeOK, Entry
    <2>5. 1 .. e.offset \subseteq Sent'[e.inode]
      BY <1>6, <2>4 DEF NothingLeftOut, Covered, Sent
    <2> QED  BY <2>1, <2>3, <2>5 DEF SentUpTo
  <1>8. \A n \in 1 .. Len(pipe') : FALSE
    BY <1>2
  <1> QED  BY <1>2, <1>3, <1>5, <1>7, <1>8 DEF NothingLeftOut

LEMMA SentStep ==
  ASSUME IndInv, [Next]_vars, TypeInv', SavedInv'
  PROVE  SentInv'
  <1> SUFFICES ASSUME dropped' = {} PROVE NothingLeftOut'
    BY DEF SentInv, NothingLeftOut
  <1>1. dropped = {}
    <2>1. ASSUME NEW i \in Infos, HarvesterStep(i) PROVE UNCHANGED dropped
      BY <2>1, HarvesterFacts DEF IndInv
    <2>2. CASE ScanStep
      BY <2>2 DEF ScanStep, StatFails, IsDuplicate, IsRenamed, IsNew, IsSame, ProcessedFile
    <2>3. CASE ChangeFiles \/ (\E ino \in Inodes : AppendLine(ino)) \/ Acknowledge \/ StartScan
               \/ CleanUp \/ Crash \/ UNCHANGED vars
      BY <2>3 DEF ChangeFiles, AppendLine, Acknowledge, StartScan, CleanUp, Crash, vars, historyVars
    <2> QED  BY <2>1, <2>2, <2>3 DEF Next
  <1>2. NothingLeftOut
    BY <1>1 DEF IndInv, SentInv, NothingLeftOut
  <1>3. ASSUME NEW i \in Infos, HarvesterStep(i) PROVE NothingLeftOut'
    BY <1>2, <1>3, SentHarvest
  <1>4. CASE Acknowledge
    BY <1>2, <1>4, SentAcknowledge
  <1>5. CASE ScanStep
    BY <1>2, <1>5, SentScan
  <1>6. CASE CleanUp
    BY <1>2, <1>6, SentCleanUp
  <1>7. CASE Crash
    BY <1>2, <1>7, SentCrash
  <1>8. CASE ChangeFiles \/ (\E ino \in Inodes : AppendLine(ino)) \/ StartScan \/ UNCHANGED vars
    <2>1. UNCHANGED <<info, spool, pipe, registry, saved, acked, skipped>>
      BY <1>8 DEF ChangeFiles, AppendLine, StartScan, vars, scanVars, stateVars, historyVars
    <2>2. Sent' = Sent
      BY <2>1 DEF Sent
    <2> QED  BY <1>2, <2>1, <2>2 DEF NothingLeftOut, Covered
  <1> QED  BY <1>3, <1>4, <1>5, <1>6, <1>7, <1>8 DEF Next

-----------------------------------------------------------------------------
(* The theorems. *)

LEMMA InitInd == Init => IndInv
  <1> SUFFICES ASSUME Init PROVE IndInv
    OBVIOUS
  <1>1. /\ pc = "idle" /\ todo = {} /\ spool = {} /\ pipe = <<>> /\ saved = {} /\ prospectors = {}
        /\ DOMAIN registry = {} /\ Len(pipe) = 0
        /\ index = [f \in Names |-> None] /\ info = [i \in Infos |-> Blank(1)]
    BY DEF Init
  <1>2. \A i \in Infos : info[i].run = "no" /\ ~info[i].seen /\ info[i].inode = None
    BY <1>1 DEF Blank
  <1>3. IndexConsistent /\ ScanInv /\ RegistryInv /\ SavedInv
    BY <1>1, <1>2 DEF IndexConsistent, ScanInv, RegistryInv, NoConflict, SavedInv
  <1>4. UniqueInv /\ UseInv /\ SentInv
    BY <1>1, <1>2 DEF UniqueInv, UseInv, SentInv
  <1> QED  BY InitType, <1>3, <1>4 DEF IndInv

LEMMA NextInd == IndInv /\ [Next]_vars => IndInv'
  <1> SUFFICES ASSUME IndInv, [Next]_vars PROVE IndInv'
    OBVIOUS
  <1>1. TypeInv' /\ IndexConsistent' /\ ScanInv' /\ RegistryInv' /\ SavedInv' /\ UniqueInv' /\ UseInv'
    BY TypeStep, IndexStep, ScanInvStep, RegistryStep, SavedStep, UniqueStep, UseStep
  <1> QED  BY <1>1, SentStep DEF IndInv

LEMMA Invariance == Spec => []IndInv
  BY InitInd, NextInd, PTL DEF Spec

\* processFile and the clean up of prospector.go: through renames, rotations,
\* errors and restarts the index only leads to prospectors that have its path.
THEOREM IndexCorrect == Spec => []IndexConsistent
  <1>1. IndInv => IndexConsistent
    BY DEF IndInv
  <1> QED  BY <1>1, Invariance, PTL

\* registrar.go, toCanonical: the conflict it reports as a bug never happens, as
\* the events of a scan reach the registrar together with those of the clean up.
THEOREM ConflictFree == Spec => []NoConflict
  <1>1. IndInv => NoConflict
    BY DEF IndInv, RegistryInv
  <1> QED  BY <1>1, Invariance, PTL

\* prospector.go, processFile: as long as no error took the place of a file, no
\* second harvester is started for a file that one reads already.
THEOREM HarvestersApart == Spec => []OneHarvesterUnlessError
  <1>1. IndInv => OneHarvesterUnlessError
    <2> SUFFICES ASSUME IndInv, ~stubbed, NEW i \in Infos, NEW j \in Infos,
                        info[i].run \in {"open", "read"}, info[j].run \in {"open", "read"},
                        info[i].inode = info[j].inode
                 PROVE  i = j
      BY DEF OneHarvesterUnlessError, OneHarvester
    <2>1. i \in prospectors /\ j \in prospectors
      BY DEF IndInv, UseInv
    <2> QED  BY <2>1 DEF IndInv, UniqueInv
  <1> QED  BY <1>1, Invariance, PTL

\* Harvester, publisher, registrar and LoadPrevious together: an entry of the
\* state file never lies behind a line that was not acknowledged, at any moment of
\* a scan and with any number of crashes, so that a restart leaves nothing out.
THEOREM ResumptionSafe == Spec => []ResumesSafely
  <1>1. IndInv => ResumesSafely
    BY DEF IndInv, SentInv, ResumesSafely
  <1> QED  BY <1>1, Invariance, PTL
=============================================================================
