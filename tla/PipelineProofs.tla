--------------------------- MODULE PipelineProofs ---------------------------
(***************************************************************************)
(* Proofs about Pipeline: types, reloads, the REST server, and what has    *)
(* been delivered and saved when the program exits.  A line is in one of   *)
(* eight stages, from "not read" to "acknowledged", and the lines of one   *)
(* stage come before those of the stages behind it: each step of a segment *)
(* moves lines one stage on and keeps that order.                          *)
(***************************************************************************)
EXTENDS Pipeline, TLAPS

LineSeq == Seq(Nat \ {0})

DataType ==
    [read : Nat, stop : BOOLEAN, input : Seq(Nat), spool : LineSeq, dropped : SUBSET Nat,
     spoolChan : LineSeq, next : LineSeq, pending : Seq(LineSeq \ {<<>>}), acked : SUBSET Nat,
     ack : Nat, closing : BOOLEAN, revived : BOOLEAN, registrarChan : Seq(Nat),
     registered : Nat, told : Nat \cup {-1}, wait : Nat \cup {-1}]

ConfType ==
    [lc : Nat, loads : Nat, loaded : SUBSET Nat, of : [Receivers -> Nat], raced : BOOLEAN]

SenderType ==
    [pc : {"idle", "load", "loaded", "send"}, mine : Nat, config : Nat, todo : SUBSET Receivers]

AdmType ==
    [first : Binds, bind : Binds, sockets : SUBSET Binds, old : Binds \cup {NoBind},
     closing : {"nil", "open", "closed", "never"}, queued : Binds \cup {NoBind},
     shutting : BOOLEAN, started : BOOLEAN, done : BOOLEAN]

Pcs == {"loop", "reload", "flush", "wait", "stop", "join", "exited", "read",
        "send", "done", "scan", "idle", "run", "register"}

-----------------------------------------------------------------------------
(* The inductive invariant. *)

\* The types, and bounds of the channels.
DataInv ==
    /\ data \in DataType
    /\ Len(data.input) <= InputCap /\ Len(data.registrarChan) <= RegistrarCap
    /\ Len(data.pending) <= MaxPending

TypeInv ==
    /\ run \in Cases
    /\ at \in [Routines -> Pcs]
    /\ signals \in [term : BOOLEAN, hup : BOOLEAN, down : BOOLEAN]
    /\ DataInv

\* A reload is of a configuration that the program has: a request is counted
\* before it is served.
LoadsInv ==
    /\ conf \in ConfType /\ sender \in [Senders -> SenderType]
    /\ conf.loads >= 1 /\ Asked <= Len(run.binds)
    /\ conf.lc \in 1 .. conf.loads
    /\ \A r \in Receivers : conf.of[r] \in 1 .. conf.loads
    /\ \A s \in Senders : sender[s].pc = "send" => sender[s].config \in 1 .. conf.loads
    /\ sender["main"].pc # "idle" => at["main"] = "reload"

Agree == \A r, q \in Receivers : conf.of[r] = conf.of[q] /\ conf.of[r] \in conf.loaded

\* While no two reloads overlap: the one that runs has loaded what lc.config is,
\* and those who are served have what it sends.
ReloadInv ==
    ~conf.raced =>
        /\ \A s, o \in Senders : s # o => sender[s].pc = "idle" \/ sender[o].pc = "idle"
        /\ (\A s \in Senders : sender[s].pc # "send") => Agree
        /\ \A s \in Senders :
              /\ sender[s].pc = "load" => sender[s].mine = conf.lc
              /\ sender[s].pc = "loaded" => conf.lc \in conf.loaded
              /\ sender[s].pc = "send" =>
                    /\ sender[s].config \in conf.loaded
                    /\ \A r \in Receivers \ sender[s].todo : conf.of[r] = sender[s].config

\* The server that is being stopped is never the one that accepts requests.
AdminInv ==
    /\ adm \in AdmType
    /\ adm.shutting => signals.down
    /\ UnixBinds = {} /\ ~adm.shutting =>
          /\ adm.bind \in adm.sockets
          /\ adm.closing = "open" => adm.old # adm.bind

Elems(s) == {s[i] : i \in 1 .. Len(s)}

Lined(p) == UNION {Elems(p[i]) : i \in 1 .. Len(p)}

\* Where lines are, with the data d, the harvester at h and n lines to read.
Stages(d, h, n) ==
    [k \in 0 .. 7 |->
        CASE k = 0 -> d.acked
          [] k = 1 -> Lined(d.pending)
          [] k = 2 -> Elems(d.next)
          [] k = 3 -> Elems(d.spoolChan)
          [] k = 4 -> Elems(d.spool)
          [] k = 5 -> Elems(d.input) \ {FlushMark}
          [] k = 6 -> IF h = "send" THEN {d.read} ELSE {}
          [] k = 7 -> d.read + 1 .. n]

InOrder(st) == \A j, k \in 0 .. 7 : j < k => \A x \in st[j], y \in st[k] : x < y

\* Lines rise in a sequence that may hold marks.
Rising(s) == \A i, j \in 1 .. Len(s) : i < j /\ s[i] # 0 /\ s[j] # 0 => s[i] < s[j]

PayloadsRise(p) ==
    /\ \A i \in 1 .. Len(p) : Rising(p[i])
    /\ \A i, j \in 1 .. Len(p) : i < j => \A x \in Elems(p[i]), y \in Elems(p[j]) : x < y

SeqsInv ==
    /\ Rising(data.input) /\ Rising(data.spool) /\ Rising(data.spoolChan) /\ Rising(data.next)
    /\ PayloadsRise(data.pending)

\* Lines are in order from stage to stage and within each.
OrderInv ==
    /\ data.read <= Lines
    /\ InOrder(Stages(data, at["harvester"], Lines))
    /\ SeqsInv

\* Acknowledged lines on their way to the registrar, in order, the last one last.
AckInv ==
    /\ data.registered \in data.acked \cup {0}
    /\ Rising(data.registrarChan)
    /\ \A x \in Elems(data.registrarChan) : x # Found =>
          /\ x \in data.acked /\ data.registered < x
          /\ data.ack # 0 => x < data.ack
    /\ data.ack # 0 => /\ data.ack \in data.acked /\ data.registered < data.ack
                       /\ at["publisher"] = "register"
    /\ \A n \in data.acked : \/ n <= data.registered
                             \/ n \in Elems(data.registrarChan)
                             \/ n = data.ack

\* The registrar of files ends last.  That of the standard input waits for the
\* last line, unless the program was stopped before the input ended.
EndInv ==
    /\ data.closing => signals.down
    /\ Files => /\ data.told = -1 /\ data.wait = -1
                /\ at["main"] \notin {"flush", "wait", "stop"}
                /\ at["registrar"] = "done" => /\ data.registrarChan = <<>>
                                               /\ at["prospector"] = "done"
                                               /\ at["publisher"] = "done"
    /\ Stdin => /\ at["main"] \in {"loop", "reload", "flush", "wait"} => ~data.stop
                /\ at["main"] = "stop" => data.stop
                /\ at["harvester"] = "done" /\ ~data.stop => data.read = Lines
                /\ at["main"] \in {"flush", "wait"} \/ data.told # -1 \/ data.wait # -1 =>
                      data.read = Lines /\ at["harvester"] = "done"
                /\ data.told # -1 => data.told = Lines
                /\ data.wait # -1 => data.wait = Lines
                /\ ~data.stop /\ signals.down => at["registrar"] = "done"
                /\ ~data.stop /\ at["registrar"] = "done" =>
                      /\ data.read = Lines /\ at["harvester"] = "done"
                      /\ data.registered >= Lines
    /\ at["main"] = "exited" => \A s \in Segments : at[s] = "done"

\* No line is in two places, those of the standard input are in one.
KeptInv ==
    LET st == Stages(data, at["harvester"], Lines)
    IN  /\ data.dropped \subseteq 1 .. data.read
        /\ \A k \in 0 .. 6 : \A x \in st[k] :
              x \in 1 .. data.read /\ x \notin run.filtered /\ x \notin data.dropped
        /\ Stdin /\ ~data.stop =>
              \A n \in 1 .. Lines : \/ n \in run.filtered \cup data.dropped
                                    \/ \E k \in 0 .. 7 : n \in st[k]

IndInv ==
    TypeInv /\ LoadsInv /\ ReloadInv /\ AdminInv /\ OrderInv /\ AckInv /\ EndInv /\ KeptInv

-----------------------------------------------------------------------------
(* Sequences. *)

LEMMA SeqTail ==
  ASSUME NEW S, NEW s \in Seq(S), s # <<>>
  PROVE  /\ Head(s) = s[1] /\ s[1] \in S /\ Len(s) \in Nat \ {0}
         /\ Tail(s) \in Seq(S) /\ Len(Tail(s)) = Len(s) - 1
         /\ \A n \in 1 .. Len(s) - 1 : Tail(s)[n] = s[n + 1]
  OBVIOUS

LEMMA SeqAppend ==
  ASSUME NEW S, NEW s \in Seq(S), NEW x \in S
  PROVE  /\ Append(s, x) \in Seq(S) /\ Len(Append(s, x)) = Len(s) + 1 /\ Len(s) \in Nat
         /\ \A n \in 1 .. Len(s) : Append(s, x)[n] = s[n]
         /\ Append(s, x)[Len(s) + 1] = x
  OBVIOUS

\* The first element of a sequence is replaced.
LEMMA SeqFirst ==
  ASSUME NEW S, NEW s \in Seq(S), s # <<>>, NEW x \in S
  PROVE  /\ <<x>> \o Tail(s) \in Seq(S) /\ Len(<<x>> \o Tail(s)) = Len(s)
         /\ (<<x>> \o Tail(s))[1] = x
         /\ \A n \in 2 .. Len(s) : (<<x>> \o Tail(s))[n] = s[n]
  OBVIOUS

LEMMA SeqEmpty ==
  ASSUME NEW S
  PROVE  /\ <<>> \in Seq(S) /\ Len(<<>>) = 0
         /\ \A s \in Seq(S) : Len(s) \in Nat /\ (Len(s) = 0 <=> s = <<>>)
  OBVIOUS

LEMMA ElemsTail ==
  ASSUME NEW S, NEW s \in Seq(S), s # <<>>
  PROVE  /\ Elems(s) = {Head(s)} \cup Elems(Tail(s)) /\ Elems(Tail(s)) \subseteq Elems(s)
         /\ Head(s) \in Elems(s)
  <1> DEFINE t == Tail(s)
  <1>1. /\ Head(s) = s[1] /\ Len(s) \in Nat \ {0} /\ Len(t) = Len(s) - 1
        /\ \A n \in 1 .. Len(s) - 1 : t[n] = s[n + 1]
    BY SeqTail
  <1> HIDE DEF t
  <1>2. ASSUME NEW i \in 1 .. Len(s)  PROVE  s[i] = Head(s) \/ s[i] \in Elems(t)
    <2>1. CASE i = 1  BY <2>1, <1>1
    <2>2. CASE i # 1
      <3>1. i - 1 \in 1 .. Len(t) /\ t[i - 1] = s[i]  BY <2>2, <1>1
      <3> QED  BY <3>1 DEF Elems
    <2> QED  BY <2>1, <2>2
  <1>3. ASSUME NEW i \in 1 .. Len(t)  PROVE  t[i] \in Elems(s)
    <2>1. i + 1 \in 1 .. Len(s) /\ t[i] = s[i + 1]  BY <1>1
    <2> QED  BY <2>1 DEF Elems
  <1>4. Head(s) \in Elems(s)
    <2>1. 1 \in 1 .. Len(s)  BY <1>1
    <2> QED  BY <2>1, <1>1 DEF Elems
  <1>5. Elems(t) \subseteq Elems(s)  BY <1>3 DEF Elems
  <1>6. Elems(s) \subseteq {Head(s)} \cup Elems(t)  BY <1>2 DEF Elems
  <1> QED  BY <1>4, <1>5, <1>6 DEF t

LEMMA ElemsAppend ==
  ASSUME NEW S, NEW s \in Seq(S), NEW x \in S
  PROVE  Elems(Append(s, x)) = Elems(s) \cup {x}
  <1> DEFINE t == Append(s, x)
  <1>1. /\ Len(t) = Len(s) + 1 /\ Len(s) \in Nat
        /\ \A n \in 1 .. Len(s) : t[n] = s[n]
        /\ t[Len(s) + 1] = x
    BY SeqAppend
  <1> HIDE DEF t
  <1>2. ASSUME NEW i \in 1 .. Len(t)  PROVE  t[i] \in Elems(s) \cup {x}
    <2>1. CASE i = Len(t)  BY <2>1, <1>1
    <2>2. CASE i # Len(t)
      <3>1. i \in 1 .. Len(s) /\ t[i] = s[i]  BY <2>2, <1>1
      <3> QED  BY <3>1 DEF Elems
    <2> QED  BY <2>1, <2>2
  <1>3. ASSUME NEW i \in 1 .. Len(s)  PROVE  s[i] \in Elems(t)
    <2>1. i \in 1 .. Len(t) /\ t[i] = s[i]  BY <1>1
    <2> QED  BY <2>1 DEF Elems
  <1>4. x \in Elems(t)
    <2>1. Len(t) \in 1 .. Len(t) /\ t[Len(t)] = x  BY <1>1
    <2> QED  BY <2>1 DEF Elems
  <1>5. Elems(t) \subseteq Elems(s) \cup {x}  BY <1>2 DEF Elems
  <1>6. Elems(s) \subseteq Elems(t)  BY <1>3 DEF Elems
  <1> QED  BY <1>4, <1>5, <1>6 DEF t

LEMMA ElemsType ==
  ASSUME NEW S, NEW s \in Seq(S)
  PROVE  Elems(s) \subseteq S
  BY DEF Elems

LEMMA ElemsEmpty ==
  Elems(<<>>) = {}
  BY DEF Elems

LEMMA RisingTail ==
  ASSUME NEW s \in Seq(Nat), s # <<>>, Rising(s)
  PROVE  /\ Rising(Tail(s))
         /\ Head(s) # 0 => \A y \in Elems(Tail(s)) : y # 0 => Head(s) < y
  <1> DEFINE t == Tail(s)
  <1>1. /\ Head(s) = s[1] /\ Len(s) \in Nat \ {0} /\ Len(t) = Len(s) - 1
        /\ \A n \in 1 .. Len(s) - 1 : t[n] = s[n + 1]
    BY SeqTail
  <1> HIDE DEF t
  <1>2. ASSUME NEW i \in 1 .. Len(t), NEW j \in 1 .. Len(t), i < j, t[i] # 0, t[j] # 0
        PROVE  t[i] < t[j]
    <2>1. i + 1 \in 1 .. Len(s) /\ j + 1 \in 1 .. Len(s) /\ i + 1 < j + 1  BY <1>1, <1>2
    <2>2. t[i] = s[i + 1] /\ t[j] = s[j + 1]  BY <1>1
    <2> QED  BY <2>1, <2>2, <1>2 DEF Rising
  <1>3. ASSUME NEW i \in 1 .. Len(t), s[1] # 0, t[i] # 0  PROVE  s[1] < t[i]
    <2>1. i + 1 \in 1 .. Len(s) /\ 1 \in 1 .. Len(s) /\ 1 < i + 1  BY <1>1
    <2>2. t[i] = s[i + 1]  BY <1>1
    <2> QED  BY <2>1, <2>2, <1>3 DEF Rising
  <1> QED  BY <1>1, <1>2, <1>3 DEF Rising, Elems, t

LEMMA RisingAppend ==
  ASSUME NEW s \in Seq(Nat), NEW x \in Nat, Rising(s),
         \A y \in Elems(s) : x # 0 /\ y # 0 => y < x
  PROVE  Rising(Append(s, x))
  <1> DEFINE t == Append(s, x)
  <1>1. /\ Len(t) = Len(s) + 1 /\ Len(s) \in Nat
        /\ \A n \in 1 .. Len(s) : t[n] = s[n]
        /\ t[Len(s) + 1] = x
    BY SeqAppend
  <1> HIDE DEF t
  <1>2. ASSUME NEW i \in 1 .. Len(t), NEW j \in 1 .. Len(t), i < j, t[i] # 0, t[j] # 0
        PROVE  t[i] < t[j]
    <2>1. i \in 1 .. Len(s) /\ t[i] = s[i] /\ t[i] \in Elems(s)
      <3>1. i \in 1 .. Len(s)  BY <1>1, <1>2
      <3> QED  BY <3>1, <1>1 DEF Elems
    <2>2. CASE j = Len(s) + 1  BY <2>1, <2>2, <1>1, <1>2
    <2>3. CASE j # Len(s) + 1
      <3>1. j \in 1 .. Len(s)  BY <2>3, <1>1
      <3> QED  BY <3>1, <2>1, <1>1, <1>2 DEF Rising
    <2> QED  BY <2>2, <2>3
  <1> QED  BY <1>2 DEF Rising, t

LEMMA RisingEmpty ==
  Rising(<<>>)
  BY DEF Rising

-----------------------------------------------------------------------------
(* Types. *)

LEMMA CaseType ==
  ASSUME run \in Cases
  PROVE  /\ run.lines \in Nat /\ run.filtered \subseteq 1 .. run.lines
         /\ run.mode \in {"files", "stdin"} /\ (Files <=> ~Stdin)
         /\ run.binds \in Seq(Binds) /\ Len(run.binds) \in Nat \ {0}
  <1>1. /\ run.mode \in {"files", "stdin"} /\ run.lines \in Nat
        /\ run.filtered \subseteq 1 .. run.lines
        /\ run.binds \in Seq(Binds) /\ run.binds # <<>>
    BY PipelineAssumption
  <1>2. Len(run.binds) \in Nat \ {0}  BY <1>1, SeqEmpty
  <1> QED  BY <1>1, <1>2 DEF Files, Stdin

LEMMA HarvestType ==
  ASSUME TypeInv, Harvest
  PROVE  TypeInv'
  <1> USE DEF TypeInv, DataInv, DataKept, Goto, Pcs, Routines
  <1>1. CASE HarvesterReads
    <2>1. data' = [data EXCEPT !.read = data.read + 1] /\ data.read + 1 \in Nat
      BY <1>1 DEF HarvesterReads, DataType
    <2>2. /\ data' \in DataType /\ data'.input = data.input
          /\ data'.registrarChan = data.registrarChan /\ data'.pending = data.pending
      BY <2>1 DEF DataType
    <2>3. at' \in [Routines -> Pcs]  BY <1>1 DEF HarvesterReads
    <2> QED  BY <2>2, <2>3, <1>1 DEF HarvesterReads
  <1>2. CASE HarvesterSends
    <2> DEFINE new == Append(data.input, data.read)
    <2>1. data.input \in Seq(Nat) /\ data.read \in Nat  BY DEF DataType
    <2>2. new \in Seq(Nat) /\ Len(new) <= InputCap
      BY <2>1, <1>2, SeqAppend, PipelineAssumption DEF HarvesterSends
    <2>3. data' = [data EXCEPT !.input = new]  BY <1>2 DEF HarvesterSends
    <2> HIDE DEF new
    <2>4. /\ data' \in DataType /\ data'.input = new
          /\ data'.registrarChan = data.registrarChan /\ data'.pending = data.pending
      BY <2>2, <2>3 DEF DataType
    <2>5. at' \in [Routines -> Pcs]  BY <1>2 DEF HarvesterSends
    <2> QED  BY <2>2, <2>4, <2>5, <1>2 DEF HarvesterSends
  <1>3. CASE HarvesterGivesUp \/ HarvesterEnds
    BY <1>3 DEF HarvesterGivesUp, HarvesterEnds, DataType
  <1> QED  BY <1>1, <1>2, <1>3 DEF Harvest

LEMMA SpoolType ==
  ASSUME TypeInv, Spool
  PROVE  TypeInv'
  <1> USE DEF TypeInv, DataInv, DataKept, Goto, Pcs, Routines
  <1> LineSeq = Seq(Nat \ {0})  BY DEF LineSeq
  <1>e. <<>> \in LineSeq  BY SeqEmpty
  <1>1. CASE SpoolerTakes
    <2> DEFINE x == Head(data.input)
               spool == IF x = FlushMark THEN data.spool ELSE Append(data.spool, x)
               rest == Tail(data.input)
    <2>1. data.input \in Seq(Nat) /\ data.spool \in LineSeq /\ data.input # <<>>
      BY <1>1 DEF DataType, SpoolerTakes
    <2>2. x \in Nat /\ rest \in Seq(Nat) /\ Len(rest) <= InputCap
      BY <2>1, SeqTail, PipelineAssumption
    <2>3. spool \in LineSeq
      <3> HIDE DEF x
      <3>1. CASE x = FlushMark  BY <3>1, <2>1
      <3>2. CASE x # FlushMark
        <4>1. x \in Nat \ {0}  BY <2>2, <3>2 DEF FlushMark
        <4> QED  BY <3>2, <4>1, <2>1, SeqAppend
      <3> QED  BY <3>1, <3>2
    <2>4. /\ data' = [data EXCEPT !.input = rest, !.spool = spool]
          /\ at' \in [Routines -> Pcs]
      BY <1>1 DEF SpoolerTakes
    <2> HIDE DEF rest, spool, x
    <2>5. /\ data' \in DataType /\ data'.input = rest
          /\ data'.registrarChan = data.registrarChan /\ data'.pending = data.pending
      BY <2>2, <2>3, <2>4 DEF DataType
    <2> QED  BY <2>2, <2>4, <2>5, <1>1 DEF SpoolerTakes
  <1>2. CASE SpoolerTimer
    BY <1>2 DEF SpoolerTimer
  <1>3. CASE SpoolerSends
    BY <1>3, <1>e DEF SpoolerSends, DataType
  <1>4. CASE SpoolerStops
    BY <1>4, <1>e DEF SpoolerStops, DataType
  <1> QED  BY <1>1, <1>2, <1>3, <1>4 DEF Spool

LEMMA PublishType ==
  ASSUME TypeInv, Publish \/ PublisherAbandons
  PROVE  TypeInv'
  <1> USE DEF TypeInv, DataInv, DataKept, Goto, Pcs, Routines
  <1> DEFINE Payloads == LineSeq \ {<<>>}
  <1>e. <<>> \in LineSeq /\ <<>> \in Seq(Payloads) /\ Len(<<>>) = 0 /\ <<>> \in Seq(Nat)
    BY SeqEmpty DEF LineSeq
  <1>t. /\ data.pending \in Seq(Payloads) /\ data.next \in LineSeq /\ data.spoolChan \in LineSeq
        /\ data.registrarChan \in Seq(Nat) /\ data.ack \in Nat /\ Len(data.pending) \in Nat
        /\ data.acked \subseteq Nat
    <2>1. data.pending \in Seq(Payloads)  BY DEF DataType
    <2> QED  BY <2>1, SeqEmpty DEF DataType
  <1>1. CASE PublisherTakes
    <2> DEFINE new == Append(data.pending, data.spoolChan)
    <2>1. data.spoolChan # <<>>  BY <1>1 DEF PublisherTakes
    <2>2. CASE Len(data.pending) < MaxPending
      <3>1. data.spoolChan \in Payloads  BY <2>1, <1>t
      <3>2. new \in Seq(Payloads) /\ Len(new) <= MaxPending
        <4> HIDE DEF Payloads
        <4>1. new \in Seq(Payloads) /\ Len(new) = Len(data.pending) + 1  BY <3>1, <1>t, SeqAppend
        <4> QED  BY <4>1, <2>2, <1>t, PipelineAssumption
      <3>3. data' = [data EXCEPT !.spoolChan = <<>>, !.pending = new]
        BY <1>1, <2>2 DEF PublisherTakes
      <3> HIDE DEF new
      <3>4. /\ data' \in DataType /\ data'.input = data.input
            /\ data'.registrarChan = data.registrarChan /\ data'.pending = new
        BY <3>2, <3>3, <1>e DEF DataType
      <3> QED  BY <3>2, <3>4, <1>1 DEF PublisherTakes
    <2>3. CASE ~(Len(data.pending) < MaxPending)
      <3>1. data' = [data EXCEPT !.spoolChan = <<>>, !.next = data.spoolChan]
        BY <1>1, <2>3 DEF PublisherTakes
      <3>2. /\ data' \in DataType /\ data'.input = data.input
            /\ data'.registrarChan = data.registrarChan /\ data'.pending = data.pending
        BY <3>1, <1>e, <1>t DEF DataType
      <3> QED  BY <3>2, <1>1 DEF PublisherTakes
    <2> QED  BY <2>2, <2>3
  <1>2. CASE Acknowledged
    <2> DEFINE first == Head(data.pending)
               rest  == IF Tail(first) = <<>> THEN Tail(data.pending)
                        ELSE <<Tail(first)>> \o Tail(data.pending)
    <2>1. data.pending # <<>>  BY <1>2 DEF Acknowledged
    <2>2. first \in Payloads /\ Tail(data.pending) \in Seq(Payloads)
          /\ Len(Tail(data.pending)) = Len(data.pending) - 1
      <3> HIDE DEF Payloads
      <3> QED  BY <2>1, <1>t, SeqTail
    <2>3. Head(first) \in Nat /\ Tail(first) \in LineSeq
      <3> HIDE DEF first
      <3> QED  BY <2>2, SeqTail DEF LineSeq
    <2>4. rest \in Seq(Payloads) /\ Len(rest) <= MaxPending
      <3>1. CASE Tail(first) = <<>>
        <4> HIDE DEF Payloads
        <4> QED  BY <3>1, <2>2, <1>t, PipelineAssumption
      <3>2. CASE Tail(first) # <<>>
        <4>1. Tail(first) \in Payloads  BY <3>2, <2>3
        <4> HIDE DEF first, Payloads
        <4> QED  BY <3>2, <4>1, <2>1, <1>t, SeqFirst
      <3> QED  BY <3>1, <3>2
    <2>5. data' = [data EXCEPT !.acked = data.acked \cup {Head(first)}, !.ack = Head(first), !.pending = rest]
      BY <1>2 DEF Acknowledged
    <2>6. data.acked \cup {Head(first)} \in SUBSET Nat  BY <2>3, <1>t
    <2> HIDE DEF first, rest
    <2>7. /\ data' \in DataType /\ data'.input = data.input
          /\ data'.registrarChan = data.registrarChan /\ data'.pending = rest
      BY <2>3, <2>4, <2>5, <2>6 DEF DataType
    <2>8. at' \in [Routines -> Pcs]  BY <1>2 DEF Acknowledged
    <2> QED  BY <2>4, <2>7, <2>8, <1>2 DEF Acknowledged
  <1>3. CASE PublisherRegisters
    <2> DEFINE new == Append(data.registrarChan, data.ack)
               d == [data EXCEPT !.registrarChan = new, !.ack = 0]
               more == Append(data.pending, data.next)
    <2>1. new \in Seq(Nat) /\ Len(new) <= RegistrarCap
      <3>1. new \in Seq(Nat) /\ Len(new) = Len(data.registrarChan) + 1 /\ Len(data.registrarChan) \in Nat
        BY <1>t, SeqAppend
      <3> QED  BY <3>1, <1>3, PipelineAssumption DEF PublisherRegisters
    <2>2. data' = IF data.next = <<>> \/ Len(data.pending) >= MaxPending THEN d
                  ELSE [d EXCEPT !.pending = Append(d.pending, data.next), !.next = <<>>]
      BY <1>3 DEF PublisherRegisters
    <2>3. /\ d \in DataType /\ d.input = data.input
          /\ d.registrarChan = new /\ d.pending = data.pending
      <3> HIDE DEF new
      <3> QED  BY <2>1 DEF DataType
    <2> HIDE DEF d
    <2>4. /\ data' \in DataType /\ data'.input = data.input /\ data'.registrarChan = new
          /\ Len(data'.pending) <= MaxPending
      <3>1. CASE data.next = <<>> \/ Len(data.pending) >= MaxPending
        BY <3>1, <2>2, <2>3
      <3>2. CASE ~(data.next = <<>> \/ Len(data.pending) >= MaxPending)
        <4>1. data.next \in Payloads  BY <3>2, <1>t
        <4>2. more \in Seq(Payloads) /\ Len(more) <= MaxPending
          <5> HIDE DEF Payloads
          <5>1. more \in Seq(Payloads) /\ Len(more) = Len(data.pending) + 1  BY <4>1, <1>t, SeqAppend
          <5> QED  BY <5>1, <3>2, <1>t, PipelineAssumption
        <4>3. data' = [d EXCEPT !.pending = more, !.next = <<>>]  BY <3>2, <2>2, <2>3
        <4> HIDE DEF more
        <4> QED  BY <4>2, <4>3, <2>3, <1>e DEF DataType
      <3> QED  BY <3>1, <3>2
    <2>5. at' \in [Routines -> Pcs]  BY <1>3 DEF PublisherRegisters
    <2> HIDE DEF new
    <2> QED  BY <2>1, <2>4, <2>5, <1>3 DEF PublisherRegisters
  <1>4. CASE PublisherStops
    <2>1. /\ data' \in DataType /\ data'.input = data.input
          /\ data'.registrarChan = data.registrarChan /\ data'.pending = data.pending
      BY <1>4, <1>e DEF PublisherStops, DataType
    <2> QED  BY <2>1, <1>4 DEF PublisherStops
  <1>5. CASE PublisherDone
    BY <1>5 DEF PublisherDone
  <1>6. CASE PublisherAbandons
    <2>1. /\ data' \in DataType /\ data'.input = data.input
          /\ data'.registrarChan = data.registrarChan /\ data'.pending = <<>>
      BY <1>6, <1>e DEF PublisherAbandons, DataType
    <2>2. at' \in [Routines -> Pcs]  BY <1>6 DEF PublisherAbandons
    <2> QED  BY <2>1, <2>2, <1>6, <1>e, PipelineAssumption DEF PublisherAbandons
  <1> QED  BY <1>1, <1>2, <1>3, <1>4, <1>5, <1>6 DEF Publish

LEMMA RegisterType ==
  ASSUME TypeInv, Register
  PROVE  TypeInv'
  <1> USE DEF TypeInv, DataInv, DataKept, Goto, Pcs, Routines
  <1>1. CASE RegistrarTakes
    <2> DEFINE x == Head(data.registrarChan)
               offset == IF x = Found THEN data.registered ELSE x
               rest == Tail(data.registrarChan)
    <2>1. data.registrarChan \in Seq(Nat) /\ data.registrarChan # <<>> /\ data.registered \in Nat
      BY <1>1 DEF RegistrarTakes, DataType
    <2>2. x \in Nat /\ rest \in Seq(Nat) /\ Len(rest) <= RegistrarCap
      BY <2>1, SeqTail, PipelineAssumption
    <2>3. offset \in Nat  BY <2>1, <2>2
    <2>4. /\ data' = [data EXCEPT !.registrarChan = rest, !.registered = offset]
          /\ at' \in [Routines -> Pcs]
      BY <1>1 DEF RegistrarTakes
    <2> HIDE DEF x, offset, rest
    <2>5. /\ data' \in DataType /\ data'.input = data.input
          /\ data'.registrarChan = rest /\ data'.pending = data.pending
      BY <2>2, <2>3, <2>4 DEF DataType
    <2> QED  BY <2>2, <2>4, <2>5, <1>1 DEF RegistrarTakes
  <1>2. CASE RegistrarTold
    <2>1. data.told \in Nat \cup {-1}  BY DEF DataType
    <2>2. data' = [data EXCEPT !.wait = data.told, !.told = -1] /\ at' \in [Routines -> Pcs]
      BY <1>2 DEF RegistrarTold
    <2>3. /\ data' \in DataType /\ data'.input = data.input
          /\ data'.registrarChan = data.registrarChan /\ data'.pending = data.pending
      BY <2>1, <2>2 DEF DataType
    <2> QED  BY <2>2, <2>3, <1>2 DEF RegistrarTold
  <1>3. CASE RegistrarStops
    BY <1>3 DEF RegistrarStops
  <1> QED  BY <1>1, <1>2, <1>3 DEF Register

LEMMA ProspectType ==
  ASSUME TypeInv, ProspectorScans \/ ProspectorWakes \/ ProspectorStops \/ ProspectorDone
  PROVE  TypeInv'
  <1> USE DEF TypeInv, DataInv, DataKept, Goto, Pcs, Routines
  <1>1. CASE ProspectorScans
    <2> DEFINE new == Append(data.registrarChan, Found)
    <2>1. at' \in [Routines -> Pcs]  BY <1>1 DEF ProspectorScans
    <2>2. CASE UNCHANGED data  BY <2>1, <2>2, <1>1 DEF ProspectorScans
    <2>3. CASE Len(data.registrarChan) < RegistrarCap /\ data' = [data EXCEPT !.registrarChan = new]
      <3>1. data.registrarChan \in Seq(Nat) /\ Found \in Nat  BY DEF DataType, Found
      <3>2. new \in Seq(Nat) /\ Len(new) <= RegistrarCap
        BY <3>1, <2>3, SeqAppend, PipelineAssumption
      <3> HIDE DEF new
      <3>3. /\ data' \in DataType /\ data'.input = data.input
            /\ data'.registrarChan = new /\ data'.pending = data.pending
        BY <3>2, <2>3 DEF DataType
      <3> QED  BY <2>1, <3>2, <3>3, <1>1 DEF ProspectorScans
    <2> QED  BY <2>2, <2>3, <1>1 DEF ProspectorScans
  <1>2. CASE ProspectorWakes
    BY <1>2 DEF ProspectorWakes
  <1>3. CASE ProspectorStops
    <2>1. /\ data' \in DataType /\ data'.input = data.input
          /\ data'.registrarChan = data.registrarChan /\ data'.pending = data.pending
      BY <1>3 DEF ProspectorStops, DataType
    <2>2. at' \in [Routines -> Pcs]  BY <1>3 DEF ProspectorStops
    <2> QED  BY <2>1, <2>2, <1>3 DEF ProspectorStops
  <1>4. CASE ProspectorDone
    BY <1>4 DEF ProspectorDone
  <1> QED  BY <1>1, <1>2, <1>3, <1>4

\* What giving a configuration may do to lines and routines.
SpoolDropped ==
    /\ data' = [data EXCEPT !.spool = <<>>, !.dropped = data.dropped \cup Elems(data.spool)]
    /\ at' = [at EXCEPT !["spooler"] = "loop"]

Revived ==
    /\ data.closing
    /\ data' = [data EXCEPT !.revived = TRUE] /\ UNCHANGED at

LEMMA DeliverForms ==
  ASSUME TypeInv, NEW s \in Senders, NEW r \in Receivers, Deliver(s, r)
  PROVE  /\ UNCHANGED <<run, signals>>
         /\ (UNCHANGED <<at, data>> \/ SpoolDropped \/ Revived)
         /\ \/ UNCHANGED adm
            \/ r = "admin" /\ \E gone \in BOOLEAN : adm' = OnConfig(adm, run.binds[sender[s].config], gone)
  <1> DEFINE c == sender[s].config
  <1>1. Given(r, c) /\ UNCHANGED <<run, signals>>  BY DEF Deliver
  <1>2. Range(data.spool) = Elems(data.spool)
    <2>1. data.spool \in Seq(Nat \ {0})  BY DEF TypeInv, DataInv, DataType, LineSeq
    <2>2. DOMAIN data.spool = 1 .. Len(data.spool)  BY <2>1
    <2> QED  BY <2>2 DEF Range, Elems
  <1>3. r \in {"admin", "prospector", "spooler", "publisher"}
    BY DEF Receivers, Segments
  <1> HIDE DEF c
  <1>4. CASE r = "admin"
    <2>1. (\E gone \in BOOLEAN : adm' = OnConfig(adm, run.binds[c], gone)) /\ UNCHANGED <<at, data>>
      BY <1>1, <1>4 DEF Given
    <2> QED  BY <1>1, <1>4, <2>1 DEF c
  <1>5. CASE r = "spooler"
    <2>1. UNCHANGED adm  BY <1>1, <1>5 DEF Given
    <2>2. UNCHANGED <<at, data>> \/ SpoolDropped
      BY <1>1, <1>5, <1>2 DEF Given, SpoolDropped, Goto
    <2> QED  BY <1>1, <2>1, <2>2
  <1>6. CASE r = "publisher"
    <2>1. UNCHANGED <<at, adm>>  BY <1>1, <1>6 DEF Given
    <2>2. UNCHANGED data \/ Revived
      BY <1>1, <1>6, <2>1 DEF Given, Revived
    <2> QED  BY <1>1, <2>1, <2>2
  <1>7. CASE r = "prospector"
    <2>1. UNCHANGED <<at, data, adm>>  BY <1>1, <1>7 DEF Given
    <2> QED  BY <1>1, <2>1
  <1> QED  BY <1>3, <1>4, <1>5, <1>6, <1>7

LEMMA DeliverType ==
  ASSUME TypeInv, NEW s \in Senders, NEW r \in Receivers, Deliver(s, r)
  PROVE  TypeInv'
  <1> USE DEF TypeInv, DataInv, Pcs, Routines
  <1>1. UNCHANGED <<run, signals>>  BY DeliverForms
  <1>2. CASE UNCHANGED <<at, data>>  BY <1>1, <1>2
  <1>3. CASE SpoolDropped
    <2>1. <<>> \in LineSeq /\ data.spool \in LineSeq /\ data.dropped \subseteq Nat
      BY SeqEmpty DEF LineSeq, DataType
    <2>2. data.dropped \cup Elems(data.spool) \subseteq Nat  BY <2>1, ElemsType DEF LineSeq
    <2> DEFINE all == data.dropped \cup Elems(data.spool)
    <2> HIDE DEF all
    <2>3. data' = [data EXCEPT !.spool = <<>>, !.dropped = all]  BY <1>3 DEF SpoolDropped, all
    <2>4. /\ data' \in DataType /\ data'.input = data.input
          /\ data'.registrarChan = data.registrarChan /\ data'.pending = data.pending
      BY <2>1, <2>2, <2>3 DEF DataType, all
    <2>5. at' \in [Routines -> Pcs]  BY <1>3 DEF SpoolDropped
    <2> QED  BY <1>1, <2>4, <2>5
  <1>4. CASE Revived
    <2>1. /\ data' \in DataType /\ data'.input = data.input
          /\ data'.registrarChan = data.registrarChan /\ data'.pending = data.pending
      BY <1>4 DEF DataType, Revived
    <2> QED  BY <1>1, <2>1, <1>4 DEF Revived
  <1> QED  BY <1>2, <1>3, <1>4, DeliverForms

LEMMA ReloadType ==
  ASSUME TypeInv, NEW s \in Senders, Reloading(s)
  PROVE  TypeInv' /\ UNCHANGED <<run, data, signals, adm>>
  <1> USE DEF TypeInv, DataInv, Pcs, Routines
  <1>1. at' \in [Routines -> Pcs] /\ UNCHANGED <<run, data, signals, adm>>
    BY DEF Reloading, LoadFails, Loaded, SendConfig, Sent
  <1> QED  BY <1>1

LEMMA MainType ==
  ASSUME TypeInv, Main \/ Hangup \/ Terminate
  PROVE  TypeInv'
  <1> USE DEF TypeInv, DataInv, Goto, Pcs, Routines, MainKept
  <1>1. CASE TakeTerm
    <2>1. /\ data' \in DataType /\ data'.input = data.input
          /\ data'.registrarChan = data.registrarChan /\ data'.pending = data.pending
      <3>1. CASE data' = [data EXCEPT !.stop = TRUE]  BY <3>1 DEF DataType
      <3>2. CASE UNCHANGED data  BY <3>2
      <3> QED  BY <3>1, <3>2, <1>1 DEF TakeTerm
    <2>2. at' \in [Routines -> Pcs]  BY <1>1 DEF TakeTerm
    <2> QED  BY <2>1, <2>2, <1>1 DEF TakeTerm
  <1>2. CASE HarvesterStopped  BY <1>2 DEF HarvesterStopped
  <1>3. CASE TakeHangup  BY <1>3 DEF TakeHangup
  <1>4. CASE HarvesterFinished  BY <1>4 DEF HarvesterFinished
  <1>5. CASE Flush
    <2> DEFINE new == Append(data.input, FlushMark)
    <2>1. data.input \in Seq(Nat) /\ FlushMark \in Nat /\ data.read \in Nat  BY DEF DataType, FlushMark
    <2>2. new \in Seq(Nat) /\ Len(new) <= InputCap
      BY <2>1, <1>5, SeqAppend, PipelineAssumption DEF Flush
    <2>3. data' = [data EXCEPT !.input = new, !.told = data.read]  BY <1>5 DEF Flush
    <2> HIDE DEF new
    <2>4. /\ data' \in DataType /\ data'.input = new
          /\ data'.registrarChan = data.registrarChan /\ data'.pending = data.pending
      BY <2>1, <2>2, <2>3 DEF DataType
    <2>5. at' \in [Routines -> Pcs]  BY <1>5 DEF Flush
    <2> QED  BY <2>2, <2>4, <2>5, <1>5 DEF Flush
  <1>6. CASE Waited  BY <1>6 DEF Waited
  <1>7. CASE Join  BY <1>7 DEF Join
  <1>8. CASE Hangup  BY <1>8 DEF Hangup
  <1>9. CASE Terminate  BY <1>9 DEF Terminate
  <1> QED  BY <1>1, <1>2, <1>3, <1>4, <1>5, <1>6, <1>7, <1>8, <1>9 DEF Main

LEMMA AdminType ==
  ASSUME TypeInv, Admin \/ ApiReload
  PROVE  TypeInv' /\ UNCHANGED <<run, data, signals>>
  <1> USE DEF TypeInv, DataInv, Goto, Pcs, Routines, AdminKept
  <1>1. CASE Admin
    BY <1>1 DEF Admin, AdminShutdown, AdminStopped, AdminOldClosed
  <1>2. CASE ApiReload  BY <1>2 DEF ApiReload
  <1> QED  BY <1>1, <1>2

LEMMA TypeStep ==
  ASSUME TypeInv, [Next]_vars
  PROVE  TypeInv' /\ UNCHANGED run
  <1>1. CASE UNCHANGED vars
    BY <1>1 DEF vars, TypeInv, DataInv
  <1>2. CASE Harvest
    BY <1>2, HarvestType DEF Harvest, HarvesterReads, HarvesterSends, HarvesterGivesUp, HarvesterEnds, DataKept
  <1>3. CASE Spool
    BY <1>3, SpoolType DEF Spool, SpoolerTakes, SpoolerTimer, SpoolerSends, SpoolerStops, DataKept
  <1>4. CASE Publish \/ PublisherAbandons
    BY <1>4, PublishType DEF Publish, PublisherTakes, Acknowledged, PublisherRegisters,
       PublisherStops, PublisherDone, PublisherAbandons, DataKept
  <1>5. CASE Register
    BY <1>5, RegisterType DEF Register, RegistrarTakes, RegistrarTold, RegistrarStops, DataKept
  <1>6. CASE ProspectorScans \/ ProspectorWakes \/ ProspectorStops \/ ProspectorDone
    BY <1>6, ProspectType DEF ProspectorScans, ProspectorWakes, ProspectorStops, ProspectorDone, DataKept
  <1>7. CASE Admin \/ ApiReload
    BY <1>7, AdminType
  <1>8. ASSUME NEW s \in Senders, Reloading(s)  PROVE  TypeInv' /\ UNCHANGED run
    BY <1>8, ReloadType
  <1>9. ASSUME NEW s \in Senders, NEW r \in Receivers, Deliver(s, r)  PROVE  TypeInv' /\ UNCHANGED run
    BY <1>9, DeliverType, DeliverForms
  <1>10. CASE Main \/ Hangup \/ Terminate
    BY <1>10, MainType DEF Main, TakeTerm, HarvesterStopped, TakeHangup, HarvesterFinished,
       Flush, Waited, Join, Hangup, Terminate, MainKept
  <1> QED
    BY <1>1, <1>2, <1>3, <1>4, <1>5, <1>6, <1>7, <1>8, <1>9, <1>10 DEF Next

-----------------------------------------------------------------------------
(* Reloads. *)

LEMMA ReceiversKept ==
  ASSUME UNCHANGED run
  PROVE  Receivers' = Receivers /\ Segments' = Segments /\ Files' = Files /\ Stdin' = Stdin /\ Lines' = Lines
  BY DEF Receivers, Segments, Files, Stdin, Lines

LEMMA LoadsKept ==
  ASSUME LoadsInv, ReloadInv, UNCHANGED <<run, conf, sender>>, Asked' <= Len(run.binds),
         at["main"] = "reload" => at'["main"] = "reload"
  PROVE  LoadsInv' /\ ReloadInv'
  <1>1. Receivers' = Receivers  BY ReceiversKept
  <1>2. LoadsInv'  BY <1>1 DEF LoadsInv, ConfType, SenderType
  <1>3. Agree' = Agree  BY <1>1 DEF Agree
  <1>4. ReloadInv'  BY <1>1, <1>3 DEF ReloadInv
  <1> QED  BY <1>2, <1>4

\* A reload begins in the routine s.
LEMMA BeginsLoads ==
  ASSUME TypeInv, LoadsInv, ReloadInv, NEW s \in Senders,
         sender[s].pc = "idle", LoadBegins(s), UNCHANGED run,
         Asked' <= Len(run.binds), at'["main"] = IF s = "main" THEN "reload" ELSE at["main"]
  PROVE  LoadsInv' /\ ReloadInv'
  <1> DEFINE rc == conf.raced \/ \E o \in Senders \ {s} : sender[o].pc # "idle"
             n == conf.loads + 1
  <1>r. Receivers' = Receivers  BY ReceiversKept
  <1>1. /\ conf' = [conf EXCEPT !.lc = n, !.loads = n, !.raced = rc]
        /\ sender' = [sender EXCEPT ![s].pc = "load", ![s].mine = n]
    BY DEF LoadBegins
  <1>2. conf \in ConfType /\ sender \in [Senders -> SenderType] /\ conf.loads \in Nat \ {0}
    <2>1. conf \in ConfType /\ sender \in [Senders -> SenderType] /\ conf.loads >= 1  BY DEF LoadsInv
    <2> QED  BY <2>1 DEF ConfType
  <1>3. n \in Nat /\ rc \in BOOLEAN /\ n > conf.loads  BY <1>2
  <1>4. rc = FALSE => ~conf.raced /\ \A o \in Senders \ {s} : sender[o].pc = "idle"  OBVIOUS
  <1> HIDE DEF n, rc
  <1>5. /\ conf' \in ConfType /\ conf'.lc = n /\ conf'.loads = n /\ conf'.raced = rc
        /\ conf'.of = conf.of /\ conf'.loaded = conf.loaded
    BY <1>1, <1>2, <1>3 DEF ConfType
  <1>6. /\ sender' \in [Senders -> SenderType]
        /\ sender'[s].pc = "load" /\ sender'[s].mine = n
        /\ \A o \in Senders \ {s} : sender'[o] = sender[o]
    BY <1>1, <1>2, <1>3 DEF SenderType
  <1>7. conf'.loads >= 1 /\ conf'.lc \in 1 .. conf'.loads  BY <1>2, <1>3, <1>5 DEF n
  <1>8. \A r \in Receivers : conf'.of[r] \in 1 .. conf'.loads
    BY <1>2, <1>3, <1>5 DEF LoadsInv
  <1>9. \A o \in Senders : sender'[o].pc = "send" => sender'[o].config \in 1 .. conf'.loads
    BY <1>2, <1>3, <1>5, <1>6 DEF LoadsInv
  <1>10. sender'["main"].pc # "idle" => at'["main"] = "reload"
    BY <1>6 DEF LoadsInv, Senders
  <1>11. LoadsInv'
    <2>1. conf' \in ConfType' /\ sender' \in [Senders -> SenderType']
      BY <1>5, <1>6, <1>r DEF ConfType, SenderType
    <2> QED  BY <2>1, <1>7, <1>8, <1>9, <1>10, <1>r DEF LoadsInv
  <1>12. ASSUME rc = FALSE
         PROVE  /\ \A p, o \in Senders : p # o => sender'[p].pc = "idle" \/ sender'[o].pc = "idle"
                /\ Agree'
                /\ \A o \in Senders : /\ sender'[o].pc = "load" => sender'[o].mine = conf'.lc
                                      /\ sender'[o].pc \notin {"loaded", "send"}
    <2>1. \A o \in Senders \ {s} : sender'[o].pc = "idle"  BY <1>4, <1>6, <1>12
    <2>2. \A o \in Senders : sender[o].pc # "send"  BY <1>4, <1>12
    <2>3. Agree  BY <2>2, <1>4, <1>12 DEF ReloadInv
    <2>4. Agree'  BY <2>3, <1>5, <1>r DEF Agree
    <2> QED  BY <2>1, <2>4, <1>5, <1>6
  <1>13. ReloadInv'  BY <1>12, <1>5, <1>3 DEF ReloadInv
  <1> QED  BY <1>11, <1>13

LEMMA ReloadingLoads ==
  ASSUME TypeInv, LoadsInv, ReloadInv, NEW s \in Senders, Reloading(s)
  PROVE  LoadsInv' /\ ReloadInv'
  <1>r. UNCHANGED <<run, signals>> /\ Receivers' = Receivers  BY ReloadType, ReceiversKept
  <1>t. /\ conf \in ConfType /\ sender \in [Senders -> SenderType] /\ conf.loads >= 1
        /\ conf.loads \in Nat /\ Asked <= Len(run.binds)
    BY DEF LoadsInv, ConfType
  <1>n. NoReload \in SenderType /\ NoReload.pc = "idle"  BY DEF NoReload, SenderType
  <1>1. CASE LoadFails(s) \/ Sent(s)
    <2>1. /\ sender' = [sender EXCEPT ![s] = NoReload] /\ UNCHANGED conf
          /\ at' = IF s = "main" THEN [at EXCEPT !["main"] = "loop"] ELSE at
      BY <1>1 DEF LoadFails, Sent
    <2>2. /\ sender' \in [Senders -> SenderType] /\ sender'[s].pc = "idle"
          /\ \A o \in Senders \ {s} : sender'[o] = sender[o]
      BY <2>1, <1>t, <1>n
    <2>3. LoadsInv'
      <3>1. conf' \in ConfType' /\ sender' \in [Senders -> SenderType'] /\ Asked' = Asked
        BY <2>1, <2>2, <1>t, <1>r DEF ConfType, SenderType, Asked
      <3>2. sender'["main"].pc # "idle" => at'["main"] = "reload"
        BY <2>1, <2>2 DEF LoadsInv, Senders
      <3>3. \A o \in Senders : sender'[o].pc = "send" => sender'[o].config \in 1 .. conf'.loads
        BY <2>1, <2>2 DEF LoadsInv
      <3> QED  BY <3>1, <3>2, <3>3, <2>1, <1>t, <1>r DEF LoadsInv
    <2>4. ASSUME ~conf.raced
          PROVE  Agree
      <3>1. CASE LoadFails(s)
        <4>1. sender[s].pc = "load"  BY <3>1 DEF LoadFails
        <4>2. \A o \in Senders \ {s} : sender[o].pc = "idle"  BY <4>1, <2>4 DEF ReloadInv
        <4> QED  BY <4>1, <4>2, <2>4 DEF ReloadInv
      <3>2. CASE Sent(s)
        <4>1. sender[s].pc = "send" /\ sender[s].todo = {}  BY <3>2 DEF Sent
        <4>2. /\ sender[s].config \in conf.loaded
              /\ \A r \in Receivers : conf.of[r] = sender[s].config
          BY <4>1, <2>4 DEF ReloadInv
        <4> QED  BY <4>2 DEF Agree
      <3> QED  BY <1>1, <3>1, <3>2
    <2>5. ASSUME ~conf.raced
          PROVE  \A o \in Senders : sender'[o].pc = "idle"
      <3>1. sender[s].pc # "idle"  BY <1>1 DEF LoadFails, Sent
      <3>2. \A o \in Senders \ {s} : sender[o].pc = "idle"  BY <3>1, <2>5 DEF ReloadInv
      <3> QED  BY <3>2, <2>2
    <2>6. Agree' = Agree  BY <2>1, <1>r DEF Agree
    <2> QED  BY <2>1, <2>3, <2>4, <2>5, <2>6 DEF ReloadInv
  <1>2. CASE Loaded(s)
    <2> DEFINE all == conf.loaded \cup {sender[s].mine}
    <2>1. /\ conf' = [conf EXCEPT !.loaded = all] /\ UNCHANGED at
          /\ sender' = [sender EXCEPT ![s].pc = "loaded"] /\ sender[s].pc = "load"
      BY <1>2 DEF Loaded
    <2>2. all \subseteq Nat /\ conf.loaded \subseteq all  BY <1>t DEF ConfType, SenderType
    <2>a. sender[s].mine \in all  OBVIOUS
    <2> HIDE DEF all
    <2>3. /\ conf' \in ConfType /\ conf'.lc = conf.lc /\ conf'.loads = conf.loads
          /\ conf'.raced = conf.raced /\ conf'.of = conf.of /\ conf'.loaded = all
      BY <2>1, <2>2, <1>t DEF ConfType
    <2>4. /\ sender' \in [Senders -> SenderType] /\ sender'[s].pc = "loaded"
          /\ \A o \in Senders \ {s} : sender'[o] = sender[o]
      BY <2>1, <1>t DEF SenderType
    <2>5. LoadsInv'
      <3>1. conf' \in ConfType' /\ sender' \in [Senders -> SenderType'] /\ Asked' = Asked
        BY <2>3, <2>4, <1>r DEF ConfType, SenderType, Asked
      <3>2. sender'["main"].pc # "idle" => at'["main"] = "reload"
        BY <2>1, <2>4 DEF LoadsInv, Senders
      <3>3. \A o \in Senders : sender'[o].pc = "send" => sender'[o].config \in 1 .. conf'.loads
        BY <2>3, <2>4 DEF LoadsInv
      <3> QED  BY <3>1, <3>2, <3>3, <2>3, <1>t, <1>r DEF LoadsInv
    <2>6. ASSUME ~conf.raced
          PROVE  /\ \A o \in Senders \ {s} : sender'[o].pc = "idle"
                 /\ Agree' /\ conf'.lc \in conf'.loaded
      <3>1. \A o \in Senders \ {s} : sender[o].pc = "idle"  BY <2>1, <2>6 DEF ReloadInv
      <3>2. Agree /\ sender[s].mine = conf.lc  BY <2>1, <3>1, <2>6 DEF ReloadInv
      <3>3. Agree'  BY <3>2, <2>2, <2>3, <1>r DEF Agree
      <3> QED  BY <3>1, <3>2, <3>3, <2>a, <2>3, <2>4
    <2>7. ReloadInv'  BY <2>3, <2>4, <2>6 DEF ReloadInv
    <2> QED  BY <2>5, <2>7
  <1>3. CASE SendConfig(s)
    <2>1. /\ sender' = [sender EXCEPT ![s].pc = "send", ![s].mine = 0, ![s].config = conf.lc,
                                      ![s].todo = Receivers]
          /\ sender[s].pc = "loaded" /\ UNCHANGED <<at, conf>>
      BY <1>3 DEF SendConfig
    <2>2. conf.lc \in 1 .. conf.loads /\ conf.lc \in Nat  BY <1>t DEF LoadsInv, ConfType
    <2>3. /\ sender' \in [Senders -> SenderType] /\ sender'[s].pc = "send"
          /\ sender'[s].config = conf.lc /\ sender'[s].todo = Receivers
          /\ \A o \in Senders \ {s} : sender'[o] = sender[o]
      BY <2>1, <2>2, <1>t DEF SenderType
    <2>4. LoadsInv'
      <3>1. conf' \in ConfType' /\ sender' \in [Senders -> SenderType'] /\ Asked' = Asked
        BY <2>1, <2>3, <1>t, <1>r DEF ConfType, SenderType, Asked
      <3>2. sender'["main"].pc # "idle" => at'["main"] = "reload"
        BY <2>1, <2>3 DEF LoadsInv, Senders
      <3>3. \A o \in Senders : sender'[o].pc = "send" => sender'[o].config \in 1 .. conf'.loads
        BY <2>1, <2>2, <2>3 DEF LoadsInv
      <3> QED  BY <3>1, <3>2, <3>3, <2>1, <1>t, <1>r DEF LoadsInv
    <2>5. ASSUME ~conf.raced
          PROVE  /\ \A o \in Senders \ {s} : sender'[o].pc = "idle"
                 /\ conf.lc \in conf.loaded
      BY <2>1, <2>3, <2>5 DEF ReloadInv
    <2>6. ReloadInv'  BY <2>1, <2>3, <2>5, <1>r DEF ReloadInv
    <2> QED  BY <2>4, <2>6
  <1> QED  BY <1>1, <1>2, <1>3 DEF Reloading

LEMMA DeliverLoads ==
  ASSUME TypeInv, LoadsInv, ReloadInv, NEW s \in Senders, NEW r \in Receivers, Deliver(s, r)
  PROVE  LoadsInv' /\ ReloadInv'
  <1> DEFINE c == sender[s].config
             left == sender[s].todo \ {r}
  <1>r. /\ UNCHANGED <<run, signals>> /\ Receivers' = Receivers /\ at'["main"] = at["main"]
    BY DeliverForms, ReceiversKept DEF SpoolDropped, Revived, TypeInv, Routines
  <1>t. /\ conf \in ConfType /\ sender \in [Senders -> SenderType] /\ conf.loads >= 1
        /\ conf.loads \in Nat /\ Asked <= Len(run.binds)
    BY DEF LoadsInv, ConfType
  <1>1. /\ sender[s].pc = "send" /\ sender' = [sender EXCEPT ![s].todo = left]
        /\ conf' = [conf EXCEPT !.of[r] = c]
    BY DEF Deliver
  <1>2. c \in 1 .. conf.loads /\ c \in Nat /\ left \subseteq Receivers
    BY <1>1, <1>t DEF LoadsInv, SenderType
  <1>a. Receivers \ left \subseteq (Receivers \ sender[s].todo) \cup {r}  OBVIOUS
  <1> DEFINE of2 == [conf.of EXCEPT ![r] = c]
  <1>3. /\ conf.of \in [Receivers -> Nat] /\ of2 \in [Receivers -> Nat]
        /\ of2[r] = c /\ \A q \in Receivers \ {r} : of2[q] = conf.of[q]
    BY <1>2, <1>t DEF ConfType
  <1>4. conf' = [conf EXCEPT !.of = of2]  BY <1>1, <1>t DEF ConfType
  <1> HIDE DEF of2, left
  <1>5. /\ conf' \in ConfType /\ conf'.lc = conf.lc /\ conf'.loads = conf.loads
        /\ conf'.raced = conf.raced /\ conf'.of = of2 /\ conf'.loaded = conf.loaded
    BY <1>3, <1>4, <1>t DEF ConfType
  <1>6. /\ sender' \in [Senders -> SenderType] /\ sender'[s].pc = "send"
        /\ sender'[s].config = c /\ sender'[s].todo = left
        /\ \A o \in Senders \ {s} : sender'[o] = sender[o]
    BY <1>1, <1>2, <1>t DEF SenderType
  <1> HIDE DEF c
  <1>7. LoadsInv'
    <2>1. conf' \in ConfType' /\ sender' \in [Senders -> SenderType'] /\ Asked' = Asked
      BY <1>5, <1>6, <1>r DEF ConfType, SenderType, Asked
    <2>2. sender'["main"].pc # "idle" => at'["main"] = "reload"
      BY <1>1, <1>6, <1>r DEF LoadsInv, Senders
    <2>3. \A o \in Senders : sender'[o].pc = "send" => sender'[o].config \in 1 .. conf'.loads
      BY <1>2, <1>5, <1>6 DEF LoadsInv
    <2>4. \A q \in Receivers : conf'.of[q] \in 1 .. conf'.loads
      BY <1>2, <1>3, <1>5 DEF LoadsInv
    <2>5. conf'.lc \in 1 .. conf'.loads  BY <1>5 DEF LoadsInv
    <2> QED  BY <2>1, <2>2, <2>3, <2>4, <2>5, <1>5, <1>t, <1>r DEF LoadsInv
  <1>8. ASSUME ~conf.raced
        PROVE  /\ \A o \in Senders \ {s} : sender'[o].pc = "idle"
               /\ c \in conf.loaded /\ \A q \in Receivers \ left : of2[q] = c
    <2>1. \A o \in Senders \ {s} : sender[o].pc = "idle"  BY <1>1, <1>8 DEF ReloadInv
    <2>2. c \in conf.loaded /\ \A q \in Receivers \ sender[s].todo : conf.of[q] = c
      BY <1>1, <1>8 DEF ReloadInv, c
    <2>3. ASSUME NEW q \in Receivers \ left  PROVE  of2[q] = c
      <3>1. CASE q = r  BY <3>1, <1>3
      <3>2. CASE q # r
        <4>1. q \in Receivers \ sender[s].todo  BY <3>2, <1>a DEF left
        <4> QED  BY <4>1, <3>2, <2>2, <1>3
      <3> QED  BY <3>1, <3>2
    <2> QED  BY <2>1, <2>2, <2>3, <1>6
  <1>9. ReloadInv'  BY <1>5, <1>6, <1>8, <1>r DEF ReloadInv
  <1> QED  BY <1>7, <1>9

LEMMA LoadsStep ==
  ASSUME TypeInv, LoadsInv, ReloadInv, [Next]_vars
  PROVE  LoadsInv' /\ ReloadInv'
  <1>r. UNCHANGED run  BY TypeStep
  <1>t. conf.loads \in Nat /\ Asked <= Len(run.binds) /\ Len(run.binds) \in Nat
    BY CaseType DEF LoadsInv, ConfType, TypeInv
  <1>1. CASE UNCHANGED vars
    <2>1. UNCHANGED <<conf, sender, at, signals>>  BY <1>1 DEF vars
    <2>2. Asked' = Asked  BY <2>1 DEF Asked
    <2> QED  BY <2>1, <2>2, <1>r, <1>t, LoadsKept
  <1>2. CASE Harvest \/ Spool \/ Publish \/ PublisherAbandons \/ Register
             \/ ProspectorScans \/ ProspectorWakes \/ ProspectorStops \/ ProspectorDone
    <2>1. UNCHANGED <<conf, sender, signals>>
      BY <1>2 DEF Harvest, HarvesterReads, HarvesterSends, HarvesterGivesUp, HarvesterEnds, DataKept,
         Spool, SpoolerTakes, SpoolerTimer, SpoolerSends, SpoolerStops,
         Publish, PublisherTakes, Acknowledged, PublisherRegisters,
         PublisherStops, PublisherDone, PublisherAbandons,
         Register, RegistrarTakes, RegistrarTold, RegistrarStops,
         ProspectorScans, ProspectorWakes, ProspectorStops, ProspectorDone
    <2>3. at'["main"] = at["main"]
      BY <1>2 DEF Harvest, HarvesterReads, HarvesterSends, HarvesterGivesUp, HarvesterEnds, Goto,
         Spool, SpoolerTakes, SpoolerTimer, SpoolerSends, SpoolerStops,
         Publish, PublisherTakes, Acknowledged, PublisherRegisters,
         PublisherStops, PublisherDone, PublisherAbandons,
         Register, RegistrarTakes, RegistrarTold, RegistrarStops,
         ProspectorScans, ProspectorWakes, ProspectorStops, ProspectorDone, TypeInv, Routines
    <2>2. Asked' = Asked  BY <2>1 DEF Asked
    <2> QED  BY <2>1, <2>2, <2>3, <1>r, <1>t, LoadsKept
  <1>3. CASE Admin
    <2>1. UNCHANGED <<conf, sender, signals>> /\ at'["main"] = at["main"]
      BY <1>3 DEF Admin, AdminShutdown, AdminStopped, AdminOldClosed, AdminKept, Goto, TypeInv, Routines
    <2>2. Asked' = Asked  BY <2>1 DEF Asked
    <2> QED  BY <2>1, <2>2, <1>r, <1>t, LoadsKept
  <1>4. CASE ApiReload
    <2>1. /\ sender["api"].pc = "idle" /\ LoadBegins("api") /\ UNCHANGED <<at, signals>>
          /\ Asked < Len(run.binds)
      BY <1>4 DEF ApiReload
    <2>2. conf'.loads = conf.loads + 1  BY <2>1 DEF LoadBegins, LoadsInv, ConfType
    <2>3. Asked' <= Len(run.binds)  BY <2>1, <2>2, <1>t DEF Asked
    <2>4. "api" \in Senders  BY DEF Senders
    <2> QED  BY <2>1, <2>3, <2>4, <1>r, BeginsLoads
  <1>5. CASE TakeHangup
    <2>1. /\ at["main"] = "loop" /\ signals.hup /\ signals' = [signals EXCEPT !.hup = FALSE]
          /\ LoadBegins("main") /\ at' = [at EXCEPT !["main"] = "reload"]
      BY <1>5 DEF TakeHangup, Goto
    <2>2. conf'.loads = conf.loads + 1  BY <2>1 DEF LoadBegins, LoadsInv, ConfType
    <2>3. ~signals'.hup  BY <2>1 DEF TypeInv
    <2>4. Asked' <= Len(run.binds)  BY <2>1, <2>2, <2>3, <1>t DEF Asked
    <2>5. "main" \in Senders /\ sender["main"].pc = "idle"  BY <2>1 DEF Senders, LoadsInv
    <2>6. at'["main"] = "reload"  BY <2>1 DEF TypeInv, Routines
    <2> QED  BY <2>1, <2>4, <2>5, <2>6, <1>r, BeginsLoads
  <1>6. CASE Hangup
    <2>1. UNCHANGED <<conf, sender, at>> /\ Asked < Len(run.binds) /\ ~signals.hup
      BY <1>6 DEF Hangup, MainKept
    <2>2. Asked' <= Len(run.binds)
      BY <2>1, <1>t DEF Asked
    <2> QED  BY <2>1, <2>2, <1>r, LoadsKept
  <1>7. CASE Terminate
    <2>1. UNCHANGED <<conf, sender, at>> /\ signals'.hup = signals.hup
      BY <1>7 DEF Terminate, MainKept, TypeInv
    <2>2. Asked' = Asked  BY <2>1 DEF Asked
    <2> QED  BY <2>1, <2>2, <1>r, <1>t, LoadsKept
  <1>8. CASE TakeTerm \/ HarvesterStopped \/ HarvesterFinished \/ Flush \/ Waited \/ Join
    <2>1. UNCHANGED <<conf, sender>> /\ signals'.hup = signals.hup /\ at["main"] # "reload"
      BY <1>8 DEF TakeTerm, HarvesterStopped, HarvesterFinished, Flush, Waited, Join, MainKept, TypeInv
    <2>2. Asked' = Asked  BY <2>1 DEF Asked
    <2> QED  BY <2>1, <2>2, <1>r, <1>t, LoadsKept
  <1>9. ASSUME NEW s \in Senders, Reloading(s)  PROVE  LoadsInv' /\ ReloadInv'
    BY <1>9, ReloadingLoads
  <1>10. ASSUME NEW s \in Senders, NEW r \in Receivers, Deliver(s, r)  PROVE  LoadsInv' /\ ReloadInv'
    BY <1>10, DeliverLoads
  <1> QED
    BY <1>1, <1>2, <1>3, <1>4, <1>5, <1>6, <1>7, <1>8, <1>9, <1>10 DEF Next, Main

-----------------------------------------------------------------------------
(* The REST server. *)

AdmGood(a) ==
    /\ a \in AdmType
    /\ UnixBinds = {} /\ ~a.shutting => /\ a.bind \in a.sockets
                                        /\ a.closing = "open" => a.old # a.bind

\* A server that is stopped is still there, or is gone with its socket.
LEMMA ShutdownServerIs ==
  ASSUME NEW a \in AdmType, a.bind \in Binds, NEW gone \in BOOLEAN
  PROVE  LET x == ShutdownServer(a, gone)
         IN  /\ x \in AdmType /\ x.old = a.bind /\ x.bind = a.bind /\ x.shutting = a.shutting
             /\ x.closing = IF gone THEN "never" ELSE "open"
             /\ x.sockets = IF gone THEN a.sockets \ {a.bind} ELSE a.sockets
  <1> DEFINE o == [a EXCEPT !.old = a.bind, !.closing = "open"]
  <1>1. /\ o \in AdmType /\ o.old = a.bind /\ o.bind = a.bind /\ o.shutting = a.shutting
        /\ o.closing = "open" /\ o.sockets = a.sockets
    BY DEF AdmType
  <1>2. ShutdownServer(a, gone) = IF gone THEN [ServerStopped(o) EXCEPT !.closing = "never"] ELSE o
    BY DEF ShutdownServer
  <1> HIDE DEF o
  <1>3. CASE ~gone  BY <1>1, <1>2, <1>3
  <1>4. CASE gone
    <2> DEFINE c == ServerStopped(o)
    <2>1. /\ c \in AdmType /\ c.old = a.bind /\ c.bind = a.bind /\ c.shutting = a.shutting
          /\ c.sockets = a.sockets \ {a.bind}
      BY <1>1 DEF ServerStopped, AdmType
    <2>2. ShutdownServer(a, gone) = [c EXCEPT !.closing = "never"]  BY <1>2, <1>4
    <2> HIDE DEF c
    <2> QED  BY <2>1, <2>2, <1>4 DEF AdmType
  <1> QED  BY <1>3, <1>4

LEMMA ReloadServerGood ==
  ASSUME NEW a, AdmGood(a), a.closing # "open", NEW b \in Binds, NEW gone \in BOOLEAN
  PROVE  AdmGood(ReloadServer(a, b, gone)) /\ ReloadServer(a, b, gone).shutting = a.shutting
  <1>1. CASE ~Listens(a, b)
    BY <1>1 DEF ReloadServer, AdmGood, AdmType
  <1>2. CASE Listens(a, b)
    <2> DEFINE o == [a EXCEPT !.sockets = a.sockets \cup {b}]
               x == ShutdownServer(o, gone)
               y == [x EXCEPT !.bind = b]
    <2>1. /\ o \in AdmType /\ o.bind = a.bind /\ o.bind \in Binds /\ o.shutting = a.shutting
          /\ o.sockets = a.sockets \cup {b}
      BY DEF AdmGood, AdmType
    <2>2. ReloadServer(a, b, gone) = y  BY <1>2 DEF ReloadServer
    <2> HIDE DEF o
    <2>3. /\ x \in AdmType /\ x.old = a.bind /\ x.shutting = a.shutting
          /\ x.closing = IF gone THEN "never" ELSE "open"
          /\ x.sockets = IF gone THEN (a.sockets \cup {b}) \ {a.bind} ELSE a.sockets \cup {b}
      BY <2>1, ShutdownServerIs
    <2> HIDE DEF x
    <2>4. /\ y \in AdmType /\ y.old = a.bind /\ y.bind = b /\ y.sockets = x.sockets
          /\ y.closing = x.closing /\ y.shutting = a.shutting
      BY <2>3 DEF AdmType
    <2>5. UnixBinds = {} => b \notin a.sockets  BY <1>2 DEF Listens
    <2> HIDE DEF y
    <2>6. UnixBinds = {} /\ ~a.shutting => b # a.bind  BY <2>5 DEF AdmGood
    <2>7. UnixBinds = {} /\ ~a.shutting => b \in y.sockets  BY <2>3, <2>4, <2>6
    <2> QED  BY <2>2, <2>4, <2>6, <2>7 DEF AdmGood
  <1> QED  BY <1>1, <1>2

LEMMA AdminStep ==
  ASSUME TypeInv, LoadsInv, AdminInv, [Next]_vars
  PROVE  AdminInv'
  <1>r. UNCHANGED run  BY TypeStep
  <1>g. AdmGood(adm) /\ adm \in AdmType /\ (adm.shutting => signals.down)  BY DEF AdminInv, AdmGood
  <1>s. SUFFICES AdmGood(adm') /\ (adm'.shutting => signals'.down)
    BY DEF AdminInv, AdmGood, AdmType
  <1>1. ASSUME UNCHANGED adm, signals.down => signals'.down
        PROVE  AdmGood(adm') /\ (adm'.shutting => signals'.down)
    BY <1>1, <1>g
  <1>2. CASE UNCHANGED vars  BY <1>2, <1>1 DEF vars
  <1>3. CASE Harvest \/ Spool \/ Publish \/ PublisherAbandons \/ Register
             \/ ProspectorScans \/ ProspectorWakes \/ ProspectorStops \/ ProspectorDone
    <2>1. UNCHANGED <<adm, signals>>
      BY <1>3 DEF Harvest, HarvesterReads, HarvesterSends, HarvesterGivesUp, HarvesterEnds, DataKept,
         Spool, SpoolerTakes, SpoolerTimer, SpoolerSends, SpoolerStops,
         Publish, PublisherTakes, Acknowledged, PublisherRegisters,
         PublisherStops, PublisherDone, PublisherAbandons,
         Register, RegistrarTakes, RegistrarTold, RegistrarStops,
         ProspectorScans, ProspectorWakes, ProspectorStops, ProspectorDone
    <2> QED  BY <2>1, <1>1
  <1>4. CASE Main \/ Hangup \/ Terminate
    <2>1. UNCHANGED adm /\ (signals.down => signals'.down)
      BY <1>4 DEF Main, TakeTerm, HarvesterStopped, TakeHangup, HarvesterFinished,
         Flush, Waited, Join, Hangup, Terminate, MainKept, TypeInv
    <2> QED  BY <2>1, <1>1
  <1>5. CASE ApiReload
    BY <1>5, <1>1 DEF ApiReload
  <1>6. ASSUME NEW s \in Senders, Reloading(s)  PROVE  AdmGood(adm') /\ (adm'.shutting => signals'.down)
    BY <1>6, <1>1, ReloadType
  <1>7. CASE Admin
    <2>d. UNCHANGED signals  BY <1>7, AdminType
    <2>1. CASE AdminShutdown
      <3>1. PICK gone \in BOOLEAN : adm' = OnShutdown(adm, gone) /\ signals.down
        BY <2>1 DEF AdminShutdown
      <3> DEFINE s == [adm EXCEPT !.shutting = TRUE]
      <3>2. s \in AdmType /\ s.shutting /\ s.bind \in Binds  BY <1>g DEF AdmType
      <3> HIDE DEF s
      <3>3. adm' = IF adm.closing = "nil" THEN [ShutdownServer(s, gone) EXCEPT !.started = TRUE] ELSE s
        BY <3>1 DEF OnShutdown, s
      <3> DEFINE x == ShutdownServer(s, gone)
      <3>5. x \in AdmType /\ x.shutting  BY <3>2, ShutdownServerIs
      <3> HIDE DEF x
      <3>6. adm' = IF adm.closing = "nil" THEN [x EXCEPT !.started = TRUE] ELSE s  BY <3>3 DEF x
      <3>4. adm' \in AdmType /\ adm'.shutting
        BY <3>2, <3>5, <3>6 DEF AdmType
      <3> QED  BY <3>1, <3>4, <2>d DEF AdmGood
    <2>2. CASE AdminStopped
      <3>1. adm' = ServerStopped(adm) /\ adm.closing = "open"  BY <2>2 DEF AdminStopped
      <3>2. /\ adm' \in AdmType /\ adm'.shutting = adm.shutting /\ adm'.bind = adm.bind
            /\ adm'.sockets = adm.sockets \ {adm.old} /\ adm'.closing = "closed"
        BY <3>1, <1>g DEF ServerStopped, AdmType
      <3> QED  BY <3>1, <3>2, <1>g, <2>d DEF AdmGood
    <2>3. CASE AdminOldClosed
      <3>1. PICK gone \in BOOLEAN : adm' = OldServerClosed(adm, gone) /\ adm.closing = "closed"
        BY <2>3 DEF AdminOldClosed
      <3>2. CASE adm.shutting
        <4>1. adm' \in AdmType /\ adm'.shutting
          <5>1. CASE adm.started
            BY <5>1, <3>1, <3>2, <1>g DEF OldServerClosed, AdmType
          <5>2. CASE ~adm.started
            <6> DEFINE x == ShutdownServer(adm, gone)
            <6>1. adm' = [x EXCEPT !.started = TRUE]  BY <5>2, <3>1, <3>2 DEF OldServerClosed
            <6>2. adm.bind \in Binds  BY <1>g DEF AdmType
            <6>3. x \in AdmType /\ x.shutting  BY <6>2, <3>2, <1>g, ShutdownServerIs
            <6> HIDE DEF x
            <6> QED  BY <6>1, <6>3 DEF AdmType
          <5> QED  BY <5>1, <5>2
        <4> QED  BY <4>1, <3>2, <1>g, <2>d DEF AdmGood
      <3>3. CASE ~adm.shutting /\ adm.queued # NoBind
        <4>1. adm' = ReloadServer(adm, adm.queued, gone) /\ adm.queued \in Binds
          BY <3>1, <3>3, <1>g DEF OldServerClosed, AdmType
        <4>c. adm.closing # "open"  BY <3>1
        <4>2. AdmGood(adm') /\ adm'.shutting = adm.shutting
          <5> DEFINE q == adm.queued
          <5>1. adm' = ReloadServer(adm, q, gone) /\ q \in Binds  BY <4>1
          <5> HIDE DEF q
          <5>2. AdmGood(ReloadServer(adm, q, gone)) /\ ReloadServer(adm, q, gone).shutting = adm.shutting
            BY <5>1, <4>c, <1>g, ReloadServerGood
          <5> QED  BY <5>1, <5>2
        <4> QED  BY <4>2, <3>3
      <3>4. CASE ~adm.shutting /\ adm.queued = NoBind
        BY <3>1, <3>4, <1>g DEF OldServerClosed
      <3> QED  BY <3>2, <3>3, <3>4
    <2> QED  BY <1>7, <2>1, <2>2, <2>3 DEF Admin
  <1>8. ASSUME NEW s \in Senders, NEW r \in Receivers, Deliver(s, r)
        PROVE  AdmGood(adm') /\ (adm'.shutting => signals'.down)
    <2>1. UNCHANGED signals  BY <1>8, DeliverForms
    <2>2. CASE UNCHANGED adm  BY <2>1, <2>2, <1>1
    <2>3. ASSUME NEW gone \in BOOLEAN, adm' = OnConfig(adm, run.binds[sender[s].config], gone)
          PROVE  AdmGood(adm') /\ (adm'.shutting => signals'.down)
      <3> DEFINE b == run.binds[sender[s].config]
      <3>1. b \in Binds
        <4>1. sender[s].config \in 1 .. conf.loads /\ conf.loads <= Len(run.binds) /\ conf.loads \in Nat
          BY <1>8 DEF Deliver, LoadsInv, Asked, ConfType
        <4>2. sender[s].config \in 1 .. Len(run.binds) /\ run.binds \in Seq(Binds)
          BY <4>1, CaseType DEF TypeInv
        <4> QED  BY <4>2
      <3> HIDE DEF b
      <3>2. adm' = OnConfig(adm, b, gone)  BY <2>3 DEF b
      <3>3. CASE b = adm.first  BY <3>2, <3>3, <1>g, <2>1 DEF OnConfig
      <3>4. CASE b # adm.first /\ adm.closing # "nil"
        <4>1. adm' = [adm EXCEPT !.queued = b]  BY <3>2, <3>4 DEF OnConfig
        <4>2. /\ adm' \in AdmType /\ adm'.shutting = adm.shutting /\ adm'.bind = adm.bind
              /\ adm'.sockets = adm.sockets /\ adm'.closing = adm.closing /\ adm'.old = adm.old
          BY <4>1, <3>1, <1>g DEF AdmType
        <4> QED  BY <4>2, <1>g, <2>1 DEF AdmGood
      <3>5. CASE b # adm.first /\ adm.closing = "nil"
        <4>1. adm' = ReloadServer(adm, b, gone)  BY <3>2, <3>5 DEF OnConfig
        <4> QED  BY <4>1, <3>1, <3>5, <1>g, <2>1, ReloadServerGood
      <3> QED  BY <3>3, <3>4, <3>5
    <2> QED  BY <1>8, <2>2, <2>3, DeliverForms
  <1> QED
    BY <1>2, <1>3, <1>4, <1>5, <1>6, <1>7, <1>8 DEF Next

-----------------------------------------------------------------------------
(* Lines move from stage to stage. *)

StagesAre(st, d, h, n) ==
    /\ st[0] = d.acked
    /\ st[1] = Lined(d.pending)
    /\ st[2] = Elems(d.next) /\ st[3] = Elems(d.spoolChan) /\ st[4] = Elems(d.spool)
    /\ st[5] = Elems(d.input) \ {FlushMark}
    /\ st[6] = IF h = "send" THEN {d.read} ELSE {}
    /\ st[7] = d.read + 1 .. n

LEMMA StageValues ==
  ASSUME NEW d, NEW h, NEW n
  PROVE  StagesAre(Stages(d, h, n), d, h, n)
  BY DEF Stages, StagesAre

LEMMA StagesSame ==
  ASSUME NEW st, NEW tt, NEW d, NEW e, NEW h, NEW g, NEW n,
         StagesAre(st, d, h, n), StagesAre(tt, e, g, n)
  PROVE  /\ e.acked = d.acked => tt[0] = st[0]
         /\ e.pending = d.pending => tt[1] = st[1]
         /\ e.next = d.next => tt[2] = st[2]
         /\ e.spoolChan = d.spoolChan => tt[3] = st[3]
         /\ e.spool = d.spool => tt[4] = st[4]
         /\ e.input = d.input => tt[5] = st[5]
         /\ e.read = d.read /\ (h = "send" <=> g = "send") => tt[6] = st[6]
         /\ e.read = d.read => tt[7] = st[7]
  BY DEF StagesAre

LEMMA StageTypes ==
  ASSUME NEW d \in DataType, NEW h, NEW n \in Nat, NEW st, st = Stages(d, h, n)
  PROVE  \A k \in 0 .. 7 : st[k] \subseteq Nat
  <1>1. /\ st[0] = d.acked
        /\ st[1] = Lined(d.pending)
        /\ st[2] = Elems(d.next) /\ st[3] = Elems(d.spoolChan) /\ st[4] = Elems(d.spool)
        /\ st[5] = Elems(d.input) \ {FlushMark}
        /\ st[6] = IF h = "send" THEN {d.read} ELSE {}
        /\ st[7] = d.read + 1 .. n
    <2>1. StagesAre(st, d, h, n)  BY StageValues
    <2> QED  BY <2>1 DEF StagesAre
  <1>2. /\ d.acked \subseteq Nat /\ d.next \in Seq(Nat \ {0}) /\ d.spoolChan \in Seq(Nat \ {0})
        /\ d.spool \in Seq(Nat \ {0}) /\ d.input \in Seq(Nat) /\ d.read \in Nat
        /\ d.pending \in Seq(LineSeq \ {<<>>})
    BY DEF DataType, LineSeq
  <1>3. st[0] \subseteq Nat /\ st[2] \subseteq Nat /\ st[3] \subseteq Nat /\ st[4] \subseteq Nat
        /\ st[5] \subseteq Nat
    <2>1. /\ Elems(d.next) \subseteq Nat \ {0} /\ Elems(d.spoolChan) \subseteq Nat \ {0}
          /\ Elems(d.spool) \subseteq Nat \ {0} /\ Elems(d.input) \subseteq Nat
      BY <1>2, ElemsType
    <2> QED  BY <2>1, <1>1, <1>2
  <1>4. st[6] \subseteq Nat /\ st[7] \subseteq Nat  BY <1>1, <1>2
  <1>5. ASSUME NEW i \in 1 .. Len(d.pending)  PROVE  Elems(d.pending[i]) \subseteq Nat
    <2>1. d.pending[i] \in LineSeq \ {<<>>}  BY <1>2
    <2> QED  BY <2>1, ElemsType DEF LineSeq
  <1>6. st[1] \subseteq Nat  BY <1>1, <1>5 DEF Lined
  <1> QED  BY <1>3, <1>4, <1>6

\* Every line of tt was where it is or behind, and overtakes none.
Moves(st, tt) ==
    \A k \in 0 .. 7 : \A x \in tt[k] :
        \E q \in k .. 7 : x \in st[q] /\ \A l \in k + 1 .. q : \A y \in tt[l] : x < y

LEMMA MovesInOrder ==
  ASSUME NEW st, NEW tt, InOrder(st), Moves(st, tt),
         \A k \in 0 .. 7 : st[k] \subseteq Nat /\ tt[k] \subseteq Nat
  PROVE  InOrder(tt)
  <1>1. SUFFICES ASSUME NEW j \in 0 .. 7, NEW k \in 0 .. 7, j < k, NEW x \in tt[j], NEW y \in tt[k]
                 PROVE  x < y
    BY DEF InOrder
  <1>2. PICK p \in j .. 7 : x \in st[p] /\ \A l \in j + 1 .. p : \A z \in tt[l] : x < z
    BY DEF Moves
  <1>3. PICK q \in k .. 7 : y \in st[q]
    BY DEF Moves
  <1>4. CASE k <= p
    <2>1. k \in j + 1 .. p  BY <1>1, <1>4
    <2> QED  BY <2>1, <1>2
  <1>5. CASE p < k
    <2>1. p \in 0 .. 7 /\ q \in 0 .. 7 /\ p < q  BY <1>5
    <2> QED  BY <2>1, <1>2, <1>3 DEF InOrder
  <1> QED  BY <1>4, <1>5

\* A step in which no line is read: lines move, and those of lost are gone.
Flow(lost) ==
    LET st == Stages(data, at["harvester"], Lines)
        tt == Stages(data', at'["harvester"], Lines)
    IN  /\ Moves(st, tt)
        /\ \A k \in 0 .. 6 : \A x \in tt[k] : \E q \in 0 .. 6 : x \in st[q]
        /\ \A k \in 0 .. 7 : \A x \in st[k] : x \in lost \/ \E q \in 0 .. 7 : x \in tt[q]

\* Lines leave some stages.
LEMMA FlowDrops ==
  ASSUME NEW lost, NEW st, NEW tt,
         st = Stages(data, at["harvester"], Lines),
         tt = Stages(data', at'["harvester"], Lines),
         \A k \in 0 .. 7 : tt[k] \subseteq st[k] /\ \A x \in st[k] : x \in tt[k] \/ x \in lost
  PROVE  Flow(lost)
  <1>1. Moves(st, tt)
    <2>1. SUFFICES ASSUME NEW k \in 0 .. 7, NEW x \in tt[k]
                   PROVE  \E q \in k .. 7 : x \in st[q] /\ \A l \in k + 1 .. q : \A y \in tt[l] : x < y
      BY DEF Moves
    <2>2. k \in k .. 7 /\ x \in st[k] /\ k + 1 .. k = {}  OBVIOUS
    <2> QED  BY <2>2
  <1>2. \A k \in 0 .. 6 : \A x \in tt[k] : \E q \in 0 .. 6 : x \in st[q]
    <2>1. 0 .. 6 \subseteq 0 .. 7  OBVIOUS
    <2> QED  BY <2>1
  <1> QED  BY <1>1, <1>2 DEF Flow

\* The lines X move from the stage b to the stage a, over stages that are empty.
LEMMA FlowMoves ==
  ASSUME NEW st, NEW tt, NEW X, NEW a \in 0 .. 6, NEW b \in 0 .. 6, a < b,
         st = Stages(data, at["harvester"], Lines),
         tt = Stages(data', at'["harvester"], Lines),
         X \subseteq st[b], tt[a] = st[a] \cup X,
         tt[b] \subseteq st[b], st[b] \subseteq tt[b] \cup X,
         \A x \in X, y \in tt[b] : x < y,
         \A k \in a + 1 .. b - 1 : tt[k] = {},
         \A k \in (0 .. 7) \ {a, b} : tt[k] = st[k]
  PROVE  Flow({})
  <1>1. Moves(st, tt)
    <2>1. SUFFICES ASSUME NEW k \in 0 .. 7, NEW x \in tt[k]
                   PROVE  \E q \in k .. 7 : x \in st[q] /\ \A l \in k + 1 .. q : \A y \in tt[l] : x < y
      BY DEF Moves
    <2>2. CASE x \in st[k]
      <3>1. k \in k .. 7 /\ k + 1 .. k = {}  OBVIOUS
      <3> QED  BY <2>2, <3>1
    <2>3. CASE x \notin st[k]
      <3>1. k = a /\ x \in X  BY <2>3
      <3>2. b \in k .. 7 /\ x \in st[b]  BY <3>1
      <3>3. ASSUME NEW l \in k + 1 .. b, NEW y \in tt[l]  PROVE  x < y
        <4>1. CASE l = b  BY <4>1, <3>1
        <4>2. CASE l # b
          <5>1. l \in a + 1 .. b - 1  BY <4>2, <3>1
          <5> QED  BY <5>1
        <4> QED  BY <4>1, <4>2
      <3> QED  BY <3>2, <3>3
    <2> QED  BY <2>2, <2>3
  <1>2. ASSUME NEW k \in 0 .. 6, NEW x \in tt[k]  PROVE  \E q \in 0 .. 6 : x \in st[q]
    <2>1. x \in st[k] \/ x \in st[b]
      <3>1. CASE k = a  BY <3>1
      <3>2. CASE k # a  BY <3>2
      <3> QED  BY <3>1, <3>2
    <2> QED  BY <2>1
  <1>3. ASSUME NEW k \in 0 .. 7, NEW x \in st[k]  PROVE  \E q \in 0 .. 7 : x \in tt[q]
    <2>0. a \in 0 .. 7  OBVIOUS
    <2>1. CASE k = a  BY <2>1
    <2>2. CASE k = b  BY <2>2, <2>0
    <2>3. CASE k # a /\ k # b  BY <2>3
    <2> QED  BY <2>1, <2>2, <2>3
  <1> QED  BY <1>1, <1>2, <1>3 DEF Flow

LEMMA DataTypes ==
  ASSUME TypeInv
  PROVE  /\ data.read \in Nat /\ data.input \in Seq(Nat) /\ data.spool \in Seq(Nat \ {0})
         /\ data.spoolChan \in Seq(Nat \ {0}) /\ data.next \in Seq(Nat \ {0})
         /\ data.spool \in Seq(Nat) /\ data.spoolChan \in Seq(Nat) /\ data.next \in Seq(Nat)
         /\ data.pending \in Seq(LineSeq \ {<<>>}) /\ Len(data.pending) \in Nat
         /\ \A i \in 1 .. Len(data.pending) : data.pending[i] \in LineSeq /\ data.pending[i] # <<>>
         /\ data.acked \subseteq Nat /\ data.ack \in Nat /\ data.registered \in Nat
         /\ data.registrarChan \in Seq(Nat) /\ data.dropped \subseteq Nat
         /\ data.told \in Nat \cup {-1} /\ data.wait \in Nat \cup {-1}
         /\ Lines \in Nat /\ data.stop \in BOOLEAN /\ data.closing \in BOOLEAN
  <1>1. data \in DataType /\ Lines \in Nat  BY CaseType DEF TypeInv, DataInv, Lines
  <1>2. /\ data.read \in Nat /\ data.input \in Seq(Nat) /\ data.spool \in Seq(Nat \ {0})
        /\ data.spoolChan \in Seq(Nat \ {0}) /\ data.next \in Seq(Nat \ {0})
        /\ data.pending \in Seq(LineSeq \ {<<>>})
        /\ data.acked \subseteq Nat /\ data.ack \in Nat /\ data.registered \in Nat
        /\ data.registrarChan \in Seq(Nat) /\ data.dropped \subseteq Nat
        /\ data.told \in Nat \cup {-1} /\ data.wait \in Nat \cup {-1}
        /\ data.stop \in BOOLEAN /\ data.closing \in BOOLEAN
    BY <1>1 DEF DataType, LineSeq
  <1>3. data.spool \in Seq(Nat) /\ data.spoolChan \in Seq(Nat) /\ data.next \in Seq(Nat)  BY <1>2
  <1> DEFINE P == LineSeq \ {<<>>}
  <1>4. \A i \in 1 .. Len(data.pending) : data.pending[i] \in P /\ Len(data.pending) \in Nat
    <2> HIDE DEF P
    <2> QED  BY <1>2 DEF P
  <1>5. Len(data.pending) \in Nat  BY <1>2, SeqEmpty
  <1> QED  BY <1>1, <1>2, <1>3, <1>4, <1>5

\* The lines stay where they are.
SameLines ==
    /\ data'.acked = data.acked /\ data'.pending = data.pending /\ data'.next = data.next
    /\ data'.spoolChan = data.spoolChan /\ data'.spool = data.spool /\ data'.input = data.input
    /\ data'.read = data.read
    /\ at["harvester"] = "send" <=> at'["harvester"] = "send"

LEMMA SameFlow ==
  ASSUME SeqsInv, SameLines
  PROVE  SeqsInv' /\ Flow({})
  <1> DEFINE st == Stages(data, at["harvester"], Lines)
             tt == Stages(data', at'["harvester"], Lines)
  <1>1. StagesAre(st, data, at["harvester"], Lines) /\ StagesAre(tt, data', at'["harvester"], Lines)
    BY StageValues
  <1> HIDE DEF st, tt
  <1>2. \A k \in 0 .. 7 : tt[k] = st[k]
    <2>1. /\ tt[0] = st[0] /\ tt[1] = st[1] /\ tt[2] = st[2] /\ tt[3] = st[3]
          /\ tt[4] = st[4] /\ tt[5] = st[5] /\ tt[6] = st[6] /\ tt[7] = st[7]
      BY <1>1, StagesSame DEF SameLines
    <2> QED  BY <2>1
  <1>3. Flow({})
    <2>1. st = Stages(data, at["harvester"], Lines) /\ tt = Stages(data', at'["harvester"], Lines)
      BY DEF st, tt
    <2> QED  BY <1>2, <2>1, FlowDrops
  <1> QED  BY <1>3 DEF SeqsInv, SameLines

LEMMA HarvesterSendsFlow ==
  ASSUME TypeInv, OrderInv, KeptInv, HarvesterSends
  PROVE  SeqsInv' /\ Flow({}) /\ data'.read = data.read /\ data'.dropped = data.dropped
         /\ data'.stop = data.stop
  <1> DEFINE st == Stages(data, at["harvester"], Lines)
             tt == Stages(data', at'["harvester"], Lines)
  <1>d. st = Stages(data, at["harvester"], Lines) /\ tt = Stages(data', at'["harvester"], Lines)
    OBVIOUS
  <1>1. StagesAre(st, data, at["harvester"], Lines) /\ StagesAre(tt, data', at'["harvester"], Lines)
    BY StageValues
  <1>2. InOrder(st)  BY DEF OrderInv
  <1>3. \A k \in 0 .. 6 : \A x \in st[k] : x \in 1 .. data.read  BY DEF KeptInv
  <1> HIDE DEF st, tt
  <1>4. /\ at["harvester"] = "send" /\ at'["harvester"] = "read"
        /\ data' = [data EXCEPT !.input = Append(data.input, data.read)]
    BY DEF HarvesterSends, Goto, TypeInv, Routines
  <1>t. data.read \in Nat /\ data.input \in Seq(Nat)  BY DataTypes
  <1>5. /\ data'.input = Append(data.input, data.read) /\ data'.acked = data.acked
        /\ data'.pending = data.pending /\ data'.next = data.next /\ data'.dropped = data.dropped
        /\ data'.spoolChan = data.spoolChan /\ data'.spool = data.spool /\ data'.read = data.read
        /\ data'.stop = data.stop
    BY <1>4 DEF TypeInv, DataInv, DataType
  <1>6. st[6] = {data.read} /\ tt[6] = {}  BY <1>1, <1>4, <1>5 DEF StagesAre
  <1>7. data.read # 0  BY <1>3, <1>6
  <1>8. Elems(data'.input) = Elems(data.input) \cup {data.read}  BY <1>5, <1>t, ElemsAppend
  <1>9. tt[5] = st[5] \cup {data.read}  BY <1>1, <1>7, <1>8 DEF StagesAre, FlushMark
  <1>10. \A k \in (0 .. 7) \ {5, 6} : tt[k] = st[k]
    <2>1. /\ tt[0] = st[0] /\ tt[1] = st[1] /\ tt[2] = st[2] /\ tt[3] = st[3]
          /\ tt[4] = st[4] /\ tt[7] = st[7]
      BY <1>1, <1>5, StagesSame
    <2> QED  BY <2>1
  <1>11. Flow({})
    <2>1. \A k \in 5 + 1 .. 6 - 1 : tt[k] = {}  OBVIOUS
    <2> DEFINE X == {data.read}
    <2>2. /\ X \subseteq st[6] /\ tt[5] = st[5] \cup X /\ tt[6] \subseteq st[6]
          /\ st[6] \subseteq tt[6] \cup X /\ \A x \in X, y \in tt[6] : x < y
      BY <1>6, <1>9
    <2> HIDE DEF X
    <2>3. 5 \in 0 .. 6 /\ 6 \in 0 .. 6 /\ 5 < 6  OBVIOUS
    <2> QED  BY <2>1, <2>2, <2>3, <1>10, <1>d, FlowMoves
  <1>12. Rising(data'.input)
    <2>1. ASSUME NEW y \in Elems(data.input), y # 0  PROVE  y < data.read
      <3>1. y \in st[5] /\ data.read \in st[6]  BY <2>1, <1>1, <1>6 DEF StagesAre, FlushMark
      <3> QED  BY <3>1, <1>2 DEF InOrder
    <2>2. Rising(data.input)  BY DEF OrderInv, SeqsInv
    <2> QED  BY <2>1, <2>2, <1>5, <1>t, RisingAppend
  <1> QED  BY <1>5, <1>11, <1>12 DEF OrderInv, SeqsInv

\* A payload is added behind the others.
LEMMA PayloadAdded ==
  ASSUME NEW p \in Seq(LineSeq \ {<<>>}), NEW q \in LineSeq \ {<<>>},
         PayloadsRise(p), Rising(q), \A x \in Lined(p), y \in Elems(q) : x < y
  PROVE  PayloadsRise(Append(p, q)) /\ Lined(Append(p, q)) = Lined(p) \cup Elems(q)
  <1> DEFINE t == Append(p, q)
             P == LineSeq \ {<<>>}
  <1>1. /\ Len(t) = Len(p) + 1 /\ Len(p) \in Nat
        /\ \A n \in 1 .. Len(p) : t[n] = p[n]
        /\ t[Len(p) + 1] = q
    <2> HIDE DEF P
    <2>1. p \in Seq(P) /\ q \in P  BY DEF P
    <2> QED  BY <2>1, SeqAppend
  <1> HIDE DEF t, P
  <1>2. ASSUME NEW i \in 1 .. Len(t)
        PROVE  (i \in 1 .. Len(p) /\ t[i] = p[i]) \/ (i = Len(p) + 1 /\ t[i] = q)
    <2>1. i \in 1 .. Len(p) \/ i = Len(p) + 1  BY <1>1
    <2> QED  BY <2>1, <1>1
  <1>3. \A i \in 1 .. Len(t) : Rising(t[i])
    BY <1>2 DEF PayloadsRise
  <1>4. ASSUME NEW i \in 1 .. Len(t), NEW j \in 1 .. Len(t), i < j,
               NEW x \in Elems(t[i]), NEW y \in Elems(t[j])
        PROVE  x < y
    <2>1. i \in 1 .. Len(p) /\ t[i] = p[i]
      <3>1. i # Len(p) + 1  BY <1>1, <1>4
      <3> QED  BY <3>1, <1>2
    <2>2. CASE j \in 1 .. Len(p) /\ t[j] = p[j]
      BY <2>1, <2>2, <1>4 DEF PayloadsRise
    <2>3. CASE t[j] = q
      <3>1. x \in Lined(p)  BY <2>1 DEF Lined
      <3> QED  BY <3>1, <2>3
    <2> QED  BY <2>2, <2>3, <1>2
  <1>5. Lined(t) \subseteq Lined(p) \cup Elems(q)
    <2>1. ASSUME NEW i \in 1 .. Len(t), NEW x \in Elems(t[i])  PROVE  x \in Lined(p) \cup Elems(q)
      BY <1>2 DEF Lined
    <2> QED  BY <2>1 DEF Lined
  <1>6. Lined(p) \cup Elems(q) \subseteq Lined(t)
    <2>1. ASSUME NEW i \in 1 .. Len(p), NEW x \in Elems(p[i])  PROVE  x \in Lined(t)
      <3>1. i \in 1 .. Len(t) /\ t[i] = p[i]  BY <1>1
      <3> QED  BY <3>1 DEF Lined
    <2>2. ASSUME NEW x \in Elems(q)  PROVE  x \in Lined(t)
      <3>1. Len(t) \in 1 .. Len(t) /\ t[Len(t)] = q  BY <1>1
      <3> QED  BY <3>1 DEF Lined
    <2> QED  BY <2>1, <2>2 DEF Lined
  <1> QED  BY <1>3, <1>4, <1>5, <1>6 DEF PayloadsRise, t

\* The first payload p[1] is taken off, or g is left of it.
LEMMA FirstDropped ==
  ASSUME NEW p, NEW t, Len(p) \in Nat \ {0}, Len(t) = Len(p) - 1,
         \A n \in 1 .. Len(p) - 1 : t[n] = p[n + 1], PayloadsRise(p),
         NEW h, Elems(p[1]) = {h},
         \A i \in 2 .. Len(p) : \A y \in Elems(p[i]) : h < y
  PROVE  /\ PayloadsRise(t) /\ Lined(p) \subseteq Lined(t) \cup {h} /\ Lined(t) \subseteq Lined(p)
         /\ \A y \in Lined(t) : h < y
  <1>1. \A n \in 1 .. Len(t) : t[n] = p[n + 1] /\ n + 1 \in 2 .. Len(p) /\ n + 1 \in 1 .. Len(p)
    OBVIOUS
  <1>2. ASSUME NEW i \in 1 .. Len(t)  PROVE  Rising(t[i])
    BY <1>1 DEF PayloadsRise
  <1>3. ASSUME NEW i \in 1 .. Len(t), NEW j \in 1 .. Len(t), i < j,
               NEW x \in Elems(t[i]), NEW y \in Elems(t[j])
        PROVE  x < y
    <2>1. i + 1 < j + 1  BY <1>3
    <2> QED  BY <2>1, <1>1 DEF PayloadsRise
  <1>4. ASSUME NEW y \in Lined(t)  PROVE  y \in Lined(p) /\ h < y
    <2>1. PICK n \in 1 .. Len(t) : y \in Elems(t[n])  BY DEF Lined
    <2> QED  BY <2>1, <1>1 DEF Lined
  <1>5. ASSUME NEW y \in Lined(p)  PROVE  y \in Lined(t) \cup {h}
    <2>1. PICK n \in 1 .. Len(p) : y \in Elems(p[n])  BY DEF Lined
    <2>2. CASE n = 1  BY <2>1, <2>2
    <2>3. CASE n # 1
      <3>1. n - 1 \in 1 .. Len(t) /\ n - 1 \in 1 .. Len(p) - 1 /\ (n - 1) + 1 = n  BY <2>3
      <3>2. t[n - 1] = p[n]  BY <3>1
      <3> QED  BY <3>1, <3>2, <2>1 DEF Lined
    <2> QED  BY <2>2, <2>3
  <1> QED  BY <1>2, <1>3, <1>4, <1>5 DEF PayloadsRise

Shortened(p, t, h) ==
    /\ Len(p) \in Nat \ {0} /\ PayloadsRise(p)
    /\ Len(t) = Len(p) /\ \A n \in 2 .. Len(p) : t[n] = p[n]
    /\ Elems(p[1]) = {h} \cup Elems(t[1]) /\ Rising(t[1]) /\ \A y \in Elems(t[1]) : h < y
    /\ \A i \in 2 .. Len(p) : \A y \in Elems(p[i]) : h < y

LEMMA FirstShortened ==
  ASSUME NEW p, NEW t, NEW h, Shortened(p, t, h)
  PROVE  /\ PayloadsRise(t) /\ Lined(p) \subseteq Lined(t) \cup {h} /\ Lined(t) \subseteq Lined(p)
         /\ \A y \in Lined(t) : h < y
  <1> USE DEF Shortened
  <1>1. \A i \in 1 .. Len(p) : i = 1 \/ i \in 2 .. Len(p)  OBVIOUS
  <1>2. ASSUME NEW i \in 1 .. Len(t)
        PROVE  Elems(t[i]) \subseteq Elems(p[i]) /\ Rising(t[i]) /\ \A y \in Elems(t[i]) : h < y
    <2>1. CASE i = 1  BY <2>1
    <2>2. CASE i \in 2 .. Len(p)  BY <2>2 DEF PayloadsRise
    <2> QED  BY <2>1, <2>2, <1>1
  <1>3. ASSUME NEW i \in 1 .. Len(t), NEW j \in 1 .. Len(t), i < j,
               NEW x \in Elems(t[i]), NEW y \in Elems(t[j])
        PROVE  x < y
    <2>1. x \in Elems(p[i]) /\ y \in Elems(p[j])  BY <1>2
    <2> QED  BY <2>1, <1>3 DEF PayloadsRise
  <1>4. ASSUME NEW y \in Lined(t)  PROVE  y \in Lined(p) /\ h < y
    <2>1. PICK n \in 1 .. Len(t) : y \in Elems(t[n])  BY DEF Lined
    <2> QED  BY <2>1, <1>2 DEF Lined
  <1>5. ASSUME NEW y \in Lined(p)  PROVE  y \in Lined(t) \cup {h}
    <2>1. PICK n \in 1 .. Len(p) : y \in Elems(p[n])  BY DEF Lined
    <2>2. CASE n = 1  BY <2>1, <2>2 DEF Lined
    <2>3. CASE n \in 2 .. Len(p)  BY <2>1, <2>3 DEF Lined
    <2> QED  BY <2>2, <2>3, <1>1
  <1> QED  BY <1>2, <1>3, <1>4, <1>5 DEF PayloadsRise

\* The first line of the first payload is taken: h of p, and t is left.
FirstOf(p, t, h) ==
    /\ h = Head(Head(p))
    /\ t = IF Tail(Head(p)) = <<>> THEN Tail(p) ELSE <<Tail(Head(p))>> \o Tail(p)

LEMMA FirstTaken ==
  ASSUME NEW p \in Seq(LineSeq \ {<<>>}), p # <<>>, PayloadsRise(p),
         NEW h, NEW t, FirstOf(p, t, h)
  PROVE  /\ PayloadsRise(t) /\ Lined(p) \subseteq Lined(t) \cup {h} /\ Lined(t) \subseteq Lined(p)
         /\ h \in Lined(p) /\ h \in Nat \ {0} /\ \A y \in Lined(t) : h < y
  <1> DEFINE P == LineSeq \ {<<>>}
             f == Head(p)
             g == Tail(f)
  <1>1. /\ f = p[1] /\ f \in P /\ Len(p) \in Nat \ {0} /\ Tail(p) \in Seq(P)
        /\ Len(Tail(p)) = Len(p) - 1 /\ \A n \in 1 .. Len(p) - 1 : Tail(p)[n] = p[n + 1]
    <2> HIDE DEF P
    <2>1. p \in Seq(P)  BY DEF P
    <2> QED  BY <2>1, SeqTail
  <1> HIDE DEF f
  <1>2. f \in Seq(Nat \ {0}) /\ f \in Seq(Nat) /\ f # <<>> /\ Rising(f) /\ h = Head(f)
    <2>1. f \in LineSeq /\ f # <<>> /\ 1 \in 1 .. Len(p)  BY <1>1
    <2> QED  BY <2>1, <1>1 DEF LineSeq, PayloadsRise, f, FirstOf
  <1>3. /\ Elems(f) = {h} \cup Elems(g) /\ h \in Elems(f) /\ g \in LineSeq
    BY <1>2, ElemsTail, SeqTail DEF LineSeq
  <1>4. Rising(g) /\ \A y \in Elems(g) : h < y
    <2>1. h # 0 /\ \A y \in Elems(g) : y # 0
      <3>1. Elems(f) \subseteq Nat \ {0}  BY <1>2, ElemsType
      <3> QED  BY <3>1, <1>3
    <2> QED  BY <2>1, <1>2, RisingTail
  <1>5. h \in Lined(p) /\ h \in Nat \ {0}
    <2>1. 1 \in 1 .. Len(p) /\ p[1] = f  BY <1>1
    <2>2. Elems(f) \subseteq Nat \ {0}  BY <1>2, ElemsType
    <2> QED  BY <2>1, <2>2, <1>3 DEF Lined
  <1>6. \A i \in 2 .. Len(p) : \A y \in Elems(p[i]) : h < y
    <2>1. SUFFICES ASSUME NEW i \in 2 .. Len(p), NEW y \in Elems(p[i])  PROVE  h < y
      OBVIOUS
    <2>2. 1 \in 1 .. Len(p) /\ i \in 1 .. Len(p) /\ 1 < i  BY <1>1
    <2> QED  BY <2>2, <1>1, <1>3 DEF PayloadsRise
  <1> HIDE DEF g, P
  <1>7. CASE g = <<>>
    <2>1. t = Tail(p)  BY <1>7 DEF g, f, FirstOf
    <2>2. Elems(p[1]) = {h}  BY <1>1, <1>3, <1>7, ElemsEmpty
    <2>3. Len(t) = Len(p) - 1 /\ \A n \in 1 .. Len(p) - 1 : t[n] = p[n + 1]  BY <2>1, <1>1
    <2>4. Len(p) \in Nat \ {0} /\ PayloadsRise(p)  BY <1>1
    <2>5. /\ PayloadsRise(t) /\ Lined(p) \subseteq Lined(t) \cup {h} /\ Lined(t) \subseteq Lined(p)
          /\ \A y \in Lined(t) : h < y
      BY ONLY <2>2, <2>3, <2>4, <1>6, FirstDropped
    <2> QED  BY ONLY <2>5, <1>5
  <1>8. CASE g # <<>>
    <2>1. t = <<g>> \o Tail(p)  BY <1>8 DEF g, f, FirstOf
    <2>2. g \in P  BY <1>3, <1>8 DEF P
    <2>3. /\ Len(t) = Len(p) /\ t[1] = g /\ \A n \in 2 .. Len(p) : t[n] = p[n]
      <3>1. p \in Seq(P)  BY DEF P
      <3> QED  BY <3>1, <2>1, <2>2, SeqFirst
    <2>4. Elems(p[1]) = {h} \cup Elems(t[1]) /\ Rising(t[1]) /\ \A y \in Elems(t[1]) : h < y
      BY <2>3, <1>1, <1>3, <1>4
    <2>5. /\ Len(p) \in Nat \ {0} /\ PayloadsRise(p)
          /\ Len(t) = Len(p) /\ \A n \in 2 .. Len(p) : t[n] = p[n]
      BY <1>1, <2>3
    <2>6. /\ PayloadsRise(t) /\ Lined(p) \subseteq Lined(t) \cup {h} /\ Lined(t) \subseteq Lined(p)
          /\ \A y \in Lined(t) : h < y
      <3>1. Shortened(p, t, h)  BY ONLY <2>4, <2>5, <1>6 DEF Shortened
      <3> QED  BY ONLY <3>1, FirstShortened
    <2> QED  BY ONLY <2>6, <1>5
  <1> QED  BY <1>7, <1>8

LEMMA SpoolerTakesFlow ==
  ASSUME TypeInv, OrderInv, SpoolerTakes
  PROVE  /\ SeqsInv' /\ Flow({})
         /\ data'.read = data.read /\ data'.dropped = data.dropped /\ data'.stop = data.stop
  <1> DEFINE st == Stages(data, at["harvester"], Lines)
             tt == Stages(data', at'["harvester"], Lines)
  <1>d. st = Stages(data, at["harvester"], Lines) /\ tt = Stages(data', at'["harvester"], Lines)
    OBVIOUS
  <1>1. StagesAre(st, data, at["harvester"], Lines) /\ StagesAre(tt, data', at'["harvester"], Lines)
    BY StageValues
  <1>2. InOrder(st)  BY DEF OrderInv
  <1> HIDE DEF st, tt
  <1>t. TypeInv /\ SeqsInv  BY DEF OrderInv
  <1> DEFINE x == Head(data.input)
             spool == IF x = FlushMark THEN data.spool ELSE Append(data.spool, x)
  <1>3. /\ data.input # <<>> /\ at'["harvester"] = at["harvester"]
        /\ data' = [data EXCEPT !.input = Tail(data.input), !.spool = spool]
    BY DEF SpoolerTakes, Goto, TypeInv, Routines
  <1>x. x = FlushMark => spool = data.spool  OBVIOUS
  <1>y. x # FlushMark => spool = Append(data.spool, x)  OBVIOUS
  <1> HIDE DEF spool
  <1>4. /\ data'.input = Tail(data.input) /\ data'.spool = spool
        /\ data'.acked = data.acked /\ data'.pending = data.pending /\ data'.next = data.next
        /\ data'.spoolChan = data.spoolChan /\ data'.read = data.read /\ data'.dropped = data.dropped
        /\ data'.stop = data.stop
    BY <1>3 DEF TypeInv, DataInv, DataType
  <1>s. data.input \in Seq(Nat) /\ data.spool \in Seq(Nat) /\ data.spool \in Seq(Nat \ {0})
    BY DataTypes
  <1>5. /\ Elems(data.input) = {x} \cup Elems(data'.input) /\ x \in Nat /\ Rising(data'.input)
        /\ x # 0 => \A y \in Elems(data'.input) : y # 0 => x < y
    <2>1. Elems(data.input) = {x} \cup Elems(Tail(data.input)) /\ x \in Nat
      BY <1>s, <1>3, ElemsTail, SeqTail
    <2>2. Rising(data.input)  BY <1>t DEF SeqsInv
    <2> QED  BY <2>1, <2>2, <1>s, <1>3, <1>4, RisingTail
  <1> HIDE DEF x
  <1>6. \A k \in (0 .. 7) \ {4, 5} : tt[k] = st[k]
    <2>1. /\ tt[0] = st[0] /\ tt[1] = st[1] /\ tt[2] = st[2] /\ tt[3] = st[3]
          /\ tt[6] = st[6] /\ tt[7] = st[7]
      <3>1. at'["harvester"] = at["harvester"]  BY <1>3
      <3> QED  BY <3>1, <1>1, <1>4, StagesSame
    <2> QED  BY <2>1
  <1>7. CASE x = FlushMark
    <2>1. tt[4] = st[4]  BY <1>1, <1>4, <1>7, <1>x, StagesSame
    <2>2. tt[5] = st[5]  BY <1>1, <1>5, <1>7 DEF StagesAre
    <2>3. \A k \in 0 .. 7 : tt[k] = st[k]  BY <2>1, <2>2, <1>6
    <2>4. Flow({})  BY <2>3, <1>d, FlowDrops
    <2> QED  BY <2>4, <1>4, <1>5, <1>7, <1>x, <1>t DEF SeqsInv
  <1>8. CASE x # FlushMark
    <2>1. x \in Nat \ {0} /\ x # 0  BY <1>5, <1>8 DEF FlushMark
    <2>2. Elems(data'.spool) = Elems(data.spool) \cup {x}
      <3>1. data'.spool = Append(data.spool, x)  BY <1>4, <1>8, <1>y
      <3>2. Elems(Append(data.spool, x)) = Elems(data.spool) \cup {x}  BY <2>1, <1>s, ElemsAppend
      <3> QED  BY <3>1, <3>2
    <2>3. /\ tt[4] = st[4] \cup {x} /\ x \in st[5] /\ tt[5] \subseteq st[5]
          /\ st[5] \subseteq tt[5] \cup {x} /\ \A y \in tt[5] : x < y
      BY <2>1, <2>2, <1>1, <1>5 DEF StagesAre, FlushMark
    <2>4. Flow({})
      <3> DEFINE X == {x}
      <3>1. \A k \in 4 + 1 .. 5 - 1 : tt[k] = {}  OBVIOUS
      <3>2. /\ X \subseteq st[5] /\ tt[4] = st[4] \cup X /\ tt[5] \subseteq st[5]
            /\ st[5] \subseteq tt[5] \cup X /\ \A y \in X, z \in tt[5] : y < z
        BY <2>3
      <3> HIDE DEF X
      <3>3. 4 \in 0 .. 6 /\ 5 \in 0 .. 6 /\ 4 < 5  OBVIOUS
      <3> QED  BY <3>1, <3>2, <3>3, <1>6, <1>d, FlowMoves
    <2>5. Rising(data'.spool)
      <3>1. \A y \in Elems(data.spool) : y < x
        <4>1. \A y \in st[4] : y < x  BY <2>3, <1>2 DEF InOrder
        <4> QED  BY <4>1, <1>1 DEF StagesAre
      <3>2. Rising(data.spool)  BY <1>t DEF SeqsInv
      <3> QED  BY <3>1, <3>2, <2>1, <1>s, <1>4, <1>8, <1>y, RisingAppend
    <2> QED  BY <2>4, <2>5, <1>4, <1>5, <1>t DEF SeqsInv
  <1> QED  BY <1>7, <1>8

LEMMA SpoolerSendsFlow ==
  ASSUME TypeInv, OrderInv, SpoolerSends
  PROVE  /\ SeqsInv' /\ Flow({})
         /\ data'.read = data.read /\ data'.dropped = data.dropped /\ data'.stop = data.stop
  <1> DEFINE st == Stages(data, at["harvester"], Lines)
             tt == Stages(data', at'["harvester"], Lines)
  <1>d. st = Stages(data, at["harvester"], Lines) /\ tt = Stages(data', at'["harvester"], Lines)
    OBVIOUS
  <1>1. StagesAre(st, data, at["harvester"], Lines) /\ StagesAre(tt, data', at'["harvester"], Lines)
    BY StageValues
  <1>2. InOrder(st)  BY DEF OrderInv
  <1> HIDE DEF st, tt
  <1>t. TypeInv /\ SeqsInv  BY DEF OrderInv
  <1>3. /\ data.spoolChan = <<>> /\ at'["harvester"] = at["harvester"]
        /\ data' = [data EXCEPT !.spoolChan = data.spool, !.spool = <<>>]
    BY DEF SpoolerSends, Goto, TypeInv, Routines
  <1>4. /\ data'.spoolChan = data.spool /\ data'.spool = <<>>
        /\ data'.acked = data.acked /\ data'.pending = data.pending /\ data'.next = data.next
        /\ data'.input = data.input /\ data'.read = data.read /\ data'.dropped = data.dropped
        /\ data'.stop = data.stop
    BY <1>3 DEF TypeInv, DataInv, DataType
  <1>5. st[3] = {} /\ tt[4] = {} /\ tt[3] = st[4]
    BY <1>1, <1>3, <1>4, ElemsEmpty DEF StagesAre
  <1>6. \A k \in (0 .. 7) \ {3, 4} : tt[k] = st[k]
    <2>1. /\ tt[0] = st[0] /\ tt[1] = st[1] /\ tt[2] = st[2] /\ tt[5] = st[5]
          /\ tt[6] = st[6] /\ tt[7] = st[7]
      <3>1. at'["harvester"] = at["harvester"]  BY <1>3
      <3> QED  BY <3>1, <1>1, <1>4, StagesSame
    <2> QED  BY <2>1
  <1>7. Flow({})
    <2> DEFINE X == st[4]
    <2>1. \A k \in 3 + 1 .. 4 - 1 : tt[k] = {}  BY <1>5
    <2>2. /\ X \subseteq st[4] /\ tt[3] = st[3] \cup X /\ tt[4] \subseteq st[4]
          /\ st[4] \subseteq tt[4] \cup X /\ \A x \in X, y \in tt[4] : x < y
      BY <1>5
    <2> HIDE DEF X
    <2>3. 3 \in 0 .. 6 /\ 4 \in 0 .. 6 /\ 3 < 4  OBVIOUS
    <2> QED  BY <2>1, <2>2, <2>3, <1>6, <1>d, FlowMoves
  <1> QED  BY <1>4, <1>7, <1>t, RisingEmpty DEF SeqsInv

LEMMA SpoolerStopsFlow ==
  ASSUME TypeInv, OrderInv, SpoolerStops
  PROVE  /\ SeqsInv' /\ Flow(Elems(data.spool))
         /\ data'.read = data.read /\ data'.dropped = data.dropped /\ data'.stop = data.stop
  <1> DEFINE st == Stages(data, at["harvester"], Lines)
             tt == Stages(data', at'["harvester"], Lines)
  <1>d. st = Stages(data, at["harvester"], Lines) /\ tt = Stages(data', at'["harvester"], Lines)
    OBVIOUS
  <1>1. StagesAre(st, data, at["harvester"], Lines) /\ StagesAre(tt, data', at'["harvester"], Lines)
    BY StageValues
  <1>2. InOrder(st)  BY DEF OrderInv
  <1> HIDE DEF st, tt
  <1>t. TypeInv /\ SeqsInv  BY DEF OrderInv
  <1>3. /\ at'["harvester"] = at["harvester"]
        /\ data' = [data EXCEPT !.spool = <<>>]
    BY DEF SpoolerStops, Goto, TypeInv, Routines
  <1>4. /\ data'.spool = <<>>
        /\ data'.acked = data.acked /\ data'.pending = data.pending /\ data'.next = data.next
        /\ data'.spoolChan = data.spoolChan /\ data'.input = data.input /\ data'.read = data.read
        /\ data'.dropped = data.dropped /\ data'.stop = data.stop
    BY <1>3 DEF TypeInv, DataInv, DataType
  <1>5. tt[4] = {} /\ st[4] = Elems(data.spool)
    BY <1>1, <1>4, ElemsEmpty DEF StagesAre
  <1>6. \A k \in (0 .. 7) \ {4} : tt[k] = st[k]
    <2>1. /\ tt[0] = st[0] /\ tt[1] = st[1] /\ tt[2] = st[2] /\ tt[3] = st[3]
          /\ tt[5] = st[5] /\ tt[6] = st[6] /\ tt[7] = st[7]
      <3>1. at'["harvester"] = at["harvester"]  BY <1>3
      <3> QED  BY <3>1, <1>1, <1>4, StagesSame
    <2> QED  BY <2>1
  <1>7. Flow(Elems(data.spool))  BY <1>5, <1>6, <1>d, FlowDrops
  <1> QED  BY <1>4, <1>7, <1>t, RisingEmpty DEF SeqsInv

LEMMA SpoolDroppedFlow ==
  ASSUME TypeInv, OrderInv, SpoolDropped
  PROVE  /\ SeqsInv' /\ Flow(Elems(data.spool))
         /\ data'.read = data.read /\ data'.stop = data.stop
         /\ data'.dropped = data.dropped \cup Elems(data.spool) /\ data'.spool = <<>>
  <1> DEFINE st == Stages(data, at["harvester"], Lines)
             tt == Stages(data', at'["harvester"], Lines)
  <1>d. st = Stages(data, at["harvester"], Lines) /\ tt = Stages(data', at'["harvester"], Lines)
    OBVIOUS
  <1>1. StagesAre(st, data, at["harvester"], Lines) /\ StagesAre(tt, data', at'["harvester"], Lines)
    BY StageValues
  <1>2. InOrder(st)  BY DEF OrderInv
  <1> HIDE DEF st, tt
  <1>t. TypeInv /\ SeqsInv  BY DEF OrderInv
  <1>3. /\ at'["harvester"] = at["harvester"]
        /\ data' = [data EXCEPT !.spool = <<>>, !.dropped = data.dropped \cup Elems(data.spool)]
    BY DEF SpoolDropped, TypeInv, Routines
  <1>4. /\ data'.spool = <<>> /\ data'.dropped = data.dropped \cup Elems(data.spool)
        /\ data'.acked = data.acked /\ data'.pending = data.pending /\ data'.next = data.next
        /\ data'.spoolChan = data.spoolChan /\ data'.input = data.input /\ data'.read = data.read
        /\ data'.stop = data.stop
    BY <1>3 DEF TypeInv, DataInv, DataType
  <1>5. tt[4] = {} /\ st[4] = Elems(data.spool)
    BY <1>1, <1>4, ElemsEmpty DEF StagesAre
  <1>6. \A k \in (0 .. 7) \ {4} : tt[k] = st[k]
    <2>1. /\ tt[0] = st[0] /\ tt[1] = st[1] /\ tt[2] = st[2] /\ tt[3] = st[3]
          /\ tt[5] = st[5] /\ tt[6] = st[6] /\ tt[7] = st[7]
      <3>1. at'["harvester"] = at["harvester"]  BY <1>3
      <3> QED  BY <3>1, <1>1, <1>4, StagesSame
    <2> QED  BY <2>1
  <1>7. Flow(Elems(data.spool))  BY <1>5, <1>6, <1>d, FlowDrops
  <1> QED  BY <1>4, <1>7, <1>t, RisingEmpty DEF SeqsInv

LEMMA HarvesterEndsFlow ==
  ASSUME TypeInv, OrderInv, HarvesterGivesUp \/ HarvesterEnds
  PROVE  /\ SeqsInv' /\ Flow(IF at["harvester"] = "send" THEN {data.read} ELSE {})
         /\ data'.read = data.read /\ data'.dropped = data.dropped /\ data'.stop = data.stop
  <1> DEFINE st == Stages(data, at["harvester"], Lines)
             tt == Stages(data', at'["harvester"], Lines)
  <1>d. st = Stages(data, at["harvester"], Lines) /\ tt = Stages(data', at'["harvester"], Lines)
    OBVIOUS
  <1>1. StagesAre(st, data, at["harvester"], Lines) /\ StagesAre(tt, data', at'["harvester"], Lines)
    BY StageValues
  <1>2. InOrder(st)  BY DEF OrderInv
  <1> HIDE DEF st, tt
  <1>t. TypeInv /\ SeqsInv  BY DEF OrderInv
  <1>3. at'["harvester"] # "send" /\ data' = data
    BY DEF HarvesterGivesUp, HarvesterEnds, Goto, TypeInv, Routines
  <1> DEFINE lost == IF at["harvester"] = "send" THEN {data.read} ELSE {}
  <1>5. tt[6] = {} /\ st[6] = lost
    BY <1>1, <1>3 DEF StagesAre
  <1>6. \A k \in (0 .. 7) \ {6} : tt[k] = st[k]
    <2>1. /\ tt[0] = st[0] /\ tt[1] = st[1] /\ tt[2] = st[2] /\ tt[3] = st[3]
          /\ tt[4] = st[4] /\ tt[5] = st[5] /\ tt[7] = st[7]
      BY <1>1, <1>3, StagesSame
    <2> QED  BY <2>1
  <1> HIDE DEF lost
  <1>7. Flow(lost)  BY <1>5, <1>6, <1>d, FlowDrops
  <1>8. SeqsInv'  BY <1>3, <1>t DEF SeqsInv
  <1> QED  BY <1>3, <1>7, <1>8 DEF lost

LEMMA FlushFlow ==
  ASSUME TypeInv, OrderInv, Flush
  PROVE  /\ SeqsInv' /\ Flow({})
         /\ data'.read = data.read /\ data'.dropped = data.dropped /\ data'.stop = data.stop
  <1> DEFINE st == Stages(data, at["harvester"], Lines)
             tt == Stages(data', at'["harvester"], Lines)
  <1>d. st = Stages(data, at["harvester"], Lines) /\ tt = Stages(data', at'["harvester"], Lines)
    OBVIOUS
  <1>1. StagesAre(st, data, at["harvester"], Lines) /\ StagesAre(tt, data', at'["harvester"], Lines)
    BY StageValues
  <1>2. InOrder(st)  BY DEF OrderInv
  <1> HIDE DEF st, tt
  <1>t. TypeInv /\ SeqsInv  BY DEF OrderInv
  <1>3. /\ at'["harvester"] = at["harvester"]
        /\ data' = [data EXCEPT !.input = Append(data.input, FlushMark), !.told = data.read]
    BY DEF Flush, Goto, TypeInv, Routines
  <1>4. /\ data'.input = Append(data.input, FlushMark)
        /\ data'.acked = data.acked /\ data'.pending = data.pending /\ data'.next = data.next
        /\ data'.spoolChan = data.spoolChan /\ data'.spool = data.spool /\ data'.read = data.read
        /\ data'.dropped = data.dropped /\ data'.stop = data.stop
    BY <1>3 DEF TypeInv, DataInv, DataType
  <1>s. data.input \in Seq(Nat) /\ FlushMark \in Nat  BY DataTypes DEF FlushMark
  <1>5. Elems(data'.input) = Elems(data.input) \cup {FlushMark}  BY <1>s, <1>4, ElemsAppend
  <1>6. \A k \in (0 .. 7) \ {5} : tt[k] = st[k]
    <2>1. /\ tt[0] = st[0] /\ tt[1] = st[1] /\ tt[2] = st[2] /\ tt[3] = st[3]
          /\ tt[4] = st[4] /\ tt[6] = st[6] /\ tt[7] = st[7]
      <3>1. at'["harvester"] = at["harvester"]  BY <1>3
      <3> QED  BY <3>1, <1>1, <1>4, StagesSame
    <2> QED  BY <2>1
  <1>7. tt[5] = st[5]  BY <1>1, <1>5 DEF StagesAre
  <1>8. \A k \in 0 .. 7 : tt[k] = st[k]  BY <1>6, <1>7
  <1>9. Flow({})  BY <1>8, <1>d, FlowDrops
  <1>10. Rising(data'.input)
    <2>1. Rising(data.input)  BY <1>t DEF SeqsInv
    <2> QED  BY <2>1, <1>s, <1>4, RisingAppend DEF FlushMark
  <1> QED  BY <1>4, <1>9, <1>10, <1>t DEF SeqsInv

LEMMA PublisherTakesFlow ==
  ASSUME TypeInv, OrderInv, PublisherTakes
  PROVE  /\ SeqsInv' /\ Flow({})
         /\ data'.read = data.read /\ data'.dropped = data.dropped /\ data'.stop = data.stop
  <1> DEFINE st == Stages(data, at["harvester"], Lines)
             tt == Stages(data', at'["harvester"], Lines)
  <1>d. st = Stages(data, at["harvester"], Lines) /\ tt = Stages(data', at'["harvester"], Lines)
    OBVIOUS
  <1>1. StagesAre(st, data, at["harvester"], Lines) /\ StagesAre(tt, data', at'["harvester"], Lines)
    BY StageValues
  <1>2. InOrder(st)  BY DEF OrderInv
  <1> HIDE DEF st, tt
  <1>t. TypeInv /\ SeqsInv  BY DEF OrderInv
  <1>3. /\ data.spoolChan # <<>> /\ data.next = <<>> /\ at'["harvester"] = at["harvester"]
        /\ \/ data' = [data EXCEPT !.spoolChan = <<>>, !.pending = Append(data.pending, data.spoolChan)]
           \/ data' = [data EXCEPT !.spoolChan = <<>>, !.next = data.spoolChan]
    BY DEF PublisherTakes
  <1>s. /\ data.pending \in Seq(LineSeq \ {<<>>}) /\ data.spoolChan \in LineSeq \ {<<>>}
    BY <1>3, DataTypes DEF LineSeq
  <1>5. st[2] = {} /\ st[3] = Elems(data.spoolChan) /\ st[1] = Lined(data.pending)
    BY <1>1, <1>3, ElemsEmpty DEF StagesAre
  <1>7. CASE data' = [data EXCEPT !.spoolChan = <<>>, !.pending = Append(data.pending, data.spoolChan)]
    <2>4. /\ data'.spoolChan = <<>> /\ data'.pending = Append(data.pending, data.spoolChan)
          /\ data'.acked = data.acked /\ data'.next = data.next /\ data'.spool = data.spool
          /\ data'.input = data.input /\ data'.read = data.read /\ data'.dropped = data.dropped
          /\ data'.stop = data.stop
      BY <1>7 DEF TypeInv, DataInv, DataType
    <2>6. \A k \in (0 .. 7) \ {1, 3} : tt[k] = st[k]
      <3>1. /\ tt[0] = st[0] /\ tt[2] = st[2] /\ tt[4] = st[4] /\ tt[5] = st[5]
            /\ tt[6] = st[6] /\ tt[7] = st[7]
        <4>1. at'["harvester"] = at["harvester"]  BY <1>3
        <4> QED  BY <4>1, <1>1, <2>4, StagesSame
      <3> QED  BY <3>1
    <2>7. PayloadsRise(data'.pending) /\ Lined(data'.pending) = Lined(data.pending) \cup Elems(data.spoolChan)
      <3>1. \A x \in st[1], y \in st[3] : x < y  BY <1>2 DEF InOrder
      <3>2. \A x \in Lined(data.pending), y \in Elems(data.spoolChan) : x < y  BY <3>1, <1>5
      <3>3. PayloadsRise(data.pending) /\ Rising(data.spoolChan)  BY <1>t DEF SeqsInv
      <3> DEFINE p == Append(data.pending, data.spoolChan)
      <3>4. PayloadsRise(p) /\ Lined(p) = Lined(data.pending) \cup Elems(data.spoolChan)
        BY <3>2, <3>3, <1>s, PayloadAdded
      <3> HIDE DEF p
      <3>5. data'.pending = p  BY <2>4 DEF p
      <3> QED  BY <3>4, <3>5
    <2>8. tt[1] = st[1] \cup st[3] /\ tt[3] = {} /\ tt[2] = {}
      <3>1. tt[2] = st[2]  BY <2>6
      <3> QED  BY <3>1, <1>1, <1>5, <2>4, <2>7, ElemsEmpty DEF StagesAre
    <2>9. Flow({})
      <3> DEFINE X == st[3]
      <3>1. \A k \in 1 + 1 .. 3 - 1 : tt[k] = {}  BY <2>8
      <3>2. /\ X \subseteq st[3] /\ tt[1] = st[1] \cup X /\ tt[3] \subseteq st[3]
            /\ st[3] \subseteq tt[3] \cup X /\ \A x \in X, y \in tt[3] : x < y
        BY <2>8
      <3> HIDE DEF X
      <3>3. 1 \in 0 .. 6 /\ 3 \in 0 .. 6 /\ 1 < 3  OBVIOUS
      <3> QED  BY <3>1, <3>2, <3>3, <2>6, <1>d, FlowMoves
    <2> QED  BY <2>4, <2>7, <2>9, <1>t, RisingEmpty DEF SeqsInv
  <1>8. CASE data' = [data EXCEPT !.spoolChan = <<>>, !.next = data.spoolChan]
    <2>4. /\ data'.spoolChan = <<>> /\ data'.next = data.spoolChan
          /\ data'.acked = data.acked /\ data'.pending = data.pending /\ data'.spool = data.spool
          /\ data'.input = data.input /\ data'.read = data.read /\ data'.dropped = data.dropped
          /\ data'.stop = data.stop
      BY <1>8 DEF TypeInv, DataInv, DataType
    <2>6. \A k \in (0 .. 7) \ {2, 3} : tt[k] = st[k]
      <3>1. /\ tt[0] = st[0] /\ tt[1] = st[1] /\ tt[4] = st[4] /\ tt[5] = st[5]
            /\ tt[6] = st[6] /\ tt[7] = st[7]
        <4>1. at'["harvester"] = at["harvester"]  BY <1>3
        <4> QED  BY <4>1, <1>1, <2>4, StagesSame
      <3> QED  BY <3>1
    <2>8. tt[2] = st[3] /\ tt[3] = {}
      BY <1>1, <1>5, <2>4, ElemsEmpty DEF StagesAre
    <2>9. Flow({})
      <3> DEFINE X == st[3]
      <3>1. \A k \in 2 + 1 .. 3 - 1 : tt[k] = {}  BY <2>8, <1>5
      <3>2. /\ X \subseteq st[3] /\ tt[2] = st[2] \cup X /\ tt[3] \subseteq st[3]
            /\ st[3] \subseteq tt[3] \cup X /\ \A x \in X, y \in tt[3] : x < y
        BY <2>8, <1>5
      <3> HIDE DEF X
      <3>3. 2 \in 0 .. 6 /\ 3 \in 0 .. 6 /\ 2 < 3  OBVIOUS
      <3> QED  BY <3>1, <3>2, <3>3, <2>6, <1>d, FlowMoves
    <2> QED  BY <2>4, <2>9, <1>t, RisingEmpty DEF SeqsInv
  <1> QED  BY <1>3, <1>7, <1>8

LEMMA AcknowledgedFlow ==
  ASSUME TypeInv, OrderInv, Acknowledged
  PROVE  /\ SeqsInv' /\ Flow({})
         /\ data'.read = data.read /\ data'.dropped = data.dropped /\ data'.stop = data.stop
         /\ \E h \in Nat \ {0} : /\ data'.acked = data.acked \cup {h} /\ data'.ack = h
                              /\ \A n \in data.acked : n < h
  <1> DEFINE st == Stages(data, at["harvester"], Lines)
             tt == Stages(data', at'["harvester"], Lines)
  <1>d. st = Stages(data, at["harvester"], Lines) /\ tt = Stages(data', at'["harvester"], Lines)
    OBVIOUS
  <1>1. StagesAre(st, data, at["harvester"], Lines) /\ StagesAre(tt, data', at'["harvester"], Lines)
    BY StageValues
  <1>2. InOrder(st)  BY DEF OrderInv
  <1> HIDE DEF st, tt
  <1>t. TypeInv /\ SeqsInv  BY DEF OrderInv
  <1> DEFINE h == Head(Head(data.pending))
             p == IF Tail(Head(data.pending)) = <<>> THEN Tail(data.pending)
                  ELSE <<Tail(Head(data.pending))>> \o Tail(data.pending)
  <1>3. /\ data.pending # <<>> /\ at'["harvester"] = at["harvester"]
        /\ data' = [data EXCEPT !.acked = data.acked \cup {h}, !.ack = h, !.pending = p]
    BY DEF Acknowledged, Goto, TypeInv, Routines
  <1>5. /\ PayloadsRise(p) /\ Lined(data.pending) \subseteq Lined(p) \cup {h} /\ Lined(p) \subseteq Lined(data.pending)
        /\ h \in Lined(data.pending) /\ h \in Nat \ {0} /\ \A y \in Lined(p) : h < y
    <2>1. data.pending \in Seq(LineSeq \ {<<>>})  BY DataTypes
    <2>2. PayloadsRise(data.pending)  BY <1>t DEF SeqsInv
    <2>3. FirstOf(data.pending, p, h)  BY DEF FirstOf
    <2>4. data.pending # <<>>  BY <1>3
    <2> HIDE DEF h, p
    <2> QED  BY ONLY <2>1, <2>2, <2>3, <2>4, FirstTaken
  <1> HIDE DEF h, p
  <1>4. /\ data'.acked = data.acked \cup {h} /\ data'.ack = h /\ data'.pending = p
        /\ data'.next = data.next /\ data'.spoolChan = data.spoolChan /\ data'.spool = data.spool
        /\ data'.input = data.input /\ data'.read = data.read /\ data'.dropped = data.dropped
        /\ data'.stop = data.stop
    BY <1>3 DEF TypeInv, DataInv, DataType
  <1>6. \A k \in (0 .. 7) \ {0, 1} : tt[k] = st[k]
    <2>1. /\ tt[2] = st[2] /\ tt[3] = st[3] /\ tt[4] = st[4] /\ tt[5] = st[5]
          /\ tt[6] = st[6] /\ tt[7] = st[7]
      <3>1. at'["harvester"] = at["harvester"]  BY <1>3
      <3> QED  BY <3>1, <1>1, <1>4, StagesSame
    <2> QED  BY <2>1
  <1>7. /\ tt[0] = st[0] \cup {h} /\ h \in st[1] /\ tt[1] \subseteq st[1]
        /\ st[1] \subseteq tt[1] \cup {h} /\ \A y \in tt[1] : h < y
    <2>1. st[0] = data.acked /\ tt[0] = data'.acked /\ st[1] = Lined(data.pending) /\ tt[1] = Lined(p)
      BY <1>1, <1>4 DEF StagesAre
    <2> QED  BY <2>1, <1>4, <1>5
  <1>8. Flow({})
    <2> DEFINE X == {h}
    <2>1. \A k \in 0 + 1 .. 1 - 1 : tt[k] = {}  BY <1>7
    <2>2. /\ X \subseteq st[1] /\ tt[0] = st[0] \cup X /\ tt[1] \subseteq st[1]
          /\ st[1] \subseteq tt[1] \cup X /\ \A x \in X, y \in tt[1] : x < y
      BY <1>7
    <2> HIDE DEF X
    <2>3. 0 \in 0 .. 6 /\ 1 \in 0 .. 6 /\ 0 < 1  OBVIOUS
    <2> QED  BY <2>1, <2>2, <2>3, <1>6, <1>d, FlowMoves
  <1>9. \A n \in data.acked : n < h
    <2>1. \A n \in st[0] : n < h  BY <1>2, <1>7 DEF InOrder
    <2> QED  BY <2>1, <1>1 DEF StagesAre
  <1>10. SeqsInv'  BY <1>4, <1>5, <1>t DEF SeqsInv
  <1> QED  BY <1>4, <1>5, <1>8, <1>9, <1>10

LEMMA PublisherRegistersFlow ==
  ASSUME TypeInv, OrderInv, PublisherRegisters
  PROVE  /\ SeqsInv' /\ Flow({})
         /\ data'.read = data.read /\ data'.dropped = data.dropped /\ data'.stop = data.stop
         /\ data'.acked = data.acked /\ data'.ack = 0 /\ data'.registered = data.registered
         /\ data'.registrarChan = Append(data.registrarChan, data.ack)
         /\ data'.told = data.told /\ data'.wait = data.wait /\ data'.closing = data.closing
  <1> DEFINE st == Stages(data, at["harvester"], Lines)
             tt == Stages(data', at'["harvester"], Lines)
  <1>d. st = Stages(data, at["harvester"], Lines) /\ tt = Stages(data', at'["harvester"], Lines)
    OBVIOUS
  <1>1. StagesAre(st, data, at["harvester"], Lines) /\ StagesAre(tt, data', at'["harvester"], Lines)
    BY StageValues
  <1>2. InOrder(st)  BY DEF OrderInv
  <1> HIDE DEF st, tt
  <1>t. TypeInv /\ SeqsInv  BY DEF OrderInv
  <1> DEFINE d == [data EXCEPT !.registrarChan = Append(data.registrarChan, data.ack), !.ack = 0]
  <1>3. /\ at'["harvester"] = at["harvester"]
        /\ data' = IF data.next = <<>> \/ Len(data.pending) >= MaxPending THEN d
                   ELSE [d EXCEPT !.pending = Append(d.pending, data.next), !.next = <<>>]
    BY DEF PublisherRegisters, Goto, TypeInv, Routines
  <1> DEFINE Kept(e) == /\ e.spoolChan = data.spoolChan /\ e.spool = data.spool /\ e.input = data.input
                        /\ e.read = data.read /\ e.dropped = data.dropped /\ e.stop = data.stop
                        /\ e.acked = data.acked /\ e.ack = 0 /\ e.registered = data.registered
                        /\ e.registrarChan = Append(data.registrarChan, data.ack)
                        /\ e.told = data.told /\ e.wait = data.wait /\ e.closing = data.closing
  <1>4. Kept(d) /\ d.pending = data.pending /\ d.next = data.next /\ DOMAIN d = DOMAIN data
    BY DEF TypeInv, DataInv, DataType
  <1>a. DOMAIN data = {"read", "stop", "input", "spool", "dropped", "spoolChan", "next", "pending", "acked",
                       "ack", "closing", "revived", "registrarChan", "registered", "told", "wait"}
    BY DEF TypeInv, DataInv, DataType
  <1> HIDE DEF d
  <1>7. CASE data.next = <<>> \/ Len(data.pending) >= MaxPending
    <2>1. data' = d  BY <1>3, <1>7
    <2>2. SameLines  BY <2>1, <1>3, <1>4 DEF SameLines
    <2> QED  BY <2>1, <2>2, <1>4, <1>t, SameFlow
  <1>8. CASE ~(data.next = <<>> \/ Len(data.pending) >= MaxPending)
    <2> DEFINE p == Append(data.pending, data.next)
    <2>1. data' = [d EXCEPT !.pending = p, !.next = <<>>]  BY <1>3, <1>4, <1>8
    <2> HIDE DEF p
    <2>4. Kept(data') /\ data'.pending = p /\ data'.next = <<>>  BY <2>1, <1>4, <1>a
    <2>6. \A k \in (0 .. 7) \ {1, 2} : tt[k] = st[k]
      <3>1. /\ tt[0] = st[0] /\ tt[3] = st[3] /\ tt[4] = st[4] /\ tt[5] = st[5]
            /\ tt[6] = st[6] /\ tt[7] = st[7]
        <4>1. at'["harvester"] = at["harvester"]  BY <1>3
        <4> QED  BY <4>1, <1>1, <2>4, StagesSame
      <3> QED  BY <3>1
    <2>5. st[2] = Elems(data.next) /\ st[1] = Lined(data.pending)  BY <1>1 DEF StagesAre
    <2>7. PayloadsRise(p) /\ Lined(p) = Lined(data.pending) \cup Elems(data.next)
      <3>1. \A x \in st[1], y \in st[2] : x < y  BY <1>2 DEF InOrder
      <3>2. \A x \in Lined(data.pending), y \in Elems(data.next) : x < y  BY <3>1, <2>5
      <3>3. PayloadsRise(data.pending) /\ Rising(data.next)  BY <1>t DEF SeqsInv
      <3>4. data.pending \in Seq(LineSeq \ {<<>>}) /\ data.next \in LineSeq \ {<<>>}
        BY <1>8, DataTypes DEF LineSeq
      <3> QED  BY <3>2, <3>3, <3>4, PayloadAdded DEF p
    <2>8. tt[1] = st[1] \cup st[2] /\ tt[2] = {}
      BY <1>1, <2>4, <2>5, <2>7, ElemsEmpty DEF StagesAre
    <2>9. Flow({})
      <3> DEFINE X == st[2]
      <3>1. \A k \in 1 + 1 .. 2 - 1 : tt[k] = {}  BY <2>8
      <3>2. /\ X \subseteq st[2] /\ tt[1] = st[1] \cup X /\ tt[2] \subseteq st[2]
            /\ st[2] \subseteq tt[2] \cup X /\ \A x \in X, y \in tt[2] : x < y
        BY <2>8
      <3> HIDE DEF X
      <3>3. 1 \in 0 .. 6 /\ 2 \in 0 .. 6 /\ 1 < 2  OBVIOUS
      <3> QED  BY <3>1, <3>2, <3>3, <2>6, <1>d, FlowMoves
    <2>10. SeqsInv'  BY <2>4, <2>7, <1>t, RisingEmpty DEF SeqsInv
    <2> QED  BY <2>4, <2>9, <2>10
  <1> QED  BY <1>7, <1>8

LEMMA PublisherStopsFlow ==
  ASSUME TypeInv, OrderInv, PublisherStops
  PROVE  /\ SeqsInv' /\ Flow(Elems(data.next))
         /\ data'.read = data.read /\ data'.dropped = data.dropped /\ data'.stop = data.stop
  <1> DEFINE st == Stages(data, at["harvester"], Lines)
             tt == Stages(data', at'["harvester"], Lines)
  <1>d. st = Stages(data, at["harvester"], Lines) /\ tt = Stages(data', at'["harvester"], Lines)
    OBVIOUS
  <1>1. StagesAre(st, data, at["harvester"], Lines) /\ StagesAre(tt, data', at'["harvester"], Lines)
    BY StageValues
  <1>2. InOrder(st)  BY DEF OrderInv
  <1> HIDE DEF st, tt
  <1>t. TypeInv /\ SeqsInv  BY DEF OrderInv
  <1>3. /\ at'["harvester"] = at["harvester"]
        /\ data' = [data EXCEPT !.closing = TRUE, !.next = <<>>]
    BY DEF PublisherStops, Goto, TypeInv, Routines
  <1>4. /\ data'.next = <<>>
        /\ data'.acked = data.acked /\ data'.pending = data.pending /\ data'.spoolChan = data.spoolChan
        /\ data'.spool = data.spool /\ data'.input = data.input /\ data'.read = data.read
        /\ data'.dropped = data.dropped /\ data'.stop = data.stop
    BY <1>3 DEF TypeInv, DataInv, DataType
  <1>5. tt[2] = {} /\ st[2] = Elems(data.next)
    BY <1>1, <1>4, ElemsEmpty DEF StagesAre
  <1>6. \A k \in (0 .. 7) \ {2} : tt[k] = st[k]
    <2>1. /\ tt[0] = st[0] /\ tt[1] = st[1] /\ tt[3] = st[3] /\ tt[4] = st[4]
          /\ tt[5] = st[5] /\ tt[6] = st[6] /\ tt[7] = st[7]
      <3>1. at'["harvester"] = at["harvester"]  BY <1>3
      <3> QED  BY <3>1, <1>1, <1>4, StagesSame
    <2> QED  BY <2>1
  <1> DEFINE lost == Elems(data.next)
  <1>7. \A k \in 0 .. 7 : tt[k] \subseteq st[k] /\ \A x \in st[k] : x \in tt[k] \/ x \in lost
    BY <1>5, <1>6
  <1> HIDE DEF lost
  <1>8. Flow(lost)  BY <1>7, <1>d, FlowDrops
  <1>9. SeqsInv'  BY <1>4, <1>t, RisingEmpty DEF SeqsInv
  <1> QED  BY <1>4, <1>8, <1>9 DEF lost

LEMMA PublisherAbandonsFlow ==
  ASSUME TypeInv, OrderInv, PublisherAbandons
  PROVE  /\ SeqsInv' /\ Flow(Lined(data.pending))
         /\ data'.read = data.read /\ data'.dropped = data.dropped /\ data'.stop = data.stop
  <1> DEFINE st == Stages(data, at["harvester"], Lines)
             tt == Stages(data', at'["harvester"], Lines)
  <1>d. st = Stages(data, at["harvester"], Lines) /\ tt = Stages(data', at'["harvester"], Lines)
    OBVIOUS
  <1>1. StagesAre(st, data, at["harvester"], Lines) /\ StagesAre(tt, data', at'["harvester"], Lines)
    BY StageValues
  <1>2. InOrder(st)  BY DEF OrderInv
  <1> HIDE DEF st, tt
  <1>t. TypeInv /\ SeqsInv  BY DEF OrderInv
  <1>3. /\ at'["harvester"] = at["harvester"]
        /\ data' = [data EXCEPT !.pending = <<>>]
    BY DEF PublisherAbandons, Goto, TypeInv, Routines
  <1>4. /\ data'.pending = <<>>
        /\ data'.acked = data.acked /\ data'.next = data.next /\ data'.spoolChan = data.spoolChan
        /\ data'.spool = data.spool /\ data'.input = data.input /\ data'.read = data.read
        /\ data'.dropped = data.dropped /\ data'.stop = data.stop
    BY <1>3 DEF TypeInv, DataInv, DataType
  <1>5. tt[1] = {} /\ st[1] = Lined(data.pending)
    BY <1>1, <1>4, ElemsEmpty DEF StagesAre, Lined
  <1>6. \A k \in (0 .. 7) \ {1} : tt[k] = st[k]
    <2>1. /\ tt[0] = st[0] /\ tt[2] = st[2] /\ tt[3] = st[3] /\ tt[4] = st[4]
          /\ tt[5] = st[5] /\ tt[6] = st[6] /\ tt[7] = st[7]
      <3>1. at'["harvester"] = at["harvester"]  BY <1>3
      <3> QED  BY <3>1, <1>1, <1>4, StagesSame
    <2> QED  BY <2>1
  <1> DEFINE lost == Lined(data.pending)
  <1>7. \A k \in 0 .. 7 : tt[k] \subseteq st[k] /\ \A x \in st[k] : x \in tt[k] \/ x \in lost
    BY <1>5, <1>6
  <1> HIDE DEF lost
  <1>8. Flow(lost)  BY <1>7, <1>d, FlowDrops
  <1>9. SeqsInv'  BY <1>4, <1>t, RisingEmpty DEF SeqsInv, PayloadsRise
  <1> QED  BY <1>4, <1>8, <1>9 DEF lost

-----------------------------------------------------------------------------
(* Order, and what becomes of the lines. *)

\* A step in which lines move, and those of lost are gone.
LEMMA FlowKeeps ==
  ASSUME TypeInv, TypeInv', OrderInv, KeptInv, UNCHANGED run, NEW lost,
         SeqsInv', Flow(lost), data'.read = data.read, data.stop => data'.stop,
         data.dropped \subseteq data'.dropped, data'.dropped \subseteq 1 .. data.read,
         NEW tt, tt = Stages(data', at'["harvester"], Lines),
         \A k \in 0 .. 6 : \A x \in tt[k] : x \notin data'.dropped \ data.dropped,
         Stdin /\ ~data'.stop => \A k \in 0 .. 7 : \A x \in Stages(data, at["harvester"], Lines)[k] :
                                    x \in lost => x \in data'.dropped
  PROVE  OrderInv' /\ KeptInv'
  <1> DEFINE st == Stages(data, at["harvester"], Lines)
  <1>1. /\ InOrder(st) /\ data.read <= Lines
        /\ \A k \in 0 .. 6 : \A x \in st[k] :
              x \in 1 .. data.read /\ x \notin run.filtered /\ x \notin data.dropped
        /\ Stdin /\ ~data.stop => \A n \in 1 .. Lines : \/ n \in run.filtered \cup data.dropped
                                                        \/ \E k \in 0 .. 7 : n \in st[k]
    BY DEF OrderInv, KeptInv
  <1>2. /\ Moves(st, tt)
        /\ \A k \in 0 .. 6 : \A x \in tt[k] : \E q \in 0 .. 6 : x \in st[q]
        /\ \A k \in 0 .. 7 : \A x \in st[k] : x \in lost \/ \E q \in 0 .. 7 : x \in tt[q]
    BY DEF Flow
  <1>3. \A k \in 0 .. 7 : st[k] \subseteq Nat /\ tt[k] \subseteq Nat
    <2>1. data \in DataType /\ data' \in DataType /\ Lines \in Nat
      BY DataTypes DEF TypeInv, DataInv
    <2> QED  BY <2>1, StageTypes
  <1>l. Lines' = Lines /\ Stdin' = Stdin /\ run' = run  BY ReceiversKept
  <1>4. tt = Stages(data', at'["harvester"], Lines')  BY <1>l
  <1>s. Stdin /\ ~data'.stop => \A k \in 0 .. 7 : \A x \in st[k] : x \in lost => x \in data'.dropped
    OBVIOUS
  <1> HIDE DEF st
  <1>5. InOrder(tt)  BY <1>1, <1>2, <1>3, MovesInOrder
  <1>6. OrderInv'  BY <1>1, <1>4, <1>5, <1>l DEF OrderInv
  <1>7. ASSUME NEW k \in 0 .. 6, NEW x \in tt[k]
        PROVE  x \in 1 .. data'.read /\ x \notin run.filtered /\ x \notin data'.dropped
    <2>1. PICK q \in 0 .. 6 : x \in st[q]  BY <1>2
    <2> QED  BY <2>1, <1>1
  <1>8. ASSUME Stdin, ~data'.stop, NEW n \in 1 .. Lines
        PROVE  n \in run.filtered \cup data'.dropped \/ \E k \in 0 .. 7 : n \in tt[k]
    <2>1. CASE n \in run.filtered \cup data.dropped  BY <2>1
    <2>2. CASE n \notin run.filtered \cup data.dropped
      <3>1. PICK k \in 0 .. 7 : n \in st[k]  BY <2>2, <1>1, <1>8
      <3>2. n \in lost \/ \E q \in 0 .. 7 : n \in tt[q]  BY <3>1, <1>2
      <3> QED  BY <3>1, <3>2, <1>s, <1>8
    <2> QED  BY <2>1, <2>2
  <1>9. KeptInv'
    <2>1. data'.dropped \subseteq 1 .. data'.read  OBVIOUS
    <2> QED  BY <2>1, <1>4, <1>7, <1>8, <1>l DEF KeptInv
  <1> QED  BY <1>6, <1>9

\* The same when nothing is dropped and nothing lost.
LEMMA FlowAll ==
  ASSUME TypeInv, TypeInv', OrderInv, KeptInv, UNCHANGED run, NEW lost,
         SeqsInv', Flow(lost), data'.read = data.read, data.stop => data'.stop,
         data'.dropped = data.dropped,
         Stdin /\ ~data'.stop => \A k \in 0 .. 7 : \A x \in Stages(data, at["harvester"], Lines)[k] :
                                    x \notin lost
  PROVE  OrderInv' /\ KeptInv'
  <1> DEFINE tt == Stages(data', at'["harvester"], Lines)
             st == Stages(data, at["harvester"], Lines)
  <1>1. /\ data.dropped \subseteq data'.dropped
        /\ data'.dropped \subseteq 1 .. data.read
    BY DEF KeptInv
  <1>2. tt = Stages(data', at'["harvester"], Lines)  OBVIOUS
  <1> HIDE DEF tt
  <1>3. \A k \in 0 .. 6 : \A x \in tt[k] : x \notin data'.dropped \ data.dropped  OBVIOUS
  <1>4. Stdin /\ ~data'.stop => \A k \in 0 .. 7 : \A x \in st[k] : x \in lost => x \in data'.dropped
    OBVIOUS
  <1> QED  BY <1>1, <1>2, <1>3, <1>4, FlowKeeps

\* Nothing is left once the registrar of the standard input has ended.
LEMMA NothingLeft ==
  ASSUME TypeInv, OrderInv, AckInv, EndInv, KeptInv, Stdin, ~data.stop,
         at["registrar"] = "done" \/ signals.down,
         NEW k \in 1 .. 6
  PROVE  Stages(data, at["harvester"], Lines)[k] = {}
  <1> DEFINE st == Stages(data, at["harvester"], Lines)
  <1>1. SUFFICES ASSUME NEW x \in st[k]  PROVE  FALSE
    OBVIOUS
  <1>2. data.read = Lines /\ data.registered >= Lines  BY DEF EndInv
  <1>3. data.registered \in data.acked \cup {0}  BY DEF AckInv
  <1>4. x \in 1 .. Lines  BY <1>2 DEF KeptInv
  <1>5. InOrder(st)  BY DEF OrderInv
  <1>6. st[0] = data.acked
    <2>1. StagesAre(st, data, at["harvester"], Lines)  BY StageValues
    <2> HIDE DEF st
    <2> QED  BY <2>1 DEF StagesAre
  <1>t. Lines \in Nat /\ data.registered \in Nat  BY DataTypes
  <1> HIDE DEF st
  <1>7. CASE data.registered = 0
    <2>1. Lines = 0  BY <1>2, <1>7, <1>t
    <2> QED  BY <2>1, <1>4
  <1>8. CASE data.registered # 0
    <2>1. data.registered \in st[0]  BY <1>3, <1>6, <1>8
    <2>2. data.registered < x  BY <2>1, <1>5 DEF InOrder
    <2> QED  BY <2>2, <1>2, <1>4, <1>t
  <1> QED  BY <1>7, <1>8

LEMMA ReadsOrder ==
  ASSUME TypeInv, TypeInv', OrderInv, KeptInv, HarvesterReads, UNCHANGED run
  PROVE  OrderInv' /\ KeptInv'
  <1> DEFINE st == Stages(data, at["harvester"], Lines)
             tt == Stages(data', at'["harvester"], Lines)
  <1>1. StagesAre(st, data, at["harvester"], Lines) /\ StagesAre(tt, data', at'["harvester"], Lines)
    BY StageValues
  <1>2. /\ InOrder(st) /\ data.read <= Lines /\ SeqsInv
        /\ data.dropped \subseteq 1 .. data.read
        /\ \A k \in 0 .. 6 : \A x \in st[k] :
              x \in 1 .. data.read /\ x \notin run.filtered /\ x \notin data.dropped
        /\ Stdin /\ ~data.stop => \A n \in 1 .. Lines : \/ n \in run.filtered \cup data.dropped
                                                        \/ \E k \in 0 .. 7 : n \in st[k]
    BY DEF OrderInv, KeptInv
  <1>s. data.read \in Nat /\ Lines \in Nat  BY DataTypes
  <1>3. \A k \in 0 .. 7 : st[k] \subseteq Nat /\ tt[k] \subseteq Nat
    <2>1. data \in DataType /\ data' \in DataType /\ Lines \in Nat
      BY DataTypes DEF TypeInv, DataInv
    <2> QED  BY <2>1, StageTypes
  <1>l. Lines' = Lines /\ Stdin' = Stdin /\ run' = run  BY ReceiversKept
  <1>d. tt = Stages(data', at'["harvester"], Lines')  BY <1>l
  <1> HIDE DEF st, tt
  <1>4. /\ data'.read = data.read + 1 /\ data'.acked = data.acked /\ data'.pending = data.pending
        /\ data'.next = data.next /\ data'.spoolChan = data.spoolChan /\ data'.spool = data.spool
        /\ data'.input = data.input /\ data'.dropped = data.dropped /\ data'.stop = data.stop
    BY DEF HarvesterReads, TypeInv, DataInv, DataType
  <1>5. /\ at["harvester"] = "read" /\ data.read < Lines
        /\ at'["harvester"] = IF data.read + 1 \in run.filtered THEN "read" ELSE "send"
    BY DEF HarvesterReads, Goto, TypeInv, Routines
  <1> DEFINE n1 == data.read + 1
  <1>6. /\ st[6] = {} /\ tt[6] = (IF n1 \in run.filtered THEN {} ELSE {n1})
        /\ st[7] = n1 .. Lines /\ tt[7] = n1 + 1 .. Lines
    BY <1>1, <1>4, <1>5 DEF StagesAre
  <1>7. \A k \in 0 .. 5 : tt[k] = st[k]
    <2>1. /\ tt[0] = st[0] /\ tt[1] = st[1] /\ tt[2] = st[2] /\ tt[3] = st[3]
          /\ tt[4] = st[4] /\ tt[5] = st[5]
      BY <1>1, <1>4, StagesSame
    <2> QED  BY <2>1
  <1>n. n1 \in 1 .. Lines /\ n1 \in Nat /\ data.read < n1  BY <1>5, <1>s
  <1>r. data'.read = n1  BY <1>4
  <1> HIDE DEF n1
  <1>8. Moves(st, tt)
    <2>1. SUFFICES ASSUME NEW k \in 0 .. 7, NEW x \in tt[k]
                   PROVE  \E q \in k .. 7 : x \in st[q] /\ \A l \in k + 1 .. q : \A y \in tt[l] : x < y
      BY DEF Moves
    <2>2. CASE k \in 0 .. 5 \/ k = 7
      <3>1. k \in k .. 7 /\ k + 1 .. k = {}  OBVIOUS
      <3>2. x \in st[k]
        <4>1. CASE k = 7  BY <4>1, <1>6, <1>n
        <4>2. CASE k \in 0 .. 5  BY <4>2, <1>7
        <4> QED  BY <4>1, <4>2, <2>2
      <3> QED  BY <3>1, <3>2
    <2>3. CASE k = 6
      <3>1. x = n1  BY <2>3, <1>6
      <3>2. 7 \in k .. 7 /\ x \in st[7] /\ k + 1 .. 7 = {7}  BY <3>1, <2>3, <1>6, <1>n
      <3>3. \A y \in tt[7] : x < y  BY <3>1, <1>6, <1>n
      <3> QED  BY <3>2, <3>3
    <2> QED  BY <2>2, <2>3
  <1>9. InOrder(tt)  BY <1>2, <1>3, <1>8, MovesInOrder
  <1>10. SeqsInv'  BY <1>2, <1>4 DEF SeqsInv
  <1>11. OrderInv'
    <2>1. data'.read <= Lines  BY <1>r, <1>n, <1>s
    <2> QED  BY <2>1, <1>9, <1>10, <1>d, <1>l DEF OrderInv
  <1>12. ASSUME NEW k \in 0 .. 6, NEW x \in tt[k]
         PROVE  x \in 1 .. data'.read /\ x \notin run.filtered /\ x \notin data'.dropped
    <2>1. CASE k \in 0 .. 5
      <3>1. x \in st[k]  BY <2>1, <1>7
      <3>2. x \in 1 .. data.read /\ x \notin run.filtered /\ x \notin data.dropped  BY <3>1, <1>2
      <3> QED  BY <3>2, <1>4, <1>s
    <2>2. CASE k = 6
      <3>1. x = n1 /\ n1 \notin run.filtered  BY <2>2, <1>6
      <3>2. n1 \notin data.dropped  BY <1>2, <1>n, <1>s
      <3> QED  BY <3>1, <3>2, <1>4, <1>r, <1>n
    <2> QED  BY <2>1, <2>2
  <1>13. ASSUME Stdin, ~data'.stop, NEW n \in 1 .. Lines
         PROVE  n \in run.filtered \cup data'.dropped \/ \E k \in 0 .. 7 : n \in tt[k]
    <2>1. CASE n \in run.filtered \cup data.dropped  BY <2>1, <1>4
    <2>2. CASE n \notin run.filtered \cup data.dropped
      <3>1. PICK k \in 0 .. 7 : n \in st[k]  BY <2>2, <1>2, <1>4, <1>13
      <3>2. CASE k \in 0 .. 5
        <4>1. n \in tt[k] BY <3>1, <3>2, <1>7
        <4> QED  BY <4>1
      <3>3. CASE k = 6  BY <3>1, <3>3, <1>6
      <3>4. CASE k = 7 /\ n = n1
        <4>1. n \in tt[6]  BY <3>4, <2>2, <1>6
        <4> QED  BY <4>1
      <3>5. CASE k = 7 /\ n # n1
        <4>1. n \in tt[7]  BY <3>1, <3>5, <1>6, <1>n, <1>s
        <4> QED  BY <4>1
      <3> QED  BY <3>2, <3>3, <3>4, <3>5
    <2> QED  BY <2>1, <2>2
  <1>14. KeptInv'
    <2>1. data'.dropped \subseteq 1 .. data'.read  BY <1>2, <1>4, <1>s
    <2> QED  BY <2>1, <1>12, <1>13, <1>d, <1>l DEF KeptInv
  <1> QED  BY <1>11, <1>14

LEMMA SameKeeps ==
  ASSUME TypeInv, TypeInv', OrderInv, KeptInv, UNCHANGED run, SameLines,
         data'.dropped = data.dropped, data.stop => data'.stop
  PROVE  OrderInv' /\ KeptInv'
  <1>1. SeqsInv' /\ Flow({})  BY SameFlow DEF OrderInv
  <1>2. data'.read = data.read  BY DEF SameLines
  <1> QED  BY <1>1, <1>2, FlowAll

LEMMA OrderStep ==
  ASSUME TypeInv, OrderInv, AckInv, EndInv, KeptInv, [Next]_vars
  PROVE  OrderInv' /\ KeptInv'
  <1>r. TypeInv' /\ UNCHANGED run  BY TypeStep
  <1>v. StagesAre(Stages(data, at["harvester"], Lines), data, at["harvester"], Lines)  BY StageValues
  <1>1. ASSUME UNCHANGED data, at'["harvester"] = at["harvester"]  PROVE  OrderInv' /\ KeptInv'
    <2>1. SameLines  BY <1>1 DEF SameLines
    <2> QED  BY <1>1, <2>1, <1>r, SameKeeps
  <1>2. CASE UNCHANGED vars  BY <1>2, <1>1 DEF vars
  <1>3. CASE HarvesterReads  BY <1>3, <1>r, ReadsOrder
  <1>4. CASE HarvesterSends
    <2>1. SeqsInv' /\ Flow({}) /\ data'.read = data.read /\ data'.dropped = data.dropped /\ data'.stop = data.stop
      BY <1>4, HarvesterSendsFlow
    <2> QED  BY <2>1, <1>r, FlowAll
  <1>5. CASE HarvesterGivesUp \/ HarvesterEnds
    <2> DEFINE lost == IF at["harvester"] = "send" THEN {data.read} ELSE {}
    <2>1. SeqsInv' /\ Flow(lost) /\ data'.read = data.read /\ data'.dropped = data.dropped /\ data'.stop = data.stop
      BY <1>5, HarvesterEndsFlow
    <2>2. ~data'.stop => lost = {}  BY <1>5, <2>1 DEF HarvesterGivesUp, HarvesterEnds
    <2> HIDE DEF lost
    <2> QED  BY <2>1, <2>2, <1>r, FlowAll
  <1>6. CASE SpoolerTakes
    <2>1. SeqsInv' /\ Flow({}) /\ data'.read = data.read /\ data'.dropped = data.dropped /\ data'.stop = data.stop
      BY <1>6, SpoolerTakesFlow
    <2> QED  BY <2>1, <1>r, FlowAll
  <1>7. CASE SpoolerTimer \/ PublisherDone \/ RegistrarStops \/ ProspectorWakes \/ ProspectorDone
             \/ HarvesterStopped \/ HarvesterFinished \/ Waited \/ Join \/ Hangup \/ Terminate
             \/ TakeHangup \/ ApiReload
    <2>1. UNCHANGED data
      BY <1>7 DEF SpoolerTimer, PublisherDone, RegistrarStops, ProspectorWakes, ProspectorDone,
         HarvesterStopped, HarvesterFinished, Waited, Join, Hangup, Terminate, TakeHangup, ApiReload
    <2>2. at'["harvester"] = at["harvester"]
      BY <1>7 DEF SpoolerTimer, PublisherDone, RegistrarStops, ProspectorWakes, ProspectorDone,
         HarvesterStopped, HarvesterFinished, Waited, Join, Hangup, Terminate, TakeHangup, ApiReload,
         Goto, TypeInv, Routines
    <2> QED  BY <2>1, <2>2, <1>1
  <1>8. CASE SpoolerSends
    <2>1. SeqsInv' /\ Flow({}) /\ data'.read = data.read /\ data'.dropped = data.dropped /\ data'.stop = data.stop
      BY <1>8, SpoolerSendsFlow
    <2> QED  BY <2>1, <1>r, FlowAll
  <1>9. CASE SpoolerStops
    <2> DEFINE lost == Elems(data.spool)
    <2>1. SeqsInv' /\ Flow(lost) /\ data'.read = data.read /\ data'.dropped = data.dropped /\ data'.stop = data.stop
      BY <1>9, SpoolerStopsFlow
    <2>2. Stdin /\ ~data'.stop => lost = {}
      <3>1. signals.down  BY <1>9 DEF SpoolerStops
      <3>2. 4 \in 1 .. 6  OBVIOUS
      <3>3. Stdin /\ ~data'.stop => Stages(data, at["harvester"], Lines)[4] = {}
        BY <3>1, <3>2, <2>1, NothingLeft
      <3> QED  BY <3>3, <1>v DEF StagesAre
    <2> HIDE DEF lost
    <2> QED  BY <2>1, <2>2, <1>r, FlowAll
  <1>10. CASE PublisherTakes
    <2>1. SeqsInv' /\ Flow({}) /\ data'.read = data.read /\ data'.dropped = data.dropped /\ data'.stop = data.stop
      BY <1>10, PublisherTakesFlow
    <2> QED  BY <2>1, <1>r, FlowAll
  <1>11. CASE Acknowledged
    <2>1. SeqsInv' /\ Flow({}) /\ data'.read = data.read /\ data'.dropped = data.dropped /\ data'.stop = data.stop
      BY <1>11, AcknowledgedFlow
    <2> QED  BY <2>1, <1>r, FlowAll
  <1>12. CASE PublisherRegisters
    <2>1. SeqsInv' /\ Flow({}) /\ data'.read = data.read /\ data'.dropped = data.dropped /\ data'.stop = data.stop
      BY <1>12, PublisherRegistersFlow
    <2> QED  BY <2>1, <1>r, FlowAll
  <1>13. CASE PublisherStops
    <2> DEFINE lost == Elems(data.next)
    <2>1. SeqsInv' /\ Flow(lost) /\ data'.read = data.read /\ data'.dropped = data.dropped /\ data'.stop = data.stop
      BY <1>13, PublisherStopsFlow
    <2>2. Stdin /\ ~data'.stop => lost = {}
      <3>1. signals.down  BY <1>13 DEF PublisherStops
      <3>2. 2 \in 1 .. 6  OBVIOUS
      <3>3. Stdin /\ ~data'.stop => Stages(data, at["harvester"], Lines)[2] = {}
        BY <3>1, <3>2, <2>1, NothingLeft
      <3> QED  BY <3>3, <1>v DEF StagesAre
    <2> HIDE DEF lost
    <2> QED  BY <2>1, <2>2, <1>r, FlowAll
  <1>14. CASE PublisherAbandons
    <2> DEFINE lost == Lined(data.pending)
    <2>1. SeqsInv' /\ Flow(lost) /\ data'.read = data.read /\ data'.dropped = data.dropped /\ data'.stop = data.stop
      BY <1>14, PublisherAbandonsFlow
    <2>2. Stdin /\ ~data'.stop => lost = {}
      <3>1. signals.down  BY <1>14 DEF PublisherAbandons, EndInv
      <3>2. 1 \in 1 .. 6  OBVIOUS
      <3>3. Stdin /\ ~data'.stop => Stages(data, at["harvester"], Lines)[1] = {}
        BY <3>1, <3>2, <2>1, NothingLeft
      <3> QED  BY <3>3, <1>v DEF StagesAre
    <2> HIDE DEF lost
    <2> QED  BY <2>1, <2>2, <1>r, FlowAll
  <1>15. CASE RegistrarTakes \/ RegistrarTold \/ ProspectorScans \/ ProspectorStops \/ TakeTerm
    <2>1. at'["harvester"] = at["harvester"]
      BY <1>15 DEF RegistrarTakes, RegistrarTold, ProspectorScans, ProspectorStops, TakeTerm,
         Goto, TypeInv, Routines
    <2>2. SameLines /\ data'.dropped = data.dropped /\ (data.stop => data'.stop)
      <3>1. CASE RegistrarTakes
        BY <3>1, <2>1 DEF RegistrarTakes, SameLines, TypeInv, DataInv, DataType
      <3>2. CASE RegistrarTold
        BY <3>2, <2>1 DEF RegistrarTold, SameLines, TypeInv, DataInv, DataType
      <3>3. CASE ProspectorScans
        BY <3>3, <2>1 DEF ProspectorScans, SameLines, TypeInv, DataInv, DataType
      <3>4. CASE ProspectorStops
        BY <3>4, <2>1 DEF ProspectorStops, SameLines, TypeInv, DataInv, DataType
      <3>5. CASE TakeTerm
        BY <3>5, <2>1 DEF TakeTerm, SameLines, TypeInv, DataInv, DataType
      <3> QED  BY <1>15, <3>1, <3>2, <3>3, <3>4, <3>5
    <2> QED  BY <2>2, <1>r, SameKeeps
  <1>16. CASE Flush
    <2>1. SeqsInv' /\ Flow({}) /\ data'.read = data.read /\ data'.dropped = data.dropped /\ data'.stop = data.stop
      BY <1>16, FlushFlow
    <2> QED  BY <2>1, <1>r, FlowAll
  <1>17. CASE Admin
    <2>1. UNCHANGED data /\ at'["harvester"] = at["harvester"]
      BY <1>17 DEF Admin, AdminShutdown, AdminStopped, AdminOldClosed, AdminKept, Goto, TypeInv, Routines
    <2> QED  BY <2>1, <1>1
  <1>18. ASSUME NEW s \in Senders, Reloading(s)  PROVE  OrderInv' /\ KeptInv'
    <2>1. UNCHANGED data  BY <1>18, ReloadType
    <2>2. at'["harvester"] = at["harvester"]
      BY <1>18 DEF Reloading, LoadFails, Loaded, SendConfig, Sent, TypeInv, Routines
    <2> QED  BY <2>1, <2>2, <1>1
  <1>19. ASSUME NEW s \in Senders, NEW r \in Receivers, Deliver(s, r)  PROVE  OrderInv' /\ KeptInv'
    <2>1. CASE UNCHANGED <<at, data>>  BY <2>1, <1>1
    <2>2. CASE Revived
      <3>1. SameLines /\ data'.dropped = data.dropped /\ (data.stop => data'.stop)
        BY <2>2 DEF Revived, SameLines, TypeInv, DataInv, DataType
      <3> QED  BY <3>1, <1>r, SameKeeps
    <2>3. CASE SpoolDropped
      <3> DEFINE st == Stages(data, at["harvester"], Lines)
                 tt == Stages(data', at'["harvester"], Lines)
                 lost == Elems(data.spool)
      <3>1. /\ SeqsInv' /\ Flow(lost) /\ data'.read = data.read /\ data'.stop = data.stop
            /\ data'.dropped = data.dropped \cup lost /\ data'.spool = <<>>
        BY <2>3, SpoolDroppedFlow
      <3>2. /\ st[4] = lost /\ tt[4] = {}
        <4>1. StagesAre(st, data, at["harvester"], Lines) /\ StagesAre(tt, data', at'["harvester"], Lines)
          BY StageValues
        <4> HIDE DEF st, tt
        <4> QED  BY <4>1, <3>1, ElemsEmpty DEF StagesAre
      <3>3. data'.dropped \subseteq 1 .. data.read
        <4>1. \A x \in st[4] : x \in 1 .. data.read  BY DEF KeptInv
        <4> HIDE DEF st, lost
        <4> QED  BY <4>1, <3>1, <3>2 DEF KeptInv
      <3>4. ASSUME NEW k \in 0 .. 6, NEW x \in tt[k]  PROVE  x \notin lost
        <4>2. k # 4  BY <3>2
        <4>3. tt[k] = st[k]
          <5>1. StagesAre(st, data, at["harvester"], Lines) /\ StagesAre(tt, data', at'["harvester"], Lines)
            BY StageValues
          <5>2. /\ data'.acked = data.acked /\ data'.pending = data.pending /\ data'.next = data.next
                /\ data'.spoolChan = data.spoolChan /\ data'.input = data.input /\ data'.read = data.read
            BY <2>3 DEF SpoolDropped, TypeInv, DataInv, DataType
          <5>3. at'["harvester"] = at["harvester"]  BY <2>3 DEF SpoolDropped, TypeInv, Routines
          <5> HIDE DEF st, tt
          <5>4. /\ tt[0] = st[0] /\ tt[1] = st[1] /\ tt[2] = st[2] /\ tt[3] = st[3]
                /\ tt[5] = st[5] /\ tt[6] = st[6]
            BY <5>1, <5>2, <5>3, StagesSame
          <5> QED  BY <5>4, <4>2
        <4>4. InOrder(st)  BY DEF OrderInv
        <4>5. \A l \in 0 .. 7 : st[l] \subseteq Nat
          <5>1. data \in DataType /\ Lines \in Nat  BY DataTypes DEF TypeInv, DataInv
          <5> QED  BY <5>1, StageTypes
        <4> HIDE DEF st, tt, lost
        <4>6. ASSUME x \in st[4]  PROVE  FALSE
          <5>1. x \in st[k] /\ x \in Nat /\ k \in 0 .. 7  BY <4>3, <4>5
          <5>2. CASE k < 4  BY <5>1, <5>2, <4>4, <4>6 DEF InOrder
          <5>3. CASE 4 < k  BY <5>1, <5>3, <4>4, <4>6 DEF InOrder
          <5> QED  BY <5>2, <5>3, <4>2
        <4> QED  BY <4>6, <3>2
      <3> HIDE DEF lost
      <3>5. \A k \in 0 .. 6 : \A x \in tt[k] : x \notin data'.dropped \ data.dropped
        BY <3>1, <3>4
      <3>6. tt = Stages(data', at'["harvester"], Lines)  OBVIOUS
      <3> HIDE DEF tt, st
      <3> QED  BY <3>1, <3>3, <3>5, <3>6, <1>r, FlowKeeps
    <2> QED  BY <1>19, <2>1, <2>2, <2>3, DeliverForms
  <1> QED
    BY <1>2, <1>3, <1>4, <1>5, <1>6, <1>7, <1>8, <1>9, <1>10, <1>11, <1>12, <1>13, <1>14, <1>15,
       <1>16, <1>17, <1>18, <1>19
    DEF Next, Harvest, Spool, Publish, Register, Main

-----------------------------------------------------------------------------
(* Acknowledgements on their way to the registrar. *)

LEMMA AckKept ==
  ASSUME AckInv, data'.acked = data.acked, data'.registered = data.registered,
         data'.registrarChan = data.registrarChan, data'.ack = data.ack,
         at["publisher"] = "register" => at'["publisher"] = "register"
  PROVE  AckInv'
  BY DEF AckInv

LEMMA AckAcknowledged ==
  ASSUME TypeInv, OrderInv, AckInv, Acknowledged
  PROVE  AckInv'
  <1>1. PICK h \in Nat \ {0} : /\ data'.acked = data.acked \cup {h} /\ data'.ack = h
                               /\ \A n \in data.acked : n < h
    BY AcknowledgedFlow
  <1>2. data'.registered = data.registered /\ data'.registrarChan = data.registrarChan
    BY DEF Acknowledged, TypeInv, DataInv, DataType
  <1>3. at["publisher"] = "loop" /\ at'["publisher"] = "register"
    BY DEF Acknowledged, Goto, TypeInv, Routines
  <1>4. data.ack = 0  BY <1>3 DEF AckInv
  <1>t. data.registered \in Nat  BY DataTypes
  <1>5. data.registered < h
    <2>1. CASE data.registered \in data.acked  BY <2>1, <1>1
    <2>2. CASE data.registered = 0  BY <2>2, <1>1
    <2> QED  BY <2>1, <2>2 DEF AckInv
  <1>6. \A x \in Elems(data.registrarChan) : x # Found =>
           x \in data.acked /\ data.registered < x /\ x < h
    BY <1>1 DEF AckInv
  <1>7. \A n \in data.acked : n <= data.registered \/ n \in Elems(data.registrarChan)
    BY <1>4, <1>t DEF AckInv, TypeInv, DataInv, DataType
  <1>8. data.registered \in data.acked \cup {0} /\ Rising(data.registrarChan)  BY DEF AckInv
  <1> QED  BY <1>1, <1>2, <1>3, <1>5, <1>6, <1>7, <1>8 DEF AckInv

LEMMA AckRegisters ==
  ASSUME TypeInv, OrderInv, KeptInv, AckInv, PublisherRegisters
  PROVE  AckInv'
  <1>1. /\ data'.acked = data.acked /\ data'.ack = 0 /\ data'.registered = data.registered
        /\ data'.registrarChan = Append(data.registrarChan, data.ack)
    BY PublisherRegistersFlow
  <1>t. data.registrarChan \in Seq(Nat) /\ data.ack \in Nat /\ data.acked \subseteq Nat  BY DataTypes
  <1>2. Elems(data'.registrarChan) = Elems(data.registrarChan) \cup {data.ack}
    BY <1>1, <1>t, ElemsAppend
  <1>3. Rising(data'.registrarChan)
    <2>1. \A y \in Elems(data.registrarChan) : data.ack # 0 /\ y # 0 => y < data.ack
      BY DEF AckInv, Found
    <2>2. Rising(data.registrarChan)  BY DEF AckInv
    <2> QED  BY <2>1, <2>2, <1>1, <1>t, RisingAppend
  <1>4. \A x \in Elems(data'.registrarChan) : x # Found => x \in data.acked /\ data.registered < x
    BY <1>2 DEF AckInv, Found
  <1>5. \A n \in data.acked : n <= data.registered \/ n \in Elems(data'.registrarChan)
    BY <1>2 DEF AckInv
  <1>6. data.registered \in data.acked \cup {0}  BY DEF AckInv
  <1> QED  BY <1>1, <1>3, <1>4, <1>5, <1>6 DEF AckInv

LEMMA AckTakes ==
  ASSUME TypeInv, AckInv, RegistrarTakes
  PROVE  AckInv'
  <1> DEFINE x == Head(data.registrarChan)
             offset == IF x = Found THEN data.registered ELSE x
  <1>1. /\ data.registrarChan # <<>> /\ at'["publisher"] = at["publisher"]
        /\ data' = [data EXCEPT !.registrarChan = Tail(data.registrarChan), !.registered = offset]
    BY DEF RegistrarTakes, Goto, TypeInv, Routines
  <1>t. data.registrarChan \in Seq(Nat) /\ data.registered \in Nat /\ data.acked \subseteq Nat  BY DataTypes
  <1>2. /\ Elems(data.registrarChan) = {x} \cup Elems(Tail(data.registrarChan)) /\ x \in Nat
        /\ x \in Elems(data.registrarChan)
    BY <1>1, <1>t, ElemsTail, SeqTail
  <1>3. /\ Rising(Tail(data.registrarChan))
        /\ x # 0 => \A y \in Elems(Tail(data.registrarChan)) : y # 0 => x < y
    BY <1>1, <1>t, RisingTail DEF AckInv
  <1> HIDE DEF x
  <1>o. /\ x = Found => offset = data.registered
        /\ x # Found => offset = x
    OBVIOUS
  <1> HIDE DEF offset
  <1>4. /\ data'.registrarChan = Tail(data.registrarChan) /\ data'.registered = offset
        /\ data'.acked = data.acked /\ data'.ack = data.ack
    BY <1>1 DEF TypeInv, DataInv, DataType
  <1> DEFINE rest == Elems(Tail(data.registrarChan))
  <1>5. Elems(data'.registrarChan) = rest  BY <1>4
  <1>6. data.registered <= offset /\ offset \in data.acked \cup {0}
    <2>1. CASE x = Found  BY <2>1, <1>o, <1>t DEF AckInv
    <2>2. CASE x # Found  BY <2>2, <1>o, <1>t, <1>2 DEF AckInv
    <2> QED  BY <2>1, <2>2
  <1>7. ASSUME NEW y \in rest, y # Found
        PROVE  y \in data.acked /\ offset < y /\ (data.ack # 0 => y < data.ack)
    <2>1. /\ y \in data.acked /\ data.registered < y /\ (data.ack # 0 => y < data.ack)
      BY <1>7, <1>2 DEF AckInv
    <2>2. CASE x = Found  BY <2>1, <2>2, <1>o
    <2>3. CASE x # Found  BY <2>1, <2>3, <1>o, <1>3, <1>7 DEF Found
    <2> QED  BY <2>2, <2>3
  <1>8. ASSUME data.ack # 0
        PROVE  data.ack \in data.acked /\ offset < data.ack /\ at["publisher"] = "register"
    <2>1. data.ack \in data.acked /\ data.registered < data.ack /\ at["publisher"] = "register"
      BY <1>8 DEF AckInv
    <2>2. CASE x = Found  BY <2>1, <2>2, <1>o
    <2>3. CASE x # Found  BY <2>1, <2>3, <1>o, <1>2, <1>8 DEF AckInv
    <2> QED  BY <2>2, <2>3
  <1>9. ASSUME NEW n \in data.acked  PROVE  n <= offset \/ n \in rest \/ n = data.ack
    <2>0. n \in Nat /\ offset \in Nat  BY <1>t, <1>6
    <2>1. CASE n <= data.registered  BY <2>0, <2>1, <1>6, <1>t
    <2>2. CASE n \in Elems(data.registrarChan) /\ n \notin rest
      <3>1. n = x  BY <2>2, <1>2
      <3>2. CASE x = Found  BY <3>1, <3>2, <2>0 DEF Found
      <3>3. CASE x # Found  BY <3>1, <3>3, <1>o, <2>0
      <3> QED  BY <3>2, <3>3
    <2> QED  BY <2>1, <2>2 DEF AckInv
  <1> HIDE DEF rest
  <1> QED  BY <1>1, <1>3, <1>4, <1>5, <1>6, <1>7, <1>8, <1>9 DEF AckInv

LEMMA AckScans ==
  ASSUME TypeInv, AckInv, ProspectorScans
  PROVE  AckInv'
  <1>1. at'["publisher"] = at["publisher"]  BY DEF ProspectorScans, Goto, TypeInv, Routines
  <1>2. CASE UNCHANGED data  BY <1>1, <1>2, AckKept
  <1>3. CASE data' = [data EXCEPT !.registrarChan = Append(data.registrarChan, Found)]
    <2>1. /\ data'.registrarChan = Append(data.registrarChan, Found) /\ data'.registered = data.registered
          /\ data'.acked = data.acked /\ data'.ack = data.ack
      BY <1>3 DEF TypeInv, DataInv, DataType
    <2>t. data.registrarChan \in Seq(Nat) /\ Found \in Nat  BY DataTypes DEF Found
    <2>2. Elems(data'.registrarChan) = Elems(data.registrarChan) \cup {Found}  BY <2>1, <2>t, ElemsAppend
    <2>3. Rising(data'.registrarChan)
      <3>1. Rising(data.registrarChan)  BY DEF AckInv
      <3> QED  BY <3>1, <2>1, <2>t, RisingAppend DEF Found
    <2> QED  BY <2>1, <2>2, <2>3, <1>1 DEF AckInv
  <1> QED  BY <1>2, <1>3 DEF ProspectorScans

LEMMA AckStep ==
  ASSUME TypeInv, OrderInv, KeptInv, AckInv, [Next]_vars
  PROVE  AckInv'
  <1>1. ASSUME UNCHANGED data, at'["publisher"] = at["publisher"]  PROVE  AckInv'
    BY <1>1, AckKept
  <1>2. CASE UNCHANGED vars  BY <1>2, <1>1 DEF vars
  <1>3. CASE Harvest \/ Spool
    <2>1. at'["publisher"] = at["publisher"]
      BY <1>3 DEF Harvest, HarvesterReads, HarvesterSends, HarvesterGivesUp, HarvesterEnds, Goto,
         Spool, SpoolerTakes, SpoolerTimer, SpoolerSends, SpoolerStops, TypeInv, Routines
    <2>2. /\ data'.acked = data.acked /\ data'.registered = data.registered
          /\ data'.registrarChan = data.registrarChan /\ data'.ack = data.ack
      BY <1>3 DEF Harvest, HarvesterReads, HarvesterSends, HarvesterGivesUp, HarvesterEnds,
         Spool, SpoolerTakes, SpoolerTimer, SpoolerSends, SpoolerStops, TypeInv, DataInv, DataType
    <2> QED  BY <2>1, <2>2, AckKept
  <1>4. CASE PublisherTakes \/ PublisherStops \/ PublisherDone \/ PublisherAbandons
    <2>1. at["publisher"] # "register"
      BY <1>4 DEF PublisherTakes, PublisherStops, PublisherDone, PublisherAbandons
    <2>2. /\ data'.acked = data.acked /\ data'.registered = data.registered
          /\ data'.registrarChan = data.registrarChan /\ data'.ack = data.ack
      BY <1>4 DEF PublisherTakes, PublisherStops, PublisherDone, PublisherAbandons,
         TypeInv, DataInv, DataType
    <2> QED  BY <2>1, <2>2, AckKept
  <1>5. CASE Acknowledged  BY <1>5, AckAcknowledged
  <1>6. CASE PublisherRegisters  BY <1>6, AckRegisters
  <1>7. CASE RegistrarTakes  BY <1>7, AckTakes
  <1>8. CASE ProspectorScans  BY <1>8, AckScans
  <1>9. CASE RegistrarTold \/ RegistrarStops \/ ProspectorWakes \/ ProspectorStops \/ ProspectorDone
    <2>1. at'["publisher"] = at["publisher"]
      BY <1>9 DEF RegistrarTold, RegistrarStops, ProspectorWakes, ProspectorStops, ProspectorDone,
         Goto, TypeInv, Routines
    <2>2. /\ data'.acked = data.acked /\ data'.registered = data.registered
          /\ data'.registrarChan = data.registrarChan /\ data'.ack = data.ack
      BY <1>9 DEF RegistrarTold, RegistrarStops, ProspectorWakes, ProspectorStops, ProspectorDone,
         TypeInv, DataInv, DataType
    <2> QED  BY <2>1, <2>2, AckKept
  <1>10. CASE Main \/ Hangup \/ Terminate
    <2>1. at'["publisher"] = at["publisher"]
      BY <1>10 DEF Main, TakeTerm, HarvesterStopped, TakeHangup, HarvesterFinished,
         Flush, Waited, Join, Hangup, Terminate, Goto, TypeInv, Routines
    <2>2. /\ data'.acked = data.acked /\ data'.registered = data.registered
          /\ data'.registrarChan = data.registrarChan /\ data'.ack = data.ack
      BY <1>10 DEF Main, TakeTerm, HarvesterStopped, TakeHangup, HarvesterFinished,
         Flush, Waited, Join, Hangup, Terminate, TypeInv, DataInv, DataType
    <2> QED  BY <2>1, <2>2, AckKept
  <1>11. CASE Admin \/ ApiReload
    <2>1. UNCHANGED data /\ at'["publisher"] = at["publisher"]
      BY <1>11 DEF Admin, AdminShutdown, AdminStopped, AdminOldClosed, AdminKept, ApiReload,
         Goto, TypeInv, Routines
    <2> QED  BY <2>1, <1>1
  <1>12. ASSUME NEW s \in Senders, Reloading(s)  PROVE  AckInv'
    <2>1. UNCHANGED data  BY <1>12, ReloadType
    <2>2. at'["publisher"] = at["publisher"]
      BY <1>12 DEF Reloading, LoadFails, Loaded, SendConfig, Sent, TypeInv, Routines
    <2> QED  BY <2>1, <2>2, <1>1
  <1>13. ASSUME NEW s \in Senders, NEW r \in Receivers, Deliver(s, r)  PROVE  AckInv'
    <2>1. CASE UNCHANGED <<at, data>>  BY <2>1, <1>1
    <2>2. CASE Revived \/ SpoolDropped
      <3>1. /\ data'.acked = data.acked /\ data'.registered = data.registered
            /\ data'.registrarChan = data.registrarChan /\ data'.ack = data.ack
            /\ at'["publisher"] = at["publisher"]
        BY <2>2 DEF Revived, SpoolDropped, TypeInv, DataInv, DataType, Routines
      <3> QED  BY <3>1, AckKept
    <2> QED  BY <1>13, <2>1, <2>2, DeliverForms
  <1> QED
    BY <1>2, <1>3, <1>4, <1>5, <1>6, <1>7, <1>8, <1>9, <1>10, <1>11, <1>12, <1>13
    DEF Next, Publish, Register

-----------------------------------------------------------------------------
(* How the program ends. *)

\* What EndInv looks at, of the data and of the routines.
SameEnds ==
    /\ data'.told = data.told /\ data'.wait = data.wait /\ data'.read = data.read
    /\ data'.stop = data.stop /\ data'.registered = data.registered

SameRoutines(R) == \A r \in R : at'[r] = at[r]

\* A step of another part: the registrar's channel only changes while somebody
\* who sends to it runs.
LEMMA EndKept ==
  ASSUME EndInv, UNCHANGED run, SameEnds, SameRoutines({"main", "harvester", "registrar"}),
         at["main"] # "exited", signals'.down = signals.down, data'.closing => signals.down,
         at["prospector"] = "done" => at'["prospector"] = "done",
         at["publisher"] = "done" => at'["publisher"] = "done",
         at["prospector"] = "done" /\ at["publisher"] = "done" => data'.registrarChan = data.registrarChan
  PROVE  EndInv'
  <1>1. /\ at'["main"] = at["main"] /\ at'["harvester"] = at["harvester"]
        /\ at'["registrar"] = at["registrar"]
    BY DEF SameRoutines
  <1>2. Files' = Files /\ Stdin' = Stdin /\ Lines' = Lines  BY ReceiversKept
  <1>3. (data.closing => signals.down)'  OBVIOUS
  <1> QED  BY <1>1, <1>2, <1>3 DEF EndInv, SameEnds

LEMMA EndHarvest ==
  ASSUME TypeInv, OrderInv, EndInv, Harvest, UNCHANGED run, at["main"] # "exited"
  PROVE  EndInv'
  <1>2. Files' = Files /\ Stdin' = Stdin /\ Lines' = Lines /\ Segments' = Segments  BY ReceiversKept
  <1>3. UNCHANGED signals /\ SameRoutines({"main", "registrar", "prospector", "publisher"})
    BY DEF Harvest, HarvesterReads, HarvesterSends, HarvesterGivesUp, HarvesterEnds, DataKept, Goto,
       SameRoutines, TypeInv, Routines
  <1>m. /\ at'["main"] = at["main"] /\ at'["registrar"] = at["registrar"]
        /\ at'["prospector"] = at["prospector"] /\ at'["publisher"] = at["publisher"]
    BY <1>3 DEF SameRoutines
  <1>4. CASE HarvesterReads
    <2>1. /\ data'.told = data.told /\ data'.wait = data.wait /\ data'.stop = data.stop
          /\ data'.registered = data.registered /\ data'.closing = data.closing
          /\ data'.registrarChan = data.registrarChan /\ at["harvester"] = "read"
          /\ at'["harvester"] # "done"
      BY <1>4 DEF HarvesterReads, Goto, TypeInv, Routines, DataInv, DataType
    <2> QED  BY <2>1, <1>2, <1>3, <1>m DEF EndInv
  <1>5. CASE HarvesterSends
    <2>1. /\ data'.told = data.told /\ data'.wait = data.wait /\ data'.stop = data.stop
          /\ data'.registered = data.registered /\ data'.closing = data.closing
          /\ data'.registrarChan = data.registrarChan /\ data'.read = data.read
          /\ at["harvester"] = "send" /\ at'["harvester"] = "read"
      BY <1>5 DEF HarvesterSends, Goto, TypeInv, Routines, DataInv, DataType
    <2> QED  BY <2>1, <1>2, <1>3, <1>m DEF EndInv
  <1>6. CASE HarvesterEnds
    <2>1. /\ UNCHANGED data /\ at["harvester"] # "done" /\ at'["harvester"] = "done"
          /\ data.stop \/ (Stdin /\ data.read = Lines)
      BY <1>6 DEF HarvesterEnds, Goto, TypeInv, Routines
    <2> QED  BY <2>1, <1>2, <1>3, <1>m DEF EndInv
  <1>7. CASE HarvesterGivesUp
    <2>1. UNCHANGED data /\ at["harvester"] = "send" /\ at'["harvester"] = "read"
      BY <1>7 DEF HarvesterGivesUp, Goto, TypeInv, Routines
    <2> QED  BY <2>1, <1>2, <1>3, <1>m DEF EndInv
  <1> QED  BY <1>4, <1>5, <1>6, <1>7 DEF Harvest

LEMMA EndRegister ==
  ASSUME TypeInv, OrderInv, EndInv, Register, UNCHANGED run, at["main"] # "exited"
  PROVE  EndInv'
  <1>2. Files' = Files /\ Stdin' = Stdin /\ Lines' = Lines /\ (Files <=> ~Stdin)
    BY ReceiversKept, CaseType DEF TypeInv
  <1>3. UNCHANGED signals /\ SameRoutines({"main", "harvester", "prospector", "publisher"})
    BY DEF Register, RegistrarTakes, RegistrarTold, RegistrarStops, DataKept, Goto,
       SameRoutines, TypeInv, Routines
  <1>m. /\ at'["main"] = at["main"] /\ at'["harvester"] = at["harvester"]
        /\ at'["prospector"] = at["prospector"] /\ at'["publisher"] = at["publisher"]
    BY <1>3 DEF SameRoutines
  <1>t. data.registered \in Nat /\ Lines \in Nat  BY DataTypes
  <1>4. CASE RegistrarTakes
    <2>1. /\ data'.told = data.told /\ data'.wait = data.wait /\ data'.stop = data.stop
          /\ data'.closing = data.closing /\ data'.read = data.read
          /\ at["registrar"] = "run"
          /\ at'["registrar"] = IF data.wait # -1 /\ data'.registered >= data.wait THEN "done" ELSE "run"
      BY <1>4 DEF RegistrarTakes, Goto, TypeInv, Routines, DataInv, DataType
    <2>2. Files => at'["registrar"] # "done"  BY <2>1 DEF EndInv
    <2>3. Stdin /\ at'["registrar"] = "done" =>
             data.read = Lines /\ at["harvester"] = "done" /\ data'.registered >= Lines
      BY <2>1 DEF EndInv
    <2>4. Stdin => data.stop \/ ~signals.down  BY <2>1 DEF EndInv
    <2> QED  BY <2>1, <2>2, <2>3, <2>4, <1>2, <1>3, <1>m DEF EndInv
  <1>5. CASE RegistrarTold
    <2>1. /\ data'.told = -1 /\ data'.wait = data.told /\ data'.stop = data.stop /\ data.told # -1
          /\ data'.closing = data.closing /\ data'.read = data.read /\ data'.registered = data.registered
          /\ at["registrar"] = "run"
          /\ at'["registrar"] = IF data.registered = data.told THEN "done" ELSE "run"
      BY <1>5 DEF RegistrarTold, Goto, TypeInv, Routines, DataInv, DataType
    <2>2. ~Files /\ Stdin  BY <2>1, <1>2 DEF EndInv
    <2>3. data.told = Lines /\ data.read = Lines /\ at["harvester"] = "done"  BY <2>1, <2>2 DEF EndInv
    <2>4. data.stop \/ ~signals.down  BY <2>1, <2>2 DEF EndInv
    <2>5. at'["registrar"] = "done" => data.registered >= Lines  BY <2>1, <2>3, <1>t
    <2> QED  BY <2>1, <2>2, <2>3, <2>4, <2>5, <1>2, <1>3, <1>m DEF EndInv
  <1>6. CASE RegistrarStops
    <2>1. UNCHANGED data /\ at["registrar"] = "run" /\ at'["registrar"] = "done"
      BY <1>6 DEF RegistrarStops, Goto, TypeInv, Routines
    <2>2. Stdin => signals.down  BY <1>6 DEF RegistrarStops
    <2>3. Files => /\ data.registrarChan = <<>>
                   /\ at["prospector"] = "done" /\ at["publisher"] = "done"
      BY <1>6, <1>2 DEF RegistrarStops
    <2>4. Stdin => data.stop  BY <2>1, <2>2 DEF EndInv
    <2> QED  BY <2>1, <2>3, <2>4, <1>2, <1>3, <1>m DEF EndInv
  <1> QED  BY <1>4, <1>5, <1>6 DEF Register

LEMMA EndMain ==
  ASSUME TypeInv, OrderInv, EndInv, UNCHANGED run, at["main"] # "exited",
         Main \/ Hangup \/ Terminate
  PROVE  EndInv'
  <1>2. Files' = Files /\ Stdin' = Stdin /\ Lines' = Lines /\ (Files <=> ~Stdin) /\ Segments' = Segments
    BY ReceiversKept, CaseType DEF TypeInv
  <1>3. SameRoutines({"admin", "harvester", "spooler", "registrar", "prospector", "publisher"})
    BY DEF Main, TakeTerm, HarvesterStopped, TakeHangup, HarvesterFinished,
       Flush, Waited, Join, Hangup, Terminate, Goto, SameRoutines, TypeInv, Routines
  <1>m. /\ at'["harvester"] = at["harvester"] /\ at'["registrar"] = at["registrar"]
        /\ at'["prospector"] = at["prospector"] /\ at'["publisher"] = at["publisher"]
    BY <1>3 DEF SameRoutines
  <1>4. CASE TakeTerm /\ Stdin
    <2>1. /\ data'.told = data.told /\ data'.wait = data.wait /\ data'.stop = TRUE
          /\ data'.closing = data.closing /\ data'.read = data.read
          /\ at["main"] = "loop" /\ at'["main"] = "stop" /\ UNCHANGED signals
      BY <1>4 DEF TakeTerm, Goto, TypeInv, Routines, DataInv, DataType
    <2> QED  BY <2>1, <1>2, <1>4, <1>m DEF EndInv
  <1>5. CASE TakeTerm /\ ~Stdin
    <2>1. UNCHANGED data /\ at["main"] = "loop" /\ at'["main"] = "join" /\ signals'.down
      BY <1>5 DEF TakeTerm, Goto, TypeInv, Routines
    <2> QED  BY <2>1, <1>2, <1>5, <1>m DEF EndInv
  <1>6. CASE HarvesterStopped
    <2>1. UNCHANGED data /\ at["main"] = "stop" /\ at'["main"] = "join" /\ signals'.down
      BY <1>6 DEF HarvesterStopped, Goto, TypeInv, Routines
    <2>2. Stdin  BY <2>1, <1>2 DEF EndInv
    <2>3. data.stop  BY <2>1, <2>2 DEF EndInv
    <2> QED  BY <2>1, <2>2, <2>3, <1>2, <1>m DEF EndInv
  <1>7. CASE TakeHangup
    <2>1. /\ UNCHANGED data /\ at["main"] = "loop" /\ at'["main"] = "reload"
          /\ signals'.down = signals.down
      BY <1>7 DEF TakeHangup, Goto, TypeInv, Routines
    <2> QED  BY <2>1, <1>2, <1>m DEF EndInv
  <1>8. CASE HarvesterFinished
    <2>1. /\ UNCHANGED <<data, signals>> /\ at["main"] = "loop" /\ at'["main"] = "flush"
          /\ Stdin /\ at["harvester"] = "done"
      BY <1>8 DEF HarvesterFinished, Goto, TypeInv, Routines
    <2>2. ~data.stop /\ data.read = Lines  BY <2>1 DEF EndInv
    <2> QED  BY <2>1, <2>2, <1>2, <1>m DEF EndInv
  <1>9. CASE Flush
    <2>1. /\ data'.told = data.read /\ data'.wait = data.wait /\ data'.stop = data.stop
          /\ data'.closing = data.closing /\ data'.read = data.read /\ data'.registered = data.registered
          /\ at["main"] = "flush" /\ at'["main"] = "wait" /\ UNCHANGED signals
      BY <1>9 DEF Flush, Goto, TypeInv, Routines, DataInv, DataType
    <2>2. Stdin  BY <2>1, <1>2 DEF EndInv
    <2>3. ~data.stop /\ data.read = Lines /\ at["harvester"] = "done"  BY <2>1, <2>2 DEF EndInv
    <2> QED  BY <2>1, <2>2, <2>3, <1>2, <1>m DEF EndInv
  <1>10. CASE Waited
    <2>1. /\ UNCHANGED data /\ at["main"] = "wait" /\ at'["main"] = "join" /\ signals'.down
          /\ at["registrar"] = "done"
      BY <1>10 DEF Waited, Goto, TypeInv, Routines
    <2>2. Stdin  BY <2>1, <1>2 DEF EndInv
    <2> QED  BY <2>1, <2>2, <1>2, <1>m DEF EndInv
  <1>11. CASE Join
    <2>1. /\ UNCHANGED <<data, signals>> /\ at["main"] = "join" /\ at'["main"] = "exited"
          /\ \A s \in Segments : at[s] = "done"
      BY <1>11 DEF Join, Goto, TypeInv, Routines
    <2>2. \A s \in Segments : at'[s] = "done"
      BY <2>1, <1>3 DEF SameRoutines, Segments
    <2> QED  BY <2>1, <2>2, <1>2, <1>m DEF EndInv
  <1>12. CASE Hangup \/ Terminate
    <2>1. UNCHANGED <<data, at>> /\ signals'.down = signals.down
      BY <1>12 DEF Hangup, Terminate, TypeInv
    <2> QED  BY <2>1, <1>2 DEF EndInv
  <1> QED
    BY <1>4, <1>5, <1>6, <1>7, <1>8, <1>9, <1>10, <1>11, <1>12 DEF Main

LEMMA EndStep ==
  ASSUME TypeInv, LoadsInv, OrderInv, EndInv, [Next]_vars
  PROVE  EndInv'
  <1>r. UNCHANGED run /\ Files' = Files /\ Stdin' = Stdin /\ Lines' = Lines /\ Segments' = Segments
        /\ (Files <=> ~Stdin)
    BY TypeStep, ReceiversKept, CaseType DEF TypeInv
  <1>1. CASE UNCHANGED vars
    <2>1. UNCHANGED <<at, data, signals>>  BY <1>1 DEF vars
    <2> QED  BY <2>1, <1>r DEF EndInv
  <1> SUFFICES ASSUME Next PROVE EndInv'
    BY <1>1
  <1>e. at["main"] # "exited"  BY DEF Next
  <1>2. CASE Harvest  BY <1>2, <1>r, <1>e, EndHarvest
  <1>3. CASE Register  BY <1>3, <1>r, <1>e, EndRegister
  <1>4. CASE Main \/ Hangup \/ Terminate  BY <1>4, <1>r, <1>e, EndMain
  <1>5. CASE Spool
    <2>1. /\ at'["main"] = at["main"] /\ at'["harvester"] = at["harvester"]
          /\ at'["registrar"] = at["registrar"] /\ at'["prospector"] = at["prospector"]
          /\ at'["publisher"] = at["publisher"]
      BY <1>5 DEF Spool, SpoolerTakes, SpoolerTimer, SpoolerSends, SpoolerStops, Goto, TypeInv, Routines
    <2>2. SameEnds /\ data'.closing = data.closing /\ data'.registrarChan = data.registrarChan
      BY <1>5 DEF Spool, SpoolerTakes, SpoolerTimer, SpoolerSends, SpoolerStops, SameEnds,
         TypeInv, DataInv, DataType
    <2>3. UNCHANGED signals
      BY <1>5 DEF Spool, SpoolerTakes, SpoolerTimer, SpoolerSends, SpoolerStops, DataKept
    <2>4. SameRoutines({"main", "harvester", "registrar"})  BY <2>1 DEF SameRoutines
    <2>5. data'.closing => signals.down  BY <2>2 DEF EndInv
    <2> QED  BY <2>1, <2>2, <2>3, <2>4, <2>5, <1>r, <1>e, EndKept
  <1>6. CASE Publish \/ PublisherAbandons
    <2>1. /\ at'["main"] = at["main"] /\ at'["harvester"] = at["harvester"]
          /\ at'["registrar"] = at["registrar"] /\ at'["prospector"] = at["prospector"]
          /\ at["publisher"] # "done"
      BY <1>6 DEF Publish, PublisherTakes, Acknowledged, PublisherRegisters,
         PublisherStops, PublisherDone, PublisherAbandons, Goto, TypeInv, Routines
    <2>2. SameEnds
      <3>1. CASE PublisherRegisters  BY <3>1, PublisherRegistersFlow DEF SameEnds
      <3>2. CASE PublisherTakes \/ Acknowledged \/ PublisherStops \/ PublisherDone \/ PublisherAbandons
        BY <3>2 DEF PublisherTakes, Acknowledged, PublisherStops, PublisherDone, PublisherAbandons,
           SameEnds, TypeInv, DataInv, DataType
      <3> QED  BY <1>6, <3>1, <3>2 DEF Publish
    <2>3. UNCHANGED signals
      BY <1>6 DEF Publish, PublisherTakes, Acknowledged, PublisherRegisters,
         PublisherStops, PublisherDone, PublisherAbandons, DataKept
    <2>4. SameRoutines({"main", "harvester", "registrar"})  BY <2>1 DEF SameRoutines
    <2>5. data'.closing => signals.down
      <3>0. data.closing => signals.down  BY DEF EndInv
      <3>1. CASE PublisherRegisters
        <4>1. data'.closing = data.closing  BY <3>1, PublisherRegistersFlow
        <4> QED  BY <4>1, <3>0
      <3>2. CASE PublisherStops  BY <3>2 DEF PublisherStops
      <3>3. CASE PublisherTakes \/ Acknowledged \/ PublisherDone \/ PublisherAbandons
        <4>1. data'.closing = data.closing
          BY <3>3 DEF PublisherTakes, Acknowledged, PublisherDone, PublisherAbandons,
             TypeInv, DataInv, DataType
        <4> QED  BY <4>1, <3>0
      <3> QED  BY <1>6, <3>1, <3>2, <3>3 DEF Publish
    <2> QED  BY <2>1, <2>2, <2>3, <2>4, <2>5, <1>r, <1>e, EndKept
  <1>7. CASE Files /\ (ProspectorScans \/ ProspectorWakes \/ ProspectorDone)
    <2>1. /\ at'["main"] = at["main"] /\ at'["harvester"] = at["harvester"]
          /\ at'["registrar"] = at["registrar"] /\ at'["publisher"] = at["publisher"]
          /\ at["prospector"] # "done"
      BY <1>7 DEF ProspectorScans, ProspectorWakes, ProspectorDone, Goto, TypeInv, Routines
    <2>2. SameEnds /\ data'.closing = data.closing
      BY <1>7 DEF ProspectorScans, ProspectorWakes, ProspectorDone, SameEnds, TypeInv, DataInv, DataType
    <2>3. UNCHANGED signals
      BY <1>7 DEF ProspectorScans, ProspectorWakes, ProspectorDone, DataKept
    <2>4. SameRoutines({"main", "harvester", "registrar"})  BY <2>1 DEF SameRoutines
    <2>5. data'.closing => signals.down  BY <2>2 DEF EndInv
    <2> QED  BY <2>1, <2>2, <2>3, <2>4, <2>5, <1>r, <1>e, EndKept
  <1>8. CASE Files /\ ProspectorStops
    <2>1. /\ at'["main"] = at["main"] /\ at'["registrar"] = at["registrar"]
          /\ at["prospector"] = "idle" /\ UNCHANGED signals
      BY <1>8 DEF ProspectorStops, Goto, TypeInv, Routines, DataKept
    <2>2. /\ data'.told = data.told /\ data'.wait = data.wait /\ data'.closing = data.closing
      BY <1>8 DEF ProspectorStops, TypeInv, DataInv, DataType
    <2> QED  BY <2>1, <2>2, <1>8, <1>r, <1>e DEF EndInv
  <1>9. CASE Admin \/ ApiReload
    <2>1. UNCHANGED <<data, signals>>  BY <1>9, AdminType
    <2>2. /\ at'["main"] = at["main"] /\ at'["harvester"] = at["harvester"]
          /\ at'["registrar"] = at["registrar"] /\ at'["prospector"] = at["prospector"]
          /\ at'["publisher"] = at["publisher"]
      BY <1>9 DEF Admin, AdminShutdown, AdminStopped, AdminOldClosed, ApiReload, Goto, TypeInv, Routines
    <2>3. SameEnds /\ (data'.closing => signals.down)  BY <2>1 DEF SameEnds, EndInv
    <2>4. SameRoutines({"main", "harvester", "registrar"})  BY <2>2 DEF SameRoutines
    <2> QED  BY <2>1, <2>2, <2>3, <2>4, <1>r, <1>e, EndKept
  <1>10. ASSUME NEW s \in Senders, NEW r \in Receivers, Deliver(s, r)  PROVE  EndInv'
    <2>1. UNCHANGED signals  BY <1>10, DeliverForms
    <2>2. /\ at'["main"] = at["main"] /\ at'["harvester"] = at["harvester"]
          /\ at'["registrar"] = at["registrar"] /\ at'["prospector"] = at["prospector"]
          /\ at'["publisher"] = at["publisher"]
      BY <1>10, DeliverForms DEF SpoolDropped, Revived, TypeInv, Routines
    <2>3. SameEnds /\ data'.closing = data.closing /\ data'.registrarChan = data.registrarChan
      <3>1. CASE UNCHANGED <<at, data>>  BY <3>1 DEF SameEnds
      <3>2. CASE SpoolDropped  BY <3>2 DEF SpoolDropped, SameEnds, TypeInv, DataInv, DataType
      <3>3. CASE Revived  BY <3>3 DEF Revived, SameEnds, TypeInv, DataInv, DataType
      <3> QED  BY <1>10, <3>1, <3>2, <3>3, DeliverForms
    <2>4. SameRoutines({"main", "harvester", "registrar"})  BY <2>2 DEF SameRoutines
    <2>5. data'.closing => signals.down  BY <2>3 DEF EndInv
    <2> QED  BY <2>1, <2>2, <2>3, <2>4, <2>5, <1>r, <1>e, EndKept
  <1>11. ASSUME NEW s \in Senders, Reloading(s)  PROVE  EndInv'
    <2>1. UNCHANGED <<data, signals>>  BY <1>11, ReloadType
    <2>2. /\ at'["harvester"] = at["harvester"]
          /\ at'["registrar"] = at["registrar"] /\ at'["prospector"] = at["prospector"]
          /\ at'["publisher"] = at["publisher"]
      BY <1>11 DEF Reloading, LoadFails, Loaded, SendConfig, Sent, TypeInv, Routines
    <2>3. at'["main"] = at["main"] \/ (at["main"] = "reload" /\ at'["main"] = "loop")
      <3>1. sender["main"].pc # "idle" => at["main"] = "reload"  BY DEF LoadsInv
      <3> QED  BY <3>1, <1>11 DEF Reloading, LoadFails, Loaded, SendConfig, Sent, TypeInv, Routines
    <2> QED  BY <2>1, <2>2, <2>3, <1>r, <1>e DEF EndInv
  <1> QED
    BY <1>2, <1>3, <1>4, <1>5, <1>6, <1>7, <1>8, <1>9, <1>10, <1>11 DEF Next

-----------------------------------------------------------------------------
(* The theorems. *)

LEMMA InitInv ==
  ASSUME Init
  PROVE  IndInv
  <1>c. /\ run \in Cases /\ Lines \in Nat /\ run.filtered \subseteq 1 .. Lines
        /\ run.binds[1] \in Binds /\ Len(run.binds) \in Nat \ {0} /\ (Files <=> ~Stdin)
    <2>1. run \in Cases  BY DEF Init
    <2>2. /\ Lines \in Nat /\ run.filtered \subseteq 1 .. Lines /\ run.binds \in Seq(Binds)
          /\ Len(run.binds) \in Nat \ {0} /\ (Files <=> ~Stdin)
      BY <2>1, CaseType DEF Lines
    <2> QED  BY <2>1, <2>2
  <1>a. /\ at \in [Routines -> Pcs] /\ at["main"] = "loop" /\ at["harvester"] = "read"
        /\ at["registrar"] = "run" /\ at["publisher"] = "loop"
    BY DEF Init, Routines, Pcs
  <1>d. /\ data.read = 0 /\ data.stop = FALSE /\ data.input = <<>> /\ data.spool = <<>>
        /\ data.dropped = {} /\ data.spoolChan = <<>> /\ data.next = <<>> /\ data.pending = <<>>
        /\ data.acked = {} /\ data.ack = 0 /\ data.closing = FALSE /\ data.registrarChan = <<>>
        /\ data.registered = 0 /\ data.told = -1 /\ data.wait = -1
    BY DEF Init
  <1>e. <<>> \in LineSeq /\ <<>> \in Seq(LineSeq \ {<<>>}) /\ <<>> \in Seq(Nat) /\ Len(<<>>) = 0
    BY SeqEmpty DEF LineSeq
  <1>1. TypeInv
    <2>1. data \in DataType  BY <1>e DEF Init, DataType
    <2>2. Len(<<>>) <= InputCap /\ Len(<<>>) <= RegistrarCap /\ Len(<<>>) <= MaxPending
      BY <1>e, PipelineAssumption
    <2>3. signals \in [term : BOOLEAN, hup : BOOLEAN, down : BOOLEAN]  BY DEF Init
    <2> QED  BY <2>1, <2>2, <2>3, <1>a, <1>c, <1>d DEF TypeInv, DataInv
  <1>2. LoadsInv
    <2>1. NoReload \in SenderType /\ NoReload.pc = "idle"  BY DEF NoReload, SenderType
    <2>2. /\ sender \in [Senders -> SenderType] /\ \A s \in Senders : sender[s].pc = "idle"
      BY <2>1 DEF Init
    <2>3. /\ conf \in ConfType /\ conf.lc = 1 /\ conf.loads = 1
          /\ \A r \in Receivers : conf.of[r] = 1
      BY DEF Init, ConfType
    <2>4. Asked = 1  BY <2>3 DEF Asked, Init
    <2>5. "main" \in Senders  BY DEF Senders
    <2> QED  BY <2>2, <2>3, <2>4, <2>5, <1>c DEF LoadsInv
  <1>3. ReloadInv
    <2>1. \A s \in Senders : sender[s].pc = "idle"  BY DEF Init, NoReload
    <2>2. Agree  BY DEF Agree, Init
    <2> QED  BY <2>1, <2>2 DEF ReloadInv
  <1>4. AdminInv
    <2>1. adm = NewServer(run.binds[1])  BY DEF Init
    <2> QED  BY <2>1, <1>c DEF NewServer, AdminInv, AdmType
  <1> DEFINE st == Stages(data, at["harvester"], Lines)
  <1>5. \A k \in 0 .. 6 : st[k] = {}
    <2>1. StagesAre(st, data, at["harvester"], Lines)  BY StageValues
    <2> HIDE DEF st
    <2>2. st[0] = {} /\ st[1] = {} /\ st[2] = {} /\ st[3] = {} /\ st[4] = {} /\ st[5] = {} /\ st[6] = {}
      BY <2>1, <1>a, <1>d, <1>e, ElemsEmpty DEF StagesAre, Lined
    <2> QED  BY <2>2
  <1>6. st[7] = 1 .. Lines
    <2>1. StagesAre(st, data, at["harvester"], Lines)  BY StageValues
    <2> HIDE DEF st
    <2> QED  BY <2>1, <1>d DEF StagesAre
  <1>7. OrderInv
    <2>1. InOrder(st)
      <3> HIDE DEF st
      <3>1. \A j, k \in 0 .. 7 : j < k => j \in 0 .. 6  OBVIOUS
      <3> QED  BY <3>1, <1>5 DEF InOrder
    <2>2. SeqsInv  BY <1>d, <1>e, RisingEmpty DEF SeqsInv, PayloadsRise
    <2> QED  BY <2>1, <2>2, <1>c, <1>d DEF OrderInv
  <1>8. AckInv  BY <1>d, RisingEmpty, ElemsEmpty DEF AckInv
  <1>9. EndInv  BY <1>a, <1>c, <1>d DEF EndInv, Init
  <1>10. KeptInv
    <2>1. 7 \in 0 .. 7  OBVIOUS
    <2> QED  BY <2>1, <1>5, <1>6, <1>d DEF KeptInv
  <1> QED  BY <1>1, <1>2, <1>3, <1>4, <1>7, <1>8, <1>9, <1>10 DEF IndInv

LEMMA StepInv ==
  ASSUME IndInv, [Next]_vars
  PROVE  IndInv'
  <1> USE DEF IndInv
  <1>1. TypeInv'  BY TypeStep
  <1>2. LoadsInv' /\ ReloadInv'  BY LoadsStep
  <1>3. AdminInv'  BY AdminStep
  <1>4. OrderInv' /\ KeptInv'  BY OrderStep
  <1>5. AckInv'  BY AckStep
  <1>6. EndInv'  BY EndStep
  <1> QED  BY <1>1, <1>2, <1>3, <1>4, <1>5, <1>6

\* The inductive invariant holds throughout: the types, reloads one at a time, the
\* REST server's sockets, and the stages of the lines in order.  The theorems below
\* follow from it (log-courier.go, Run; core/pipeline.go; stdin_registrar.go, Run).
THEOREM Inductive == Spec => []IndInv
  <1>1. Init => IndInv  BY InitInv
  <1>2. IndInv /\ [Next]_vars => IndInv'  BY StepInv
  <1> QED  BY <1>1, <1>2, PTL DEF Spec

\* Routines, channels and configurations keep to their values and bounds, for any
\* cases, sizes and capacities (log-courier.go, Run and reloadConfig; core/pipeline.go).
THEOREM TypeCorrect == Spec => []TypeOK
  <1>1. IndInv => TypeOK
    <2> SUFFICES ASSUME IndInv  PROVE  TypeOK
      OBVIOUS
    <2>1. TypeInv /\ LoadsInv /\ AdminInv  BY DEF IndInv
    <2>2. conf.loads \in 1 .. Len(run.binds)
      <3>1. conf.loads \in Nat /\ conf.loads >= 1 /\ Asked <= Len(run.binds) /\ Len(run.binds) \in Nat
        BY <2>1, CaseType DEF LoadsInv, ConfType, TypeInv
      <3> QED  BY <3>1 DEF Asked
    <2>3. conf.of \in [Receivers -> 1 .. conf.loads]
      BY <2>1 DEF LoadsInv, ConfType
    <2>4. adm.sockets \subseteq Binds  BY <2>1 DEF AdminInv, AdmType
    <2> QED  BY <2>1, <2>2, <2>3, <2>4 DEF TypeOK, TypeInv, DataInv, Pcs
  <1> QED  BY <1>1, Inductive, PTL

\* The program never exits with something left undone: reading files, the registrar
\* has taken every acknowledgement; reading the standard input to its end, every
\* line has been acknowledged that was neither filtered nor dropped by the spooler
\* (log-courier.go:78-163, 318-329; stdin_registrar.go:54-104).
THEOREM ExitComplete == Spec => []ExitsComplete
  <1>1. IndInv => ExitsComplete
    <2> SUFFICES ASSUME IndInv, at["main"] = "exited"  PROVE  ExitsComplete
      BY DEF ExitsComplete, AcksSaved, StdinDelivered
    <2>1. TypeInv /\ OrderInv /\ AckInv /\ EndInv /\ KeptInv  BY DEF IndInv
    <2>2. at["registrar"] = "done"
      <3>1. "registrar" \in Segments  BY DEF Segments
      <3> QED  BY <3>1, <2>1 DEF EndInv
    <2>t. data.acked \subseteq Nat /\ data.registered \in Nat  BY <2>1, DataTypes
    <2> DEFINE st == Stages(data, at["harvester"], Lines)
    <2>v. StagesAre(st, data, at["harvester"], Lines)  BY StageValues
    <2>0. \A x \in data.acked : x \in 1 .. data.read /\ x \notin run.filtered /\ x \notin data.dropped
      <3>1. \A x \in st[0] : x \in 1 .. data.read /\ x \notin run.filtered /\ x \notin data.dropped
        BY <2>1 DEF KeptInv
      <3> HIDE DEF st
      <3> QED  BY <3>1, <2>v DEF StagesAre
    <2>3. ASSUME Files, data.acked # {}
          PROVE  data.registered \in data.acked /\ \A n \in data.acked : n <= data.registered
      <3>1. data.registrarChan = <<>> /\ at["publisher"] = "done"  BY <2>1, <2>2, <2>3 DEF EndInv
      <3>2. data.ack = 0  BY <2>1, <3>1 DEF AckInv
      <3>3. \A n \in data.acked : n <= data.registered \/ n = 0
        BY <2>1, <3>1, <3>2, ElemsEmpty DEF AckInv
      <3>4. \A n \in data.acked : n <= data.registered /\ n # 0
        BY <3>3, <2>0, <2>t
      <3>5. data.registered # 0  BY <3>4, <2>3, <2>t
      <3> QED  BY <3>4, <3>5, <2>1 DEF AckInv
    <2>4. ASSUME Stdin, ~data.stop
          PROVE  data.acked = (1 .. Lines) \ (run.filtered \cup data.dropped)
      <3>1. data.read = Lines  BY <2>1, <2>2, <2>4 DEF EndInv
      <3>2. ASSUME NEW n \in 1 .. Lines, n \notin run.filtered \cup data.dropped  PROVE  n \in data.acked
        <4>1. PICK k \in 0 .. 7 : n \in st[k]  BY <2>1, <2>4, <3>2 DEF KeptInv
        <4>2. \A l \in 1 .. 6 : st[l] = {}  BY <2>1, <2>2, <2>4, NothingLeft
        <4> HIDE DEF st
        <4>3. st[7] = {}
          <5>1. st[7] = Lines + 1 .. Lines /\ Lines \in Nat  BY <2>v, <3>1, <2>1, DataTypes DEF StagesAre
          <5> QED  BY <5>1
        <4>4. k = 0  BY <4>1, <4>2, <4>3
        <4> QED  BY <4>1, <4>4, <2>v DEF StagesAre
      <3> QED  BY <3>1, <3>2, <2>0
    <2> QED  BY <2>3, <2>4 DEF ExitsComplete, AcksSaved, StdinDelivered
  <1> QED  BY <1>1, Inductive, PTL

\* Between reloads all segments work with one configuration that was loaded to its
\* end, however reloads and the other routines interleave, unless two reloads
\* overlap (log-courier.go:277-316, core/pipeline.go:71-85).
THEOREM ConfigsAgreed == Spec => []ConfigsAgree
  <1>1. IndInv => ConfigsAgree
    BY DEF IndInv, ReloadInv, Agree, ConfigsAgree
  <1> QED  BY <1>1, Inductive, PTL

\* The REST server can be reached until the shutdown, through any sequence of
\* reloads with TCP addresses, the ones that wait for another to be stopped
\* included (admin/server.go:96-176).
THEOREM AdminReachable == Spec => []AdminListens
  <1>1. IndInv => AdminListens
    BY DEF IndInv, AdminInv, AdminListens
  <1> QED  BY <1>1, Inductive, PTL
=============================================================================
