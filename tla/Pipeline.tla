------------------------------ MODULE Pipeline ------------------------------
(***************************************************************************)
(* The whole program: the main routine with its signals, reloads from a    *)
(* signal and from the REST server, and the segments of the pipeline with  *)
(* the channels between them (log-courier.go, core/pipeline.go,            *)
(* stdin_registrar.go, admin/server.go).  What a segment does in detail is *)
(* in its own module: here it takes, holds and passes on lines, takes      *)
(* configurations where it waits for one, and ends.  The program reads     *)
(* files, or its standard input, which may have an end.                    *)
(***************************************************************************)
EXTENDS AdminServer, Integers, Sequences, Functions

CONSTANTS Cases,         \* what the program may be run on: the mode ("files" or "stdin"),
                         \* the number of lines, those that the codec drops, whether
                         \* the standard input ends after them or stays open, and the
                         \* admin address in each configuration; the program starts
                         \* with the first of them, so that they bound the reloads
          SpoolSize,
          InputCap,      \* 16 in the code
          RegistrarCap,  \* 16 in the code
          MaxPending     \* maximum pending payloads

ASSUME PipelineAssumption ==
    /\ \A c \in Cases : /\ c.mode \in {"files", "stdin"} /\ c.lines \in Nat
                        /\ c.filtered \subseteq 1 .. c.lines /\ c.ends \in BOOLEAN
                        /\ c.binds \in Seq(Binds) /\ c.binds # <<>>
    /\ SpoolSize \in Nat \ {0} /\ InputCap \in Nat \ {0} /\ RegistrarCap \in Nat \ {0}
    /\ MaxPending \in Nat \ {0}

VARIABLES
    run,      \* the case that is run
    at,       \* where each routine is
    signals,  \* term, hup: signals not yet taken; down: the shutdown channel is closed
    sender,   \* a running reload per routine that may make one
    conf,     \* lc.config, the configurations loaded, and what each segment has
    data,     \* lines and acknowledgements on their way
    adm       \* the REST server

vars == <<run, at, signals, sender, conf, data, adm>>

Files == run.mode = "files"
Stdin == run.mode = "stdin"
Lines == run.lines

FlushMark == 0
Found == 0    \* what a prospector tells the registrar

Segments  == IF Files THEN {"admin", "prospector", "spooler", "publisher", "registrar"}
             ELSE {"spooler", "publisher", "registrar"}
Receivers == Segments \ {"registrar"}
Routines  == {"main", "harvester", "admin", "prospector", "spooler", "publisher", "registrar"}
Senders   == {"main", "api"}

Goto(r, pc) == at' = [at EXCEPT ![r] = pc]

-----------------------------------------------------------------------------
(* Lines: harvester, spooler, publisher, registrar. *)

DataKept == UNCHANGED <<run, signals, sender, conf, adm>>

\* LastEventOffset, when the codec is a filter, counts the lines it drops.  A
\* harvester that is stopped reads on until it sees it.
HarvesterReads ==
    /\ at["harvester"] = "read"
    /\ data.read < Lines
    /\ data' = [data EXCEPT !.read = @ + 1]
    /\ Goto("harvester", IF data.read + 1 \in run.filtered THEN "read" ELSE "send")
    /\ DataKept

HarvesterSends ==
    /\ at["harvester"] = "send"
    /\ Len(data.input) < InputCap
    /\ data' = [data EXCEPT !.input = Append(@, data.read)]
    /\ Goto("harvester", "read")
    /\ DataKept

\* eventCallback drops the line when the harvester is stopped.
HarvesterGivesUp ==
    /\ at["harvester"] = "send" /\ data.stop
    /\ Goto("harvester", "read")
    /\ UNCHANGED data /\ DataKept

\* The end of a stream ends its harvester.  A stop is seen at the end of a file,
\* or when a read has returned and a measurement is due, in which case a line of
\* the stream that it read is lost; a read of an idle stream does not return.
HarvesterEnds ==
    /\ at["harvester"] = "read"
    /\ \/ Stdin /\ data.read = Lines /\ run.ends
       \/ Stdin /\ data.read < Lines /\ data.stop
       \/ Files /\ data.stop
    /\ Goto("harvester", "done")
    /\ UNCHANGED data /\ DataKept

SpoolerTakes ==
    /\ at["spooler"] = "loop" /\ data.input # <<>>
    /\ LET x == Head(data.input)
           spool == IF x = FlushMark THEN data.spool ELSE Append(data.spool, x)
       IN  /\ data' = [data EXCEPT !.input = Tail(@), !.spool = spool]
           /\ Goto("spooler", IF (x = FlushMark /\ spool # <<>>) \/ Len(spool) >= SpoolSize
                              THEN "send" ELSE "loop")
    /\ DataKept

SpoolerTimer ==
    /\ at["spooler"] = "loop" /\ data.spool # <<>>
    /\ Goto("spooler", "send")
    /\ UNCHANGED data /\ DataKept

SpoolerSends ==
    /\ at["spooler"] = "send" /\ data.spoolChan = <<>>
    /\ data' = [data EXCEPT !.spoolChan = data.spool, !.spool = <<>>]
    /\ Goto("spooler", "loop")
    /\ DataKept

SpoolerStops ==
    /\ at["spooler"] \in {"loop", "send"} /\ signals.down
    /\ data' = [data EXCEPT !.spool = <<>>]
    /\ Goto("spooler", "done")
    /\ DataKept

\* A spool is sent, or held while too many are pending.
PublisherTakes ==
    /\ at["publisher"] = "loop" /\ ~data.closing
    /\ data.spoolChan # <<>> /\ data.next = <<>>
    /\ data' = IF Len(data.pending) < MaxPending
               THEN [data EXCEPT !.spoolChan = <<>>, !.pending = Append(@, data.spoolChan)]
               ELSE [data EXCEPT !.spoolChan = <<>>, !.next = data.spoolChan]
    /\ UNCHANGED at /\ DataKept

\* The next line of the oldest payload is acknowledged (OrderedDelivery).
Acknowledged ==
    /\ at["publisher"] = "loop" /\ data.pending # <<>>
    /\ LET first == Head(data.pending)
           rest  == IF Tail(first) = <<>> THEN Tail(data.pending)
                    ELSE <<Tail(first)>> \o Tail(data.pending)
       IN  data' = [data EXCEPT !.acked = @ \cup {Head(first)}, !.ack = Head(first), !.pending = rest]
    /\ Goto("publisher", "register")
    /\ DataKept

\* OnAck sends it on and then looks at the spool that is held.
PublisherRegisters ==
    /\ at["publisher"] = "register"
    /\ Len(data.registrarChan) < RegistrarCap
    /\ LET d == [data EXCEPT !.registrarChan = Append(@, data.ack), !.ack = 0]
       IN  data' = IF data.next = <<>> \/ Len(data.pending) >= MaxPending THEN d
                   ELSE [d EXCEPT !.pending = Append(@, data.next), !.next = <<>>]
    /\ Goto("publisher", "loop")
    /\ DataKept

PublisherStops ==
    /\ at["publisher"] = "loop" /\ signals.down /\ ~data.closing
    /\ data' = [data EXCEPT !.closing = TRUE, !.next = <<>>]
    /\ UNCHANGED at /\ DataKept

\* The endpoints finish once nothing is pending, or when their connections fail.
PublisherDone ==
    /\ at["publisher"] = "loop" /\ data.closing
    /\ data.pending = <<>> /\ ~data.revived
    /\ Goto("publisher", "done")
    /\ UNCHANGED data /\ DataKept

PublisherAbandons ==
    /\ at["publisher"] = "loop" /\ data.closing
    /\ data.pending # <<>>
    /\ data' = [data EXCEPT !.pending = <<>>]
    /\ Goto("publisher", "done")
    /\ DataKept

\* The registrar of files or of the standard input: the latter ends when the last
\* line is acknowledged.
RegistrarTakes ==
    /\ at["registrar"] = "run" /\ data.registrarChan # <<>>
    /\ LET x == Head(data.registrarChan)
           offset == IF x = Found THEN data.registered ELSE x
       IN  /\ data' = [data EXCEPT !.registrarChan = Tail(@), !.registered = offset]
           /\ Goto("registrar", IF data.wait # -1 /\ offset >= data.wait THEN "done" ELSE "run")
    /\ DataKept

RegistrarTold ==
    /\ at["registrar"] = "run" /\ data.told # -1
    /\ data' = [data EXCEPT !.wait = data.told, !.told = -1]
    /\ Goto("registrar", IF data.registered = data.told THEN "done" ELSE "run")
    /\ DataKept

\* Mutant of RegistrarStops: the registrar heeds the shutdown.
RegistrarStopsEarly ==
    /\ at["registrar"] = "run"
    /\ signals.down
    /\ Goto("registrar", "done")
    /\ UNCHANGED data /\ DataKept

\* That of files ends when prospector and publisher have closed their spools,
\* that of the standard input at once.
RegistrarStops ==
    /\ at["registrar"] = "run"
    /\ IF Stdin THEN signals.down
       ELSE /\ data.registrarChan = <<>>
            /\ at["prospector"] = "done" /\ at["publisher"] = "done"
    /\ Goto("registrar", "done")
    /\ UNCHANGED data /\ DataKept

-----------------------------------------------------------------------------
(* The prospector, which scans and waits. *)

ProspectorScans ==
    /\ at["prospector"] = "scan"
    /\ \/ UNCHANGED data
       \/ /\ Len(data.registrarChan) < RegistrarCap
          /\ data' = [data EXCEPT !.registrarChan = Append(@, Found)]
    /\ Goto("prospector", "idle")
    /\ DataKept

ProspectorWakes ==
    /\ at["prospector"] = "idle"
    /\ Goto("prospector", "scan")
    /\ UNCHANGED data /\ DataKept

\* Mutant of ProspectorStops: harvesters are waited for only.
ProspectorJoins ==
    /\ at["prospector"] = "idle" /\ signals.down
    /\ Goto("prospector", "stop")
    /\ UNCHANGED data /\ DataKept

\* All harvesters are stopped and waited for.
ProspectorStops ==
    /\ at["prospector"] = "idle" /\ signals.down
    /\ data' = [data EXCEPT !.stop = TRUE]
    /\ Goto("prospector", "stop")
    /\ DataKept

ProspectorDone ==
    /\ at["prospector"] = "stop" /\ at["harvester"] = "done"
    /\ Goto("prospector", "done")
    /\ UNCHANGED data /\ DataKept

-----------------------------------------------------------------------------
(* The REST server. *)

AdminKept == UNCHANGED <<run, signals, sender, conf, data>>

AdminShutdown ==
    /\ at["admin"] = "run" /\ signals.down /\ ~adm.shutting
    /\ \E gone \in BOOLEAN : adm' = OnShutdown(adm, gone)
    /\ UNCHANGED at /\ AdminKept

AdminStopped ==
    /\ adm.closing = "open"
    /\ adm' = ServerStopped(adm)
    /\ UNCHANGED at /\ AdminKept

AdminOldClosed ==
    /\ at["admin"] = "run" /\ adm.closing = "closed"
    /\ \E gone \in BOOLEAN : adm' = OldServerClosed(adm, gone)
    /\ Goto("admin", IF adm'.done THEN "done" ELSE "run")
    /\ AdminKept

-----------------------------------------------------------------------------
(* Reloads.  s is the main routine or that of a request to the REST server.   *)

\* lc.config = NewConfig(), which is loaded from the file afterwards.
LoadBegins(s) ==
    /\ conf' = [conf EXCEPT !.lc = conf.loads + 1, !.loads = @ + 1,
                            !.raced = @ \/ \E o \in Senders \ {s} : sender[o].pc # "idle"]
    /\ sender' = [sender EXCEPT ![s].pc = "load", ![s].mine = conf.loads + 1]

NoReload == [pc |-> "idle", mine |-> 0, config |-> 0, todo |-> {}]

\* The file has an error: nothing is sent, and lc.config stays as far as it got.
LoadFails(s) ==
    /\ sender[s].pc = "load"
    /\ sender' = [sender EXCEPT ![s] = NoReload]
    /\ at' = IF s = "main" THEN [at EXCEPT !["main"] = "loop"] ELSE at
    /\ UNCHANGED <<run, signals, conf, data, adm>>

Loaded(s) ==
    /\ sender[s].pc = "load"
    /\ conf' = [conf EXCEPT !.loaded = @ \cup {sender[s].mine}]
    /\ sender' = [sender EXCEPT ![s].pc = "loaded"]
    /\ UNCHANGED <<run, at, signals, data, adm>>

\* SendConfig(lc.config), which another reload may have replaced.
SendConfig(s) ==
    /\ sender[s].pc = "loaded"
    /\ sender' = [sender EXCEPT ![s].pc = "send", ![s].mine = 0, ![s].config = conf.lc, ![s].todo = Receivers]
    /\ UNCHANGED <<run, at, signals, conf, data, adm>>

\* r waits where it may be given a configuration.
Waits(r) ==
    at[r] \in CASE r = "admin"      -> {"run"}
               [] r = "prospector" -> {"idle"}
               [] r = "spooler"    -> {"loop", "send"}
               [] r = "publisher"  -> {"loop"}

\* The spooler drops the spool it wants to send unless the timeout has passed
\* (Spooler).  A publisher that shuts down may get new endpoints.
Given(r, c) ==
    CASE r = "admin" ->
           (\E gone \in BOOLEAN : adm' = OnConfig(adm, run.binds[c], gone)) /\ UNCHANGED <<at, data>>
      [] r = "spooler" ->
           /\ \/ UNCHANGED <<at, data>>
              \/ /\ at["spooler"] = "send"
                 /\ data' = [data EXCEPT !.spool = <<>>, !.dropped = @ \cup Range(data.spool)]
                 /\ Goto("spooler", "loop")
           /\ UNCHANGED adm
      [] r = "publisher" ->
           /\ \/ UNCHANGED data
              \/ data.closing /\ data' = [data EXCEPT !.revived = TRUE]
           /\ UNCHANGED <<at, adm>>
      [] OTHER -> UNCHANGED <<at, data, adm>>

\* Mutant of Deliver: a busy segment is passed over.
DeliverIfReady(s, r) ==
    /\ sender[s].pc = "send" /\ r \in sender[s].todo
    /\ sender' = [sender EXCEPT ![s].todo = @ \ {r}]
    /\ IF Waits(r)
       THEN Given(r, sender[s].config) /\ conf' = [conf EXCEPT !.of[r] = sender[s].config]
       ELSE UNCHANGED <<at, data, adm, conf>>
    /\ UNCHANGED <<run, signals>>

\* The segments in any order, each when it is ready.
Deliver(s, r) ==
    /\ sender[s].pc = "send" /\ r \in sender[s].todo /\ Waits(r)
    /\ sender' = [sender EXCEPT ![s].todo = @ \ {r}]
    /\ Given(r, sender[s].config)
    /\ conf' = [conf EXCEPT !.of[r] = sender[s].config]
    /\ UNCHANGED <<run, signals>>

Sent(s) ==
    /\ sender[s].pc = "send" /\ sender[s].todo = {}
    /\ sender' = [sender EXCEPT ![s] = NoReload]
    /\ at' = IF s = "main" THEN [at EXCEPT !["main"] = "loop"] ELSE at
    /\ UNCHANGED <<run, signals, conf, data, adm>>

\* Reloads that were made or asked for.
Asked == conf.loads + (IF signals.hup THEN 1 ELSE 0)

\* POST /reload, in a routine of the HTTP server.
ApiReload ==
    /\ Files /\ adm.bind \in adm.sockets
    /\ sender["api"].pc = "idle" /\ Asked < Len(run.binds)
    /\ LoadBegins("api")
    /\ UNCHANGED <<run, at, signals, data, adm>>

-----------------------------------------------------------------------------
(* The main routine. *)

MainKept == UNCHANGED <<run, conf, adm>>

Terminate ==
    /\ ~signals.term
    /\ signals' = [signals EXCEPT !.term = TRUE]
    /\ UNCHANGED <<at, sender, data>> /\ MainKept

Hangup ==
    /\ ~signals.hup /\ Asked < Len(run.binds)
    /\ signals' = [signals EXCEPT !.hup = TRUE]
    /\ UNCHANGED <<at, sender, data>> /\ MainKept

\* cleanShutdown stops the harvester of the standard input first.
TakeTerm ==
    /\ at["main"] = "loop" /\ signals.term
    /\ IF Stdin
       THEN /\ data' = [data EXCEPT !.stop = TRUE]
            /\ Goto("main", "stop") /\ UNCHANGED signals
       ELSE /\ signals' = [signals EXCEPT !.down = TRUE]
            /\ Goto("main", "join") /\ UNCHANGED data
    /\ UNCHANGED sender /\ MainKept

HarvesterStopped ==
    /\ at["main"] = "stop" /\ at["harvester"] = "done"
    /\ signals' = [signals EXCEPT !.down = TRUE]
    /\ Goto("main", "join")
    /\ UNCHANGED <<sender, data>> /\ MainKept

TakeHangup ==
    /\ at["main"] = "loop" /\ signals.hup
    /\ signals' = [signals EXCEPT !.hup = FALSE]
    /\ LoadBegins("main")
    /\ Goto("main", "reload")
    /\ UNCHANGED <<run, data, adm>>

HarvesterFinished ==
    /\ at["main"] = "loop" /\ Stdin /\ at["harvester"] = "done"
    /\ Goto("main", "flush")
    /\ UNCHANGED <<signals, sender, data>> /\ MainKept

\* Flush, and Wait for the last offset that was read.
Flush ==
    /\ at["main"] = "flush" /\ Len(data.input) < InputCap
    /\ data' = [data EXCEPT !.input = Append(@, FlushMark), !.told = data.read]
    /\ Goto("main", "wait")
    /\ UNCHANGED <<signals, sender>> /\ MainKept

Waited ==
    /\ at["main"] = "wait" /\ at["registrar"] = "done"
    /\ signals' = [signals EXCEPT !.down = TRUE]
    /\ Goto("main", "join")
    /\ UNCHANGED <<sender, data>> /\ MainKept

Join ==
    /\ at["main"] = "join" /\ \A s \in Segments : at[s] = "done"
    /\ Goto("main", "exited")
    /\ UNCHANGED <<signals, sender, data>> /\ MainKept

-----------------------------------------------------------------------------
Init ==
    /\ run \in Cases
    /\ at = [r \in Routines |-> CASE r \in {"main", "spooler", "publisher"} -> "loop"
                                 [] r = "harvester" -> "read"
                                 [] r = "prospector" -> "scan"
                                 [] OTHER -> "run"]
    /\ signals = [term |-> FALSE, hup |-> FALSE, down |-> FALSE]
    /\ sender = [s \in Senders |-> NoReload]
    /\ conf = [lc |-> 1, loads |-> 1, loaded |-> {1}, of |-> [r \in Receivers |-> 1], raced |-> FALSE]
    /\ data = [read |-> 0, stop |-> FALSE, input |-> <<>>, spool |-> <<>>, dropped |-> {},
               spoolChan |-> <<>>, next |-> <<>>, pending |-> <<>>, acked |-> {}, ack |-> 0,
               closing |-> FALSE, revived |-> FALSE, registrarChan |-> <<>>, registered |-> 0,
               told |-> -1, wait |-> -1]
    /\ adm = NewServer(run.binds[1])

Harvest == HarvesterReads \/ HarvesterSends \/ HarvesterGivesUp \/ HarvesterEnds
Spool == SpoolerTakes \/ SpoolerTimer \/ SpoolerSends \/ SpoolerStops
Publish == PublisherTakes \/ Acknowledged \/ PublisherRegisters \/ PublisherStops \/ PublisherDone
Register == RegistrarTakes \/ RegistrarTold \/ RegistrarStops
Admin == Files /\ (AdminShutdown \/ AdminStopped \/ AdminOldClosed)
Reloading(s) == LoadFails(s) \/ Loaded(s) \/ SendConfig(s) \/ Sent(s)
Main == \/ TakeTerm \/ HarvesterStopped \/ TakeHangup \/ HarvesterFinished
        \/ Flush \/ Waited \/ Join

\* Nothing runs on once the main routine has returned.
Next ==
    /\ at["main"] # "exited"
    /\ \/ Harvest \/ Spool \/ Publish \/ PublisherAbandons \/ Register \/ Admin
       \/ Files /\ (ProspectorScans \/ ProspectorWakes \/ ProspectorStops \/ ProspectorDone)
       \/ \E s \in Senders : Reloading(s) \/ \E r \in Receivers : Deliver(s, r)
       \/ ApiReload \/ Hangup \/ Terminate \/ Main

Spec == Init /\ [][Next]_vars

\* Every routine goes on while it can, servers acknowledge what they are sent.
\* The prospector, which looks at several channels again and again, sees each of
\* them in the end, and a channel lets those who wait to send have their turn.
FairSpec ==
    /\ Spec
    /\ WF_vars(Harvest) /\ WF_vars(Spool) /\ WF_vars(Publish) /\ WF_vars(Register)
    /\ WF_vars(Admin) /\ WF_vars(Main)
    /\ WF_vars(Reloading("main")) /\ SF_vars(\E r \in Receivers : Deliver("main", r))
    /\ WF_vars(Files /\ (ProspectorScans \/ ProspectorDone))
    /\ SF_vars(Files /\ ProspectorStops)
    /\ SF_vars(PublisherRegisters)

-----------------------------------------------------------------------------
(* Properties. *)

\* Routines, channels and configurations keep to their values and bounds.
TypeOK ==
    /\ run \in Cases
    /\ at \in [Routines -> {"loop", "reload", "flush", "wait", "stop", "join", "exited", "read",
                            "send", "done", "scan", "idle", "run", "register"}]
    /\ conf.loads \in 1 .. Len(run.binds) /\ conf.of \in [Receivers -> 1 .. conf.loads]
    /\ Len(data.input) <= InputCap /\ Len(data.registrarChan) <= RegistrarCap
    /\ Len(data.pending) <= MaxPending /\ adm.sockets \subseteq Binds

\* Reading files, the program exits only when the registrar has taken every
\* acknowledgement that the publisher was given, whatever order the segments end in.
AcksSaved ==
    Files /\ at["main"] = "exited" /\ data.acked # {} =>
        data.registered \in data.acked /\ \A n \in data.acked : n <= data.registered

\* Reading the standard input to its end, the program exits only when every line
\* has been acknowledged that the codec did not drop, except for what the spooler
\* drops when a configuration arrives.
StdinDelivered ==
    Stdin /\ at["main"] = "exited" /\ ~data.stop =>
        data.acked = (1 .. Lines) \ (run.filtered \cup data.dropped)

\* The program never exits with something left undone.
ExitsComplete == AcksSaved /\ StdinDelivered

\* Between reloads all segments work with the same configuration, and one that
\* has been loaded to its end, unless two reloads were made at once.
ConfigsAgree ==
    (\A s \in Senders : sender[s].pc = "idle") /\ ~conf.raced /\ ~signals.down =>
        \A r, q \in Receivers : conf.of[r] = conf.of[q] /\ conf.of[r] \in conf.loaded

\* The REST server can be reached until the shutdown whatever addresses are
\* configured, where they are TCP addresses.
AdminListens == Files /\ ~signals.down /\ UnixBinds = {} => adm.bind \in adm.sockets

\* What keeps the program from ending: an acknowledgement that a registrar which
\* has ended is to be told, a last line that will never be acknowledged, endpoints
\* that a reload added after the shutdown, a stop channel of the REST server that
\* was made too late, a harvester that waits for an idle standard input.
Stuck ==
    \/ at["publisher"] = "register" /\ at["registrar"] = "done" /\ Len(data.registrarChan) = RegistrarCap
    \/ at["main"] = "wait" /\ Lines \in run.filtered \cup data.dropped
    \/ data.revived
    \/ adm.closing = "never"
    \/ Stdin /\ data.stop /\ at["harvester"] = "read" /\ data.read = Lines /\ ~run.ends

\* A signal to terminate ends the program, at any moment of a reload, of reading
\* and of another way to end.
TermEnds == signals.term ~> (at["main"] = "exited" \/ Stuck)
=============================================================================
