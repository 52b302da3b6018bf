# Log Courier in TLA+

Log Courier tails log files and ships their lines to Logstash. Its central
promise is "At-least-once delivery of events to the Logstash pipeline - a Log
Courier crash should never lose events" (`README.md`). This project models
the parts of the program that keep that promise, checks them with TLC and proves
the most important results with TLAPS.

## Inventory

    files -> Prospector -> Harvester + codecs -> Spooler -> Publisher -> Endpoint -> Transport -> server
                 |                                             |
                 +----------- discover / rename -> Registrar <-+ acks        Registrar -> state file

| Component | State | Operations | Talks to | What is hard |
|---|---|---|---|---|
| Prospector (`lc-lib/prospector`) | files by name, orphans, harvesters | scan, resume, rotate, clean up | starts harvesters; sends discover, rename and delete events to the registrar | rotation between two looks at a file; discover events against acknowledgements |
| Harvester (`lc-lib/harvester`) | file offset, line buffer | read a line, truncation, dead time, stop | puts events into the spooler's channel | the file changes between two looks at it; a blocked pipeline |
| Codecs (`lc-lib/codecs`) | last offset, buffered lines | event, reset, teardown, timed flush | each hands events to the next | the multiline timer runs beside `Event` |
| Spooler (`lc-lib/spooler`) | the spool being filled, timer | add, flush, timeout, reload, shutdown | sends spools to the publisher's channel | a reload or shutdown while it waits for the publisher |
| Publisher (`lc-lib/publisher`) | payload list, resend list, held spool, counters | spool, Started, Failed, Finished, ACK, PONG, timeouts, reload, shutdown | queues payloads on endpoints; sends ordered acks to the registrar | ACKs out of order, failures with ACKs under way, resends of partly acknowledged payloads |
| Endpoint and sink (`lc-lib/endpoint`) | status, ready / failed / ordered / timeout lists, pending payloads | status changes, queueing, moving, closing | owns a transport; calls the publisher as observer | two views of a failure (publisher's and transport's); a timer that cannot be taken back |
| Methods (`lc-lib/publisher/method_*.go`) | active or current server | connect, fail over, reload | add and close endpoints | which endpoint is closing when another fails |
| Transport (`lc-lib/transports/tcp`) and address pool | connection, channels | connect, send, receive, fail, shut down | events on the sink's channel | three goroutines and a publisher around four channels |
| Registrar (`lc-lib/registrar`) | offset per file | ack, discover, rename, delete, save | state file | the process dies between two file operations |
| Pipeline, stdin (`log-courier.go`, `lc-lib/core/pipeline.go`, `stdin_registrar.go`) | segments, wait group, configuration | start, reload, shutdown | closes the shared shutdown channel | who exits while others wait for them |
| Administration (`lc-lib/admin`, `lc-admin`) | listener, tree of statistics | REST, reload, change of address | main routine | a new server beside one that is closing |
| Internal list (`lc-lib/internallist`) | intrusive ring | push, remove, move | sink and publisher | moving elements that are in no list, pushing ones that are |
| Configuration, `lc-tlscert` | settings | parsing, prompts | | no behaviour over time |

The hazards, one per line of code where they bite, are in `PROJECT.json`.

## Modules

| Module | Models |
|---|---|
| `Payload` | `payload.go`: the acknowledgement arithmetic of one spool, as operators on records |
| `Transport` | `tcp.go`, `event.go` as the publisher sees them: connections, messages on them and the server behind them (external) |
| `Publisher` | `publisher.go`, `endpoint/*.go`, methods random and loadbalance, and the registrar behind its channel; extends `Transport` |
| `OrderedDelivery` | abstract specification: what publisher and registrar promise about one stream |
| `TcpTransport` | `tcp.go`, `wrap.go`, `addresspool.go`: three goroutines and their channels |
| `LinkEvents` | abstract specification: what a transport promises about its events |
| `InternalList` | `internallist/list.go`: the ring, pointer by pointer, as operators |
| `Sink` | `sink*.go`, methods failover and loadbalance, reloads; extends `InternalList` |
| `SinkTimeouts` | `sink_timeout.go`: the timeout list and its timer |
| `Spooler` | `spooler.go` |
| `RegistryFile` | `registrar_other.go`, `registrar_windows.go`, `LoadPrevious` and `Run` of `registrar.go` |
| `Prospector` | `prospector.go`, `info.go`, the life of a harvester in `harvester.go`, and the four registrar events |
| `LineReader`, `Codecs` | `linereader.go`; `plain.go`, `filter.go`, `multiline.go`: operators on records |
| `Harvester` | `harvester.go` byte by byte, with the routine of the multiline timeout and the prospector's decision to start it again; extends `Codecs`, which extends `LineReader` |
| `AdminServer` | the routine of `admin/server.go`, as operators on its state |
| `Pipeline` | `log-courier.go`, `core/pipeline.go`, `stdin_registrar.go`: main routine, signals, reloads, the segments and their channels; extends `AdminServer` |
| `PublisherProofs` | theorems about `Publisher`, and that it implements `OrderedDelivery` |
| `TcpTransportProofs` | theorems about `TcpTransport`, and that it implements `LinkEvents` |
| `SinkProofs` | theorems about `Sink` and `SinkTimeouts`, and the lemmas about the ring of `InternalList` |
| `HarvesterProofs` | theorems about `Harvester`, with the lemmas about `LineReader` and `Codecs` |
| `SpoolerProofs`, `RegistryProofs`, `ProspectorProofs`, `PipelineProofs` | theorems about the module of that name |
| `MC...` | instances for TLC |

### Payload, Transport and Publisher

The events of one file are numbered 1, 2, 3, ..., so a payload is the interval
`lo+1..hi` of offsets. `processed` and `payload`, which nothing reads, are not modelled.

The publisher is one goroutine. `runOnce` receives from one channel and runs the
whole handler, so an action is a whole handler: `SendSpool`/`HoldSpool` (spool
channel), `StartedIdle`, `StartedFailed`, `Failed`, `Finished`,
`FinishedClosing`, `Acked`, `Pong`, `Ignored` (event channel), `TimeoutPending`,
`TimeoutKeepalive`, `TimeoutBackoff`, `ConnectRandom` (timeouts), `Shutdown`. Handlers that end in
`tryQueueHeld` set `pc` to `"queueHeld"`; then only `QueueResend`,
`QueueNextSpool` and `QueueNothing` of the publisher are enabled, one per round
of the loop in `tryQueueHeld`, until that call has returned. Transports and the
registrar go on meanwhile, as in the program.

Channels are bounded sequences; an action that sends waits for room. Where
`OnAck` waits for the registrar's channel the model leaves the event at the head
of the event channel until the spool fits, so that the slot of the event is
freed later than in the program. One step of a transport is one pass of its
controller to the next event; the payload messages of a connection are a set,
since `ServerAck` may choose any, and pings merge. `Write` cannot fail in
`tcp.go`, so there is no error path for it. Delivery time estimates are left
open: `QueuePayload` may choose any ready endpoint that is not warming, and the first.
Timeouts may fire in any order and at any time; firing although an answer is
under way costs one of `MaxFaults`, as do failed connections, repeated ACKs and failed
registry writes. `RegistrarRun` stands for the registrar with one stream;
`Crash` keeps the state file and what the servers received and nothing else.

### TcpTransport

`ctl`, `snd` and `rcv` are the places where controller, sender and receiver
wait; a step is what a goroutine does between two of them. `failChan` and
`sendChan` are sequences of channels, one for each connection, because a
connection makes new ones and a publisher that waits in `Write`, `Ping` or
`Fail` goes on waiting on the one it found (`pub.chan`). The publisher is the
user of the transport: what it may call follows from the events it has
taken, as in `endpoint.go`. It sends a new payload while those that are not complete
(`pub.payloads`) are fewer than its "max pending payloads" (`limits.now`), and sends
payloads again, without a limit, that another connection or endpoint has lost. A reload
(`ReloadConfig`) gives the publisher a new limit and method. The transport gets them
(`netLimit`, `finishOnFail`) unless its certificates changed, when nobody heeds that it
asks for a restart, or the method passes it over; `sendChan` of a connection keeps
the capacity it was made with (`sendCap`). A transport is made with what the sink was
given first, in a program whose limit may have changed since (`InitialLimits`). `told` is the status the
events have told the publisher so far. The server answers what it was sent, or never. Framing, certificates and
the contents of messages are left out; the time a step takes is not modelled, so that
"network timeout" and "reconnect backoff" may always be over. With `Wrapped` a
write looks at `sendControl` between attempts (`wrap.go`, TLS);
plain TCP writes to the connection without a deadline, which nothing bounds, so
the run is about the first.

### InternalList, Sink and SinkTimeouts

`InternalList` changes the pointers in the code's order, so that misuse shows
what it would do to the ring; `Whole` says that the ring is one. `Sink` reduces
payloads to whether an endpoint has any pending, and keeps instead
everything that `Publisher` leaves out: the order of endpoints,
`s.config` (never updated: `first`), method failover with its position, method
loadbalance, and reloads, which may change the method. Its transports send what
`LinkEvents` allows. Once a reload has broken the ring the publisher
does nothing more in the model: walks over the ring may then end or not, and no
property claims anything of such states. Reloads stop at the shutdown; what
happens when one does not is in `Pipeline`.

In `SinkTimeouts` time is what is left to wait. `timer` and `tick` are apart
because stopping or resetting a Go timer leaves a tick in its channel.
A handler, or a callback of a timeout, registers or clears any timeouts.

### Spooler

A spool is an interval of events and its size in bytes. `pc` is `"select"` in
`Run`'s select and `"send"` in `sendSpool`'s; `after` says what the caller does
when `sendSpool` returns. `spoolSize` and `spoolMaxBytes` are the configuration in
force, which a reload replaces; a spool keeps, as history, the limit under which its
last event was added. `sendSpool` and `reloadConfig` call each other, but
whichever of the nested calls returns, all return together, so the depth
is not kept. `TakeFlush`, `TakeEvent`, `TakeTimer`, `Reload` and `Shutdown` are
the cases of the first select, `SendSpool`, `ReloadInSend` and `Shutdown` those of the second.

### RegistryFile

The registrar's state is abstracted to the number of spools it reflects. `pc`
is the next file operation of `writeRegistry`. `Crash` may come between any two
of them and anywhere else. File operations that have returned stay done: the
process dies, not the machine.

### Prospector

Files are inodes with a number of lines; `dir` is what paths lead to. Other
programs create, rename (also over an existing path), delete and append at any
moment. `info` holds the `prospectorInfo` structures together with the harvester
of each, `index` and `prospectors` are the two maps, `seen` stands for
`lastSeen >= iteration` (the clean up, after which nobody looks, resets it).
A scan is `StartScan` (Glob), one step per path, and `CleanUp` with the registrar
events of the whole scan. `processFile` holds the mutex, so the step of a path is one
action, and its branches are disjoint but for the order of a map and the age of
the file: `StatFails`, `IsDuplicate`, `IsRenamed`, `IsNew`, `IsSame`; `Updated`
is the end they share. What age a file has against "dead time" is left open.

A harvester opens, reads and stops by itself (`Open`, `Read`, `ReadBlocked`,
`StatCheck`); its result waits (`"done"`) until the prospector looks. It stops for
dead time only when it has read all there is: the code looks every ten seconds
and reads in between. What lies between harvesters and registrar is a queue,
since acknowledgements come in order (`AcksOrdered`); the registrar
applies events at once. Every change of a file adds a line, so that the size tells
the modification time; files are not truncated and inodes not used again.

### LineReader, Codecs and Harvester

A file is a sequence of the bytes that matter: a newline, a carriage return, and
a byte that makes a line match. A pass of `ReadSlice` is several steps
(`LineEnd`, `TooLong`, `Spill`, `Fill`), because the application may write
or truncate between them. Codecs are functions of their state and a line that
return the new state and the events handed on; `Harvester` runs the chain and
leaves the events in `out`, where the first waits for the pipeline. `owner` is
the goroutine that holds multiline's lock: the read loop, or the routine of
"previous timeout". Times are what they guarantee: a check of the file is
due only after two passes (ten seconds against a back off of one), and the dead
time is over only when the last pass ended at the end of the file; where
`patient` is false the pipeline may block for longer than it. Modification times
are the length and the number of truncations, so every change is seen by a `Stat`
after it. `covered` and `dropped` record the bytes sent, filtered or given up.

### AdminServer and Pipeline

`Pipeline` is about who waits for whom. `at` is where each routine is, `data`
the lines and acknowledgements in the channels between harvester, spooler, publisher
and registrar, `sender` the reloads that are under way (from a signal in the
main routine, from a request in the REST server) and what is still to
be delivered, `conf` which configuration each segment has. A case fixes the mode
(files or standard input), the lines, those the codec drops, whether the standard input
ends after them or stays open and idle, and the admin address
of each configuration. A harvester sees a stop when a read has returned or while it
waits for the spooler; a read of an idle stream does not return. The REST server's
routine is `AdminServer`, with the local variables of `Run` as a record, and the end of
the vendored `graceful.Server`, which may come between the calls of `Stop` and
`StopChan` (`gone`). That `go` statements start a routine,
logging, and the command line are left out.

## Runs

| Run | Result | What it shows |
|---|---|---|
| `random` | holds | sequence numbers and the network timeout; implements `OrderedDelivery`; every event is registered in the end and a shutdown ends. Two servers, two events, three faults, a crash, a shutdown |
| `loadbalance` | holds | two endpoints in use, so that ACKs arrive out of order: order, ownership and limits. Three events, one fault |
| `lb_once` | violated | an ACK of a first transmission acknowledges events of the second one |
| `spooler` | holds | order and limits of spools; nothing is skipped or stays behind without a reload |
| `registry` | holds | a saved state survives crashes and failing calls |
| `prospector` | holds | across rotation, deletion, a crash and late ACKs, what is resumed was acknowledged, and index, registrar and harvesters agree on the files |
| `harvester` | holds | offsets, contents and completeness of events over five configurations of buffer, codecs and faults; a stop ends the harvester |
| `transport` | holds | implements `LinkEvents`; a shut down transport ends, a reachable address is found, the publisher is left waiting in four known cases only, a reload of "max pending payloads" included |
| `timeouts` | holds | the list of timeouts stays sorted, none is forgotten |
| `sink` | holds | the ordered list stays a ring, the failover position follows and never leaves the list, a server is served by again and again, a shutdown ends |
| `failover_down` | violated | with failover and the preferred server down from the start, no other is connected to |
| `pipeline` | holds | nothing is left undone at the exit, segments agree on their configuration, the REST server stays reachable, a termination ends |

Properties, each with the mutation of the code that breaks it in `PROJECT.json`:

- `AcksInOrder`: every spool of acknowledgements continues where the one before
  it ends. `PayloadsConserved`: a payload that is not complete has one owner, an endpoint
  or the resend list. `PayloadLimit`, `ReadyAreActive`, `SequencesMatch`,
  `PendingWatched`: the limit and its counter, the ready list, the sequence
  numbers, the network timeout. `AtLeastOnce`: what is registered was
  acknowledged. `KeepsPromise`: refinement of `OrderedDelivery`, whose variables
  are variables of `Publisher` by the same names.
- `Delivery`, `ShutdownCompletes`: liveness of the publisher.
- `SpoolsInOrder`, `SendsAll`, `AllDelivered`: the spooler. `BytesLimited`: a spool of
  several events is smaller than the "spool max bytes" that was in force when its last
  event was added; `BytesInForce`: than the one in force when it is sent.
- `SurvivesCrashes`, `SurvivesOneFault`: the state file.
- `ResumesSafely`: no entry of the state file lies behind a line that was not
  acknowledged. `NoConflict`: no two entries have the same path. `IndexConsistent`:
  the index leads to a file that is known under this path.
  `OneHarvesterUnlessError`: no file is read twice, as long as no scan has met an
  error.
- `NothingPassedOver`: no offset to resume from lies behind a byte that was neither
  sent nor filtered, but for what `eventCallback` gave up. `EventsFaithful`: an event
  holds what the file has between its offsets. `SentOnce`: no byte leaves
  twice. `Harvested`: every completed line leaves in the end, over dead time, errors
  and restarts, and a truncation is noticed while the file is shorter than before.
  `StopEnds`: a stop ends the harvester even when the pipeline is blocked.
- `KeepsContract`: refinement of `LinkEvents`, with the status told and the event
  channel for its two variables. `StuckExplained`: the publisher waits for ever in
  `Write`, `Ping` or `Fail` only for one of four reasons.
  `TransportEnds`, `Reconnects`: liveness of the transport.
- `SoonestFirst`, `NeverForgotten`: the timeout list and its timer.
- `RingIntact`: the ordered list is a ring of the endpoints there are. `PositionFollows`:
  method failover's position is the place of the endpoint in use. `NextExists`: where a
  failure looks for the server after the position there is one, so that
  `method_failover.go:62` never reads past the end of the list. `Serves`,
  `ShutdownEnds`, `FailsOver`: a server is connected to in the end.
  The conditions under which these hold are the
  disagreements below.
- `ExitsComplete`: reading files, all acknowledgements are with the registrar at the
  exit; reading standard input, all lines are acknowledged. `ConfigsAgree`:
  between reloads all segments have the same configuration.
  `AdminListens`: the REST server can be reached. `TermEnds`: a signal ends the program,
  but for the five causes of `Stuck`.

### Bounds

Two servers are enough for one to fail while the other works, and two
payloads of up to two events for partial, complete and out-of-order
ACKs and for a resend of the rest of a payload; three events leave a spool to be
held when the limit of two payloads is reached. The event
channel holds 3 instead of 10 and the registrar's 1 instead of 16, so that they
fill. Servers and timeouts are interchangeable, so the runs of safety alone use
symmetry; runs with liveness do not. `MCPublisher_random_long.cfg` repeats the
safety properties of `random`, and `PayloadsConserved`, `PayloadLimit`, `ReadyAreActive` and
`AtLeastOnce` with it, for three events and symmetric servers: all hold.

In `spooler`, sizes 1, 2 and 5 against limits of 3 and 4 make events that fit,
that reach the limit exactly together, and that exceed it alone.
In `prospector`, two paths, two files and three changes are what a rotation
(create, rename, create), a rename over another file, or a file that disappears during
a scan and comes back need; three `prospectorInfo` structures at a time hold two files
and an error or an orphan. A file has at most one line, and there is one
fault: a crash or an event that is held up.

In `harvester` three bytes make two lines or one with a carriage return; buffers of 1
and 2 bytes make lines longer than the buffer, endings that fall into the next
fill and lines at the limit. The five configurations share the faults between
them, each with the codec they matter for. In `transport` one payload and a ping fill
`sendChan`, and the first of two addresses is never reachable. Limits of 1
and 2 and two faults let a reload raise the limit over a connection that then fails.
`MCTcpTransport_limits.cfg` repeats `StuckExplained` for a transport that is made after
the limit was lowered, with two payloads to send again, and holds. In `timeouts` four
owners and delays up to 3 put entries before, behind and beside each other while
two are being called. In `sink` three servers let the position go past a closing
endpoint; two faults and one reload, with changes of order, of method, and of the set of
servers. `MCSink_two.cfg` is the same for two servers, three faults and no reload, and
holds. In `pipeline` two or three lines, channels of length 1 and up to three
configurations fill every channel and let a reload meet a shutdown, another
reload, or the end of the input. One case has a standard input that stays open.

Runs do not check deadlock where the program ends or where the disagreements below
leave nothing to do. Type invariants other than `Publisher`'s are in the modules
and hold in the same configurations.

### Fairness

Goroutines that can run do run; Go's select chooses
among the ready cases at random and channels serve blocked senders in turn, so a
step that stays enabled is taken; timers fire; a server that stays connected
acknowledges a message in full. Failures, premature timeouts, crashes, writes to files, reloads
and shutdowns have no fairness. Fairness is weak but for these:

- `Harvester`: the check of the file, which the clock makes due between passes.
- `TcpTransport`: the controller takes the stop when it passes its select again and
  again, connecting or waiting to. Nothing is assumed of the server.
- `Sink`: `LinkFinishes`, which is `TransportEnds` of the run `transport`.
- `Pipeline`: the prospector sees the shutdown among its other channels in one of its
  rounds; the main routine's send of a configuration, and the publisher's send of
  an acknowledgement, have their turn among others.

### Where code and documentation disagree

Shown by runs:

- A resent payload keeps its nonce while its numbering starts again
  (`endpoint.go:127`), so a late ACK can acknowledge too much (`lb_once`).
- `IsAlive` (`status.go:73`) is false for an idle endpoint, so that a failed first
  connection is not failed over (`failover_down`).

Shown by further configurations, each of which TLC finds violated:

| Configuration | Property | Why |
|---|---|---|
| `MCPublisher_lb_live.cfg` | `Delivery` | `ForceFailure` (`sink_endpoint.go:78`) has no observer, so nothing takes the payloads of a timed-out endpoint back. Method random is not affected: its transports end on failure, and `Finished` takes them back |
| `MCSpooler_lost.cfg` | `NothingSkipped` | `sendSpool` (`spooler.go:148`) treats a reload as if it had sent the spool |
| `MCSpooler_bytes.cfg` | `BytesInForce` | a reload that lowers "spool max bytes" looks at the number of events and the time only (`spooler.go:178`), and a larger spool is sent |
| `MCRegistryFile_lost.cfg` | `CrashesForgetNothing` | on Windows `LoadPrevious` truncates the `.new` file it has just read |
| `MCProspector_twice.cfg` | `OneHarvester` | the clean up deletes index entries by path (`prospector.go:164`), so that an old error stub removes the file that took its place |
| `MCProspector_blocked.cfg` | `NeverSkips` | `eventCallback` (`harvester.go:474`) gives an event up when it is asked to stop, and the harvester does not stop |
| `MCHarvester_truncated.cfg` | `NothingPassedOver` | after a truncation plain and filter keep their last offset (`plain.go:66`) |
| the same with `Case = "deadline"` | `NothingPassedOver`, `EventsFaithful` | a deadline routine that the pipeline holds up sends lines of the old file after the truncation |
| the same with `Case = "chained"` | `NothingPassedOver` | the offset to resume from is the first codec's, although a multiline behind it holds lines back |
| the same with `Case = "overflow"` | `EventsFaithful` | `LineReader.Reset` keeps the start of a long line of the old file |
| the same with `Case = "split"` | `EventsFaithful` | the offsets of a split multiline event do not count line endings |
| `MCSinkTimeouts_early.cfg` | `NeverEarly` | `ClearTimeout` leaves the timer alone and a reset leaves a tick, so that the next timeout is called early |

Seen while modelling, and excluded by name in the properties:

- Sink. With loadbalance a failure while closing is ignored (`sink_status.go:41`,
  `Stranded`). `MoveEndpointAfter(e, nil)` pushes an element that is in the
  list already (`sink_list.go:111`): the ring breaks and `Sink.ReloadConfig` may
  walk it for ever (`RingIntact`, before the first reload). `AddEndpointAfter`
  does not add to the ordered list, and a reload compares with the
  first configuration. `failoverPosition` is moved back for endpoints that are
  closing already (`method_failover.go:111`, `drifted`), `onFail` counts closing
  endpoints as alternatives, and a forced failure does not reach the method (`unheeded`).
- Transport. The receiver may report its error until `failChan` is full, and
  `Fail` then waits for ever; so do `Write` and `Ping` when a ping and the
  payloads exceed `sendChan` of a connection that is gone, when a call made before the
  failure was seen used the channels of the next one, or when "max pending payloads" is
  or was higher than when the channel was made (`tcp.go:233`): the publisher takes the new limit
  at once (`publisher.go:216`), a live connection keeps its channel, a transport
  that wants to be restarted keeps its configuration, and a new endpoint gets the
  sink's first one (`StuckExplained`).
- Pipeline. The registrar of standard input ends at the shutdown while the
  publisher may still send to it; `Wait` never ends when the last line is filtered or
  dropped by a reload; a reload by request during the shutdown may add endpoints
  nobody shuts down; the REST server may stop between `Stop` and `StopChan`
  (`admin/server.go:158`), whose channel is then never closed; the harvester of an idle standard
  input does not see the stop (`linereader.go:138`) (`Stuck`). Two reloads at once race for `lc.config` (`conf.raced`).
- REST server. `l.config` is never updated, so that going back to the first
  address is ignored; the close of an old unix listener removes the new
  socket's file (`AdminListens` is about TCP).
- The out of sync count may include the first payload, against the comment at
  `publisher.go:340`; a reload may send an empty spool (`spooler.go:178`); a failing
  write of the state file is not noticed (`registrar_other.go:41`).

## Proofs

All theorems hold for every value of the constants that satisfies the named
assumptions of the modules (`TransportAssumption`, `PublisherAssumption`,
`SpoolerAssumption`, `RegistryAssumption`, `TimeoutAssumption`, `TcpAssumption`,
`ListAssumption`, `ProspectorAssumption`, `HarvesterAssumption`, `PipelineAssumption`,
`AdminAssumption`): any servers, files,
sizes, capacities and bounds. They ask for sizes and capacities that are not zero, as
the configuration and the code do, and that spools are not empty, which
`EverythingSent` proves of the spooler as long as no reload comes between. Each
proof has one step per action; the invariants below were checked with TLC first.

Publisher (`PublisherProofs`):

- `TypeCorrect`: `Spec => []TypeOK`. `Ack` and `ResetSequence` subtract, so that
  the types need the sequence numbers to be consistent (`Consistent`).
- `AcksOrdered`: `Spec => []AcksInOrder`. That invariant alone is not
  inductive: when `OnAck` registers several payloads at once they must be
  neighbours. `OrderInv` adds that the payloads of the list are in ascending order
  without repetition (`ListOrder`) and that each begins where the one before it
  ends, up to `spooled` (`Contiguous`).
- `SequencesCorrect`: `Spec => []SequencesMatch`, from the lemmas about `Ack`,
  `Rollup` and `ResetSequence`, each of which keeps `SequenceConsistent`.
- `PendingLimited`: `Spec => []PayloadLimit`.
- `ReadyCorrect`: `Spec => []ReadyAreActive`. An event of an endpoint that has been
  removed would be put on the ready list: `EndpointInv` adds that an event in the
  channel is of an endpoint that is there, that `Finished` is the last of its
  endpoint, and that with method random there is one endpoint at a time.
- `PayloadsKept`: `Spec => []PayloadsConserved`. Counting holders is turned into
  `HoldInv`: no two holders have the same payload, what is held is listed and not
  complete, what is not complete is held, unless the program shuts down.
- `PendingTimed`: `Spec => []PendingWatched` for method random. `WatchInv` adds that an
  endpoint that is not started owes nothing and that there is no backoff of the sink.
- `NothingLost`: `Spec => []AtLeastOnce` for method random. `OffsetsInv` says that
  the spools on their way to the registrar end before the first payload left;
  `DeliverInv` that the numbers of a message in transit are those of its payload
  at present, that an ACK in transit counts events the server has, and that
  every event spooled has been received or is in a payload that is not complete.
- `PromiseKept`: `Spec => KeepsPromise` for method random, the refinement, step by step.

The hypothesis `Method = "random"` of the last three stands for what differs: with
loadbalance a payload may be sent again on the same endpoint while an ACK of the first
time is in the event channel, and `AtLeastOnce` is what `lb_once` refutes; with random
an endpoint that failed is gone before its payloads are sent again. `PendingWatched`
is false with loadbalance for the reason of `MCPublisher_lb_live.cfg`: a timed-out endpoint
keeps its payloads, and recovers with them and no timeout.

Spooler, state file, timeouts and transport:

- `SpoolsOrdered`: `Spec => []SpoolsInOrder`, with `RunInv`: outside `sendSpool`
  there is nothing left to do after it, and the spool is an interval.
- `BytesAreLimited`: `Spec => []BytesLimited`, for any reloads of the limit; `BytesInv` says the
  same of the spool that is being filled. That the limit in force is kept is false
  (`MCSpooler_bytes.cfg`).
- `EverythingSent`: `Spec => []SendsAll`. `RoomInv` adds that there is room in the
  spool while `Run` selects, and that an event is held only beside another one, so that the
  spool it starts is neither empty nor full.
- `SavedStateSurvives`: `Spec => []SurvivesCrashes`. `FileInv` adds that the state file
  is never older than what was saved, and that a rename that is about to happen
  brings the complete state.
- `OneFaultSurvived`: `Spec => []SurvivesOneFault`. `FaultInv` follows Windows through
  the time without a state file: the state is in the `.new` file, or
  in memory with the one fault used up.
- `TimeoutsSorted`, `TimeoutsServed`: `Spec => []SoonestFirst`,
  `Spec => []NeverForgotten`. The lemmas are about inserting into and removing from a
  sorted list without repetition; the invariant follows the timer through the calls
  of `ProcessTimeouts`, whose callbacks set timeouts again.
- `ContractKept`: `Spec => KeepsContract`. `ToldInv` relates what the sender and the
  receiver do to what the publisher was told; `ChanInv` says that a connection
  costs a fault, so that a `Fail` meant for a channel is for one that exists.
- `StuckHasReason`: `Spec => []StuckExplained`. Whether a call waits for ever depends on what
  can be in the channel it found. `CallInv` says which calls can be under way; `SeenInv` relates the
  connections the publisher has seen to the events still in the channel; `UnseenInv` says that a
  connection it has not seen is unused but for late calls; `FailInv` that the sender
  reports one error and the publisher forces one failure; `PendingInv` that the payloads in the
  channel, in a call, on the way to the server and back are no more than those pending;
  `LimitInv` that the payloads that are not complete are never more than the highest
  limit there was.

Sink (`SinkProofs`). `ListAssumption` says that the root of the list and `nil` are no
elements. The list is an intrusive ring of pointers, so the first half is about it:
`RingOf` says that the pointers make one cycle of a set of elements and the root,
`InsertRing` and `RemoveRing` what the assignments of `insert` and `remove` make of one,
and `Prec` is the order in which it is walked. Numbering the places of the ring is the
one thing that needs induction; it is done with sets of numbers (`UpTo`).

- `RingSound`: `Spec => []RingIntact`. `RingInv` says of every state before the first
  reload that the ordered list is a ring (`Good`), that what is in it has an endpoint,
  and that a transport that has ended or is ending belongs to a closing endpoint
  (`Base`). The ring alone is not inductive: pushing an element that is in the list, or
  moving one that is not, would break it.
- `PositionIsPlace`: `Spec => []PositionFollows`. `PlaceInv` says where every endpoint
  is (`Placed`): the servers up to the position have endpoints, in this order, of which
  only the current one may be closing, and every other endpoint is closing. So the
  number of endpoints that `onStarted` closes is the distance it moves the position
  back.
- `NeverPastTheEnd`: `Spec => []NextExists`. `ListedInv` adds that only servers of the
  configuration have endpoints: if the current server is the last of the list, all have
  one and `onFail` returns. The guard `InRange` of `Failed`, where the code would read
  past the end, thus hides no step.

Prospector (`ProspectorProofs`), all from one inductive invariant:

- `IndexCorrect`, `ConflictFree`: `Spec => []IndexConsistent`, `Spec => []NoConflict`.
  The registrar's paths differ because those of the prospectors do,
  except between a scan that finds a new path and the event that tells the registrar:
  `ScanInv` says which paths a scan has dealt with, `EventInv` and `RegistryInv`
  what the waiting events will change, `SavedInv` that the state file follows.
- `HarvestersApart`: `Spec => []OneHarvesterUnlessError`, from `UniqueInv`
  (different prospectors are different files) and `UseInv` (a harvester belongs to a
  prospector, an event or an offset to the file it was read from).
- `ResumptionSafe`: `Spec => []ResumesSafely`. `SentInv`: every line before a
  harvester's position, before the offset it will resume from, or before an event on
  its way was acknowledged, skipped, or is on its way further ahead.

Harvester (`HarvesterProofs`), all from one inductive invariant (`HarvesterHolds`), for
files, buffers, line and event limits of any size, one codec in the chain (`Simple`):

- `NothingIsPassedOver`, `NothingIsSentTwice`: `Spec => []NothingPassedOver`,
  `Spec => SentOnce`. `FrontInv`: the codec's last offset is the end of the events on
  their way, these follow each other without a gap, what is before them was sent,
  filtered or given up, and nothing behind them was sent; `CodecInv` adds that the lines
  held back reach from there to the offset of the harvester. Both ask (`Exact`) that
  the file is never truncated, or that the codec is multiline without a deadline.
- `EventsAreFaithful`: `Spec => [](Whole(setup) => EventsFaithful)`. `SyncInv`: overflow
  and buffer of the reader are what the file has from the harvester's offset, or the end
  of the line in hand, up to the position read. So each line has the content
  between its offsets, and `FaithInv` carries that through the lines held back
  and the events on their way. `Whole` excludes split events, and truncations
  where a line overflows the buffer or a deadline routine may be sending.

The content of bytes and the joined lines of an event are defined by recursion. Their
lemmas (`ContentExists` and those after it) use that a set of numbers with a member has a
least one (`UpTo`), so that no theorem with an operator parameter is needed.
The conditions are needed: for chains of two, and for each excluded setup, TLC
finds the property violated (the cases of `MCHarvester_truncated.cfg` above). The instance
of run `harvester` satisfies `Simple` and `Exact`, and `Whole` but for the codec that
splits.

Pipeline (`PipelineProofs`), all from one inductive invariant:

- `TypeCorrect`: `Spec => []TypeOK`.
- `ExitComplete`: `Spec => []ExitsComplete`. A line is in one of eight stages, from not read
  to acknowledged, and the lines of one stage come before those of the stages behind it
  (`OrderInv`), none is lost (`KeptInv`), acknowledgements wait in order (`AckInv`). So
  the stages are empty when the last line is registered, which is what the
  stdin registrar waits for (`EndInv`).
- `ConfigsAgreed`: `Spec => []ConfigsAgree`. `ReloadInv`: during a reload, the segments
  served already have what it sends, and that was loaded to its end.
- `AdminReachable`: `Spec => []AdminListens`. `AdminInv`: the server in use has
  its socket, and the one that is being stopped, or is gone already, is another.

Model-checked only:

- The liveness properties (`Delivery`, `ShutdownCompletes`, `AllDelivered`, `Harvested`, `StopEnds`,
  `TransportEnds`, `Reconnects`, `Serves`, `ShutdownEnds`, `TermEnds`): out of the prover's reach.
- What a codec chain of two or more does: `NothingPassedOver` is false for some of them.

## Plan

1. Done: publisher with transports, spooler, state file, first theorems; the
   prospector with rotation, orphans and registrar events.
2. Done: harvester with line reader and codecs, the goroutines of the transport,
   the sink with its lists, methods, timeouts and reloads, the pipeline with its
   main routine, the REST server.
3. Done: proofs of the safety properties of the publisher, the spooler, the state file, the
   timeouts, the prospector, the harvester, the pipeline, the transport and the sink, and of
   both refinements.
4. Left: the harvester's theorems for the chains of codecs for which they hold.

### Not modelled

- Configuration parsing and validation (`lc-lib/config`): functions of a file, without
  behaviour over time, whose content is strings, reflection and defaults. Loading is a
  step of `Pipeline` that may fail.
- The statistics the REST server shows, its client `lc-admin` and the tree they are
  read from: they change nothing that another part reads.
- `lc-tlscert`, logging, command line, vendored code but for the end of
  `graceful.Server`, the Ruby plugins at the other end.
- Of modelled parts: reloads of method random, delivery time estimates, directories
  among the matched paths, inodes that are used again, framing of messages,
  certificates.
