----------------------------- MODULE Publisher -----------------------------
(***************************************************************************)
(* lc-lib/publisher/publisher.go with the endpoint sink it drives          *)
(* (lc-lib/endpoint), the methods random and loadbalance, and the          *)
(* registrar behind its channel.                                           *)
(*                                                                         *)
(* One stream of FileLen events is spooled in order.  The publisher turns  *)
(* each spool into a payload, queues it on an endpoint, takes it back when *)
(* the endpoint fails, and hands acknowledged events to the registrar in   *)
(* file order.  A crash restarts the stream at the persisted offset.       *)
(*                                                                         *)
(* The publisher is one goroutine: runOnce takes one case of its select    *)
(* and runs the whole handler.  A handler that ends in tryQueueHeld        *)
(* leaves pc at "queueHeld", and no other publisher step is enabled until  *)
(* that call has returned; transports and registrar go on meanwhile.       *)
(***************************************************************************)
EXTENDS Transport

CONSTANTS MaxPendingPayloads,   \* network "max pending payloads"
          SpoolSizes,           \* sizes of the spools the spooler may send
          FileLen,              \* bound: events in the stream
          RegistrarChanCap,     \* capacity of registrar_chan (16 in the code)
          MaxCrashes,           \* bound: crashes
          EnableShutdown        \* whether the pipeline may shut down

ASSUME PublisherAssumption ==
    /\ MaxPendingPayloads \in Nat \ {0}
    /\ SpoolSizes \subseteq Nat \ {0}
    /\ FileLen \in Nat
    /\ RegistrarChanCap \in Nat \ {0}
    /\ MaxCrashes \in Nat
    /\ EnableShutdown \in BOOLEAN

VARIABLES
    pc,             \* where the publisher goroutine is: "select", "queueHeld", "exited"
    starting,       \* {s} while OnStarted(s) waits for what tryQueueHeld returns
    shuttingDown,
    spooled,        \* events made into payloads so far (the end of the last one)
    nextSpool,      \* size of the spool held for later, or NoSpool
    payload,        \* every payload created, indexed by nonce
    payloadList,    \* payloads not yet registered in full, oldest first
    numPayloads,
    outOfSync,
    resendList,
    status,         \* of each server's endpoint; "absent" when it has none
    ready,          \* the sink's readyList
    pending,        \* pendingPayloads of each endpoint
    warming,
    pongPending,
    timeout,        \* what the endpoint's registered timeout will do
    methodTimer,    \* methodRandom waits to connect again
    activeServer,   \* methodRandom.activeServer
    registrarChan,  \* spools of ack events the registrar has not taken
    registered,     \* the registrar's offset for the stream, in memory
    persisted,      \* and in the state file
    crashes

payloadVars   == <<spooled, payload, payloadList, numPayloads, outOfSync, resendList>>
endpointVars  == <<status, ready, pending, warming, pongPending, timeout>>
methodVars    == <<methodTimer, activeServer>>
registrarVars == <<registrarChan, registered, persisted, crashes>>
controlVars   == <<pc, starting, shuttingDown, nextSpool>>
publisherVars == <<controlVars, payloadVars, endpointVars, methodVars, registrarVars>>
vars          == <<publisherVars, transportVars>>

NoSpool  == -1
Statuses == {"absent", "idle", "active", "failed", "closing"}
Timeouts == {"none", "pending", "keepalive", "backoff"}

ControlTypeOK ==
    /\ pc \in {"select", "queueHeld", "exited"}
    /\ starting \in SUBSET Servers
    /\ shuttingDown \in BOOLEAN
    /\ nextSpool \in SpoolSizes \cup {NoSpool}

PayloadTypeOK ==
    /\ spooled \in Nat
    /\ payload \in Seq(PayloadRec)
    /\ payloadList \in Seq(1 .. Len(payload))
    /\ numPayloads \in Int
    /\ outOfSync \in Int
    /\ resendList \in Seq(1 .. Len(payload))
    /\ pending \in [Servers -> SUBSET (1 .. Len(payload))]

EndpointTypeOK ==
    /\ status \in [Servers -> Statuses]
    /\ ready \in Seq(Servers)
    /\ warming \in [Servers -> BOOLEAN]
    /\ pongPending \in [Servers -> BOOLEAN]
    /\ timeout \in [Servers -> Timeouts]
    /\ methodTimer \in BOOLEAN
    /\ activeServer \in Servers

RegistrarTypeOK ==
    /\ registrarChan \in Seq(Seq(AckEvent) \ {<<>>})
    /\ registered \in Nat
    /\ persisted \in Nat
    /\ crashes \in Nat

TypeOK ==
    /\ TransportTypeOK
    /\ ControlTypeOK
    /\ PayloadTypeOK
    /\ EndpointTypeOK
    /\ RegistrarTypeOK

-----------------------------------------------------------------------------
(* Lists and the sink's view of the endpoints. *)

Members(list) == {list[i] : i \in 1 .. Len(list)}

\* Mutant of Without: the element stays in the list.
WithoutNothing(list, x) == list

\* Remove(): unlink one element, or nothing when it is not in the list.
Without(list, x) ==
    IF x \in Members(list)
    THEN LET at == CHOOSE i \in 1 .. Len(list) : list[i] = x
         IN  [i \in 1 .. Len(list) - 1 |-> IF i < at THEN list[i] ELSE list[i + 1]]
    ELSE list

\* The orders in which a Go map may be iterated.
Orders(S) == {f \in [1 .. Cardinality(S) -> S] : \A x \in S : \E i \in DOMAIN f : f[i] = x}

CanQueue == ready # <<>>

\* Events read from the stream may be handed over: ifSpoolChan is spoolChan.
IfSpool == nextSpool = NoSpool /\ ~shuttingDown

IsWarming(s) == warming[s] /\ pending[s] # {}

\* Which endpoint QueuePayload may pick: estimated delivery times are left
\* open, so any that is not warming, and the front one as the first guess.
BestEndpoints == {s \in Members(ready) : s = Head(ready) \/ ~IsWarming(s)}

SetTimeout(s, what) == timeout' = [timeout EXCEPT ![s] = what]

\* What Init() and NewTransport() give a new endpoint.
FreshEndpoint(s) ==
    /\ pending' = [pending EXCEPT ![s] = {}]
    /\ warming' = [warming EXCEPT ![s] = TRUE]
    /\ pongPending' = [pongPending EXCEPT ![s] = FALSE]
    /\ stopping' = [stopping EXCEPT ![s] = FALSE]

-----------------------------------------------------------------------------
(* Sending. *)

\* Mutant of SendPayload: tests the number of payloads before this one is added,
\* and so starts the network timeout with the second.
SendPayloadUntimed(s, p, pp) ==
    /\ pending' = [pending EXCEPT ![s] = @ \cup {p}]
    /\ Write(s, p, pp)
    /\ timeout' = IF Cardinality(pending[s]) = 1 THEN [timeout EXCEPT ![s] = "pending"] ELSE timeout
    /\ UNCHANGED <<link, stopping, failing, pinged, eventChan, received, faults>>
    /\ UNCHANGED <<status, ready, warming, pongPending, methodVars, registrarVars>>

\* sendPayload: queue on the endpoint, and time the first pending payload.
SendPayload(s, p, pp) ==
    /\ pending' = [pending EXCEPT ![s] = @ \cup {p}]
    /\ Write(s, p, pp)
    /\ timeout' = IF pending[s] = {} THEN [timeout EXCEPT ![s] = "pending"] ELSE timeout
    /\ UNCHANGED <<link, stopping, failing, pinged, eventChan, received, faults>>
    /\ UNCHANGED <<status, ready, warming, pongPending, methodVars, registrarVars>>

SendEvents(s, n) ==
    LET pp == NewPayload(spooled, n)
        p  == Len(payload) + 1
    IN  /\ payload' = Append(payload, pp)
        /\ payloadList' = Append(payloadList, p)
        /\ numPayloads' = numPayloads + 1
        /\ spooled' = spooled + n
        /\ SendPayload(s, p, pp)
        /\ UNCHANGED <<outOfSync, resendList, shuttingDown>>

\* A new spool may be sent at once: below the limit and nothing to resend.
MaySendSpool == numPayloads < MaxPendingPayloads /\ resendList = <<>> /\ CanQueue

SendSpool(s, n) ==
    /\ pc = "select"
    /\ IfSpool
    /\ spooled + n <= FileLen
    /\ MaySendSpool
    /\ s \in BestEndpoints
    /\ SendEvents(s, n)
    /\ UNCHANGED <<pc, starting, nextSpool>>

HoldSpool(n) ==
    /\ pc = "select"
    /\ IfSpool
    /\ spooled + n <= FileLen
    /\ ~MaySendSpool
    /\ nextSpool' = n
    /\ UNCHANGED <<pc, starting, shuttingDown, payloadVars, endpointVars, methodVars,
                   registrarVars, transportVars>>

\* The tests that tryQueueHeld makes before it sends anything.
MayQueueHeld ==
    /\ ~shuttingDown
    /\ resendList # <<>> \/ nextSpool # NoSpool
    /\ CanQueue

\* tryQueueHeld, one round of its loop over resendList.
QueueResend(s) ==
    LET p  == Head(resendList)
        pp == payload[p]
    IN  /\ pc = "queueHeld"
        /\ MayQueueHeld
        /\ resendList # <<>>
        /\ s \in BestEndpoints
        /\ SendPayload(s, p, pp)
        /\ payload' = [payload EXCEPT ![p] = [ResetSequence(pp) EXCEPT !.resending = FALSE]]
        /\ resendList' = Tail(resendList)
        /\ pc' = IF Len(resendList) = 1 THEN "select" ELSE "queueHeld"
        /\ starting' = {}
        /\ UNCHANGED <<shuttingDown, nextSpool, spooled, payloadList, numPayloads, outOfSync>>

\* Mutant of MayQueueNextSpool: forgets the limit on pending payloads.
MayQueueUnlimited == MayQueueHeld /\ resendList = <<>>

MayQueueNextSpool ==
    /\ MayQueueHeld
    /\ resendList = <<>>
    /\ numPayloads < MaxPendingPayloads

\* tryQueueHeld with nothing to resend and room for the held spool.
QueueNextSpool(s) ==
    /\ pc = "queueHeld"
    /\ MayQueueNextSpool
    /\ s \in BestEndpoints
    /\ SendEvents(s, nextSpool)
    /\ nextSpool' = NoSpool
    /\ pc' = "select"
    /\ starting' = {}

\* tryQueueHeld returns false; OnStarted then starts the keepalive.
QueueNothing ==
    /\ pc = "queueHeld"
    /\ ~(MayQueueHeld /\ resendList # <<>>)
    /\ ~MayQueueNextSpool
    /\ pc' = "select"
    /\ starting' = {}
    /\ timeout' = [s \in Servers |-> IF s \in starting THEN "keepalive" ELSE timeout[s]]
    /\ UNCHANGED <<shuttingDown, nextSpool, payloadVars, status, ready, pending, warming,
                   pongPending, methodVars, registrarVars, transportVars>>

-----------------------------------------------------------------------------
(* Status events of the transports, processStatusChange. *)

\* runOnce receives the oldest event of the sink's channel.
Take(type, s) ==
    /\ pc = "select"
    /\ eventChan # <<>>
    /\ Head(eventChan).type = type
    /\ Head(eventChan).ep = s
    /\ eventChan' = Tail(eventChan)

\* markActive on an idle endpoint, then OnStarted: with payloads still pending
\* it returns at once, otherwise it calls tryQueueHeld.
MarkActive(s) ==
    /\ status' = [status EXCEPT ![s] = "active"]
    /\ ready' = Append(ready, s)
    /\ pc' = IF pending[s] = {} THEN "queueHeld" ELSE "select"
    /\ starting' = IF pending[s] = {} THEN {s} ELSE {}

StartedIdle(s) ==
    /\ Take("started", s)
    /\ status[s] = "idle"
    /\ MarkActive(s)
    /\ UNCHANGED <<shuttingDown, nextSpool, payloadVars, pending, warming, pongPending, timeout,
                   methodVars, registrarVars>>
    /\ UNCHANGED <<link, stopping, failing, wire, pinged, received, faults>>

\* recoverFailed: idle again until the backoff has passed.
StartedFailed(s) ==
    /\ Take("started", s)
    /\ status[s] = "failed"
    /\ status' = [status EXCEPT ![s] = "idle"]
    /\ SetTimeout(s, "backoff")
    /\ UNCHANGED <<controlVars, payloadVars, ready, pending, warming, pongPending,
                   methodVars, registrarVars>>
    /\ UNCHANGED <<link, stopping, failing, wire, pinged, received, faults>>

\* Events that change nothing: Started on a closing or an active endpoint,
\* Failed on one that is not alive, an ACK whose nonce is not pending, and a
\* PONG nobody waits for.
Ignored(s) ==
    /\ \/ Take("started", s) /\ status[s] \in {"active", "closing"}
       \/ Take("failed", s) /\ status[s] # "active"
       \/ Take("ack", s) /\ Head(eventChan).nonce \notin pending[s]
       \/ Take("pong", s) /\ ~pongPending[s]
    /\ UNCHANGED publisherVars
    /\ UNCHANGED <<link, stopping, failing, wire, pinged, received, faults>>

\* Mutant of PullBackPending: payloads leave the endpoint and are not queued.
PullBackLost(s, order) ==
    /\ order \in Orders(pending[s])
    /\ pc' = "select"
    /\ starting' = {}
    /\ UNCHANGED payloadVars

\* pullBackPending: what the endpoint had pending goes to the resend list, in
\* whatever order the map yields it, and tryQueueHeld follows.
PullBackPending(s, order) ==
    /\ order \in Orders(pending[s])
    /\ resendList' = resendList \o order
    /\ payload' = [p \in 1 .. Len(payload) |->
                     IF p \in pending[s]
                     THEN [ResetSequence(payload[p]) EXCEPT !.resending = TRUE]
                     ELSE payload[p]]
    /\ pc' = IF pending[s] = {} THEN "select" ELSE "queueHeld"
    /\ starting' = {}
    /\ UNCHANGED <<spooled, payloadList, numPayloads, outOfSync>>

\* moveFailed with the publisher as observer.
Failed(s, order) ==
    /\ Take("failed", s)
    /\ status[s] = "active"
    /\ status' = [status EXCEPT ![s] = "failed"]
    /\ ready' = Without(ready, s)
    /\ SetTimeout(s, "none")
    /\ PullBackPending(s, order)
    /\ pending' = [pending EXCEPT ![s] = {}]
    /\ UNCHANGED <<shuttingDown, nextSpool, warming, pongPending, methodVars, registrarVars>>
    /\ UNCHANGED <<link, stopping, failing, wire, pinged, received, faults>>

\* removeEndpoint, OnFinish, and then what the method wants: loadbalance adds
\* the endpoint again at once, random waits before it picks another server.
Finished(s, order) ==
    /\ Take("finished", s)
    /\ ~shuttingDown
    /\ status' = [status EXCEPT ![s] = IF Method = "loadbalance" THEN "idle" ELSE "absent"]
    /\ link' = [link EXCEPT ![s] = IF Method = "loadbalance" THEN "down" ELSE "none"]
    /\ methodTimer' = (Method = "random")
    /\ ready' = Without(ready, s)
    /\ SetTimeout(s, "none")
    /\ PullBackPending(s, order)
    /\ FreshEndpoint(s)
    /\ UNCHANGED <<shuttingDown, nextSpool, activeServer, registrarVars>>
    /\ UNCHANGED <<failing, wire, pinged, received, faults>>

\* The same while shutting down: nothing is taken back, and the publisher
\* exits with the last endpoint.
FinishedClosing(s) ==
    /\ Take("finished", s)
    /\ shuttingDown
    /\ status' = [status EXCEPT ![s] = "absent"]
    /\ link' = [link EXCEPT ![s] = "none"]
    /\ ready' = Without(ready, s)
    /\ SetTimeout(s, "none")
    /\ FreshEndpoint(s)
    /\ pc' = IF \A t \in Servers \ {s} : status[t] = "absent" THEN "exited" ELSE "select"
    /\ UNCHANGED <<starting, shuttingDown, nextSpool, payloadVars, methodVars, registrarVars>>
    /\ UNCHANGED <<failing, wire, pinged, received, faults>>

-----------------------------------------------------------------------------
(* Acknowledgements. *)

\* OnAck's loop ends after the first k payloads of the list: all of these are
\* complete and the next one, if any, is not.
CompletedPrefix(acked, k) ==
    LET Done(i) == HasAck(acked[payloadList[i]]) /\ Complete(acked[payloadList[i]])
    IN  /\ \A i \in 1 .. k : Done(i)
        /\ k < Len(payloadList) => ~Done(k + 1)

\* The payloads it rolls up: those k and the acknowledged part of the next.
RolledUp(acked, k) ==
    IF k < Len(payloadList) /\ HasAck(acked[payloadList[k + 1]]) THEN k + 1 ELSE k

\* OnAck for the front payload: register the acknowledged prefix in order.
RegisterPrefix(acked, k) ==
    LET m     == RolledUp(acked, k)
        spool == [i \in 1 .. m |-> RollupEvents(acked[payloadList[i]])]
    IN  /\ CompletedPrefix(acked, k)
        /\ payload' = [p \in 1 .. Len(payload) |->
                         IF \E i \in 1 .. m : payloadList[i] = p THEN Rollup(acked[p]) ELSE acked[p]]
        /\ payloadList' = SubSeq(payloadList, k + 1, Len(payloadList))
        /\ numPayloads' = numPayloads - k
        /\ outOfSync' = IF k = 0 THEN outOfSync ELSE outOfSync + 1 - k
        /\ m # 0 => Len(registrarChan) < RegistrarChanCap
        /\ registrarChan' = IF m = 0 THEN registrarChan ELSE Append(registrarChan, spool)

\* Mutant of KeepOutOfOrder: registers without waiting for the payloads before it.
RegisterAtOnce(p, acked) ==
    /\ payload' = [acked EXCEPT ![p] = Rollup(@)]
    /\ Len(registrarChan) < RegistrarChanCap
    /\ registrarChan' = Append(registrarChan, <<RollupEvents(acked[p])>>)
    /\ UNCHANGED <<payloadList, numPayloads, outOfSync>>

\* OnAck for any other payload: remember it, and count it the first time.
KeepOutOfOrder(p, acked) ==
    /\ payload' = acked
    /\ outOfSync' = IF HasAck(payload[p]) THEN outOfSync ELSE outOfSync + 1
    /\ UNCHANGED <<payloadList, numPayloads, registrarChan>>

\* The payloads once the ACK is applied; a complete one need not be resent.
ApplyAck(p, sequence) ==
    [payload EXCEPT ![p] = LET pp == Ack(@, sequence)
                           IN  [pp EXCEPT !.resending = @ /\ ~Complete(pp)]]

\* processAck of endpoint and sink, with OnAck.  k is how many payloads the
\* acknowledgement completes in list order.
Acked(s, k) ==
    LET p     == Head(eventChan).nonce
        full  == AckIsFull(payload[p], Head(eventChan).sequence)
        acked == ApplyAck(p, Head(eventChan).sequence)
        left  == IF full THEN pending[s] \ {p} ELSE pending[s]
    IN  /\ Take("ack", s)
        /\ p \in pending[s]
        /\ pending' = [pending EXCEPT ![s] = left]
        /\ warming' = [warming EXCEPT ![s] = @ /\ ~full]
        /\ SetTimeout(s, IF left = {} THEN "keepalive" ELSE "pending")
        /\ resendList' = IF payload[p].resending /\ Complete(acked[p])
                         THEN Without(resendList, p) ELSE resendList
        /\ IF p = Head(payloadList)
           THEN RegisterPrefix(acked, k)
           ELSE k = 0 /\ KeepOutOfOrder(p, acked)
        /\ stopping' = [stopping EXCEPT ![s] = @ \/ (full /\ status[s] = "closing" /\ left = {})]
        /\ pc' = IF Complete(acked[p]) THEN "queueHeld" ELSE "select"
        /\ starting' = {}
        /\ UNCHANGED <<shuttingDown, nextSpool, spooled, status, ready, pongPending, methodVars,
                       registered, persisted, crashes>>
        /\ UNCHANGED <<link, failing, wire, pinged, received, faults>>

Pong(s) ==
    /\ Take("pong", s)
    /\ pongPending[s]
    /\ pongPending' = [pongPending EXCEPT ![s] = FALSE]
    /\ timeout' = IF pending[s] = {} THEN [timeout EXCEPT ![s] = "keepalive"] ELSE timeout
    /\ UNCHANGED <<controlVars, payloadVars, status, ready, pending, warming, methodVars,
                   registrarVars>>
    /\ UNCHANGED <<link, stopping, failing, wire, pinged, received, faults>>

-----------------------------------------------------------------------------
(* Timeouts, ProcessTimeouts. *)

\* Nothing of this endpoint is under way, so no answer can come any more.
Silent(s) ==
    /\ wire[s] = {}
    /\ ~pinged[s]
    /\ \A i \in 1 .. Len(eventChan) : eventChan[i].ep # s

\* timeoutPending: ForceFailure, which moves an active endpoint to failed with
\* no observer, so that nothing is pulled back here, and fails its transport.
\* Firing although an answer is under way costs one of MaxFaults.
TimeoutPending(s) ==
    /\ pc = "select"
    /\ timeout[s] = "pending"
    /\ \/ Silent(s) /\ UNCHANGED faults
       \/ ~Silent(s) /\ faults < MaxFaults /\ faults' = faults + 1
    /\ SetTimeout(s, "none")
    /\ status' = [status EXCEPT ![s] = IF @ = "active" THEN "failed" ELSE @]
    /\ ready' = Without(ready, s)
    /\ IF status[s] = "failed" THEN UNCHANGED failing ELSE Fail(s)
    /\ UNCHANGED <<controlVars, payloadVars, pending, warming, pongPending, methodVars, registrarVars>>
    /\ UNCHANGED <<link, stopping, wire, pinged, eventChan, received>>

TimeoutKeepalive(s) ==
    /\ pc = "select"
    /\ timeout[s] = "keepalive"
    /\ SetTimeout(s, "pending")
    /\ pongPending' = [pongPending EXCEPT ![s] = TRUE]
    /\ Ping(s)
    /\ UNCHANGED <<controlVars, payloadVars, status, ready, pending, warming, methodVars, registrarVars>>
    /\ UNCHANGED <<link, stopping, failing, wire, eventChan, received, faults>>

\* The backoff of recoverFailed has passed; markActive ignores an endpoint
\* that is no longer idle.
TimeoutBackoff(s) ==
    /\ pc = "select"
    /\ timeout[s] = "backoff"
    /\ SetTimeout(s, "none")
    /\ IF status[s] = "idle" THEN MarkActive(s) ELSE UNCHANGED <<status, ready, pc, starting>>
    /\ UNCHANGED <<shuttingDown, nextSpool, payloadVars, pending, warming, pongPending, methodVars,
                   registrarVars, transportVars>>

\* methodRandom's timer: connectRandom to another server if there is one.
ConnectRandom(s) ==
    /\ pc = "select"
    /\ methodTimer
    /\ s # activeServer \/ Servers = {s}
    /\ methodTimer' = FALSE
    /\ activeServer' = s
    /\ status' = [status EXCEPT ![s] = "idle"]
    /\ link' = [link EXCEPT ![s] = "down"]
    /\ FreshEndpoint(s)
    /\ UNCHANGED <<controlVars, payloadVars, ready, timeout, registrarVars>>
    /\ UNCHANGED <<failing, wire, pinged, eventChan, received, faults>>

-----------------------------------------------------------------------------
(* Shutdown, the registrar, and crashes. *)

\* Every endpoint is closed: at once without payloads pending, else when the
\* last of them is acknowledged.
Shutdown ==
    LET present == {s \in Servers : status[s] # "absent"}
        stopNow == {s \in present : status[s] # "closing" /\ pending[s] = {}}
    IN  /\ EnableShutdown
        /\ pc = "select"
        /\ ~shuttingDown
        /\ shuttingDown' = TRUE
        /\ nextSpool' = NoSpool
        /\ status' = [s \in Servers |-> IF s \in present THEN "closing" ELSE "absent"]
        /\ ready' = <<>>
        /\ timeout' = [s \in Servers |-> IF s \in stopNow THEN "none" ELSE timeout[s]]
        /\ stopping' = [s \in Servers |-> stopping[s] \/ s \in stopNow]
        /\ pc' = IF present = {} THEN "exited" ELSE "select"
        /\ UNCHANGED <<starting, payloadVars, pending, warming, pongPending, methodVars, registrarVars>>
        /\ UNCHANGED <<link, failing, wire, pinged, eventChan, received, faults>>

\* Registrar.Run: process one spool, whose last event sets the offset, and
\* write the state file, which may fail.
RegistrarRun(written) ==
    /\ registrarChan # <<>>
    /\ registrarChan' = Tail(registrarChan)
    /\ registered' = LET spool == Head(registrarChan) IN spool[Len(spool)].to
    /\ \/ written /\ persisted' = registered' /\ UNCHANGED faults
       \/ ~written /\ faults < MaxFaults /\ faults' = faults + 1 /\ UNCHANGED persisted
    /\ UNCHANGED <<controlVars, payloadVars, endpointVars, methodVars, crashes>>
    /\ UNCHANGED <<link, stopping, failing, wire, pinged, eventChan, received>>

\* The servers the method connects at start: one at random, or all of them.
Connected == IF Method = "random" THEN {{s} : s \in Servers} ELSE {Servers}

\* A newly created endpoint has nothing pending and a transport that dials.
NewStatus(connected) == [s \in Servers |-> IF s \in connected THEN "idle" ELSE "absent"]
NewLink(connected)   == [s \in Servers |-> IF s \in connected THEN "down" ELSE "none"]
AllFalse == [s \in Servers |-> FALSE]

Init ==
    \E connected \in Connected :
      /\ pc = "select" /\ starting = {} /\ shuttingDown = FALSE
      /\ spooled = 0 /\ nextSpool = NoSpool
      /\ payload = <<>> /\ payloadList = <<>> /\ numPayloads = 0 /\ outOfSync = 0
      /\ resendList = <<>>
      /\ status = NewStatus(connected) /\ ready = <<>>
      /\ pending = [s \in Servers |-> {}]
      /\ warming = [s \in Servers |-> TRUE] /\ pongPending = AllFalse
      /\ timeout = [s \in Servers |-> "none"]
      /\ methodTimer = FALSE /\ activeServer \in connected
      /\ registrarChan = <<>> /\ registered = 0 /\ persisted = 0 /\ crashes = 0
      /\ link = NewLink(connected) /\ stopping = AllFalse /\ failing = AllFalse
      /\ wire = [s \in Servers |-> {}] /\ pinged = AllFalse
      /\ eventChan = <<>> /\ received = {} /\ faults = 0

\* The process dies and starts again.  Only the state file and what servers
\* received survive; the harvester resumes at the persisted offset.
Crash ==
    /\ crashes < MaxCrashes
    /\ crashes' = crashes + 1
    /\ \E connected \in Connected :
         /\ pc' = "select" /\ starting' = {} /\ shuttingDown' = FALSE
         /\ spooled' = persisted /\ nextSpool' = NoSpool
         /\ payload' = <<>> /\ payloadList' = <<>> /\ numPayloads' = 0 /\ outOfSync' = 0
         /\ resendList' = <<>>
         /\ status' = NewStatus(connected) /\ ready' = <<>>
         /\ pending' = [s \in Servers |-> {}]
         /\ warming' = [s \in Servers |-> TRUE] /\ pongPending' = AllFalse
         /\ timeout' = [s \in Servers |-> "none"]
         /\ methodTimer' = FALSE /\ activeServer' \in connected
         /\ registrarChan' = <<>> /\ registered' = persisted
         /\ link' = NewLink(connected) /\ stopping' = AllFalse /\ failing' = AllFalse
         /\ wire' = [s \in Servers |-> {}] /\ pinged' = AllFalse
         /\ eventChan' = <<>>
    /\ UNCHANGED <<persisted, received, faults>>

-----------------------------------------------------------------------------
StatusStep(s) ==
    \/ StartedIdle(s)
    \/ StartedFailed(s)
    \/ \E order \in Orders(pending[s]) : Failed(s, order) \/ Finished(s, order)
    \/ FinishedClosing(s)

AnswerStep(s) ==
    \/ \E k \in 0 .. Len(payloadList) : Acked(s, k)
    \/ Pong(s)
    \/ Ignored(s)

QueueStep ==
    \/ \E s \in Servers : QueueResend(s) \/ QueueNextSpool(s)
    \/ QueueNothing

SpoolStep ==
    \E n \in SpoolSizes : HoldSpool(n) \/ \E s \in Servers : SendSpool(s, n)

TimeoutStep(s) ==
    \/ TimeoutPending(s)
    \/ TimeoutKeepalive(s)
    \/ TimeoutBackoff(s)
    \/ ConnectRandom(s)

Next ==
    \/ SpoolStep
    \/ QueueStep
    \/ \E s \in Servers : StatusStep(s) \/ AnswerStep(s) \/ TimeoutStep(s)
    \/ \E s \in Servers : TransportStep(s) /\ UNCHANGED publisherVars
    \/ \E written \in BOOLEAN : RegistrarRun(written)
    \/ Shutdown
    \/ Crash

Spec == Init /\ [][Next]_vars

-----------------------------------------------------------------------------
(* Fairness, all of it weak.  Goroutines that can run do run, Go's select  *)
(* picks among ready cases at random and a channel serves blocked senders  *)
(* in turn, so that a step that stays enabled is taken; timers fire; and a *)
(* server that stays connected acknowledges a message in full.             *)

FairTransport(s) ==
    /\ WF_vars(Connect(s) /\ UNCHANGED publisherVars)
    /\ WF_vars(ForcedFailure(s) /\ UNCHANGED publisherVars)
    /\ WF_vars(StopTransport(s) /\ UNCHANGED publisherVars)
    /\ WF_vars((\E m \in wire[s] : ServerAck(s, m, m.size)) /\ UNCHANGED publisherVars)
    /\ WF_vars(ServerPong(s) /\ UNCHANGED publisherVars)

Fairness ==
    /\ WF_vars(QueueStep)
    /\ WF_vars(SpoolStep)
    /\ WF_vars(RegistrarRun(TRUE))
    /\ WF_vars(\E s \in Servers : StatusStep(s) \/ AnswerStep(s))
    /\ \A s \in Servers : WF_vars(TimeoutPending(s) /\ UNCHANGED faults)
                          /\ WF_vars(TimeoutBackoff(s))
    /\ WF_vars(\E s \in Servers : ConnectRandom(s))
    /\ \A s \in Servers : FairTransport(s)

FairSpec == Spec /\ Fairness

-----------------------------------------------------------------------------
(* Properties. *)

\* Where the registrar will be once it has taken the first j spools.
RegistrarEnd(j) ==
    IF j = 0 THEN registered
             ELSE LET spool == registrarChan[j] IN spool[Len(spool)].to

\* A spool of acknowledgements that goes on from an offset without a gap.
ContinuesFrom(spool, offset) ==
    /\ Len(spool) > 0
    /\ spool[1].from = offset
    /\ \A i \in 1 .. Len(spool) : spool[i].from < spool[i].to
    /\ \A i \in 1 .. Len(spool) - 1 : spool[i].to = spool[i + 1].from

\* Where the oldest payload that is not registered in full begins.
FirstUnregistered ==
    IF payloadList = <<>> THEN spooled ELSE payload[payloadList[1]].lo

\* "passing ordered acknowledgements to the Registrar" (publisher.go:47-48),
\* whose AckEvent.Process overwrites the offset without comparing: every spool
\* on its way continues exactly where the one before it ends, without a gap or
\* a step back, and the oldest payload begins where the last of them ends.
AcksInOrder ==
    /\ \A j \in 1 .. Len(registrarChan) : ContinuesFrom(registrarChan[j], RegistrarEnd(j - 1))
    /\ RegistrarEnd(Len(registrarChan)) = FirstUnregistered

\* How many endpoints and resend list entries hold payload p.
Holders(p) ==
    Cardinality({s \in Servers : p \in pending[s]})
      + Cardinality({i \in 1 .. Len(resendList) : resendList[i] = p})

\* sendPayload, pullBackPending and OnAck hand a payload from one owner to the
\* next: until it is complete exactly one endpoint, or the resend list, has it,
\* and afterwards none, so that OnAck never meets a payload the list has lost
\* (publisher.go:339).  Shutdown may abandon payloads but never doubles them.
PayloadsConserved ==
    \A p \in 1 .. Len(payload) :
      IF p \in Members(payloadList) /\ ~Complete(payload[p])
      THEN Holders(p) = 1 \/ (shuttingDown /\ Holders(p) = 0)
      ELSE Holders(p) = 0

\* runOnce and tryQueueHeld keep within "max pending payloads", and the counter
\* they test is the length of the list whatever order ACKs arrive in.
PayloadLimit ==
    /\ numPayloads = Len(payloadList)
    /\ numPayloads <= MaxPendingPayloads

\* queuePayload panics unless the endpoint is active (endpoint.go:122): what is
\* on the ready list is exactly the active endpoints, each of them once.
ReadyAreActive ==
    /\ Members(ready) = {s \in Servers : status[s] = "active"}
    /\ \A i, j \in 1 .. Len(ready) : ready[i] = ready[j] => i = j

\* The sequence numbers of every unfinished payload count its unacknowledged
\* events, through partial ACKs, rollups and resends.
SequencesMatch == \A p \in Members(payloadList) : SequenceConsistent(payload[p])

\* No event is registered, in memory or in the state file, that no server has
\* acknowledged: a crash never loses events (README.md, "At-least-once delivery").
AtLeastOnce == 1 .. registered \subseteq received /\ persisted <= registered

\* An endpoint in use that owes acknowledgements has its network timeout running
\* ("Expect next ACK within network timeout if we still have pending").
PendingWatched ==
    \A s \in Servers : status[s] = "active" /\ pending[s] # {} => timeout[s] = "pending"

\* Everything that is spooled is registered in the end, whatever failed before,
\* unless the pipeline shuts down.
Delivery == <>[](registered = FileLen \/ shuttingDown)

\* A shutdown ends: runOnce returns true once every endpoint has finished, unless
\* a crash comes first.
ShutdownCompletes == shuttingDown ~> (pc = "exited" \/ ~shuttingDown)

\* The publisher, its transports and the registrar implement the promise of
\* OrderedDelivery: acknowledgements are serialised "to ensure the registrar
\* offsets are always sequential" (publisher.go:302-303), over any failure,
\* resend and crash.
Promise == INSTANCE OrderedDelivery
KeepsPromise == Promise!Spec
=============================================================================
