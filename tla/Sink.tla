-------------------------------- MODULE Sink --------------------------------
(***************************************************************************)
(* The endpoints of the sink and the methods that decide which servers     *)
(* have one: failover and loadbalance, with reloads of the configuration   *)
(* (endpoint/sink*.go, publisher/method_*.go).  Payloads are reduced to    *)
(* whether an endpoint has any pending; a transport sends the events that  *)
(* LinkEvents allows.  One action is one handler of the publisher's loop.  *)
(***************************************************************************)
EXTENDS InternalList, FiniteSets

CONSTANTS Configs,      \* configurations: server lists and methods
          Initial,      \* those to start with
          QueueCap,     \* bound on the events of one transport that are on their way
          Unreachable,  \* servers that have never accepted a connection
          MaxFaults,    \* bound on failing connections, servers going away, timeouts
                        \* and reloads
          MaxReloads    \* bound on reloads alone

Servers == Elements

ASSUME SinkAssumption ==
    /\ \A c \in Configs : /\ c.method \in {"failover", "loadbalance"}
                          /\ c.servers \in Seq(Servers) /\ c.servers # <<>> /\ IsInjective(c.servers)
    /\ QueueCap \in Nat \ {0} /\ MaxFaults \in Nat /\ MaxReloads \in Nat /\ Initial \subseteq Configs
    /\ Unreachable \subseteq Servers

VARIABLES
    config,      \* of publisher and method
    first,       \* s.config: the first configuration, for ever
    sink,        \* status, pending, timeout and link per server; the orderedList
    method,      \* failover: the current endpoint, whether it has been removed
                 \* from the sink, and failoverPosition
    shutting,
    dead,        \* servers that accept no connections
    faults, reloads,
    unheeded,    \* history: failed endpoints for which the method did nothing, because
                 \* OnFail was not called or because it counted closing endpoints
    drifted      \* history: onStarted counted an endpoint that was closing already

vars == <<config, first, sink, method, shutting, dead, faults, reloads, unheeded, drifted>>

Statuses == {"none", "idle", "active", "failed", "closing"}
Events == {"started", "failed", "finished"}

TypeOK ==
    /\ config \in Configs /\ first \in Configs
    /\ \A s \in Servers :
          /\ sink.status[s] \in Statuses
          /\ sink.pending[s] \in BOOLEAN
          /\ sink.timeout[s] \in {"none", "backoff", "watch"}
          /\ sink.link[s].state \in {"down", "up", "over"}
          /\ Len(sink.link[s].queue) <= QueueCap /\ Range(sink.link[s].queue) \subseteq Events
    /\ method.current \in Servers \cup {Nil} /\ method.position \in Int

-----------------------------------------------------------------------------
(* The sink.  s is the state of the sink, e an endpoint. *)

Endpoints(s) == {e \in Servers : s.status[e] # "none"}

\* A transport: its connection, whether it was told to stop or to fail, whether
\* the pending payload was sent over this connection, and its events.
NewLink(state) ==
    [state |-> state, stop |-> FALSE, forced |-> FALSE, sent |-> FALSE, queue |-> <<>>]

NewEndpoint(s, e) ==
    [s EXCEPT !.status[e] = "idle", !.pending[e] = FALSE, !.timeout[e] = "none",
              !.link[e] = NewLink("down")]

AddEndpoint(s, e) == [NewEndpoint(s, e) EXCEPT !.ordered = PushBack(@, e)]

\* A new endpoint is in no list, so that MoveAfter does nothing.
AddEndpointAfter(s, e, after) ==
    [NewEndpoint(s, e) EXCEPT !.ordered = IF after = Nil THEN PushFront(@, e) ELSE MoveAfter(@, e, after)]

MoveEndpointAfter(s, e, after) ==
    [s EXCEPT !.ordered = IF after = Nil THEN PushFront(@, e) ELSE MoveAfter(@, e, after)]

\* Endpoints with pending payloads are shut down when the last is acknowledged.
ShutdownAll(s, set) ==
    LET open == {e \in set : s.status[e] \notin {"none", "closing"}}
        free == {e \in open : ~s.pending[e]}
    IN  [s EXCEPT !.status  = [e \in Servers |-> IF e \in open THEN "closing" ELSE s.status[e]],
                  !.timeout = [e \in Servers |-> IF e \in free THEN "none" ELSE s.timeout[e]],
                  !.link    = [e \in Servers |-> [s.link[e] EXCEPT !.stop = @ \/ e \in free]]]

ShutdownEndpoint(s, e) == ShutdownAll(s, {e})

RemoveEndpoint(s, e) ==
    [s EXCEPT !.status[e] = "none", !.pending[e] = FALSE, !.timeout[e] = "none",
              !.link[e] = NewLink("over"),
              !.ordered = Remove(@, e)]

\* Sink.ReloadConfig: the server that is shut down is the last of the new list.
SinkReload(s, c) ==
    IF \E i \in DOMAIN Contents(s.ordered) : Contents(s.ordered)[i] \notin Range(c.servers)
    THEN ShutdownEndpoint(s, c.servers[Len(c.servers)])
    ELSE s

-----------------------------------------------------------------------------
(* The methods. *)

Failover == config.method = "failover"
IsCurrent(m, e) == m.current = e /\ ~m.gone

\* loadbalance: every server has an endpoint.
Balanced(s, c) ==
    LET at[i \in 0 .. Len(c.servers)] ==
            IF i = 0 THEN [sink |-> s, last |-> Nil]
            ELSE LET e == c.servers[i]
                     p == at[i - 1]
                 IN  [sink |-> IF p.sink.status[e] = "none"
                               THEN AddEndpointAfter(p.sink, e, p.last)
                               ELSE MoveEndpointAfter(p.sink, e, p.last),
                      last |-> e]
    IN  at[Len(c.servers)].sink

\* failover: the endpoints up to the current one stay and are put in order,
\* better ones are added, the others shut down.
Preferred(s, m, c) ==
    LET at[i \in 0 .. Len(c.servers)] ==
            IF i = 0 THEN [sink |-> s, method |-> m, last |-> Nil, found |-> FALSE]
            ELSE LET e == c.servers[i]
                     p == at[i - 1]
                     found == p.found \/ p.method.current = e
                     absent == p.sink.status[e] = "none"
                 IN  CASE absent /\ found -> [p EXCEPT !.found = TRUE]
                       [] absent /\ ~found ->
                            [sink |-> AddEndpointAfter(p.sink, e, p.last), last |-> e,
                             method |-> IF p.method.current = Nil
                                        THEN [p.method EXCEPT !.current = e, !.gone = FALSE]
                                        ELSE p.method,
                             found |-> p.method.current = Nil]
                       [] ~absent /\ found ->
                            [p EXCEPT !.found = TRUE, !.sink = ShutdownEndpoint(@, e)]
                       [] OTHER -> [p EXCEPT !.sink = MoveEndpointAfter(@, e, p.last), !.last = e]
    IN  at[Len(c.servers)]

NewMethod == [current |-> Nil, gone |-> FALSE, position |-> 0]

\* Mutant of AllInUse: endpoints are counted against the list, not the servers.
AllListed(s) == Cardinality(Endpoints(s)) = s.ordered.len

\* Mutant of AllInUse: off by one.
MoreThanAll(s) == Cardinality(Endpoints(s)) > Len(config.servers)

\* "All endpoints have failed": endpoints that are closing are counted, too.
AllInUse(s) == Cardinality(Endpoints(s)) = Len(config.servers)

\* onFail: on to the next server of the list, unless all have endpoints.
OnFail(s, m, e) ==
    IF ~Failover \/ ~IsCurrent(m, e) \/ AllInUse(s)
    THEN [sink |-> s, method |-> m]
    ELSE LET next == config.servers[m.position + 2]
         IN  [sink |-> IF s.status[next] = "none" THEN AddEndpoint(s, next)
                       ELSE MoveEndpointAfter(s, next, m.current),
              method |-> [current |-> next, gone |-> FALSE, position |-> m.position + 1]]

\* The list that onFail indexes is long enough.
InRange(s, m, e) ==
    Failover /\ IsCurrent(m, e) /\ ~AllInUse(s) =>
        m.position + 2 \in DOMAIN config.servers

\* Mutant of Closed: one less preferred endpoint is left open.
ClosedButLast(s, e) == {x \in After(s.ordered, e) : After(s.ordered, x) # {}}

\* The endpoints onStarted closes when e is the best one.
Closed(s, e) == After(s.ordered, e)

BetterThanCurrent(s, m, e) ==
    Failover /\ ~IsCurrent(m, e) /\ (m.gone \/ m.current \notin Before(s.ordered, e))

\* onStarted: the best endpoint becomes the current one.
OnStarted(s, m, e) ==
    IF ~BetterThanCurrent(s, m, e) THEN [sink |-> s, method |-> m]
    ELSE [sink |-> ShutdownAll(s, Closed(s, e)),
          method |-> [current |-> e, gone |-> FALSE,
                      position |-> m.position - Cardinality(Closed(s, e))]]

\* onFinish: a removed endpoint is found again only if it is the current one.
OnFinish(m, e) == ~Failover \/ IsCurrent(m, e)

-----------------------------------------------------------------------------
(* Handlers of the publisher. *)

\* The model ends with a list that is no ring: from there the loops over it may
\* not end.
Whole == IsRing(sink.ordered)

Fault == faults < MaxFaults /\ faults' = faults + 1

Kept == UNCHANGED <<config, first, dead, reloads, shutting>>

NextEvent(e, type) ==
    /\ sink.link[e].queue # <<>>
    /\ Head(sink.link[e].queue) = type
    /\ Whole

Taken(e) == [sink EXCEPT !.link[e].queue = Tail(@)]

Apply(r) == sink' = r.sink /\ method' = r.method

\* markActive, with the keepalive or network timeout that OnStarted or a held
\* payload registers; none when payloads are pending already.
MarkActive(s, e) ==
    LET r == OnStarted([s EXCEPT !.status[e] = "active"], method, e)
    IN  /\ Apply([r EXCEPT !.sink.timeout[e] = IF s.pending[e] THEN s.timeout[e] ELSE "watch"])
        /\ drifted' = (drifted \/ (BetterThanCurrent(s, method, e)
                                   /\ \E x \in Closed(s, e) : s.status[x] = "closing"))
        /\ unheeded' = unheeded \ {e}

Started(e) ==
    /\ NextEvent(e, "started")
    /\ LET s == Taken(e)
       IN  CASE s.status[e] = "failed" ->
                  /\ sink' = [s EXCEPT !.status[e] = "idle", !.timeout[e] = "backoff"]
                  /\ UNCHANGED <<method, drifted, unheeded>>
             [] s.status[e] = "idle" -> MarkActive(s, e)
             [] OTHER -> sink' = s /\ UNCHANGED <<method, drifted, unheeded>>
    /\ Kept /\ UNCHANGED faults

\* moveFailed and the pull back of OnFail.
MoveFailed(s, e) == [s EXCEPT !.status[e] = "failed", !.timeout[e] = "none", !.pending[e] = FALSE]

\* moveFailed does nothing unless the endpoint is active: IsAlive.
Failed(e) ==
    /\ NextEvent(e, "failed")
    /\ LET s == Taken(e)
       IN  IF s.status[e] = "active"
           THEN /\ InRange(MoveFailed(s, e), method, e)
                /\ Apply(OnFail(MoveFailed(s, e), method, e))
                /\ unheeded' = IF IsCurrent(method, e) /\ AllInUse(s) /\ \E x \in Servers : s.status[x] = "closing"
                               THEN unheeded \cup {e} ELSE unheeded
           ELSE /\ sink' = s
                /\ unheeded' = IF s.status[e] = "failed" THEN unheeded ELSE unheeded \cup {e}
                /\ UNCHANGED method
    /\ Kept /\ UNCHANGED <<faults, drifted>>

\* removeEndpoint, and another endpoint for the server if the first
\* configuration has it and the method wants it.
Finished(e) ==
    /\ NextEvent(e, "finished")
    /\ LET s == RemoveEndpoint(sink, e)
       IN  sink' = IF e \in Range(first.servers) /\ ~shutting /\ OnFinish(method, e)
                   THEN AddEndpoint(s, e) ELSE s
    /\ method' = IF method.current = e THEN [method EXCEPT !.gone = TRUE] ELSE method
    /\ unheeded' = unheeded \ {e}
    /\ Kept /\ UNCHANGED <<faults, drifted>>

\* A payload is queued on an active endpoint.
QueuePayload(e) ==
    /\ ~shutting
    /\ sink.status[e] = "active" /\ ~sink.pending[e]
    /\ Whole
    /\ sink' = [sink EXCEPT !.pending[e] = TRUE, !.timeout[e] = "watch",
                            !.link[e].sent = sink.link[e].state = "up"]
    /\ Kept /\ UNCHANGED <<method, faults, unheeded, drifted>>

\* Mutant of Acked: the endpoint that waits to be closed is forgotten.
AckedOnly(e) ==
    /\ sink.pending[e]
    /\ sink.link[e].sent /\ sink.link[e].queue = <<>>
    /\ Whole
    /\ sink' = [sink EXCEPT !.pending[e] = FALSE, !.timeout[e] = "watch", !.link[e].sent = FALSE]
    /\ Kept /\ UNCHANGED <<method, faults, unheeded, drifted>>

\* The last payload is acknowledged.
Acked(e) ==
    /\ sink.pending[e]
    /\ sink.link[e].sent /\ sink.link[e].queue = <<>>
    /\ Whole
    /\ sink' = [sink EXCEPT !.pending[e] = FALSE, !.timeout[e] = "watch", !.link[e].sent = FALSE,
                            !.link[e].stop = @ \/ sink.status[e] = "closing"]
    /\ Kept /\ UNCHANGED <<method, faults, unheeded, drifted>>

TimeoutBackoff(e) ==
    /\ sink.timeout[e] = "backoff"
    /\ Whole
    /\ LET s == [sink EXCEPT !.timeout[e] = "none"]
       IN  IF s.status[e] = "idle" THEN MarkActive(s, e)
           ELSE sink' = s /\ UNCHANGED <<method, drifted, unheeded>>
    /\ Kept /\ UNCHANGED faults

\* timeoutPending: ForceFailure has no observer, so that payloads stay and the
\* method is not asked, and the transport is told to fail.
TimeoutPending(e) ==
    /\ sink.timeout[e] = "watch"
    /\ Whole
    /\ Fault
    /\ sink' = [sink EXCEPT !.timeout[e] = "none", !.link[e].forced = TRUE,
                            !.status[e] = IF @ = "active" THEN "failed" ELSE @]
    /\ unheeded' = unheeded \cup {e}
    /\ Kept /\ UNCHANGED <<method, drifted>>

Reload ==
    /\ Whole
    /\ ~shutting
    /\ Fault
    /\ reloads < MaxReloads /\ reloads' = reloads + 1
    /\ config' \in Configs
    /\ LET s == SinkReload(sink, config')
           r == Preferred(s, IF Failover THEN method ELSE NewMethod, config')
       IN  IF config'.method = "failover" THEN Apply(r)
           ELSE sink' = Balanced(s, config') /\ method' = NewMethod
    /\ UNCHANGED <<first, dead, shutting, unheeded, drifted>>

Shutdown ==
    /\ Whole
    /\ ~shutting
    /\ shutting' = TRUE
    /\ sink' = ShutdownAll(sink, Endpoints(sink))
    /\ UNCHANGED <<config, first, method, dead, faults, reloads, unheeded, drifted>>

-----------------------------------------------------------------------------
(* The transports: LinkEvents for each endpoint. *)

LinkStep(e, state, events) ==
    /\ sink.status[e] # "none"
    /\ sink.link[e].state # "over"
    /\ Len(sink.link[e].queue) < QueueCap
    /\ sink' = [sink EXCEPT !.link[e].state = state, !.link[e].queue = @ \o events,
                            !.link[e].forced = FALSE, !.link[e].sent = FALSE]

LinkStarts(e) ==
    /\ sink.link[e].state = "down" /\ e \notin dead
    /\ LinkStep(e, "up", <<"started">>)
    /\ Kept /\ UNCHANGED <<method, faults, unheeded, drifted>>

\* The connection is lost, or was told to fail.
LinkFails(e) ==
    /\ sink.link[e].state = "up"
    /\ LinkStep(e, "down", <<"failed">>)
    /\ IF sink.link[e].forced THEN UNCHANGED faults ELSE Fault
    /\ Kept /\ UNCHANGED <<method, unheeded, drifted>>

\* An attempt to connect fails.
LinkRefused(e) ==
    /\ sink.link[e].state = "down" /\ e \in dead
    /\ LinkStep(e, "down", <<"failed">>)
    /\ Kept /\ UNCHANGED <<method, faults, unheeded, drifted>>

\* A server goes away for good; another stays.
ServerDies(e) ==
    /\ Fault
    /\ dead' = dead \cup {e}
    /\ \A c \in Configs : Range(c.servers) \ dead' # {}
    /\ sink.link[e].state = "up" /\ LinkStep(e, "down", <<"failed">>)
    /\ UNCHANGED <<config, first, reloads, shutting, method, unheeded, drifted>>

LinkFinishes(e) ==
    /\ sink.link[e].stop
    /\ LinkStep(e, "over", <<"finished">>)
    /\ Kept /\ UNCHANGED <<method, faults, unheeded, drifted>>

-----------------------------------------------------------------------------
NoEndpoints ==
    [status |-> [e \in Servers |-> "none"], pending |-> [e \in Servers |-> FALSE],
     timeout |-> [e \in Servers |-> "none"],
     link |-> [e \in Servers |-> NewLink("over")],
     ordered |-> EmptyList]

Init ==
    /\ config \in Initial /\ first = config
    /\ LET r == Preferred(NoEndpoints, NewMethod, config)
       IN  IF Failover THEN sink = r.sink /\ method = r.method
           ELSE sink = Balanced(NoEndpoints, config) /\ method = NewMethod
    /\ shutting = FALSE /\ dead = Unreachable /\ faults = 0 /\ reloads = 0
    /\ unheeded = {} /\ drifted = FALSE

Handlers(e) == Started(e) \/ Failed(e) \/ Finished(e) \/ Acked(e) \/ TimeoutBackoff(e)

Next ==
    \/ \E e \in Servers :
          \/ Handlers(e) \/ QueuePayload(e) \/ TimeoutPending(e)
          \/ LinkStarts(e) \/ LinkFails(e) \/ LinkRefused(e) \/ ServerDies(e) \/ LinkFinishes(e)
    \/ Reload
    \/ Shutdown

Spec == Init /\ [][Next]_vars

\* Transports go on, servers answer while they are connected, the publisher
\* handles what is there.  A transport that is shut down finishes, between
\* whatever attempts to connect (TcpTransport!TransportEnds).  Nothing makes a
\* server fail, time out or die.
FairSpec ==
    /\ Spec
    /\ \A e \in Servers :
          /\ WF_vars(Handlers(e))
          /\ WF_vars(LinkStarts(e) \/ LinkRefused(e) \/ (LinkFails(e) /\ sink.link[e].forced))
          /\ SF_vars(LinkFinishes(e))

-----------------------------------------------------------------------------
(* Properties. *)

\* The ordered list is sound through every order of additions, moves and
\* removals; only a reload breaks it, which pushes an endpoint to the front that
\* is in the list.
RingIntact == reloads = 0 => Whole

\* failoverPosition is the place of the current endpoint in the list of servers,
\* so that onFail goes on to the next one and never past the end; unless onStarted
\* has moved it back for endpoints that it had moved it back for before.
PositionFollows ==
    Failover /\ reloads = 0 /\ ~drifted =>
        /\ method.position + 1 \in DOMAIN config.servers
        /\ config.servers[method.position + 1] = method.current

\* When the current endpoint fails there is a next server in the list that onFail
\* indexes, or every server has an endpoint and onFail returns before it does.
NextExists ==
    reloads = 0 /\ ~drifted =>
        \A e \in Servers : sink.status[e] = "active" => InRange(sink, method, e)

\* With method failover there is a server to send to again and again, whatever
\* connections fail and servers go away, as long as OnFail is called for failures
\* of the current endpoint.
Serves ==
    []<>(\/ shutting \/ reloads > 0 \/ drifted
         \/ \E e \in Servers : sink.status[e] = "active"
         \/ Failover /\ method.current \in unheeded)

\* What the documentation says of failover: a less preferred server is connected
\* to when the connection to a better one fails.
FailsOver ==
    []<>(shutting \/ \E e \in Servers : sink.status[e] = "active")

\* A payload is pending on an endpoint whose connection has gone since it was
\* sent, and nobody has taken it back.
Stranded == \E e \in Servers : sink.pending[e] /\ ~sink.link[e].sent

\* A shutdown ends with no endpoint left: those with pending payloads are closed
\* by the last acknowledgement, unless a payload is stranded.
ShutdownEnds == shutting ~> (Endpoints(sink) = {} \/ Stranded \/ ~Whole)
=============================================================================
