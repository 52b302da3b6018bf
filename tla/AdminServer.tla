---------------------------- MODULE AdminServer ----------------------------
(***************************************************************************)
(* The routine of the REST server (admin/server.go) as operators on its    *)
(* state, for Pipeline: the server that accepts requests, the one that is  *)
(* being stopped, and the local variables of Run.                          *)
(***************************************************************************)
LOCAL INSTANCE Naturals

CONSTANTS Binds,        \* addresses the configurations give for the server
          UnixBinds     \* those that are unix sockets, the others are TCP

ASSUME AdminAssumption == UnixBinds \subseteq Binds

NoBind == "none"

\* first: l.config.Bind.  sockets: where a client gets a connection.  closing: the
\* channel closingOldServer, which is nil, open, closed, or open and never closed.
NewServer(bind) ==
    [first |-> bind, bind |-> bind, sockets |-> {bind},
     old |-> NoBind, closing |-> "nil", queued |-> NoBind,
     shutting |-> FALSE, started |-> FALSE, done |-> FALSE]

\* listenUnix removes the file that is there, a TCP address must be free.
Listens(a, bind) == bind \in UnixBinds \/ bind \notin a.sockets

\* graceful.Server closes its listener, which removes the file of a unix socket,
\* and when its requests have ended, or are cut off after ten seconds, it closes
\* the stop channel, if there is one.
ServerStopped(a) == [a EXCEPT !.closing = "closed", !.sockets = @ \ {a.old}]

\* Stop, a message to the log, and StopChan, which makes the channel: a server
\* that is gone by then has closed nothing, and nobody ever will.
ShutdownServer(a, gone) ==
    LET s == [a EXCEPT !.old = a.bind, !.closing = "open"]
    IN  IF gone THEN [ServerStopped(s) EXCEPT !.closing = "never"] ELSE s

\* Mutant of ReloadServer: the old server is stopped before the new one listens.
ReloadStopsFirst(a, bind, gone) ==
    IF Listens(a, bind)
    THEN [ShutdownServer([a EXCEPT !.sockets = @ \cup {bind}], gone) EXCEPT !.bind = bind]
    ELSE ShutdownServer(a, gone)

ReloadServer(a, bind, gone) ==
    IF Listens(a, bind)
    THEN [ShutdownServer([a EXCEPT !.sockets = @ \cup {bind}], gone) EXCEPT !.bind = bind]
    ELSE [a EXCEPT !.closing = "nil"]

\* A configuration is compared with the first one, and waits while another
\* server is being stopped: closingOldServer is not reset when it is.
OnConfig(a, bind, gone) ==
    IF bind = a.first THEN a
    ELSE IF a.closing # "nil" THEN [a EXCEPT !.queued = bind]
    ELSE ReloadServer(a, bind, gone)

OnShutdown(a, gone) ==
    LET s == [a EXCEPT !.shutting = TRUE]
    IN  IF a.closing = "nil" THEN [ShutdownServer(s, gone) EXCEPT !.started = TRUE] ELSE s

\* closingOldServer is closed.  The configuration that waits is not reset.
OldServerClosed(a, gone) ==
    IF a.shutting
    THEN IF a.started THEN [a EXCEPT !.done = TRUE]
         ELSE [ShutdownServer(a, gone) EXCEPT !.started = TRUE]
    ELSE IF a.queued # NoBind THEN ReloadServer(a, a.queued, gone) ELSE a
=============================================================================
