------------------------------ MODULE Spooler ------------------------------
(***************************************************************************)
(* lc-lib/spooler/spooler.go: collects the events of the harvesters into   *)
(* spools and hands these to the publisher, when a spool is full, when the *)
(* next event would make it too large, on a flush and on a timeout.        *)
(*                                                                         *)
(* Events are numbered 1, 2, 3, ... in the order they enter the input      *)
(* channel, so that a spool is the interval from+1..to.  The size of an    *)
(* event includes the header that is added per event.                      *)
(*                                                                         *)
(* sendSpool waits for the publisher, a new configuration or the shutdown. *)
(* reloadConfig may call it again while it waits, but whichever call       *)
(* succeeds, all of them return together: pc "send" stands for any depth.  *)
(***************************************************************************)
EXTENDS Integers, Sequences

CONSTANTS SpoolSizes,     \* values of "spool size" a configuration may have
          MaxByteLimits,  \* values of "spool max bytes" it may have
          EventSizes,     \* sizes of events, header included
          InputCap,       \* capacity of the input channel (16 in the code)
          OutputCap,      \* capacity of the publisher's spoolChan (1 in the code)
          NumEvents,      \* bound: events the harvesters read
          MaxFlushes,     \* bound: calls of Flush()
          MaxReloads,     \* bound: configuration reloads
          EnableShutdown  \* whether the pipeline may shut down

ASSUME SpoolerAssumption ==
    /\ SpoolSizes \subseteq Nat \ {0} /\ SpoolSizes # {}
    /\ MaxByteLimits \subseteq Nat /\ MaxByteLimits # {}
    /\ EventSizes \subseteq Nat \ {0}
    /\ InputCap \in Nat \ {0} /\ OutputCap \in Nat \ {0}
    /\ NumEvents \in Nat /\ MaxFlushes \in Nat /\ MaxReloads \in Nat
    /\ EnableShutdown \in BOOLEAN

VARIABLES
    pc,         \* "select", "send" (in sendSpool) or "exited"
    after,      \* what Run does when sendSpool has returned
    held,       \* size of the event in hand that did not fit, or 0
    input,      \* event sizes, and Flush for nil events
    taken,      \* events taken from the input so far
    spool,      \* the spool being filled
    spoolCap,   \* cap(s.spool)
    spoolSize,  \* "spool size" of the current configuration
    spoolMaxBytes,  \* and its "spool max bytes"
    timer,      \* "running", "fired" (a tick waits in timer.C) or "stopped"
    output,     \* spoolChan
    delivered,  \* last event the publisher has taken
    flushes, reloads

spoolVars == <<spool, spoolCap, held>>
config == <<spoolSize, spoolMaxBytes>>
vars == <<pc, after, spoolVars, input, taken, config, timer, output, delivered, flushes, reloads>>

Flush == 0

\* History: limit is "spool max bytes" as it was when the last event was added.
SpoolRec == [from : Nat, to : Nat, bytes : Nat, limit : Nat]

SpoolLen(sp) == sp.to - sp.from

TypeOK ==
    /\ pc \in {"select", "send", "exited"}
    /\ after \in {"continue", "append", "restart", "reset"}
    /\ held \in EventSizes \cup {0}
    /\ input \in Seq(EventSizes \cup {Flush})
    /\ taken \in Nat
    /\ spool \in SpoolRec
    /\ spoolCap \in SpoolSizes /\ spoolSize \in SpoolSizes /\ spoolMaxBytes \in MaxByteLimits
    /\ timer \in {"running", "fired", "stopped"}
    /\ output \in Seq(SpoolRec)
    /\ delivered \in Nat
    /\ flushes \in Nat /\ reloads \in Nat

-----------------------------------------------------------------------------
(* The harvesters, main and the publisher. *)

Harvest(size) ==
    /\ taken + Len(SelectSeq(input, LAMBDA x : x # Flush)) < NumEvents
    /\ Len(input) < InputCap
    /\ input' = Append(input, size)
    /\ UNCHANGED <<pc, after, spoolVars, taken, config, timer, output, delivered, flushes, reloads>>

CallFlush ==
    /\ flushes < MaxFlushes
    /\ flushes' = flushes + 1
    /\ Len(input) < InputCap
    /\ input' = Append(input, Flush)
    /\ UNCHANGED <<pc, after, spoolVars, taken, config, timer, output, delivered, reloads>>

PublisherTakes ==
    /\ output # <<>>
    /\ output' = Tail(output)
    /\ delivered' = Head(output).to
    /\ UNCHANGED <<pc, after, spoolVars, input, taken, config, timer, flushes, reloads>>

TimerFires ==
    /\ timer = "running"
    /\ timer' = "fired"
    /\ UNCHANGED <<pc, after, spoolVars, input, taken, config, output, delivered, flushes, reloads>>

-----------------------------------------------------------------------------
(* Run. *)

\* The spool with one more event, added under a limit on bytes.
Added(sp, size, max) == [from |-> sp.from, to |-> sp.to + 1, bytes |-> sp.bytes + size, limit |-> max]

\* A new spool, from make().
Emptied(sp) == [from |-> sp.to, to |-> sp.to, bytes |-> 0, limit |-> 0]

\* Mutant of TooLarge: the spool may become exactly as large as the limit.
TooLargeLate(size) == SpoolLen(spool) > 0 /\ spool.bytes + size > spoolMaxBytes

\* The next event does not go into this spool.
TooLarge(size) == SpoolLen(spool) > 0 /\ spool.bytes + size >= spoolMaxBytes

Full(sp) == SpoolLen(sp) >= spoolCap

\* Call sendSpool.
Send(what) == pc' = "send" /\ after' = what

\* A nil event: flush, and leave the timer alone.
TakeFlush ==
    /\ pc = "select"
    /\ input # <<>>
    /\ Head(input) = Flush
    /\ input' = Tail(input)
    /\ IF SpoolLen(spool) > 0 THEN Send("continue") ELSE UNCHANGED <<pc, after>>
    /\ UNCHANGED <<spoolVars, taken, config, timer, output, delivered, flushes, reloads>>

\* An event: keep it in hand when it does not fit, otherwise add it.
TakeEvent ==
    LET size == Head(input)
    IN  /\ pc = "select"
        /\ input # <<>>
        /\ size # Flush
        /\ input' = Tail(input)
        /\ taken' = taken + 1
        /\ \/ /\ TooLarge(size)
              /\ held' = size
              /\ Send("append")
              /\ UNCHANGED spool
           \/ /\ ~TooLarge(size)
              /\ spool' = Added(spool, size, spoolMaxBytes)
              /\ IF Full(spool') THEN Send("restart") ELSE UNCHANGED <<pc, after>>
              /\ UNCHANGED held
        /\ UNCHANGED <<spoolCap, config, timer, output, delivered, flushes, reloads>>

\* Mutant of TakeTimer: starts the timer again and flushes nothing.
TakeTimerIdle ==
    /\ pc = "select"
    /\ timer = "fired"
    /\ timer' = "running"
    /\ UNCHANGED <<pc, after, spoolVars, input, taken, config, output, delivered, flushes, reloads>>

TakeTimer ==
    /\ pc = "select"
    /\ timer = "fired"
    /\ IF SpoolLen(spool) > 0 THEN Send("restart") /\ timer' = "stopped"
                              ELSE timer' = "running" /\ UNCHANGED <<pc, after>>
    /\ UNCHANGED <<spoolVars, input, taken, config, output, delivered, flushes, reloads>>

\* Mutant of SendReturns: the event in hand is forgotten.
SendForgets ==
    /\ pc' = "select" /\ after' = "continue" /\ held' = 0
    /\ spool' = Emptied(IF after = "append" THEN Added(spool, held, spoolMaxBytes') ELSE spool)
    /\ spoolCap' = spoolSize'

\* Mutant of SendReturns: the spool that was sent is not replaced.
SendKeepsSpool ==
    /\ pc' = "select" /\ after' = "continue" /\ held' = 0
    /\ spool' = IF after = "append" THEN Added(spool, held, spoolMaxBytes') ELSE spool
    /\ spoolCap' = spoolSize'

\* sendSpool makes a new spool and returns true; Run adds the event in hand.
SendReturns ==
    /\ pc' = "select" /\ after' = "continue" /\ held' = 0
    /\ spool' = IF after = "append" THEN Added(Emptied(spool), held, spoolMaxBytes') ELSE Emptied(spool)
    /\ spoolCap' = spoolSize'

\* reloadConfig starts the timer without emptying its channel.
TimerReset == IF timer = "fired" THEN "fired" ELSE "running"

\* sendSpool: the publisher's channel takes the spool, and the caller restarts
\* the timer: Run with resetTimer, reloadConfig without emptying its channel.
SendSpool ==
    /\ pc = "send"
    /\ Len(output) < OutputCap
    /\ output' = Append(output, spool)
    /\ timer' = CASE after = "continue" -> timer
                  [] after = "reset" -> TimerReset
                  [] OTHER -> "running"
    /\ UNCHANGED config
    /\ SendReturns
    /\ UNCHANGED <<input, taken, delivered, flushes, reloads>>

\* reloadConfig flushes when the new "spool size" or "spool timeout" is exceeded
\* (late), but does not look at the new "spool max bytes".
MustFlush(size, late) == late \/ SpoolLen(spool) >= size

\* A new configuration in Run's select.
Reload(size, max, late) ==
    /\ pc = "select"
    /\ reloads < MaxReloads
    /\ reloads' = reloads + 1
    /\ spoolSize' = size /\ spoolMaxBytes' = max
    /\ IF MustFlush(size, late) THEN Send("reset") /\ UNCHANGED timer
                                ELSE timer' = TimerReset /\ UNCHANGED <<pc, after>>
    /\ UNCHANGED <<spoolVars, input, taken, output, delivered, flushes>>

\* A new configuration in sendSpool's select: wait again if reloadConfig has
\* to flush, else return as if the spool had been sent.
ReloadInSend(size, max, late) ==
    /\ pc = "send"
    /\ reloads < MaxReloads
    /\ reloads' = reloads + 1
    /\ spoolSize' = size /\ spoolMaxBytes' = max
    /\ IF MustFlush(size, late)
       THEN /\ after' = IF after = "continue" THEN "reset" ELSE after
            /\ UNCHANGED <<pc, spoolVars, timer>>
       ELSE /\ timer' = IF after \in {"continue", "reset"} THEN TimerReset ELSE "running"
            /\ SendReturns
    /\ UNCHANGED <<input, taken, output, delivered, flushes>>

\* The shutdown, in either select: Run returns with what it has.
Shutdown ==
    /\ EnableShutdown
    /\ pc \in {"select", "send"}
    /\ pc' = "exited"
    /\ UNCHANGED <<after, spoolVars, input, taken, config, timer, output, delivered, flushes, reloads>>

-----------------------------------------------------------------------------
Init ==
    /\ pc = "select" /\ after = "continue" /\ held = 0
    /\ input = <<>> /\ taken = 0
    /\ spool = [from |-> 0, to |-> 0, bytes |-> 0, limit |-> 0]
    /\ spoolSize \in SpoolSizes /\ spoolCap = spoolSize /\ spoolMaxBytes \in MaxByteLimits
    /\ timer = "running"
    /\ output = <<>> /\ delivered = 0
    /\ flushes = 0 /\ reloads = 0

Run ==
    \/ TakeFlush
    \/ TakeEvent
    \/ TakeTimer
    \/ SendSpool

ConfigStep ==
    \E size \in SpoolSizes, max \in MaxByteLimits, late \in BOOLEAN :
        Reload(size, max, late) \/ ReloadInSend(size, max, late)

Next ==
    \/ \E size \in EventSizes : Harvest(size)
    \/ CallFlush
    \/ PublisherTakes
    \/ TimerFires
    \/ Run
    \/ ConfigStep
    \/ Shutdown

Spec == Init /\ [][Next]_vars

\* The goroutines run, the harvesters have events, the publisher takes spools,
\* the timer fires, and a case that stays ready is taken: Go's select chooses
\* at random.
Fairness ==
    /\ WF_vars(\E size \in EventSizes : Harvest(size))
    /\ WF_vars(PublisherTakes)
    /\ WF_vars(TimerFires)
    /\ WF_vars(TakeFlush) /\ WF_vars(TakeEvent) /\ WF_vars(TakeTimer)
    /\ WF_vars(SendSpool)

FairSpec == Spec /\ Fairness

-----------------------------------------------------------------------------
(* Properties. *)

\* The last event handed over before the spool being filled.
SentUpTo == IF output = <<>> THEN delivered ELSE output[Len(output)].to

\* Spools leave in order and no event leaves twice, whatever makes Run flush:
\* each begins no earlier than the one before it ends, and what is being filled
\* ends with the last event taken, but for the one in hand.
SpoolsInOrder ==
    /\ \A i \in 1 .. Len(output) : output[i].from <= output[i].to
    /\ output # <<>> => delivered <= output[1].from
    /\ \A i \in 1 .. Len(output) - 1 : output[i].to <= output[i + 1].from
    /\ SentUpTo <= spool.from
    /\ spool.to + (IF after = "append" THEN 1 ELSE 0) = taken

\* No event is skipped: every spool begins where the one before it ends.
\* Otherwise the acknowledgement of the next spool moves the registrar past
\* events that were never sent.
NothingSkipped ==
    /\ output # <<>> => delivered = output[1].from
    /\ \A i \in 1 .. Len(output) - 1 : output[i].to = output[i + 1].from
    /\ SentUpTo = spool.from

\* As long as the configuration stays, flushes, timeouts, "spool size" and "spool
\* max bytes" together skip nothing, and send no spool that is empty or larger
\* than configured: every payload has events to acknowledge.
SendsAll ==
    reloads = 0 => /\ NothingSkipped
                   /\ \A i \in 1 .. Len(output) : SpoolLen(output[i]) \in 1 .. spoolSize

\* "spool max bytes" over reloads: a spool reaches the limit that was in force
\* when its last event was added only with a single event, also when the event
\* that did not fit starts the next one, under another limit.
BytesLimited ==
    \A i \in 1 .. Len(output) : SpoolLen(output[i]) > 1 => output[i].bytes < output[i].limit

\* What the documentation says: no spool of several events that sendSpool is to
\* send is larger than the limit in force.  A reload that lowers it looks only at
\* the number of events and at the time.
BytesInForce == pc = "send" /\ SpoolLen(spool) > 1 => spool.bytes <= spoolMaxBytes

\* Every event reaches the publisher, an incomplete spool by the timeout, unless
\* a reload comes between or the pipeline shuts down.
AllDelivered == <>[](delivered = NumEvents \/ reloads > 0 \/ pc = "exited")
=============================================================================
