---------------------------- MODULE SinkTimeouts ----------------------------
(***************************************************************************)
(* The timeouts of the sink (endpoint/sink_timeout.go): a list in order of *)
(* time, and one timer for its first entry, whose channel the publisher's  *)
(* loop reads.  Stopping or resetting a Go timer leaves a tick that is     *)
(* already in its channel there, so that the tick and the list can be out  *)
(* of step.  Times are what is left to wait; what is due stays at 0.       *)
(***************************************************************************)
EXTENDS Integers, Sequences

Lists == INSTANCE SequencesExt

CONSTANTS Owners,    \* the Timeout structures: of the endpoints and of method random
          MaxDelay   \* the longest timeout

ASSUME TimeoutAssumption == MaxDelay \in Nat

VARIABLES
    timeoutList,   \* owners, the first to be called first
    due,           \* what is left to wait, for each owner
    hasFunc,       \* owners with a timeoutFunc
    timer,         \* what is left until the timer fires, or Stopped
    tick,          \* timeoutTimer.C holds a tick
    pc             \* select, or process: in the loop of ProcessTimeouts

timeoutVars == <<timeoutList, due, hasFunc, timer, tick, pc>>

Stopped == -1
Delays == 0 .. MaxDelay
Listed == Lists!ToSet(timeoutList)

TimeoutInit ==
    /\ timeoutList = <<>> /\ due = [o \in Owners |-> 0] /\ hasFunc = {}
    /\ timer = Stopped /\ tick = FALSE
    /\ pc = "select"

-----------------------------------------------------------------------------
(* The list. *)

\* Elements that are in no list, or in another, are left alone.
Removed(list, o) ==
    IF o \in Lists!ToSet(list) THEN Lists!RemoveAt(list, CHOOSE i \in DOMAIN list : list[i] = o) ELSE list

\* Mutant of Inserted: behind those of the same time only.
InsertedLast(list, o, delay) == Append(list, o)

\* Behind all that are not later.
Inserted(list, o, delay) ==
    LET later == {i \in DOMAIN list : due[list[i]] > delay}
        at == IF later = {} THEN Len(list) + 1 ELSE CHOOSE i \in later : \A j \in later : i <= j
    IN  Lists!InsertAt(list, at, o)

\* Mutant of ResetTimer: a timer that runs is left alone.
ResetStopped(list, times) ==
    timer' = IF list = <<>> THEN Stopped ELSE IF timer = Stopped THEN times[Head(list)] ELSE timer

\* resetTimeoutTimer
ResetTimer(list, times) == timer' = IF list = <<>> THEN Stopped ELSE times[Head(list)]

-----------------------------------------------------------------------------
(* What the publisher's goroutine does with timeouts, in its handlers and in  *)
(* the callbacks.                                                             *)

RegisterTimeout(o, delay, list) ==
    LET without == IF o \in hasFunc THEN Removed(list, o) ELSE list
    IN  /\ timeoutList' = Inserted(without, o, delay)
        /\ due' = [due EXCEPT ![o] = delay]
        /\ ResetTimer(timeoutList', due')

\* ClearTimeout, and ShutdownEndpoint: the timer goes on.
ClearTimeout(o, list) ==
    /\ timeoutList' = IF o \in hasFunc THEN Removed(list, o) ELSE list
    /\ UNCHANGED <<due, timer>>

\* removeEndpoint: the structure is given up with the endpoint.
Forget(o, list) ==
    /\ timeoutList' = IF o \in hasFunc THEN Removed(list, o) ELSE list
    /\ IF o \in hasFunc THEN ResetTimer(timeoutList', due) ELSE UNCHANGED timer
    /\ UNCHANGED due

Handler ==
    /\ pc = "select"
    /\ \E o \in Owners :
          \/ \E delay \in Delays : RegisterTimeout(o, delay, timeoutList) /\ hasFunc' = hasFunc \cup {o}
          \/ ClearTimeout(o, timeoutList) /\ UNCHANGED hasFunc
          \/ Forget(o, timeoutList) /\ hasFunc' = hasFunc \ {o}
    /\ UNCHANGED <<tick, pc>>

\* ProcessTimeouts is called for a tick; nothing may be left in the list.
TakeTick ==
    /\ pc = "select"
    /\ tick
    /\ tick' = FALSE
    /\ pc' = IF timeoutList = <<>> THEN "select" ELSE "process"
    /\ UNCHANGED <<timeoutList, due, hasFunc, timer>>

\* The first timeout is taken off and called; the callback may register or
\* clear timeouts, its own included.
CallBack ==
    /\ pc = "process"
    /\ LET first == Head(timeoutList)
           rest  == Tail(timeoutList)
       IN  \/ \E o \in Owners, delay \in Delays :
                 /\ RegisterTimeout(o, delay, rest)
                 /\ hasFunc' = (hasFunc \ {first}) \cup {o}
           \/ \E o \in Owners :
                 /\ timeoutList' = IF o \in hasFunc THEN Removed(rest, o) ELSE rest
                 /\ hasFunc' = hasFunc \ {first}
                 /\ UNCHANGED <<due, timer>>
    /\ pc' = "next"
    /\ UNCHANGED tick

\* On with the next one that is due, or back to the select.
NextDue ==
    /\ pc = "next"
    /\ IF timeoutList # <<>> /\ due[Head(timeoutList)] = 0
       THEN pc' = "process" /\ UNCHANGED timer
       ELSE pc' = "select" /\ ResetTimer(timeoutList, due)
    /\ UNCHANGED <<timeoutList, due, hasFunc, tick>>

-----------------------------------------------------------------------------
(* The clock and the timer of the runtime (external). *)

\* The timer puts a tick into its channel unless there is one.
Fire ==
    /\ timer = 0
    /\ timer' = Stopped
    /\ tick' = TRUE
    /\ UNCHANGED <<timeoutList, due, hasFunc, pc>>

Less(n) == IF n > 0 THEN n - 1 ELSE n

TimePasses ==
    /\ timer # 0
    /\ \E o \in Listed : due[o] > 0
    /\ due' = [o \in Owners |-> Less(due[o])]
    /\ timer' = Less(timer)
    /\ UNCHANGED <<timeoutList, hasFunc, tick, pc>>

TimeoutNext == Handler \/ TakeTick \/ CallBack \/ NextDue \/ Fire \/ TimePasses

TimeoutSpec == TimeoutInit /\ [][TimeoutNext]_timeoutVars

-----------------------------------------------------------------------------
(* Properties. *)

TimeoutTypeOK ==
    /\ Lists!IsInjective(timeoutList) /\ Listed \subseteq hasFunc /\ hasFunc \subseteq Owners
    /\ due \in [Owners -> Delays]
    /\ timer \in Delays \cup {Stopped}
    /\ tick \in BOOLEAN /\ pc \in {"select", "process", "next"}

\* The list stays in the order of time, whatever handlers and callbacks do to
\* it: ProcessTimeouts stops at the first that is not due, and the timer is set
\* for the first only.
SoonestFirst ==
    \A i, j \in DOMAIN timeoutList : i < j => due[timeoutList[i]] <= due[timeoutList[j]]

\* No timeout is forgotten: while the publisher waits in its select there is a
\* tick, or the timer fires no later than the first timeout is due.  Without this
\* a silent server would never be noticed.
NeverForgotten ==
    pc = "select" /\ timeoutList # <<>> =>
        tick \/ (timer # Stopped /\ timer <= due[Head(timeoutList)])

\* What TimeoutChan's comment says: a tick comes when the next timeout is hit.
\* It does not hold, see the README.
NeverEarly == [][TakeTick /\ timeoutList # <<>> => due[Head(timeoutList)] = 0]_timeoutVars
=============================================================================
