-------------------------- MODULE OrderedDelivery --------------------------
(***************************************************************************)
(* What the publisher and the registrar together promise about one stream  *)
(* of events 1, 2, 3, ...: the registered offset moves forward only, over  *)
(* events that a server has acknowledged, and a crash goes back to the     *)
(* offset in the state file and no further.                                *)
(***************************************************************************)
EXTENDS Integers

VARIABLES spooled,     \* events handed to the publisher since the last start
          received,    \* events some server has acknowledged
          registered,  \* the registrar's offset
          persisted    \* the offset in the state file

deliveryVars == <<spooled, received, registered, persisted>>

Init == spooled = 0 /\ received = {} /\ registered = 0 /\ persisted = 0

Spool ==
    /\ spooled' \in Nat
    /\ spooled' >= spooled
    /\ UNCHANGED <<received, registered, persisted>>

\* Servers may also process events twice, or events an earlier run sent.
Receive ==
    /\ received \subseteq received'
    /\ received' \subseteq received \cup 1 .. spooled
    /\ UNCHANGED <<spooled, registered, persisted>>

\* The offset advances over acknowledged events; writing it may fail.
Register ==
    /\ registered' \in registered + 1 .. spooled
    /\ 1 .. registered' \subseteq received
    /\ persisted' \in {persisted, registered'}
    /\ UNCHANGED <<spooled, received>>

Crash ==
    /\ spooled' = persisted
    /\ registered' = persisted
    /\ UNCHANGED <<received, persisted>>

Next == Spool \/ Receive \/ Register \/ Crash

Spec == Init /\ [][Next]_deliveryVars
=============================================================================
