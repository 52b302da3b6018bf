----------------------------- MODULE LinkEvents -----------------------------
(***************************************************************************)
(* What a transport promises to the publisher about the events it puts     *)
(* into the event channel (transports/event.go): a connection is announced *)
(* by Started, answers come only from an announced connection, Failed ends *)
(* it, or the attempt to make one, and after Finished nothing follows.     *)
(* The publisher resends what was pending when it sees Failed or Finished, *)
(* so that an answer beyond that would be counted twice.                   *)
(***************************************************************************)
EXTENDS Sequences, Naturals

VARIABLES link,   \* down, up or over
          queue   \* the types of the events on their way, oldest first

LinkInit == link = "down" /\ queue = <<>>

Announce(type) == queue' = Append(queue, type)

Starts   == link = "down" /\ link' = "up" /\ Announce("started")
Answers  == link = "up" /\ link' = "up" /\ (Announce("ack") \/ Announce("pong"))
Fails    == link # "over" /\ link' = "down" /\ Announce("failed")
Finishes == link # "over" /\ link' = "over" /\ Announce("finished")
Taken    == queue # <<>> /\ queue' = Tail(queue) /\ UNCHANGED link

LinkNext == Starts \/ Answers \/ Fails \/ Finishes \/ Taken

LinkSpec == LinkInit /\ [][LinkNext]_<<link, queue>>
=============================================================================
