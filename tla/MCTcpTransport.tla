--------------------------- MODULE MCTcpTransport ---------------------------
EXTENDS TcpTransport
CONSTANTS a1, a2
MCAddresses == <<a1, a2>>
\* A new program, and one whose limit was lowered from 2 to 1, with two payloads
\* to send again and a sink that was given 1 or 2 at first.
New     == {[now |-> 1, highest |-> 1, net |-> 1, payloads |-> 0]}
Lowered == [now : {1}, highest : {2}, net : {1, 2}, payloads : {2}]
=============================================================================
