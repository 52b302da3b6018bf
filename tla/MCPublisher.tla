---------------------------- MODULE MCPublisher ----------------------------
(* Instances of Publisher for TLC. Servers are interchangeable: no action  *)
(* prefers one, and activeServer is read under method random only, where   *)
(* a single server is connected at start.                                  *)
EXTENDS Publisher, TLC

Symmetry == Permutations(Servers)
=============================================================================
