---------------------------- MODULE MCProspector ----------------------------
(* Instances of Prospector for TLC. *)
EXTENDS Prospector
=============================================================================
