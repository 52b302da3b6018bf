----------------------------- MODULE MCSpooler -----------------------------
(* Instances of Spooler for TLC. *)
EXTENDS Spooler
=============================================================================
