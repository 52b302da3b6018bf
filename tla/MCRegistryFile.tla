--------------------------- MODULE MCRegistryFile ---------------------------
(* Instances of RegistryFile for TLC. *)
EXTENDS RegistryFile
=============================================================================
