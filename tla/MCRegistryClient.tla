-------------------------- MODULE MCRegistryClient -------------------------
(***************************************************************************)
(* Instances of RegistryClient for TLC: two parties, one with a configured *)
(* dashboard, one that publishes its own.                                  *)
(***************************************************************************)
EXTENDS RegistryClient

CONSTANTS p1, p2
=============================================================================
