---------------------------- MODULE MCClientHost ----------------------------
(***************************************************************************)
(* ClientHost with two server addresses: the loop over them can be cut off *)
(* half-way. Nothing else is bounded, for a host has finitely many         *)
(* configurations.                                                         *)
(***************************************************************************)
EXTENDS ClientHost
=============================================================================
