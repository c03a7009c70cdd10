--------------------------- MODULE MCProfileStore ---------------------------
(***************************************************************************)
(* ProfileStore with two processes and two servers: one request can come   *)
(* between any two steps of another, the active server can be removed      *)
(* while another one is left. Nothing is bounded.                          *)
(***************************************************************************)
EXTENDS ProfileStore, TLC

TwoIds == {1, 2}
Symmetry == Permutations(Procs) \union Permutations(Hosts) \union Permutations(Tokens)
=============================================================================
