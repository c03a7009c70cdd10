---------------------------- MODULE MCTunnelData ----------------------------
(***************************************************************************)
(* TunnelData with two sessions that compete for one address and one id,   *)
(* so that the second has them only after the first; two endpoints.        *)
(***************************************************************************)
EXTENDS TunnelData, TLC

Symmetry == Permutations(Sessions) \union Permutations(Endpoints)
=============================================================================
