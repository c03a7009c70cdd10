-------------------------- MODULE MCServerSessions --------------------------
(***************************************************************************)
(* ServerSessions on small instances. Three connections compete for two    *)
(* slots in the safety run. In the liveness run two connections fill both  *)
(* slots; under Python 3.12 two compete for one.                           *)
(***************************************************************************)
EXTENDS ServerSessions, TLC

CONSTANTS c1, c2, c3, i1, i2, i3

MCConns == {c1, c2, c3}
MCIds == {i1, i2, i3}
MCSymmetry == Permutations(MCConns) \union Permutations(MCIds)

MCTwoConns == {c1, c2}
MCTwoIds == {i1, i2}
=============================================================================
