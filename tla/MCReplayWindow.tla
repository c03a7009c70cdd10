--------------------------- MODULE MCReplayWindow ---------------------------
(***************************************************************************)
(* ReplayWindow on a window of 4 and sequence numbers up to 10, so that a  *)
(* jump of exactly Size, of Size - 1 and of more than Size all happen.     *)
(***************************************************************************)
EXTENDS ReplayWindow

MCSeqs == 0..10
=============================================================================
