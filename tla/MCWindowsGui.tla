---------------------------- MODULE MCWindowsGui ----------------------------
(***************************************************************************)
(* WindowsGui with two nodes, so that a node can be switched and the last  *)
(* one deleted; two workers, so that one may follow, or meet, the worker   *)
(* of a window that was killed; one window killed and one call failed, at  *)
(* any point.                                                              *)
(***************************************************************************)
EXTENDS WindowsGui
=============================================================================
