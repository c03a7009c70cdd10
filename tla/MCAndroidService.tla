-------------------------- MODULE MCAndroidService --------------------------
(***************************************************************************)
(* AndroidService with three requests, of every kind and in every order:   *)
(* enough for a request that replaces one to be replaced itself while the  *)
(* executor is still on the first, and for a worker's late interrupt to    *)
(* meet the next connection.                                               *)
(***************************************************************************)
EXTENDS AndroidService
=============================================================================
