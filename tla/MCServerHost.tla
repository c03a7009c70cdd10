---------------------------- MODULE MCServerHost ----------------------------
(***************************************************************************)
(* ServerHost with up to three runs cut short, so that a run can start on  *)
(* what several have left, and three callbacks due at once, so that        *)
(* datagrams are before and behind the reader when the server stops.       *)
(***************************************************************************)
EXTENDS ServerHost
=============================================================================
