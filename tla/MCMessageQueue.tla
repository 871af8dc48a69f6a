--------------------------- MODULE MCMessageQueue ---------------------------
(***************************************************************************)
(* MessageQueue on a small instance.                                       *)
(***************************************************************************)
EXTENDS MessageQueue
=============================================================================
