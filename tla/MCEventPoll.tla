---------------------------- MODULE MCEventPoll ----------------------------
(***************************************************************************)
(* EventPoll on a small instance.                                          *)
(***************************************************************************)
EXTENDS EventPoll
=============================================================================
