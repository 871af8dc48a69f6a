-------------------------- MODULE MCQueueDelivery --------------------------
(***************************************************************************)
(* QueueDelivery on a small instance.                                      *)
(***************************************************************************)
EXTENDS QueueDelivery
=============================================================================
