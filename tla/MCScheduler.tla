---------------------------- MODULE MCScheduler ----------------------------
(***************************************************************************)
(* Scheduler on a small instance: a schedule of each kind by itself, which *)
(* is handled in every way, and two together that the tick has to fire one *)
(* after the other.  Fires raise exceptions, those of an ephemeral agent   *)
(* where it is one of two.                                                 *)
(***************************************************************************)
EXTENDS Scheduler, TLC

CONSTANTS s1, s2

Alone(k) == [s \in Schedules |-> IF s = s1 THEN k ELSE None]
Single == {Alone(k) : k \in Kinds}
Pair(k, l) == [s \in Schedules |-> IF s = s1 THEN k ELSE l]
Pairs == {Pair("prompt", "ephemeral"), Pair("prompt", "script")}
MCMixes == Single \union Pairs
MCRaising == MCMixes \ {Alone("ephemeral")}
=============================================================================
