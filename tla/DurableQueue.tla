---------------------------- MODULE DurableQueue ----------------------------
(***************************************************************************)
(* What the queue of a session promises to those who put messages into it, *)
(* whatever happens to its file and to the server: MessageQueue implements *)
(* this specification.                                                     *)
(*                                                                         *)
(* Messages come one by one and wait, one ahead of the other.  What has    *)
(* left never comes back, and nobody overtakes, but for two exceptions     *)
(* that are named: messages whose last change is not safe, and messages    *)
(* that were put in front and lose their place with the server.            *)
(***************************************************************************)
EXTENDS Naturals

VARIABLES arrived, \* how many messages have come
          waiting, \* those that wait
          ahead,   \* the pairs of which the first is ahead of the second
          loose,   \* those with a change that the next restart may undo
          jumped   \* those that were put in front, or brought back
durableVars == <<arrived, waiting, ahead, loose, jumped>>

Init == arrived = 0 /\ waiting = {} /\ ahead = {} /\ loose = {} /\ jumped = {}

New == arrived + 1
Comes ==
  /\ arrived' = New
  /\ waiting' = waiting \union {New}
  /\ loose \subseteq loose' /\ loose' \subseteq 1 .. New

\* A new message waits behind all the others.
Arrive ==
  /\ Comes
  /\ ahead' = ahead \union (waiting \X {New})
  /\ UNCHANGED jumped

\* A message that is sent again waits ahead of the others, or behind them when
\* it is not safe.
Jump ==
  /\ Comes
  /\ \/ ahead' = ahead \union ({New} \X waiting)
     \/ ahead' = ahead \union (waiting \X {New}) /\ New \in loose'
  /\ jumped' = jumped \union {New}

\* Messages leave for good, and the others keep their order; changes get loose.
Leave ==
  /\ waiting' \subseteq waiting
  /\ ahead' = ahead \intersect (waiting' \X waiting')
  /\ loose \subseteq loose' /\ loose' \subseteq 1 .. arrived
  /\ UNCHANGED <<arrived, jumped>>

\* The server has died and come back.  Of what was safe nothing is back that had
\* left, and all of it that did not jump is in its order.
Recover ==
  /\ waiting' \subseteq waiting \union loose
  /\ loose' = {} /\ jumped' = jumped \union loose
  /\ LET safe == waiting' \ jumped'
     IN  ahead' \intersect (safe \X safe) = ahead \intersect (safe \X safe)
  /\ UNCHANGED arrived

Next == Arrive \/ Jump \/ Leave \/ Recover

Spec == Init /\ [][Next]_durableVars
=============================================================================
