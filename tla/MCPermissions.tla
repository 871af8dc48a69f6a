--------------------------- MODULE MCPermissions ---------------------------
(***************************************************************************)
(* Permissions on a small instance: two calls that look alike, two that do  *)
(* not, and calls of two sessions.                                         *)
(***************************************************************************)
EXTENDS Permissions

CONSTANTS s1, s2, s3, a1, a2, b1, c1, c2

MCHome == [t \in Tools |-> CASE t \in {a1, a2} -> s1
                             [] t = b1 -> s2
                             [] t \in {c1, c2} -> s3]
\* The calls of s1 look alike.
MCSig == [t \in Tools |-> IF t = a2 THEN a1 ELSE t]
Pairs == {{a1, a2}, {b1, c1}, {c1, c2}}
\* Every way to end a client for one of the sessions with two calls; the client
\* fails in both of them.
MCEndings == [s \in Sessions |-> CASE s = s1 -> {"user", "failure"}
                                    [] s = s2 -> {"user", "minion"}
                                    [] s = s3 -> {"user", "minion", "restart", "reset", "failure"}]
=============================================================================
