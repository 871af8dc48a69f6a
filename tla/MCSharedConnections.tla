------------------------ MODULE MCSharedConnections ------------------------
(***************************************************************************)
(* SharedConnections on a small instance.                                  *)
(***************************************************************************)
EXTENDS SharedConnections, TLC

\* Connections and owners are interchangeable, and so are the sessions that end
\* alike.
Symmetric == Permutations(Sessions \ Linked) \union Permutations(Conns) \union Permutations(Owners)
=============================================================================
