---------------------------- MODULE MCHierarchy ----------------------------
(***************************************************************************)
(* Hierarchy on small instances.                                           *)
(***************************************************************************)
EXTENDS Hierarchy, TLC

CONSTANTS p1, p2

\* Every process may run every operation.
MCAll == [p \in Procs |-> Operations]

Symmetric == Permutations(Sessions) \union Permutations(Procs)
=============================================================================
