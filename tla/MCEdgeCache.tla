---------------------------- MODULE MCEdgeCache ----------------------------
(***************************************************************************)
(* Instances of EdgeCache for TLC.                                         *)
(***************************************************************************)
EXTENDS EdgeCache, TLC

\* Calls are interchangeable.
Symmetry == Permutations(Calls)
=============================================================================
