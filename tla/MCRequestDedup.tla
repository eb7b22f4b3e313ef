--------------------------- MODULE MCRequestDedup ---------------------------
(***************************************************************************)
(* Instances of RequestDedup for TLC.                                      *)
(***************************************************************************)
EXTENDS RequestDedup, TLC

\* Calls and hashes are interchangeable; used by the safety runs only.
Symmetry == Permutations(Calls) \cup Permutations(Keys)
=============================================================================
