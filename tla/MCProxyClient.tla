---------------------------- MODULE MCProxyClient ----------------------------
(***************************************************************************)
(* Instances of ProxyClient for TLC.                                       *)
(***************************************************************************)
EXTENDS ProxyClient, TLC

\* Actions and hashes are interchangeable; used by the safety runs only.
Symmetry == Permutations(Calls) \cup Permutations(Hashes)
=============================================================================
