----------------------------- MODULE MCListPool -----------------------------
(***************************************************************************)
(* Instances of ListPool for TLC.                                          *)
(***************************************************************************)
EXTENDS ListPool, TLC

\* Keys are only compared with each other.
Symmetry == Permutations(Strings)
=============================================================================
