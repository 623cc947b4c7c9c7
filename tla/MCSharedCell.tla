---------------------------- MODULE MCSharedCell ----------------------------
(***************************************************************************)
(* SharedCell on a small instance: three threads, four Shared and four     *)
(* Weak handles, and counts that end at four.                              *)
(***************************************************************************)
EXTENDS SharedCell, TLC

Symmetry == Permutations(Threads) \cup Permutations(SharedIds) \cup Permutations(WeakIds)
=============================================================================
