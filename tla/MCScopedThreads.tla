-------------------------- MODULE MCScopedThreads --------------------------
(***************************************************************************)
(* Scoped threads on a small instance: main and two more threads that      *)
(* share the cells, enough for two children of one scope, for a scope      *)
(* inside a child, and for two scopes of main with a child in each.        *)
(***************************************************************************)
EXTENDS ScopedThreads, TLC

MCMaxScopes == [t \in All |-> IF t = Main THEN 2 ELSE 1]

Symmetry == Permutations(Kids)
=============================================================================
