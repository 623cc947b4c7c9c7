------------------------------ MODULE MCStore ------------------------------
(***************************************************************************)
(* Store on a small instance (MCStore.cfg): one thread, identities for two *)
(* of three stores, four items, a first allocation of one slot so that it  *)
(* grows twice, and generations one to three so that slots are retired.    *)
(* With two threads that create stores WrongStoreTraps does not hold.      *)
(***************************************************************************)
EXTENDS Store, TLC

Symmetry == Permutations(Items) \cup Permutations(StoreIds)
=============================================================================
