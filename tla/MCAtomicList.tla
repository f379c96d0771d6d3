---------------------------- MODULE MCAtomicList -----------------------------
(***************************************************************************)
(* Small instances of AtomicList.  Threads, and items, are interchangeable *)
(* when all threads or no threads pop.                                     *)
(***************************************************************************)
EXTENDS AtomicList, TLC

Symmetry == Permutations(Proc) \cup Permutations(Item)
=============================================================================
