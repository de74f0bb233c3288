------------------------------ MODULE MCSkipList ------------------------------
(* SkipList instantiated for TLC; the addresses of the heap are symmetric. *)
EXTENDS SkipList, TLC

HeapSymmetry == Permutations(Nodes)
===============================================================================
