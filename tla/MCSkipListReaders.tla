--------------------------- MODULE MCSkipListReaders --------------------------
(* SkipListReaders instantiated for TLC; the heap's addresses are symmetric. *)
EXTENDS SkipListReaders, TLC

HeapSymmetry == Permutations(Nodes)
===============================================================================
