------------------------------- MODULE MCXsanHeap -------------------------------
(* XsanHeap for TLC: the threads are alike. *)
EXTENDS XsanHeap, TLC

Symmetry == Permutations(Threads)
================================================================================
