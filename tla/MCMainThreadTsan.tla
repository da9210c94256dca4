------------------------- MODULE MCMainThreadTsan -------------------------
(* Instances of MainThreadTsan for TLC: the threads are interchangeable.   *)
EXTENDS MainThreadTsan, TLC

Symmetry == Permutations(Threads)
===========================================================================
