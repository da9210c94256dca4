---------------------------- MODULE MCXsanPthread ----------------------------
(* XsanPthread for TLC: the pthread_t values are interchangeable.          *)
EXTENDS XsanPthread, TLC

Symmetry == Permutations(Handles)
=============================================================================
