----------------------------- MODULE MCXsanVfork -----------------------------
(* XsanVfork for TLC: processes and files are interchangeable.             *)
EXTENDS XsanVfork, TLC

Symmetry == Permutations(Pids) \cup Permutations(Files)
=============================================================================
