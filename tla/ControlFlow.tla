------------------------------- MODULE ControlFlow ------------------------------
(* Reachability in the control-flow graphs that the analyses walk. *)
EXTENDS Integers, FiniteSets

\* What can be reached from S in the graph whose edges are next.
Reach(next, S) ==
  LET grow[n \in Nat] ==
        IF n = 0 THEN S
        ELSE LET prev == grow[n - 1]
             IN  prev \cup UNION {next[x] : x \in prev}
  IN  grow[Cardinality(DOMAIN next)]
================================================================================
