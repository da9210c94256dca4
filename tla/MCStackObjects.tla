----------------------------- MODULE MCStackObjects -----------------------------
\* Small functions: the shapes of a control-flow graph, and a few instructions
\* laid out over their blocks in every way.
EXTENDS StackObjects

LOCAL INSTANCE SequencesExt

\* The last one is a cycle entered at either of its blocks.
Shapes == {<<{2, 3}, {4}, {4}, {}>>, <<{2}, {2, 3}, {}>>, <<{2}, {3, 4}, {2}, {}>>,
           <<{2, 3}, {}, {}>>, <<{2, 3}, {3}, {2, 4}, {}>>}

\* Cut a sequence of instructions at the given places, one piece per block.
Cuts(n, len) ==
  {c \in [0..n -> 0..len] :
     c[0] = 0 /\ c[n] = len /\ \A i \in 1..n : c[i - 1] <= c[i]}

Bags == {<<"mop", "mop", "spawn", "call">>, <<"mop", "mop", "mop", "spawn", "call">>,
         <<"mop", "mop", "spawn_arg", "call">>, <<"mop", "spawn", "spawn">>}

Orders(s) == {[i \in DOMAIN s |-> s[p[i]]] : p \in SetToSeqs(DOMAIN s)}

Layouts(g, s) ==
  {[entry |-> 1, succs |-> g,
    code |-> [b \in DOMAIN g |-> SubSeq(s, c[b - 1] + 1, c[b])]] :
       c \in Cuts(Len(g), Len(s))}

MCFunctions ==
  UNION {Layouts(g, s) : g \in Shapes, s \in UNION {Orders(b) : b \in Bags}}
================================================================================
