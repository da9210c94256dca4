----------------------------- MODULE MCMopExecution -----------------------------
\* Small functions: a shape of the control-flow graph, and three accesses and
\* one barrier laid out over its blocks in every way.
EXTENDS MopExecution

LOCAL INSTANCE SequencesExt
LOCAL INSTANCE TLC

CONSTANTS m1, m2, m3

MCMops == {m1, m2, m3}

Shape(n, succs, exits) ==
  [entry |-> 1, succs |-> succs, exits |-> exits, rpo |-> [i \in 1..n |-> i]]

Diamond == Shape(4, <<{2, 3}, {4}, {4}, {}>>, {4})
TwoExits == Shape(3, <<{2, 3}, {}, {}>>, {2, 3})
SelfLoop == Shape(3, <<{2}, {2, 3}, {}>>, {3})
WhileLoop == Shape(4, <<{2}, {3, 4}, {2}, {}>>, {4})
EndlessLoop == Shape(3, <<{2, 3}, {2}, {}>>, {2, 3})

Shapes == {Diamond, TwoExits, SelfLoop, WhileLoop, EndlessLoop}

\* Cut a sequence of instructions at the given places, one piece per block.
Cuts(n, len) ==
  {c \in [0..n -> 0..len] :
     c[0] = 0 /\ c[n] = len /\ \A i \in 1..n : c[i - 1] <= c[i]}

Code(s, c, n) == [b \in 1..n |-> SubSeq(s, c[b - 1] + 1, c[b])]

\* Either all three alike, then their order does not matter, or a wide store,
\* a load and a store of one byte.
Alike == [range |-> [m \in MCMops |-> {1}], writes |-> MCMops]
Unlike == [range |-> (m1 :> {1, 2} @@ m2 :> {1} @@ m3 :> {1}), writes |-> {m1, m3}]

Orders(x) ==
  {<<s, Unlike>> : s \in SetToSeqs(MCMops \cup {x})} \cup
  {<<s, Alike>> : s \in {<<x, m1, m2, m3>>, <<m1, x, m2, m3>>,
                        <<m1, m2, x, m3>>, <<m1, m2, m3, x>>}}

Function(g, s, c, a) ==
  [entry |-> g.entry, succs |-> g.succs, exits |-> g.exits, rpo |-> g.rpo,
   code |-> Code(s, c, Len(g.rpo)), range |-> a.range, writes |-> a.writes]

Loops ==
  {Function(SelfLoop, o[1], c, o[2]) :
     o \in Orders("call"), c \in Cuts(3, 4)}

\* The arms of the diamond are alike; what comes before a loop hardly matters.
Layouts(g) ==
  {c \in Cuts(Len(g.rpo), 4) :
     /\ g = Diamond => c[2] - c[1] >= c[3] - c[2]
     /\ g \in {WhileLoop, EndlessLoop} => c[1] <= 1}

Laid(g, xs) ==
  {Function(g, o[1], c, o[2]) : o \in UNION {Orders(x) : x \in xs}, c \in Layouts(g)}

\* A lifetime marker is a call where it does not open a block.
OpensBlock(f) == \E b \in DOMAIN f.code : f.code[b] # <<>> /\ f.code[b][1] = "lifetime"

MCFunctions ==
  UNION {Laid(g, {"call", "acquire", "release"}) \cup
         {f \in Laid(g, {"lifetime"}) : OpensBlock(f)} : g \in Shapes}
================================================================================
