--------------------------- MODULE StackObjectsProofs ---------------------------
(***************************************************************************)
(* Theorems about StackObjects: what the analysis of stack objects finds,  *)
(* in every function, and what a run may therefore leave unchecked.        *)
(*                                                                         *)
(* Walks from instruction to instruction come down to walks from block to  *)
(* block (BehindByBlocks). With that, each way to collect accesses is      *)
(* compared with the accesses between a spawn and a join: the two searches *)
(* in ManyAreBetween, the queries one by one in FewAreBetween, which rests *)
(* on what a natural loop is (LoopIsCycle). RunInv says that a run follows *)
(* walks.                                                                  *)
(***************************************************************************)
EXTENDS StackObjects, ControlFlowProofs

End(f, b) == Len(f.code[b]) + 1

\* The blocks that a walk through blocks may go on to.
Through(f, blocks) == [b \in Blocks(f) |-> f.succs[b] \cap blocks]

LEMMA CodeFacts ==
  ASSUME NEW f, IsFunction(f), NEW b \in Blocks(f)
  PROVE  /\ Len(f.code[b]) \in Nat /\ DOMAIN f.code[b] = 1..Len(f.code[b])
         /\ End(f, b) \in Nat /\ End(f, b) >= 1
<1>1. f.code[b] \in Seq(Kinds)
  BY DEF IsFunction
<1>. QED
  BY <1>1 DEF End

LEMMA PointFacts ==
  ASSUME NEW f, IsFunction(f), NEW p \in Points(f)
  PROVE  /\ p = <<p[1], p[2]>> /\ p[1] \in Blocks(f)
         /\ p[2] \in Nat /\ p[2] >= 1 /\ p[2] <= End(f, p[1]) /\ End(f, p[1]) \in Nat
<1>1. PICK b \in Blocks(f) : \E i \in 1..End(f, b) : p = <<b, i>>
  BY DEF Points, End
<1>. QED
  BY <1>1, CodeFacts

LEMMA IsPoint ==
  ASSUME NEW f, NEW b \in Blocks(f), NEW i \in 1..End(f, b)
  PROVE  <<b, i>> \in Points(f)
  BY DEF Points, End

LEMMA InstFacts ==
  ASSUME NEW f, IsFunction(f), NEW kinds, NEW p \in Insts(f, kinds)
  PROVE  /\ p \in Points(f) /\ p = <<p[1], p[2]>> /\ p[1] \in Blocks(f)
         /\ p[2] \in Nat /\ p[2] >= 1 /\ p[2] <= Len(f.code[p[1]])
         /\ f.code[p[1]][p[2]] \in kinds
<1>1. PICK b \in Blocks(f) : \E i \in DOMAIN f.code[b] : f.code[b][i] \in kinds /\ p = <<b, i>>
  BY DEF Insts
<1>2. \A i \in DOMAIN f.code[b] : i \in 1..End(f, b)
  BY CodeFacts DEF End
<1>3. p \in Points(f)
  BY <1>1, <1>2, IsPoint
<1>. QED
  BY <1>1, <1>3, CodeFacts

LEMMA IsInst ==
  ASSUME NEW f, IsFunction(f), NEW kinds, NEW p \in Points(f),
         p[2] <= Len(f.code[p[1]]), f.code[p[1]][p[2]] \in kinds
  PROVE  p \in Insts(f, kinds)
<1>1. p[2] \in DOMAIN f.code[p[1]]
  BY PointFacts, CodeFacts
<1>2. p = <<p[1], p[2]>> /\ p[1] \in Blocks(f)
  BY PointFacts
<1>. QED
  BY <1>1, <1>2 DEF Insts

LEMMA NextCases ==
  ASSUME NEW f, IsFunction(f), NEW blocks, NEW p \in Points(f),
         NEW r \in NextPoints(f, blocks)[p]
  PROVE  /\ r \in Points(f)
         /\ \/ p[2] < End(f, p[1]) /\ r = <<p[1], p[2] + 1>>
            \/ /\ p[2] = End(f, p[1])
               /\ \E s \in Through(f, blocks)[p[1]] : s \in Blocks(f) /\ r = <<s, 1>>
<1>1. CASE p[2] <= Len(f.code[p[1]])
  <2>1. r = <<p[1], p[2] + 1>>
    BY <1>1 DEF NextPoints
  <2>2. p[1] \in Blocks(f) /\ p[2] + 1 \in 1..End(f, p[1]) /\ p[2] < End(f, p[1])
    BY <1>1, PointFacts, CodeFacts DEF End
  <2>. QED
    BY <2>1, <2>2, IsPoint
<1>2. CASE ~(p[2] <= Len(f.code[p[1]]))
  <2>1. PICK s \in f.succs[p[1]] \cap blocks : r = <<s, 1>>
    BY <1>2 DEF NextPoints
  <2>2. s \in Blocks(f) /\ s \in Through(f, blocks)[p[1]]
    <3>1. p[1] \in Blocks(f) /\ f.succs[p[1]] \subseteq Blocks(f)
      BY PointFacts DEF IsFunction
    <3>. QED
      BY <3>1 DEF Through
  <2>3. 1 \in 1..End(f, s)
    BY <2>2, CodeFacts
  <2>4. p[2] = End(f, p[1])
    BY <1>2, PointFacts, CodeFacts DEF End
  <2>. QED
    BY <2>1, <2>2, <2>3, <2>4, IsPoint
<1>. QED
  BY <1>1, <1>2

LEMMA PointsAreFinite ==
  ASSUME NEW f, IsFunction(f)
  PROVE  IsFiniteSet(Points(f))
<1>. DEFINE row == [b \in Blocks(f) |-> {<<b, i>> : i \in 1..End(f, b)}]
            all == {row[b] : b \in Blocks(f)}
<1>1. ASSUME NEW b \in Blocks(f) PROVE IsFiniteSet(row[b])
  <2>. DEFINE pt == [i \in 1..End(f, b) |-> <<b, i>>]
  <2>1. IsFiniteSet(1..End(f, b))
    BY CodeFacts, FS_Interval
  <2>2. IsFiniteSet({pt[i] : i \in 1..End(f, b)})
    BY <2>1, FiniteImage
  <2>3. row[b] = {pt[i] : i \in 1..End(f, b)}
    OBVIOUS
  <2>. QED
    BY <2>2, <2>3
<1>2. IsFiniteSet(all)
  BY FiniteImage DEF IsFunction
<1>3. \A T \in all : IsFiniteSet(T)
  BY <1>1
<1>4. Points(f) = UNION all
  BY DEF Points, End
<1>. HIDE DEF all
<1>. QED
  BY <1>2, <1>3, <1>4, FS_UNION

LEMMA WalksGraph ==
  ASSUME NEW f, IsFunction(f), NEW blocks
  PROVE  IsGraph(NextPoints(f, blocks)) /\ DOMAIN NextPoints(f, blocks) = Points(f)
<1>1. DOMAIN NextPoints(f, blocks) = Points(f)
  BY DEF NextPoints
<1>2. \A p \in Points(f) : NextPoints(f, blocks)[p] \subseteq Points(f)
  BY NextCases
<1>. QED
  BY <1>1, <1>2, PointsAreFinite DEF IsGraph

LEMMA ThroughGraph ==
  ASSUME NEW f, IsFunction(f), NEW blocks
  PROVE  /\ IsGraph(Through(f, blocks)) /\ DOMAIN Through(f, blocks) = Blocks(f)
         /\ \A b \in Blocks(f) : Through(f, blocks)[b] \subseteq Blocks(f)
  BY DEF Through, IsGraph, IsFunction

LEMMA SuccsGraph ==
  ASSUME NEW f, IsFunction(f)
  PROVE  /\ IsGraph(f.succs) /\ Through(f, Blocks(f)) = f.succs
         /\ \A b \in Blocks(f) : f.succs[b] \subseteq Blocks(f)
<1>1. f.succs = [b \in Blocks(f) |-> f.succs[b]] /\ \A b \in Blocks(f) : f.succs[b] \subseteq Blocks(f)
  BY DEF IsFunction
<1>2. Through(f, Blocks(f)) = [b \in Blocks(f) |-> f.succs[b]]
  BY <1>1 DEF Through
<1>. QED
  BY <1>1, <1>2 DEF IsGraph, IsFunction, Blocks

-----------------------------------------------------------------------------
(***************************************************************************)
(* From instructions to blocks.                                            *)
(***************************************************************************)

\* Within a block, one instruction after the other.
LEMMA StraightWalk ==
  ASSUME NEW f, IsFunction(f), NEW blocks,
         NEW T \in SUBSET Points(f), Closed(NextPoints(f, blocks), T),
         NEW b \in Blocks(f), NEW i \in 1..End(f, b), <<b, i>> \in T,
         NEW j \in 1..End(f, b), i <= j
  PROVE  <<b, j>> \in T
<1>0. End(f, b) \in Nat
  BY CodeFacts
<1>. DEFINE P == {n \in Nat : i + n <= End(f, b) => <<b, i + n>> \in T}
<1>1. 0 \in P
  BY <1>0
<1>2. ASSUME NEW n \in Nat, n \in P PROVE n + 1 \in P
  <2>. SUFFICES ASSUME i + (n + 1) <= End(f, b) PROVE <<b, i + (n + 1)>> \in T
    BY <1>0
  <2>. DEFINE p == <<b, i + n>>
  <2>1. i + n <= End(f, b) /\ i + n <= Len(f.code[b]) /\ (i + n) + 1 = i + (n + 1)
    BY <1>0, CodeFacts DEF End
  <2>2. p \in T /\ p \in Points(f) /\ p[1] = b /\ p[2] = i + n
    BY <1>2, <2>1
  <2>3. <<b, (i + n) + 1>> \in NextPoints(f, blocks)[p]
    BY <2>1, <2>2 DEF NextPoints
  <2>. QED
    BY <2>1, <2>2, <2>3 DEF Closed
<1>. HIDE DEF P
<1>3. j - i \in P
  BY <1>0, <1>1, <1>2, InductiveSet
<1>. QED
  BY <1>0, <1>3 DEF P

\* A walk leads to q from an instruction before it in the block, or over blocks.
LEMMA BehindByBlocks ==
  ASSUME NEW f, IsFunction(f), NEW blocks, NEW p \in Points(f), NEW q \in Points(f)
  PROVE  q \in Behind(f, p, blocks) <=>
           \/ q[1] = p[1] /\ p[2] < q[2]
           \/ q[1] \in Reach(Through(f, blocks), Through(f, blocks)[p[1]])
<1>. DEFINE W == NextPoints(f, blocks)
            G == Through(f, blocks)
            R == Reach(G, G[p[1]])
            T == {r \in Points(f) : (r[1] = p[1] /\ p[2] < r[2]) \/ r[1] \in R}
            V == Behind(f, p, blocks)
<1>1. IsGraph(W) /\ DOMAIN W = Points(f) /\ W[p] \subseteq Points(f)
  BY WalksGraph DEF IsGraph
<1>2. V = Reach(W, W[p]) /\ W[p] \subseteq V /\ V \subseteq Points(f) /\ Closed(W, V)
  BY <1>1, ReachClosed DEF Behind
<1>3. p[1] \in Blocks(f) /\ G[p[1]] \subseteq Blocks(f) /\ IsGraph(G) /\ DOMAIN G = Blocks(f)
  BY PointFacts, ThroughGraph
<1>4. G[p[1]] \subseteq R /\ R \subseteq Blocks(f) /\ Closed(G, R)
  BY <1>3, ReachClosed
<1>5. ASSUME q \in V PROVE q \in T
  <2>1. W[p] \subseteq T
    <3>. SUFFICES ASSUME NEW r \in W[p] PROVE r \in T
      OBVIOUS
    <3>1. /\ r \in Points(f)
          /\ \/ r = <<p[1], p[2] + 1>>
             \/ \E s \in G[p[1]] : r = <<s, 1>>
      BY NextCases
    <3>2. p[2] \in Nat
      BY PointFacts
    <3>. QED
      BY <1>4, <3>1, <3>2
  <2>2. Closed(W, T)
    <3>. SUFFICES ASSUME NEW t \in T, NEW r \in W[t] PROVE r \in T
      BY DEF Closed
    <3>1. /\ r \in Points(f)
          /\ \/ r = <<t[1], t[2] + 1>>
             \/ \E s \in G[t[1]] : r = <<s, 1>>
      BY NextCases
    <3>2. t[2] \in Nat /\ p[2] \in Nat
      BY PointFacts
    <3>3. CASE r = <<t[1], t[2] + 1>>
      BY <3>1, <3>2, <3>3
    <3>4. CASE \E s \in G[t[1]] : r = <<s, 1>>
      <4>1. G[t[1]] \subseteq R
        BY <1>4 DEF Closed
      <4>. QED
        BY <3>1, <3>4, <4>1
    <3>. QED
      BY <3>1, <3>3, <3>4
  <2>. HIDE DEF W, T, V
  <2>3. V \subseteq T
    BY <1>1, <1>2, <2>1, <2>2, ReachLeast DEF IsGraph
  <2>. QED
    BY <1>5, <2>3
<1>6. ASSUME NEW b \in Blocks(f), NEW i \in 1..End(f, b), NEW j \in 1..End(f, b),
             <<b, i>> \in V, i <= j
      PROVE  <<b, j>> \in V
  BY <1>2, <1>6, StraightWalk
<1>7. p[2] \in Nat /\ p[2] >= 1 /\ p[2] <= End(f, p[1]) /\ End(f, p[1]) \in Nat /\ p = <<p[1], p[2]>>
  BY PointFacts
<1>8. ASSUME NEW j \in 1..End(f, p[1]), p[2] < j PROVE <<p[1], j>> \in V
  <2>1. p[2] <= Len(f.code[p[1]]) /\ p[2] + 1 \in 1..End(f, p[1]) /\ p[2] + 1 <= j
    BY <1>3, <1>7, <1>8, CodeFacts DEF End
  <2>2. <<p[1], p[2] + 1>> \in W[p]
    BY <2>1 DEF NextPoints
  <2>. QED
    BY <1>2, <1>3, <1>6, <2>1, <2>2
<1>9. ASSUME NEW c \in R PROVE <<c, 1>> \in V
  <2>. DEFINE U == {b \in Blocks(f) : <<b, 1>> \in V}
  <2>1. ASSUME NEW b \in Blocks(f), NEW s \in G[b], <<b, End(f, b)>> \in {p} \cup V
        PROVE  s \in U
    <3>. DEFINE e == <<b, End(f, b)>>
    <3>1. e \in Points(f) /\ ~(e[2] <= Len(f.code[e[1]])) /\ e[1] = b
      BY <1>2, <2>1, CodeFacts DEF End
    <3>2. <<s, 1>> \in W[e]
      BY <3>1 DEF NextPoints, Through
    <3>3. <<s, 1>> \in V
      BY <1>2, <2>1, <3>2 DEF Closed
    <3>. QED
      BY <1>3, <3>3, ThroughGraph
  <2>2. G[p[1]] \subseteq U
    <3>1. End(f, p[1]) \in 1..End(f, p[1])
      BY <1>7
    <3>2. <<p[1], End(f, p[1])>> \in {p} \cup V
      <4>1. CASE p[2] = End(f, p[1])
        BY <1>7, <4>1
      <4>2. CASE p[2] # End(f, p[1])
        BY <1>7, <1>8, <3>1, <4>2
      <4>. QED
        BY <4>1, <4>2
    <3>. QED
      BY <1>3, <2>1, <3>2
  <2>3. Closed(G, U)
    <3>. SUFFICES ASSUME NEW b \in U, NEW s \in G[b] PROVE s \in U
      BY DEF Closed
    <3>1. b \in Blocks(f) /\ <<b, 1>> \in V
      OBVIOUS
    <3>2. 1 \in 1..End(f, b) /\ End(f, b) \in 1..End(f, b)
      BY <3>1, CodeFacts
    <3>3. <<b, End(f, b)>> \in V
      BY <1>6, <3>1, <3>2
    <3>. QED
      BY <2>1, <3>1, <3>3
  <2>. HIDE DEF U, G
  <2>4. R \subseteq U
    BY <1>3, <2>2, <2>3, ReachLeast DEF IsGraph
  <2>. QED
    BY <1>9, <2>4 DEF U
<1>10. ASSUME q[1] = p[1], p[2] < q[2] PROVE q \in V
  <2>1. q = <<p[1], q[2]>> /\ q[2] \in 1..End(f, p[1])
    BY <1>10, PointFacts
  <2>. QED
    BY <1>8, <1>10, <2>1
<1>11. ASSUME q[1] \in R PROVE q \in V
  <2>1. q = <<q[1], q[2]>> /\ q[1] \in Blocks(f) /\ q[2] \in 1..End(f, q[1]) /\ 1 \in 1..End(f, q[1])
        /\ 1 <= q[2]
    BY PointFacts, CodeFacts
  <2>2. <<q[1], 1>> \in V
    BY <1>9, <1>11
  <2>. QED
    BY <1>6, <2>1, <2>2
<1>. HIDE DEF V, R
<1>. QED
  BY <1>5, <1>10, <1>11 DEF V, R

-----------------------------------------------------------------------------
(***************************************************************************)
(* Many accesses: the two searches.                                        *)
(***************************************************************************)
LEMMA Spawns ==
  ASSUME NEW f, IsFunction(f)
  PROVE  /\ MightSpawns(f) \subseteq MightJoins(f)
         /\ SpawnBlocks(f) \subseteq Blocks(f)
         /\ \A b \in SpawnBlocks(f) : \E s \in MightSpawns(f) : s[1] = b
         /\ \A m \in Mops(f), j \in MightJoins(f) : m # j
<1>1. MightSpawns(f) \subseteq MightJoins(f)
  BY DEF MightSpawns, MightJoins, Insts
<1>2. \A s \in MightSpawns(f) : s[1] \in Blocks(f)
  BY InstFacts DEF MightSpawns
<1>3. ASSUME NEW m \in Mops(f), NEW j \in MightJoins(f) PROVE m # j
  <2>1. f.code[m[1]][m[2]] = "mop"
    BY InstFacts DEF Mops
  <2>2. f.code[j[1]][j[2]] # "mop"
    BY InstFacts DEF MightJoins
  <2>. QED
    BY <2>1, <2>2
<1>. QED
  BY <1>1, <1>2, <1>3 DEF SpawnBlocks, Parents

\* The search backwards finds every block that the search forwards has found:
\* that holds none but the blocks with a spawn, and a spawn may also join.
LEMMA BlocksBetweenAreSpawnBlocks ==
  ASSUME NEW f, IsFunction(f)
  PROVE  BlocksBetween(f) = SpawnBlocks(f)
<1>. DEFINE B == SpawnBlocks(f)
            prev == [b \in Blocks(f) |-> Preds(f)[b] \cap B]
<1>1. B \subseteq Blocks(f) /\ B \subseteq Parents(MightJoins(f))
  BY Spawns DEF SpawnBlocks, Parents
<1>2. BlocksBetween(f) = Reach(prev, Parents(MightJoins(f)) \cap B)
  BY DEF BlocksBetween, DepthFirstTraversal, SpawnBlocks
<1>3. Parents(MightJoins(f)) \cap B = B
  BY <1>1
<1>4. IsGraph(prev) /\ DOMAIN prev = Blocks(f) /\ Closed(prev, B)
  BY <1>1 DEF IsGraph, IsFunction, Closed, Preds
<1>. HIDE DEF prev, B
<1>5. Reach(prev, B) = B
  BY <1>1, <1>4, ReachClosed, ReachLeast DEF IsGraph
<1>. QED
  BY <1>2, <1>3, <1>5 DEF B

\* An access comes after a spawn, by a walk within the blocks with one, if it is
\* below the upper bound of such a block.
LEMMA BehindSpawn ==
  ASSUME NEW f, IsFunction(f), NEW m \in Mops(f)
  PROVE  (\E s \in MightSpawns(f) : m \in Behind(f, s, SpawnBlocks(f)))
           <=> m[1] \in BlocksBetween(f) /\ ~BeforeUpperBound(f, m)
<1>. DEFINE B == SpawnBlocks(f)
            G == Through(f, B)
            In(s) == m \in Behind(f, s, B)
<1>0. /\ BlocksBetween(f) = B /\ B \subseteq Blocks(f)
      /\ \A b \in B : \E s \in MightSpawns(f) : s[1] = b
      /\ \A s \in MightSpawns(f) : s[1] \in B
  BY Spawns, BlocksBetweenAreSpawnBlocks DEF SpawnBlocks, Parents
<1>1. /\ m \in Points(f) /\ m[1] \in Blocks(f) /\ m[2] \in Nat /\ m = <<m[1], m[2]>>
      /\ \A s \in MightSpawns(f) : /\ s \in Points(f) /\ s[1] \in Blocks(f)
                                   /\ s[2] \in Nat /\ s = <<s[1], s[2]>>
  BY InstFacts DEF Mops, MightSpawns
<1>2. ASSUME NEW s \in MightSpawns(f)
      PROVE  In(s) <=> \/ m[1] = s[1] /\ s[2] < m[2]
                       \/ m[1] \in Reach(G, G[s[1]])
  BY <1>1, BehindByBlocks
<1>3. IsGraph(G) /\ DOMAIN G = Blocks(f) /\ \A b \in Blocks(f) : G[b] \subseteq Blocks(f)
  BY ThroughGraph
<1>4. ASSUME NEW b \in Blocks(f) PROVE G[b] = f.succs[b] \cap B
  BY DEF Through
<1>5. BeforeUpperBound(f, m) <=>
        /\ Preds(f)[m[1]] \cap B = {}
        /\ \E s \in MightSpawns(f) : s[1] = m[1]
        /\ \A s \in MightSpawns(f) : s[1] = m[1] => m[2] < s[2]
  BY <1>0 DEF BeforeUpperBound
<1>6. Preds(f)[m[1]] = {p \in Blocks(f) : m[1] \in f.succs[p]}
  BY <1>1 DEF Preds
<1>7. ASSUME NEW s \in MightSpawns(f), In(s)
      PROVE  m[1] \in B /\ ~BeforeUpperBound(f, m)
  <2>1. CASE m[1] = s[1] /\ s[2] < m[2]
    BY <1>0, <1>1, <1>5, <2>1
  <2>2. CASE m[1] \in Reach(G, G[s[1]])
    <3>1. s[1] \in B /\ s[1] \in Blocks(f) /\ G[s[1]] \subseteq Blocks(f)
      BY <1>0, <1>1, <1>3
    <3>2. G[s[1]] \subseteq B /\ Closed(G, B)
      BY <1>0, <1>4, <3>1 DEF Closed
    <3>. HIDE DEF G, B
    <3>3. Reach(G, G[s[1]]) \subseteq B
      BY <1>3, <3>2, ReachLeast DEF IsGraph
    <3>4. \E x \in B : m[1] \in G[x]
      <4>1. CASE m[1] \in G[s[1]]
        BY <3>1, <4>1
      <4>2. CASE m[1] \notin G[s[1]]
        <5>1. \E x \in Reach(G, G[s[1]]) : m[1] \in G[x]
          BY <1>3, <2>2, <3>1, <4>2, ReachLast
        <5>. QED
          BY <3>3, <5>1
      <4>. QED
        BY <4>1, <4>2
    <3>5. Preds(f)[m[1]] \cap B # {}
      BY <1>0, <1>4, <1>6, <3>4
    <3>. QED
      BY <1>5, <2>2, <3>3, <3>5
  <2>. QED
    BY <1>2, <1>7, <2>1, <2>2
<1>8. ASSUME m[1] \in B, ~BeforeUpperBound(f, m)
      PROVE  \E s \in MightSpawns(f) : In(s)
  <2>1. CASE Preds(f)[m[1]] \cap B # {}
    <3>1. PICK x \in B : m[1] \in f.succs[x]
      BY <1>6, <2>1
    <3>2. PICK s \in MightSpawns(f) : s[1] = x
      BY <1>0
    <3>3. m[1] \in G[x] /\ x \in Blocks(f)
      BY <1>0, <1>4, <1>8, <3>1
    <3>. HIDE DEF G
    <3>4. m[1] \in Reach(G, G[x])
      BY <1>3, <3>3, ReachClosed
    <3>. QED
      BY <1>2, <3>2, <3>4
  <2>2. CASE Preds(f)[m[1]] \cap B = {}
    <3>1. PICK s \in MightSpawns(f) : s[1] = m[1] /\ ~(m[2] < s[2])
      BY <1>0, <1>5, <1>8, <2>2
    <3>2. m # s
      BY Spawns
    <3>3. s[2] < m[2]
      BY <1>1, <3>1, <3>2
    <3>. QED
      BY <1>2, <3>1, <3>3
  <2>. QED
    BY <2>1, <2>2
<1>. QED
  BY <1>0, <1>7, <1>8

\* A join comes after an access of such a block, by a walk within them, if the
\* access is above its lower bound.
LEMMA BeforeJoin ==
  ASSUME NEW f, IsFunction(f), NEW m \in Mops(f), m[1] \in BlocksBetween(f)
  PROVE  (\E j \in MightJoins(f) : j \in Behind(f, m, SpawnBlocks(f)))
           <=> ~AfterLowerBound(f, m)
<1>. DEFINE B == SpawnBlocks(f)
            G == Through(f, B)
            In(j) == j \in Behind(f, m, B)
<1>0. /\ BlocksBetween(f) = B /\ B \subseteq Blocks(f)
      /\ \A b \in B : \E j \in MightJoins(f) : j[1] = b
  BY Spawns, BlocksBetweenAreSpawnBlocks
<1>1. /\ m \in Points(f) /\ m[1] \in Blocks(f) /\ m[2] \in Nat /\ m = <<m[1], m[2]>>
      /\ \A j \in MightJoins(f) : /\ j \in Points(f) /\ j[1] \in Blocks(f)
                                  /\ j[2] \in Nat /\ j = <<j[1], j[2]>>
  BY InstFacts DEF Mops, MightJoins
<1>2. ASSUME NEW j \in MightJoins(f)
      PROVE  In(j) <=> \/ j[1] = m[1] /\ m[2] < j[2]
                       \/ j[1] \in Reach(G, G[m[1]])
  BY <1>1, BehindByBlocks
<1>3. /\ IsGraph(G) /\ DOMAIN G = Blocks(f)
      /\ G[m[1]] = f.succs[m[1]] \cap B /\ G[m[1]] \subseteq Blocks(f)
  BY <1>1, ThroughGraph DEF Through
<1>4. AfterLowerBound(f, m) <=>
        /\ f.succs[m[1]] \cap B = {}
        /\ \E j \in MightJoins(f) : j[1] = m[1]
        /\ \A j \in MightJoins(f) : j[1] = m[1] => j[2] < m[2]
  BY <1>0 DEF AfterLowerBound
<1>5. ASSUME NEW j \in MightJoins(f), In(j)
      PROVE  ~AfterLowerBound(f, m)
  <2>1. CASE j[1] = m[1] /\ m[2] < j[2]
    BY <1>1, <1>4, <2>1
  <2>2. CASE j[1] \in Reach(G, G[m[1]])
    <3>. HIDE DEF G
    <3>1. G[m[1]] # {}
      BY <1>3, <2>2, ReachNothing DEF IsGraph
    <3>. QED
      BY <1>3, <1>4, <3>1
  <2>. QED
    BY <1>2, <1>5, <2>1, <2>2
<1>6. ASSUME ~AfterLowerBound(f, m)
      PROVE  \E j \in MightJoins(f) : In(j)
  <2>1. CASE f.succs[m[1]] \cap B # {}
    <3>1. PICK x \in B : x \in f.succs[m[1]]
      BY <2>1
    <3>2. PICK j \in MightJoins(f) : j[1] = x
      BY <1>0
    <3>3. x \in G[m[1]]
      BY <1>3, <3>1
    <3>. HIDE DEF G
    <3>4. x \in Reach(G, G[m[1]])
      BY <1>3, <3>3, ReachClosed
    <3>. QED
      BY <1>2, <3>2, <3>4
  <2>2. CASE f.succs[m[1]] \cap B = {}
    <3>1. PICK j \in MightJoins(f) : j[1] = m[1] /\ ~(j[2] < m[2])
      BY <1>0, <1>4, <1>6, <2>2
    <3>2. m # j
      BY Spawns
    <3>3. m[2] < j[2]
      BY <1>1, <3>1, <3>2
    <3>. QED
      BY <1>2, <3>1, <3>3
  <2>. QED
    BY <2>1, <2>2
<1>. QED
  BY <1>5, <1>6

LEMMA ManyAreBetween ==
  ASSUME NEW f, IsFunction(f)
  PROVE  CollectManyMopsMayRace(f) \cap Mops(f) = Between(f, SpawnBlocks(f))
<1>1. Mops(f) \subseteq CandidateMops(f)
  BY DEF Mops, CandidateMops, Insts
<1>2. ASSUME NEW m \in Mops(f)
      PROVE  m \in CollectManyMopsMayRace(f) <=> m \in Between(f, SpawnBlocks(f))
  <2>1. m \in CollectManyMopsMayRace(f) <=>
          m[1] \in BlocksBetween(f) /\ ~BeforeUpperBound(f, m) /\ ~AfterLowerBound(f, m)
    BY <1>1 DEF CollectManyMopsMayRace
  <2>2. m \in Between(f, SpawnBlocks(f)) <=>
          /\ \E s \in MightSpawns(f) : m \in Behind(f, s, SpawnBlocks(f))
          /\ \E j \in MightJoins(f) : j \in Behind(f, m, SpawnBlocks(f))
    BY DEF Between
  <2>. QED
    BY <2>1, <2>2, BehindSpawn, BeforeJoin
<1>. QED
  BY <1>2 DEF Between

-----------------------------------------------------------------------------
(***************************************************************************)
(* Few accesses: the queries one by one.                                   *)
(***************************************************************************)

\* What the entry reaches, it reaches without h or h reaches.
LEMMA WithOrWithout ==
  ASSUME NEW f, IsFunction(f), NEW h, NEW b \in Reach(f.succs, {f.entry})
  PROVE  \/ b \in Reach([c \in Blocks(f) |-> f.succs[c] \ {h}], {f.entry} \ {h})
         \/ b \in Reach(f.succs, {h})
<1>. DEFINE G == [c \in Blocks(f) |-> f.succs[c] \ {h}]
            A == Reach(G, {f.entry} \ {h})
            H == Reach(f.succs, {h})
<1>1. IsGraph(f.succs) /\ DOMAIN f.succs = Blocks(f) /\ f.entry \in Blocks(f)
  BY SuccsGraph DEF IsFunction, Blocks
<1>2. IsGraph(G) /\ DOMAIN G = Blocks(f)
  BY <1>1 DEF IsGraph
<1>3. {f.entry} \ {h} \subseteq A /\ A \subseteq Blocks(f) /\ Closed(G, A)
  <2>1. {f.entry} \ {h} \subseteq DOMAIN G
    BY <1>1, <1>2
  <2>. HIDE DEF G
  <2>. QED
    BY <1>2, <2>1, ReachClosed
<1>4. CASE h \notin Blocks(f)
  <2>1. Closed(f.succs, A)
    <3>1. \A c \in Blocks(f) : G[c] = f.succs[c]
      BY <1>1, <1>4 DEF IsGraph
    <3>. QED
      BY <1>3, <3>1 DEF Closed
  <2>2. {f.entry} \subseteq A
    BY <1>1, <1>3, <1>4
  <2>. HIDE DEF A
  <2>3. Reach(f.succs, {f.entry}) \subseteq A
    BY <1>1, <2>1, <2>2, ReachLeast DEF IsGraph
  <2>. QED
    BY <2>3 DEF A
<1>5. CASE h \in Blocks(f)
  <2>1. h \in H /\ Closed(f.succs, H)
    BY <1>1, <1>5, ReachClosed
  <2>2. {f.entry} \subseteq A \cup H
    BY <1>3, <2>1
  <2>3. Closed(f.succs, A \cup H)
    <3>. SUFFICES ASSUME NEW x \in A \cup H, NEW y \in f.succs[x] PROVE y \in A \cup H
      BY DEF Closed
    <3>1. CASE x \in H
      BY <2>1, <3>1 DEF Closed
    <3>2. CASE x \in A /\ y # h
      <4>1. y \in G[x]
        BY <1>3, <3>2
      <4>. QED
        BY <1>3, <3>2, <4>1 DEF Closed
    <3>. QED
      BY <2>1, <3>1, <3>2
  <2>. HIDE DEF A, H
  <2>4. Reach(f.succs, {f.entry}) \subseteq A \cup H
    BY <1>1, <2>2, <2>3, ReachLeast DEF IsGraph
  <2>. QED
    BY <2>4 DEF A, H
<1>. QED
  BY <1>4, <1>5

\* A block of a loop comes again.
LEMMA LoopIsCycle ==
  ASSUME NEW f, IsFunction(f), NEW b, InLoop(f, b)
  PROVE  b \in Reach(f.succs, f.succs[b])
<1>. DEFINE live == Reach(f.succs, {f.entry})
            body(h) == [c \in Blocks(f) |-> IF c = h THEN {} ELSE Preds(f)[c] \cap live]
            To(c) == Reach(f.succs, {c})
            Again(c) == Reach(f.succs, f.succs[c])
<1>1. PICK h \in live, latch \in live :
         /\ h \in f.succs[latch] /\ BlockDominates(f, h, latch)
         /\ b \in {h} \cup Reach(body(h), {latch})
  BY DEF InLoop
<1>. DEFINE G == [c \in Blocks(f) |-> f.succs[c] \ {h}]
            Entered == Reach(G, {f.entry} \ {h})
            W == body(h)
<1>2. /\ IsGraph(f.succs) /\ DOMAIN f.succs = Blocks(f) /\ f.entry \in Blocks(f)
      /\ \A c \in Blocks(f) : f.succs[c] \subseteq Blocks(f)
  BY SuccsGraph DEF IsFunction, Blocks
<1>3. /\ IsGraph(G) /\ DOMAIN G = Blocks(f)
      /\ IsGraph(W) /\ DOMAIN W = Blocks(f)
  BY <1>2 DEF IsGraph, Preds
<1>4. live \subseteq Blocks(f) /\ h \in Blocks(f) /\ latch \in Blocks(f)
  BY <1>1, <1>2, ReachClosed
<1>5. ASSUME NEW c \in Blocks(f)
      PROVE  /\ c \in To(c) /\ To(c) \subseteq Blocks(f) /\ Closed(f.succs, To(c))
             /\ f.succs[c] \subseteq Again(c) /\ Again(c) \subseteq Blocks(f)
             /\ Closed(f.succs, Again(c))
             /\ \A d \in To(c) : d = c \/ d \in Again(c)
             /\ \A d \in To(c) : To(d) \subseteq To(c)
             /\ \A d \in Again(c) : To(d) \subseteq Again(c)
  <2>1. c \in To(c) /\ To(c) \subseteq Blocks(f) /\ Closed(f.succs, To(c))
    BY <1>2, ReachClosed
  <2>2. /\ f.succs[c] \subseteq Again(c) /\ Again(c) \subseteq Blocks(f)
        /\ Closed(f.succs, Again(c))
    BY <1>2, ReachClosed
  <2>3. \A d \in To(c) : d = c \/ d \in Again(c)
    BY <1>2, ReachFirst
  <2>4. \A d \in To(c) : To(d) \subseteq To(c)
    BY <1>2, ReachTransitive
  <2>5. \A d \in Again(c) : To(d) \subseteq Again(c)
    BY <1>2, ReachTransitive
  <2>. QED
    BY <2>1, <2>2, <2>3, <2>4, <2>5
\* The latch comes after the header.
<1>6. latch \in To(h)
  <2>1. CASE latch = h
    BY <1>4, <1>5, <2>1
  <2>2. CASE latch # h
    <3>1. latch \notin Entered
      BY <1>1, <2>2 DEF BlockDominates
    <3>. QED
      BY <1>1, <3>1, WithOrWithout
  <2>. QED
    BY <2>1, <2>2
<1>7. h \in Again(latch)
  BY <1>1, <1>4, <1>5
<1>8. CASE b = h
  <2>1. CASE latch = h
    BY <1>7, <1>8, <2>1
  <2>2. CASE latch # h
    <3>1. latch \in Again(h)
      BY <1>4, <1>5, <1>6, <2>2
    <3>2. h \in Again(h)
      BY <1>1, <1>4, <1>5, <3>1 DEF Closed
    <3>. QED
      BY <1>8, <3>2
  <2>. QED
    BY <2>1, <2>2
<1>9. CASE b # h
  <2>1. b \in Reach(W, {latch})
    BY <1>1, <1>9
  <2>2. latch # h
    <3>. SUFFICES ASSUME latch = h PROVE FALSE
      OBVIOUS
    <3>1. Closed(W, {h})
      BY <1>4 DEF Closed
    <3>. HIDE DEF W
    <3>2. Reach(W, {latch}) \subseteq {h}
      BY <1>3, <3>1, ReachLeast DEF IsGraph
    <3>. QED
      BY <1>9, <2>1, <3>2
  \* The walk from a block of the loop to the latch does without the header.
  <2>. DEFINE T == {c \in live : c = h \/ latch \in Reach(G, {c})}
  <2>3. latch \in T
    BY <1>1, <1>3, <1>4, ReachClosed
  <2>4. Closed(W, T)
    <3>. SUFFICES ASSUME NEW c \in T, NEW d \in W[c] PROVE d \in T
      BY DEF Closed
    <3>1. c # h /\ c \in Blocks(f) /\ d \in Blocks(f) /\ d \in live /\ c \in f.succs[d]
      BY <1>4 DEF Preds
    <3>2. latch \in Reach(G, {c})
      BY <3>1
    <3>3. c \in G[d] /\ d \in Blocks(f)
      BY <3>1
    <3>4. c \in Reach(G, {d})
      <4>. HIDE DEF G
      <4>1. d \in Reach(G, {d}) /\ Closed(G, Reach(G, {d}))
        BY <1>3, <3>3, ReachClosed
      <4>. QED
        BY <3>3, <4>1 DEF Closed
    <3>5. Reach(G, {c}) \subseteq Reach(G, {d})
      <4>. HIDE DEF G
      <4>. QED
        BY <1>3, <3>3, <3>4, ReachTransitive
    <3>. QED
      BY <3>1, <3>2, <3>5
  <2>5. b \in live /\ latch \in Reach(G, {b})
    <3>. HIDE DEF W, T
    <3>1. Reach(W, {latch}) \subseteq T
      BY <1>3, <2>3, <2>4, ReachLeast DEF IsGraph
    <3>. QED
      BY <1>9, <2>1, <3>1 DEF T
  <2>6. b \in Blocks(f) /\ latch \in To(b)
    <3>1. b \in Blocks(f)
      BY <1>4, <2>5
    <3>2. Closed(G, To(b)) /\ {b} \subseteq To(b)
      BY <1>5, <3>1 DEF Closed
    <3>. HIDE DEF G
    <3>3. Reach(G, {b}) \subseteq To(b)
      BY <1>3, <3>2, ReachLeast DEF IsGraph
    <3>. QED
      BY <2>5, <3>1, <3>3
  <2>7. b \in To(h)
    <3>1. latch \notin Entered
      BY <1>1, <2>2 DEF BlockDominates
    <3>2. b \notin Entered
      <4>. SUFFICES ASSUME b \in Entered PROVE FALSE
        OBVIOUS
      <4>. HIDE DEF G
      <4>1. {f.entry} \ {h} \subseteq DOMAIN G
        BY <1>2, <1>3
      <4>2. Reach(G, {b}) \subseteq Entered
        BY <1>3, <4>1, ReachTransitive
      <4>. QED
        BY <2>5, <3>1, <4>2
    <3>. QED
      BY <2>5, <3>2, WithOrWithout
  <2>8. h \in Again(b)
    <3>1. CASE latch = b
      BY <1>7, <3>1
    <3>2. CASE latch # b
      <4>1. latch \in Again(b)
        BY <1>5, <2>6, <3>2
      <4>. QED
        BY <1>1, <1>5, <2>6, <4>1 DEF Closed
    <3>. QED
      BY <3>1, <3>2
  <2>. QED
    BY <1>5, <2>6, <2>7, <2>8
<1>. QED
  BY <1>8, <1>9

\* A query says yes of what is on a walk, and no more, but for cycles that are no
\* loops.
LEMMA PotentiallyReachableIsBehind ==
  ASSUME NEW f, IsFunction(f), NEW p \in Points(f), NEW q \in Points(f)
  PROVE  /\ IsPotentiallyReachable(f, p, q) => q \in Behind(f, p, Blocks(f))
         /\ q \in Behind(f, p, Blocks(f)) =>
              \/ IsPotentiallyReachable(f, p, q)
              \/ p[1] = q[1] /\ InIrreducibleCycle(f, p[1])
<1>1. q \in Behind(f, p, Blocks(f)) <=>
        \/ q[1] = p[1] /\ p[2] < q[2]
        \/ q[1] \in Reach(f.succs, f.succs[p[1]])
  BY BehindByBlocks, SuccsGraph
<1>2. /\ IsGraph(f.succs) /\ DOMAIN f.succs = Blocks(f)
      /\ p[1] \in Blocks(f) /\ f.succs[p[1]] \subseteq Blocks(f)
  BY SuccsGraph, PointFacts DEF Blocks
<1>3. CASE p[1] = q[1]
  BY <1>1, <1>3, LoopIsCycle DEF IsPotentiallyReachable, InIrreducibleCycle
<1>4. CASE p[1] # q[1]
  <2>1. p[1] \in Reach(f.succs, {p[1]}) /\ Closed(f.succs, Reach(f.succs, {p[1]}))
    BY <1>2, ReachClosed
  <2>2. Reach(f.succs, f.succs[p[1]]) \subseteq Reach(f.succs, {p[1]})
    BY <1>2, <2>1, ReachTransitive DEF Closed
  <2>3. q[1] \in Reach(f.succs, {p[1]}) => q[1] \in Reach(f.succs, f.succs[p[1]])
    BY <1>2, <1>4, ReachFirst
  <2>4. IsPotentiallyReachable(f, p, q) <=> q[1] \in Reach(f.succs, {p[1]})
    BY <1>4 DEF IsPotentiallyReachable
  <2>. QED
    BY <1>1, <1>4, <2>2, <2>3, <2>4
<1>. QED
  BY <1>3, <1>4

LEMMA FewAreBetween ==
  ASSUME NEW f, IsFunction(f)
  PROVE  /\ CollectSeveralMopsMayRace(f) \cap Mops(f) \subseteq Between(f, Blocks(f))
         /\ \A m \in Between(f, Blocks(f)) \ CollectSeveralMopsMayRace(f) :
              InIrreducibleCycle(f, m[1])
<1>1. Mops(f) \subseteq CandidateMops(f)
  BY DEF Mops, CandidateMops, Insts
<1>2. /\ \A m \in Mops(f) : m \in Points(f)
      /\ \A s \in MightSpawns(f) : s \in Points(f)
      /\ \A j \in MightJoins(f) : j \in Points(f)
  BY InstFacts DEF Mops, MightSpawns, MightJoins
<1>3. ASSUME NEW m \in Mops(f)
      PROVE  /\ m \in CollectSeveralMopsMayRace(f) <=>
                  /\ \E s \in MightSpawns(f) : IsPotentiallyReachable(f, s, m)
                  /\ \E j \in MightJoins(f) : IsPotentiallyReachable(f, m, j)
             /\ m \in Between(f, Blocks(f)) <=>
                  /\ \E s \in MightSpawns(f) : m \in Behind(f, s, Blocks(f))
                  /\ \E j \in MightJoins(f) : j \in Behind(f, m, Blocks(f))
  BY <1>1 DEF CollectSeveralMopsMayRace, Between
<1>4. ASSUME NEW m \in Mops(f), m \in CollectSeveralMopsMayRace(f)
      PROVE  m \in Between(f, Blocks(f))
  BY <1>2, <1>3, <1>4, PotentiallyReachableIsBehind
<1>5. ASSUME NEW m \in Mops(f), m \in Between(f, Blocks(f)),
             m \notin CollectSeveralMopsMayRace(f)
      PROVE  InIrreducibleCycle(f, m[1])
  <2>1. PICK s \in MightSpawns(f) : m \in Behind(f, s, Blocks(f))
    BY <1>3, <1>5
  <2>2. PICK j \in MightJoins(f) : j \in Behind(f, m, Blocks(f))
    BY <1>3, <1>5
  <2>3. CASE ~IsPotentiallyReachable(f, s, m)
    BY <1>2, <2>1, <2>3, PotentiallyReachableIsBehind
  <2>4. CASE ~IsPotentiallyReachable(f, m, j)
    BY <1>2, <2>2, <2>4, PotentiallyReachableIsBehind
  <2>. QED
    BY <1>3, <1>5, <2>3, <2>4
<1>6. Between(f, Blocks(f)) \subseteq Mops(f)
  BY DEF Between
<1>. QED
  BY <1>4, <1>5, <1>6

-----------------------------------------------------------------------------
(***************************************************************************)
(* Runs.                                                                   *)
(***************************************************************************)
TypeInv ==
  /\ func \in Functions
  /\ racy \in {NotYet, AllMopsMightRace(func)}
  /\ at # <<>> => at \in Points(func)
  /\ spawned \in BOOLEAN

\* Before the analysis nothing is executed.
WaitsForAnalysis == racy = NotYet => ~spawned /\ pending = {} /\ missed = {}

\* Where the object may have been given to a thread there is a spawn before, and
\* behind that the accesses which no call has followed; no call is between them and
\* the place reached, but it is behind them.
FollowsWalks ==
  /\ spawned /\ at # <<>> =>
       \E s \in MightSpawns(func) : at \in Behind(func, s, Blocks(func))
  /\ \A m \in pending :
       /\ m \in Mops(func)
       /\ \E s \in MightSpawns(func) : m \in Behind(func, s, Blocks(func))
       /\ at # <<>> => at \in Behind(func, m, Blocks(func))

MissedAreBetween == missed \subseteq Between(func, Blocks(func)) \ racy

RunInv == TypeInv /\ WaitsForAnalysis /\ FollowsWalks /\ MissedAreBetween

LEMMA RunInit == Init => RunInv
<1>. SUFFICES ASSUME Init PROVE RunInv
  OBVIOUS
<1>1. func \in Functions /\ IsFunction(func)
  BY StackObjectsAssumption DEF Init
<1>2. func.entry \in Blocks(func) /\ 1 \in 1..End(func, func.entry)
  BY <1>1, CodeFacts DEF IsFunction
<1>3. at \in Points(func)
  BY <1>1, <1>2, IsPoint DEF Init
<1>. QED
  BY <1>1, <1>3 DEF Init, RunInv, TypeInv, WaitsForAnalysis, FollowsWalks, MissedAreBetween

\* One step further.
LEMMA BehindStep ==
  ASSUME NEW f, IsFunction(f), NEW p \in Points(f), NEW q \in Points(f),
         NEW r \in NextPoints(f, Blocks(f))[q]
  PROVE  /\ r \in Points(f)
         /\ r \in Behind(f, q, Blocks(f))
         /\ q \in Behind(f, p, Blocks(f)) => r \in Behind(f, p, Blocks(f))
<1>. DEFINE W == NextPoints(f, Blocks(f))
<1>1. IsGraph(W) /\ DOMAIN W = Points(f)
      /\ \A x \in Points(f) : W[x] \subseteq Points(f)
  BY WalksGraph DEF IsGraph
<1>. HIDE DEF W
<1>2. \A x \in Points(f) : /\ W[x] \subseteq Reach(W, W[x])
                           /\ Closed(W, Reach(W, W[x]))
  BY <1>1, ReachClosed
<1>. QED
  BY <1>1, <1>2 DEF Behind, Closed, W

\* A step of the run is one of a walk.
LEMMA RunWalks ==
  ASSUME RunInv, racy # NotYet, at # <<>>, at' \in NextPoints(func, Blocks(func))[at],
         UNCHANGED <<func, racy>>
  PROVE  /\ at' \in Points(func) /\ at' \in Behind(func, at, Blocks(func))
         /\ \A p \in Points(func) :
              at \in Behind(func, p, Blocks(func)) => at' \in Behind(func, p, Blocks(func))
<1>1. IsFunction(func) /\ at \in Points(func)
  BY StackObjectsAssumption DEF RunInv, TypeInv
<1>. QED
  BY <1>1, BehindStep

LEMMA ExecutesWalks ==
  ASSUME RunInv, NEW kinds, Executes(kinds), UNCHANGED <<func, racy>>
  PROVE  /\ racy # NotYet /\ at # <<>>
         /\ at \in Insts(func, kinds)
         /\ at' \in NextPoints(func, Blocks(func))[at]
<1>1. IsFunction(func) /\ at \in Points(func)
  BY StackObjectsAssumption DEF RunInv, TypeInv, Executes
<1>2. at' \in NextPoints(func, Blocks(func))[at]
  BY <1>1 DEF Executes, NextPoints
<1>. QED
  BY <1>1, <1>2, IsInst DEF Executes

LEMMA RunStep == RunInv /\ [Next]_vars => RunInv'
<1>. SUFFICES ASSUME RunInv, [Next]_vars PROVE RunInv'
  OBVIOUS
<1>0. IsFunction(func)
  BY StackObjectsAssumption DEF RunInv, TypeInv
<1>1. /\ \A s \in MightSpawns(func) : s \in Points(func)
      /\ \A m \in Mops(func) : m \in Points(func)
  BY <1>0, InstFacts DEF MightSpawns, Mops
<1>2. CASE Analyze
  BY <1>2 DEF Analyze, RunInv, TypeInv, WaitsForAnalysis, FollowsWalks, MissedAreBetween
<1>3. CASE Access
  <2>1. /\ racy # NotYet /\ at # <<>> /\ at \in Mops(func)
        /\ at' \in NextPoints(func, Blocks(func))[at]
        /\ UNCHANGED <<func, racy, spawned, missed>>
    BY <1>3, ExecutesWalks DEF Access, Mops
  <2>2. /\ at' \in Points(func) /\ at' \in Behind(func, at, Blocks(func))
        /\ \A p \in Points(func) :
             at \in Behind(func, p, Blocks(func)) => at' \in Behind(func, p, Blocks(func))
    BY <2>1, RunWalks
  <2>3. TypeInv' /\ WaitsForAnalysis' /\ MissedAreBetween'
    BY <2>1, <2>2 DEF RunInv, TypeInv, WaitsForAnalysis, MissedAreBetween
  <2>4. pending' \subseteq pending \cup {at} /\ (pending' # pending => spawned)
    BY <1>3 DEF Access
  <2>5. spawned => \E s \in MightSpawns(func) : at \in Behind(func, s, Blocks(func))
    BY <2>1 DEF RunInv, FollowsWalks
  <2>6. ASSUME NEW m \in pending'
        PROVE  /\ m \in Mops(func)
               /\ \E s \in MightSpawns(func) : m \in Behind(func, s, Blocks(func))
               /\ at' \in Behind(func, m, Blocks(func))
    <3>1. CASE m \in pending
      <4>1. /\ m \in Mops(func) /\ at \in Behind(func, m, Blocks(func))
            /\ \E s \in MightSpawns(func) : m \in Behind(func, s, Blocks(func))
        BY <2>1, <3>1 DEF RunInv, FollowsWalks
      <4>. QED
        BY <1>1, <2>2, <4>1
    <3>2. CASE m \notin pending
      <4>1. m = at /\ spawned
        BY <2>4, <2>6, <3>2
      <4>. QED
        BY <2>1, <2>2, <2>5, <4>1
    <3>. QED
      BY <3>1, <3>2
  <2>7. FollowsWalks'
    BY <1>1, <2>1, <2>2, <2>5, <2>6 DEF FollowsWalks
  <2>. QED
    BY <2>3, <2>7 DEF RunInv
<1>4. CASE Call
  <2>1. /\ racy # NotYet /\ at # <<>> /\ at \in MightJoins(func)
        /\ at' \in NextPoints(func, Blocks(func))[at]
        /\ UNCHANGED <<func, racy>>
    BY <1>4, ExecutesWalks DEF Call, MightJoins
  <2>2. /\ at' \in Points(func) /\ at' \in Behind(func, at, Blocks(func))
        /\ \A p \in Points(func) :
             at \in Behind(func, p, Blocks(func)) => at' \in Behind(func, p, Blocks(func))
    BY <2>1, RunWalks
  <2>3. TypeInv'
    BY <1>4, <2>1, <2>2 DEF Call, RunInv, TypeInv
  <2>4. FollowsWalks'
    <3>1. pending' = {} /\ (spawned' => spawned \/ at \in MightSpawns(func))
      BY <1>4 DEF Call
    <3>2. spawned' => \E s \in MightSpawns(func) : at' \in Behind(func, s, Blocks(func))
      BY <1>1, <2>1, <2>2, <3>1 DEF RunInv, FollowsWalks
    <3>. QED
      BY <2>1, <3>1, <3>2 DEF FollowsWalks
  <2>5. pending \subseteq Between(func, Blocks(func))
    BY <2>1 DEF RunInv, FollowsWalks, Between
  <2>6. MissedAreBetween'
    BY <1>4, <2>1, <2>5 DEF Call, RunInv, MissedAreBetween
  <2>7. WaitsForAnalysis'
    BY <2>1 DEF WaitsForAnalysis
  <2>. QED
    BY <2>3, <2>4, <2>6, <2>7 DEF RunInv
<1>5. CASE Branch
  <2>1. /\ racy # NotYet /\ at # <<>> /\ at \in Points(func)
        /\ UNCHANGED <<func, racy, spawned, pending, missed>>
    BY <1>5 DEF Branch, AtTerminator, RunInv, TypeInv
  <2>2. at' \in NextPoints(func, Blocks(func))[at]
    <3>1. at[1] \in Blocks(func) /\ func.succs[at[1]] \subseteq Blocks(func)
      BY <1>0, <2>1, PointFacts, SuccsGraph
    <3>2. PICK b \in func.succs[at[1]] : at' = <<b, 1>>
      BY <1>5 DEF Branch
    <3>3. ~(at[2] <= Len(func.code[at[1]]))
      BY <1>0, <1>5, <3>1, CodeFacts DEF Branch, AtTerminator
    <3>. QED
      BY <2>1, <3>1, <3>2, <3>3 DEF NextPoints
  <2>3. /\ at' \in Points(func)
        /\ \A p \in Points(func) :
             at \in Behind(func, p, Blocks(func)) => at' \in Behind(func, p, Blocks(func))
    BY <2>1, <2>2, RunWalks
  <2>4. TypeInv' /\ WaitsForAnalysis' /\ MissedAreBetween'
    BY <2>1, <2>3 DEF RunInv, TypeInv, WaitsForAnalysis, MissedAreBetween
  <2>5. FollowsWalks'
    BY <1>1, <2>1, <2>3 DEF RunInv, FollowsWalks
  <2>. QED
    BY <2>4, <2>5 DEF RunInv
<1>6. CASE Return
  BY <1>6 DEF Return, AtTerminator, RunInv, TypeInv, WaitsForAnalysis, FollowsWalks,
              MissedAreBetween
<1>7. CASE UNCHANGED vars
  BY <1>7 DEF vars, RunInv, TypeInv, WaitsForAnalysis, FollowsWalks, MissedAreBetween
<1>. QED
  BY <1>2, <1>3, <1>4, <1>5, <1>6, <1>7 DEF Next

\* Together with the bounds of what is found.
LEMMA RunMisses == RunInv => MissedAcrossBlocks
<1>. SUFFICES ASSUME RunInv, NEW m \in missed
              PROVE  IF Cardinality(CandidateMops(func)) <= MopThreshold
                     THEN InIrreducibleCycle(func, m[1])
                     ELSE m \notin Between(func, SpawnBlocks(func))
  BY DEF MissedAcrossBlocks
<1>1. IsFunction(func) /\ racy # NotYet
  BY StackObjectsAssumption DEF RunInv, TypeInv, WaitsForAnalysis
<1>2. m \in Between(func, Blocks(func)) /\ m \in Mops(func) /\ m \notin AllMopsMightRace(func)
  BY <1>1 DEF RunInv, TypeInv, MissedAreBetween, Between
<1>3. {} \notin {CandidateMops(func), MightSpawns(func), MightJoins(func)}
  <2>1. m \in CandidateMops(func)
    BY <1>2 DEF Mops, CandidateMops, Insts
  <2>. QED
    BY <1>2, <2>1 DEF Between
<1>4. CASE Cardinality(CandidateMops(func)) <= MopThreshold
  <2>1. m \notin CollectSeveralMopsMayRace(func)
    BY <1>2, <1>3, <1>4 DEF AllMopsMightRace
  <2>. QED
    BY <1>1, <1>2, <1>4, <2>1, FewAreBetween
<1>5. CASE ~(Cardinality(CandidateMops(func)) <= MopThreshold)
  <2>1. m \notin CollectManyMopsMayRace(func)
    BY <1>2, <1>3, <1>5 DEF AllMopsMightRace
  <2>. QED
    BY <1>1, <1>2, <1>5, <2>1, ManyAreBetween
<1>. QED
  BY <1>4, <1>5

-----------------------------------------------------------------------------
(***************************************************************************)
(* The theorems.                                                           *)
(***************************************************************************)
LEMMA RunInvariant == Spec => []RunInv
  BY RunInit, RunStep, PTL DEF Spec

\* CollectSeveralMopsMayRace finds the accesses between a spawn and a join, but for
\* cycles that are no loops, and CollectManyMopsMayRace those on walks within the
\* blocks with a spawn: in functions of every size and shape.
THEOREM MayRaceExact == Spec => []MayRaceIsExact
<1>1. RunInv => MayRaceIsExact
  <2>. SUFFICES ASSUME RunInv PROVE MayRaceIsExact
    OBVIOUS
  <2>1. IsFunction(func)
    BY StackObjectsAssumption DEF RunInv, TypeInv
  <2>2. CollectManyMopsMayRace(func) \cap Mops(func) = Between(func, SpawnBlocks(func))
    BY <2>1, ManyAreBetween
  <2>3. CollectSeveralMopsMayRace(func) \cap Mops(func) \subseteq Between(func, Blocks(func))
    BY <2>1, FewAreBetween
  <2>4. ASSUME NEW m \in Between(func, Blocks(func)) \ (CollectSeveralMopsMayRace(func) \cap Mops(func))
        PROVE  InIrreducibleCycle(func, m[1])
    <3>1. m \in Mops(func)
      BY DEF Between
    <3>. QED
      BY <2>1, <3>1, FewAreBetween
  <2>. QED
    BY <2>2, <2>3, <2>4 DEF MayRaceIsExact
<1>. QED
  BY <1>1, RunInvariant, PTL

\* Whatever way a run takes, an access between a spawn and the next call is checked,
\* if there are few and it is in no irreducible cycle, or if it is on a walk from a
\* spawn to a join within the blocks with a spawn.
THEOREM MissedBounded == Spec => []MissedAcrossBlocks
  BY RunInvariant, RunMisses, PTL

================================================================================
