--------------------------- MODULE ControlFlowProofs ---------------------------
(***************************************************************************)
(* Reach(next, S) is the least set that contains S and is closed under     *)
(* next: what both compiler analyses rest on.                              *)
(*                                                                         *)
(* The induction theorems of the library take a predicate as a parameter;  *)
(* WFMin, which says that a set of naturals has a least element, takes     *)
(* none, and an induction is a proof about the least counterexample.       *)
(***************************************************************************)
EXTENDS ControlFlow, Sequences, FiniteSetTheorems, WellFoundedInduction, TLAPS

Less == {p \in Nat \X Nat : p[1] < p[2]}

LEMMA LessIsWellFounded == IsWellFoundedOn(Less, Nat)
  BY ONLY NatLessThanWellFounded DEF OpToRel, Less

LEMMA LeastNatural ==
  ASSUME NEW T \in SUBSET Nat, T # {}
  PROVE  \E n \in T : \A m \in T : n <= m
<1>1. PICK n \in T : \A m \in T : ~ (<<m, n>> \in Less)
  BY LessIsWellFounded, WFMin
<1>2. ASSUME NEW m \in T PROVE n <= m
  <2>1. <<m, n>> \in Nat \X Nat
    OBVIOUS
  <2>2. m < n => <<m, n>> \in Less
    BY <2>1 DEF Less
  <2>. QED
    BY <1>1, <2>2
<1>. QED
  BY <1>2

\* A set of naturals that has 0, and with each number the next, has all.
LEMMA InductiveSet ==
  ASSUME NEW P, 0 \in P, \A n \in Nat : n \in P => n + 1 \in P
  PROVE  Nat \subseteq P
<1>. SUFFICES ASSUME Nat \ P # {} PROVE FALSE
  OBVIOUS
<1>1. PICK n \in Nat \ P : \A m \in Nat \ P : n <= m
  BY LeastNatural
<1>2. n - 1 \in Nat /\ n - 1 \in P
  BY <1>1
<1>. QED
  BY <1>1, <1>2

-----------------------------------------------------------------------------
\* The recursion of Reach, one level on.
More(next, T) == T \cup UNION {next[x] : x \in T}

\* The function that Reach defines.
Grow(next, S) ==
  CHOOSE g : g = [n \in Nat |-> IF n = 0 THEN S ELSE More(next, g[n - 1])]

\* The first n levels.
Levels(next, S, n, f) ==
  /\ DOMAIN f = 0..n
  /\ f[0] = S
  /\ \A i \in 1..n : f[i] = More(next, f[i - 1])

LEMMA ReachIsGrow ==
  ASSUME NEW next, NEW S
  PROVE  Reach(next, S) = Grow(next, S)[Cardinality(DOMAIN next)]
  BY DEF Reach, Grow, More

LEMMA LevelsExist ==
  ASSUME NEW next, NEW S, NEW n \in Nat
  PROVE  \E f : Levels(next, S, n, f)
<1>. DEFINE P == {m \in Nat : \E f : Levels(next, S, m, f)}
<1>1. 0 \in P
  <2>1. Levels(next, S, 0, [i \in 0..0 |-> S])
    BY DEF Levels
  <2>. QED
    BY <2>1
<1>2. ASSUME NEW m \in Nat, m \in P PROVE m + 1 \in P
  <2>1. PICK f : Levels(next, S, m, f)
    BY <1>2
  <2>. DEFINE g == [i \in 0..(m + 1) |-> IF i = m + 1 THEN More(next, f[m]) ELSE f[i]]
  <2>2. Levels(next, S, m + 1, g)
    BY <2>1 DEF Levels
  <2>. QED
    BY <2>2
<1>. HIDE DEF P
<1>3. n \in P
  BY <1>1, <1>2, InductiveSet
<1>. QED
  BY <1>3 DEF P

LEMMA LevelsAgree ==
  ASSUME NEW next, NEW S, NEW m \in Nat, NEW n \in Nat, m <= n,
         NEW f, NEW g, Levels(next, S, m, f), Levels(next, S, n, g)
  PROVE  f[m] = g[m]
<1>. DEFINE P == {i \in Nat : i <= m => f[i] = g[i]}
<1>1. 0 \in P
  BY DEF Levels
<1>2. ASSUME NEW i \in Nat, i \in P PROVE i + 1 \in P
  <2>. SUFFICES ASSUME i + 1 <= m PROVE f[i + 1] = g[i + 1]
    OBVIOUS
  <2>1. i + 1 \in 1..m /\ i + 1 \in 1..n /\ f[i] = g[i] /\ (i + 1) - 1 = i
    BY <1>2
  <2>. QED
    BY <2>1 DEF Levels
<1>. HIDE DEF P
<1>3. m \in P
  BY <1>1, <1>2, InductiveSet
<1>. QED
  BY <1>3 DEF P

LEMMA GrowIsDefined ==
  ASSUME NEW next, NEW S
  PROVE  Grow(next, S) =
           [n \in Nat |-> IF n = 0 THEN S ELSE More(next, Grow(next, S)[n - 1])]
<1>. DEFINE level(n) == CHOOSE f : Levels(next, S, n, f)
            g == [n \in Nat |-> level(n)[n]]
<1>1. \A n \in Nat : Levels(next, S, n, level(n))
  BY LevelsExist
<1>2. ASSUME NEW n \in Nat
      PROVE  g[n] = IF n = 0 THEN S ELSE More(next, g[n - 1])
  <2>1. CASE n = 0
    BY <1>1, <2>1 DEF Levels
  <2>2. CASE n # 0
    <3>1. n - 1 \in Nat /\ n - 1 <= n /\ n \in 1..n
      BY <2>2
    <3>2. Levels(next, S, n, level(n)) /\ Levels(next, S, n - 1, level(n - 1))
      BY <1>1, <3>1
    <3>. HIDE DEF level
    <3>3. level(n - 1)[n - 1] = level(n)[n - 1]
      BY <3>1, <3>2, LevelsAgree
    <3>4. level(n)[n] = More(next, level(n)[n - 1])
      BY <3>1, <3>2 DEF Levels
    <3>. QED
      BY <2>2, <3>1, <3>3, <3>4
  <2>. QED
    BY <2>1, <2>2
<1>. HIDE DEF level
<1>3. g = [n \in Nat |-> IF n = 0 THEN S ELSE More(next, g[n - 1])]
  <2>. HIDE DEF g
  <2>1. g = [n \in Nat |-> g[n]]
    BY DEF g
  <2>. QED
    BY <1>2, <2>1
<1>. HIDE DEF g
<1>. QED
  BY <1>3 DEF Grow

LEMMA GrowSteps ==
  ASSUME NEW next, NEW S
  PROVE  /\ Grow(next, S)[0] = S
         /\ \A n \in Nat : Grow(next, S)[n + 1] = More(next, Grow(next, S)[n])
<1>. DEFINE G == Grow(next, S)
<1>1. G = [n \in Nat |-> IF n = 0 THEN S ELSE More(next, G[n - 1])]
  BY GrowIsDefined
<1>. HIDE DEF G
<1>2. G[0] = S
  BY <1>1
<1>3. ASSUME NEW n \in Nat PROVE G[n + 1] = More(next, G[n])
  <2>1. n + 1 \in Nat /\ n + 1 # 0 /\ (n + 1) - 1 = n
    OBVIOUS
  <2>. QED
    BY <1>1, <2>1
<1>. QED
  BY <1>2, <1>3 DEF G

-----------------------------------------------------------------------------
(***************************************************************************)
(* Reach.                                                                  *)
(***************************************************************************)
IsGraph(next) ==
  /\ IsFiniteSet(DOMAIN next)
  /\ \A x \in DOMAIN next : next[x] \subseteq DOMAIN next

Closed(next, T) == \A x \in T : next[x] \subseteq T

LEMMA GrowStaysIn ==
  ASSUME NEW next, NEW S, NEW T, S \subseteq T, Closed(next, T)
  PROVE  \A n \in Nat : Grow(next, S)[n] \subseteq T
<1>. DEFINE P == {n \in Nat : Grow(next, S)[n] \subseteq T}
<1>1. 0 \in P
  BY GrowSteps
<1>2. ASSUME NEW n \in Nat, n \in P PROVE n + 1 \in P
  <2>1. Grow(next, S)[n + 1] = More(next, Grow(next, S)[n])
    BY GrowSteps
  <2>. QED
    BY <1>2, <2>1 DEF More, Closed
<1>. HIDE DEF P
<1>3. Nat \subseteq P
  BY <1>1, <1>2, InductiveSet
<1>. QED
  BY <1>3 DEF P

LEMMA GrowGrows ==
  ASSUME NEW next, NEW S
  PROVE  \A n \in Nat : S \subseteq Grow(next, S)[n]
<1>. DEFINE P == {n \in Nat : S \subseteq Grow(next, S)[n]}
<1>1. 0 \in P
  BY GrowSteps
<1>2. ASSUME NEW n \in Nat, n \in P PROVE n + 1 \in P
  <2>1. Grow(next, S)[n + 1] = More(next, Grow(next, S)[n])
    BY GrowSteps
  <2>. QED
    BY <1>2, <2>1 DEF More
<1>. HIDE DEF P
<1>3. Nat \subseteq P
  BY <1>1, <1>2, InductiveSet
<1>. QED
  BY <1>3 DEF P

\* Until it is closed, each level adds a vertex to the one before.
LEMMA GrowCounts ==
  ASSUME NEW next, IsGraph(next), NEW S, S \subseteq DOMAIN next
  PROVE  \A n \in Nat : \/ Grow(next, S)[n + 1] = Grow(next, S)[n]
                        \/ Cardinality(Grow(next, S)[n]) >= n
<1>. DEFINE G == Grow(next, S)
            P == {n \in Nat : G[n + 1] = G[n] \/ Cardinality(G[n]) >= n}
<1>1. /\ G[0] = S
      /\ \A n \in Nat : G[n + 1] = More(next, G[n])
  BY GrowSteps
<1>2. \A n \in Nat : G[n] \subseteq DOMAIN next
  BY GrowStaysIn DEF IsGraph, Closed
<1>3. \A n \in Nat : IsFiniteSet(G[n]) /\ Cardinality(G[n]) \in Nat
  BY <1>2, FS_Subset, FS_CardinalityType DEF IsGraph
<1>. HIDE DEF G
<1>4. 0 \in P
  BY <1>3
<1>5. ASSUME NEW n \in Nat, n \in P PROVE n + 1 \in P
  <2>0. n + 1 \in Nat
    OBVIOUS
  <2>1. CASE G[n + 1] = G[n]
    <3>1. G[(n + 1) + 1] = G[n + 1]
      BY <1>1, <2>0, <2>1
    <3>. QED
      BY <3>1
  <2>2. CASE G[n + 1] # G[n]
    <3>1. G[n] \subseteq G[n + 1]
      BY <1>1 DEF More
    <3>2. Cardinality(G[n]) <= Cardinality(G[n + 1])
      BY <1>3, <2>0, <3>1, FS_Subset
    <3>3. Cardinality(G[n]) # Cardinality(G[n + 1])
      BY <1>3, <2>0, <2>2, <3>1, FS_Subset
    <3>4. Cardinality(G[n]) >= n
      BY <1>5, <2>2
    <3>5. Cardinality(G[n + 1]) >= n + 1
      BY <1>3, <2>0, <3>2, <3>3, <3>4
    <3>. QED
      BY <3>5
  <2>. QED
    BY <2>1, <2>2
<1>. HIDE DEF P
<1>6. Nat \subseteq P
  BY <1>4, <1>5, InductiveSet
<1>. QED
  BY <1>6 DEF P, G

\* Reach is closed.
LEMMA ReachClosed ==
  ASSUME NEW next, IsGraph(next), NEW S, S \subseteq DOMAIN next
  PROVE  /\ S \subseteq Reach(next, S)
         /\ Reach(next, S) \subseteq DOMAIN next
         /\ Closed(next, Reach(next, S))
<1>. DEFINE R == Reach(next, S)
            N == Cardinality(DOMAIN next)
            G == Grow(next, S)
<1>1. N \in Nat
  BY FS_CardinalityType DEF IsGraph
<1>2. R = G[N]
  BY ReachIsGrow
<1>3. S \subseteq R
  BY <1>1, <1>2, GrowGrows
<1>4. R \subseteq DOMAIN next
  <2>1. Closed(next, DOMAIN next)
    BY DEF IsGraph, Closed
  <2>. QED
    BY <1>1, <1>2, <2>1, GrowStaysIn
<1>5. Closed(next, R)
  <2>1. CASE G[N + 1] = G[N]
    <3>1. G[N + 1] = More(next, G[N])
      BY <1>1, GrowSteps
    <3>. QED
      BY <1>2, <2>1, <3>1 DEF More, Closed
  <2>2. CASE Cardinality(G[N]) >= N
    <3>1. Cardinality(R) <= N /\ (Cardinality(R) = N => R = DOMAIN next)
      BY <1>4, FS_Subset DEF IsGraph
    <3>2. Cardinality(R) \in Nat
      BY <1>4, FS_Subset, FS_CardinalityType DEF IsGraph
    <3>3. R = DOMAIN next
      BY <1>1, <1>2, <2>2, <3>1, <3>2
    <3>. QED
      BY <3>3 DEF IsGraph, Closed
  <2>. QED
    BY <1>1, <2>1, <2>2, GrowCounts
<1>. QED
  BY <1>3, <1>4, <1>5

\* Reach is the least closed set.
LEMMA ReachLeast ==
  ASSUME NEW next, IsFiniteSet(DOMAIN next), NEW S, NEW T, S \subseteq T, Closed(next, T)
  PROVE  Reach(next, S) \subseteq T
<1>1. Cardinality(DOMAIN next) \in Nat
  BY FS_CardinalityType
<1>. QED
  BY <1>1, ReachIsGrow, GrowStaysIn

LEMMA ReachStep ==
  ASSUME NEW next, IsGraph(next), NEW S, S \subseteq DOMAIN next,
         NEW x \in Reach(next, S), NEW y \in next[x]
  PROVE  y \in Reach(next, S)
  BY ReachClosed DEF Closed

LEMMA ReachTransitive ==
  ASSUME NEW next, IsGraph(next), NEW S, S \subseteq DOMAIN next,
         NEW T, T \subseteq Reach(next, S)
  PROVE  Reach(next, T) \subseteq Reach(next, S)
  BY ReachClosed, ReachLeast DEF IsGraph

LEMMA ReachNothing ==
  ASSUME NEW next, IsFiniteSet(DOMAIN next)
  PROVE  Reach(next, {}) = {}
  BY ReachLeast DEF Closed

\* The last step of a walk, and the first.
LEMMA ReachLast ==
  ASSUME NEW next, IsGraph(next), NEW S, S \subseteq DOMAIN next,
         NEW y \in Reach(next, S), y \notin S
  PROVE  \E x \in Reach(next, S) : y \in next[x]
<1>. SUFFICES ASSUME \A x \in Reach(next, S) : y \notin next[x] PROVE FALSE
  OBVIOUS
<1>1. S \subseteq Reach(next, S) \ {y} /\ Closed(next, Reach(next, S) \ {y})
  BY ReachClosed DEF Closed
<1>2. Reach(next, S) \subseteq Reach(next, S) \ {y}
  BY <1>1, ReachLeast DEF IsGraph
<1>. QED
  BY <1>2

LEMMA ReachFirst ==
  ASSUME NEW next, IsGraph(next), NEW S, S \subseteq DOMAIN next,
         NEW y \in Reach(next, S)
  PROVE  \E x \in S : y = x \/ y \in Reach(next, next[x])
<1>. DEFINE T == {z \in DOMAIN next : \E x \in S : z = x \/ z \in Reach(next, next[x])}
<1>1. \A x \in S : next[x] \subseteq DOMAIN next
  BY DEF IsGraph
<1>2. \A x \in S : /\ next[x] \subseteq Reach(next, next[x])
                   /\ Reach(next, next[x]) \subseteq DOMAIN next
                   /\ Closed(next, Reach(next, next[x]))
  BY <1>1, ReachClosed
<1>3. S \subseteq T
  OBVIOUS
<1>4. Closed(next, T)
  <2>. SUFFICES ASSUME NEW z \in T, NEW y2 \in next[z] PROVE y2 \in T
    BY DEF Closed
  <2>1. PICK x \in S : z = x \/ z \in Reach(next, next[x])
    OBVIOUS
  <2>2. y2 \in Reach(next, next[x])
    BY <1>2, <2>1 DEF Closed
  <2>. QED
    BY <1>2, <2>2
<1>. HIDE DEF T
<1>5. y \in T
  BY <1>3, <1>4, ReachLeast DEF IsGraph
<1>. QED
  BY <1>5 DEF T

\* What S reaches, one of its vertices reaches.
LEMMA ReachFromOne ==
  ASSUME NEW next, IsGraph(next), NEW S, S \subseteq DOMAIN next,
         NEW y \in Reach(next, S)
  PROVE  \E x \in S : y \in Reach(next, {x})
<1>1. PICK x \in S : y = x \/ y \in Reach(next, next[x])
  BY ReachFirst
<1>2. x \in Reach(next, {x}) /\ next[x] \subseteq Reach(next, {x})
  BY ReachClosed DEF Closed
<1>3. Reach(next, next[x]) \subseteq Reach(next, {x})
  BY <1>2, ReachTransitive
<1>. QED
  BY <1>1, <1>2, <1>3

\* prev is next reversed.
LEMMA ReachBackwards ==
  ASSUME NEW next, IsGraph(next), NEW prev, DOMAIN prev = DOMAIN next,
         \A x, y \in DOMAIN next : y \in prev[x] <=> x \in next[y],
         IsGraph(prev),
         NEW x \in DOMAIN next, NEW y \in Reach(next, {x})
  PROVE  x \in Reach(prev, {y})
<1>. DEFINE T == {z \in DOMAIN next : x \in Reach(prev, {z})}
<1>1. {x} \subseteq T
  BY ReachClosed
<1>2. Closed(next, T)
  <2>. SUFFICES ASSUME NEW z \in T, NEW w \in next[z] PROVE w \in T
    BY DEF Closed
  <2>1. w \in DOMAIN next /\ z \in prev[w]
    BY DEF IsGraph
  <2>2. w \in Reach(prev, {w}) /\ Closed(prev, Reach(prev, {w}))
    BY <2>1, ReachClosed
  <2>3. Reach(prev, {z}) \subseteq Reach(prev, {w})
    BY <2>1, <2>2, ReachTransitive DEF Closed
  <2>. QED
    BY <2>1, <2>3
<1>. HIDE DEF T
<1>3. y \in T
  BY <1>1, <1>2, ReachLeast DEF IsGraph
<1>. QED
  BY <1>3 DEF T

-----------------------------------------------------------------------------
LEMMA FiniteImage ==
  ASSUME NEW S, IsFiniteSet(S), NEW f, DOMAIN f = S
  PROVE  IsFiniteSet({f[x] : x \in S})
<1>. DEFINE T == {f[x] : x \in S}
            g == [x \in S |-> f[x]]
<1>1. g \in Surjection(S, T)
  BY DEF Surjection
<1>. QED
  BY <1>1, FS_Surjection

LEMMA FiniteRange ==
  ASSUME NEW S, NEW s \in Seq(S)
  PROVE  IsFiniteSet({s[i] : i \in DOMAIN s})
<1>1. DOMAIN s = 1..Len(s) /\ Len(s) \in Nat
  OBVIOUS
<1>2. IsFiniteSet(DOMAIN s)
  BY <1>1, FS_Interval
<1>. QED
  BY <1>2, FiniteImage

================================================================================
