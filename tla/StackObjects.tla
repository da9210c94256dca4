------------------------------ MODULE StackObjects ------------------------------
(***************************************************************************)
(* Which accesses to a stack object may race (TsanMopAnalysis.cpp): those  *)
(* between a call that may give the object to a new thread and a call that *)
(* may join a thread.  TSan checks no others.  Few accesses are asked for  *)
(* one by one, many by two searches over the blocks.                       *)
(*                                                                         *)
(* A function f is a record: its entry block, the successors of each block *)
(* and the code of each block, a sequence of                               *)
(*   "mop"        a load or store of the object;                           *)
(*   "spawn"      a call that captures it, as its first operand;           *)
(*   "spawn_arg"  one that captures it as a later operand, which the walk  *)
(*                over the uses also takes for an access;                  *)
(*   "call"       any other call.                                          *)
(* Every call may join.  An instruction is named by its block and index.   *)
(* Accesses through derived addresses are not among them: the analysis     *)
(* follows these with a walk that is left out.                             *)
(* The function then runs.                                                 *)
(***************************************************************************)
EXTENDS ControlFlow, Sequences

CONSTANTS Functions,
          MopThreshold   \* up to so many candidates are asked for one by one

Kinds == {"mop", "spawn", "spawn_arg", "call"}

Blocks(f) == DOMAIN f.succs

IsFunction(f) ==
  /\ IsFiniteSet(Blocks(f))
  /\ f.entry \in Blocks(f)
  /\ f.succs \in [Blocks(f) -> SUBSET Blocks(f)]
  /\ f.code \in [Blocks(f) -> Seq(Kinds)]

ASSUME StackObjectsAssumption ==
  /\ MopThreshold \in Nat
  /\ \A f \in Functions : IsFunction(f)

VARIABLES func,
          racy,       \* the result of the analysis; NotYet before
          at,         \* the block and instruction to execute; <<>> after return
          spawned,    \* the object may have been given to a thread
          pending,    \* accesses since then that no call has followed
          missed      \* accesses between spawn and join that are not checked

vars == <<func, racy, at, spawned, pending, missed>>

----------------------------------------------------------------------------
(* The analysis. *)

Insts(f, kinds) ==
  UNION {{<<b, i>> : i \in {j \in DOMAIN f.code[b] : f.code[b][j] \in kinds}}
           : b \in Blocks(f)}

CandidateMops(f) == Insts(f, {"mop", "spawn_arg"})
MightSpawns(f) == Insts(f, {"spawn", "spawn_arg"})
MightJoins(f) == Insts(f, {"spawn", "spawn_arg", "call"})

Parents(insts) == {p[1] : p \in insts}

Preds(f) == [b \in Blocks(f) |-> {p \in Blocks(f) : b \in f.succs[p]}]

\* Every walk from the entry to b comes through h.
BlockDominates(f, h, b) ==
  h = b \/ b \notin Reach([c \in Blocks(f) |-> f.succs[c] \ {h}], {f.entry} \ {h})

\* LI.getLoopFor(b): b is in a natural loop, one that is entered at its header h;
\* LoopInfo leaves out the blocks that the entry does not reach.
InLoop(f, b) ==
  LET live == Reach(f.succs, {f.entry})
      body(h) == [c \in Blocks(f) |-> IF c = h THEN {} ELSE Preds(f)[c] \cap live]
  IN  \E h, latch \in live : /\ h \in f.succs[latch] /\ BlockDominates(f, h, latch)
                            /\ b \in {h} \cup Reach(body(h), {latch})

\* isPotentiallyReachable: within a block by order, unless it is in a loop.
IsPotentiallyReachable_NoLoop(f, from, to) ==
  IF from[1] = to[1] THEN from[2] < to[2]
  ELSE to[1] \in Reach(f.succs, {from[1]})

IsPotentiallyReachable(f, from, to) ==
  IF from[1] = to[1] THEN InLoop(f, from[1]) \/ from[2] < to[2]
  ELSE to[1] \in Reach(f.succs, {from[1]})

CollectSeveralMopsMayRace(f) ==
  {m \in CandidateMops(f) :
     /\ \E s \in MightSpawns(f) : IsPotentiallyReachable(f, s, m)
     /\ \E j \in MightJoins(f) : IsPotentiallyReachable(f, m, j)}

\* depthFirstTraversal: df_ext_begin puts the start into Visited; the iteration
\* made after it finds the start visited and goes nowhere.
DepthFirstTraversal(Starts) == Starts

\* The blocks reached from a spawn and, within these, those that reach a join.
BlocksBetween(f) ==
  LET ForwardBBs == DepthFirstTraversal(Parents(MightSpawns(f)))
  IN  Reach([b \in Blocks(f) |-> Preds(f)[b] \cap ForwardBBs],
            Parents(MightJoins(f)) \cap ForwardBBs)

\* The instructions before the first spawn of a block that is not entered from
\* between, and those after the last join of a block not left to between.
BeforeUpperBound_AnyEntry(f, m) ==
  LET spawns == {s \in MightSpawns(f) : s[1] = m[1]}
  IN  spawns # {} /\ \A s \in spawns : m[2] < s[2]

BeforeUpperBound(f, m) ==
  LET spawns == {s \in MightSpawns(f) : s[1] = m[1]}
  IN  /\ Preds(f)[m[1]] \cap BlocksBetween(f) = {}
      /\ spawns # {} /\ \A s \in spawns : m[2] < s[2]

AfterLowerBound(f, m) ==
  LET joins == {j \in MightJoins(f) : j[1] = m[1]}
  IN  /\ f.succs[m[1]] \cap BlocksBetween(f) = {}
      /\ joins # {} /\ \A j \in joins : j[2] < m[2]

CollectManyMopsMayRace(f) ==
  {m \in CandidateMops(f) :
     m[1] \in BlocksBetween(f) /\ ~BeforeUpperBound(f, m) /\ ~AfterLowerBound(f, m)}

AllMopsMightRace(f) ==
  IF {} \in {CandidateMops(f), MightSpawns(f), MightJoins(f)} THEN {}
  ELSE IF Cardinality(CandidateMops(f)) <= MopThreshold
       THEN CollectSeveralMopsMayRace(f)
       ELSE CollectManyMopsMayRace(f)

----------------------------------------------------------------------------
NotYet == {<<>>}

Init ==
  /\ func \in Functions
  /\ racy = NotYet
  /\ at = <<func.entry, 1>>
  /\ spawned = FALSE /\ pending = {} /\ missed = {}

Analyze ==
  /\ racy = NotYet
  /\ racy' = AllMopsMightRace(func)
  /\ UNCHANGED <<func, at, spawned, pending, missed>>

\* The next instruction to execute, one of kinds.
Executes(kinds) ==
  /\ racy # NotYet /\ at # <<>> /\ at[2] <= Len(func.code[at[1]])
  /\ func.code[at[1]][at[2]] \in kinds
  /\ at' = <<at[1], at[2] + 1>>

Access ==
  /\ Executes({"mop"})
  /\ pending' = IF spawned THEN pending \cup {at} ELSE pending
  /\ UNCHANGED <<func, racy, spawned, missed>>

\* A call may join the threads it finds, and start one.
Call ==
  /\ Executes({"spawn", "spawn_arg", "call"})
  /\ spawned' = (spawned \/ at \in MightSpawns(func))
  /\ missed' = missed \cup (pending \ racy)
  /\ pending' = {}
  /\ UNCHANGED <<func, racy>>

AtTerminator == racy # NotYet /\ at # <<>> /\ at[2] = Len(func.code[at[1]]) + 1

Branch ==
  /\ AtTerminator
  /\ \E b \in func.succs[at[1]] : at' = <<b, 1>>
  /\ UNCHANGED <<func, racy, spawned, pending, missed>>

Return ==
  /\ AtTerminator /\ func.succs[at[1]] = {}
  /\ at' = <<>>
  /\ UNCHANGED <<func, racy, spawned, pending, missed>>

Next == Analyze \/ Access \/ Call \/ Branch \/ Return

Spec == Init /\ [][Next]_vars

----------------------------------------------------------------------------
(* The properties. *)

\* The graph of the instructions; a terminator is the point behind the last.
Points(f) == UNION {{<<b, i>> : i \in 1..(Len(f.code[b]) + 1)} : b \in Blocks(f)}

NextPoints(f, blocks) ==
  [p \in Points(f) |-> IF p[2] <= Len(f.code[p[1]]) THEN {<<p[1], p[2] + 1>>}
                       ELSE {<<b, 1>> : b \in f.succs[p[1]] \cap blocks}]

\* What can be reached from p by a walk of one step or more through blocks.
Behind(f, p, blocks) == Reach(NextPoints(f, blocks), NextPoints(f, blocks)[p])

Mops(f) == Insts(f, {"mop"})

\* "All MOPs between any MightSpawn to any MightJoin are racy"
\* (TsanMopAnalysis.cpp:105): those on a walk from one to the other.
Between(f, blocks) ==
  {m \in Mops(f) : /\ \E s \in MightSpawns(f) : m \in Behind(f, s, blocks)
                   /\ Behind(f, m, blocks) \cap MightJoins(f) # {}}

SpawnBlocks(f) == Parents(MightSpawns(f))

\* A cycle that is no natural loop, as goto may build it; LoopInfo sees none.
InIrreducibleCycle(f, b) == ~InLoop(f, b) /\ b \in Reach(f.succs, f.succs[b])

\* The queries one by one find the accesses between spawn and join and no
\* others, but for cycles that LoopInfo does not see.  The two searches, with the
\* bounds of blocks, find those on walks that keep to blocks with a spawn.
MayRaceIsExact ==
  racy # NotYet /\ at = <<func.entry, 1>> =>
    /\ CollectManyMopsMayRace(func) \cap Mops(func) = Between(func, SpawnBlocks(func))
    /\ LET few == CollectSeveralMopsMayRace(func) \cap Mops(func)
           all == Between(func, Blocks(func))
       IN  few \subseteq all /\ \A m \in all \ few : InIrreducibleCycle(func, m[1])

\* What goes unchecked in a run, between a spawn and the next call, is one of few
\* accesses and in an irreducible cycle, or one of many and on no walk from a spawn
\* to a join that keeps to blocks with a spawn.
MissedAcrossBlocks ==
  \A m \in missed :
    IF Cardinality(CandidateMops(func)) <= MopThreshold
    THEN InIrreducibleCycle(func, m[1])
    ELSE m \notin Between(func, SpawnBlocks(func))

\* In no run does an access after a spawn and before the next call go unchecked
\* ("only check stack variables between the calls that might spawn and might
\* join", TsanMopAnalysis.h:50), irreducible cycles apart.
NoRaceMissed == \A m \in missed : InIrreducibleCycle(func, m[1])
================================================================================
