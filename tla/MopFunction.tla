------------------------------ MODULE MopFunction ------------------------------
(***************************************************************************)
(* The functions that the access analyses of the compiler plugin read: a   *)
(* control-flow graph whose blocks hold the instructions that matter to    *)
(* them, namely interesting memory operations (mops: loads and stores that *)
(* are neither atomic nor marked nosanitize) and barriers (clobbering      *)
(* calls, the markers of a lifetime's start or end among them, and atomic  *)
(* instructions with acquire or release ordering).                         *)
(*                                                                         *)
(* A function f is a record:                                               *)
(*   f.entry     its entry block, which has no predecessor;                *)
(*   f.succs     the successors of each block;                             *)
(*   f.exits     the roots of its post-dominator tree: the blocks without  *)
(*               successor, and one that LLVM picks in every endless loop; *)
(*   f.rpo       a reverse post-order of the blocks;                       *)
(*   f.code      the instructions of each block, without its terminator,   *)
(*               which is the point after the last of them;                *)
(*   f.range     the bytes each mop accesses, the same ones at every       *)
(*               execution (loop-invariant pointers);                      *)
(*   f.writes    the mops that are stores.                                 *)
(* A mop is an instruction: it occurs once in the function.                *)
(***************************************************************************)
EXTENDS ControlFlow, Sequences

CONSTANTS Mops,        \* every memory operation
          Functions    \* the functions to analyse

\* llvm.lifetime.start and llvm.lifetime.end, which write memory to LLVM.
Lifetimes == {"lifetime"}

Calls == {"call"} \cup Lifetimes
Acquires == {"acquire", "acq_rel"}
Releases == {"release", "acq_rel"}
Barriers == Calls \cup Acquires \cup Releases

Blocks(f) == DOMAIN f.succs

Preds(f, b) == {p \in Blocks(f) : b \in f.succs[p]}

MopsIn(f, b) == {f.code[b][i] : i \in DOMAIN f.code[b]} \cap Mops

Insts(f) == UNION {MopsIn(f, b) : b \in Blocks(f)}

IsFunction(f) ==
  /\ f.succs \in [Blocks(f) -> SUBSET Blocks(f)]
  /\ f.rpo \in Seq(Blocks(f))
  /\ \A b \in Blocks(f) : \E i \in 1..Len(f.rpo) : f.rpo[i] = b
  /\ f.code \in [Blocks(f) -> Seq(Mops \cup Barriers)]
  /\ \A b, c \in Blocks(f) :
       \A i \in 1..Len(f.code[b]), j \in 1..Len(f.code[c]) :
         /\ f.code[b][i] \in Mops
         /\ f.code[b][i] = f.code[c][j]
         => b = c /\ i = j
  /\ f.entry \in Blocks(f)
  /\ Preds(f, f.entry) = {}
  /\ Blocks(f) \subseteq Reach(f.succs, {f.entry})
  /\ f.exits \subseteq Blocks(f)
  /\ \A b \in Blocks(f) : /\ f.succs[b] = {} => b \in f.exits
                          /\ Reach(f.succs, {b}) \cap f.exits # {}

ASSUME MopFunctionAssumption ==
  /\ Mops \cap Barriers = {}
  /\ \A f \in Functions : IsFunction(f)

\* The block of a mop, and its place in the block.
Parent(f, m) == CHOOSE b \in Blocks(f) : m \in MopsIn(f, b)

Index(f, m) ==
  CHOOSE i \in DOMAIN f.code[Parent(f, m)] : f.code[Parent(f, m)][i] = m

Without(f, b) == [c \in Blocks(f) \ {b} |-> f.succs[c] \ {b}]

\* Every walk from the entry to b comes through a.
BlockDominates(f, a, b) ==
  a = b \/ b \notin Reach(Without(f, a), {f.entry} \ {a})

\* Every walk from b to an exit comes through a.
BlockPostDominates(f, a, b) ==
  a = b \/ Reach(Without(f, a), {b}) \cap f.exits = {}

\* DT.dominates(a, b) of two instructions: before it in the same block.
Dominates(f, a, b) ==
  /\ BlockDominates(f, Parent(f, a), Parent(f, b))
  /\ Parent(f, a) = Parent(f, b) => Index(f, a) < Index(f, b)

\* PDT.dominates(a, b) of two instructions: after it in the same block.
PostDominates(f, a, b) ==
  /\ BlockPostDominates(f, Parent(f, a), Parent(f, b))
  /\ Parent(f, a) = Parent(f, b) => Index(f, a) > Index(f, b)

================================================================================
