--------------------------- MODULE ActiveMopAnalysis ---------------------------
(***************************************************************************)
(* The forward data-flow analysis of ActiveMopAnalysis.cpp: for every mop  *)
(* of MopList, whether it reaches the entry and the end of each block, and *)
(* whether a clobbering call, an acquire or a release came in between.     *)
(* The bit vectors of its lattice are sets of mops.  The first pass visits *)
(* the blocks in reverse post-order; the work-list loop then may take the  *)
(* blocks in any order (the code takes the newest).                        *)
(***************************************************************************)
EXTENDS MopFunction

VARIABLES func,         \* the function F under analysis
          UsedForTsan,
          MopList,
          In,           \* In[b], Out[b]: the lattice elements of block b
          Out,
          RPOT,         \* the blocks the first pass has still to visit
          WorkList,
          Analyzed

input_vars == <<func, UsedForTsan, MopList>>
info_vars == <<In, Out>>
analysis_vars == <<input_vars, info_vars, RPOT, WorkList, Analyzed>>

Lattice == [Reachable : SUBSET MopList, NotActive : SUBSET MopList,
            AnyAcq : SUBSET MopList, AnyRel : SUBSET MopList]

Bottom == [Reachable |-> {}, NotActive |-> {}, AnyAcq |-> {}, AnyRel |-> {}]

-----------------------------------------------------------------------------
\* Instructions i to j-1 of block b hold one of these barriers.
HasBarrier(b, i, j, barriers) ==
  \E k \in i..(j - 1) : func.code[b][k] \in barriers

AfterLast(b) == Len(func.code[b]) + 1

\* BlockInvariant: the tracked mops of block b, and those of them that one of
\* the barriers follows in the block.
UseGen(b) == MopsIn(func, b) \cap MopList

Gen(b, barriers) ==
  {m \in UseGen(b) :
     \E i \in DOMAIN func.code[b] :
       func.code[b][i] = m /\ HasBarrier(b, i, AfterLast(b), barriers)}

ContainsBarrier(b, barriers) == HasBarrier(b, 1, AfterLast(b), barriers)

\* Mutant: a barrier before a mop of the block still counts against it.
TransferBits_KeepsOld(b, barriers, reachable, bits) ==
  (IF ContainsBarrier(b, barriers) THEN reachable ELSE bits) \cup Gen(b, barriers)

\* One bit vector through block b: killed where the block has a barrier, then
\* set anew for the mops of the block.
TransferBits(b, barriers, reachable, bits) ==
  ((IF ContainsBarrier(b, barriers) THEN reachable ELSE bits) \ UseGen(b))
    \cup Gen(b, barriers)

\* Without TSan the two last vectors are empty and stay so.
transfer(b, in) ==
  [Reachable |-> in.Reachable \cup UseGen(b),
   NotActive |-> TransferBits(b, Calls, in.Reachable, in.NotActive),
   AnyAcq |-> IF UsedForTsan
              THEN TransferBits(b, Acquires, in.Reachable, in.AnyAcq) ELSE {},
   AnyRel |-> IF UsedForTsan
              THEN TransferBits(b, Releases, in.Reachable, in.AnyRel) ELSE {}]

\* join of an element with those of the blocks of P.
join(a, P) ==
  [Reachable |-> a.Reachable \cup UNION {Out[p].Reachable : p \in P},
   NotActive |-> a.NotActive \cup UNION {Out[p].NotActive : p \in P},
   AnyAcq |-> a.AnyAcq \cup UNION {Out[p].AnyAcq : p \in P},
   AnyRel |-> a.AnyRel \cup UNION {Out[p].AnyRel : p \in P}]

NewIn(b) == join(In[b], Preds(func, b))

NewOut(b) == transfer(b, NewIn(b))

updateInfo(b) ==
  /\ In' = [In EXCEPT ![b] = NewIn(b)]
  /\ Out' = [Out EXCEPT ![b] = NewOut(b)]

-----------------------------------------------------------------------------
\* suitableToAnlyze: the mops are not all in one block.
SuitableToAnalyze ==
  \E m, n \in MopList : Parent(func, m) # Parent(func, n)

AnalysisInit ==
  /\ In = [b \in Blocks(func) |-> Bottom]
  /\ Out = [b \in Blocks(func) |-> Bottom]
  /\ RPOT = IF SuitableToAnalyze THEN func.rpo ELSE <<>>
  /\ WorkList = {}
  /\ Analyzed = FALSE

\* The constructor has returned.
Constructed == Analyzed \/ ~SuitableToAnalyze

\* Mutant: the first pass leaves the successors off the work list.
VisitInRPO_NoPropagation ==
  /\ RPOT # <<>>
  /\ updateInfo(Head(RPOT))
  /\ RPOT' = Tail(RPOT)
  /\ UNCHANGED <<input_vars, WorkList, Analyzed>>

\* The first pass: its next block leaves the work list, its successors enter.
VisitInRPO ==
  /\ RPOT # <<>>
  /\ updateInfo(Head(RPOT))
  /\ RPOT' = Tail(RPOT)
  /\ WorkList' = (WorkList \ {Head(RPOT)}) \cup func.succs[Head(RPOT)]
  /\ UNCHANGED <<input_vars, Analyzed>>

\* Mutant: the loop does not propagate a change.
VisitFromWorkList_NoPropagation(b) ==
  /\ RPOT = <<>>
  /\ b \in WorkList
  /\ updateInfo(b)
  /\ WorkList' = WorkList \ {b}
  /\ UNCHANGED <<input_vars, RPOT, Analyzed>>

\* Mutant: the loop propagates even where nothing changed.
VisitFromWorkList_Always(b) ==
  /\ RPOT = <<>>
  /\ b \in WorkList
  /\ updateInfo(b)
  /\ WorkList' = (WorkList \ {b}) \cup func.succs[b]
  /\ UNCHANGED <<input_vars, RPOT, Analyzed>>

\* The work-list loop: successors enter only where the block's Out changed.
VisitFromWorkList(b) ==
  /\ RPOT = <<>>
  /\ b \in WorkList
  /\ updateInfo(b)
  /\ WorkList' = (WorkList \ {b}) \cup
                 (IF NewOut(b) = Out[b] THEN {} ELSE func.succs[b])
  /\ UNCHANGED <<input_vars, RPOT, Analyzed>>

FinishAnalysis ==
  /\ SuitableToAnalyze
  /\ ~Analyzed
  /\ RPOT = <<>>
  /\ WorkList = {}
  /\ Analyzed' = TRUE
  /\ UNCHANGED <<input_vars, info_vars, RPOT, WorkList>>

AnalysisNext ==
  \/ VisitInRPO
  \/ \E b \in Blocks(func) : VisitFromWorkList(b)
  \/ FinishAnalysis

-----------------------------------------------------------------------------
\* Mutant: acquires and releases are mixed up.
isActive_Swapped(m, info, Acq) ==
  /\ m \in info.Reachable
  /\ m \notin info.NotActive
  /\ UsedForTsan => m \notin (IF Acq THEN info.AnyRel ELSE info.AnyAcq)

\* Lattice::isActive: the mop reaches and no barrier came after it.
isActive(m, info, Acq) ==
  /\ m \in info.Reachable
  /\ m \notin info.NotActive
  /\ UsedForTsan => m \notin (IF Acq THEN info.AnyAcq ELSE info.AnyRel)

\* The barriers that matter to a query: calls, and for TSan the acquires or
\* the releases.
RelevantBarriers(Acq) ==
  Calls \cup (IF ~UsedForTsan THEN {} ELSE IF Acq THEN Acquires ELSE Releases)

isActiveInTheSameBlock(b, i, j, Acq) ==
  ~HasBarrier(b, i, j, RelevantBarriers(Acq))

\* The lifetime markers before getFirstNonPHIOrDbgOrLifetime.
OpeningMarkers(b) ==
  {i \in DOMAIN func.code[b] : \A k \in 1..i : func.code[b][k] \in Lifetimes}

\* From the first instruction that is no lifetime marker to that at j.
isActiveFromEntry(b, j, Acq) ==
  \A k \in (1..(j - 1)) \ OpeningMarkers(b) : func.code[b][k] \notin RelevantBarriers(Acq)

\* The answer to the query: no relevant barrier between From and To.
isOneMopActiveToAnother(From, To, IsToDead) ==
  LET FromBB == Parent(func, From)
      ToBB == Parent(func, To)
      Acq == ~IsToDead
      InTheBlock == isActiveInTheSameBlock(FromBB, Index(func, From),
                                           Index(func, To), Acq)
  IN  IF ~Analyzed
      THEN InTheBlock
      ELSE \/ isActive(From, Out[ToBB], Acq)
           \/ FromBB = ToBB /\ InTheBlock
           \/ /\ FromBB # ToBB
              /\ isActive(From, In[ToBB], Acq)
              /\ isActiveFromEntry(ToBB, Index(func, To), Acq)

-----------------------------------------------------------------------------
(***************************************************************************)
(* Properties.                                                             *)
(***************************************************************************)
AnalysisTypeOK ==
  /\ IsFunction(func)
  /\ UsedForTsan \in BOOLEAN
  /\ MopList \subseteq Insts(func)
  /\ In \in [Blocks(func) -> Lattice]
  /\ Out \in [Blocks(func) -> Lattice]
  /\ RPOT \in Seq(Blocks(func))
  /\ WorkList \subseteq Blocks(func)
  /\ Analyzed \in BOOLEAN

\* join with the one adds nothing to the other.
Below(a, c) ==
  /\ a.Reachable \subseteq c.Reachable
  /\ a.NotActive \subseteq c.NotActive
  /\ a.AnyAcq \subseteq c.AnyAcq
  /\ a.AnyRel \subseteq c.AnyRel

Awaited(b) == b \in WorkList \/ \E i \in DOMAIN RPOT : RPOT[i] = b

Settled(b) ==
  /\ \A p \in Preds(func, b) : Below(Out[p], In[b])
  /\ Out[b] = transfer(b, In[b])

\* A block that is neither on the work list nor awaited by the first pass solves
\* its two data-flow equations (ActiveMopAnalysis.cpp:383-392); when the analysis
\* ends, all blocks do.
AnalysisInv ==
  /\ AnalysisTypeOK
  /\ SuitableToAnalyze => \A b \in Blocks(func) : Awaited(b) \/ Settled(b)
  /\ Analyzed \/ ~SuitableToAnalyze => RPOT = <<>> /\ WorkList = {}
  /\ Analyzed => SuitableToAnalyze

================================================================================
