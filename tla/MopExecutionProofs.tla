--------------------------- MODULE MopExecutionProofs ---------------------------
(***************************************************************************)
(* For every set of functions: the work-list algorithm of the analysis     *)
(* keeps its fix-point invariant, and what it computes foresees every run  *)
(* of the function (AnalysisCorrect, AnalysisSound); the accesses kept lead*)
(* to all others (KeptSufficient); the queries say no exactly where a walk *)
(* passes a barrier (AnalysisExact); what a run leaves uncovered lies on a *)
(* cycle with a barrier (EscapesBounded); no step of the pass is idle      *)
(* (PassProgress).                                                         *)
(*                                                                         *)
(* The parts: the data-flow analysis; runs and what it foresees of them;   *)
(* the searches of fillDominatingSet; walks from instruction to            *)
(* instruction, and what dominance says of them; what the bits say of      *)
(* walks, in both directions (WitnessInv, ExactInv); runs again, as walks, *)
(* with the accesses that each kept check still leaves uncovered (Ghost).  *)
(* What a search reaches is in ControlFlowProofs.                          *)
(***************************************************************************)
EXTENDS MopExecution, ControlFlowProofs

-----------------------------------------------------------------------------
(***************************************************************************)
(* The lattice.                                                            *)
(***************************************************************************)
LEMMA TransferType ==
  ASSUME NEW b, NEW in \in Lattice
  PROVE  transfer(b, in) \in Lattice
  BY DEF transfer, TransferBits, Lattice, Gen, UseGen

LEMMA JoinType ==
  ASSUME Out \in [Blocks(func) -> Lattice], NEW a \in Lattice,
         NEW P \in SUBSET Blocks(func)
  PROVE  join(a, P) \in Lattice
  BY DEF join, Lattice

LEMMA JoinAbove ==
  ASSUME NEW a, NEW P, NEW p \in P
  PROVE  Below(Out[p], join(a, P))
  BY DEF join, Below

LEMMA UpdateTypes ==
  ASSUME AnalysisTypeOK, NEW b \in Blocks(func)
  PROVE  NewIn(b) \in Lattice /\ NewOut(b) \in Lattice
<1>1. Preds(func, b) \subseteq Blocks(func)
  BY DEF Preds
<1>2. NewIn(b) \in Lattice
  BY <1>1, JoinType DEF AnalysisTypeOK, NewIn
<1>. QED
  BY <1>2, TransferType DEF NewOut

-----------------------------------------------------------------------------
(***************************************************************************)
(* One update.                                                             *)
(***************************************************************************)
LEMMA UpdateEffect ==
  ASSUME AnalysisTypeOK, NEW b \in Blocks(func), updateInfo(b),
         UNCHANGED input_vars
  PROVE  /\ In' \in [Blocks(func) -> Lattice]
         /\ Out' \in [Blocks(func) -> Lattice]
         /\ In'[b] = NewIn(b)
         /\ Out'[b] = NewOut(b)
         /\ \A c \in Blocks(func) \ {b} : In'[c] = In[c] /\ Out'[c] = Out[c]
  BY UpdateTypes DEF AnalysisTypeOK, updateInfo

LEMMA OthersStaySettled ==
  ASSUME AnalysisTypeOK, NEW b \in Blocks(func), updateInfo(b),
         UNCHANGED input_vars,
         NEW c \in Blocks(func), c # b, Settled(c),
         c \in func.succs[b] => NewOut(b) = Out[b]
  PROVE  Settled(c)'
<1>1. /\ In'[c] = In[c] /\ Out'[c] = Out[c]
      /\ \A p \in Preds(func, c) : Out'[p] = Out[p]
  BY UpdateEffect DEF Preds
<1>2. transfer(c, In[c])' = transfer(c, In[c])
  BY <1>1 DEF transfer, TransferBits, Gen, UseGen, ContainsBarrier, HasBarrier,
              AfterLast, MopsIn, input_vars
<1>. QED
  BY <1>1, <1>2 DEF Settled, Below, Preds, Blocks, input_vars

LEMMA UpdatedIsSettled ==
  ASSUME AnalysisTypeOK, NEW b \in Blocks(func), updateInfo(b),
         UNCHANGED input_vars,
         b \in func.succs[b] => NewOut(b) = Out[b]
  PROVE  Settled(b)'
<1>1. /\ In'[b] = NewIn(b) /\ Out'[b] = NewOut(b)
      /\ \A p \in Preds(func, b) : Out'[p] = Out[p]
  BY UpdateEffect DEF Preds
<1>2. transfer(b, In[b])' = transfer(b, NewIn(b))
  BY <1>1 DEF transfer, TransferBits, Gen, UseGen, ContainsBarrier, HasBarrier,
              AfterLast, MopsIn, input_vars
<1>3. \A p \in Preds(func, b) : Below(Out[p], NewIn(b))
  BY JoinAbove DEF NewIn
<1>. QED
  BY <1>1, <1>2, <1>3 DEF Settled, Below, Preds, Blocks, NewOut, input_vars

-----------------------------------------------------------------------------
(***************************************************************************)
(* The analysis.                                                           *)
(***************************************************************************)
\* What the visit of a block asks of the two lists.
LEMMA VisitKeepsInv ==
  ASSUME AnalysisInv, ~Analyzed, SuitableToAnalyze, UNCHANGED <<input_vars, Analyzed>>,
         NEW b \in Blocks(func), updateInfo(b),
         RPOT' \in Seq(Blocks(func)), WorkList' \subseteq Blocks(func),
         \A c \in Blocks(func) : Awaited(c) /\ c # b => Awaited(c)',
         NewOut(b) = Out[b] \/ \A c \in func.succs[b] : Awaited(c)'
  PROVE  AnalysisInv'
<1>1. AnalysisTypeOK'
  BY UpdateEffect DEF AnalysisInv, AnalysisTypeOK, input_vars, Lattice
<1>2. ASSUME NEW c \in Blocks(func), ~Awaited(c)'
      PROVE  Settled(c)'
  <2>1. CASE c = b
    BY <1>2, <2>1, UpdatedIsSettled DEF AnalysisInv
  <2>2. CASE c # b
    <3>1. Settled(c)
      BY <1>2, <2>2 DEF AnalysisInv
    <3>2. c \in func.succs[b] => NewOut(b) = Out[b]
      BY <1>2
    <3>. QED
      BY <2>2, <3>1, <3>2, OthersStaySettled DEF AnalysisInv
  <2>. QED
    BY <2>1, <2>2
<1>3. SuitableToAnalyze'
  BY DEF SuitableToAnalyze, input_vars
<1>4. func' = func /\ ~Analyzed'
  BY DEF input_vars
<1>. QED
  BY <1>1, <1>2, <1>3, <1>4 DEF AnalysisInv

LEMMA InfoUnchanged ==
  ASSUME AnalysisInv, UNCHANGED <<input_vars, info_vars, RPOT, WorkList>>
  PROVE  /\ AnalysisTypeOK' <=> Analyzed' \in BOOLEAN
         /\ SuitableToAnalyze' <=> SuitableToAnalyze
         /\ \A b \in Blocks(func) :
              (Awaited(b)' <=> Awaited(b)) /\ (Settled(b)' <=> Settled(b))
<1>1. UNCHANGED <<func, UsedForTsan, MopList, In, Out, RPOT, WorkList>>
  BY DEF input_vars, info_vars
<1>2. AnalysisTypeOK' <=> Analyzed' \in BOOLEAN
  BY <1>1 DEF AnalysisInv, AnalysisTypeOK, Lattice
<1>3. SuitableToAnalyze' <=> SuitableToAnalyze
  BY <1>1 DEF SuitableToAnalyze
<1>4. ASSUME NEW b \in Blocks(func)
      PROVE  (Awaited(b)' <=> Awaited(b)) /\ (Settled(b)' <=> Settled(b))
  <2>1. transfer(b, In[b])' = transfer(b, In[b])
    BY <1>1 DEF transfer, TransferBits, Gen, UseGen, ContainsBarrier, HasBarrier,
                AfterLast
  <2>. QED
    BY <1>1, <2>1 DEF Awaited, Settled, Below
<1>. QED
  BY <1>2, <1>3, <1>4

LEMMA AnalysisStep ==
  ASSUME AnalysisInv, AnalysisNext
  PROVE  AnalysisInv'
<1>1. CASE VisitInRPO
  <2>. DEFINE b == Head(RPOT)
  <2>1. RPOT # <<>> /\ RPOT \in Seq(Blocks(func))
    BY <1>1 DEF VisitInRPO, AnalysisInv, AnalysisTypeOK
  <2>2. b \in Blocks(func) /\ Tail(RPOT) \in Seq(Blocks(func))
    BY <2>1
  <2>3. ~Analyzed /\ UNCHANGED <<input_vars, Analyzed>> /\ updateInfo(b)
    BY <1>1, <2>1 DEF VisitInRPO, AnalysisInv
  <2>4. SuitableToAnalyze
    BY <2>1 DEF AnalysisInv
  <2>5. func.succs[b] \subseteq Blocks(func)
    BY <2>2 DEF AnalysisInv, AnalysisTypeOK, IsFunction, Blocks
  <2>6. WorkList' \subseteq Blocks(func)
    BY <1>1, <2>5 DEF VisitInRPO, AnalysisInv, AnalysisTypeOK
  <2>7. ASSUME NEW c \in Blocks(func), Awaited(c), c # b
        PROVE  Awaited(c)'
    <3>1. CASE c \in WorkList
      BY <1>1, <3>1, <2>7 DEF VisitInRPO, Awaited
    <3>2. ASSUME NEW i \in DOMAIN RPOT, RPOT[i] = c
          PROVE  Awaited(c)'
      <4>1. i \in 2..Len(RPOT)
        BY <2>1, <2>7, <3>2
      <4>2. i - 1 \in DOMAIN Tail(RPOT) /\ Tail(RPOT)[i - 1] = c
        BY <2>1, <3>2, <4>1
      <4>. QED
        BY <1>1, <4>2 DEF VisitInRPO, Awaited
    <3>. QED
      BY <2>7, <3>1, <3>2 DEF Awaited
  <2>8. \A c \in func.succs[b] : Awaited(c)'
    BY <1>1 DEF VisitInRPO, Awaited
  <2>9. RPOT' \in Seq(Blocks(func))
    BY <1>1, <2>2 DEF VisitInRPO
  <2>. HIDE DEF b
  <2>. QED
    BY <2>2, <2>3, <2>4, <2>6, <2>7, <2>8, <2>9, VisitKeepsInv
<1>2. ASSUME NEW b \in Blocks(func), VisitFromWorkList(b)
      PROVE  AnalysisInv'
  <2>1. ~Analyzed /\ UNCHANGED <<input_vars, Analyzed>> /\ updateInfo(b)
    BY <1>2 DEF VisitFromWorkList, AnalysisInv
  <2>2. SuitableToAnalyze
    BY <1>2 DEF AnalysisInv, VisitFromWorkList
  <2>3. func.succs[b] \subseteq Blocks(func)
    BY DEF AnalysisInv, AnalysisTypeOK, IsFunction, Blocks
  <2>4. WorkList' \subseteq Blocks(func) /\ RPOT' \in Seq(Blocks(func))
    BY <1>2, <2>3 DEF VisitFromWorkList, AnalysisInv, AnalysisTypeOK
  <2>5. \A c \in Blocks(func) : Awaited(c) /\ c # b => Awaited(c)'
    BY <1>2 DEF VisitFromWorkList, Awaited
  <2>6. NewOut(b) = Out[b] \/ \A c \in func.succs[b] : Awaited(c)'
    BY <1>2 DEF VisitFromWorkList, Awaited
  <2>. QED
    BY <2>1, <2>2, <2>4, <2>5, <2>6, VisitKeepsInv
<1>3. CASE FinishAnalysis
  <2>1. func' = func
    BY <1>3 DEF FinishAnalysis, input_vars
  <2>. QED
    BY <1>3, <2>1, InfoUnchanged DEF FinishAnalysis, AnalysisInv
<1>. QED
  BY <1>1, <1>2, <1>3 DEF AnalysisNext

LEMMA AnalysisStutter ==
  ASSUME AnalysisInv, UNCHANGED analysis_vars
  PROVE  AnalysisInv'
<1>1. func' = func /\ Analyzed' = Analyzed
  BY DEF analysis_vars, input_vars
<1>2. UNCHANGED <<input_vars, info_vars, RPOT, WorkList>>
  BY DEF analysis_vars
<1>3. Analyzed' \in BOOLEAN
  BY <1>1 DEF AnalysisInv, AnalysisTypeOK
<1>. QED
  BY <1>1, <1>2, <1>3, InfoUnchanged DEF AnalysisInv, analysis_vars

LEMMA InitEstablishes == Init => AnalysisInv
<1>. SUFFICES ASSUME Init PROVE AnalysisInv
  OBVIOUS
<1>1. IsFunction(func)
  BY MopFunctionAssumption DEF Init
<1>2. MopList \subseteq Insts(func)
  BY DEF Init, Candidates, RecurringEdges, Edge
<1>3. Bottom \in Lattice
  BY DEF Bottom, Lattice
<1>4. RPOT \in Seq(Blocks(func)) /\ WorkList = {} /\ Analyzed = FALSE
  BY <1>1 DEF Init, AnalysisInit, IsFunction
<1>5. AnalysisTypeOK
  BY <1>1, <1>2, <1>3, <1>4 DEF AnalysisTypeOK, Init, AnalysisInit
<1>6. ASSUME SuitableToAnalyze, NEW b \in Blocks(func)
      PROVE  Awaited(b)
  BY <1>1, <1>6 DEF Init, AnalysisInit, Awaited, IsFunction
<1>. QED
  BY <1>4, <1>5, <1>6 DEF AnalysisInv, Init, AnalysisInit

LEMMA NextKeepsAnalysis ==
  ASSUME AnalysisInv, [Next]_vars
  PROVE  AnalysisInv'
<1>1. CASE AnalysisNext
  BY <1>1, AnalysisStep
<1>2. CASE UNCHANGED analysis_vars
  BY <1>2, AnalysisStutter
<1>3. AnalysisNext \/ UNCHANGED analysis_vars
  BY DEF Next, DistillNext, Analyze, BlockEdges, FillRoots, FillCycle, Distilled,
     Execute, Access, PassBarrier, Branch, Return, vars
<1>. QED
  BY <1>1, <1>2, <1>3

\* At every step of the work-list algorithm, for every set of functions, a block
\* that is not awaiting a visit solves its data-flow equations; all do at the end.
THEOREM AnalysisCorrect == Spec => []AnalysisInv
<1>1. ExecutionInit => AnalysisInv
  BY InitEstablishes DEF ExecutionInit
<1>2. AnalysisInv /\ [Next]_vars => AnalysisInv'
  BY NextKeepsAnalysis
<1>. QED
  BY <1>1, <1>2, PTL DEF Spec

-----------------------------------------------------------------------------
(***************************************************************************)
(* A run of the function.  In the middle of a block, what the run has seen *)
(* of an access comes either from before the block, then IN foresees it or *)
(* the block itself has had the barrier, or from the block.                *)
(***************************************************************************)
Before(m, b, i) == \E j \in 1..(i - 1) : func.code[b][j] = m

Foreseen(m, b, i, barriers, bits) ==
  since[m] \cap barriers # {} =>
    IF Before(m, b, i)
    THEN \E j \in 1..(i - 1) : func.code[b][j] = m /\ HasBarrier(b, j, i, barriers)
    ELSE m \in bits \/ HasBarrier(b, 1, i, barriers)

AtPoint == /\ at[1] \in Blocks(func)
           /\ at[2] \in 1..AfterLast(at[1])

RunForeseen ==
  \A m \in DOMAIN since \cap MopList :
    LET b == at[1]
        i == at[2]
    IN  /\ m \in In[b].Reachable \/ Before(m, b, i)
        /\ Foreseen(m, b, i, Calls, In[b].NotActive)
        /\ UsedForTsan => Foreseen(m, b, i, Acquires, In[b].AnyAcq)
        /\ UsedForTsan => Foreseen(m, b, i, Releases, In[b].AnyRel)

ExecutionInv ==
  /\ stage # "distilled" => since = [m \in {} |-> {}]
  /\ stage \notin {"analysis"} => Constructed
  /\ DOMAIN since \subseteq Mops
  /\ at # <<>> => AtPoint
  /\ Analyzed /\ at # <<>> => RunForeseen

\* What is foreseen at the end of a block is in the bits that leave it.
LEMMA ForeseenLeaves ==
  ASSUME IsFunction(func), NEW b \in Blocks(func), NEW m \in MopList, m \in Mops,
         NEW barriers, NEW reachable, NEW bits,
         m \in reachable \/ Before(m, b, AfterLast(b)),
         Foreseen(m, b, AfterLast(b), barriers, bits),
         since[m] \cap barriers # {}
  PROVE  m \in TransferBits(b, barriers, reachable, bits)
<1>1. func.code[b] \in Seq(Mops \cup Barriers)
  BY DEF IsFunction
<1>2. Len(func.code[b]) \in Nat /\ DOMAIN func.code[b] = 1..Len(func.code[b])
  BY <1>1
<1>3. CASE Before(m, b, AfterLast(b))
  <2>1. PICK j \in 1..(AfterLast(b) - 1) :
          func.code[b][j] = m /\ HasBarrier(b, j, AfterLast(b), barriers)
    BY <1>3 DEF Foreseen
  <2>2. j \in DOMAIN func.code[b]
    BY <1>2 DEF AfterLast
  <2>3. m \in UseGen(b)
    BY <2>1, <2>2 DEF UseGen, MopsIn
  <2>. QED
    BY <2>1, <2>2, <2>3 DEF TransferBits, Gen
<1>4. CASE ~Before(m, b, AfterLast(b))
  <2>1. m \notin UseGen(b)
    BY <1>2, <1>4 DEF UseGen, MopsIn, Before, AfterLast
  <2>2. m \in bits \/ ContainsBarrier(b, barriers)
    BY <1>4 DEF Foreseen, ContainsBarrier
  <2>. QED
    BY <1>4, <2>1, <2>2 DEF TransferBits
<1>. QED
  BY <1>3, <1>4

LEMMA BranchStep ==
  ASSUME AnalysisInv, ExecutionInv, NEW c \in Blocks(func), Branch(c)
  PROVE  ExecutionInv'
<1>1. UNCHANGED <<analysis_vars, stage, since>>
  BY DEF Branch, recurrence_vars
<1>2. UNCHANGED <<func, UsedForTsan, MopList, In, Out, Analyzed>>
  BY <1>1 DEF analysis_vars, input_vars, info_vars
<1>3. at # <<>> /\ at[2] = AfterLast(at[1]) /\ c \in func.succs[at[1]] /\ at' = <<c, 1>>
  BY DEF Branch
<1>. DEFINE b == at[1]
<1>4. b \in Blocks(func)
  BY <1>3 DEF ExecutionInv, AtPoint
<1>5. IsFunction(func)
  BY DEF AnalysisInv, AnalysisTypeOK
<1>6. Len(func.code[c]) \in Nat
  BY <1>5 DEF IsFunction
<1>7. AtPoint'
  BY <1>2, <1>3, <1>6 DEF AtPoint, AfterLast
<1>8. ASSUME Analyzed
      PROVE  RunForeseen'
  <2>1. RunForeseen
    BY <1>3, <1>8 DEF ExecutionInv
  <2>2. Below(Out[b], In[c]) /\ Out[b] = transfer(b, In[b])
    <3>1. \A d \in Blocks(func) : Settled(d)
      BY <1>8 DEF AnalysisInv, Awaited
    <3>. QED
      BY <1>3, <1>4, <3>1 DEF Settled, Preds
  <2>3. ASSUME NEW m \in DOMAIN since \cap MopList
        PROVE  /\ m \in In[c].Reachable
               /\ since[m] \cap Calls # {} => m \in In[c].NotActive
               /\ UsedForTsan /\ since[m] \cap Acquires # {} => m \in In[c].AnyAcq
               /\ UsedForTsan /\ since[m] \cap Releases # {} => m \in In[c].AnyRel
    <3>1. m \in Mops /\ m \in MopList
      BY DEF ExecutionInv
    <3>2. /\ m \in In[b].Reachable \/ Before(m, b, AfterLast(b))
          /\ Foreseen(m, b, AfterLast(b), Calls, In[b].NotActive)
          /\ UsedForTsan => Foreseen(m, b, AfterLast(b), Acquires, In[b].AnyAcq)
          /\ UsedForTsan => Foreseen(m, b, AfterLast(b), Releases, In[b].AnyRel)
      BY <1>3, <2>1 DEF RunForeseen
    <3>3. m \in Out[b].Reachable
      <4>1. CASE Before(m, b, AfterLast(b))
        <5>1. PICK j \in 1..Len(func.code[b]) : func.code[b][j] = m
          <6>1. func.code[b] \in Seq(Mops \cup Barriers)
            BY <1>4, <1>5 DEF IsFunction
          <6>2. Len(func.code[b]) \in Nat
            BY <6>1
          <6>. QED
            BY <4>1, <6>2 DEF Before, AfterLast
        <5>2. j \in DOMAIN func.code[b]
          BY <1>4, <1>5, <5>1 DEF IsFunction
        <5>. QED
          BY <2>2, <3>1, <5>1, <5>2 DEF transfer, UseGen, MopsIn
      <4>. QED
        BY <2>2, <3>2, <4>1 DEF transfer
    <3>4. since[m] \cap Calls # {} => m \in Out[b].NotActive
      BY <1>4, <1>5, <2>2, <3>1, <3>2, ForeseenLeaves DEF transfer
    <3>5. UsedForTsan /\ since[m] \cap Acquires # {} => m \in Out[b].AnyAcq
      BY <1>4, <1>5, <2>2, <3>1, <3>2, ForeseenLeaves DEF transfer
    <3>6. UsedForTsan /\ since[m] \cap Releases # {} => m \in Out[b].AnyRel
      BY <1>4, <1>5, <2>2, <3>1, <3>2, ForeseenLeaves DEF transfer
    <3>. QED
      BY <2>2, <3>3, <3>4, <3>5, <3>6 DEF Below
  <2>4. at'[1] = c /\ at'[2] = 1
    BY <1>3
  <2>5. \A m : ~Before(m, c, 1)'
    BY DEF Before
  <2>. QED
    BY <1>1, <1>2, <2>3, <2>4, <2>5 DEF RunForeseen, Foreseen
<1>9. Constructed' <=> Constructed
  BY <1>2 DEF Constructed, SuitableToAnalyze
<1>. QED
  BY <1>1, <1>2, <1>7, <1>8, <1>9 DEF ExecutionInv

\* The next instruction of the block: what was foreseen of an access that it is
\* not stays so, and where it is a barrier that is foreseen as well.
LEMMA ForeseenAdvances ==
  ASSUME IsFunction(func), NEW b \in Blocks(func), NEW i \in 1..Len(func.code[b]),
         NEW m, m # func.code[b][i], func' = func,
         NEW barriers, NEW bits,
         Foreseen(m, b, i, barriers, bits),
         \/ since'[m] = since[m]
         \/ since'[m] = since[m] \cup {func.code[b][i]}
  PROVE  /\ (\E j \in 1..i : func.code[b][j] = m) <=> Before(m, b, i)
         /\ since'[m] \cap barriers # {} =>
              IF Before(m, b, i)
              THEN \E j \in 1..i : func.code[b][j] = m
                                   /\ HasBarrier(b, j, i + 1, barriers)
              ELSE m \in bits \/ HasBarrier(b, 1, i + 1, barriers)
<1>1. i \in Nat /\ i >= 1
  BY DEF IsFunction
<1>2. (\E j \in 1..i : func.code[b][j] = m) <=> Before(m, b, i)
  BY <1>1 DEF Before
<1>3. ASSUME since[m] \cap barriers # {}
      PROVE  IF Before(m, b, i)
             THEN \E j \in 1..i : func.code[b][j] = m
                                  /\ HasBarrier(b, j, i + 1, barriers)
             ELSE m \in bits \/ HasBarrier(b, 1, i + 1, barriers)
  <2>1. \A j \in 1..i : HasBarrier(b, j, i, barriers) => HasBarrier(b, j, i + 1, barriers)
    BY <1>1 DEF HasBarrier
  <2>. QED
    BY <1>1, <1>3, <2>1 DEF Foreseen
<1>4. ASSUME func.code[b][i] \in barriers
      PROVE  IF Before(m, b, i)
             THEN \E j \in 1..i : func.code[b][j] = m
                                  /\ HasBarrier(b, j, i + 1, barriers)
             ELSE m \in bits \/ HasBarrier(b, 1, i + 1, barriers)
  <2>1. \A j \in 1..i : HasBarrier(b, j, i + 1, barriers)
    BY <1>1, <1>4 DEF HasBarrier
  <2>. QED
    BY <1>1, <2>1 DEF Before
<1>. QED
  BY <1>2, <1>3, <1>4

\* An instruction of the block that is not its terminator.
LEMMA InstructionStep ==
  ASSUME AnalysisInv, ExecutionInv, AtInstruction, Advance,
         UNCHANGED <<analysis_vars, recurrence_vars>>,
         DOMAIN since' \subseteq Mops,
         \A m \in DOMAIN since' :
           \/ m = Instruction /\ since'[m] = {}
           \/ /\ m # Instruction
              /\ m \in DOMAIN since
              /\ \/ since'[m] = since[m]
                 \/ since'[m] = since[m] \cup {Instruction}
  PROVE  ExecutionInv'
<1>1. UNCHANGED <<func, UsedForTsan, MopList, In, Out, Analyzed, stage>>
  BY DEF analysis_vars, input_vars, info_vars, recurrence_vars
<1>. DEFINE b == at[1]
            i == at[2]
<1>2. at # <<>> /\ stage = "distilled" /\ at' = <<b, i + 1>>
  BY DEF AtInstruction, Advance
<1>3. IsFunction(func)
  BY DEF AnalysisInv, AnalysisTypeOK
<1>4. b \in Blocks(func) /\ i \in 1..Len(func.code[b])
  <2>1. b \in Blocks(func) /\ i \in 1..AfterLast(b)
    BY <1>2 DEF ExecutionInv, AtPoint
  <2>2. Len(func.code[b]) \in Nat
    BY <1>3, <2>1 DEF IsFunction
  <2>3. i <= Len(func.code[b])
    BY DEF AtInstruction
  <2>. QED
    BY <2>1, <2>2, <2>3 DEF AfterLast
<1>5. Len(func.code[b]) \in Nat /\ i \in Nat
  <2>1. Len(func.code[b]) \in Nat
    BY <1>3, <1>4 DEF IsFunction
  <2>. QED
    BY <1>4, <2>1
<1>6. at' # <<>> /\ at'[1] = b /\ at'[2] = i + 1
  BY <1>2
<1>7. AtPoint'
  BY <1>1, <1>4, <1>5, <1>6 DEF AtPoint, AfterLast
<1>8. ASSUME Analyzed
      PROVE  RunForeseen'
  <2>1. RunForeseen
    BY <1>2, <1>8 DEF ExecutionInv
  <2>. DEFINE Foresees(m, barriers, bits) ==
                since'[m] \cap barriers # {} =>
                  IF \E j \in 1..i : func.code[b][j] = m
                  THEN \E j \in 1..i : func.code[b][j] = m
                                       /\ HasBarrier(b, j, i + 1, barriers)
                  ELSE m \in bits \/ HasBarrier(b, 1, i + 1, barriers)
  <2>2. ASSUME NEW m \in DOMAIN since' \cap MopList
        PROVE  /\ m \in In[b].Reachable \/ \E j \in 1..i : func.code[b][j] = m
               /\ Foresees(m, Calls, In[b].NotActive)
               /\ UsedForTsan => Foresees(m, Acquires, In[b].AnyAcq)
               /\ UsedForTsan => Foresees(m, Releases, In[b].AnyRel)
    <3>1. CASE m = Instruction /\ since'[m] = {}
      <4>1. i \in 1..i /\ func.code[b][i] = m
        BY <1>4, <1>5, <3>1 DEF Instruction
      <4>. QED
        BY <3>1, <4>1
    <3>2. CASE /\ m # Instruction
               /\ m \in DOMAIN since
               /\ \/ since'[m] = since[m]
                  \/ since'[m] = since[m] \cup {Instruction}
      <4>1. /\ m # func.code[b][i]
            /\ \/ since'[m] = since[m]
               \/ since'[m] = since[m] \cup {func.code[b][i]}
        BY <3>2 DEF Instruction
      <4>2. /\ m \in In[b].Reachable \/ Before(m, b, i)
            /\ Foreseen(m, b, i, Calls, In[b].NotActive)
            /\ UsedForTsan => Foreseen(m, b, i, Acquires, In[b].AnyAcq)
            /\ UsedForTsan => Foreseen(m, b, i, Releases, In[b].AnyRel)
        BY <2>1, <3>2 DEF RunForeseen
      <4>3. func' = func
        BY <1>1
      <4>4. ASSUME NEW barriers, NEW bits, Foreseen(m, b, i, barriers, bits)
            PROVE  Foresees(m, barriers, bits)
        <5>. HIDE DEF b, i
        <5>. QED
          BY <1>3, <1>4, <4>1, <4>3, <4>4, ForeseenAdvances
      <4>5. /\ Foresees(m, Calls, In[b].NotActive)
            /\ UsedForTsan => Foresees(m, Acquires, In[b].AnyAcq)
            /\ UsedForTsan => Foresees(m, Releases, In[b].AnyRel)
        <5>. HIDE DEF Foresees
        <5>. QED
          BY <4>2, <4>4
      <4>6. Before(m, b, i) => \E j \in 1..i : func.code[b][j] = m
        BY <1>5 DEF Before
      <4>. QED
        BY <4>2, <4>5, <4>6
    <3>. QED
      BY <3>1, <3>2
  <2>3. (i + 1) - 1 = i
    BY <1>5
  <2>. QED
    BY <1>1, <1>6, <2>2, <2>3 DEF RunForeseen, Foreseen, Before, HasBarrier
<1>9. Constructed' <=> Constructed
  BY <1>1 DEF Constructed, SuitableToAnalyze
<1>. QED
  BY <1>1, <1>2, <1>7, <1>8, <1>9 DEF ExecutionInv

LEMMA ExecuteStep ==
  ASSUME AnalysisInv, ExecutionInv, Execute
  PROVE  ExecutionInv'
<1>1. ASSUME NEW m \in Mops, Access(m)
      PROVE  ExecutionInv'
  <2>1. /\ AtInstruction /\ Instruction = m /\ Advance
        /\ UNCHANGED <<analysis_vars, recurrence_vars>>
        /\ since' = [n \in DOMAIN since \cup {m} |-> IF n = m THEN {} ELSE since[n]]
    BY <1>1 DEF Access
  <2>2. DOMAIN since' \subseteq Mops
    BY <2>1 DEF ExecutionInv
  <2>3. \A n \in DOMAIN since' :
          \/ n = Instruction /\ since'[n] = {}
          \/ n # Instruction /\ n \in DOMAIN since /\ since'[n] = since[n]
    BY <2>1
  <2>. QED
    BY <2>1, <2>2, <2>3, InstructionStep
<1>2. CASE PassBarrier
  <2>1. /\ AtInstruction /\ Instruction \in Barriers /\ Advance
        /\ UNCHANGED <<analysis_vars, recurrence_vars>>
        /\ since' = [n \in DOMAIN since |-> since[n] \cup {Instruction}]
    BY <1>2 DEF PassBarrier
  <2>2. DOMAIN since' \subseteq Mops
    BY <2>1 DEF ExecutionInv
  <2>3. \A n \in DOMAIN since' :
          /\ n # Instruction
          /\ n \in DOMAIN since
          /\ since'[n] = since[n] \cup {Instruction}
    BY <2>1, <2>2, MopFunctionAssumption
  <2>. QED
    BY <2>1, <2>2, <2>3, InstructionStep
<1>3. ASSUME NEW c \in Blocks(func), Branch(c)
      PROVE  ExecutionInv'
  BY <1>3, BranchStep
<1>4. CASE Return
  <2>1. /\ stage = "distilled" /\ stage' = stage /\ since' = since /\ at' = <<>>
        /\ UNCHANGED <<func, MopList, Analyzed>>
    BY <1>4 DEF Return, analysis_vars, input_vars, recurrence_vars
  <2>2. Constructed' <=> Constructed
    BY <2>1 DEF Constructed, SuitableToAnalyze
  <2>. QED
    BY <2>1, <2>2 DEF ExecutionInv
<1>. QED
  BY <1>1, <1>2, <1>3, <1>4 DEF Execute

LEMMA DistillStep ==
  ASSUME AnalysisInv, ExecutionInv, DistillNext, UNCHANGED execution_vars
  PROVE  ExecutionInv'
<1>1. at' = at /\ since' = since
  BY DEF execution_vars
<1>2. CASE Analyze
  <2>1. ~Constructed
    BY <1>2 DEF Analyze, AnalysisNext, VisitInRPO, VisitFromWorkList, FinishAnalysis,
       AnalysisInv, Constructed
  <2>2. stage = "analysis" /\ stage' = stage /\ since = [m \in {} |-> {}]
    BY <1>2, <2>1 DEF Analyze, ExecutionInv, recurrence_vars
  <2>3. UNCHANGED input_vars
    BY <1>2 DEF Analyze, AnalysisNext, VisitInRPO, VisitFromWorkList, FinishAnalysis
  <2>4. AtPoint' <=> AtPoint
    BY <1>1, <2>3 DEF AtPoint, AfterLast, input_vars
  <2>5. RunForeseen'
    BY <1>1, <2>2 DEF RunForeseen
  <2>. QED
    BY <1>1, <2>2, <2>4, <2>5 DEF ExecutionInv
<1>3. CASE ~Analyze
  <2>1. UNCHANGED analysis_vars /\ Constructed
    BY <1>3 DEF DistillNext, BlockEdges, FillRoots, FillCycle, Distilled, ExecutionInv
  <2>2. UNCHANGED <<func, UsedForTsan, MopList, In, Analyzed>>
    BY <2>1 DEF analysis_vars, input_vars, info_vars
  <2>3. Constructed'
    BY <2>1, <2>2 DEF Constructed, SuitableToAnalyze
  <2>4. stage # "distilled"
    BY <1>3 DEF DistillNext, BlockEdges, FillRoots, FillCycle, Distilled
  <2>5. (AtPoint' <=> AtPoint) /\ (RunForeseen' <=> RunForeseen)
    BY <1>1, <2>2 DEF AtPoint, AfterLast, RunForeseen, Foreseen, Before, HasBarrier
  <2>. QED
    BY <1>1, <2>2, <2>3, <2>4, <2>5 DEF ExecutionInv
<1>. QED
  BY <1>2, <1>3

LEMMA InitEstablishesExecution == ExecutionInit => ExecutionInv
<1>. SUFFICES ASSUME ExecutionInit PROVE ExecutionInv
  OBVIOUS
<1>1. IsFunction(func)
  BY InitEstablishes DEF ExecutionInit, AnalysisInv, AnalysisTypeOK
<1>2. AtPoint
  <2>1. Len(func.code[func.entry]) \in Nat
    BY <1>1 DEF IsFunction
  <2>. QED
    BY <1>1, <2>1 DEF ExecutionInit, AtPoint, AfterLast, IsFunction
<1>. QED
  BY <1>2 DEF ExecutionInit, Init, ExecutionInv, AnalysisInit

LEMMA NextKeepsExecution ==
  ASSUME AnalysisInv, ExecutionInv, [Next]_vars
  PROVE  ExecutionInv'
<1>1. CASE Execute
  BY <1>1, ExecuteStep
<1>2. CASE DistillNext /\ UNCHANGED execution_vars
  BY <1>2, DistillStep
<1>3. CASE UNCHANGED vars
  <2>1. UNCHANGED <<func, UsedForTsan, MopList, In, Analyzed, stage, at, since>>
    BY <1>3 DEF vars, analysis_vars, input_vars, info_vars, recurrence_vars, execution_vars
  <2>2. Constructed' <=> Constructed
    BY <2>1 DEF Constructed, SuitableToAnalyze
  <2>3. (AtPoint' <=> AtPoint) /\ (RunForeseen' <=> RunForeseen)
    BY <2>1 DEF AtPoint, AfterLast, RunForeseen, Foreseen, Before, HasBarrier
  <2>. QED
    BY <2>1, <2>2, <2>3 DEF ExecutionInv
<1>. QED
  BY <1>1, <1>2, <1>3 DEF Next

LEMMA ForeseenIsSound == ExecutionInv => AnalysisIsSound
<1>. SUFFICES ASSUME ExecutionInv, Analyzed, at # <<>>, at[2] = 1,
                     NEW m \in DOMAIN since \cap MopList
              PROVE  LET in == In[at[1]]
                     IN  /\ m \in in.Reachable
                         /\ since[m] \cap Calls # {} => m \in in.NotActive
                         /\ UsedForTsan /\ since[m] \cap Acquires # {} => m \in in.AnyAcq
                         /\ UsedForTsan /\ since[m] \cap Releases # {} => m \in in.AnyRel
  BY DEF AnalysisIsSound
<1>1. RunForeseen
  BY DEF ExecutionInv
<1>2. ~Before(m, at[1], 1) /\ \A barriers : ~HasBarrier(at[1], 1, 1, barriers)
  BY DEF Before, HasBarrier
<1>. QED
  BY <1>1, <1>2 DEF RunForeseen, Foreseen

\* Whenever the distilled function enters a block, what it has seen of each tracked
\* access - executed, and which barriers since - is what the analysis says of
\* the block's entry, for every set of functions.
THEOREM AnalysisSound == Spec => []AnalysisIsSound
<1>1. ExecutionInit => AnalysisInv /\ ExecutionInv
  BY InitEstablishes, InitEstablishesExecution DEF ExecutionInit
<1>2. AnalysisInv /\ ExecutionInv /\ [Next]_vars => (AnalysisInv /\ ExecutionInv)'
  BY NextKeepsAnalysis, NextKeepsExecution
<1>3. AnalysisInv /\ ExecutionInv => AnalysisIsSound
  BY ForeseenIsSound
<1>. QED
  BY <1>1, <1>2, <1>3, PTL DEF Spec

-----------------------------------------------------------------------------
(***************************************************************************)
(* Functions are finite.                                                   *)
(***************************************************************************)
LEMMA BlocksAreFinite ==
  ASSUME NEW f, IsFunction(f)
  PROVE  IsFiniteSet(Blocks(f)) /\ IsGraph(f.succs)
<1>. DEFINE order == f.rpo
<1>0. /\ order \in Seq(Blocks(f))
      /\ \A b \in Blocks(f) : \E i \in 1..Len(order) : order[i] = b
  BY DEF IsFunction
<1>. HIDE DEF order
<1>1. IsFiniteSet({order[i] : i \in DOMAIN order})
  BY <1>0, FiniteRange
<1>2. Blocks(f) \subseteq {order[i] : i \in DOMAIN order}
  BY <1>0
<1>3. IsFiniteSet(Blocks(f))
  BY <1>1, <1>2, FS_Subset
<1>. QED
  BY <1>3 DEF IsGraph, IsFunction, Blocks

LEMMA InstsAreFinite ==
  ASSUME NEW f, IsFunction(f)
  PROVE  IsFiniteSet(Insts(f))
<1>. DEFINE in == [b \in Blocks(f) |-> MopsIn(f, b)]
            all == {in[b] : b \in Blocks(f)}
<1>1. ASSUME NEW b \in Blocks(f) PROVE IsFiniteSet(MopsIn(f, b))
  <2>1. f.code[b] \in Seq(Mops \cup Barriers)
    BY DEF IsFunction
  <2>2. IsFiniteSet({f.code[b][i] : i \in DOMAIN f.code[b]})
    BY <2>1, FiniteRange
  <2>. QED
    BY <2>2, FS_Intersection DEF MopsIn
<1>2. IsFiniteSet(all)
  BY BlocksAreFinite, FiniteImage
<1>3. \A T \in all : IsFiniteSet(T)
  BY <1>1
<1>4. Insts(f) = UNION all
  BY DEF Insts
<1>. HIDE DEF all
<1>. QED
  BY <1>2, <1>3, <1>4, FS_UNION

-----------------------------------------------------------------------------
(***************************************************************************)
(* What the graph of recurring checks reaches.                             *)
(***************************************************************************)
EdgesInv ==
  /\ IsFunction(func)
  /\ MopList \subseteq Insts(func)
  /\ \A e \in Edges : e.Killing \in MopList /\ e.Dead \in MopList

\* No set of accesses that holds the kept ones and is closed along the open edges
\* misses one that the depth-first searches have visited.
Leads(S) == DomSet \subseteq S /\ \A k \in S \cap MopList : Children[k] \subseteq S

KeptInv ==
  /\ EdgesInv
  /\ stage \in {"dominating", "distilled"} =>
       /\ DomSet \subseteq Insts(func)
       /\ Insts(func) \ MopList \subseteq DomSet
       /\ \A S \in SUBSET Insts(func) : Leads(S) => Visited \subseteq S
  /\ stage = "distilled" => MopList \subseteq Visited

LEMMA ChildrenGraph ==
  ASSUME EdgesInv
  PROVE  IsGraph(Children) /\ DOMAIN Children = MopList
<1>1. IsFiniteSet(MopList)
  BY InstsAreFinite, FS_Subset DEF EdgesInv
<1>2. \A k \in MopList : Children[k] \subseteq MopList
  BY DEF Children, Open, EdgesInv
<1>. QED
  BY <1>1, <1>2 DEF IsGraph, Children

LEMMA SearchStaysIn ==
  ASSUME EdgesInv, NEW S \in SUBSET Insts(func),
         \A k \in S \cap MopList : Children[k] \subseteq S,
         NEW start, start \subseteq S \cap MopList
  PROVE  Reach(Children, start) \subseteq S
<1>1. Closed(Children, S \cap MopList)
  BY ChildrenGraph DEF Closed, IsGraph
<1>2. Reach(Children, start) \subseteq S \cap MopList
  BY <1>1, ReachLeast, ChildrenGraph DEF IsGraph
<1>. QED
  BY <1>2

LEMMA EdgesStep ==
  ASSUME EdgesInv, [Next]_vars
  PROVE  EdgesInv' /\ UNCHANGED <<func, MopList, UsedForTsan>>
<1>1. UNCHANGED input_vars
  BY DEF Next, DistillNext, Analyze, AnalysisNext, VisitInRPO, VisitFromWorkList,
     FinishAnalysis, BlockEdges, FillRoots, FillCycle, Distilled, Execute, Access,
     PassBarrier, Branch, Return, vars, analysis_vars
<1>2. UNCHANGED Edges \/ BlockEdges
  BY DEF Next, DistillNext, Analyze, FillRoots, FillCycle, Distilled, Execute, Access,
     PassBarrier, Branch, Return, vars, recurrence_vars
<1>3. \A e \in Edges' : e.Killing \in MopList /\ e.Dead \in MopList
  <2>1. CASE BlockEdges
    <3>. SUFFICES ASSUME NEW e \in Edges'
                  PROVE  e.Killing \in MopList /\ e.Dead \in MopList
      OBVIOUS
    <3>1. PICK d \in Edges :
            e = [d EXCEPT !.Blocked = ~isOneMopActiveToAnother(d.From, To(d), IsToDead(d))]
      BY <2>1 DEF BlockEdges
    <3>2. e.Killing = d.Killing /\ e.Dead = d.Dead
      BY <3>1
    <3>. QED
      BY <3>2 DEF EdgesInv
  <2>. QED
    BY <1>2, <2>1 DEF EdgesInv
<1>. QED
  BY <1>1, <1>3 DEF EdgesInv, input_vars

LEMMA InitKept == ExecutionInit => KeptInv
<1>. SUFFICES ASSUME ExecutionInit PROVE KeptInv
  OBVIOUS
<1>1. IsFunction(func) /\ MopList \subseteq Insts(func)
  BY InitEstablishes DEF ExecutionInit, AnalysisInv, AnalysisTypeOK
<1>2. \A e \in Edges : e.Killing \in MopList /\ e.Dead \in MopList
  BY DEF ExecutionInit, Init, Candidates
<1>. QED
  BY <1>1, <1>2 DEF KeptInv, EdgesInv, ExecutionInit, Init

LEMMA FillRootsKeeps ==
  ASSUME KeptInv, FillRoots
  PROVE  KeptInv'
<1>1. EdgesInv' /\ UNCHANGED <<func, MopList>>
  BY EdgesStep DEF KeptInv, Next, DistillNext, FillRoots, analysis_vars, input_vars, EdgesInv
<1>2. Children' = Children
  BY <1>1 DEF FillRoots, Children, Open
<1>3. Roots \subseteq MopList
  BY DEF Roots
<1>4. DomSet' = (Insts(func) \ MopList) \cup Roots /\ Visited' = Reach(Children, Roots)
  BY DEF FillRoots
<1>5. MopList \subseteq Insts(func)
  BY DEF KeptInv, EdgesInv
<1>6. ASSUME NEW S \in SUBSET Insts(func), Leads(S)'
      PROVE  Visited' \subseteq S
  <2>1. \A k \in S \cap MopList : Children[k] \subseteq S
    BY <1>1, <1>2, <1>6 DEF Leads
  <2>2. Roots \subseteq S \cap MopList
    BY <1>3, <1>4, <1>6 DEF Leads
  <2>. QED
    BY <1>4, <2>1, <2>2, SearchStaysIn DEF KeptInv
<1>7. stage' = "dominating"
  BY DEF FillRoots
<1>8. /\ DomSet' \subseteq Insts(func)
      /\ Insts(func) \ MopList \subseteq DomSet'
  BY <1>3, <1>4, <1>5
<1>. QED
  BY <1>1, <1>6, <1>7, <1>8 DEF KeptInv

LEMMA FillCycleKeeps ==
  ASSUME KeptInv, NEW v \in MopList, FillCycle(v)
  PROVE  KeptInv'
<1>1. EdgesInv' /\ UNCHANGED <<func, MopList>>
  BY DEF KeptInv, FillCycle, analysis_vars, input_vars, EdgesInv
<1>2. Children' = Children
  BY <1>1 DEF FillCycle, Children, Open
<1>3. /\ DomSet' = DomSet \cup {v} /\ Visited' = Visited \cup Reach(Children, {v})
      /\ stage = "dominating" /\ stage' = "dominating"
  BY DEF FillCycle
<1>4. v \in Insts(func)
  BY DEF KeptInv, EdgesInv
<1>5. ASSUME NEW S \in SUBSET Insts(func), Leads(S)'
      PROVE  Visited' \subseteq S
  <2>1. \A k \in S \cap MopList : Children[k] \subseteq S
    BY <1>1, <1>2, <1>5 DEF Leads
  <2>2. {v} \subseteq S \cap MopList /\ Leads(S)
    BY <1>3, <1>5, <2>1 DEF Leads
  <2>3. Reach(Children, {v}) \subseteq S
    BY <2>1, <2>2, SearchStaysIn DEF KeptInv
  <2>. QED
    BY <1>3, <2>2, <2>3 DEF KeptInv
<1>. QED
  BY <1>1, <1>3, <1>4, <1>5 DEF KeptInv

LEMMA NextKeepsKept ==
  ASSUME KeptInv, [Next]_vars
  PROVE  KeptInv'
<1>1. EdgesInv' /\ UNCHANGED <<func, MopList, UsedForTsan>>
  BY EdgesStep DEF KeptInv
<1>2. CASE FillRoots
  BY <1>2, FillRootsKeeps
<1>3. ASSUME NEW v \in MopList, FillCycle(v)
      PROVE  KeptInv'
  BY <1>3, FillCycleKeeps
<1>4. CASE BlockEdges
  BY <1>1, <1>4 DEF BlockEdges, KeptInv
<1>5. CASE Distilled
  <2>1. UNCHANGED <<Edges, DomSet, Visited>> /\ stage = "dominating" /\ stage' = "distilled"
    BY <1>5 DEF Distilled
  <2>2. MopList \subseteq Visited
    BY <1>5 DEF Distilled
  <2>3. \A S : Leads(S)' <=> Leads(S)
    BY <1>1, <2>1 DEF Leads, Children, Open
  <2>. QED
    BY <1>1, <2>1, <2>2, <2>3 DEF KeptInv
<1>6. CASE UNCHANGED recurrence_vars
  <2>1. UNCHANGED <<stage, Edges, DomSet, Visited>>
    BY <1>6 DEF recurrence_vars
  <2>2. \A S : Leads(S)' <=> Leads(S)
    BY <1>1, <2>1 DEF Leads, Children, Open
  <2>. QED
    BY <1>1, <2>1, <2>2 DEF KeptInv
<1>. QED
  BY <1>2, <1>3, <1>4, <1>5, <1>6
  DEF Next, DistillNext, Analyze, Execute, Access, PassBarrier, Branch, Return, vars

LEMMA KeptLead == KeptInv => KeptLeadToAll
<1>. SUFFICES ASSUME KeptInv, stage = "distilled", NEW S \in SUBSET Insts(func),
                     DomSet \subseteq S, \A k \in S \cap MopList : Children[k] \subseteq S
              PROVE  S = Insts(func)
  BY DEF KeptLeadToAll
<1>1. Visited \subseteq S /\ MopList \subseteq Visited /\ Insts(func) \ MopList \subseteq DomSet
  BY DEF KeptInv, Leads
<1>. QED
  BY <1>1

\* Whatever vertices fillDominatingSet takes for the entries of cycles, the accesses
\* it keeps lead to all others along the edges that no barrier blocks.
THEOREM KeptSufficient == Spec => []KeptLeadToAll
<1>1. KeptInv /\ [Next]_vars => KeptInv'
  BY NextKeepsKept
<1>. QED
  BY <1>1, InitKept, KeptLead, PTL DEF Spec

-----------------------------------------------------------------------------
(***************************************************************************)
(* Walks through a function, from instruction to instruction.  They are    *)
(* those of OnWalk and OnBarrierCycle, as operators of the function.       *)
(***************************************************************************)
End(f, b) == Len(f.code[b]) + 1

PointsOf(f) == UNION {{<<b, i>> : i \in 1..End(f, b)} : b \in Blocks(f)}

NextOf(f, p) ==
  IF p[2] < End(f, p[1]) THEN {<<p[1], p[2] + 1>>}
  ELSE {<<s, 1>> : s \in f.succs[p[1]]}

\* The walks that do not come to X.
Walks(f, X) == [p \in PointsOf(f) |-> NextOf(f, p) \ X]

Place(f, m) == <<Parent(f, m), Index(f, m)>>

BarriersAt(f, barriers) ==
  {p \in PointsOf(f) : p[2] < End(f, p[1]) /\ f.code[p[1]][p[2]] \in barriers}

\* What comes after point p before m is executed again.
Onward(f, m, p) ==
  Reach(Walks(f, {Place(f, m)}), Walks(f, {Place(f, m)})[p])

\* What comes after m before m is executed again.
After(f, m) == Onward(f, m, Place(f, m))

\* One of the points may lie between the last execution of m and point q; so may
\* one of the barriers.
CrossedAt(f, m, points, q) == \E p \in points \cap After(f, m) : q \in Onward(f, m, p)

Crossed(f, m, barriers, q) == CrossedAt(f, m, BarriersAt(f, barriers), q)

LEMMA CodeFacts ==
  ASSUME NEW f, IsFunction(f), NEW b \in Blocks(f)
  PROVE  /\ f.code[b] \in Seq(Mops \cup Barriers)
         /\ Len(f.code[b]) \in Nat /\ DOMAIN f.code[b] = 1..Len(f.code[b])
         /\ End(f, b) \in Nat /\ End(f, b) >= 1
<1>1. f.code[b] \in Seq(Mops \cup Barriers)
  BY DEF IsFunction
<1>. QED
  BY <1>1 DEF End

LEMMA PointFacts ==
  ASSUME NEW f, IsFunction(f), NEW p \in PointsOf(f)
  PROVE  /\ p = <<p[1], p[2]>> /\ p[1] \in Blocks(f)
         /\ p[2] \in 1..End(f, p[1]) /\ p[2] \in Nat /\ p[2] >= 1
         /\ p[2] <= End(f, p[1]) /\ End(f, p[1]) \in Nat
<1>1. PICK b \in Blocks(f) : \E i \in 1..End(f, b) : p = <<b, i>>
  BY DEF PointsOf
<1>. QED
  BY <1>1, CodeFacts

LEMMA IsPoint ==
  ASSUME NEW f, NEW b \in Blocks(f), NEW i \in 1..End(f, b)
  PROVE  <<b, i>> \in PointsOf(f)
  BY DEF PointsOf

LEMMA NextCases ==
  ASSUME NEW f, IsFunction(f), NEW p \in PointsOf(f), NEW r \in NextOf(f, p)
  PROVE  /\ r \in PointsOf(f)
         /\ \/ p[2] < End(f, p[1]) /\ r = <<p[1], p[2] + 1>>
            \/ /\ p[2] = End(f, p[1])
               /\ \E s \in f.succs[p[1]] : s \in Blocks(f) /\ r = <<s, 1>>
<1>1. CASE p[2] < End(f, p[1])
  <2>1. r = <<p[1], p[2] + 1>>
    BY <1>1 DEF NextOf
  <2>2. p[1] \in Blocks(f) /\ p[2] + 1 \in 1..End(f, p[1])
    BY <1>1, PointFacts
  <2>. QED
    BY <1>1, <2>1, <2>2, IsPoint
<1>2. CASE ~(p[2] < End(f, p[1]))
  <2>1. PICK s \in f.succs[p[1]] : r = <<s, 1>>
    BY <1>2 DEF NextOf
  <2>2. s \in Blocks(f)
    <3>1. f.succs[p[1]] \subseteq Blocks(f)
      BY PointFacts DEF IsFunction
    <3>. QED
      BY <3>1
  <2>3. 1 \in 1..End(f, s)
    BY <2>2, CodeFacts
  <2>4. p[2] = End(f, p[1])
    BY <1>2, PointFacts
  <2>. QED
    BY <2>1, <2>2, <2>3, <2>4, IsPoint
<1>. QED
  BY <1>1, <1>2

LEMMA PointsAreFinite ==
  ASSUME NEW f, IsFunction(f)
  PROVE  IsFiniteSet(PointsOf(f))
<1>. DEFINE row == [b \in Blocks(f) |-> {<<b, i>> : i \in 1..End(f, b)}]
            all == {row[b] : b \in Blocks(f)}
<1>1. ASSUME NEW b \in Blocks(f) PROVE IsFiniteSet(row[b])
  <2>. DEFINE pt == [i \in 1..End(f, b) |-> <<b, i>>]
  <2>1. IsFiniteSet(1..End(f, b))
    BY CodeFacts, FS_Interval
  <2>2. IsFiniteSet({pt[i] : i \in 1..End(f, b)})
    BY <2>1, FiniteImage
  <2>3. row[b] = {pt[i] : i \in 1..End(f, b)}
    OBVIOUS
  <2>. QED
    BY <2>2, <2>3
<1>2. IsFiniteSet(all)
  BY BlocksAreFinite, FiniteImage
<1>3. \A T \in all : IsFiniteSet(T)
  BY <1>1
<1>4. PointsOf(f) = UNION all
  BY DEF PointsOf
<1>. HIDE DEF all
<1>. QED
  BY <1>2, <1>3, <1>4, FS_UNION

LEMMA WalksGraph ==
  ASSUME NEW f, IsFunction(f), NEW X
  PROVE  IsGraph(Walks(f, X)) /\ DOMAIN Walks(f, X) = PointsOf(f)
<1>1. \A p \in PointsOf(f) : NextOf(f, p) \subseteq PointsOf(f)
  BY NextCases
<1>2. DOMAIN Walks(f, X) = PointsOf(f) /\ \A p \in PointsOf(f) : Walks(f, X)[p] = NextOf(f, p) \ X
  BY DEF Walks
<1>. QED
  BY <1>1, <1>2, PointsAreFinite DEF IsGraph

LEMMA WalkClosed ==
  ASSUME NEW f, IsFunction(f), NEW X, NEW T \in SUBSET PointsOf(f),
         \A p \in T : \A r \in NextOf(f, p) : r \in X \/ r \in T
  PROVE  Closed(Walks(f, X), T)
  BY DEF Closed, Walks

\* A step of a walk.
LEMMA WalkStep ==
  ASSUME NEW f, IsFunction(f), NEW X, NEW S, S \subseteq PointsOf(f),
         NEW p \in Reach(Walks(f, X), S), NEW r \in NextOf(f, p), r \notin X
  PROVE  r \in Reach(Walks(f, X), S)
<1>1. IsGraph(Walks(f, X)) /\ S \subseteq DOMAIN Walks(f, X)
  BY WalksGraph
<1>2. p \in PointsOf(f)
  BY <1>1, ReachClosed, WalksGraph
<1>3. r \in Walks(f, X)[p]
  BY <1>2 DEF Walks
<1>. QED
  BY <1>1, <1>3, ReachStep

LEMMA WalkIsIn ==
  ASSUME NEW f, IsFunction(f), NEW X, NEW S, S \subseteq PointsOf(f)
  PROVE  S \subseteq Reach(Walks(f, X), S) /\ Reach(Walks(f, X), S) \subseteq PointsOf(f)
  BY WalksGraph, ReachClosed

\* To show that a walk stays in T.
LEMMA WalkStaysIn ==
  ASSUME NEW f, IsFunction(f), NEW X, NEW S, NEW T \in SUBSET PointsOf(f), S \subseteq T,
         \A p \in T : \A r \in NextOf(f, p) : r \in X \/ r \in T
  PROVE  Reach(Walks(f, X), S) \subseteq T
  BY WalksGraph, WalkClosed, ReachLeast DEF IsGraph

LEMMA WalkOn ==
  ASSUME NEW f, IsFunction(f), NEW X, NEW S, S \subseteq PointsOf(f),
         NEW p \in Reach(Walks(f, X), S)
  PROVE  Reach(Walks(f, X), {p}) \subseteq Reach(Walks(f, X), S)
<1>1. IsGraph(Walks(f, X)) /\ S \subseteq DOMAIN Walks(f, X)
  BY WalksGraph
<1>. QED
  BY <1>1, ReachTransitive

\* Leaving X out only helps.
LEMMA WalkFreely ==
  ASSUME NEW f, IsFunction(f), NEW X, NEW S, S \subseteq PointsOf(f)
  PROVE  Reach(Walks(f, X), S) \subseteq Reach(Walks(f, {}), S)
<1>. DEFINE T == Reach(Walks(f, {}), S)
<1>1. T \subseteq PointsOf(f) /\ S \subseteq T
  BY WalkIsIn
<1>2. \A p \in T : \A r \in NextOf(f, p) : r \in T
  BY WalkStep
<1>. QED
  BY <1>1, <1>2, WalkStaysIn

LEMMA PlaceFacts ==
  ASSUME NEW f, IsFunction(f), NEW m \in Insts(f)
  PROVE  /\ m \in Mops /\ Parent(f, m) \in Blocks(f)
         /\ Index(f, m) \in Nat /\ Index(f, m) >= 1 /\ Index(f, m) < End(f, Parent(f, m))
         /\ Index(f, m) \in 1..Len(f.code[Parent(f, m)])
         /\ f.code[Parent(f, m)][Index(f, m)] = m
         /\ Place(f, m) \in PointsOf(f)
         /\ Place(f, m)[1] = Parent(f, m) /\ Place(f, m)[2] = Index(f, m)
<1>. DEFINE b == Parent(f, m)
            i == Index(f, m)
<1>1. \E c \in Blocks(f) : m \in MopsIn(f, c)
  BY DEF Insts
<1>2. b \in Blocks(f) /\ m \in MopsIn(f, b)
  BY <1>1 DEF Parent
<1>3. m \in Mops /\ \E j \in DOMAIN f.code[b] : f.code[b][j] = m
  BY <1>2 DEF MopsIn
<1>4. i \in DOMAIN f.code[b] /\ f.code[b][i] = m
  BY <1>3 DEF Index
<1>. HIDE DEF b, i
<1>5. Len(f.code[b]) \in Nat /\ DOMAIN f.code[b] = 1..Len(f.code[b])
  BY <1>2, CodeFacts
<1>6. i \in Nat /\ i >= 1 /\ i < End(f, b) /\ i \in 1..Len(f.code[b]) /\ i \in 1..End(f, b)
  BY <1>4, <1>5 DEF End
<1>7. Place(f, m) = <<b, i>>
  BY DEF Place, b, i
<1>8. <<b, i>> \in PointsOf(f)
  BY <1>2, <1>6, IsPoint
<1>. QED
  BY <1>2, <1>3, <1>4, <1>6, <1>7, <1>8 DEF b, i

LEMMA OnePlace ==
  ASSUME NEW f, IsFunction(f), NEW b \in Blocks(f), NEW i \in 1..Len(f.code[b]),
         f.code[b][i] \in Mops
  PROVE  /\ f.code[b][i] \in Insts(f)
         /\ Parent(f, f.code[b][i]) = b /\ Index(f, f.code[b][i]) = i
         /\ Place(f, f.code[b][i]) = <<b, i>>
<1>. DEFINE m == f.code[b][i]
<1>1. i \in DOMAIN f.code[b]
  BY CodeFacts
<1>2. m \in Insts(f)
  BY <1>1 DEF Insts, MopsIn
<1>3. Parent(f, m) = b /\ Index(f, m) = i
  <2>1. /\ Parent(f, m) \in Blocks(f) /\ Index(f, m) \in 1..Len(f.code[Parent(f, m)])
        /\ f.code[Parent(f, m)][Index(f, m)] = m
    BY <1>2, PlaceFacts
  <2>. HIDE DEF m
  <2>2. f.code[b][i] = m /\ m \in Mops
    BY DEF m
  <2>. QED
    BY <2>1, <2>2 DEF IsFunction
<1>. QED
  BY <1>2, <1>3 DEF Place

\* Down a block.
LEMMA StraightWalk ==
  ASSUME NEW f, IsFunction(f), NEW X, NEW b \in Blocks(f),
         NEW i \in 1..End(f, b), NEW j \in i..End(f, b),
         \A k \in (i + 1)..j : <<b, k>> \notin X
  PROVE  <<b, j>> \in Reach(Walks(f, X), {<<b, i>>})
<1>. DEFINE R == Reach(Walks(f, X), {<<b, i>>})
            P == {n \in Nat : i + n <= j => <<b, i + n>> \in R}
<1>0. End(f, b) \in Nat /\ i \in Nat /\ i >= 1 /\ j \in Nat /\ j >= i /\ j <= End(f, b)
  BY CodeFacts
<1>1. {<<b, i>>} \subseteq PointsOf(f)
  BY IsPoint
<1>2. 0 \in P
  <2>1. <<b, i>> \in R
    BY <1>1, WalkIsIn
  <2>. QED
    BY <1>0, <2>1
<1>3. ASSUME NEW n \in Nat, n \in P PROVE n + 1 \in P
  <2>. SUFFICES ASSUME i + (n + 1) <= j PROVE <<b, i + (n + 1)>> \in R
    OBVIOUS
  <2>1. <<b, i + n>> \in R
    BY <1>0, <1>3
  <2>2. <<b, i + (n + 1)>> \in NextOf(f, <<b, i + n>>)
    BY <1>0 DEF NextOf
  <2>3. <<b, i + (n + 1)>> \notin X
    BY <1>0
  <2>. QED
    BY <1>1, <2>1, <2>2, <2>3, WalkStep
<1>4. Nat \subseteq P
  <2>. HIDE DEF P
  <2>. QED
    BY <1>2, <1>3, InductiveSet
<1>5. j - i \in Nat /\ i + (j - i) = j
  BY <1>0
<1>. QED
  BY <1>0, <1>4, <1>5

\* From block to block.
LEMMA BlockWalk ==
  ASSUME NEW f, IsFunction(f), NEW b \in Blocks(f), NEW i \in 1..End(f, b),
         NEW c \in Reach(f.succs, {b}), c # b, NEW j \in 1..End(f, c)
  PROVE  <<c, j>> \in Reach(Walks(f, {}), {<<b, i>>})
<1>. DEFINE R == Reach(Walks(f, {}), {<<b, i>>})
            T == {d \in Blocks(f) : <<d, 1>> \in R}
<1>0. IsGraph(f.succs) /\ DOMAIN f.succs = Blocks(f)
  BY BlocksAreFinite DEF Blocks
<1>1. {<<b, i>>} \subseteq PointsOf(f)
  BY IsPoint
<1>2. ASSUME NEW d \in Blocks(f), NEW k \in 1..End(f, d), <<d, k>> \in R, NEW l \in k..End(f, d)
      PROVE  <<d, l>> \in R
  <2>1. <<d, l>> \in Reach(Walks(f, {}), {<<d, k>>})
    BY StraightWalk
  <2>. QED
    BY <1>1, <1>2, <2>1, WalkOn
<1>3. ASSUME NEW d \in Blocks(f), NEW k \in 1..End(f, d), <<d, k>> \in R, NEW e \in f.succs[d]
      PROVE  e \in T
  <2>1. End(f, d) \in k..End(f, d) /\ End(f, d) \in Nat
    BY CodeFacts
  <2>2. <<d, End(f, d)>> \in R
    BY <1>2, <1>3, <2>1
  <2>3. <<e, 1>> \in NextOf(f, <<d, End(f, d)>>)
    BY <2>1 DEF NextOf
  <2>4. <<e, 1>> \in R
    BY <1>1, <2>2, <2>3, WalkStep
  <2>. QED
    BY <1>0, <1>3, <2>4 DEF IsGraph
<1>4. <<b, i>> \in R
  BY <1>1, WalkIsIn
<1>5. f.succs[b] \subseteq T
  BY <1>3, <1>4
<1>6. Closed(f.succs, T)
  <2>1. \A d \in T : 1 \in 1..End(f, d)
    BY CodeFacts
  <2>. QED
    BY <1>3, <2>1 DEF Closed
<1>7. c \in Reach(f.succs, f.succs[b])
  <2>1. \E x \in {b} : c = x \/ c \in Reach(f.succs, f.succs[x])
    BY <1>0, ReachFirst
  <2>. QED
    BY <2>1
<1>8. c \in T
  <2>. HIDE DEF T
  <2>. QED
    BY <1>0, <1>5, <1>6, <1>7, ReachLeast DEF IsGraph
<1>9. 1 \in 1..End(f, c) /\ j \in 1..End(f, c)
  BY <1>8, CodeFacts
<1>. QED
  BY <1>2, <1>8, <1>9

Start(f) == <<f.entry, 1>>

LEMMA StartIsPoint ==
  ASSUME NEW f, IsFunction(f)
  PROVE  Start(f) \in PointsOf(f) /\ f.entry \in Blocks(f)
<1>1. f.entry \in Blocks(f)
  BY DEF IsFunction
<1>2. 1 \in 1..End(f, f.entry)
  BY <1>1, CodeFacts
<1>. QED
  BY <1>1, <1>2, IsPoint DEF Start

LEMMA AllReached ==
  ASSUME NEW f, IsFunction(f), NEW p \in PointsOf(f)
  PROVE  p \in Reach(Walks(f, {}), {Start(f)})
<1>1. p = <<p[1], p[2]>> /\ p[1] \in Blocks(f) /\ p[2] \in 1..End(f, p[1])
  BY PointFacts
<1>2. f.entry \in Blocks(f) /\ 1 \in 1..End(f, f.entry) /\ 1 <= p[2]
  BY <1>1, StartIsPoint, CodeFacts
<1>3. CASE p[1] = f.entry
  <2>1. p[2] \in 1..End(f, f.entry)
    BY <1>1, <1>3
  <2>2. <<f.entry, p[2]>> \in Reach(Walks(f, {}), {<<f.entry, 1>>})
    BY <1>2, <2>1, StraightWalk
  <2>. QED
    BY <1>1, <1>3, <2>2 DEF Start
<1>4. CASE p[1] # f.entry
  <2>1. p[1] \in Reach(f.succs, {f.entry})
    BY <1>1 DEF IsFunction
  <2>2. <<p[1], p[2]>> \in Reach(Walks(f, {}), {<<f.entry, 1>>})
    BY <1>1, <1>2, <1>4, <2>1, BlockWalk
  <2>. QED
    BY <1>1, <2>2 DEF Start
<1>. QED
  BY <1>3, <1>4

LEMMA WithoutGraph ==
  ASSUME NEW f, IsFunction(f), NEW a \in Blocks(f)
  PROVE  /\ IsGraph(Without(f, a)) /\ DOMAIN Without(f, a) = Blocks(f) \ {a}
         /\ \A b \in Blocks(f) \ {a} : Without(f, a)[b] = f.succs[b] \ {a}
<1>1. IsFiniteSet(Blocks(f)) /\ \A b \in Blocks(f) : f.succs[b] \subseteq Blocks(f)
  BY BlocksAreFinite DEF IsGraph, Blocks
<1>2. IsFiniteSet(Blocks(f) \ {a})
  BY <1>1, FS_RemoveElement
<1>3. /\ DOMAIN Without(f, a) = Blocks(f) \ {a}
      /\ \A b \in Blocks(f) \ {a} : Without(f, a)[b] = f.succs[b] \ {a}
  BY DEF Without
<1>. QED
  BY <1>1, <1>2, <1>3 DEF IsGraph

LEMMA WithoutReach ==
  ASSUME NEW f, IsFunction(f), NEW a \in Blocks(f), NEW S, S \subseteq Blocks(f) \ {a}
  PROVE  /\ S \subseteq Reach(Without(f, a), S)
         /\ Reach(Without(f, a), S) \subseteq Blocks(f) \ {a}
         /\ \A x \in Reach(Without(f, a), S) : \A y \in f.succs[x] :
              y # a => y \in Reach(Without(f, a), S)
<1>. DEFINE g == Without(f, a)
            R == Reach(g, S)
<1>1. IsGraph(g) /\ DOMAIN g = Blocks(f) \ {a}
  BY WithoutGraph
<1>2. \A b \in Blocks(f) \ {a} : g[b] = f.succs[b] \ {a}
  BY WithoutGraph
<1>. HIDE DEF g
<1>3. S \subseteq R /\ R \subseteq Blocks(f) \ {a} /\ Closed(g, R)
  BY <1>1, ReachClosed
<1>. HIDE DEF R
<1>4. \A x \in R : \A y \in f.succs[x] : y # a => y \in R
  BY <1>2, <1>3 DEF Closed
<1>. QED
  BY <1>3, <1>4 DEF R, g

\* The points that a walk from the blocks of S comes to before the i-th of block a.
BeforePoint(f, a, i, S) ==
  {p \in PointsOf(f) : IF p[1] = a THEN p[2] < i ELSE p[1] \in Reach(Without(f, a), S)}

LEMMA BeforePointClosed ==
  ASSUME NEW f, IsFunction(f), NEW a \in Blocks(f), NEW i \in 1..Len(f.code[a]),
         NEW S, S \subseteq Blocks(f) \ {a},
         NEW p \in BeforePoint(f, a, i, S), NEW r \in NextOf(f, p)
  PROVE  r = <<a, i>> \/ r \in BeforePoint(f, a, i, S)
<1>. DEFINE R == Reach(Without(f, a), S)
<1>0. /\ p \in PointsOf(f)
      /\ IF p[1] = a THEN p[2] < i ELSE p[1] \in R
  BY DEF BeforePoint
<1>1. i \in Nat /\ i < End(f, a) /\ i >= 1 /\ End(f, a) \in Nat
  BY CodeFacts DEF End
<1>2. r \in PointsOf(f) /\ p[1] \in Blocks(f) /\ p[2] \in Nat
  BY <1>0, NextCases, PointFacts
<1>3. CASE p[2] < End(f, p[1]) /\ r = <<p[1], p[2] + 1>>
  <2>1. CASE p[1] = a
    BY <1>0, <1>1, <1>2, <1>3, <2>1 DEF BeforePoint
  <2>2. CASE p[1] # a
    BY <1>0, <1>2, <1>3, <2>2 DEF BeforePoint
  <2>. QED
    BY <2>1, <2>2
<1>4. ASSUME p[2] = End(f, p[1]), NEW s \in f.succs[p[1]], s \in Blocks(f), r = <<s, 1>>
      PROVE  r = <<a, i>> \/ r \in BeforePoint(f, a, i, S)
  <2>1. CASE s = a
    BY <1>1, <1>2, <1>4, <2>1 DEF BeforePoint
  <2>2. CASE s # a
    <3>1. p[1] # a
      BY <1>0, <1>1, <1>4
    <3>2. p[1] \in R
      BY <1>0, <3>1
    <3>3. s \in R
      BY <1>4, <2>2, <3>2, WithoutReach
    <3>4. r[1] = s
      BY <1>4
    <3>. HIDE DEF R
    <3>. QED
      BY <1>2, <2>2, <3>3, <3>4 DEF BeforePoint, R
  <2>. QED
    BY <2>1, <2>2
<1>. QED
  BY <1>0, <1>3, <1>4, NextCases

\* A dominated access is not reached before its dominator.
LEMMA DominatorPassed ==
  ASSUME NEW f, IsFunction(f), NEW a \in Insts(f), NEW b \in Insts(f), Dominates(f, a, b)
  PROVE  /\ Place(f, b) \notin Reach(Walks(f, {Place(f, a)}), {Start(f)} \ {Place(f, a)})
         /\ Place(f, a) # Place(f, b)
<1>. DEFINE A == Parent(f, a)
            i == Index(f, a)
            S == {f.entry} \ {A}
            T == BeforePoint(f, A, i, S)
<1>1. /\ A \in Blocks(f) /\ i \in 1..Len(f.code[A]) /\ Place(f, a) = <<A, i>>
      /\ i \in Nat /\ i >= 1
  BY PlaceFacts DEF Place
<1>2. /\ Place(f, b) = <<Parent(f, b), Index(f, b)>> /\ Place(f, b) \in PointsOf(f)
      /\ Index(f, b) \in Nat /\ Parent(f, b) \in Blocks(f)
  BY PlaceFacts DEF Place
<1>3. /\ A = Parent(f, b) \/ Parent(f, b) \notin Reach(Without(f, A), S)
      /\ A = Parent(f, b) => i < Index(f, b)
  BY DEF Dominates, BlockDominates
<1>. HIDE DEF A, i
<1>4. Start(f) = <<f.entry, 1>> /\ Start(f) \in PointsOf(f) /\ f.entry \in Blocks(f)
  BY StartIsPoint DEF Start
<1>5. {Start(f)} \ {Place(f, a)} \subseteq T
  <2>. SUFFICES ASSUME Start(f) # <<A, i>> PROVE Start(f) \in T
    BY <1>1
  <2>1. CASE f.entry = A
    BY <1>1, <1>4, <2>1 DEF BeforePoint
  <2>2. CASE f.entry # A
    <3>1. S \subseteq Blocks(f) \ {A}
      BY <1>4
    <3>2. f.entry \in Reach(Without(f, A), S)
      <4>1. f.entry \in S
        BY <2>2
      <4>2. S \subseteq Reach(Without(f, A), S)
        BY <1>1, <3>1, WithoutReach
      <4>. QED
        BY <4>1, <4>2
    <3>3. Start(f)[1] = f.entry
      BY <1>4
    <3>. HIDE DEF S
    <3>. QED
      BY <1>4, <2>2, <3>2, <3>3 DEF BeforePoint
  <2>. QED
    BY <2>1, <2>2
<1>6. \A p \in T : \A r \in NextOf(f, p) : r \in {Place(f, a)} \/ r \in T
  <2>1. S \subseteq Blocks(f) \ {A}
    BY <1>4
  <2>. QED
    BY <1>1, <2>1, BeforePointClosed
<1>7. T \in SUBSET PointsOf(f)
  BY DEF BeforePoint
<1>8. Place(f, b) \notin T
  BY <1>1, <1>2, <1>3 DEF BeforePoint
<1>9. Reach(Walks(f, {Place(f, a)}), {Start(f)} \ {Place(f, a)}) \subseteq T
  <2>. HIDE DEF T
  <2>. QED
    BY <1>5, <1>6, <1>7, WalkStaysIn
<1>10. Place(f, a) # Place(f, b)
  BY <1>1, <1>2, <1>3
<1>. HIDE DEF T
<1>. QED
  BY <1>8, <1>9, <1>10

\* Wherever a walk has come to from an access, a post-dominator that it has not met
\* lies ahead.
LEMMA PostDominatorAhead ==
  ASSUME NEW f, IsFunction(f), NEW a \in Insts(f), NEW b \in Insts(f),
         PostDominates(f, a, b),
         NEW q \in Reach(Walks(f, {Place(f, a)}), {Place(f, b)})
  PROVE  /\ Place(f, a) \in Reach(Walks(f, {}), {q})
         /\ q # Place(f, a) /\ Place(f, a) # Place(f, b)
<1>. DEFINE A == Parent(f, a)
            i == Index(f, a)
            B == Parent(f, b)
            j == Index(f, b)
            S == {B} \ {A}
            T == BeforePoint(f, A, i, S)
<1>1. /\ A \in Blocks(f) /\ i \in 1..Len(f.code[A]) /\ Place(f, a) = <<A, i>>
      /\ i \in Nat /\ i >= 1 /\ i \in 1..End(f, A)
  <2>1. /\ A \in Blocks(f) /\ i \in 1..Len(f.code[A]) /\ Place(f, a) = <<A, i>>
        /\ i \in Nat /\ i >= 1 /\ i < End(f, A)
    BY PlaceFacts DEF Place
  <2>. HIDE DEF A, i
  <2>2. End(f, A) \in Nat
    BY <2>1, CodeFacts
  <2>. QED
    BY <2>1, <2>2
<1>2. /\ B \in Blocks(f) /\ Place(f, b) = <<B, j>> /\ Place(f, b) \in PointsOf(f)
      /\ j \in Nat
  BY PlaceFacts DEF Place
<1>3. /\ A = B \/ Reach(Without(f, A), {B}) \cap f.exits = {}
      /\ A = B => i > j
  BY DEF PostDominates, BlockPostDominates
<1>. HIDE DEF A, i, B, j
<1>4. S \subseteq Blocks(f) \ {A}
  BY <1>2
<1>5. Place(f, b) \in T
  <2>1. CASE A = B
    BY <1>2, <1>3, <2>1 DEF BeforePoint
  <2>2. CASE A # B
    <3>1. B \in Reach(Without(f, A), S)
      <4>1. B \in S
        BY <2>2
      <4>2. S \subseteq Reach(Without(f, A), S)
        BY <1>1, <1>4, WithoutReach
      <4>. QED
        BY <4>1, <4>2
    <3>2. Place(f, b)[1] = B
      BY <1>2
    <3>. HIDE DEF S
    <3>. QED
      BY <1>2, <2>2, <3>1, <3>2 DEF BeforePoint
  <2>. QED
    BY <2>1, <2>2
<1>6. \A p \in T : \A r \in NextOf(f, p) : r \in {Place(f, a)} \/ r \in T
  BY <1>1, <1>4, BeforePointClosed
<1>7. T \in SUBSET PointsOf(f)
  BY DEF BeforePoint
<1>8. q \in T
  <2>. HIDE DEF T
  <2>. QED
    BY <1>5, <1>6, <1>7, WalkStaysIn
<1>9. /\ q = <<q[1], q[2]>> /\ q[1] \in Blocks(f) /\ q[2] \in 1..End(f, q[1])
      /\ IF q[1] = A THEN q[2] < i ELSE q[1] \in Reach(Without(f, A), S)
  BY <1>7, <1>8, PointFacts DEF BeforePoint
<1>10. CASE q[1] = A
  <2>1. q[2] \in 1..End(f, A) /\ i \in q[2]..End(f, A)
    BY <1>1, <1>9, <1>10, CodeFacts
  <2>2. <<A, i>> \in Reach(Walks(f, {}), {<<A, q[2]>>})
    BY <1>1, <2>1, StraightWalk
  <2>3. q = <<A, q[2]>> /\ q[2] # i
    BY <1>1, <1>9, <1>10, <2>1
  <2>4. Place(f, a) \in Reach(Walks(f, {}), {q})
    BY <1>1, <2>2, <2>3
  <2>5. q # Place(f, a)
    BY <1>1, <2>3
  <2>6. Place(f, a) # Place(f, b)
    BY <1>1, <1>2, <1>3
  <2>. QED
    BY <2>4, <2>5, <2>6
<1>11. CASE q[1] # A
  <2>1. A # B
    <3>1. S = {} => Reach(Without(f, A), S) = {}
      BY <1>1, WithoutGraph, ReachNothing DEF IsGraph
    <3>. QED
      BY <1>9, <1>11, <3>1
  <2>2. S = {B}
    BY <2>1
  <2>3. A \in Reach(f.succs, {q[1]})
    <3>. SUFFICES ASSUME A \notin Reach(f.succs, {q[1]}) PROVE FALSE
      OBVIOUS
    <3>. DEFINE R == Reach(Without(f, A), {B})
    <3>1. /\ R \subseteq Blocks(f) \ {A}
          /\ \A x \in R : \A y \in f.succs[x] : y # A => y \in R
      BY <1>1, <1>4, <2>2, WithoutReach
    <3>2. /\ IsGraph(f.succs) /\ DOMAIN f.succs = Blocks(f)
          /\ Reach(f.succs, {q[1]}) \subseteq Blocks(f)
          /\ Closed(f.succs, Reach(f.succs, {q[1]})) /\ q[1] \in Reach(f.succs, {q[1]})
      <4>1. IsGraph(f.succs) /\ DOMAIN f.succs = Blocks(f)
        BY BlocksAreFinite DEF Blocks
      <4>2. {q[1]} \subseteq DOMAIN f.succs
        BY <1>9, <4>1
      <4>. QED
        BY <4>1, <4>2, ReachClosed
    <3>3. Closed(f.succs, R \cap Reach(f.succs, {q[1]}))
      <4>. SUFFICES ASSUME NEW x \in R \cap Reach(f.succs, {q[1]}), NEW y \in f.succs[x]
                    PROVE  y \in R \cap Reach(f.succs, {q[1]})
        BY DEF Closed
      <4>1. y \in Reach(f.succs, {q[1]})
        BY <3>2 DEF Closed
      <4>2. y # A
        BY <4>1
      <4>. QED
        BY <3>1, <4>1, <4>2
    <3>4. q[1] \in R \cap Reach(f.succs, {q[1]})
      BY <1>9, <1>11, <2>2, <3>2
    <3>5. Reach(f.succs, {q[1]}) \subseteq R
      <4>. HIDE DEF R
      <4>1. {q[1]} \subseteq R \cap Reach(f.succs, {q[1]})
        BY <3>4
      <4>. QED
        BY <3>2, <3>3, <4>1, ReachLeast DEF IsGraph
    <3>6. Reach(f.succs, {q[1]}) \cap f.exits # {}
      BY <1>9 DEF IsFunction
    <3>. QED
      BY <1>3, <2>1, <3>5, <3>6
  <2>4. <<A, i>> \in Reach(Walks(f, {}), {<<q[1], q[2]>>})
    BY <1>1, <1>9, <1>11, <2>3, BlockWalk
  <2>5. Place(f, a) \in Reach(Walks(f, {}), {q})
    BY <1>1, <1>9, <2>4
  <2>6. q # Place(f, a)
    BY <1>1, <1>11
  <2>7. Place(f, a) # Place(f, b)
    BY <1>1, <1>2, <2>1
  <2>. QED
    BY <2>5, <2>6, <2>7
<1>. QED
  BY <1>10, <1>11

\* A walk that comes to q avoids m until then, or leads from m on.
LEMMA AvoidsOrFollows ==
  ASSUME NEW f, IsFunction(f), NEW m \in Insts(f), NEW S, S \subseteq PointsOf(f),
         NEW q \in Reach(Walks(f, {}), S)
  PROVE  \/ q \in Reach(Walks(f, {Place(f, m)}), S \ {Place(f, m)})
         \/ q = Place(f, m) \/ q \in After(f, m)
<1>. DEFINE X == {Place(f, m)}
            P == Reach(Walks(f, X), S \ X)
            N == Walks(f, X)[Place(f, m)]
            T == P \cup X \cup After(f, m)
<1>1. Place(f, m) \in PointsOf(f)
  BY PlaceFacts
<1>2. N = NextOf(f, Place(f, m)) \ X /\ N \subseteq PointsOf(f)
  BY <1>1, NextCases DEF Walks
<1>3. /\ S \ X \subseteq P /\ P \subseteq PointsOf(f)
      /\ N \subseteq After(f, m) /\ After(f, m) \subseteq PointsOf(f)
  <2>1. S \ X \subseteq PointsOf(f)
    OBVIOUS
  <2>2. S \ X \subseteq P /\ P \subseteq PointsOf(f)
    BY <2>1, WalkIsIn
  <2>3. After(f, m) = Reach(Walks(f, X), N)
    BY DEF After, Onward
  <2>. HIDE DEF N, X
  <2>4. N \subseteq After(f, m) /\ After(f, m) \subseteq PointsOf(f)
    BY <1>2, <2>3, WalkIsIn
  <2>. QED
    BY <2>2, <2>4
<1>4. \A p \in T : \A r \in NextOf(f, p) : r \in T
  <2>1. \A p \in P : \A r \in NextOf(f, p) : r \notin X => r \in P
    BY WalkStep
  <2>2. \A p \in After(f, m) : \A r \in NextOf(f, p) : r \notin X => r \in After(f, m)
    BY <1>2, WalkStep DEF After, Onward
  <2>. QED
    BY <1>2, <1>3, <2>1, <2>2
<1>5. S \subseteq T /\ T \in SUBSET PointsOf(f)
  BY <1>1, <1>3
<1>6. q \in T
  <2>. HIDE DEF T
  <2>. QED
    BY <1>4, <1>5, WalkStaysIn
<1>. QED
  BY <1>6

\* In both kinds of edge, the access it ends at comes after the other.
LEMMA DominatedFollows ==
  ASSUME NEW f, IsFunction(f), NEW a \in Insts(f), NEW b \in Insts(f), Dominates(f, a, b)
  PROVE  Place(f, b) \in After(f, a)
<1>1. Place(f, b) \in Reach(Walks(f, {}), {Start(f)})
  BY PlaceFacts, AllReached
<1>. QED
  BY <1>1, StartIsPoint, AvoidsOrFollows, DominatorPassed

LEMMA PostDominatorFollows ==
  ASSUME NEW f, IsFunction(f), NEW a \in Insts(f), NEW b \in Insts(f),
         PostDominates(f, a, b)
  PROVE  Place(f, a) \in After(f, b)
<1>1. {Place(f, b)} \subseteq PointsOf(f)
  BY PlaceFacts
<1>2. Place(f, b) \in Reach(Walks(f, {Place(f, a)}), {Place(f, b)})
  BY <1>1, WalkIsIn
<1>3. Place(f, a) \in Reach(Walks(f, {}), {Place(f, b)}) /\ Place(f, a) # Place(f, b)
  BY <1>2, PostDominatorAhead
<1>4. Place(f, a) \notin Reach(Walks(f, {Place(f, b)}), {Place(f, b)} \ {Place(f, b)})
  <2>1. {Place(f, b)} \ {Place(f, b)} = {}
    OBVIOUS
  <2>2. Reach(Walks(f, {Place(f, b)}), {}) = {}
    BY WalksGraph, ReachNothing DEF IsGraph
  <2>. QED
    BY <2>1, <2>2
<1>. QED
  BY <1>1, <1>3, <1>4, AvoidsOrFollows

-----------------------------------------------------------------------------
(***************************************************************************)
(* What comes after an access, and past which barriers.                    *)
(***************************************************************************)
LEMMA OnwardFacts ==
  ASSUME NEW f, IsFunction(f), NEW m \in Insts(f), NEW p \in PointsOf(f)
  PROVE  /\ Onward(f, m, p) \subseteq PointsOf(f)
         /\ Place(f, m) \notin Onward(f, m, p)
         /\ \A r \in NextOf(f, p) : r = Place(f, m) \/ r \in Onward(f, m, p)
         /\ \A q \in Onward(f, m, p) : \A r \in NextOf(f, q) :
              r = Place(f, m) \/ r \in Onward(f, m, p)
         /\ \A q \in Onward(f, m, p) :
              Reach(Walks(f, {Place(f, m)}), {q}) \subseteq Onward(f, m, p)
         /\ \A q \in Reach(Walks(f, {Place(f, m)}), {p}) : q = p \/ q \in Onward(f, m, p)
<1>. DEFINE X == {Place(f, m)}
            N == Walks(f, X)[p]
            T == PointsOf(f) \ X
<1>1. N = NextOf(f, p) \ X /\ N \subseteq PointsOf(f)
  BY NextCases DEF Walks
<1>2. Onward(f, m, p) = Reach(Walks(f, X), N)
  BY DEF Onward
<1>3. N \subseteq T /\ T \in SUBSET PointsOf(f)
  BY <1>1
<1>4. \A q \in T : \A r \in NextOf(f, q) : r \in X \/ r \in T
  BY NextCases
<1>5. \A q \in Reach(Walks(f, X), {p}) : q = p \/ q \in Reach(Walks(f, X), N)
  <2>1. IsGraph(Walks(f, X)) /\ {p} \subseteq DOMAIN Walks(f, X)
    BY WalksGraph
  <2>. HIDE DEF X
  <2>2. \A q \in Reach(Walks(f, X), {p}) :
          \E x \in {p} : q = x \/ q \in Reach(Walks(f, X), Walks(f, X)[x])
    BY <2>1, ReachFirst
  <2>. QED
    BY <2>2
<1>. HIDE DEF N
<1>6. Onward(f, m, p) \subseteq T
  <2>. HIDE DEF T
  <2>. QED
    BY <1>2, <1>3, <1>4, WalkStaysIn
<1>7. N \subseteq Onward(f, m, p)
  BY <1>1, <1>2, WalkIsIn
<1>8. /\ \A q \in Onward(f, m, p) : \A r \in NextOf(f, q) : r \notin X => r \in Onward(f, m, p)
      /\ \A q \in Onward(f, m, p) : Reach(Walks(f, X), {q}) \subseteq Onward(f, m, p)
  <2>. HIDE DEF X
  <2>1. \A q \in Onward(f, m, p) : \A r \in NextOf(f, q) : r \notin X => r \in Onward(f, m, p)
    BY <1>1, <1>2, WalkStep
  <2>2. \A q \in Onward(f, m, p) : Reach(Walks(f, X), {q}) \subseteq Onward(f, m, p)
    BY <1>1, <1>2, WalkOn
  <2>. QED
    BY <2>1, <2>2
<1>. QED
  BY <1>1, <1>2, <1>5, <1>6, <1>7, <1>8

\* To show that it stays in T.
LEMMA OnwardStaysIn ==
  ASSUME NEW f, IsFunction(f), NEW m \in Insts(f), NEW p \in PointsOf(f),
         NEW T \in SUBSET PointsOf(f),
         \A r \in NextOf(f, p) : r = Place(f, m) \/ r \in T,
         \A q \in T : \A r \in NextOf(f, q) : r = Place(f, m) \/ r \in T
  PROVE  Onward(f, m, p) \subseteq T
<1>. DEFINE X == {Place(f, m)}
            N == Walks(f, X)[p]
<1>1. N \subseteq T
  BY DEF Walks
<1>2. Onward(f, m, p) = Reach(Walks(f, X), N)
  BY DEF Onward
<1>. HIDE DEF N
<1>. QED
  BY <1>1, <1>2, WalkStaysIn

LEMMA AfterFacts ==
  ASSUME NEW f, IsFunction(f), NEW m \in Insts(f)
  PROVE  /\ After(f, m) \subseteq PointsOf(f)
         /\ Place(f, m) \notin After(f, m)
         /\ \A q \in After(f, m) : \A r \in NextOf(f, q) :
              r = Place(f, m) \/ r \in After(f, m)
         /\ \A r \in NextOf(f, Place(f, m)) : r = Place(f, m) \/ r \in After(f, m)
<1>1. Place(f, m) \in PointsOf(f)
  BY PlaceFacts
<1>. QED
  BY <1>1, OnwardFacts DEF After

LEMMA AfterOn ==
  ASSUME NEW f, IsFunction(f), NEW m \in Insts(f), NEW q \in After(f, m)
  PROVE  Reach(Walks(f, {Place(f, m)}), {q}) \subseteq After(f, m)
<1>1. Place(f, m) \in PointsOf(f)
  BY PlaceFacts
<1>. QED
  BY <1>1, OnwardFacts DEF After

LEMMA AfterInBlock ==
  ASSUME NEW f, IsFunction(f), NEW m \in Insts(f),
         NEW j \in (Index(f, m) + 1)..End(f, Parent(f, m))
  PROVE  <<Parent(f, m), j>> \in After(f, m)
<1>. DEFINE b == Parent(f, m)
            i == Index(f, m)
            r == <<b, i + 1>>
<1>1. /\ b \in Blocks(f) /\ i \in Nat /\ i >= 1 /\ i < End(f, b)
      /\ Place(f, m) \in PointsOf(f) /\ Place(f, m) = <<b, i>>
  BY PlaceFacts DEF Place
<1>2. j \in (i + 1)..End(f, b)
  OBVIOUS
<1>. HIDE DEF b, i
<1>3. End(f, b) \in Nat
  BY <1>1, CodeFacts
<1>4. r \in NextOf(f, Place(f, m)) /\ r # Place(f, m)
  BY <1>1 DEF NextOf
<1>5. r \in After(f, m)
  BY <1>4, AfterFacts
<1>6. <<b, j>> \in Reach(Walks(f, {Place(f, m)}), {r})
  <2>1. i + 1 \in 1..End(f, b)
    BY <1>1, <1>3
  <2>2. \A k \in ((i + 1) + 1)..j : <<b, k>> \notin {Place(f, m)}
    BY <1>1
  <2>. QED
    BY <1>1, <1>2, <2>1, <2>2, StraightWalk
<1>. QED
  BY <1>5, <1>6, AfterOn DEF b

LEMMA CrossedOn ==
  ASSUME NEW f, IsFunction(f), NEW m \in Insts(f), NEW points, NEW q,
         CrossedAt(f, m, points, q),
         NEW r \in Reach(Walks(f, {Place(f, m)}), {q})
  PROVE  CrossedAt(f, m, points, r)
<1>1. PICK p \in points \cap After(f, m) : q \in Onward(f, m, p)
  BY DEF CrossedAt
<1>2. p \in PointsOf(f)
  BY <1>1, AfterFacts
<1>3. r \in Onward(f, m, p)
  BY <1>1, <1>2, OnwardFacts
<1>. QED
  BY <1>1, <1>3 DEF CrossedAt

LEMMA CrossedStep ==
  ASSUME NEW f, IsFunction(f), NEW m \in Insts(f), NEW points, NEW q,
         CrossedAt(f, m, points, q), NEW r \in NextOf(f, q), r # Place(f, m)
  PROVE  CrossedAt(f, m, points, r)
<1>1. PICK p \in points \cap After(f, m) : q \in Onward(f, m, p)
  BY DEF CrossedAt
<1>2. p \in PointsOf(f)
  BY <1>1, AfterFacts
<1>3. r \in Onward(f, m, p)
  BY <1>1, <1>2, OnwardFacts
<1>. QED
  BY <1>1, <1>3 DEF CrossedAt

\* A point met on the way down a block.
LEMMA CrossedInBlock ==
  ASSUME NEW f, IsFunction(f), NEW m \in Insts(f), NEW points, NEW b \in Blocks(f),
         NEW i \in 1..End(f, b), NEW j \in i..End(f, b), NEW k \in i..(j - 1),
         <<b, i>> \in After(f, m), <<b, k>> \in points,
         \A l \in (i + 1)..j : <<b, l>> # Place(f, m)
  PROVE  CrossedAt(f, m, points, <<b, j>>)
<1>. DEFINE p == <<b, k>>
            r == <<b, k + 1>>
            X == {Place(f, m)}
<1>0. End(f, b) \in Nat /\ i \in Nat /\ j \in Nat /\ k \in Nat /\ i >= 1 /\ j <= End(f, b)
  BY CodeFacts
<1>1. /\ k \in i..End(f, b) /\ k \in 1..End(f, b) /\ k < End(f, b)
      /\ k + 1 \in 1..End(f, b) /\ j \in (k + 1)..End(f, b) /\ k + 1 \in (i + 1)..j
  BY <1>0
<1>2. /\ \A l \in (i + 1)..k : <<b, l>> \notin X
      /\ \A l \in ((k + 1) + 1)..j : <<b, l>> \notin X
  BY <1>0
<1>3. p \in Reach(Walks(f, X), {<<b, i>>})
  BY <1>1, <1>2, StraightWalk
<1>4. p \in After(f, m)
  BY <1>3, AfterOn
<1>5. p \in PointsOf(f)
  BY <1>1, IsPoint
<1>6. r \in Onward(f, m, p)
  <2>1. r \in NextOf(f, p)
    BY <1>1 DEF NextOf
  <2>. QED
    BY <1>1, <1>5, <2>1, OnwardFacts
<1>7. <<b, j>> \in Reach(Walks(f, X), {r})
  BY <1>1, <1>2, StraightWalk
<1>8. <<b, j>> \in Onward(f, m, p)
  BY <1>5, <1>6, <1>7, OnwardFacts
<1>. QED
  BY <1>4, <1>8 DEF CrossedAt

LEMMA CrossedDownBlock ==
  ASSUME NEW f, IsFunction(f), NEW m \in Insts(f), NEW points, NEW b \in Blocks(f),
         NEW i \in 1..End(f, b), NEW j \in i..End(f, b),
         CrossedAt(f, m, points, <<b, i>>),
         \A l \in (i + 1)..j : <<b, l>> # Place(f, m)
  PROVE  CrossedAt(f, m, points, <<b, j>>)
<1>1. <<b, j>> \in Reach(Walks(f, {Place(f, m)}), {<<b, i>>})
  BY StraightWalk
<1>. QED
  BY <1>1, CrossedOn
-----------------------------------------------------------------------------
(***************************************************************************)
(* The vectors of the lattice claim no more than some walk shows: a mop    *)
(* reaches where one leads from it, and its bit for a kind of barrier is   *)
(* set where one leads from it past such a barrier.                        *)
(***************************************************************************)
RelevantKinds(Acq) ==
  {Calls} \cup (IF ~UsedForTsan THEN {} ELSE IF Acq THEN {Acquires} ELSE {Releases})

Tracked == {Calls} \cup IF UsedForTsan THEN {Acquires, Releases} ELSE {}

Bits(info, kind) ==
  IF kind = Calls THEN info.NotActive
  ELSE IF kind = Acquires THEN info.AnyAcq ELSE info.AnyRel

ShownAt(b, info) ==
  \A m \in MopList :
    <<b, 1>> = Place(func, m) \/
    /\ m \in info.Reachable => <<b, 1>> \in After(func, m)
    /\ \A kind \in Tracked : m \in Bits(info, kind) => Crossed(func, m, kind, <<b, 1>>)

ShownAtEnd(b, info) ==
  \A m \in MopList :
    /\ m \in info.Reachable => <<b, End(func, b)>> \in After(func, m)
    /\ \A kind \in Tracked :
         m \in Bits(info, kind) => Crossed(func, m, kind, <<b, End(func, b)>>)

WitnessInv ==
  \A b \in Blocks(func) : ShownAt(b, In[b]) /\ ShownAtEnd(b, Out[b])

LEMMA KindsDiffer ==
  /\ Calls # Acquires /\ Calls # Releases /\ Acquires # Releases
  /\ \A kind \in Tracked : kind \subseteq Barriers
<1>1. "call" \in Calls /\ "call" \notin Acquires /\ "call" \notin Releases
  BY DEF Calls, Acquires, Releases
<1>2. "acquire" \in Acquires /\ "acquire" \notin Releases
  BY DEF Acquires, Releases
<1>3. \A kind \in Tracked : kind \subseteq Barriers
  BY DEF Tracked, Barriers
<1>. QED
  BY <1>1, <1>2, <1>3

LEMMA TransferredBits ==
  ASSUME NEW b, NEW in, NEW kind \in Tracked
  PROVE  Bits(transfer(b, in), kind) = TransferBits(b, kind, in.Reachable, Bits(in, kind))
<1>1. Bits(transfer(b, in), Calls) = TransferBits(b, Calls, in.Reachable, Bits(in, Calls))
  BY DEF Bits, transfer
<1>2. UsedForTsan =>
        Bits(transfer(b, in), Acquires)
          = TransferBits(b, Acquires, in.Reachable, Bits(in, Acquires))
  BY KindsDiffer DEF Bits, transfer
<1>3. UsedForTsan =>
        Bits(transfer(b, in), Releases)
          = TransferBits(b, Releases, in.Reachable, Bits(in, Releases))
  BY KindsDiffer DEF Bits, transfer
<1>4. kind = Calls \/ (UsedForTsan /\ kind \in {Acquires, Releases})
  BY DEF Tracked
<1>. QED
  BY <1>1, <1>2, <1>3, <1>4

LEMMA JoinedBits ==
  ASSUME NEW a, NEW P, NEW kind, NEW m \in Bits(join(a, P), kind)
  PROVE  m \in Bits(a, kind) \/ \E p \in P : m \in Bits(Out[p], kind)
  BY DEF Bits, join

LEMMA JoinShown ==
  ASSUME AnalysisTypeOK, WitnessInv, NEW b \in Blocks(func)
  PROVE  ShownAt(b, NewIn(b))
<1>0. IsFunction(func) /\ MopList \subseteq Insts(func)
  BY DEF AnalysisTypeOK
<1>. SUFFICES ASSUME NEW m \in MopList, <<b, 1>> # Place(func, m)
              PROVE  /\ m \in NewIn(b).Reachable => <<b, 1>> \in After(func, m)
                     /\ \A kind \in Tracked : m \in Bits(NewIn(b), kind)
                                             => Crossed(func, m, kind, <<b, 1>>)
  BY DEF ShownAt
<1>1. ASSUME NEW p \in Preds(func, b)
      PROVE  /\ p \in Blocks(func)
             /\ <<b, 1>> \in NextOf(func, <<p, End(func, p)>>)
  BY <1>0, <1>1, CodeFacts DEF Preds, NextOf
<1>2. ASSUME m \in NewIn(b).Reachable
      PROVE  <<b, 1>> \in After(func, m)
  <2>1. m \in In[b].Reachable \/ \E p \in Preds(func, b) : m \in Out[p].Reachable
    BY <1>2 DEF NewIn, join
  <2>2. CASE m \in In[b].Reachable
    BY <2>2 DEF WitnessInv, ShownAt
  <2>3. ASSUME NEW p \in Preds(func, b), m \in Out[p].Reachable
        PROVE  <<b, 1>> \in After(func, m)
    <3>1. <<p, End(func, p)>> \in After(func, m)
      BY <1>1, <2>3 DEF WitnessInv, ShownAtEnd
    <3>. QED
      BY <1>0, <1>1, <3>1, AfterFacts
  <2>. QED
    BY <2>1, <2>2, <2>3
<1>3. ASSUME NEW kind \in Tracked, m \in Bits(NewIn(b), kind)
      PROVE  Crossed(func, m, kind, <<b, 1>>)
  <2>1. m \in Bits(In[b], kind) \/ \E p \in Preds(func, b) : m \in Bits(Out[p], kind)
    BY <1>3, JoinedBits DEF NewIn
  <2>2. CASE m \in Bits(In[b], kind)
    BY <2>2 DEF WitnessInv, ShownAt
  <2>3. ASSUME NEW p \in Preds(func, b), m \in Bits(Out[p], kind)
        PROVE  Crossed(func, m, kind, <<b, 1>>)
    <3>1. Crossed(func, m, kind, <<p, End(func, p)>>)
      BY <1>1, <2>3 DEF WitnessInv, ShownAtEnd
    <3>. QED
      BY <1>0, <1>1, <3>1, CrossedStep DEF Crossed
  <2>. QED
    BY <2>1, <2>2, <2>3
<1>. QED
  BY <1>2, <1>3

LEMMA TrackedInBlock ==
  ASSUME IsFunction(func), MopList \subseteq Insts(func), NEW b, NEW m \in UseGen(b),
         b \in Blocks(func)
  PROVE  m \in MopList /\ m \in Insts(func) /\ Parent(func, m) = b
<1>1. PICK i \in DOMAIN func.code[b] : func.code[b][i] = m /\ m \in Mops
  BY DEF UseGen, MopsIn
<1>2. i \in 1..Len(func.code[b])
  BY CodeFacts
<1>. QED
  BY <1>1, <1>2, OnePlace DEF UseGen

LEMMA NotInBlock ==
  ASSUME IsFunction(func), MopList \subseteq Insts(func), NEW b \in Blocks(func),
         NEW m \in MopList, m \notin UseGen(b)
  PROVE  Parent(func, m) # b /\ \A i : <<b, i>> # Place(func, m)
<1>1. /\ m \in Mops /\ func.code[Parent(func, m)][Index(func, m)] = m
      /\ Index(func, m) \in 1..Len(func.code[Parent(func, m)]) /\ Parent(func, m) \in Blocks(func)
  BY PlaceFacts
<1>2. Index(func, m) \in DOMAIN func.code[Parent(func, m)]
  BY <1>1, CodeFacts
<1>3. Parent(func, m) # b
  BY <1>1, <1>2 DEF UseGen, MopsIn
<1>. QED
  BY <1>3 DEF Place

LEMMA TransferShown ==
  ASSUME IsFunction(func), MopList \subseteq Insts(func), NEW b \in Blocks(func),
         NEW in, ShownAt(b, in)
  PROVE  ShownAtEnd(b, transfer(b, in))
<1>. DEFINE end == End(func, b)
<1>0. /\ end \in Nat /\ end >= 1 /\ end = AfterLast(b) /\ 1 \in 1..end /\ end \in 1..end
      /\ Len(func.code[b]) \in Nat /\ DOMAIN func.code[b] = 1..Len(func.code[b])
  BY CodeFacts DEF End, AfterLast
<1>. SUFFICES ASSUME NEW m \in MopList
              PROVE  /\ m \in transfer(b, in).Reachable => <<b, end>> \in After(func, m)
                     /\ \A kind \in Tracked : m \in Bits(transfer(b, in), kind)
                                             => Crossed(func, m, kind, <<b, end>>)
  BY DEF ShownAtEnd
<1>. HIDE DEF end
<1>1. CASE m \in UseGen(b)
  <2>1. m \in Insts(func) /\ Parent(func, m) = b
    BY <1>1, TrackedInBlock
  <2>2. /\ Index(func, m) \in Nat /\ Index(func, m) >= 1 /\ Index(func, m) < end
        /\ func.code[b][Index(func, m)] = m /\ m \in Mops
    BY <2>1, PlaceFacts DEF end
  <2>3. \A j \in (Index(func, m) + 1)..end : <<b, j>> \in After(func, m)
    BY <2>1, AfterInBlock DEF end
  <2>4. <<b, end>> \in After(func, m)
    BY <1>0, <2>2, <2>3
  <2>5. ASSUME NEW kind \in Tracked, m \in Bits(transfer(b, in), kind)
        PROVE  Crossed(func, m, kind, <<b, end>>)
    <3>1. m \in Gen(b, kind)
      BY <1>1, <2>5, TransferredBits DEF TransferBits
    <3>2. PICK i \in DOMAIN func.code[b] :
            func.code[b][i] = m /\ HasBarrier(b, i, AfterLast(b), kind)
      BY <3>1 DEF Gen
    <3>3. i = Index(func, m)
      BY <1>0, <2>1, <2>2, <3>2, OnePlace
    <3>4. PICK k \in i..(end - 1) : func.code[b][k] \in kind
      BY <1>0, <3>2 DEF HasBarrier
    <3>5. k # i
      BY <2>2, <3>2, <3>4, KindsDiffer, MopFunctionAssumption
    <3>6. /\ i + 1 \in 1..end /\ end \in (i + 1)..end /\ k \in (i + 1)..(end - 1)
          /\ <<b, i + 1>> \in After(func, m)
      BY <1>0, <2>2, <2>3, <3>3, <3>4, <3>5
    <3>7. \A l \in ((i + 1) + 1)..end : <<b, l>> # Place(func, m)
      BY <2>2, <3>3 DEF Place
    <3>8. <<b, k>> \in BarriersAt(func, kind)
      BY <1>0, <3>4, <3>6, IsPoint DEF BarriersAt, end
    <3>. QED
      BY <2>1, <3>6, <3>7, <3>8, CrossedInBlock DEF end, Crossed
  <2>. QED
    BY <2>4, <2>5
<1>2. CASE m \notin UseGen(b)
  <2>1. \A i : <<b, i>> # Place(func, m)
    BY <1>2, NotInBlock
  <2>2. /\ m \in in.Reachable => <<b, 1>> \in After(func, m)
        /\ \A kind \in Tracked : m \in Bits(in, kind) => Crossed(func, m, kind, <<b, 1>>)
    BY <2>1 DEF ShownAt
  <2>3. end \in 1..End(func, b)
    BY <1>0 DEF end
  <2>4. <<b, end>> \in Reach(Walks(func, {Place(func, m)}), {<<b, 1>>})
    <3>1. \A l \in (1 + 1)..end : <<b, l>> \notin {Place(func, m)}
      BY <2>1
    <3>. QED
      BY <1>0, <2>3, <3>1, StraightWalk DEF end
  <2>5. m \in transfer(b, in).Reachable => <<b, end>> \in After(func, m)
    <3>1. m \in transfer(b, in).Reachable => m \in in.Reachable
      BY <1>2 DEF transfer
    <3>. QED
      BY <2>2, <2>4, <3>1, AfterOn
  <2>6. ASSUME NEW kind \in Tracked, m \in Bits(transfer(b, in), kind)
        PROVE  Crossed(func, m, kind, <<b, end>>)
    <3>1. m \in TransferBits(b, kind, in.Reachable, Bits(in, kind))
      BY <2>6, TransferredBits
    <3>2. m \in IF ContainsBarrier(b, kind) THEN in.Reachable ELSE Bits(in, kind)
      BY <1>2, <3>1 DEF TransferBits, Gen
    <3>3. CASE ContainsBarrier(b, kind)
      <4>1. <<b, 1>> \in After(func, m)
        BY <2>2, <3>2, <3>3
      <4>2. PICK k \in 1..(end - 1) : func.code[b][k] \in kind
        BY <1>0, <3>3 DEF ContainsBarrier, HasBarrier
      <4>3. <<b, k>> \in BarriersAt(func, kind)
        BY <1>0, <4>2, IsPoint DEF BarriersAt, end
      <4>. QED
        BY <1>0, <2>1, <4>1, <4>2, <4>3, CrossedInBlock DEF end, Crossed
    <3>4. CASE ~ContainsBarrier(b, kind)
      <4>1. Crossed(func, m, kind, <<b, 1>>)
        BY <2>2, <3>2, <3>4
      <4>. QED
        BY <2>4, <4>1, CrossedOn DEF Crossed
    <3>. QED
      BY <3>3, <3>4
  <2>. QED
    BY <2>5, <2>6
<1>. QED
  BY <1>1, <1>2 DEF end

LEMMA UpdateShown ==
  ASSUME AnalysisTypeOK, WitnessInv, NEW b \in Blocks(func), updateInfo(b),
         UNCHANGED input_vars
  PROVE  WitnessInv'
<1>0. IsFunction(func) /\ MopList \subseteq Insts(func) /\ UNCHANGED <<func, MopList, UsedForTsan>>
  BY DEF AnalysisTypeOK, input_vars
<1>1. ShownAt(b, NewIn(b))
  BY JoinShown
<1>2. ShownAtEnd(b, NewOut(b))
  BY <1>0, <1>1, TransferShown DEF NewOut
<1>3. /\ In'[b] = NewIn(b) /\ Out'[b] = NewOut(b)
      /\ \A c \in Blocks(func) \ {b} : In'[c] = In[c] /\ Out'[c] = Out[c]
  BY UpdateEffect
<1>4. \A c \in Blocks(func) : ShownAt(c, In'[c]) /\ ShownAtEnd(c, Out'[c])
  BY <1>1, <1>2, <1>3 DEF WitnessInv
<1>5. Tracked' = Tracked
  BY <1>0 DEF Tracked
<1>. QED
  BY <1>0, <1>4, <1>5 DEF WitnessInv, ShownAt, ShownAtEnd, Bits

LEMMA WitnessStep ==
  ASSUME AnalysisInv, WitnessInv, [Next]_vars
  PROVE  WitnessInv'
<1>0. AnalysisTypeOK
  BY DEF AnalysisInv
<1>1. CASE UNCHANGED <<input_vars, info_vars>>
  <2>1. UNCHANGED <<func, MopList, UsedForTsan, In, Out>>
    BY <1>1 DEF input_vars, info_vars
  <2>2. Tracked' = Tracked
    BY <2>1 DEF Tracked
  <2>. QED
    BY <2>1, <2>2 DEF WitnessInv, ShownAt, ShownAtEnd, Bits
<1>2. CASE VisitInRPO
  <2>1. Head(RPOT) \in Blocks(func)
    BY <1>0, <1>2 DEF VisitInRPO, AnalysisTypeOK
  <2>. QED
    BY <1>0, <1>2, <2>1, UpdateShown DEF VisitInRPO
<1>3. ASSUME NEW b \in Blocks(func), VisitFromWorkList(b)
      PROVE  WitnessInv'
  BY <1>0, <1>3, UpdateShown DEF VisitFromWorkList
<1>4. \/ UNCHANGED <<input_vars, info_vars>>
      \/ VisitInRPO
      \/ \E b \in Blocks(func) : VisitFromWorkList(b)
  BY DEF Next, DistillNext, Analyze, AnalysisNext, FinishAnalysis, BlockEdges, FillRoots,
     FillCycle, Distilled, Execute, Access, PassBarrier, Branch, Return, vars, analysis_vars
<1>. QED
  BY <1>1, <1>2, <1>3, <1>4

LEMMA WitnessInit == Init => WitnessInv
<1>. SUFFICES ASSUME Init PROVE WitnessInv
  OBVIOUS
<1>1. \A kind : Bits(Bottom, kind) = {}
  BY DEF Bits, Bottom
<1>2. Bottom.Reachable = {}
  BY DEF Bottom
<1>3. \A b \in Blocks(func) : In[b] = Bottom /\ Out[b] = Bottom
  BY DEF Init, AnalysisInit
<1>. QED
  BY <1>1, <1>2, <1>3 DEF WitnessInv, ShownAt, ShownAtEnd

-----------------------------------------------------------------------------
(***************************************************************************)
(* The vectors of an analysis that has ended claim no less.                *)
(***************************************************************************)
\* The walks from m past a barrier come to the i-th point of block b only where the
\* vector or the block itself has it.
Flagged(m, b, i, kind) ==
  IF Before(m, b, i)
  THEN \E j \in 1..(i - 1) : func.code[b][j] = m /\ HasBarrier(b, j, i, kind)
  ELSE m \in Bits(In[b], kind) \/ HasBarrier(b, 1, i, kind)

Arrives(m, b, i) == m \in In[b].Reachable \/ Before(m, b, i)

Solved == \A b \in Blocks(func) : Settled(b)

LEMMA SolvedBlock ==
  ASSUME AnalysisTypeOK, Solved, NEW p \in Blocks(func), NEW b \in func.succs[p]
  PROVE  /\ b \in Blocks(func)
         /\ transfer(p, In[p]).Reachable \subseteq In[b].Reachable
         /\ \A kind \in Tracked : TransferBits(p, kind, In[p].Reachable, Bits(In[p], kind))
                                    \subseteq Bits(In[b], kind)
<1>1. b \in Blocks(func) /\ p \in Preds(func, b)
  BY DEF AnalysisTypeOK, IsFunction, Preds
<1>2. Below(Out[p], In[b]) /\ Out[p] = transfer(p, In[p])
  BY <1>1 DEF Solved, Settled
<1>3. \A kind : Bits(Out[p], kind) \subseteq Bits(In[b], kind)
  BY <1>2 DEF Below, Bits
<1>. QED
  BY <1>1, <1>2, <1>3, TransferredBits DEF Below

LEMMA BeforeNext ==
  ASSUME IsFunction(func), NEW b \in Blocks(func), NEW i \in 1..Len(func.code[b]), NEW m
  PROVE  Before(m, b, i + 1) <=> Before(m, b, i) \/ func.code[b][i] = m
<1>1. i \in Nat /\ i >= 1
  BY CodeFacts
<1>2. (i + 1) - 1 = i
  BY <1>1
<1>3. \A j : j \in 1..i <=> j \in 1..(i - 1) \/ j = i
  BY <1>1
<1>. QED
  BY <1>2, <1>3 DEF Before

LEMMA ArrivesOn ==
  ASSUME AnalysisTypeOK, Solved, NEW m \in MopList,
         NEW p \in PointsOf(func), Arrives(m, p[1], p[2]), NEW r \in NextOf(func, p)
  PROVE  Arrives(m, r[1], r[2])
<1>0. IsFunction(func) /\ m \in Insts(func) /\ MopList \subseteq Insts(func)
  BY DEF AnalysisTypeOK
<1>1. p[1] \in Blocks(func) /\ p[2] \in 1..End(func, p[1]) /\ Len(func.code[p[1]]) \in Nat
      /\ DOMAIN func.code[p[1]] = 1..Len(func.code[p[1]])
  BY <1>0, PointFacts, CodeFacts
<1>2. CASE p[2] < End(func, p[1]) /\ r = <<p[1], p[2] + 1>>
  <2>1. p[2] \in 1..Len(func.code[p[1]])
    BY <1>1, <1>2 DEF End
  <2>. QED
    BY <1>0, <1>1, <1>2, <2>1, BeforeNext DEF Arrives
<1>3. ASSUME p[2] = End(func, p[1]), NEW s \in func.succs[p[1]], s \in Blocks(func), r = <<s, 1>>
      PROVE  Arrives(m, r[1], r[2])
  <2>1. m \in In[p[1]].Reachable \/ m \in UseGen(p[1])
    <3>1. CASE Before(m, p[1], p[2])
      <4>1. PICK j \in 1..Len(func.code[p[1]]) : func.code[p[1]][j] = m
        BY <1>1, <1>3, <3>1 DEF Before, End
      <4>. QED
        BY <1>0, <1>1, <4>1, PlaceFacts DEF UseGen, MopsIn
    <3>. QED
      BY <3>1 DEF Arrives
  <2>2. m \in In[s].Reachable
    BY <1>1, <2>1, SolvedBlock DEF transfer
  <2>. QED
    BY <1>3, <2>2 DEF Arrives
<1>. QED
  BY <1>0, <1>2, <1>3, NextCases

LEMMA AllArrive ==
  ASSUME AnalysisTypeOK, Solved, NEW m \in MopList, NEW q \in After(func, m)
  PROVE  Arrives(m, q[1], q[2])
<1>. DEFINE T == {p \in PointsOf(func) : Arrives(m, p[1], p[2])}
            X == {Place(func, m)}
            N == Walks(func, X)[Place(func, m)]
<1>0. IsFunction(func) /\ m \in Insts(func)
  BY DEF AnalysisTypeOK
<1>1. /\ Place(func, m) \in PointsOf(func) /\ Parent(func, m) \in Blocks(func)
      /\ Index(func, m) \in 1..Len(func.code[Parent(func, m)])
      /\ Index(func, m) < End(func, Parent(func, m))
      /\ func.code[Parent(func, m)][Index(func, m)] = m
      /\ Place(func, m)[1] = Parent(func, m) /\ Place(func, m)[2] = Index(func, m)
  BY <1>0, PlaceFacts
<1>2. \A p \in T : \A r \in NextOf(func, p) : r \in T
  BY <1>0, ArrivesOn, NextCases
<1>3. N \subseteq T
  <2>1. N \subseteq {<<Parent(func, m), Index(func, m) + 1>>}
    BY <1>1 DEF Walks, NextOf
  <2>2. N \subseteq PointsOf(func)
    BY <1>0, <1>1, NextCases DEF Walks
  <2>3. Before(m, Parent(func, m), Index(func, m) + 1)
    BY <1>0, <1>1, BeforeNext
  <2>. HIDE DEF N
  <2>. QED
    BY <2>1, <2>2, <2>3 DEF Arrives
<1>4. After(func, m) = Reach(Walks(func, X), N)
  BY DEF After, Onward
<1>5. q \in T
  <2>. HIDE DEF T, N
  <2>1. T \in SUBSET PointsOf(func)
    BY DEF T
  <2>. QED
    BY <1>0, <1>2, <1>3, <1>4, <2>1, WalkStaysIn
<1>. QED
  BY <1>5

LEMMA FlaggedOn ==
  ASSUME AnalysisTypeOK, Solved, NEW m \in MopList, NEW kind \in Tracked,
         NEW p \in PointsOf(func), p # Place(func, m), Arrives(m, p[1], p[2]),
         Flagged(m, p[1], p[2], kind),
         NEW r \in NextOf(func, p)
  PROVE  Flagged(m, r[1], r[2], kind)
<1>0. IsFunction(func) /\ m \in Insts(func) /\ MopList \subseteq Insts(func) /\ m \in Mops
  BY PlaceFacts DEF AnalysisTypeOK
<1>. DEFINE b == p[1]
            i == p[2]
<1>1. /\ b \in Blocks(func) /\ i \in 1..End(func, b) /\ Len(func.code[b]) \in Nat
      /\ i \in Nat /\ i >= 1 /\ p = <<b, i>>
      /\ DOMAIN func.code[b] = 1..Len(func.code[b]) /\ End(func, b) = Len(func.code[b]) + 1
      /\ End(func, b) = AfterLast(b)
  BY <1>0, PointFacts, CodeFacts DEF End, AfterLast
<1>2. Arrives(m, b, i) /\ Flagged(m, b, i, kind)
  OBVIOUS
<1>3. p[1] = b /\ p[2] = i
  OBVIOUS
<1>. HIDE DEF b, i
<1>4. CASE i < End(func, b) /\ r = <<b, i + 1>>
  <2>1. i \in 1..Len(func.code[b])
    BY <1>1, <1>4
  <2>2. func.code[b][i] # m
    BY <1>0, <1>1, <2>1, OnePlace
  <2>3. Before(m, b, i + 1) <=> Before(m, b, i)
    BY <1>0, <1>1, <2>1, <2>2, BeforeNext
  <2>4. \A j \in 1..i : HasBarrier(b, j, i, kind) => HasBarrier(b, j, i + 1, kind)
    BY <1>1 DEF HasBarrier
  <2>5. \A j \in 1..(i - 1) : j \in 1..((i + 1) - 1) /\ j \in 1..i
    BY <1>1
  <2>6. Flagged(m, b, i + 1, kind)
    BY <1>1, <1>2, <2>3, <2>4, <2>5 DEF Flagged
  <2>. QED
    BY <1>4, <2>6
<1>5. ASSUME i = End(func, b), NEW s \in func.succs[b], s \in Blocks(func), r = <<s, 1>>
      PROVE  Flagged(m, r[1], r[2], kind)
  <2>1. m \in TransferBits(b, kind, In[b].Reachable, Bits(In[b], kind))
    <3>1. CASE Before(m, b, i)
      <4>1. PICK j \in 1..(i - 1) : func.code[b][j] = m /\ HasBarrier(b, j, i, kind)
        BY <1>2, <3>1 DEF Flagged
      <4>2. j \in DOMAIN func.code[b]
        BY <1>1, <1>5
      <4>. QED
        BY <1>0, <1>1, <1>5, <4>1, <4>2 DEF TransferBits, Gen, UseGen, MopsIn
    <3>2. CASE ~Before(m, b, i)
      <4>1. m \notin UseGen(b)
        BY <1>1, <1>5, <3>2 DEF UseGen, MopsIn, Before
      <4>2. m \in In[b].Reachable
        BY <1>2, <3>2 DEF Arrives
      <4>3. m \in Bits(In[b], kind) \/ ContainsBarrier(b, kind)
        BY <1>1, <1>2, <1>5, <3>2 DEF Flagged, ContainsBarrier
      <4>. QED
        BY <4>1, <4>2, <4>3 DEF TransferBits
    <3>. QED
      BY <3>1, <3>2
  <2>2. m \in Bits(In[s], kind)
    BY <1>1, <2>1, SolvedBlock
  <2>3. ~Before(m, s, 1)
    BY DEF Before
  <2>. QED
    BY <1>5, <2>2, <2>3 DEF Flagged
<1>. QED
  BY <1>0, <1>3, <1>4, <1>5, NextCases

\* Past the barrier itself.
LEMMA FlaggedAfterBarrier ==
  ASSUME AnalysisTypeOK, NEW m \in MopList, NEW kind \in Tracked,
         NEW p \in BarriersAt(func, kind), NEW r \in NextOf(func, p)
  PROVE  Flagged(m, r[1], r[2], kind)
<1>0. IsFunction(func) /\ m \in Mops
  BY PlaceFacts DEF AnalysisTypeOK
<1>. DEFINE b == p[1]
            i == p[2]
<1>1. /\ p \in PointsOf(func) /\ i < End(func, b) /\ func.code[b][i] \in kind
  BY DEF BarriersAt
<1>2. /\ b \in Blocks(func) /\ i \in 1..End(func, b) /\ Len(func.code[b]) \in Nat
      /\ i \in Nat /\ i >= 1 /\ End(func, b) = Len(func.code[b]) + 1
  BY <1>0, <1>1, PointFacts, CodeFacts DEF End
<1>3. r = <<b, i + 1>>
  BY <1>1 DEF NextOf
<1>. HIDE DEF b, i
<1>4. i \in 1..Len(func.code[b]) /\ func.code[b][i] # m
  BY <1>0, <1>1, <1>2, KindsDiffer, MopFunctionAssumption
<1>5. Before(m, b, i + 1) <=> Before(m, b, i)
  BY <1>0, <1>2, <1>4, BeforeNext
<1>6. \A j \in 1..i : HasBarrier(b, j, i + 1, kind)
  BY <1>1, <1>2 DEF HasBarrier
<1>7. Flagged(m, b, i + 1, kind)
  <2>1. CASE Before(m, b, i)
    <3>1. PICK j \in 1..(i - 1) : func.code[b][j] = m
      BY <2>1 DEF Before
    <3>2. j \in 1..i /\ j \in 1..((i + 1) - 1)
      BY <1>2
    <3>. QED
      BY <1>5, <1>6, <2>1, <3>1, <3>2 DEF Flagged
  <2>2. CASE ~Before(m, b, i)
    BY <1>2, <1>5, <1>6, <2>2 DEF Flagged
  <2>. QED
    BY <2>1, <2>2
<1>. QED
  BY <1>3, <1>7

LEMMA CrossedIsFlagged ==
  ASSUME AnalysisTypeOK, Solved, NEW m \in MopList, NEW kind \in Tracked,
         NEW q, Crossed(func, m, kind, q)
  PROVE  Flagged(m, q[1], q[2], kind)
<1>0. IsFunction(func) /\ m \in Insts(func)
  BY DEF AnalysisTypeOK
<1>1. PICK p \in BarriersAt(func, kind) \cap After(func, m) : q \in Onward(func, m, p)
  BY DEF Crossed, CrossedAt
<1>. DEFINE T == {r \in PointsOf(func) : /\ r # Place(func, m)
                                         /\ Arrives(m, r[1], r[2])
                                         /\ Flagged(m, r[1], r[2], kind)}
<1>2. p \in PointsOf(func) /\ Arrives(m, p[1], p[2])
  BY <1>1, AllArrive DEF BarriersAt
<1>3. ASSUME NEW r \in NextOf(func, p)
      PROVE  r = Place(func, m) \/ r \in T
  BY <1>0, <1>1, <1>2, NextCases, ArrivesOn, FlaggedAfterBarrier
<1>4. ASSUME NEW t \in T, NEW r \in NextOf(func, t)
      PROVE  r = Place(func, m) \/ r \in T
  BY <1>0, NextCases, ArrivesOn, FlaggedOn
<1>5. q \in T
  <2>. HIDE DEF T
  <2>1. T \in SUBSET PointsOf(func)
    BY DEF T
  <2>. QED
    BY <1>0, <1>1, <1>2, <1>3, <1>4, <2>1, OnwardStaysIn
<1>. QED
  BY <1>5

-----------------------------------------------------------------------------
(***************************************************************************)
(* The query: no, exactly where a walk leads past a barrier.               *)
(***************************************************************************)
LEMMA CrossedKinds ==
  ASSUME NEW f, NEW m, NEW Acq, NEW q
  PROVE  /\ \A skipped :
              CrossedAt(f, m, BarriersAt(f, RelevantBarriers(Acq)) \ skipped, q) <=>
                \E kind \in RelevantKinds(Acq) :
                  CrossedAt(f, m, BarriersAt(f, kind) \ skipped, q)
         /\ \A b, i, j : HasBarrier(b, i, j, RelevantBarriers(Acq)) <=>
              \E kind \in RelevantKinds(Acq) : HasBarrier(b, i, j, kind)
         /\ \A x : x \in RelevantBarriers(Acq) <=> \E kind \in RelevantKinds(Acq) : x \in kind
<1>1. \A x : x \in RelevantBarriers(Acq) <=> \E kind \in RelevantKinds(Acq) : x \in kind
  BY DEF RelevantBarriers, RelevantKinds
<1>2. \A p : p \in BarriersAt(f, RelevantBarriers(Acq))
             <=> \E kind \in RelevantKinds(Acq) : p \in BarriersAt(f, kind)
  BY <1>1 DEF BarriersAt
<1>. QED
  BY <1>1, <1>2 DEF CrossedAt, HasBarrier

LEMMA ActiveKinds ==
  ASSUME NEW m, NEW info, NEW Acq \in BOOLEAN
  PROVE  isActive(m, info, Acq) <=>
           m \in info.Reachable /\ \A kind \in RelevantKinds(Acq) : m \notin Bits(info, kind)
  BY KindsDiffer DEF isActive, RelevantKinds, Bits

LEMMA RelevantAreTracked ==
  ASSUME NEW Acq
  PROVE  RelevantKinds(Acq) \subseteq Tracked
  BY DEF RelevantKinds, Tracked

\* Down one block.
LEMMA ExactInBlock ==
  ASSUME IsFunction(func), NEW F \in Insts(func), NEW T \in Insts(func),
         Parent(func, F) = Parent(func, T), Index(func, F) < Index(func, T),
         NEW kind \in Tracked
  PROVE  Crossed(func, F, kind, Place(func, T)) <=>
           HasBarrier(Parent(func, T), Index(func, F), Index(func, T), kind)
<1>. DEFINE b == Parent(func, T)
            i == Index(func, F)
            j == Index(func, T)
<1>1. /\ b \in Blocks(func) /\ i \in Nat /\ j \in Nat /\ i >= 1 /\ j < End(func, b)
      /\ Place(func, F) = <<b, i>> /\ Place(func, T) = <<b, j>>
      /\ func.code[b][i] = F /\ func.code[b][j] = T /\ F \in Mops /\ T \in Mops
  BY PlaceFacts DEF Place
<1>2. i < j /\ Parent(func, F) = b /\ Index(func, F) = i
  OBVIOUS
<1>. HIDE DEF b, i, j
<1>0. End(func, b) \in Nat
  BY <1>1, CodeFacts
<1>3. ASSUME HasBarrier(b, i, j, kind)
      PROVE  Crossed(func, F, kind, <<b, j>>)
  <2>1. PICK k \in i..(j - 1) : func.code[b][k] \in kind
    BY <1>3 DEF HasBarrier
  <2>2. k # i
    BY <1>1, <2>1, KindsDiffer, MopFunctionAssumption
  <2>3. /\ i + 1 \in 1..End(func, b) /\ i + 1 \in (i + 1)..End(func, b)
        /\ j \in (i + 1)..End(func, b) /\ k \in (i + 1)..(j - 1)
    BY <1>0, <1>1, <1>2, <2>1, <2>2
  <2>4. <<b, i + 1>> \in After(func, F)
    BY <1>2, <2>3, AfterInBlock
  <2>5. \A l \in ((i + 1) + 1)..j : <<b, l>> # Place(func, F)
    BY <1>1
  <2>6. <<b, k>> \in BarriersAt(func, kind)
    BY <1>0, <1>1, <2>1, <2>3, IsPoint DEF BarriersAt
  <2>. QED
    BY <1>1, <2>3, <2>4, <2>5, <2>6, CrossedInBlock DEF Crossed
<1>4. ASSUME ~HasBarrier(b, i, j, kind), Crossed(func, F, kind, <<b, j>>)
      PROVE  FALSE
  <2>. DEFINE S == {q \in PointsOf(func) : q[1] # b \/ q[2] < i \/ q[2] > j}
  <2>1. PICK p \in BarriersAt(func, kind) \cap After(func, F) :
          <<b, j>> \in Onward(func, F, p)
    BY <1>4 DEF Crossed, CrossedAt
  <2>2. p \in PointsOf(func) /\ func.code[p[1]][p[2]] \in kind
    BY <2>1 DEF BarriersAt
  <2>3. p \in S
    <3>. SUFFICES ASSUME p[1] = b, ~(p[2] < i), ~(p[2] > j) PROVE FALSE
      BY <2>2
    <3>1. p[2] \in Nat
      BY <2>2, PointFacts
    <3>2. p[2] # j
      BY <1>1, <2>2, KindsDiffer, MopFunctionAssumption
    <3>3. p[2] \in i..(j - 1)
      BY <1>1, <3>1, <3>2
    <3>. QED
      BY <1>4, <2>2, <3>3 DEF HasBarrier
  <2>4. ASSUME NEW q \in S, NEW r \in NextOf(func, q)
        PROVE  r = Place(func, F) \/ r \in S
    <3>1. q \in PointsOf(func) /\ q[2] \in Nat
      BY <2>4, PointFacts
    <3>2. r \in PointsOf(func)
      BY <3>1, NextCases
    <3>3. CASE r = <<q[1], q[2] + 1>>
      BY <1>1, <1>2, <3>1, <3>2, <3>3
    <3>4. ASSUME NEW s, r = <<s, 1>>
          PROVE  r = Place(func, F) \/ r \in S
      BY <1>1, <1>2, <3>2, <3>4
    <3>. QED
      BY <3>1, <3>3, <3>4, NextCases
  <2>5. S \in SUBSET PointsOf(func)
    OBVIOUS
  <2>6. <<b, j>> \in S
    <3>. HIDE DEF S
    <3>. QED
      BY <2>1, <2>2, <2>3, <2>4, <2>5, OnwardStaysIn
  <2>. QED
    BY <1>1, <1>2, <2>6
<1>. QED
  BY <1>1, <1>3, <1>4 DEF b, i, j

\* The walks of the properties are those of the proofs.
SkippedPoints(F, T) ==
  IF \/ Parent(func, F) = Parent(func, T)
     \/ <<Parent(func, T), 1>> \in Reach(Walks(func, {Place(func, F)}), {Place(func, T)})
  THEN {}
  ELSE {<<Parent(func, T), i>> : i \in OpeningMarkers(Parent(func, T))}

LEMMA SameWalks ==
  /\ Points = PointsOf(func)
  /\ \A p : NextPoints(p) = NextOf(func, p)
  /\ \A barriers : BarrierPoints(barriers) = BarriersAt(func, barriers)
  /\ \A m : PointOf(m) = Place(func, m)
  /\ \A m, points, q : OnWalk(points, PointOf(m), q) <=> CrossedAt(func, m, points, q)
  /\ \A e : SkippedMarkers(e) = SkippedPoints(e.From, To(e))
<1>1. \A b : AfterLast(b) = End(func, b)
  BY DEF AfterLast, End
<1>2. Points = PointsOf(func)
  BY <1>1 DEF Points, PointsOf
<1>3. \A p : NextPoints(p) = NextOf(func, p)
  BY <1>1 DEF NextPoints, NextOf
<1>4. \A barriers : BarrierPoints(barriers) = BarriersAt(func, barriers)
  BY <1>1, <1>2 DEF BarrierPoints, BarriersAt
<1>5. \A m : PointOf(m) = Place(func, m)
  BY DEF PointOf, Place
<1>6. \A m : WalksFrom(PointOf(m)) = Walks(func, {Place(func, m)})
  BY <1>2, <1>3, <1>5 DEF Walks, WalksFrom
<1>7. \A m, points, q : OnWalk(points, PointOf(m), q) <=> CrossedAt(func, m, points, q)
  BY <1>5, <1>6 DEF OnWalk, CrossedAt, After, Onward
<1>8. \A e : SkippedMarkers(e) = SkippedPoints(e.From, To(e))
  BY <1>5, <1>6 DEF SkippedMarkers, SkippedPoints
<1>. QED
  BY <1>2, <1>3, <1>4, <1>5, <1>7, <1>8

\* Instructions 1 to j-1 of block b hold one of the barriers, its opening markers apart.
BehindMarkers(b, j, barriers) ==
  \E k \in (1..(j - 1)) \ OpeningMarkers(b) : func.code[b][k] \in barriers

LEMMA OpeningFacts ==
  ASSUME IsFunction(func), NEW b \in Blocks(func), NEW i \in OpeningMarkers(b)
  PROVE  /\ i \in 1..Len(func.code[b]) /\ i \in Nat /\ i >= 1
         /\ \A k \in 1..i : func.code[b][k] \in Lifetimes
         /\ func.code[b][i] \in Lifetimes
<1>1. DOMAIN func.code[b] = 1..Len(func.code[b]) /\ Len(func.code[b]) \in Nat
  BY CodeFacts
<1>2. i \in 1..Len(func.code[b]) /\ \A k \in 1..i : func.code[b][k] \in Lifetimes
  BY <1>1 DEF OpeningMarkers
<1>3. i \in 1..i
  BY <1>1, <1>2
<1>. QED
  BY <1>1, <1>2, <1>3

LEMMA MarkersAreNoMops ==
  /\ Lifetimes \subseteq Barriers /\ \A m \in Mops : m \notin Lifetimes
  /\ Lifetimes \cap ((Calls \ Lifetimes) \cup Acquires \cup Releases) = {}
<1>1. Lifetimes \subseteq Calls
  BY DEF Calls
<1>2. Lifetimes \subseteq Barriers
  BY <1>1 DEF Barriers
<1>3. "lifetime" \notin Acquires \cup Releases
  BY DEF Acquires, Releases
<1>. QED
  BY <1>2, <1>3, MopFunctionAssumption DEF Lifetimes

\* A walk comes to an access of block b, from elsewhere, through the start of b.
LEMMA ThroughStart ==
  ASSUME IsFunction(func), NEW F \in Insts(func), NEW p \in PointsOf(func),
         NEW b \in Blocks(func), NEW j \in Nat, p[1] # b \/ ~(p[2] < j),
         <<b, j>> \in Onward(func, F, p)
  PROVE  <<b, 1>> \in Onward(func, F, p)
<1>. SUFFICES ASSUME <<b, 1>> \notin Onward(func, F, p) PROVE FALSE
  OBVIOUS
<1>. DEFINE S == {q \in Onward(func, F, p) : q[1] # b \/ ~(q[2] <= j)}
<1>1. Onward(func, F, p) \subseteq PointsOf(func)
  BY OnwardFacts
<1>2. ASSUME NEW q \in PointsOf(func), q[1] # b \/ ~(q[2] < j),
             NEW r \in NextOf(func, q), r \in Onward(func, F, p)
      PROVE  r \in S
  <2>1. q[2] \in Nat
    BY PointFacts
  <2>2. CASE r = <<q[1], q[2] + 1>>
    BY <1>2, <2>1, <2>2
  <2>3. ASSUME NEW s, r = <<s, 1>>
        PROVE  r \in S
    BY <1>2, <2>3
  <2>. QED
    BY <2>2, <2>3, NextCases
<1>3. \A r \in NextOf(func, p) : r = Place(func, F) \/ r \in S
  BY <1>2, OnwardFacts
<1>4. ASSUME NEW q \in S, NEW r \in NextOf(func, q)
      PROVE  r = Place(func, F) \/ r \in S
  <2>1. q \in PointsOf(func) /\ (q[1] # b \/ ~(q[2] < j))
    <3>1. q \in PointsOf(func) /\ (q[1] # b \/ ~(q[2] <= j))
      BY <1>1
    <3>. QED
      BY <3>1, PointFacts
  <2>2. r = Place(func, F) \/ r \in Onward(func, F, p)
    BY OnwardFacts
  <2>. QED
    BY <1>2, <2>1, <2>2
<1>5. Onward(func, F, p) \subseteq S
  <2>1. S \in SUBSET PointsOf(func)
    BY <1>1
  <2>. HIDE DEF S
  <2>. QED
    BY <1>3, <1>4, <2>1, OnwardStaysIn
<1>. QED
  BY <1>5

\* From one of the opening markers of its block, it comes back there through the access.
LEMMA BackThrough ==
  ASSUME IsFunction(func), NEW F \in Insts(func), NEW b \in Blocks(func),
         NEW j \in 1..End(func, b), NEW i \in 1..(j - 1),
         <<b, 1>> \in Onward(func, F, <<b, i>>)
  PROVE  <<b, 1>> \in Reach(Walks(func, {Place(func, F)}), {<<b, j>>})
<1>. DEFINE R == Reach(Walks(func, {Place(func, F)}), {<<b, j>>})
            down == {<<b, l>> : l \in (i + 1)..j}
            S == down \cup R
<1>0. End(func, b) \in Nat /\ i \in Nat /\ i >= 1 /\ j \in Nat /\ i < j /\ j <= End(func, b)
  BY CodeFacts
<1>1. /\ {<<b, j>>} \subseteq PointsOf(func) /\ <<b, i>> \in PointsOf(func)
      /\ down \subseteq PointsOf(func)
  <2>1. \A l \in (i + 1)..j : l \in 1..End(func, b)
    BY <1>0
  <2>2. i \in 1..End(func, b)
    BY <1>0
  <2>. QED
    BY <2>1, <2>2, IsPoint
<1>2. <<b, j>> \in R /\ R \subseteq PointsOf(func)
  BY <1>1, WalkIsIn
<1>3. ASSUME NEW l \in i..j, l < j, NEW r \in NextOf(func, <<b, l>>)
      PROVE  r \in S
  <2>1. r = <<b, l + 1>>
    BY <1>0, <1>3 DEF NextOf
  <2>2. l + 1 \in (i + 1)..j
    BY <1>0, <1>3
  <2>. QED
    BY <2>1, <2>2
<1>4. \A q \in R : \A r \in NextOf(func, q) : r = Place(func, F) \/ r \in R
  BY <1>1, WalkStep
<1>5. ASSUME NEW q \in S, NEW r \in NextOf(func, q)
      PROVE  r = Place(func, F) \/ r \in S
  <2>1. CASE q \in R
    BY <1>4, <2>1
  <2>2. ASSUME NEW l \in (i + 1)..j, q = <<b, l>>
        PROVE  r = Place(func, F) \/ r \in S
    <3>1. CASE l = j
      BY <1>2, <1>4, <2>2, <3>1
    <3>2. CASE l < j
      <4>1. l \in i..j
        BY <1>0
      <4>. QED
        BY <1>3, <2>2, <3>2, <4>1
    <3>. QED
      BY <1>0, <3>1, <3>2
  <2>. QED
    BY <2>1, <2>2
<1>6. \A r \in NextOf(func, <<b, i>>) : r = Place(func, F) \/ r \in S
  <2>1. i \in i..j /\ i < j
    BY <1>0
  <2>. HIDE DEF S
  <2>. QED
    BY <1>3, <2>1
<1>7. Onward(func, F, <<b, i>>) \subseteq S
  <2>1. S \in SUBSET PointsOf(func)
    BY <1>1, <1>2
  <2>. HIDE DEF S
  <2>. QED
    BY <1>1, <1>5, <1>6, <2>1, OnwardStaysIn
<1>8. <<b, 1>> \notin down
  BY <1>0
<1>. QED
  BY <1>7, <1>8

\* From block to block.
LEMMA ExactAcross ==
  ASSUME AnalysisTypeOK, Solved, WitnessInv, NEW F \in MopList, NEW T \in Insts(func),
         Parent(func, F) # Parent(func, T), Place(func, T) \in After(func, F),
         NEW kind \in Tracked
  PROVE  /\ F \in In[Parent(func, T)].Reachable
         /\ CrossedAt(func, F, BarriersAt(func, kind) \ SkippedPoints(F, T), Place(func, T)) <=>
              \/ F \in Bits(In[Parent(func, T)], kind)
              \/ BehindMarkers(Parent(func, T), Index(func, T), kind)
         /\ CrossedAt(func, F, BarriersAt(func, kind) \ SkippedPoints(F, T), Place(func, T)) =>
              F \in Bits(Out[Parent(func, T)], kind)
<1>0. IsFunction(func) /\ MopList \subseteq Insts(func) /\ F \in Insts(func)
  BY DEF AnalysisTypeOK
<1>. DEFINE b == Parent(func, T)
            j == Index(func, T)
            B == BarriersAt(func, kind)
            S == SkippedPoints(F, T)
<1>1. /\ b \in Blocks(func) /\ j \in Nat /\ j >= 1 /\ j < End(func, b)
      /\ Place(func, T) = <<b, j>> /\ func.code[b][j] = T /\ T \in Mops
      /\ Place(func, T) \in PointsOf(func)
  BY <1>0, PlaceFacts DEF Place
<1>2. Place(func, F)[1] # b /\ Parent(func, F) # b
  BY <1>0, PlaceFacts
<1>13. /\ S \subseteq {<<b, i>> : i \in OpeningMarkers(b)}
       /\ \/ S = {<<b, i>> : i \in OpeningMarkers(b)}
          \/ <<b, 1>> \in Reach(Walks(func, {Place(func, F)}), {<<b, j>>})
       /\ \/ S = {}
          \/ <<b, 1>> \notin Reach(Walks(func, {Place(func, F)}), {<<b, j>>})
  BY <1>1, <1>2 DEF SkippedPoints
<1>. HIDE DEF b, j, S
<1>3. End(func, b) \in Nat /\ 1 \in 1..End(func, b) /\ j \in 1..End(func, b)
      /\ End(func, b) = Len(func.code[b]) + 1 /\ Len(func.code[b]) \in Nat
  BY <1>0, <1>1, CodeFacts DEF End
<1>4. \A i : <<b, i>> # Place(func, F)
  BY <1>2
<1>5. F \notin UseGen(b)
  BY <1>0, <1>1, <1>2, TrackedInBlock
<1>6. ~Before(F, b, j)
  <2>. SUFFICES ASSUME NEW k \in 1..(j - 1), func.code[b][k] = F PROVE FALSE
    BY DEF Before
  <2>1. k \in 1..Len(func.code[b]) /\ DOMAIN func.code[b] = 1..Len(func.code[b]) /\ F \in Mops
    BY <1>0, <1>1, CodeFacts, PlaceFacts DEF End
  <2>. QED
    BY <1>5, <2>1 DEF UseGen, MopsIn
<1>7. F \in In[b].Reachable
  <2>1. Arrives(F, <<b, j>>[1], <<b, j>>[2])
    BY <1>0, <1>1, AllArrive
  <2>. QED
    BY <1>6, <2>1 DEF Arrives
<1>14. ASSUME NEW i \in OpeningMarkers(b)
       PROVE  i \in 1..(j - 1)
  <2>1. i \in Nat /\ i >= 1 /\ \A k \in 1..i : func.code[b][k] \in Lifetimes
    BY <1>0, <1>1, OpeningFacts
  <2>2. ~(j <= i)
    BY <1>1, <2>1, MarkersAreNoMops
  <2>. QED
    BY <1>1, <2>1, <2>2
<1>8. ASSUME CrossedAt(func, F, B \ S, <<b, j>>)
      PROVE  F \in Bits(In[b], kind) \/ BehindMarkers(b, j, kind)
  <2>. SUFFICES ASSUME ~BehindMarkers(b, j, kind) PROVE F \in Bits(In[b], kind)
    OBVIOUS
  <2>1. PICK p \in (B \ S) \cap After(func, F) : <<b, j>> \in Onward(func, F, p)
    BY <1>8 DEF CrossedAt
  <2>2. p \in PointsOf(func) /\ func.code[p[1]][p[2]] \in kind
    BY <2>1 DEF BarriersAt
  <2>3. p = <<p[1], p[2]>> /\ p[2] \in Nat /\ p[2] >= 1
    BY <1>0, <2>2, PointFacts
  <2>4. <<b, 1>> \in Onward(func, F, p)
    <3>1. CASE p[1] = b /\ p[2] < j
      <4>1. p[2] \in 1..(j - 1)
        BY <1>1, <2>3, <3>1
      <4>2. p[2] \in OpeningMarkers(b)
        BY <2>2, <3>1, <4>1 DEF BehindMarkers
      <4>3. <<b, 1>> \in Reach(Walks(func, {Place(func, F)}), {<<b, j>>})
        BY <1>13, <2>1, <2>3, <3>1, <4>2
      <4>. QED
        BY <1>0, <2>1, <2>2, <4>3, OnwardFacts
    <3>2. CASE p[1] # b \/ ~(p[2] < j)
      BY <1>0, <1>1, <2>1, <2>2, <3>2, ThroughStart
    <3>. QED
      BY <3>1, <3>2
  <2>5. Crossed(func, F, kind, <<b, 1>>)
    BY <2>1, <2>4 DEF Crossed, CrossedAt
  <2>6. Flagged(F, <<b, 1>>[1], <<b, 1>>[2], kind)
    BY <1>0, <2>5, CrossedIsFlagged
  <2>. QED
    BY <2>6 DEF Flagged, Before, HasBarrier
<1>9. ShownAt(b, In[b])
  BY <1>1 DEF WitnessInv
<1>10. ASSUME F \in Bits(In[b], kind)
       PROVE  CrossedAt(func, F, B \ S, <<b, j>>)
  <2>1. Crossed(func, F, kind, <<b, 1>>)
    BY <1>4, <1>9, <1>10 DEF ShownAt
  <2>2. PICK p \in B \cap After(func, F) : <<b, 1>> \in Onward(func, F, p)
    BY <2>1 DEF Crossed, CrossedAt
  <2>3. p \in PointsOf(func)
    BY <2>2 DEF BarriersAt
  <2>4. p \notin S
    <3>. SUFFICES ASSUME p \in S PROVE FALSE
      OBVIOUS
    <3>1. PICK i \in OpeningMarkers(b) : p = <<b, i>>
      BY <1>13
    <3>2. <<b, 1>> \in Reach(Walks(func, {Place(func, F)}), {<<b, j>>})
      BY <1>0, <1>1, <1>3, <1>14, <2>2, <3>1, BackThrough
    <3>. QED
      BY <1>13, <3>2
  <2>5. <<b, j>> \in Onward(func, F, p)
    <3>1. <<b, j>> \in Reach(Walks(func, {Place(func, F)}), {<<b, 1>>})
      BY <1>0, <1>1, <1>3, <1>4, StraightWalk
    <3>. QED
      BY <1>0, <2>2, <2>3, <3>1, OnwardFacts
  <2>. QED
    BY <2>2, <2>4, <2>5 DEF CrossedAt
<1>11. ASSUME BehindMarkers(b, j, kind)
       PROVE  CrossedAt(func, F, B \ S, <<b, j>>)
  <2>1. PICK k \in (1..(j - 1)) \ OpeningMarkers(b) : func.code[b][k] \in kind
    BY <1>11 DEF BehindMarkers
  <2>2. <<b, 1>> \in After(func, F)
    BY <1>4, <1>7, <1>9 DEF ShownAt
  <2>3. <<b, k>> \in B /\ <<b, k>> \notin S
    <3>1. k \in 1..End(func, b) /\ k < End(func, b)
      BY <1>1, <1>3
    <3>. QED
      BY <1>1, <1>13, <2>1, <3>1, IsPoint DEF BarriersAt
  <2>4. j \in 1..End(func, b) /\ k \in 1..(j - 1)
    BY <1>3
  <2>. HIDE DEF B
  <2>. QED
    BY <1>0, <1>1, <1>3, <1>4, <2>2, <2>3, <2>4, CrossedInBlock
<1>12. ASSUME F \in Bits(In[b], kind) \/ BehindMarkers(b, j, kind)
       PROVE  F \in Bits(Out[b], kind)
  <2>1. Out[b] = transfer(b, In[b])
    BY <1>1 DEF Solved, Settled
  <2>2. BehindMarkers(b, j, kind) => ContainsBarrier(b, kind)
    BY <1>1, <1>3 DEF ContainsBarrier, HasBarrier, AfterLast, BehindMarkers
  <2>3. F \in TransferBits(b, kind, In[b].Reachable, Bits(In[b], kind))
    BY <1>5, <1>7, <1>12, <2>2 DEF TransferBits
  <2>. QED
    BY <2>1, <2>3, TransferredBits
<1>. QED
  BY <1>1, <1>7, <1>8, <1>10, <1>11, <1>12 DEF b, j, S

\* A barrier between two accesses of a block also counts at its end.
LEMMA BarrierInBlock ==
  ASSUME AnalysisTypeOK, Solved, NEW F \in MopList, NEW j \in Nat,
         j <= End(func, Parent(func, F)), NEW kind \in Tracked,
         HasBarrier(Parent(func, F), Index(func, F), j, kind)
  PROVE  F \in Bits(Out[Parent(func, F)], kind)
<1>0. IsFunction(func) /\ F \in Insts(func)
  BY DEF AnalysisTypeOK
<1>. DEFINE b == Parent(func, F)
            i == Index(func, F)
<1>1. /\ b \in Blocks(func) /\ i \in 1..Len(func.code[b]) /\ i \in Nat
      /\ func.code[b][i] = F /\ F \in Mops
  BY <1>0, PlaceFacts
<1>. HIDE DEF i
<1>2. DOMAIN func.code[b] = 1..Len(func.code[b]) /\ Len(func.code[b]) \in Nat
  BY <1>0, <1>1, CodeFacts
<1>3. PICK k \in i..(j - 1) : func.code[b][k] \in kind
  BY DEF HasBarrier, i
<1>4. k \in i..(AfterLast(b) - 1)
  BY <1>1, <1>2, <1>3 DEF AfterLast, End
<1>5. HasBarrier(b, i, AfterLast(b), kind)
  BY <1>3, <1>4 DEF HasBarrier
<1>6. F \in Gen(b, kind)
  <2>1. F \in UseGen(b)
    BY <1>1, <1>2 DEF UseGen, MopsIn
  <2>. QED
    BY <1>1, <1>2, <1>5, <2>1 DEF Gen
<1>7. Out[b] = transfer(b, In[b])
  BY <1>1 DEF Solved, Settled
<1>. QED
  BY <1>6, <1>7, TransferredBits DEF TransferBits

SoundEdge(e) ==
  /\ e \in [Killing : MopList, Dead : MopList, Blocked : BOOLEAN, From : MopList]
  /\ isMopCheckRecurring(e.Killing, e.Dead)
  /\ e.From = IF Dominates(func, e.Killing, e.Dead) THEN e.Killing ELSE e.Dead

\* The other access of an edge comes after the one it starts at.
LEMMA EdgeFacts ==
  ASSUME IsFunction(func), MopList \subseteq Insts(func), NEW e, SoundEdge(e)
  PROVE  /\ e.From \in MopList /\ To(e) \in MopList
         /\ Place(func, To(e)) \in After(func, e.From)
         /\ Parent(func, e.From) = Parent(func, To(e)) =>
              Index(func, e.From) < Index(func, To(e))
         /\ \/ /\ IsToDead(e) /\ e.From = e.Killing /\ To(e) = e.Dead
               /\ Dominates(func, e.Killing, e.Dead)
            \/ /\ ~IsToDead(e) /\ e.From = e.Dead /\ To(e) = e.Killing
               /\ PostDominates(func, e.Killing, e.Dead)
<1>. DEFINE k == e.Killing
            d == e.Dead
<1>0. k \in MopList /\ d \in MopList
  BY DEF SoundEdge
<1>1. k \in Insts(func) /\ d \in Insts(func) /\ k \in MopList /\ d \in MopList /\ k # d
  BY <1>0 DEF SoundEdge, isMopCheckRecurring
<1>2. Index(func, k) \in Nat /\ Index(func, d) \in Nat
  BY <1>1, PlaceFacts
<1>3. CASE Dominates(func, k, d)
  <2>1. IsToDead(e) /\ e.From = k /\ To(e) = d
    BY <1>3 DEF SoundEdge, IsToDead, To
  <2>2. Place(func, d) \in After(func, k)
    BY <1>1, <1>3, DominatedFollows
  <2>3. Parent(func, k) = Parent(func, d) => Index(func, k) < Index(func, d)
    BY <1>3 DEF Dominates
  <2>. QED
    BY <1>1, <1>3, <2>1, <2>2, <2>3
<1>4. CASE ~Dominates(func, k, d)
  <2>0. PostDominates(func, k, d)
    BY <1>4 DEF SoundEdge, isMopCheckRecurring
  <2>1. ~IsToDead(e) /\ e.From = d /\ To(e) = k
    BY <1>1, <1>4 DEF SoundEdge, IsToDead, To
  <2>2. Place(func, k) \in After(func, d)
    BY <1>1, <2>0, PostDominatorFollows
  <2>3. Parent(func, d) = Parent(func, k) => Index(func, d) < Index(func, k)
    BY <1>2, <2>0 DEF PostDominates
  <2>. QED
    BY <1>1, <2>0, <2>1, <2>2, <2>3
<1>. QED
  BY <1>3, <1>4

\* A walk leads from one end of the edge to the other, past one of the barriers that
\* the query does not skip.
BlockedOnWalk(e) ==
  CrossedAt(func, e.From,
            BarriersAt(func, RelevantBarriers(~IsToDead(e))) \ SkippedPoints(e.From, To(e)),
            Place(func, To(e)))

LEMMA QueryIsExact ==
  ASSUME AnalysisInv, WitnessInv, Constructed, NEW e, SoundEdge(e)
  PROVE  ~isOneMopActiveToAnother(e.From, To(e), IsToDead(e)) <=> BlockedOnWalk(e)
<1>. DEFINE F == e.From
            T == To(e)
            Acq == ~IsToDead(e)
            b == Parent(func, T)
            i == Index(func, F)
            j == Index(func, T)
            K == RelevantKinds(Acq)
            Past(kind) == CrossedAt(func, F, BarriersAt(func, kind) \ SkippedPoints(F, T),
                                    Place(func, T))
<1>0. AnalysisTypeOK /\ IsFunction(func) /\ MopList \subseteq Insts(func)
  BY DEF AnalysisInv, AnalysisTypeOK
<1>1. /\ F \in MopList /\ T \in MopList /\ F \in Insts(func) /\ T \in Insts(func)
      /\ Place(func, T) \in After(func, F)
      /\ Parent(func, F) = b => i < j
      /\ Acq \in BOOLEAN
  BY <1>0, EdgeFacts DEF IsToDead
<1>2. Analyzed => Solved
  BY DEF AnalysisInv, Awaited, Solved
<1>3. ~Analyzed => Parent(func, F) = b
  BY <1>1 DEF Constructed, SuitableToAnalyze
<1>4. K \subseteq Tracked
  BY RelevantAreTracked
<1>5. isOneMopActiveToAnother(F, T, IsToDead(e)) <=>
        IF ~Analyzed
        THEN ~HasBarrier(Parent(func, F), i, j, RelevantBarriers(Acq))
        ELSE \/ isActive(F, Out[b], Acq)
             \/ Parent(func, F) = b /\ ~HasBarrier(Parent(func, F), i, j, RelevantBarriers(Acq))
             \/ /\ Parent(func, F) # b
                /\ isActive(F, In[b], Acq)
                /\ ~BehindMarkers(b, j, RelevantBarriers(Acq))
  BY DEF isOneMopActiveToAnother, isActiveInTheSameBlock, isActiveFromEntry, BehindMarkers
<1>6. BlockedOnWalk(e) <=> \E kind \in K : Past(kind)
  BY CrossedKinds DEF BlockedOnWalk
<1>9. Parent(func, F) = b => \A kind : Past(kind) <=> Crossed(func, F, kind, Place(func, T))
  <2>. SUFFICES ASSUME Parent(func, F) = b, NEW kind
                PROVE  Past(kind) <=> Crossed(func, F, kind, Place(func, T))
    OBVIOUS
  <2>1. SkippedPoints(F, T) = {}
    BY DEF SkippedPoints
  <2>2. BarriersAt(func, kind) \ SkippedPoints(F, T) = BarriersAt(func, kind)
    BY <2>1
  <2>. QED
    BY <2>2 DEF Crossed
<1>10. \A kind \in K : Parent(func, F) # b /\ Analyzed /\ Solved =>
         /\ F \in In[b].Reachable
         /\ Past(kind) <=> F \in Bits(In[b], kind) \/ BehindMarkers(b, j, kind)
         /\ Past(kind) => F \in Bits(Out[b], kind)
  BY <1>0, <1>1, <1>4, ExactAcross
<1>. HIDE DEF F, T, Acq, b, i, j, K, Past
<1>7. CASE Parent(func, F) = b
  <2>1. \A kind \in K : Past(kind) <=> HasBarrier(b, i, j, kind)
    BY <1>0, <1>1, <1>4, <1>7, <1>9, ExactInBlock DEF b, i, j
  <2>2. HasBarrier(b, i, j, RelevantBarriers(Acq)) <=> \E kind \in K : HasBarrier(b, i, j, kind)
    BY CrossedKinds DEF K
  <2>3. ASSUME Analyzed, NEW kind \in K, HasBarrier(b, i, j, kind)
        PROVE  ~isActive(F, Out[b], Acq)
    <3>1. j \in Nat /\ j <= End(func, b)
      <4>1. j \in Nat /\ j < End(func, b) /\ b \in Blocks(func)
        BY <1>0, <1>1, PlaceFacts DEF b, j
      <4>2. End(func, b) \in Nat
        BY <1>0, <4>1, CodeFacts
      <4>. QED
        BY <4>1, <4>2
    <3>2. F \in Bits(Out[b], kind)
      BY <1>0, <1>1, <1>2, <1>4, <1>7, <2>3, <3>1, BarrierInBlock DEF i
    <3>. QED
      BY <1>1, <2>3, <3>2, ActiveKinds DEF K
  <2>4. ~isOneMopActiveToAnother(F, T, IsToDead(e)) <=> HasBarrier(b, i, j, RelevantBarriers(Acq))
    BY <1>5, <1>7, <2>2, <2>3
  <2>. QED
    BY <1>6, <2>1, <2>2, <2>4 DEF F, T
<1>8. CASE Parent(func, F) # b
  <2>0. Analyzed /\ Solved
    BY <1>2, <1>3, <1>8
  <2>1. ASSUME NEW kind \in K
        PROVE  /\ F \in In[b].Reachable
               /\ Past(kind) <=> F \in Bits(In[b], kind) \/ BehindMarkers(b, j, kind)
               /\ Past(kind) => F \in Bits(Out[b], kind)
    BY <1>8, <1>10, <2>0
  <2>2. F \in In[b].Reachable
    <3>1. Calls \in K
      BY DEF K, RelevantKinds
    <3>. QED
      BY <2>1, <3>1
  <2>3. BehindMarkers(b, j, RelevantBarriers(Acq)) <=> \E kind \in K : BehindMarkers(b, j, kind)
    BY CrossedKinds DEF K, BehindMarkers
  <2>4. /\ isActive(F, In[b], Acq) <=> \A kind \in K : F \notin Bits(In[b], kind)
        /\ isActive(F, Out[b], Acq) => \A kind \in K : F \notin Bits(Out[b], kind)
    BY <1>1, <2>2, ActiveKinds DEF K
  <2>5. isOneMopActiveToAnother(F, T, IsToDead(e)) <=>
          isActive(F, Out[b], Acq)
          \/ (isActive(F, In[b], Acq) /\ ~BehindMarkers(b, j, RelevantBarriers(Acq)))
    BY <1>5, <1>8, <2>0
  <2>6. (\E kind \in K : Past(kind)) <=>
          ~(isActive(F, In[b], Acq) /\ ~BehindMarkers(b, j, RelevantBarriers(Acq)))
    BY <2>1, <2>3, <2>4
  <2>7. (\E kind \in K : Past(kind)) => ~isActive(F, Out[b], Acq)
    BY <2>1, <2>4
  <2>. QED
    BY <1>6, <2>5, <2>6, <2>7 DEF F, T
<1>. QED
  BY <1>7, <1>8

-----------------------------------------------------------------------------
\* From BlockEdges on, an edge is blocked exactly where a walk crosses a barrier.
Exact(e) == e.Blocked <=> BlockedOnWalk(e)

ExactInv ==
  /\ \A e \in Edges : SoundEdge(e)
  /\ stage # "analysis" => \A e \in Edges : Exact(e)

LEMMA EdgeType ==
  ASSUME NEW k \in MopList, NEW d \in MopList
  PROVE  Edge(k, d) \in [Killing : MopList, Dead : MopList, Blocked : BOOLEAN, From : MopList]
<1>1. (IF Dominates(func, k, d) THEN k ELSE d) \in MopList
  OBVIOUS
<1>. DEFINE r == IF Dominates(func, k, d) THEN k ELSE d
<1>2. r \in MopList
  BY <1>1
<1>3. Edge(k, d) = [Killing |-> k, Dead |-> d, Blocked |-> FALSE, From |-> r]
  BY DEF Edge
<1>. HIDE DEF r
<1>. QED
  BY <1>2, <1>3

LEMMA ExactInit == Init => ExactInv
<1>. SUFFICES ASSUME Init, NEW e \in Edges PROVE SoundEdge(e)
  BY DEF Init, ExactInv
<1>1. PICK p \in {q \in Insts(func) \X Insts(func) : isMopCheckRecurring(q[1], q[2])} :
        e = Edge(p[1], p[2])
  BY DEF Init, RecurringEdges
<1>2. e.Killing = p[1] /\ e.Dead = p[2]
      /\ e.From = IF Dominates(func, p[1], p[2]) THEN p[1] ELSE p[2]
  BY <1>1 DEF Edge
<1>3. e.Killing \in MopList /\ e.Dead \in MopList
  BY DEF Init, Candidates
<1>5. e \in [Killing : MopList, Dead : MopList, Blocked : BOOLEAN, From : MopList]
  BY <1>1, <1>2, <1>3, EdgeType
<1>6. isMopCheckRecurring(e.Killing, e.Dead)
  BY <1>1, <1>2
<1>7. e.From = IF Dominates(func, e.Killing, e.Dead) THEN e.Killing ELSE e.Dead
  BY <1>2
<1>. QED
  BY <1>5, <1>6, <1>7 DEF SoundEdge

LEMMA WalksStay ==
  ASSUME UNCHANGED <<func, UsedForTsan>>
  PROVE  \A e : /\ To(e)' = To(e) /\ (IsToDead(e)' <=> IsToDead(e))
               /\ BlockedOnWalk(e)' <=> BlockedOnWalk(e)
<1>. SUFFICES ASSUME NEW e
              PROVE  /\ To(e)' = To(e) /\ (IsToDead(e)' <=> IsToDead(e))
                     /\ BlockedOnWalk(e)' <=> BlockedOnWalk(e)
  OBVIOUS
<1>1. To(e)' = To(e) /\ (IsToDead(e)' <=> IsToDead(e))
  BY DEF To, IsToDead
<1>2. RelevantBarriers(~IsToDead(e))' = RelevantBarriers(~IsToDead(e))
  BY <1>1 DEF RelevantBarriers
<1>3. SkippedPoints(e.From, To(e))' = SkippedPoints(e.From, To(e))
  BY <1>1 DEF SkippedPoints, OpeningMarkers
<1>. QED
  BY <1>1, <1>2, <1>3 DEF BlockedOnWalk

LEMMA ExactStep ==
  ASSUME AnalysisInv, WitnessInv, ExactInv, ExecutionInv, [Next]_vars
  PROVE  ExactInv'
<1>1. UNCHANGED <<func, MopList, UsedForTsan>>
  BY DEF Next, DistillNext, Analyze, AnalysisNext, VisitInRPO, VisitFromWorkList,
     FinishAnalysis, BlockEdges, FillRoots, FillCycle, Distilled, Execute, Access,
     PassBarrier, Branch, Return, vars, analysis_vars, input_vars
<1>2. CASE BlockEdges
  <2>1. Constructed
    BY <1>2 DEF BlockEdges
  <2>. SUFFICES ASSUME NEW d \in Edges'
                PROVE  SoundEdge(d)' /\ Exact(d)'
    BY DEF ExactInv
  <2>2. PICK e \in Edges :
          d = [e EXCEPT !.Blocked = ~isOneMopActiveToAnother(e.From, To(e), IsToDead(e))]
    BY <1>2 DEF BlockEdges
  <2>4. SoundEdge(e)
    BY DEF ExactInv
  <2>. DEFINE answer == ~isOneMopActiveToAnother(e.From, To(e), IsToDead(e))
  <2>3. answer \in BOOLEAN
    BY DEF isOneMopActiveToAnother, isActive, isActiveInTheSameBlock, isActiveFromEntry,
       HasBarrier
  <2>5. /\ d.Killing = e.Killing /\ d.Dead = e.Dead /\ d.From = e.From /\ d.Blocked = answer
        /\ d \in [Killing : MopList, Dead : MopList, Blocked : BOOLEAN, From : MopList]
    <3>. HIDE DEF answer
    <3>1. d = [e EXCEPT !.Blocked = answer]
      BY <2>2 DEF answer
    <3>. QED
      BY <2>3, <2>4, <3>1 DEF SoundEdge
  <2>6. SoundEdge(d)
    BY <2>4, <2>5 DEF SoundEdge
  <2>7. d.Blocked <=> BlockedOnWalk(e)
    BY <2>1, <2>4, <2>5, QueryIsExact
  <2>8. To(d) = To(e) /\ (IsToDead(d) <=> IsToDead(e))
    BY <2>5 DEF To, IsToDead
  <2>9. BlockedOnWalk(d) <=> BlockedOnWalk(e)
    <3>1. RelevantBarriers(~IsToDead(d)) = RelevantBarriers(~IsToDead(e))
      BY <2>8 DEF RelevantBarriers
    <3>. QED
      BY <2>5, <2>8, <3>1 DEF BlockedOnWalk
  <2>10. Exact(d)
    BY <2>5, <2>7, <2>9 DEF Exact
  <2>. QED
    BY <1>1, <2>6, <2>10, WalksStay
    DEF SoundEdge, Exact, isMopCheckRecurring, WriteCompatible, Contained
<1>3. CASE ~BlockEdges
  <2>1. Edges' = Edges /\ (stage' # "analysis" => stage # "analysis")
    BY <1>3 DEF Next, DistillNext, Analyze, FillRoots, FillCycle, Distilled, Execute,
       Access, PassBarrier, Branch, Return, vars, recurrence_vars
  <2>. QED
    BY <1>1, <2>1, WalksStay
    DEF ExactInv, Exact, SoundEdge, isMopCheckRecurring, WriteCompatible, Contained
<1>. QED
  BY <1>2, <1>3

LEMMA ExactGraph == ExactInv => AnalysisIsExact
<1>. SUFFICES ASSUME ExactInv, stage = "graph", NEW e \in Edges
              PROVE  e.Blocked <=>
                       OnWalk(BarrierPoints(RelevantBarriers(~IsToDead(e))) \ SkippedMarkers(e),
                              PointOf(e.From), PointOf(To(e)))
  BY DEF AnalysisIsExact
<1>1. e.Blocked <=> BlockedOnWalk(e)
  BY DEF ExactInv, Exact
<1>2. /\ PointOf(To(e)) = Place(func, To(e))
      /\ SkippedMarkers(e) = SkippedPoints(e.From, To(e))
      /\ BarrierPoints(RelevantBarriers(~IsToDead(e)))
           = BarriersAt(func, RelevantBarriers(~IsToDead(e)))
  BY SameWalks
<1>. QED
  BY <1>1, <1>2, SameWalks DEF BlockedOnWalk

FlowInv == AnalysisInv /\ ExecutionInv /\ WitnessInv /\ ExactInv

LEMMA FlowInit == ExecutionInit => FlowInv
  BY InitEstablishes, InitEstablishesExecution, WitnessInit, ExactInit
  DEF FlowInv, ExecutionInit

LEMMA FlowStep == FlowInv /\ [Next]_vars => FlowInv'
  BY NextKeepsAnalysis, NextKeepsExecution, WitnessStep, ExactStep DEF FlowInv

\* The data-flow analysis and the shortcuts of its query lose nothing and claim
\* nothing, in every function: an edge is blocked exactly where some walk from the last
\* execution of the one access to the other passes a relevant barrier, other than the
\* lifetime markers that isOneMopActiveToAnother skips (ActiveMopAnalysis.cpp:541).
THEOREM AnalysisExact == Spec => []AnalysisIsExact
<1>1. FlowInv => AnalysisIsExact
  BY ExactGraph DEF FlowInv
<1>. QED
  BY <1>1, FlowInit, FlowStep, PTL DEF Spec

-----------------------------------------------------------------------------
(***************************************************************************)
(* A run follows the walks of its function.                                *)
(***************************************************************************)
WalkInv ==
  /\ at \in PointsOf(func)
  /\ \A d \in Insts(func) \ DOMAIN since :
       \/ at = Place(func, d)
       \/ at \in Reach(Walks(func, {Place(func, d)}), {Start(func)} \ {Place(func, d)})
  /\ \A d \in DOMAIN since :
       /\ d \in Insts(func)
       /\ \/ at = Place(func, d)
          \/ /\ at \in After(func, d)
             /\ \A barriers : since[d] \cap barriers # {}
                              => Crossed(func, d, barriers, at)

LEMMA AtAccess ==
  ASSUME IsFunction(func), at \in PointsOf(func), NEW m \in Mops, Access(m)
  PROVE  /\ m \in Insts(func) /\ at = Place(func, m)
         /\ at' \in NextOf(func, at) /\ at' \in PointsOf(func)
         /\ UNCHANGED <<func, UsedForTsan, MopList, stage, Edges, DomSet>>
         /\ stage = "distilled" /\ at' # <<>>
         /\ since' = [n \in DOMAIN since \cup {m} |-> IF n = m THEN {} ELSE since[n]]
<1>1. /\ at[2] <= Len(func.code[at[1]]) /\ func.code[at[1]][at[2]] = m
      /\ at' = <<at[1], at[2] + 1>> /\ stage = "distilled"
  BY DEF Access, AtInstruction, Instruction, Advance
<1>2. /\ at[1] \in Blocks(func) /\ at[2] \in Nat /\ at[2] >= 1 /\ at = <<at[1], at[2]>>
      /\ Len(func.code[at[1]]) \in Nat /\ End(func, at[1]) = Len(func.code[at[1]]) + 1
  BY PointFacts, CodeFacts DEF End
<1>3. at[2] \in 1..Len(func.code[at[1]])
  BY <1>1, <1>2
<1>4. at' \in NextOf(func, at)
  BY <1>1, <1>2 DEF NextOf
<1>5. m \in Insts(func) /\ at = Place(func, m)
  BY <1>1, <1>2, <1>3, OnePlace
<1>6. UNCHANGED <<func, UsedForTsan, MopList, stage, Edges, DomSet>>
  BY DEF Access, analysis_vars, input_vars, recurrence_vars
<1>. QED
  BY <1>1, <1>4, <1>5, <1>6, NextCases DEF Access

LEMMA AtBarrier ==
  ASSUME IsFunction(func), at \in PointsOf(func), PassBarrier
  PROVE  /\ Instruction \in Barriers
         /\ \A barriers : Instruction \in barriers => at \in BarriersAt(func, barriers)
         /\ at' \in NextOf(func, at) /\ at' \in PointsOf(func)
         /\ \A m \in Insts(func) : at # Place(func, m)
         /\ UNCHANGED <<func, UsedForTsan, MopList, stage, Edges, DomSet>>
         /\ stage = "distilled" /\ at' # <<>>
         /\ since' = [n \in DOMAIN since |-> since[n] \cup {Instruction}]
<1>1. /\ at[2] <= Len(func.code[at[1]]) /\ Instruction = func.code[at[1]][at[2]]
      /\ at' = <<at[1], at[2] + 1>> /\ stage = "distilled" /\ Instruction \in Barriers
  BY DEF PassBarrier, AtInstruction, Instruction, Advance
<1>2. /\ at[1] \in Blocks(func) /\ at[2] \in Nat /\ at[2] >= 1 /\ at = <<at[1], at[2]>>
      /\ Len(func.code[at[1]]) \in Nat /\ End(func, at[1]) = Len(func.code[at[1]]) + 1
  BY PointFacts, CodeFacts DEF End
<1>3. at[2] < End(func, at[1])
  BY <1>1, <1>2
<1>4. at' \in NextOf(func, at)
  BY <1>1, <1>3 DEF NextOf
<1>5. ASSUME NEW m \in Insts(func), at = Place(func, m)
      PROVE  FALSE
  <2>1. func.code[at[1]][at[2]] = m /\ m \in Mops
    BY <1>5, PlaceFacts
  <2>. QED
    BY <1>1, <2>1, MopFunctionAssumption
<1>6. UNCHANGED <<func, UsedForTsan, MopList, stage, Edges, DomSet>>
  BY DEF PassBarrier, analysis_vars, input_vars, recurrence_vars
<1>. QED
  BY <1>1, <1>3, <1>4, <1>5, <1>6, NextCases DEF PassBarrier, BarriersAt

LEMMA AtBranch ==
  ASSUME IsFunction(func), at \in PointsOf(func), NEW b \in Blocks(func), Branch(b)
  PROVE  /\ at' \in NextOf(func, at) /\ at' \in PointsOf(func)
         /\ \A m \in Insts(func) : at # Place(func, m)
         /\ UNCHANGED <<func, UsedForTsan, MopList, stage, Edges, DomSet>>
         /\ stage = "distilled" /\ at' # <<>> /\ since' = since
<1>1. at[2] = End(func, at[1]) /\ b \in func.succs[at[1]] /\ at' = <<b, 1>>
      /\ stage = "distilled" /\ since' = since
  BY DEF Branch, AfterLast, End
<1>2. at[2] \in Nat
  BY PointFacts
<1>3. at' \in NextOf(func, at)
  BY <1>1, <1>2 DEF NextOf
<1>4. \A m \in Insts(func) : at # Place(func, m)
  BY <1>1, <1>2, PlaceFacts
<1>5. UNCHANGED <<func, UsedForTsan, MopList, stage, Edges, DomSet>>
  BY DEF Branch, analysis_vars, input_vars, recurrence_vars
<1>. QED
  BY <1>1, <1>3, <1>4, <1>5, NextCases

LEMMA MissedOn ==
  ASSUME NEW f, IsFunction(f), NEW d \in Insts(f), NEW S, S \subseteq PointsOf(f),
         NEW p \in Reach(Walks(f, {Place(f, d)}), S), NEW r \in NextOf(f, p)
  PROVE  r = Place(f, d) \/ r \in Reach(Walks(f, {Place(f, d)}), S)
  BY WalkStep

\* A step that passes d by.
LEMMA WalkPasses ==
  ASSUME IsFunction(func), WalkInv, func' = func,
         at' \in NextOf(func, at), NEW d \in Insts(func), at # Place(func, d)
  PROVE  /\ d \notin DOMAIN since =>
              \/ at' = Place(func, d)
              \/ at' \in Reach(Walks(func, {Place(func, d)}), {Start(func)} \ {Place(func, d)})
         /\ d \in DOMAIN since =>
              \/ at' = Place(func, d)
              \/ /\ at' \in After(func, d)
                 /\ \A barriers :
                      \/ since[d] \cap barriers # {}
                      \/ at \in BarriersAt(func, barriers)
                      => Crossed(func, d, barriers, at')
<1>1. CASE d \notin DOMAIN since
  <2>1. {Start(func)} \ {Place(func, d)} \subseteq PointsOf(func)
    BY StartIsPoint
  <2>. QED
    BY <1>1, <2>1, MissedOn DEF WalkInv
<1>2. CASE d \in DOMAIN since
  <2>. SUFFICES ASSUME at' # Place(func, d)
                PROVE  /\ at' \in After(func, d)
                       /\ \A barriers :
                            \/ since[d] \cap barriers # {}
                            \/ at \in BarriersAt(func, barriers)
                            => Crossed(func, d, barriers, at')
    BY <1>2
  <2>1. at \in After(func, d) /\ at \in PointsOf(func)
    BY <1>2 DEF WalkInv
  <2>2. at' \in After(func, d)
    BY <2>1, AfterFacts
  <2>3. ASSUME NEW barriers, since[d] \cap barriers # {}
        PROVE  Crossed(func, d, barriers, at')
    <3>1. Crossed(func, d, barriers, at)
      BY <1>2, <2>3 DEF WalkInv
    <3>. QED
      BY <3>1, CrossedStep DEF Crossed
  <2>4. ASSUME NEW barriers, at \in BarriersAt(func, barriers)
        PROVE  Crossed(func, d, barriers, at')
    <3>1. at' \in Onward(func, d, at)
      BY <2>1, OnwardFacts
    <3>. QED
      BY <2>1, <2>4, <3>1 DEF Crossed, CrossedAt
  <2>. QED
    BY <2>2, <2>3, <2>4
<1>. QED
  BY <1>1, <1>2

LEMMA WalkInvStep ==
  ASSUME IsFunction(func), WalkInv, Execute, at' # <<>>
  PROVE  WalkInv'
<1>0. at \in PointsOf(func)
  BY DEF WalkInv
<1>1. ASSUME NEW m \in Mops, Access(m)
      PROVE  WalkInv'
  <2>1. /\ m \in Insts(func) /\ at = Place(func, m)
        /\ at' \in NextOf(func, at) /\ at' \in PointsOf(func) /\ func' = func
        /\ since' = [n \in DOMAIN since \cup {m} |-> IF n = m THEN {} ELSE since[n]]
    BY <1>0, <1>1, AtAccess
  <2>2. at' = Place(func, m) \/ at' \in After(func, m)
    BY <2>1, AfterFacts
  <2>3. \A d \in Insts(func) : d # m => at # Place(func, d)
    BY <2>1, PlaceFacts
  <2>4. since'[m] = {} /\ m \in DOMAIN since' /\ DOMAIN since' = DOMAIN since \cup {m}
        /\ \A d \in DOMAIN since' : d # m => since'[d] = since[d]
    BY <2>1
  <2>5. ASSUME NEW d \in DOMAIN since'
        PROVE  /\ d \in Insts(func)
               /\ \/ at' = Place(func, d)
                  \/ /\ at' \in After(func, d)
                     /\ \A barriers : since'[d] \cap barriers # {}
                                      => Crossed(func, d, barriers, at')
    <3>1. CASE d = m
      BY <2>1, <2>2, <2>4, <3>1
    <3>2. CASE d # m
      <4>1. d \in DOMAIN since /\ d \in Insts(func) /\ since'[d] = since[d]
        BY <2>4, <3>2 DEF WalkInv
      <4>. QED
        BY <2>1, <2>3, <3>2, <4>1, WalkPasses
    <3>. QED
      BY <3>1, <3>2
  <2>6. ASSUME NEW d \in Insts(func) \ DOMAIN since'
        PROVE  \/ at' = Place(func, d)
               \/ at' \in Reach(Walks(func, {Place(func, d)}), {Start(func)} \ {Place(func, d)})
    <3>1. d \notin DOMAIN since /\ d # m
      BY <2>4
    <3>. QED
      BY <2>1, <2>3, <3>1, WalkPasses
  <2>. QED
    BY <2>1, <2>5, <2>6 DEF WalkInv
<1>2. CASE PassBarrier
  <2>1. /\ at' \in NextOf(func, at) /\ at' \in PointsOf(func) /\ func' = func
        /\ \A m \in Insts(func) : at # Place(func, m)
        /\ \A barriers : Instruction \in barriers => at \in BarriersAt(func, barriers)
        /\ since' = [n \in DOMAIN since |-> since[n] \cup {Instruction}]
    BY <1>0, <1>2, AtBarrier
  <2>2. DOMAIN since' = DOMAIN since /\ \A d \in DOMAIN since : since'[d] = since[d] \cup {Instruction}
    BY <2>1
  <2>3. ASSUME NEW d \in DOMAIN since'
        PROVE  /\ d \in Insts(func)
               /\ \/ at' = Place(func, d)
                  \/ /\ at' \in After(func, d)
                     /\ \A barriers : since'[d] \cap barriers # {}
                                      => Crossed(func, d, barriers, at')
    <3>1. d \in DOMAIN since /\ d \in Insts(func) /\ since'[d] = since[d] \cup {Instruction}
      BY <2>2 DEF WalkInv
    <3>2. \A barriers : since'[d] \cap barriers # {}
                        => since[d] \cap barriers # {} \/ at \in BarriersAt(func, barriers)
      BY <2>1, <3>1
    <3>. QED
      BY <2>1, <3>1, <3>2, WalkPasses
  <2>4. ASSUME NEW d \in Insts(func) \ DOMAIN since'
        PROVE  \/ at' = Place(func, d)
               \/ at' \in Reach(Walks(func, {Place(func, d)}), {Start(func)} \ {Place(func, d)})
    BY <2>1, <2>2, WalkPasses
  <2>. QED
    BY <2>1, <2>3, <2>4 DEF WalkInv
<1>3. ASSUME NEW b \in Blocks(func), Branch(b)
      PROVE  WalkInv'
  <2>1. /\ at' \in NextOf(func, at) /\ at' \in PointsOf(func) /\ func' = func
        /\ \A m \in Insts(func) : at # Place(func, m)
        /\ since' = since
    BY <1>0, <1>3, AtBranch
  <2>2. ASSUME NEW d \in DOMAIN since'
        PROVE  /\ d \in Insts(func)
               /\ \/ at' = Place(func, d)
                  \/ /\ at' \in After(func, d)
                     /\ \A barriers : since'[d] \cap barriers # {}
                                      => Crossed(func, d, barriers, at')
    <3>1. d \in DOMAIN since /\ d \in Insts(func)
      BY <2>1 DEF WalkInv
    <3>. QED
      BY <2>1, <3>1, WalkPasses
  <2>3. ASSUME NEW d \in Insts(func) \ DOMAIN since'
        PROVE  \/ at' = Place(func, d)
               \/ at' \in Reach(Walks(func, {Place(func, d)}), {Start(func)} \ {Place(func, d)})
    BY <2>1, WalkPasses
  <2>. QED
    BY <2>1, <2>2, <2>3 DEF WalkInv
<1>4. CASE Return
  BY <1>4 DEF Return
<1>. QED
  BY <1>1, <1>2, <1>3, <1>4 DEF Execute

-----------------------------------------------------------------------------
(***************************************************************************)
(* What the checks of the run have left uncovered.  For each access k that *)
(* keeps its check, U[k] are the accesses executed since a barrier ended   *)
(* the cover of k's last check, or since the function was entered if there *)
(* was none; it is a history that the variables do not hold.               *)
(***************************************************************************)
Early(k) == k \in DOMAIN since /\ since[k] \cap EndsEarlierCover = {}

Uncovered(U) ==
  /\ \A k \in DomSet :
       /\ k \notin U[k] /\ U[k] \subseteq DOMAIN since
       /\ U[k] # {} => ~Early(k)
       /\ \A d \in DOMAIN since \ U[k] :
            /\ k \in DOMAIN since
            /\ since[d] \cap EndsEarlierCover = {} => since[k] \cap EndsEarlierCover = {}
  /\ \A k \in DomSet : \A m \in pending : Covers(k, m) => m \in U[k]

\* The open edges that skip no lifetime marker.
Clean == {o \in Open : ~RecurringPastMarkers(o)}

\* The dead access of such an edge is uncovered only with the killing one, or, where
\* that one comes later, until the run gets there.
EdgesUncovered(U) ==
  \A k \in DomSet, o \in Clean :
    o.Dead \in U[k] =>
      \/ o.Killing \in U[k]
      \/ /\ ~IsToDead(o)
         /\ \/ at = Place(func, o.Killing)
            \/ at \in Reach(Walks(func, {Place(func, o.Killing)}), {Place(func, o.Dead)})

Ghost(U) == U \in [DomSet -> SUBSET Mops] /\ Uncovered(U) /\ EdgesUncovered(U)

LEMMA SamePlace ==
  ASSUME NEW f, IsFunction(f), NEW a \in Insts(f), NEW b \in Insts(f),
         Place(f, a) = Place(f, b)
  PROVE  a = b
<1>1. Place(f, a)[1] = Parent(f, a) /\ Place(f, a)[2] = Index(f, a)
      /\ f.code[Parent(f, a)][Index(f, a)] = a
  BY PlaceFacts
<1>2. Place(f, b)[1] = Parent(f, b) /\ Place(f, b)[2] = Index(f, b)
      /\ f.code[Parent(f, b)][Index(f, b)] = b
  BY PlaceFacts
<1>. QED
  BY <1>1, <1>2

\* The query has not skipped what ends a check's cover.
LEMMA CoverIsRelevant ==
  ASSUME IsFunction(func), NEW o \in Clean, To(o) \in Insts(func),
         NEW cover,
         cover = IF UsedForTsan
                 THEN (Calls \ Lifetimes) \cup (IF IsToDead(o) THEN Releases ELSE Acquires)
                 ELSE Calls
  PROVE  BarriersAt(func, cover) \subseteq
           BarriersAt(func, RelevantBarriers(~IsToDead(o))) \ SkippedPoints(o.From, To(o))
<1>. SUFFICES ASSUME NEW p \in BarriersAt(func, cover)
              PROVE  /\ p \in BarriersAt(func, RelevantBarriers(~IsToDead(o)))
                     /\ p \notin SkippedPoints(o.From, To(o))
  OBVIOUS
<1>1. p \in PointsOf(func) /\ p[2] < End(func, p[1]) /\ func.code[p[1]][p[2]] \in cover
  BY DEF BarriersAt
<1>2. cover \subseteq RelevantBarriers(~IsToDead(o))
  BY DEF RelevantBarriers
<1>3. ~UsedForTsan => SkippedPoints(o.From, To(o)) = {}
  BY SameWalks DEF Clean, Open, RecurringPastMarkers
<1>4. ASSUME UsedForTsan, p \in SkippedPoints(o.From, To(o))
      PROVE  FALSE
  <2>1. PICK i \in OpeningMarkers(Parent(func, To(o))) : p = <<Parent(func, To(o)), i>>
    BY <1>4 DEF SkippedPoints
  <2>2. Parent(func, To(o)) \in Blocks(func)
    BY PlaceFacts
  <2>3. func.code[p[1]][p[2]] \in Lifetimes
    BY <2>1, <2>2, OpeningFacts
  <2>. QED
    BY <1>1, <1>4, <2>3, MarkersAreNoMops
<1>. QED
  BY <1>1, <1>2, <1>3, <1>4 DEF BarriersAt

LEMMA OpenEdge ==
  ASSUME FlowInv, stage = "distilled", NEW o \in Open
  PROVE  /\ o.Killing \in MopList /\ o.Dead \in MopList /\ o.Killing # o.Dead
         /\ o.Killing \in Insts(func) /\ o.Dead \in Insts(func)
         /\ Covers(o.Killing, o.Dead)
         /\ IsToDead(o) => Dominates(func, o.Killing, o.Dead)
         /\ ~IsToDead(o) => PostDominates(func, o.Killing, o.Dead)
         /\ o \in Clean /\ IsToDead(o) =>
              ~Crossed(func, o.Killing, EndsEarlierCover, Place(func, o.Dead))
         /\ o \in Clean /\ ~IsToDead(o) =>
              ~Crossed(func, o.Dead, EndsLaterCover, Place(func, o.Killing))
<1>1. SoundEdge(o) /\ Exact(o) /\ ~o.Blocked
  BY DEF FlowInv, ExactInv, Open
<1>2. IsFunction(func) /\ MopList \subseteq Insts(func)
  BY DEF FlowInv, AnalysisInv, AnalysisTypeOK
<1>3. /\ o.Killing \in MopList /\ o.Dead \in MopList
      /\ isMopCheckRecurring(o.Killing, o.Dead)
  BY <1>1 DEF SoundEdge
<1>4. o.Killing # o.Dead /\ Covers(o.Killing, o.Dead)
  BY <1>3 DEF isMopCheckRecurring, Covers
<1>5. ~BlockedOnWalk(o)
  BY <1>1 DEF Exact
<1>6. \/ /\ IsToDead(o) /\ o.From = o.Killing /\ To(o) = o.Dead
         /\ Dominates(func, o.Killing, o.Dead)
      \/ /\ ~IsToDead(o) /\ o.From = o.Dead /\ To(o) = o.Killing
         /\ PostDominates(func, o.Killing, o.Dead)
  BY <1>1, <1>2, EdgeFacts
<1>7. ASSUME o \in Clean, IsToDead(o)
      PROVE  ~Crossed(func, o.Killing, EndsEarlierCover, Place(func, o.Dead))
  <2>1. EndsEarlierCover =
          IF UsedForTsan
          THEN (Calls \ Lifetimes) \cup (IF IsToDead(o) THEN Releases ELSE Acquires)
          ELSE Calls
    BY <1>7 DEF EndsEarlierCover
  <2>2. BarriersAt(func, EndsEarlierCover) \subseteq
          BarriersAt(func, RelevantBarriers(~IsToDead(o))) \ SkippedPoints(o.From, To(o))
    BY <1>2, <1>3, <1>6, <1>7, <2>1, CoverIsRelevant
  <2>. QED
    BY <1>5, <1>6, <1>7, <2>2 DEF BlockedOnWalk, Crossed, CrossedAt
<1>8. ASSUME o \in Clean, ~IsToDead(o)
      PROVE  ~Crossed(func, o.Dead, EndsLaterCover, Place(func, o.Killing))
  <2>1. EndsLaterCover =
          IF UsedForTsan
          THEN (Calls \ Lifetimes) \cup (IF IsToDead(o) THEN Releases ELSE Acquires)
          ELSE Calls
    BY <1>8 DEF EndsLaterCover
  <2>2. BarriersAt(func, EndsLaterCover) \subseteq
          BarriersAt(func, RelevantBarriers(~IsToDead(o))) \ SkippedPoints(o.From, To(o))
    BY <1>2, <1>3, <1>6, <1>8, <2>1, CoverIsRelevant
  <2>. QED
    BY <1>5, <1>6, <1>8, <2>2 DEF BlockedOnWalk, Crossed, CrossedAt
<1>. QED
  BY <1>2, <1>3, <1>4, <1>6, <1>7, <1>8

\* Where a killing access dominates, its check stands when the dead one is executed.
LEMMA DominatorIsEarly ==
  ASSUME FlowInv, WalkInv, stage = "distilled", NEW o \in Clean, IsToDead(o),
         at = Place(func, o.Dead)
  PROVE  Early(o.Killing)
<1>0. IsFunction(func)
  BY DEF FlowInv, AnalysisInv, AnalysisTypeOK
<1>1. /\ o.Killing \in Insts(func) /\ o.Dead \in Insts(func)
      /\ Dominates(func, o.Killing, o.Dead)
      /\ ~Crossed(func, o.Killing, EndsEarlierCover, at)
  BY OpenEdge DEF Clean
<1>2. /\ at \notin Reach(Walks(func, {Place(func, o.Killing)}), {Start(func)} \ {Place(func, o.Killing)})
      /\ at # Place(func, o.Killing)
  BY <1>0, <1>1, DominatorPassed
<1>3. o.Killing \in DOMAIN since
  BY <1>1, <1>2 DEF WalkInv
<1>4. since[o.Killing] \cap EndsEarlierCover = {}
  BY <1>1, <1>2, <1>3 DEF WalkInv
<1>. QED
  BY <1>3, <1>4 DEF Early

LEMMA CoversFacts ==
  /\ \A k : Covers(k, k)
  /\ \A k, d, e : Covers(k, d) /\ Covers(d, e) => Covers(k, e)
  BY DEF Covers, Contained, WriteCompatible

LEMMA MarkersStay ==
  ASSUME UNCHANGED <<func, UsedForTsan>>
  PROVE  \A o : RecurringPastMarkers(o)' <=> RecurringPastMarkers(o)
  BY DEF RecurringPastMarkers, SkippedMarkers, WalksFrom, Points, NextPoints, PointOf, AfterLast,
     OpeningMarkers, To, IsToDead

LEMMA GhostStays ==
  ASSUME UNCHANGED <<func, UsedForTsan, Edges, DomSet>>
  PROVE  /\ EndsEarlierCover' = EndsEarlierCover /\ EndsLaterCover' = EndsLaterCover
         /\ Clean' = Clean
         /\ \A k, d : Covers(k, d)' <=> Covers(k, d)
         /\ \A o : IsToDead(o)' <=> IsToDead(o)
<1>1. Clean' = Clean
  BY MarkersStay DEF Clean, Open
<1>. QED
  BY <1>1 DEF EndsEarlierCover, EndsLaterCover, Covers, Contained, WriteCompatible, IsToDead

Reset(U, m) ==
  [k \in DomSet |-> IF k = m THEN {} ELSE IF Early(k) THEN U[k] ELSE U[k] \cup {m}]

LEMMA GhostAccess ==
  ASSUME FlowInv, WalkInv, DomSet \subseteq Mops, NEW m \in Mops, Access(m),
         NEW U, Ghost(U), NEW V, V = Reset(U, m)
  PROVE  Ghost(V)'
<1>0. IsFunction(func) /\ at \in PointsOf(func)
  BY DEF FlowInv, AnalysisInv, AnalysisTypeOK, WalkInv
<1>1. /\ m \in Insts(func) /\ at = Place(func, m)
      /\ at' \in NextOf(func, at) /\ at' \in PointsOf(func)
      /\ UNCHANGED <<func, UsedForTsan, MopList, stage, Edges, DomSet>>
      /\ stage = "distilled"
      /\ since' = [n \in DOMAIN since \cup {m} |-> IF n = m THEN {} ELSE since[n]]
  BY <1>0, AtAccess
<1>2. /\ EndsEarlierCover' = EndsEarlierCover /\ Clean' = Clean
      /\ \A k, d : Covers(k, d)' <=> Covers(k, d)
      /\ \A o : IsToDead(o)' <=> IsToDead(o)
  BY <1>1, GhostStays
<1>3. /\ DOMAIN since' = DOMAIN since \cup {m} /\ since'[m] = {}
      /\ \A d \in DOMAIN since : d # m => since'[d] = since[d]
  BY <1>1
<1>4. \A k \in DomSet : k # m => (Early(k)' <=> Early(k))
  BY <1>2, <1>3 DEF Early
<1>5. \A k \in DomSet : V[k] = IF k = m THEN {} ELSE IF Early(k) THEN U[k] ELSE U[k] \cup {m}
  BY DEF Reset
<1>6. V \in [DomSet -> SUBSET Mops]
  BY DEF Reset, Ghost
<1>7. \A k \in DomSet : /\ k \notin U[k] /\ U[k] \subseteq DOMAIN since
                        /\ U[k] # {} => ~Early(k)
                        /\ \A d \in DOMAIN since \ U[k] :
                             /\ k \in DOMAIN since
                             /\ since[d] \cap EndsEarlierCover = {}
                                => since[k] \cap EndsEarlierCover = {}
  BY DEF Ghost, Uncovered
<1>8. ASSUME NEW k \in DomSet
      PROVE  /\ k \notin V[k] /\ V[k] \subseteq DOMAIN since'
             /\ V[k] # {} => ~Early(k)'
             /\ \A d \in DOMAIN since' \ V[k] :
                  /\ k \in DOMAIN since'
                  /\ since'[d] \cap EndsEarlierCover = {}
                     => since'[k] \cap EndsEarlierCover = {}
  <2>1. CASE k = m
    BY <1>3, <1>5, <2>1
  <2>2. CASE k # m
    <3>1. /\ k \notin V[k] /\ V[k] \subseteq DOMAIN since'
          /\ V[k] # {} => ~Early(k)'
      BY <1>3, <1>4, <1>5, <1>7, <2>2
    <3>2. ASSUME NEW d \in DOMAIN since' \ V[k]
          PROVE  /\ k \in DOMAIN since'
                 /\ since'[d] \cap EndsEarlierCover = {}
                    => since'[k] \cap EndsEarlierCover = {}
      <4>1. CASE d = m
        <5>1. Early(k)
          BY <1>5, <2>2, <3>2, <4>1
        <5>. QED
          BY <1>3, <2>2, <5>1 DEF Early
      <4>2. CASE d # m
        <5>1. d \in DOMAIN since \ U[k]
          BY <1>3, <1>5, <2>2, <3>2, <4>2
        <5>. QED
          BY <1>3, <1>7, <2>2, <4>2, <5>1
      <4>. QED
        BY <4>1, <4>2
    <3>. QED
      BY <3>1, <3>2
  <2>. QED
    BY <2>1, <2>2
<1>9. ASSUME NEW k \in DomSet, NEW d \in pending', Covers(k, d)
      PROVE  d \in V[k]
  <2>1. pending' = IF m \in DomSet THEN {n \in pending : ~Covers(m, n)}
                   ELSE IF CoveredBefore(m) THEN pending ELSE pending \cup {m}
    BY DEF Access
  <2>2. k # m
    BY <1>9, <2>1
  <2>3. CASE d \in pending
    <3>1. d \in U[k]
      BY <1>9, <2>3 DEF Ghost, Uncovered
    <3>. QED
      BY <1>5, <2>2, <3>1
  <2>4. CASE d \notin pending
    <3>1. d = m /\ ~CoveredBefore(m)
      BY <1>9, <2>1, <2>4
    <3>2. ~Early(k)
      BY <1>9, <3>1 DEF CoveredBefore, Early
    <3>. QED
      BY <1>5, <2>2, <3>1, <3>2
  <2>. QED
    BY <2>3, <2>4
<1>10. ASSUME NEW k \in DomSet, NEW o \in Clean, o.Dead \in V[k]
       PROVE  \/ o.Killing \in V[k]
              \/ /\ ~IsToDead(o)
                 /\ \/ at' = Place(func, o.Killing)
                    \/ at' \in Reach(Walks(func, {Place(func, o.Killing)}), {Place(func, o.Dead)})
  <2>0. /\ o.Killing \in Insts(func) /\ o.Dead \in Insts(func) /\ o.Killing # o.Dead
        /\ Place(func, o.Dead) \in PointsOf(func)
    BY <1>0, <1>1, OpenEdge, PlaceFacts DEF Clean
  <2>1. k # m /\ ~Early(k) /\ V[k] = U[k] \cup {m}
    BY <1>4, <1>5, <1>7, <1>10
  <2>2. CASE o.Dead = m /\ IsToDead(o)
    <3>1. Early(o.Killing)
      BY <1>1, <2>2, DominatorIsEarly
    <3>2. o.Killing \in U[k]
      BY <1>7, <2>1, <3>1 DEF Early
    <3>. QED
      BY <2>1, <3>2
  <2>3. CASE o.Dead = m /\ ~IsToDead(o)
    <3>1. at \in Reach(Walks(func, {Place(func, o.Killing)}), {Place(func, o.Dead)})
      BY <1>0, <1>1, <2>0, <2>3, WalkIsIn
    <3>2. {Place(func, o.Dead)} \subseteq PointsOf(func)
      BY <2>0
    <3>. QED
      BY <1>0, <1>1, <2>0, <2>3, <3>1, <3>2, MissedOn
  <2>4. CASE o.Dead # m
    <3>1. o.Dead \in U[k]
      BY <1>10, <2>1, <2>4
    <3>2. \/ o.Killing \in U[k]
          \/ /\ ~IsToDead(o)
             /\ \/ at = Place(func, o.Killing)
                \/ at \in Reach(Walks(func, {Place(func, o.Killing)}), {Place(func, o.Dead)})
      BY <3>1 DEF Ghost, EdgesUncovered
    <3>3. CASE o.Killing \in U[k]
      BY <2>1, <3>3
    <3>4. CASE ~IsToDead(o) /\ at = Place(func, o.Killing)
      <4>1. o.Killing = m
        BY <1>0, <1>1, <2>0, <3>4, SamePlace
      <4>. QED
        BY <2>1, <4>1
    <3>5. CASE /\ ~IsToDead(o)
               /\ at \in Reach(Walks(func, {Place(func, o.Killing)}), {Place(func, o.Dead)})
      <4>1. {Place(func, o.Dead)} \subseteq PointsOf(func)
        BY <2>0
      <4>. QED
        BY <1>0, <1>1, <2>0, <3>5, <4>1, MissedOn
    <3>. QED
      BY <3>2, <3>3, <3>4, <3>5
  <2>. QED
    BY <2>2, <2>3, <2>4
<1>11. Uncovered(V)'
  BY <1>1, <1>2, <1>8, <1>9 DEF Uncovered
<1>12. EdgesUncovered(V)'
  BY <1>1, <1>2, <1>10 DEF EdgesUncovered
<1>. QED
  BY <1>1, <1>6, <1>11, <1>12 DEF Ghost

LEMMA GhostPasses ==
  ASSUME FlowInv, WalkInv, stage = "distilled", NEW U, Ghost(U),
         UNCHANGED <<func, UsedForTsan, Edges, DomSet>>,
         at' \in NextOf(func, at), \A m \in Insts(func) : at # Place(func, m),
         DOMAIN since' = DOMAIN since,
         NEW passed,
         \A d \in DOMAIN since : since'[d] = since[d] \cup passed,
         pending' \subseteq pending
  PROVE  Ghost(U)'
<1>0. IsFunction(func) /\ at \in PointsOf(func)
  BY DEF FlowInv, AnalysisInv, AnalysisTypeOK, WalkInv
<1>2. /\ EndsEarlierCover' = EndsEarlierCover /\ Clean' = Clean
      /\ \A k, d : Covers(k, d)' <=> Covers(k, d)
      /\ \A o : IsToDead(o)' <=> IsToDead(o)
  BY GhostStays
<1>3. \A k : Early(k)' => Early(k)
  BY <1>2 DEF Early
<1>4. ASSUME NEW k \in DomSet
      PROVE  /\ k \notin U[k] /\ U[k] \subseteq DOMAIN since'
             /\ U[k] # {} => ~Early(k)'
             /\ \A d \in DOMAIN since' \ U[k] :
                  /\ k \in DOMAIN since'
                  /\ since'[d] \cap EndsEarlierCover = {}
                     => since'[k] \cap EndsEarlierCover = {}
  <2>1. /\ k \notin U[k] /\ U[k] \subseteq DOMAIN since
        /\ U[k] # {} => ~Early(k)
        /\ \A d \in DOMAIN since \ U[k] :
             /\ k \in DOMAIN since
             /\ since[d] \cap EndsEarlierCover = {} => since[k] \cap EndsEarlierCover = {}
    BY DEF Ghost, Uncovered
  <2>. QED
    BY <1>3, <2>1
<1>5. \A k \in DomSet : \A m \in pending' : Covers(k, m) => m \in U[k]
  BY DEF Ghost, Uncovered
<1>6. Uncovered(U)'
  BY <1>2, <1>4, <1>5 DEF Uncovered
<1>7. ASSUME NEW k \in DomSet, NEW o \in Clean, o.Dead \in U[k], o.Killing \notin U[k]
      PROVE  /\ ~IsToDead(o)
             /\ \/ at' = Place(func, o.Killing)
                \/ at' \in Reach(Walks(func, {Place(func, o.Killing)}), {Place(func, o.Dead)})
  <2>0. /\ o.Killing \in Insts(func) /\ o.Dead \in Insts(func)
        /\ {Place(func, o.Dead)} \subseteq PointsOf(func)
    BY <1>0, OpenEdge, PlaceFacts DEF Clean
  <2>1. /\ ~IsToDead(o)
        /\ at \in Reach(Walks(func, {Place(func, o.Killing)}), {Place(func, o.Dead)})
    BY <1>7, <2>0 DEF Ghost, EdgesUncovered
  <2>. QED
    BY <1>0, <2>0, <2>1, MissedOn
<1>8. EdgesUncovered(U)'
  BY <1>2, <1>7 DEF EdgesUncovered
<1>. QED
  BY <1>6, <1>8 DEF Ghost

-----------------------------------------------------------------------------
(***************************************************************************)
(* Where later checks no longer cover what was executed before: at their   *)
(* barriers, and where the function returns.                               *)
(***************************************************************************)
\* A walk that has to come through x does.
LEMMA GoesThrough ==
  ASSUME NEW f, IsFunction(f), NEW x, NEW S, S \subseteq PointsOf(f),
         NEW q \in Reach(Walks(f, {}), S), q \notin Reach(Walks(f, {x}), S)
  PROVE  x \in Reach(Walks(f, {}), S)
<1>. DEFINE all == Reach(Walks(f, {}), S)
            P == Reach(Walks(f, {x}), S)
<1>. SUFFICES ASSUME x \notin all PROVE FALSE
  OBVIOUS
<1>1. S \subseteq P /\ P \subseteq PointsOf(f) /\ P \subseteq all
  BY WalkIsIn, WalkFreely
<1>2. ASSUME NEW p \in P, NEW r \in NextOf(f, p)
      PROVE  r \in {} \/ r \in P
  <2>1. r \in all
    BY <1>1, <1>2, WalkStep
  <2>. QED
    BY <1>2, <2>1, WalkStep
<1>3. all \subseteq P
  <2>. HIDE DEF P
  <2>. QED
    BY <1>1, <1>2, WalkStaysIn
<1>. QED
  BY <1>3

LEMMA AfterIsAhead ==
  ASSUME NEW f, IsFunction(f), NEW m \in Insts(f)
  PROVE  After(f, m) \subseteq Reach(Walks(f, {}), {Place(f, m)})
<1>. DEFINE all == Reach(Walks(f, {}), {Place(f, m)})
            X == {Place(f, m)}
            N == Walks(f, X)[Place(f, m)]
<1>1. {Place(f, m)} \subseteq PointsOf(f) /\ Place(f, m) \in PointsOf(f)
  BY PlaceFacts
<1>2. Place(f, m) \in all /\ all \in SUBSET PointsOf(f)
  BY <1>1, WalkIsIn
<1>3. \A p \in all : \A r \in NextOf(f, p) : r \in all
  BY <1>1, WalkStep
<1>4. N \subseteq all
  BY <1>1, <1>2, <1>3 DEF Walks
<1>5. After(f, m) = Reach(Walks(f, X), N)
  BY DEF After, Onward
<1>6. \A p \in all : \A r \in NextOf(f, p) : r \in X \/ r \in all
  BY <1>3
<1>. HIDE DEF all, N, X
<1>7. After(f, m) \subseteq all
  BY <1>2, <1>4, <1>5, <1>6, WalkStaysIn
<1>. QED
  BY <1>7 DEF all

StopsAt(p) ==
  \/ p \in BarriersAt(func, EndsLaterCover)
  \/ p[2] = End(func, p[1]) /\ func.succs[p[1]] = {}

LEMMA NothingAhead ==
  ASSUME IsFunction(func), NEW p \in PointsOf(func),
         p[2] = End(func, p[1]), func.succs[p[1]] = {}
  PROVE  /\ Reach(Walks(func, {}), {p}) = {p}
         /\ \A d \in Insts(func) : Place(func, d) # p
<1>1. p[2] \in Nat
  BY PointFacts
<1>2. NextOf(func, p) = {}
  BY <1>1 DEF NextOf
<1>3. Reach(Walks(func, {}), {p}) \subseteq {p}
  <2>1. \A q \in {p} : \A r \in NextOf(func, q) : r \in {} \/ r \in {p}
    BY <1>2
  <2>2. {p} \in SUBSET PointsOf(func) /\ {p} \subseteq {p}
    OBVIOUS
  <2>. QED
    BY <2>1, <2>2, WalkStaysIn
<1>4. p \in Reach(Walks(func, {}), {p})
  BY WalkIsIn
<1>5. \A d \in Insts(func) : Place(func, d) # p
  BY <1>1, PlaceFacts
<1>. QED
  BY <1>3, <1>4, <1>5

LEMMA StopIsNoAccess ==
  ASSUME IsFunction(func), NEW p \in PointsOf(func), StopsAt(p), NEW d \in Insts(func)
  PROVE  Place(func, d) # p
<1>1. CASE p \in BarriersAt(func, EndsLaterCover)
  <2>1. EndsLaterCover \subseteq Barriers
    BY DEF EndsLaterCover, Barriers
  <2>2. func.code[p[1]][p[2]] \in Barriers
    BY <1>1, <2>1 DEF BarriersAt
  <2>. QED
    BY <2>2, PlaceFacts, MopFunctionAssumption
<1>2. CASE p[2] = End(func, p[1]) /\ func.succs[p[1]] = {}
  BY <1>2, NothingAhead
<1>. QED
  BY <1>1, <1>2 DEF StopsAt

\* From the barrier, the run comes to the killing access of an open edge only by
\* way of the dead one: no barrier lies on a walk straight from that to the other.
LEMMA NotStraight ==
  ASSUME IsFunction(func), WalkInv, StopsAt(at), NEW e \in DOMAIN since,
         NEW k \in Insts(func),
         ~Crossed(func, e, EndsLaterCover, Place(func, k)),
         Place(func, k) \in Reach(Walks(func, {}), {at})
  PROVE  Place(func, e) \in Reach(Walks(func, {}), {at})
<1>0. e \in Insts(func) /\ at \in PointsOf(func)
  BY DEF WalkInv
<1>1. CASE at \in BarriersAt(func, EndsLaterCover)
  <2>1. at # Place(func, e)
    BY <1>0, StopIsNoAccess
  <2>2. at \in After(func, e)
    BY <2>1 DEF WalkInv
  <2>3. Place(func, k) \notin Onward(func, e, at)
    BY <1>1, <2>2 DEF Crossed, CrossedAt
  <2>4. at # Place(func, k)
    BY <1>0, StopIsNoAccess
  <2>5. Place(func, k) \notin Reach(Walks(func, {Place(func, e)}), {at})
    BY <1>0, <2>3, <2>4, OnwardFacts
  <2>. QED
    BY <1>0, <2>5, GoesThrough
<1>2. CASE at[2] = End(func, at[1]) /\ func.succs[at[1]] = {}
  BY <1>0, <1>2, NothingAhead
<1>. QED
  BY <1>1, <1>2 DEF StopsAt

\* An edge past lifetime markers should lead to m from a check.
LedPastMarkers(m) ==
  \E o \in Edges : RecurringPastMarkers(o) /\ m \in Reach(Children, {o.Dead})

\* What is pending at such a point is executed again, unless an edge past lifetime
\* markers should lead to it: the accesses that lead to others only, are covered or lie
\* ahead hold the kept ones and are closed along the open edges.
LEMMA PendingLiesAhead ==
  ASSUME FlowInv, KeptInv, WalkInv, stage = "distilled", StopsAt(at),
         NEW U, Ghost(U), NEW m \in pending \cap Insts(func), ~LedPastMarkers(m)
  PROVE  Place(func, m) \in Reach(Walks(func, {}), {at})
<1>. DEFINE ahead == Reach(Walks(func, {}), {at})
            X == {d \in Insts(func) : \E k \in DomSet :
                    Covers(k, d) /\ (d \in U[k] => Place(func, d) \in ahead)}
            off == {d \in MopList : m \notin Reach(Children, {d})}
<1>0. /\ IsFunction(func) /\ at \in PointsOf(func) /\ DomSet \subseteq Insts(func)
      /\ EdgesInv /\ MopList \subseteq Insts(func)
  BY DEF FlowInv, AnalysisInv, AnalysisTypeOK, WalkInv, KeptInv
<1>1. ahead \subseteq PointsOf(func)
  BY <1>0, WalkIsIn
<1>2. DomSet \subseteq X
  <2>. SUFFICES ASSUME NEW k \in DomSet PROVE k \in X
    OBVIOUS
  <2>1. k \notin U[k] /\ Covers(k, k) /\ k \in Insts(func)
    BY <1>0, CoversFacts DEF Ghost, Uncovered
  <2>. QED
    BY <2>1
<1>3. ASSUME NEW d \in X \cap MopList, NEW o \in Clean, o.Killing = d, NEW e, e = o.Dead
      PROVE  e \in X
  <2>2. PICK k \in DomSet : Covers(k, d) /\ (d \in U[k] => Place(func, d) \in ahead)
    BY <1>3
  <2>3. /\ d \in Insts(func) /\ e \in Insts(func) /\ Covers(d, e)
        /\ IsToDead(o) => Dominates(func, d, e)
        /\ ~IsToDead(o) => /\ PostDominates(func, d, e)
                           /\ ~Crossed(func, e, EndsLaterCover, Place(func, d))
    BY <1>3, OpenEdge DEF Clean
  <2>4. Covers(k, e)
    BY <2>2, <2>3, CoversFacts
  <2>5. ASSUME e \in U[k]
        PROVE  Place(func, e) \in ahead
    <3>0. e \in DOMAIN since
      BY <2>5 DEF Ghost, Uncovered
    <3>1. \/ d \in U[k]
          \/ /\ ~IsToDead(o)
             /\ \/ at = Place(func, d)
                \/ at \in Reach(Walks(func, {Place(func, d)}), {Place(func, e)})
      BY <1>3, <2>5 DEF Ghost, EdgesUncovered
    <3>2. CASE IsToDead(o)
      <4>1. Place(func, d) \in ahead
        BY <2>2, <3>1, <3>2
      <4>2. Place(func, e) \in Reach(Walks(func, {}), {Place(func, d)})
        BY <1>0, <2>3, <3>2, DominatedFollows, AfterIsAhead
      <4>3. {at} \subseteq PointsOf(func)
        BY <1>0
      <4>. QED
        BY <1>0, <4>1, <4>2, <4>3, WalkOn
    <3>3. CASE ~IsToDead(o)
      <4>1. at # Place(func, d)
        BY <1>0, <2>3, StopIsNoAccess
      <4>2. Place(func, d) \in ahead
        <5>1. CASE d \in U[k]
          BY <2>2, <5>1
        <5>2. CASE at \in Reach(Walks(func, {Place(func, d)}), {Place(func, e)})
          BY <1>0, <2>3, <3>3, <5>2, PostDominatorAhead
        <5>. QED
          BY <3>1, <4>1, <5>1, <5>2
      <4>. QED
        BY <1>0, <2>3, <3>0, <3>3, <4>2, NotStraight
    <3>. QED
      BY <3>2, <3>3
  <2>. QED
    BY <2>2, <2>3, <2>4, <2>5
<1>4. ASSUME NEW d \in (X \cup off) \cap MopList, NEW e \in Children[d]
      PROVE  e \in X \cup off
  <2>1. PICK o \in Open : o.Killing = d /\ o.Dead = e
    BY <1>4 DEF Children
  <2>2. IsGraph(Children) /\ DOMAIN Children = MopList /\ e \in MopList
    BY <1>0, <1>4, ChildrenGraph DEF IsGraph
  <2>3. CASE d \in off
    <3>1. e \in Reach(Children, {d})
      BY <1>4, <2>2, ReachClosed, ReachStep
    <3>2. Reach(Children, {e}) \subseteq Reach(Children, {d})
      BY <2>2, <3>1, ReachTransitive
    <3>. QED
      BY <2>2, <2>3, <3>2
  <2>4. CASE RecurringPastMarkers(o)
    <3>1. m \notin Reach(Children, {e})
      BY <2>1, <2>4 DEF LedPastMarkers, Open
    <3>. QED
      BY <2>2, <3>1
  <2>5. CASE d \in X /\ ~RecurringPastMarkers(o)
    <3>1. o \in Clean
      BY <2>1, <2>5 DEF Clean
    <3>2. e \in X
      <4>. HIDE DEF X
      <4>. QED
        BY <1>3, <1>4, <2>1, <2>5, <3>1
    <3>. QED
      BY <3>2
  <2>. QED
    BY <2>3, <2>4, <2>5
<1>5. X \cup off = Insts(func)
  <2>1. KeptLeadToAll
    BY KeptLead
  <2>2. X \cup off \in SUBSET Insts(func)
    BY <1>0
  <2>3. \A d \in (X \cup off) \cap MopList : Children[d] \subseteq X \cup off
    BY <1>4
  <2>. HIDE DEF X, off
  <2>. QED
    BY <1>2, <2>1, <2>2, <2>3 DEF KeptLeadToAll
<1>6. m \notin off
  BY <1>0, ChildrenGraph, ReachClosed
<1>7. PICK k \in DomSet : Covers(k, m) /\ (m \in U[k] => Place(func, m) \in ahead)
  BY <1>5, <1>6
<1>8. m \in U[k]
  BY <1>7 DEF Ghost, Uncovered
<1>. QED
  BY <1>7, <1>8

-----------------------------------------------------------------------------
EscapeInv ==
  /\ pending \subseteq DOMAIN since
  /\ at # <<>> => WalkInv
  /\ at = <<>> => pending = {}
  /\ stage # "distilled" => pending = {} /\ escaped = {} /\ at # <<>>
  /\ stage = "distilled" /\ at # <<>> => \E U : Ghost(U)
  /\ EscapesOnlyAcrossLoopsOrMarkers

RunInv == FlowInv /\ KeptInv /\ EscapeInv

LEMMA CycleWalks ==
  ASSUME NEW m, NEW p \in BarriersAt(func, EndsLaterCover),
         p \in Reach(Walks(func, {}), {Place(func, m)}),
         Place(func, m) \in Reach(Walks(func, {}), {p})
  PROVE  OnBarrierCycle(m)
<1>1. /\ Points = PointsOf(func) /\ \A q : NextPoints(q) = NextOf(func, q)
      /\ BarrierPoints(EndsLaterCover) = BarriersAt(func, EndsLaterCover)
      /\ PointOf(m) = Place(func, m)
  BY SameWalks
<1>2. [q \in Points |-> NextPoints(q)] = Walks(func, {})
  BY <1>1 DEF Walks
<1>. QED
  BY <1>1, <1>2 DEF OnBarrierCycle

LEMMA EscapesAre ==
  EscapesOnlyAcrossLoopsOrMarkers <=> \A m \in escaped : OnBarrierCycle(m) \/ LedPastMarkers(m)
  BY DEF EscapesOnlyAcrossLoopsOrMarkers, LedPastMarkers

\* After a step of the run, and before it.
LEMMA EscapesAfter ==
  ASSUME UNCHANGED <<func, UsedForTsan, MopList, Edges>>
  PROVE  EscapesOnlyAcrossLoopsOrMarkers' <=>
           \A m \in escaped' : OnBarrierCycle(m) \/ LedPastMarkers(m)
<1>1. \A m : OnBarrierCycle(m)' <=> OnBarrierCycle(m)
  BY DEF OnBarrierCycle, BarrierPoints, Points, NextPoints, PointOf, AfterLast, EndsLaterCover
<1>2. Children' = Children
  BY DEF Children, Open
<1>3. \A o : RecurringPastMarkers(o)' <=> RecurringPastMarkers(o)
  BY MarkersStay
<1>. QED
  BY <1>1, <1>2, <1>3 DEF EscapesOnlyAcrossLoopsOrMarkers, LedPastMarkers

LEMMA EscapeInit == ExecutionInit => EscapeInv
<1>. SUFFICES ASSUME ExecutionInit PROVE EscapeInv
  OBVIOUS
<1>1. IsFunction(func)
  BY FlowInit DEF FlowInv, AnalysisInv, AnalysisTypeOK
<1>2. at = Start(func) /\ at \in PointsOf(func)
  BY <1>1, StartIsPoint DEF ExecutionInit, Start
<1>3. DOMAIN since = {} /\ pending = {} /\ escaped = {} /\ stage = "analysis" /\ at # <<>>
  BY DEF ExecutionInit, Init
<1>4. ASSUME NEW d \in Insts(func), at # Place(func, d)
      PROVE  at \in Reach(Walks(func, {Place(func, d)}), {Start(func)} \ {Place(func, d)})
  <2>1. {Start(func)} \ {Place(func, d)} \subseteq PointsOf(func)
    BY <1>2
  <2>2. at \in {Start(func)} \ {Place(func, d)}
    BY <1>2, <1>4
  <2>. QED
    BY <1>1, <2>1, <2>2, WalkIsIn
<1>5. WalkInv
  BY <1>2, <1>3, <1>4 DEF WalkInv
<1>. QED
  BY <1>3, <1>5 DEF EscapeInv, EscapesOnlyAcrossLoopsOrMarkers

LEMMA EscapeDistill ==
  ASSUME RunInv, DistillNext, UNCHANGED execution_vars
  PROVE  EscapeInv'
<1>1. UNCHANGED <<at, since, pending, escaped>>
  BY DEF execution_vars
<1>2. stage # "distilled"
  <2>1. CASE Analyze
    <3>1. ~Constructed
      BY <2>1 DEF RunInv, FlowInv, Analyze, AnalysisNext, VisitInRPO, VisitFromWorkList,
         FinishAnalysis, AnalysisInv, Constructed
    <3>. QED
      BY <3>1 DEF RunInv, FlowInv, ExecutionInv
  <2>. QED
    BY <2>1 DEF DistillNext, BlockEdges, FillRoots, FillCycle, Distilled
<1>3. since = [m \in {} |-> {}] /\ DOMAIN since = {}
  BY <1>2 DEF RunInv, FlowInv, ExecutionInv
<1>4. pending = {} /\ escaped = {} /\ at # <<>> /\ WalkInv
  BY <1>2 DEF RunInv, EscapeInv
<1>5. UNCHANGED <<func, UsedForTsan, MopList>>
  BY EdgesStep DEF RunInv, KeptInv, Next
<1>6. WalkInv'
  BY <1>1, <1>4, <1>5 DEF WalkInv
<1>7. \E U : Ghost(U)'
  <2>1. PICK U : U = [k \in DomSet' |-> {}]
    OBVIOUS
  <2>2. U \in [DomSet' -> SUBSET Mops] /\ \A k \in DomSet' : U[k] = {}
    BY <2>1
  <2>3. DOMAIN since' = {} /\ pending' = {}
    BY <1>1, <1>3, <1>4
  <2>4. Uncovered(U)' /\ EdgesUncovered(U)'
    BY <2>2, <2>3 DEF Uncovered, EdgesUncovered
  <2>. QED
    BY <2>2, <2>4 DEF Ghost
<1>8. EscapesOnlyAcrossLoopsOrMarkers'
  BY <1>1, <1>4 DEF EscapesOnlyAcrossLoopsOrMarkers
<1>. QED
  BY <1>1, <1>3, <1>4, <1>6, <1>7, <1>8 DEF EscapeInv

LEMMA EscapeExecute ==
  ASSUME RunInv, Execute
  PROVE  EscapeInv'
<1>0. /\ IsFunction(func) /\ DomSet \subseteq Mops /\ FlowInv /\ KeptInv /\ EscapeInv
      /\ at # <<>> /\ stage = "distilled" /\ stage' = "distilled" /\ WalkInv
      /\ at \in PointsOf(func)
  <2>1. IsFunction(func) /\ FlowInv /\ KeptInv /\ EscapeInv
    BY DEF RunInv, FlowInv, AnalysisInv, AnalysisTypeOK
  <2>2. at # <<>> /\ stage = "distilled" /\ stage' = "distilled"
    BY DEF Execute, Access, PassBarrier, Branch, Return, AtInstruction, recurrence_vars
  <2>3. DomSet \subseteq Mops
    BY <2>1, <2>2, PlaceFacts DEF KeptInv
  <2>. QED
    BY <2>1, <2>2, <2>3 DEF EscapeInv, WalkInv
<1>1. PICK U : Ghost(U)
  BY <1>0 DEF EscapeInv
<1>2. UNCHANGED <<func, UsedForTsan, MopList, Edges>>
  BY DEF Execute, Access, PassBarrier, Branch, Return, analysis_vars, input_vars,
     recurrence_vars
<1>10. (\A m \in escaped' : m \in escaped \/ OnBarrierCycle(m) \/ LedPastMarkers(m))
         => EscapesOnlyAcrossLoopsOrMarkers'
  <2>. SUFFICES ASSUME \A m \in escaped' : m \in escaped \/ OnBarrierCycle(m) \/ LedPastMarkers(m)
                PROVE  EscapesOnlyAcrossLoopsOrMarkers'
    OBVIOUS
  <2>1. \A m \in escaped : OnBarrierCycle(m) \/ LedPastMarkers(m)
    BY <1>0, EscapesAre DEF EscapeInv
  <2>2. \A m \in escaped' : OnBarrierCycle(m) \/ LedPastMarkers(m)
    BY <2>1
  <2>. QED
    BY <1>2, <2>2, EscapesAfter
<1>3. pending \subseteq DOMAIN since /\ EscapesOnlyAcrossLoopsOrMarkers
  BY <1>0 DEF EscapeInv
<1>4. ASSUME NEW m \in Mops, Access(m)
      PROVE  EscapeInv'
  <2>1. /\ at' # <<>>
        /\ since' = [n \in DOMAIN since \cup {m} |-> IF n = m THEN {} ELSE since[n]]
    BY <1>0, <1>4, AtAccess
  <2>2. WalkInv'
    BY <1>0, <2>1, WalkInvStep
  <2>3. \E V : Ghost(V)'
    <3>1. PICK V : V = Reset(U, m)
      OBVIOUS
    <3>2. Ghost(V)'
      BY <1>0, <1>1, <1>4, <3>1, GhostAccess
    <3>. QED
      BY <3>2
  <2>4. pending' \subseteq DOMAIN since'
    BY <1>3, <1>4, <2>1 DEF Access
  <2>5. escaped' = escaped
    BY <1>4 DEF Access
  <2>6. EscapesOnlyAcrossLoopsOrMarkers'
    BY <1>10, <2>5
  <2>. QED
    BY <1>0, <2>1, <2>2, <2>3, <2>4, <2>6 DEF EscapeInv
<1>5. CASE PassBarrier
  <2>1. /\ at' # <<>> /\ at' \in NextOf(func, at)
        /\ \A m \in Insts(func) : at # Place(func, m)
        /\ \A barriers : Instruction \in barriers => at \in BarriersAt(func, barriers)
        /\ UNCHANGED <<func, UsedForTsan, Edges, DomSet>>
        /\ since' = [n \in DOMAIN since |-> since[n] \cup {Instruction}]
    BY <1>0, <1>5, AtBarrier
  <2>2. WalkInv'
    BY <1>0, <2>1, WalkInvStep
  <2>3. DOMAIN since' = DOMAIN since /\ \A d \in DOMAIN since : since'[d] = since[d] \cup {Instruction}
    BY <2>1
  <2>4. /\ pending' \subseteq pending
        /\ escaped' = escaped \/ (Instruction \in EndsLaterCover /\ escaped' = escaped \cup pending)
    BY <1>5 DEF PassBarrier
  <2>5. Ghost(U)'
    BY <1>0, <1>1, <2>1, <2>3, <2>4, GhostPasses
  <2>6. ASSUME Instruction \in EndsLaterCover, NEW m \in pending
        PROVE  OnBarrierCycle(m) \/ LedPastMarkers(m)
    <3>. SUFFICES ASSUME ~LedPastMarkers(m) PROVE OnBarrierCycle(m)
      OBVIOUS
    <3>1. at \in BarriersAt(func, EndsLaterCover) /\ StopsAt(at)
      BY <2>1, <2>6 DEF StopsAt
    <3>2. m \in Insts(func) /\ at \in After(func, m)
      BY <1>0, <1>3, <2>1 DEF WalkInv
    <3>3. at \in Reach(Walks(func, {}), {Place(func, m)})
      BY <1>0, <3>2, AfterIsAhead
    <3>4. Place(func, m) \in Reach(Walks(func, {}), {at})
      BY <1>0, <1>1, <3>1, <3>2, PendingLiesAhead
    <3>. QED
      BY <3>1, <3>3, <3>4, CycleWalks
  <2>7. EscapesOnlyAcrossLoopsOrMarkers'
    BY <1>10, <2>4, <2>6
  <2>8. pending' \subseteq DOMAIN since'
    BY <1>3, <2>3, <2>4
  <2>. QED
    BY <1>0, <2>1, <2>2, <2>5, <2>7, <2>8 DEF EscapeInv
<1>6. ASSUME NEW b \in Blocks(func), Branch(b)
      PROVE  EscapeInv'
  <2>1. /\ at' # <<>> /\ at' \in NextOf(func, at)
        /\ \A m \in Insts(func) : at # Place(func, m)
        /\ UNCHANGED <<func, UsedForTsan, Edges, DomSet>> /\ since' = since
    BY <1>0, <1>6, AtBranch
  <2>2. WalkInv'
    BY <1>0, <2>1, WalkInvStep
  <2>3. pending' = pending /\ escaped' = escaped
    BY <1>6 DEF Branch
  <2>4. Ghost(U)'
    <3>1. \A d \in DOMAIN since : since'[d] = since[d] \cup {}
      BY <2>1
    <3>2. DOMAIN since' = DOMAIN since /\ pending' \subseteq pending
      BY <2>1, <2>3
    <3>. QED
      BY <1>0, <1>1, <2>1, <3>1, <3>2, GhostPasses
  <2>5. EscapesOnlyAcrossLoopsOrMarkers'
    BY <1>10, <2>3
  <2>. QED
    BY <1>0, <1>3, <2>1, <2>2, <2>3, <2>4, <2>5 DEF EscapeInv
<1>7. CASE Return
  <2>1. /\ at' = <<>> /\ escaped' = escaped \cup pending /\ pending' = {} /\ since' = since
        /\ at[2] = End(func, at[1]) /\ func.succs[at[1]] = {}
    BY <1>7 DEF Return, AfterLast, End
  <2>2. \A m \in pending : LedPastMarkers(m)
    <3>. SUFFICES ASSUME NEW m \in pending, ~LedPastMarkers(m) PROVE FALSE
      OBVIOUS
    <3>1. StopsAt(at)
      BY <2>1 DEF StopsAt
    <3>2. m \in Insts(func)
      BY <1>0, <1>3 DEF WalkInv
    <3>3. Place(func, m) \in Reach(Walks(func, {}), {at})
      BY <1>0, <1>1, <3>1, <3>2, PendingLiesAhead
    <3>. QED
      BY <1>0, <2>1, <3>2, <3>3, NothingAhead
  <2>3. EscapesOnlyAcrossLoopsOrMarkers'
    BY <1>10, <2>1, <2>2
  <2>. QED
    BY <1>0, <2>1, <2>3 DEF EscapeInv
<1>. QED
  BY <1>4, <1>5, <1>6, <1>7 DEF Execute

LEMMA RunStep ==
  ASSUME RunInv, [Next]_vars
  PROVE  RunInv'
<1>1. FlowInv' /\ KeptInv'
  BY FlowStep, NextKeepsKept DEF RunInv
<1>2. CASE UNCHANGED vars
  <2>1. UNCHANGED <<func, UsedForTsan, MopList, Edges, DomSet, stage, at, since, pending, escaped>>
    BY <1>2 DEF vars, analysis_vars, input_vars, recurrence_vars, execution_vars
  <2>2. /\ EndsEarlierCover' = EndsEarlierCover /\ Clean' = Clean
        /\ \A k, d : Covers(k, d)' <=> Covers(k, d)
        /\ \A o : IsToDead(o)' <=> IsToDead(o)
    BY <2>1, GhostStays
  <2>3. \A U : Ghost(U)' <=> Ghost(U)
    BY <2>1, <2>2 DEF Ghost, Uncovered, EdgesUncovered, Early
  <2>4. WalkInv' <=> WalkInv
    BY <2>1 DEF WalkInv
  <2>5. EscapesOnlyAcrossLoopsOrMarkers' <=> EscapesOnlyAcrossLoopsOrMarkers
    BY <2>1, EscapesAre, EscapesAfter
  <2>. QED
    BY <1>1, <2>1, <2>3, <2>4, <2>5 DEF RunInv, EscapeInv
<1>3. CASE DistillNext /\ UNCHANGED execution_vars
  BY <1>1, <1>3, EscapeDistill DEF RunInv
<1>4. CASE Execute
  BY <1>1, <1>4, EscapeExecute DEF RunInv
<1>. QED
  BY <1>2, <1>3, <1>4 DEF Next

\* Whatever a run of the distilled function does, an access without a check of its own
\* goes uncovered only where a barrier lies on a cycle through it, or where ASan's pass
\* took an edge that should lead to it to be recurring past lifetime markers it skips
\* (ActiveMopAnalysis.cpp:541): the other edges that remain open and the accesses kept
\* at their roots cover all others.
THEOREM EscapesBounded == Spec => []EscapesOnlyAcrossLoopsOrMarkers
<1>1. ExecutionInit => RunInv
  BY FlowInit, InitKept, EscapeInit DEF RunInv
<1>2. RunInv /\ [Next]_vars => RunInv'
  BY RunStep
<1>3. RunInv => EscapesOnlyAcrossLoopsOrMarkers
  BY DEF RunInv, EscapeInv
<1>. QED
  BY <1>1, <1>2, <1>3, PTL DEF Spec

-----------------------------------------------------------------------------
(***************************************************************************)
(* Why the pass ends.  Each of its steps brings it closer to the end: it   *)
(* goes on to the next stage, or makes the first pass over the blocks      *)
(* shorter, or climbs in the lattice, whose height is finite, or only      *)
(* takes a block off the work list, or visits more of the graph.  TLC      *)
(* checks what follows from it under fairness, PassTerminates.             *)
(***************************************************************************)
Rank == [analysis |-> 1, graph |-> 2, dominating |-> 3, distilled |-> 4]

\* No bit of the lattice is ever taken back.
InfoClimbs ==
  \A b \in Blocks(func) : Below(In[b], In'[b]) /\ Below(Out[b], Out'[b])

AnalysisGoesOn ==
  \/ ~Analyzed /\ Analyzed' /\ UNCHANGED info_vars
  \/ /\ InfoClimbs /\ Analyzed' = Analyzed
     /\ \/ RPOT # <<>> /\ RPOT' = Tail(RPOT)
        \/ RPOT' = RPOT /\ Out' # Out
        \/ RPOT' = RPOT /\ Out' = Out /\ WorkList' \subseteq WorkList /\ WorkList' # WorkList

PassGoesOn ==
  /\ func' = func /\ MopList' = MopList
  /\ \/ AnalysisGoesOn /\ stage' = stage
     \/ UNCHANGED analysis_vars /\ Rank[stage] < Rank[stage']
     \/ /\ UNCHANGED <<analysis_vars, stage>>
        /\ Visited \subseteq Visited' /\ Visited' # Visited /\ Visited' \subseteq Insts(func)

\* The end of a block was computed from its beginning, if it was.
OutInv == \A b \in Blocks(func) : Out[b] \in {Bottom, transfer(b, In[b])}

LEMMA TransferMonotone ==
  ASSUME NEW b, NEW a, NEW c, Below(a, c)
  PROVE  Below(transfer(b, a), transfer(b, c))
  BY DEF Below, transfer, TransferBits

LEMMA BottomIsLeast ==
  ASSUME NEW a
  PROVE  Below(Bottom, a) /\ Below(a, a)
  BY DEF Below, Bottom

LEMMA UpdateClimbs ==
  ASSUME AnalysisTypeOK, OutInv, NEW b \in Blocks(func), updateInfo(b),
         UNCHANGED input_vars
  PROVE  InfoClimbs /\ OutInv' /\ (NewOut(b) = Out[b] <=> Out' = Out)
<1>1. /\ In' \in [Blocks(func) -> Lattice] /\ Out' \in [Blocks(func) -> Lattice]
      /\ In'[b] = NewIn(b) /\ Out'[b] = NewOut(b)
      /\ \A c \in Blocks(func) \ {b} : In'[c] = In[c] /\ Out'[c] = Out[c]
  BY UpdateEffect
<1>2. Below(In[b], NewIn(b))
  BY DEF NewIn, join, Below
<1>3. Below(Out[b], NewOut(b))
  BY <1>2, TransferMonotone, BottomIsLeast DEF OutInv, NewOut
<1>4. InfoClimbs
  BY <1>1, <1>2, <1>3, BottomIsLeast DEF InfoClimbs
<1>5. \A c \in Blocks(func) : \A a : transfer(c, a)' = transfer(c, a)
  BY DEF transfer, TransferBits, Gen, UseGen, ContainsBarrier, HasBarrier, AfterLast, input_vars
<1>6. OutInv'
  BY <1>1, <1>5 DEF OutInv, NewOut, input_vars
<1>7. NewOut(b) = Out[b] <=> Out' = Out
  BY <1>1 DEF AnalysisTypeOK
<1>. QED
  BY <1>4, <1>6, <1>7

LEMMA AnalysisProgress ==
  ASSUME AnalysisInv, OutInv, AnalysisNext
  PROVE  AnalysisGoesOn /\ OutInv' /\ UNCHANGED input_vars
<1>1. AnalysisTypeOK
  BY DEF AnalysisInv
<1>2. CASE VisitInRPO
  <2>1. RPOT # <<>> /\ RPOT \in Seq(Blocks(func)) /\ RPOT' = Tail(RPOT)
    BY <1>1, <1>2 DEF VisitInRPO, AnalysisTypeOK
  <2>2. /\ Head(RPOT) \in Blocks(func) /\ updateInfo(Head(RPOT))
        /\ UNCHANGED <<input_vars, Analyzed>>
    BY <1>2, <2>1 DEF VisitInRPO
  <2>3. InfoClimbs /\ OutInv'
    BY <1>1, <2>2, UpdateClimbs
  <2>. QED
    BY <2>1, <2>2, <2>3 DEF AnalysisGoesOn
<1>3. ASSUME NEW b \in Blocks(func), VisitFromWorkList(b)
      PROVE  AnalysisGoesOn /\ OutInv' /\ UNCHANGED input_vars
  <2>1. updateInfo(b) /\ UNCHANGED <<input_vars, Analyzed>> /\ RPOT' = RPOT
    BY <1>3 DEF VisitFromWorkList
  <2>2. InfoClimbs /\ OutInv' /\ (NewOut(b) = Out[b] <=> Out' = Out)
    BY <1>1, <2>1, UpdateClimbs
  <2>3. NewOut(b) = Out[b] => WorkList' \subseteq WorkList /\ WorkList' # WorkList
    BY <1>3 DEF VisitFromWorkList
  <2>. QED
    BY <2>1, <2>2, <2>3 DEF AnalysisGoesOn
<1>4. CASE FinishAnalysis
  <2>1. ~Analyzed /\ Analyzed' /\ UNCHANGED <<input_vars, info_vars>>
    BY <1>4 DEF FinishAnalysis
  <2>2. OutInv'
    BY <2>1 DEF OutInv, input_vars, info_vars, transfer, TransferBits, Gen, UseGen,
                ContainsBarrier, HasBarrier, AfterLast
  <2>. QED
    BY <2>1, <2>2 DEF AnalysisGoesOn
<1>. QED
  BY <1>2, <1>3, <1>4 DEF AnalysisNext

LEMMA SearchTypes ==
  ASSUME EdgesInv
  PROVE  /\ \A v \in MopList : v \in Reach(Children, {v})
         /\ \A S \in SUBSET MopList : Reach(Children, S) \subseteq Insts(func)
<1>1. IsGraph(Children) /\ DOMAIN Children = MopList /\ MopList \subseteq Insts(func)
  BY ChildrenGraph DEF EdgesInv
<1>. QED
  BY <1>1, ReachClosed

VisitedInv == Visited \subseteq Insts(func)

\* A step of the pass is never idle.
LEMMA DistillProgress ==
  ASSUME FlowInv, KeptInv, OutInv, VisitedInv, DistillNext
  PROVE  PassGoesOn /\ OutInv' /\ VisitedInv'
<1>0. AnalysisInv /\ EdgesInv
  BY DEF FlowInv, KeptInv
<1>1. CASE Analyze
  <2>1. AnalysisGoesOn /\ OutInv' /\ UNCHANGED input_vars
    BY <1>0, <1>1, AnalysisProgress DEF Analyze
  <2>2. UNCHANGED <<stage, Visited, func, MopList>>
    BY <1>1, <2>1 DEF Analyze, recurrence_vars, input_vars
  <2>. QED
    BY <2>1, <2>2 DEF PassGoesOn, VisitedInv
<1>2. ASSUME UNCHANGED analysis_vars
      PROVE  func' = func /\ MopList' = MopList /\ OutInv'
  <2>1. UNCHANGED <<func, UsedForTsan, MopList, In, Out>>
    BY <1>2 DEF analysis_vars, input_vars, info_vars
  <2>. QED
    BY <2>1 DEF OutInv, transfer, TransferBits, Gen, UseGen, ContainsBarrier, HasBarrier,
                AfterLast
<1>3. CASE BlockEdges
  <2>1. /\ UNCHANGED <<analysis_vars, Visited>> /\ Rank[stage] < Rank[stage']
    BY <1>3 DEF BlockEdges, Rank
  <2>. QED
    BY <1>2, <2>1 DEF PassGoesOn, VisitedInv
<1>4. CASE FillRoots
  <2>1. /\ UNCHANGED analysis_vars /\ Rank[stage] < Rank[stage']
        /\ Visited' = Reach(Children, Roots)
    BY <1>4 DEF FillRoots, Rank
  <2>2. Roots \subseteq MopList
    BY DEF Roots
  <2>. QED
    BY <1>0, <1>2, <2>1, <2>2, SearchTypes DEF PassGoesOn, VisitedInv
<1>5. ASSUME NEW v \in MopList, FillCycle(v)
      PROVE  PassGoesOn /\ OutInv' /\ VisitedInv'
  <2>1. /\ UNCHANGED <<analysis_vars, stage>> /\ v \notin Visited
        /\ Visited' = Visited \cup Reach(Children, {v})
    BY <1>5 DEF FillCycle
  <2>2. v \in Reach(Children, {v}) /\ Reach(Children, {v}) \subseteq Insts(func)
    BY <1>0, SearchTypes
  <2>. QED
    BY <1>2, <2>1, <2>2 DEF PassGoesOn, VisitedInv
<1>6. CASE Distilled
  <2>1. /\ UNCHANGED <<analysis_vars, Visited>> /\ Rank[stage] < Rank[stage']
    BY <1>6 DEF Distilled, Rank
  <2>. QED
    BY <1>2, <2>1 DEF PassGoesOn, VisitedInv
<1>. QED
  BY <1>1, <1>3, <1>4, <1>5, <1>6 DEF DistillNext

\* The pass never goes back: no bit is taken back, no stage entered again, and a step
\* that changes no bit takes a block off a list, finishes a stage or visits an access.
THEOREM PassProgress == Spec => [][DistillNext => PassGoesOn]_vars
<1>. DEFINE Inv == FlowInv /\ KeptInv /\ OutInv /\ VisitedInv
<1>1. ExecutionInit => Inv
  BY FlowInit, InitKept DEF ExecutionInit, Init, AnalysisInit, OutInv, VisitedInv
<1>2. ASSUME Inv, [Next]_vars PROVE Inv'
  <2>1. FlowInv' /\ KeptInv'
    BY <1>2, FlowStep, NextKeepsKept
  <2>2. CASE DistillNext
    BY <1>2, <2>1, <2>2, DistillProgress
  <2>3. CASE ~DistillNext
    <3>1. UNCHANGED <<analysis_vars, recurrence_vars>>
      BY <1>2, <2>3 DEF Next, Execute, Access, PassBarrier, Branch, Return, vars
    <3>2. UNCHANGED <<func, UsedForTsan, MopList, In, Out, Visited>>
      BY <3>1 DEF analysis_vars, input_vars, info_vars, recurrence_vars
    <3>3. OutInv' /\ VisitedInv'
      BY <1>2, <3>2 DEF OutInv, VisitedInv, transfer, TransferBits, Gen, UseGen,
                        ContainsBarrier, HasBarrier, AfterLast
    <3>. QED
      BY <2>1, <3>3
  <2>. QED
    BY <2>2, <2>3
<1>3. Inv => (DistillNext => PassGoesOn)
  BY DistillProgress
<1>. HIDE DEF Inv
<1>. QED
  BY <1>1, <1>2, <1>3, PTL DEF Spec
================================================================================
