------------------------------ MODULE MopExecution ------------------------------
(***************************************************************************)
(* The function distilled by MopRecurrence runs, with a check before each  *)
(* access that keeps it.  What a check finds stands until a barrier: a     *)
(* clobbering call may free or poison memory, and for TSan a release       *)
(* publishes the earlier accesses only, an acquire orders the later ones   *)
(* only.  An access without a check of its own is covered by a check of    *)
(* its bytes before it with no call and no release in between, or after it *)
(* with no call and no acquire in between; the function's caller and its   *)
(* callees may do anything.                                                *)
(***************************************************************************)
EXTENDS MopRecurrence

VARIABLES at,        \* the block and instruction to execute; <<>> after return
          since,     \* for each mop executed, the barriers passed since then
          pending,   \* unchecked accesses that a later check may still cover
          escaped    \* accesses that no check has covered

execution_vars == <<at, since, pending, escaped>>
vars == <<analysis_vars, recurrence_vars, execution_vars>>

ExecutionInit ==
  /\ Init
  /\ at = <<func.entry, 1>>
  /\ since = [m \in {} |-> {}]
  /\ pending = {}
  /\ escaped = {}

AtInstruction == /\ stage = "distilled"
                 /\ at # <<>>
                 /\ at[2] <= Len(func.code[at[1]])

Instruction == func.code[at[1]][at[2]]

Advance == at' = <<at[1], at[2] + 1>>

\* What ends the cover an earlier check gives, and that of a later one.  At a
\* lifetime marker ASan poisons or unpoisons memory; to TSan it means nothing.
EndsEarlierCover == IF UsedForTsan THEN (Calls \ Lifetimes) \cup Releases ELSE Calls
EndsLaterCover == IF UsedForTsan THEN (Calls \ Lifetimes) \cup Acquires ELSE Calls

\* A check of k also checks the bytes of d, in the same way or more strictly.
Covers(k, d) == Contained(k, d) /\ WriteCompatible(k, d)

\* The checks made before still hold at this point.
CoveredBefore(d) ==
  \E k \in DomSet \cap DOMAIN since :
    Covers(k, d) /\ since[k] \cap EndsEarlierCover = {}

Access(m) ==
  /\ AtInstruction
  /\ Instruction = m
  /\ Advance
  /\ since' = [n \in DOMAIN since \cup {m} |-> IF n = m THEN {} ELSE since[n]]
  /\ pending' = IF m \in DomSet
                THEN {d \in pending : ~Covers(m, d)}
                ELSE IF CoveredBefore(m) THEN pending ELSE pending \cup {m}
  /\ UNCHANGED <<analysis_vars, recurrence_vars, escaped>>

PassBarrier ==
  /\ AtInstruction
  /\ Instruction \in Barriers
  /\ Advance
  /\ since' = [n \in DOMAIN since |-> since[n] \cup {Instruction}]
  /\ IF Instruction \in EndsLaterCover
     THEN escaped' = escaped \cup pending /\ pending' = {}
     ELSE UNCHANGED <<escaped, pending>>
  /\ UNCHANGED <<analysis_vars, recurrence_vars>>

Branch(b) ==
  /\ stage = "distilled"
  /\ at # <<>>
  /\ at[2] = AfterLast(at[1])
  /\ b \in func.succs[at[1]]
  /\ at' = <<b, 1>>
  /\ UNCHANGED <<analysis_vars, recurrence_vars, since, pending, escaped>>

Return ==
  /\ stage = "distilled"
  /\ at # <<>>
  /\ at[2] = AfterLast(at[1])
  /\ func.succs[at[1]] = {}
  /\ at' = <<>>
  /\ escaped' = escaped \cup pending
  /\ pending' = {}
  /\ UNCHANGED <<analysis_vars, recurrence_vars, since>>

Execute ==
  \/ \E m \in Mops : Access(m)
  \/ PassBarrier
  \/ \E b \in Blocks(func) : Branch(b)
  \/ Return

Next ==
  \/ DistillNext /\ UNCHANGED execution_vars
  \/ Execute

Spec == ExecutionInit /\ [][Next]_vars

\* The pass is a sequential program: it goes on while it can.
FairSpec == Spec /\ WF_vars(DistillNext /\ UNCHANGED execution_vars)

-----------------------------------------------------------------------------
(***************************************************************************)
(* Properties.                                                             *)
(***************************************************************************)
ASSUME MopRangeAssumption ==
  \A f \in Functions : Insts(f) \subseteq DOMAIN f.range

\* The points of the function, one per instruction and one per terminator.
Points == UNION {{<<b, i>> : i \in 1..AfterLast(b)} : b \in Blocks(func)}

NextPoints(p) ==
  IF p[2] < AfterLast(p[1])
  THEN {<<p[1], p[2] + 1>>}
  ELSE {<<s, 1>> : s \in func.succs[p[1]]}

PointOf(m) == <<Parent(func, m), Index(func, m)>>

BarrierPoints(barriers) ==
  {p \in Points : p[2] < AfterLast(p[1]) /\ func.code[p[1]][p[2]] \in barriers}

\* The walks that do not come back to where they started.
WalksFrom(from) == [p \in Points |-> NextPoints(p) \ {from}]

\* Such a walk leads from one point to the other, past one of the points given.
OnWalk(points, from, to) ==
  LET next == WalksFrom(from)
  IN  \E p \in points \cap Reach(next, next[from]) : to \in Reach(next, next[p])

\* The markers that open the block of To, where a walk from From cannot come
\* through that block twice: no OUT has counted them.
SkippedMarkers(e) ==
  LET b == Parent(func, To(e))
  IN  IF \/ Parent(func, e.From) = b
         \/ <<b, 1>> \in Reach(WalksFrom(PointOf(e.From)), {PointOf(To(e))})
      THEN {}
      ELSE {<<b, i>> : i \in OpeningMarkers(b)}

\* The accesses distillRecurringChecks keeps lead to all others along the
\* edges that were not blocked (MopRecurrenceReducer.h:61-67): no set that holds
\* them and is closed under these edges misses an access.
KeptLeadToAll ==
  stage = "distilled" =>
    \A S \in SUBSET Insts(func) :
      DomSet \subseteq S /\ (\A k \in S \cap MopList : Children[k] \subseteq S)
        => S = Insts(func)

\* isOneMopActiveToAnother, with its shortcuts within and across blocks, says
\* no exactly where a barrier lies on some walk from the last execution of the
\* one access to the other, the lifetime markers apart that it skips at the head
\* of the block (ActiveMopAnalysis.cpp:541).
AnalysisIsExact ==
  stage = "graph" =>
    \A e \in Edges :
      e.Blocked <=>
        OnWalk(BarrierPoints(RelevantBarriers(~IsToDead(e))) \ SkippedMarkers(e),
               PointOf(e.From), PointOf(To(e)))

\* "If there is a call between any path from FromI to ToI, then the corresponding
\* MOPs are not recurring" (MopRecurrenceReducer.cpp:578-579), where a lifetime
\* marker is a call to isClobberingCall.  The markers skipped at the head of the
\* block refute it.
NotRecurringPastCalls ==
  stage = "graph" =>
    \A e \in Edges :
      OnWalk(BarrierPoints(Calls), PointOf(e.From), PointOf(To(e))) => e.Blocked

\* What the run has seen of a tracked access at the start of a block, the
\* analysis has foreseen in the block's IN: that it was executed, and each
\* barrier passed since then.
AnalysisIsSound ==
  Analyzed /\ at # <<>> /\ at[2] = 1 =>
    \A m \in DOMAIN since \cap MopList :
      LET in == In[at[1]]
      IN  /\ m \in in.Reachable
          /\ since[m] \cap Calls # {} => m \in in.NotActive
          /\ UsedForTsan /\ since[m] \cap Acquires # {} => m \in in.AnyAcq
          /\ UsedForTsan /\ since[m] \cap Releases # {} => m \in in.AnyRel

\* A barrier lies on a cycle through the access.
OnBarrierCycle(m) ==
  \E p \in BarrierPoints(EndsLaterCover) :
    LET next == [q \in Points |-> NextPoints(q)]
    IN  p \in Reach(next, {PointOf(m)}) /\ PointOf(m) \in Reach(next, {p})

\* ASan's pass took an access to be recurring past lifetime markers it skipped.
RecurringPastMarkers(e) == ~UsedForTsan /\ ~e.Blocked /\ SkippedMarkers(e) # {}

\* No execution of an access that lost its check goes uncovered
\* (MopRecurrenceReducer.cpp:571-582), with two exceptions: another execution of
\* it, with a barrier in between, comes before the check that should cover it; or
\* an edge that should lead to it from a check skips lifetime markers.
EscapesOnlyAcrossLoopsOrMarkers ==
  \A m \in escaped :
    \/ OnBarrierCycle(m)
    \/ \E e \in Edges : RecurringPastMarkers(e) /\ m \in Reach(Children, {e.Dead})

\* The pass comes to an end, for every function.
PassTerminates == <>(stage = "distilled")
================================================================================
