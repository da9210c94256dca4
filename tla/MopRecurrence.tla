----------------------------- MODULE MopRecurrence -----------------------------
(***************************************************************************)
(* MopRecurrenceReducer::distillRecurringChecks: which accesses of a       *)
(* function keep their check.  An access whose bytes another access        *)
(* contains, which dominates or post-dominates it with no barrier in       *)
(* between, is recurring; the accesses kept are a set from which all       *)
(* others can be reached along these edges.                                *)
(*                                                                         *)
(* The pass collects the edges, runs the data-flow analysis for the        *)
(* accesses they join, blocks the edges it finds a barrier on, and         *)
(* computes the dominating set.                                            *)
(***************************************************************************)
EXTENDS ActiveMopAnalysis

VARIABLES stage,     \* "analysis", "graph", "dominating", "distilled"
          Edges,     \* pairs of accesses, and whether a barrier blocks them
          DomSet,    \* DistilledMops: the accesses that keep their check
          Visited    \* the vertices the depth-first searches have reached

recurrence_vars == <<stage, Edges, DomSet, Visited>>

-----------------------------------------------------------------------------
\* isAccessRangeContains, and isWrite1 || isWrite1 == isWrite2 for TSan.
Contained(k, d) == func.range[d] \subseteq func.range[k]

WriteCompatible(k, d) ==
  UsedForTsan => k \in func.writes \/ d \notin func.writes

isMopCheckRecurring(k, d) ==
  /\ k # d
  /\ WriteCompatible(k, d)
  /\ Dominates(func, k, d) \/ PostDominates(func, k, d)
  /\ Contained(k, d)

\* An edge starts at the killing access where that one dominates, at the dead
\* one where the killing access post-dominates.
Edge(k, d) ==
  [Killing |-> k, Dead |-> d, Blocked |-> FALSE,
   From |-> IF Dominates(func, k, d) THEN k ELSE d]

RecurringEdges ==
  {Edge(p[1], p[2]) :
     p \in {q \in Insts(func) \X Insts(func) : isMopCheckRecurring(q[1], q[2])}}

Candidates == UNION {{e.Killing, e.Dead} : e \in Edges}

IsToDead(e) == e.From = e.Killing

To(e) == IF IsToDead(e) THEN e.Dead ELSE e.Killing

\* RecurringGraph: its vertices are the candidates.
Open == {e \in Edges : ~e.Blocked}

Children == [k \in MopList |-> {e.Dead : e \in {o \in Open : o.Killing = k}}]

Roots == MopList \ {e.Dead : e \in Open}

-----------------------------------------------------------------------------
Init ==
  /\ func \in Functions
  /\ UsedForTsan \in BOOLEAN
  /\ Edges = RecurringEdges
  /\ MopList = Candidates
  /\ AnalysisInit
  /\ stage = "analysis"
  /\ DomSet = {}
  /\ Visited = {}

Analyze ==
  /\ AnalysisNext
  /\ UNCHANGED recurrence_vars

\* Every edge is asked for.
BlockEdges ==
  /\ stage = "analysis"
  /\ Constructed
  /\ stage' = "graph"
  /\ Edges' = {[e EXCEPT !.Blocked =
                  ~isOneMopActiveToAnother(e.From, To(e), IsToDead(e))] :
                e \in Edges}
  /\ UNCHANGED <<analysis_vars, DomSet, Visited>>

\* fillDominatingSet, first loop: the accesses that are no candidates are kept,
\* and so are the vertices without parent, which reach others.
FillRoots ==
  /\ stage = "graph"
  /\ stage' = "dominating"
  /\ DomSet' = (Insts(func) \ MopList) \cup Roots
  /\ Visited' = Reach(Children, Roots)
  /\ UNCHANGED <<analysis_vars, Edges>>

\* Its second loop: an entry of a cycle that nothing outside reaches.
FillCycle(v) ==
  /\ stage = "dominating"
  /\ v \in MopList \ Visited
  /\ DomSet' = DomSet \cup {v}
  /\ Visited' = Visited \cup Reach(Children, {v})
  /\ UNCHANGED <<analysis_vars, stage, Edges>>

\* Mutant: the second loop is left out.
Distilled_RootsOnly ==
  /\ stage = "dominating"
  /\ stage' = "distilled"
  /\ UNCHANGED <<analysis_vars, Edges, DomSet, Visited>>

Distilled ==
  /\ stage = "dominating"
  /\ MopList \subseteq Visited
  /\ stage' = "distilled"
  /\ UNCHANGED <<analysis_vars, Edges, DomSet, Visited>>

DistillNext ==
  \/ Analyze
  \/ BlockEdges
  \/ FillRoots
  \/ \E v \in MopList : FillCycle(v)
  \/ Distilled

================================================================================
