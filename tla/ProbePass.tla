------------------------------ MODULE ProbePass -------------------------------
(***************************************************************************)
(* The CheapPreemption pass (CheapPreemption.cpp) on one function: it      *)
(* chooses the edges and blocks of the control-flow graph that get a       *)
(* probe, so that a thread never runs for long without one.                *)
(*                                                                         *)
(* A function is a record                                                  *)
(*   succ   block -> sequence of the successors of its terminator          *)
(*   body   block -> sequence of the costs of its instructions             *)
(*            (getInstructionCost; the last one is the terminator)         *)
(*   calls  block -> calls counted by populateFuncCallCostMap, or -1       *)
(*   loops  back edge -> its loop, a record of LoopProbe with the field    *)
(*            blocks added                                                 *)
(* Block 1 is the entry, blocks without successors return, and an edge     *)
(* that is not a back edge leads to a block with a higher number.          *)
(***************************************************************************)
EXTENDS Integers, FiniteSets, SequencesExt, TLC

CONSTANTS
  Functions,          \* the functions the pass is run on
  CommitInterval,     \* -commit-intv
  E2ELengths,         \* the values of -max-e2e-length it is run with
  FuncCallThreshold   \* -func-call-threshold

ASSUME PassAssumption ==
  /\ CommitInterval \in Nat /\ CommitInterval > 1
  /\ E2ELengths \subseteq Nat
  /\ FuncCallThreshold \in Nat \ {0}

VARIABLES
  F,                \* the function
  MaxE2EUninst,     \* -max-e2e-length
  pass_pc,          \* what the pass does next
  SortedBBs,        \* blocks, in reverse topological order
  CostMap,          \* block -> cost, 0 when probes go into the block itself
  EdgeInstMap,      \* edge -> "UNINST", "NORM_INST" or "LOOP_INST"
  InstrumentedBB,   \* blocks with a probe before their terminator
  backEdges,        \* back edges that are not cancelled
  NumIters,         \* back edge -> iterations between two probes
  MaxUnistDist,     \* FuncInfo: longest path through F without a probe
  failed            \* assertions of the pass that did not hold

passVars == <<F, MaxE2EUninst, pass_pc, SortedBBs, CostMap, EdgeInstMap, InstrumentedBB,
              backEdges, NumIters, MaxUnistDist, failed>>

EntryBlock == 1
Blocks(f) == DOMAIN f.body
Succs(f, b) == Range(f.succ[b])
Edges(f) == UNION {{b} \X Succs(f, b) : b \in Blocks(f)}
IsReturn(f, b) == f.succ[b] = <<>>
SumSeq(s) == FoldLeft(LAMBDA x, y : x + y, 0, s)

Unprobed(e) == EdgeInstMap[e] = "UNINST" /\ e[1] \notin InstrumentedBB

--------------------------------------------------------------------------------
(* recursiveDFSToposort(b), with SortedBBs so far in s: finished blocks    *)
(* are the black ones.  Without the back edges no block on the stack is    *)
(* met again.                                                              *)
RECURSIVE recursiveDFSToposort(_, _, _)
recursiveDFSToposort(f, b, s) ==
  LET Visit(t, succ) ==
        IF <<b, succ>> \in DOMAIN f.loops \/ succ \in Range(t)
        THEN t ELSE recursiveDFSToposort(f, succ, t)
  IN  Append(FoldLeft(Visit, s, f.succ[b]), b)

(* populateCostMap: a block as long as the interval gets its own probes.   *)
populateCostMap(f) ==
  [b \in Blocks(f) |-> LET c == SumSeq(f.body[b])
                       IN  IF c >= CommitInterval THEN 0 ELSE c]

populateEdgeInstMap(f) ==
  [e \in Edges(f) |-> IF e \in DOMAIN f.loops THEN "LOOP_INST" ELSE "UNINST"]

(* One pass over the forward edges in topological order.                   *)
OverForwardEdges(Relax(_, _), init) ==
  LET Relaxed(acc, b) ==
        FoldLeft(LAMBDA a, succ : IF <<b, succ>> \in backEdges THEN a
                                  ELSE Relax(a, <<b, succ>>),
                 acc, F.succ[b])
  IN  FoldLeft(Relaxed, init, Reverse(SortedBBs))

(* LongestDistanceMap and PrevBBMap: a longer distance replaces a shorter. *)
Longer(acc, e, d, prev) ==
  IF e[2] \in DOMAIN acc.dist /\ d <= acc.dist[e[2]]
  THEN acc
  ELSE [acc EXCEPT !.dist = (e[2] :> d) @@ @, !.prev = (e[2] :> prev) @@ @]

From(StartBB, cost) == [dist |-> StartBB :> cost, prev |-> StartBB :> StartBB]

(* Mutant of longestDistanceFrom: probes of blocks are overlooked.         *)
longestDistanceOverlooking(StartBB) ==
  LET Relax(acc, e) ==
        IF e[1] \notin DOMAIN acc.dist THEN acc
        ELSE Longer(acc, e,
                    IF EdgeInstMap[e] = "UNINST" /\ acc.dist[e[1]] > 0
                    THEN acc.dist[e[1]] + CostMap[e[2]] ELSE 0, e[1])
  IN  OverForwardEdges(Relax, From(StartBB, CostMap[StartBB]))

(* Longest distance from StartBB without a probe; 0 once there is one.     *)
longestDistanceFrom(StartBB) ==
  LET Relax(acc, e) ==
        IF e[1] \notin DOMAIN acc.dist THEN acc
        ELSE Longer(acc, e,
                    IF Unprobed(e) /\ CostMap[e[1]] > 0 /\ acc.dist[e[1]] > 0
                    THEN acc.dist[e[1]] + CostMap[e[2]] ELSE 0, e[1])
  IN  OverForwardEdges(Relax, From(StartBB, CostMap[StartBB]))

(* The same for the number of calls.                                       *)
longestFuncCallDistanceFrom(StartBB) ==
  LET Relax(acc, e) ==
        IF e[1] \notin DOMAIN acc.dist THEN acc
        ELSE Longer(acc, e,
                    IF /\ Unprobed(e) /\ CostMap[e[1]] > 0
                       /\ F.calls[e[1]] >= 0 /\ acc.dist[e[1]] >= 0
                    THEN acc.dist[e[1]] + F.calls[e[2]] ELSE 0, e[1])
  IN  OverForwardEdges(Relax, From(StartBB, F.calls[StartBB]))

(* Mutant of generateDistanceMap: probes on edges are overlooked.          *)
generateDistanceOverlooking ==
  LET Relax(acc, e) ==
        LET propagate == CostMap[e[1]] > 0
            d == CostMap[e[2]] + (IF propagate THEN acc.dist[e[1]] ELSE 0)
            new == Longer(acc, e, d, IF propagate THEN e[1] ELSE e[2])
        IN  IF new # acc /\ d > acc.dist[acc.max]
            THEN [new EXCEPT !.max = e[2]] ELSE new
      start == From(EntryBlock, CostMap[EntryBlock])
  IN  OverForwardEdges(Relax, [dist |-> start.dist, prev |-> start.prev,
                               max |-> EntryBlock])

(* Longest distance to every block since the last probe, from anywhere;    *)
(* max is the first block at the longest of these distances.               *)
generateDistanceMap ==
  LET Relax(acc, e) ==
        LET propagate == Unprobed(e) /\ CostMap[e[1]] > 0
            d == CostMap[e[2]] + (IF propagate THEN acc.dist[e[1]] ELSE 0)
            new == Longer(acc, e, d, IF propagate THEN e[1] ELSE e[2])
        IN  IF new # acc /\ d > acc.dist[acc.max]
            THEN [new EXCEPT !.max = e[2]] ELSE new
      start == From(EntryBlock, CostMap[EntryBlock])
  IN  OverForwardEdges(Relax, [dist |-> start.dist, prev |-> start.prev,
                               max |-> EntryBlock])

(* decideInstLocations: back along the longest path to the first edge      *)
(* whose source is nearer than the threshold; the LargeBB when there is    *)
(* none.                                                                   *)
RECURSIVE decideInstLocations(_, _, _)
decideInstLocations(m, CurBB, DistThreshold) ==
  LET PrevBB == m.prev[CurBB]
  IN  CASE m.dist[PrevBB] < DistThreshold ->
             [found |-> TRUE, edge |-> <<PrevBB, CurBB>>]
        [] m.dist[PrevBB] >= DistThreshold /\ PrevBB = CurBB ->
             [found |-> FALSE, LargeBB |-> CurBB]
        [] OTHER -> decideInstLocations(m, PrevBB, DistThreshold)

(* The longest distance from the entry to a return, and the first return   *)
(* at that distance.                                                       *)
Returns(m) == {b \in DOMAIN m.dist : IsReturn(F, b)}
E2EDist(m) == Max({0} \cup {m.dist[b] : b \in Returns(m)})
E2EBlock(m) == Min({b \in Returns(m) : m.dist[b] = E2EDist(m)})

OutEdges(b) == {b} \X Succs(F, b)

InstrumentEdges(es) ==
  EdgeInstMap' = [e \in DOMAIN EdgeInstMap |->
                    IF e \in es /\ EdgeInstMap[e] = "UNINST" THEN "NORM_INST"
                    ELSE EdgeInstMap[e]]

Assert_(name, cond) == IF cond THEN {} ELSE {name}

--------------------------------------------------------------------------------
PassInit ==
  /\ F \in Functions
  /\ MaxE2EUninst \in E2ELengths
  /\ pass_pc = "analyze"
  /\ SortedBBs = <<>>
  /\ CostMap = <<>> /\ EdgeInstMap = <<>>
  /\ InstrumentedBB = {} /\ backEdges = {}
  /\ NumIters = <<>>
  /\ MaxUnistDist = 0
  /\ failed = {}

(* analyzeAndInstrFunc up to generateInst.                                 *)
Analyze ==
  /\ pass_pc = "analyze"
  /\ pass_pc' = "e2e"
  /\ CostMap' = populateCostMap(F)
  /\ backEdges' = DOMAIN F.loops
  /\ SortedBBs' = recursiveDFSToposort(F, EntryBlock, <<>>)
  /\ EdgeInstMap' = populateEdgeInstMap(F)
  /\ UNCHANGED <<F, MaxE2EUninst, InstrumentedBB, NumIters, MaxUnistDist, failed>>

(* One turn of the first loop of generateInst: no path from the entry to a *)
(* return may be longer than MaxE2EUninst without a probe.                 *)
E2EDone ==
  /\ pass_pc = "e2e"
  /\ E2EDist(longestDistanceFrom(EntryBlock)) <= MaxE2EUninst
  /\ pass_pc' = "commit"
  /\ UNCHANGED <<F, MaxE2EUninst, SortedBBs, CostMap, EdgeInstMap, InstrumentedBB, backEdges,
                 NumIters, MaxUnistDist, failed>>

E2EInstrument ==
  /\ pass_pc = "e2e"
  /\ LET m == longestDistanceFrom(EntryBlock)
         inst == decideInstLocations(m, E2EBlock(m), MaxE2EUninst)
     IN  /\ E2EDist(m) > MaxE2EUninst
         /\ IF inst.found
            THEN /\ InstrumentEdges({inst.edge})
                 /\ failed' = failed
                      \cup Assert_("edge is UNINST", EdgeInstMap[inst.edge] = "UNINST")
                      \cup Assert_("PrevBB not instrumented",
                                   inst.edge[1] \notin InstrumentedBB)
                 /\ UNCHANGED pass_pc
            ELSE /\ InstrumentEdges(OutEdges(EntryBlock))
                 /\ failed' = failed
                      \cup Assert_("entry block is large",
                                   m.dist[EntryBlock] >= MaxE2EUninst)
                 /\ pass_pc' = "commit"
  /\ UNCHANGED <<F, MaxE2EUninst, SortedBBs, CostMap, InstrumentedBB, backEdges, NumIters,
                 MaxUnistDist>>

(* One turn of its second loop: no path may be longer than CommitInterval. *)
(* Its branch for a LargeBB is missing: a block as long as the interval    *)
(* has cost 0, so that the walk back always finds an edge.                 *)
CommitDone ==
  /\ pass_pc = "commit"
  /\ LET m == generateDistanceMap IN m.dist[m.max] <= CommitInterval
  /\ pass_pc' = "merge"
  /\ UNCHANGED <<F, MaxE2EUninst, SortedBBs, CostMap, EdgeInstMap, InstrumentedBB, backEdges,
                 NumIters, MaxUnistDist, failed>>

CommitInstrument ==
  /\ pass_pc = "commit"
  /\ LET m == generateDistanceMap
         inst == decideInstLocations(m, m.max, CommitInterval)
     IN  /\ m.dist[m.max] > CommitInterval
         /\ failed' = failed
              \cup Assert_("edge is UNINST", EdgeInstMap[inst.edge] = "UNINST")
              \cup Assert_("PrevBB not instrumented",
                           inst.edge[1] \notin InstrumentedBB)
         /\ InstrumentEdges({inst.edge})
  /\ UNCHANGED <<F, MaxE2EUninst, pass_pc, SortedBBs, CostMap, InstrumentedBB, backEdges,
                 NumIters, MaxUnistDist>>

(* insertProbes (1): a block all of whose two or more outgoing edges are   *)
(* instrumented is instrumented instead.                                   *)
MergeEdges ==
  /\ pass_pc = "merge"
  /\ LET merged == {b \in Blocks(F) :
                      /\ Len(F.succ[b]) >= 2
                      /\ \A e \in OutEdges(b) : EdgeInstMap[e] # "UNINST"}
     IN  /\ InstrumentedBB' = InstrumentedBB \cup merged
         /\ EdgeInstMap' = [e \in DOMAIN EdgeInstMap |->
                              IF e[1] \in merged THEN "UNINST" ELSE EdgeInstMap[e]]
         /\ failed' = failed \cup Assert_("BB not instrumented",
                                          merged \cap InstrumentedBB = {})
  /\ pass_pc' = "loops"
  /\ UNCHANGED <<F, MaxE2EUninst, SortedBBs, CostMap, backEdges, NumIters, MaxUnistDist>>

(* Mutant of ItersOf: a loop with more calls than the threshold is given   *)
(* no iterations.                                                          *)
ItersOfUnbounded(LoopCost, LoopFuncCallCost) ==
  IF LoopFuncCallCost > 0
  THEN Min({CommitInterval \div LoopCost, FuncCallThreshold \div LoopFuncCallCost})
  ELSE CommitInterval \div LoopCost

(* Iterations that stay within both thresholds.                            *)
ItersOf(LoopCost, LoopFuncCallCost) ==
  IF LoopFuncCallCost > 0
  THEN Min({CommitInterval \div LoopCost,
            Max({1, FuncCallThreshold \div LoopFuncCallCost})})
  ELSE CommitInterval \div LoopCost

(* insertProbes (3): a back edge of a loop that has a probe on every path  *)
(* through it is cancelled; the others probe every NumIters iterations.    *)
CountLoops ==
  /\ pass_pc = "loops"
  /\ LET looped == {e \in backEdges : EdgeInstMap[e] # "UNINST"}
         LoopCost(e) == longestDistanceFrom(e[2]).dist[e[1]]
         LoopFuncCallCost(e) == longestFuncCallDistanceFrom(e[2]).dist[e[1]]
         cancelled == {e \in looped : LoopCost(e) = 0}
     IN  /\ backEdges' = backEdges \ cancelled
         /\ EdgeInstMap' = [e \in DOMAIN EdgeInstMap |->
                              IF e \in cancelled THEN "UNINST" ELSE EdgeInstMap[e]]
         /\ NumIters' = [e \in looped \ cancelled |->
                           ItersOf(LoopCost(e), LoopFuncCallCost(e))]
         /\ failed' = failed
              \cup Assert_("cancelled edge is LOOP_INST",
                           \A e \in cancelled : EdgeInstMap[e] = "LOOP_INST")
              \cup Assert_("latch not instrumented",
                           \A e \in looped \ cancelled : e[1] \notin InstrumentedBB)
  /\ pass_pc' = "info"
  /\ UNCHANGED <<F, MaxE2EUninst, SortedBBs, CostMap, InstrumentedBB, MaxUnistDist>>

(* updateFuncInfo, on the graph that insertProbes has rewritten.  A block   *)
(* with probes of its own is split at them and no longer ends in a return; *)
(* a split edge or block only hides what was at distance 0 before.         *)
UpdateFuncInfo ==
  /\ pass_pc = "info"
  /\ LET m == longestDistanceFrom(EntryBlock)
     IN  MaxUnistDist' = Max({0} \cup {m.dist[b] : b \in {r \in Returns(m) : CostMap[r] > 0}})
  /\ pass_pc' = "done"
  /\ UNCHANGED <<F, MaxE2EUninst, SortedBBs, CostMap, EdgeInstMap, InstrumentedBB, backEdges,
                 NumIters, failed>>

PassNext ==
  \/ Analyze \/ E2EDone \/ E2EInstrument \/ CommitDone \/ CommitInstrument
  \/ MergeEdges \/ CountLoops \/ UpdateFuncInfo
================================================================================
