------------------------------ MODULE ProbedRun -------------------------------
(***************************************************************************)
(* Calls of a function that the CheapPreemption pass has instrumented:     *)
(* ProbePass decides where its probes are, LoopProbe says what its loops   *)
(* do, and this module runs it and measures the cost between two probes.   *)
(* Costs are those of the pass, so what the probes themselves cost is not  *)
(* counted; a call starts measuring anew, since the pass counts a call of  *)
(* an instrumented function as one instruction of its caller.              *)
(***************************************************************************)
EXTENDS ProbePass, LoopProbe

CONSTANTS
  MaxTrip,    \* bound on the iterations of a loop with an induction variable
  Trips       \* iterations made by a loop that has a clone

VARIABLES
  at,       \* the block to run next, 0 when the function is not being called
  since,    \* cost of what was run since the last probe
  gap,      \* the largest that since was in the last step
  trip,     \* iterations that the loop of one block will make
  ls        \* back edge -> LoopState of the instrumented loops

runVars == <<at, since, gap, trip, ls>>
vars == <<passVars, runVars>>

LoopsAt(b) == {e \in DOMAIN NumIters : b \in F.loops[e].blocks}
SelfLoop(b) == {e \in LoopsAt(b) : e = <<b, b>>}
Clones(b) == {e \in SelfLoop(b) : Cloneable(F.loops[e])}

Init == PassInit /\ at = 0 /\ since = 0 /\ gap = 0 /\ trip = 0 /\ ls = <<>>

Pass == PassNext /\ UNCHANGED runVars

--------------------------------------------------------------------------------
(* A block: insertProbes puts the probes of a block with cost 0 in front   *)
(* of the instructions that complete an interval, and the probe of an      *)
(* instrumented block in front of its terminator.                          *)
RunBody(b) ==
  LET Run(acc, i) ==
        LET c == F.body[b][i]
            full == CostMap[b] = 0 /\ acc.total + c >= CommitInterval
            probe == full \/ (i = Len(F.body[b]) /\ b \in InstrumentedBB)
            now == c + (IF probe THEN 0 ELSE acc.since)
        IN  [total |-> IF full THEN c ELSE acc.total + c,
             since |-> now, gap |-> Max({acc.gap, now})]
  IN  FoldLeft(Run, [total |-> 0, since |-> since, gap |-> since],
               [i \in 1..Len(F.body[b]) |-> i])

(* Where the loops of F are after the edge e, which enters and leaves some *)
(* of them.                                                                *)
CrossEdge(e) ==
  [l \in DOMAIN ls |->
     LET L == F.loops[l]
         N == NumIters[l]
     IN  CASE l = e -> AtBackEdge(L, N, ls[l])
           [] l # e /\ e[2] = l[2] /\ e[1] \notin L.blocks
                -> AtPreheader(L, N, ls[l])
           [] e[1] \in L.blocks /\ e[2] \notin L.blocks
                -> AtExit(L, N, ls[l])
           [] OTHER -> ls[l]]

EdgeProbes(e) ==
  \/ EdgeInstMap[e] = "NORM_INST"
  \/ e \in DOMAIN NumIters /\ ProbeDue(F.loops[e], NumIters[e], ls[e])

(* The header of a counting loop goes on until the last iteration.         *)
MayTake(e) ==
  \A l \in DOMAIN NumIters :
    LET L == F.loops[l]
        n == IF l \in Clones(e[1]) THEN trip ELSE MaxTrip
    IN  /\ e[1] = l[2] /\ e[2] \in L.blocks /\ L.iv
             => ls[l].ind # LastValue(L, n)
        /\ l # e /\ l \in Clones(e[1]) => ls[l].ind = LastValue(L, n)

--------------------------------------------------------------------------------
Call ==
  /\ pass_pc = "done" /\ at = 0
  /\ at' = EntryBlock
  /\ ls' = [l \in DOMAIN NumIters |-> AtEntry(F.loops[l], NumIters[l])]
  /\ since' = 0 /\ gap' = 0 /\ trip' = 0
  /\ UNCHANGED passVars

RunsClone(b) ==
  \E e \in Clones(b) : TakesClone(F.loops[e], NumIters[e], trip)

(* A block and the edge after it.                                          *)
RunBlock ==
  /\ at # 0 /\ ~IsReturn(F, at) /\ ~RunsClone(at)
  /\ LET run == RunBody(at)
     IN \E s \in Succs(F, at) :
          LET e == <<at, s>>
          IN  /\ MayTake(e)
              /\ at' = s
              /\ since' = IF EdgeProbes(e) THEN 0 ELSE run.since
              /\ gap' = run.gap
              /\ ls' = CrossEdge(e)
              /\ IF Clones(s) # {} /\ s # at
                 THEN trip' \in Trips ELSE trip' = IF s = at THEN trip ELSE 0
  /\ UNCHANGED passVars

(* All iterations of the clone, and the edge out of it.                    *)
RunClone ==
  /\ at # 0 /\ RunsClone(at)
  /\ \E e \in Clones(at), s \in Succs(F, at) \ {at} :
       LET L == F.loops[e]
           N == NumIters[e]
           end == since + trip * CostMap[at]
       IN  /\ at' = s
           /\ gap' = end
           /\ since' = IF CloneProbeDue(L, N, ls[e], trip) \/ EdgeProbes(<<at, s>>)
                       THEN 0 ELSE end
           /\ ls' = [CrossEdge(<<at, s>>) EXCEPT ![e] = AtClone(L, N, ls[e], trip)]
           /\ trip' = 0
  /\ UNCHANGED passVars

Return ==
  /\ at # 0 /\ IsReturn(F, at)
  /\ at' = 0
  /\ gap' = RunBody(at).gap
  /\ since' = 0 /\ trip' = 0 /\ ls' = <<>>
  /\ UNCHANGED passVars

Next == Pass \/ Call \/ RunBlock \/ RunClone \/ Return

Spec == Init /\ [][Next]_vars

--------------------------------------------------------------------------------
TypeOK ==
  /\ pass_pc \in {"analyze", "e2e", "commit", "merge", "loops", "info", "done"}
  /\ Range(SortedBBs) \subseteq Blocks(F)
  /\ \A e \in DOMAIN EdgeInstMap :
       EdgeInstMap[e] \in {"UNINST", "NORM_INST", "LOOP_INST"}
  /\ InstrumentedBB \subseteq Blocks(F) /\ backEdges \subseteq DOMAIN F.loops
  /\ \A e \in DOMAIN NumIters : NumIters[e] \in 1..CommitInterval
  /\ at \in Blocks(F) \cup {0} /\ {since, gap, trip, MaxUnistDist} \subseteq Nat
  /\ \A l \in DOMAIN ls : ls[l] \in LoopState

(* The assertions of decideInstLocations, generateInst and insertProbes    *)
(* hold for every function, whatever edges earlier turns instrumented.     *)
(* The edge that a turn of generateInst instruments was UNINST until then, *)
(* so that its two while(true) loops end.                                  *)
AssertsHold == failed = {}

(* The probe of every instrumented loop executes once in NumIters back     *)
(* edges, although the loop is left before and entered again and again:    *)
(* LoopThreshold is compared for equality, so an interval that was missed  *)
(* once would be missed until the variable wraps around (insertLoopProbe). *)
(* A nested loop of one block with a clone forgets its interval, but       *)
(* probes once in two (cloneSelfLoopOnCondition).                          *)
LoopSpacing ==
  \A l \in DOMAIN ls : Spacing(F.loops[l], NumIters[l], ls[l])

(* What insertLoopProbe takes for granted when it keeps no ResidualSteps   *)
(* for a nested loop of one block, "self-loops will be cloned": then each  *)
(* run of the loop itself probes, and the probe executes once in two       *)
(* intervals, however often the loop is entered.                           *)
SelfLoopsProbed ==
  \A l \in DOMAIN ls :
    ForgetsInterval(F.loops[l]) => ls[l].since < 2 * NumIters[l]

(* What a loop may add to a gap, in intervals.  Its iterations add one; in *)
(* a nested loop with a clone those of the clone are counted separately,   *)
(* in SumLoopVal.  A probe on some way through the loop adds one: the pass *)
(* never adds the way from that probe to the back edge to the way from the *)
(* header to the next probe.                                               *)
LoopIntervals(l) ==
  LET L == F.loops[l]
      iterations == IF L.nested /\ Cloneable(L) THEN 2 ELSE 1
      probed == \E b \in L.blocks :
                  \/ CostMap[b] = 0 \/ b \in InstrumentedBB
                  \/ \E e \in OutEdges(b) : EdgeInstMap[e] = "NORM_INST"
  IN  (IF l \in DOMAIN NumIters THEN iterations ELSE 0)
        + (IF probed THEN 1 ELSE 0)

(* The way through the function adds one, and blocks with probes of their  *)
(* own add two: the parts before their first and after their last probe    *)
(* have cost 0 for the pass.                                               *)
GapIntervals ==
  1 + (IF \E b \in Blocks(F) : CostMap[b] = 0 THEN 2 ELSE 0)
    + SumSeq([i \in 1..Cardinality(DOMAIN F.loops) |->
                LoopIntervals(SetToSeq(DOMAIN F.loops)[i])])

(* Between two probes a call of the function runs a bounded cost, whatever *)
(* way it takes through its loops and however often it enters them again.  *)
(* insertLoopProbe does not keep the interval of a nested loop of one      *)
(* block, so functions in which such a loop has no clone are excepted.     *)
GapBounded ==
  (pass_pc = "done" /\ \A l \in DOMAIN NumIters :
                          ForgetsInterval(F.loops[l]) => Cloneable(F.loops[l]))
    => gap <= GapIntervals * CommitInterval

(* Blocks that some forward path without a probe visits, from the entry to *)
(* a return, and its cost.                                                 *)
ProbeFreePaths ==
  {S \in SUBSET Blocks(F) :
     /\ EntryBlock \in S
     /\ IsReturn(F, Max(S))
     /\ \A b \in S : CostMap[b] > 0
     /\ \A b \in S \ {Max(S)} :
          LET next == Min({c \in S : c > b})
          IN  next \in Succs(F, b) /\ Unprobed(<<b, next>>)}
PathCost(S) == FoldLeft(LAMBDA n, b : n + CostMap[b], 0, SetToSeq(S))

(* MaxUnistDist, by which callers decide whether a call probes             *)
(* (populateFuncCallCostMap), is the cost of the longest path through the  *)
(* function without a probe, and it exceeds MaxE2EUninst only in functions *)
(* of one block.                                                           *)
E2EExact ==
  pass_pc = "done" =>
    /\ MaxUnistDist = Max({0} \cup {PathCost(S) : S \in ProbeFreePaths})
    /\ MaxUnistDist > MaxE2EUninst => IsReturn(F, EntryBlock)
================================================================================
