------------------------------ MODULE LoopProbe -------------------------------
(***************************************************************************)
(* The code that the CheapPreemption pass puts into an instrumented loop   *)
(* (insertLoopProbe and cloneSelfLoopOnCondition of CheapPreemption.cpp):  *)
(* what it keeps per loop while the function runs, and when its probe      *)
(* executes.  A loop L is a record                                         *)
(*   nested  the loop is inside another one (LoopDepthMap > 1)             *)
(*   self    latch and header are the same block                           *)
(*   iv      it has a usable induction variable                            *)
(*   init, step    that variable's initial value and constant step         *)
(*   final   its final value is known in the preheader                     *)
(* and N is its NumIters.  The state s of a loop is a record               *)
(*   LoopIterations, LoopThreshold, ResidualSteps, SumLoopVal              *)
(*           the variables the pass allocates in the entry block           *)
(*   ind     the induction variable                                        *)
(*   since   back edges taken since the function was called or the loop's  *)
(*           probe executed, counted up to two intervals; a history        *)
(*           variable                                                      *)
(***************************************************************************)
EXTENDS Integers

LoopRecord == [nested : BOOLEAN, self : BOOLEAN, iv : BOOLEAN,
               init : Int, step : Int \ {0}, final : BOOLEAN]

LoopState == [LoopIterations : Int, LoopThreshold : Int, ResidualSteps : Int,
              SumLoopVal : Int, ind : Int, since : Int]

(* The allocations at the entry of the function.                           *)
AtEntry(L, N) ==
  [LoopIterations |-> 0, LoopThreshold |-> L.init + N * L.step,
   ResidualSteps |-> N * L.step, SumLoopVal |-> 0, ind |-> L.init, since |-> 0]

(* Mutant of AtPreheader: a nested loop starts its interval afresh every   *)
(* time it is entered.                                                     *)
AtPreheaderAfresh(L, N, s) ==
  [s EXCEPT !.LoopIterations = 0, !.ind = L.init,
            !.LoopThreshold = L.init + N * L.step]

(* Entering the loop from its preheader.                                   *)
AtPreheader(L, N, s) ==
  [s EXCEPT !.LoopIterations = IF L.nested THEN @ ELSE 0,
            !.ind = L.init,
            !.LoopThreshold = IF L.nested THEN L.init + s.ResidualSteps
                                          ELSE L.init + N * L.step]

(* What the condition in front of the probe compares, after the step.      *)
ProbeDue(L, N, s) ==
  IF L.iv THEN s.ind + L.step = s.LoopThreshold
          ELSE s.LoopIterations + 1 = N

Count(N, n) == IF n < 2 * N THEN n + 1 ELSE n

(* Mutant of AtBackEdge: the threshold is not moved when the probe runs.   *)
AtBackEdgeStuck(L, N, s) ==
  LET due == ProbeDue(L, N, s)
  IN  [s EXCEPT !.LoopIterations = IF L.iv \/ due THEN 0 ELSE @ + 1,
                !.ind = IF L.iv THEN @ + L.step ELSE @,
                !.since = IF due THEN 0 ELSE Count(N, @)]

(* The block on the back edge: count or compare, and probe when due.       *)
AtBackEdge(L, N, s) ==
  LET due == ProbeDue(L, N, s)
  IN  [s EXCEPT !.LoopIterations = IF L.iv \/ due THEN 0 ELSE @ + 1,
                !.ind = IF L.iv THEN @ + L.step ELSE @,
                !.LoopThreshold = IF L.iv /\ due THEN @ + N * L.step ELSE @,
                !.since = IF due THEN 0 ELSE Count(N, @)]

(* An exit block of the loop: the steps that were left are kept for the    *)
(* next time the loop is entered, but not for a loop of one block.         *)
AtExit(L, N, s) ==
  [s EXCEPT !.ResidualSteps =
              IF L.iv /\ L.nested /\ ~L.self THEN s.LoopThreshold - s.ind
                                             ELSE @]

(* Value of the induction variable in the last of n iterations.            *)
LastValue(L, n) == L.init + (n - 1) * L.step

(* decideSelfLoopCloneable                                                 *)
Cloneable(L) == L.self /\ L.iv /\ L.final

(* short_loop_cond: a loop of one block that runs trip times takes its     *)
(* clone, which has no probe on the back edge.                             *)
TakesClone(L, N, trip) ==
  /\ Cloneable(L)
  /\ IF L.step > 0 THEN trip * L.step <= N * L.step
                   ELSE trip * L.step >= N * L.step

(* short_loop_inst_cond, on the exit edge of the clone of a nested loop.   *)
CloneProbeDue(L, N, s, trip) ==
  LET total == s.SumLoopVal + trip * L.step
  IN  L.nested /\ IF L.step > 0 THEN total >= N * L.step
                                ELSE total <= N * L.step

(* A run of the clone.                                                     *)
AtClone(L, N, s, trip) ==
  [s EXCEPT !.SumLoopVal = IF ~L.nested \/ CloneProbeDue(L, N, s, trip)
                           THEN 0 ELSE @ + trip * L.step]

--------------------------------------------------------------------------------
(* The pass keeps no ResidualSteps for a nested loop of one block: such a  *)
(* loop starts a new interval whenever it is entered.                      *)
ForgetsInterval(L) == L.iv /\ L.nested /\ L.self

(* The probe of a loop executes at least once in N back edges, however     *)
(* often the loop is left and entered again in between.  A loop of one     *)
(* block that has a clone loses what was left of an interval, but is only  *)
(* entered to make more than N iterations, and probes in every one of its  *)
(* runs.  Nothing is said of a loop that forgets and has no clone.         *)
Spacing(L, N, s) ==
  /\ ~ForgetsInterval(L) => s.since < N
  /\ Cloneable(L) => s.since < 2 * N
================================================================================
