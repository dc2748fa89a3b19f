------------------------------ MODULE ProbedLoop ------------------------------
(***************************************************************************)
(* One instrumented loop of any initial value, step and number of          *)
(* iterations.  A call of the function enters the loop, takes its back     *)
(* edge and leaves it in any order that the nesting allows.                *)
(***************************************************************************)
EXTENDS LoopProbe

VARIABLES
  L, N,       \* the loop and its NumIters
  s,          \* LoopState
  used,       \* how much of the interval is over for the code; history
  where       \* "fresh" until the loop is entered, then "in" or "out"

probeVars == <<L, N, s, used, where>>

LoopInit ==
  /\ L \in LoopRecord /\ N \in Nat \ {0}
  /\ s = AtEntry(L, N) /\ used = 0 /\ where = "fresh"

(* A call enters a loop that is not nested only once.                      *)
MayEnter == where # "in" /\ (L.nested \/ where = "fresh")

Enter ==
  /\ MayEnter
  /\ s' = AtPreheader(L, N, s)
  /\ used' = IF ForgetsInterval(L) THEN 0 ELSE used
  /\ where' = "in" /\ UNCHANGED <<L, N>>

BackEdge ==
  /\ where = "in"
  /\ s' = AtBackEdge(L, N, s)
  /\ used' = IF ProbeDue(L, N, s) THEN 0 ELSE used + 1
  /\ UNCHANGED <<L, N, where>>

(* A loop that has a clone makes all its iterations, and more of them than *)
(* the clone is taken for.                                                 *)
LeaveLoop ==
  /\ where = "in"
  /\ Cloneable(L) => \E trip \in Nat : ~TakesClone(L, N, trip) /\ s.ind = LastValue(L, trip)
  /\ s' = AtExit(L, N, s) /\ where' = "out" /\ UNCHANGED <<L, N, used>>

(* A run of the clone; the preheader comes before it.                      *)
EnterClone ==
  /\ MayEnter /\ Cloneable(L)
  /\ \E trip \in Nat : /\ TakesClone(L, N, trip)
                       /\ s' = AtClone(L, N, AtPreheader(L, N, s), trip)
  /\ where' = "out" /\ UNCHANGED <<L, N, used>>

LoopNext == Enter \/ BackEdge \/ LeaveLoop \/ EnterClone

LoopSpec == LoopInit /\ [][LoopNext]_probeVars

(* The type of the state of a loop.                                        *)
LoopTypeOK ==
  /\ L \in LoopRecord /\ N \in Nat \ {0}
  /\ s \in LoopState /\ used \in Nat /\ where \in {"fresh", "in", "out"}

(* The probe of the loop is never later than Spacing allows: once in N     *)
(* back edges, or in 2 * N for a loop that forgets its interval and has a  *)
(* clone.                                                                  *)
ProbeSpaced == Spacing(L, N, s)
================================================================================
