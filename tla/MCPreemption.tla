---------------------------- MODULE MCPreemption ------------------------------
EXTENDS Preemption, TLC

CONSTANTS w1, w2, c1, c2, c3

(* Two coroutines share a thread, and another thread competes with them.   *)
MCThreadOf == (c1 :> w1) @@ (c2 :> w1) @@ (c3 :> w2)
MCJobTypes == (c1 :> {"SCAN"}) @@ (c2 :> {"GET"}) @@ (c3 :> {"GET"})
================================================================================
