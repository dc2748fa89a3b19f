----------------------------- MODULE MCDispatcher -----------------------------
(* Instances of Dispatcher for TLC.                                        *)
EXTENDS Dispatcher, TLC

(* The dispatcher treats all workers alike.                                *)
Symmetry == Permutations(Workers)
================================================================================
