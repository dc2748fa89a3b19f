----------------------------- MODULE MCTinyQuanta -----------------------------
(* Instance of TinyQuanta for TLC.                                         *)
EXTENDS TinyQuanta
================================================================================
