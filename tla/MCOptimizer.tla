----------------------------- MODULE MCOptimizer -----------------------------
(* The optimizer on a slot to which what was read from it is stored.       *)
EXTENDS Optimizer, SampleFunctions
===============================================================================
