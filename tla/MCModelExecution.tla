-------------------------- MODULE MCModelExecution --------------------------
(* The start requests are interchangeable. *)
EXTENDS ModelExecution, TLC

MCSymmetry == Permutations(Executions)
=============================================================================
