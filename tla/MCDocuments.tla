----------------------------- MODULE MCDocuments -----------------------------
(* An instance of Documents for TLC. Executions are interchangeable, and
   so are the requests to train. *)
EXTENDS Documents, TLC

Symmetry == Permutations(Executions) \union Permutations(Trainings)
=============================================================================
