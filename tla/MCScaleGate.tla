----------------------------- MODULE MCScaleGate -----------------------------
(* Small instances of ScaleGate for TLC. *)
EXTENDS ScaleGate, TLC

\* Requests, keys and the plans of one profile are interchangeable.
GateSymmetry ==
    Permutations(Requests) \cup Permutations(Keys) \cup Permutations(Big)
        \cup Permutations(Proving) \cup Permutations(Plans \ (Big \cup Proving))
=============================================================================
