------------------------- MODULE MCDemoPreparation -------------------------
(* An instance of DemoPreparation for TLC: every constant is given in a .cfg. *)
EXTENDS DemoPreparation, TLC

OperatorSymmetry == Permutations(Operators)

\* Bound: the posture command runs while no other command does.
Apart == \A o, p \in Operators : conf[o].pc = "idle" \/ At(p, "idle")
=============================================================================
