------------------------------ MODULE MCIntake ------------------------------
(* Two batches that share a grant number: the first is only dropped again with
   the same clean records, the second is once replaced by a corrected file. *)
EXTENDS Intake, TLC

CONSTANTS g1, g2, b1, b2

Good(g) == [grant_no |-> g, title |-> "valid", fiscal_year |-> "valid",
            amount_usd |-> "valid", org_unit |-> "valid"]

MCGrantNos == {g1, g2}

Late(g) == [Good(g) EXCEPT !.fiscal_year = "outside_window"]
Untitled(g) == [Good(g) EXCEPT !.title = "invalid_type"]

MCFiles(b) ==
  IF b = b1
  THEN {<<Good(g1), Good(g2)>>}
  ELSE {<<Good(g2), Late(g1)>>, <<Late(g2)>>, <<Untitled(g1)>>}

MCSymmetry == Permutations(Intakes)
=============================================================================
