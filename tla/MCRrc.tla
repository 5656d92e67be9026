------------------------------- MODULE MCRrc -------------------------------
(***************************************************************************)
(* One or two UEs between two gNBs, and how much trouble each run of Rrc   *)
(* has.                                                                    *)
(***************************************************************************)
EXTENDS Rrc, TLC

CONSTANTS u1, u2, g1, g2

OneUe == {u1}
TwoUes == {u1, u2}
TwoGnbs == {g1, g2}
Symmetry == Permutations(TwoUes) \cup Permutations(TwoGnbs)

OneOfEach == [k \in Trouble |-> 1]
ThereAndBack == [OneOfEach EXCEPT !["handover"] = 2]
OnlyRecovery == [k \in Trouble |-> IF k = "recovery" THEN 1 ELSE 0]
=============================================================================
