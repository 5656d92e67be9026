----------------------------- MODULE RlcService -----------------------------
(***************************************************************************)
(* What an acknowledged-mode RLC bearer promises PDCP: the SDUs it accepts *)
(* come out at the peer whole, once, in the order they went in, and each   *)
(* of them in the end.                                                     *)
(***************************************************************************)
EXTENDS Naturals, Sequences

CONSTANT Message   \* the SDUs

VARIABLES accepted, delivered

vars == <<accepted, delivered>>

Init == accepted = <<>> /\ delivered = <<>>

Accept ==
    /\ \E m \in Message : accepted' = Append(accepted, m)
    /\ UNCHANGED delivered

Deliver ==
    /\ \E k \in Len(delivered) + 1 .. Len(accepted) : delivered' = SubSeq(accepted, 1, k)
    /\ UNCHANGED accepted

Next == Accept \/ Deliver

Spec == Init /\ [][Next]_vars /\ WF_vars(Deliver)

=============================================================================
