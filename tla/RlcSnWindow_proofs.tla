------------------------- MODULE RlcSnWindow_proofs -------------------------
(***************************************************************************)
(* The comparisons and the arithmetic of sequence numbers in every window, *)
(* for every size of the number space.                                     *)
(***************************************************************************)
EXTENDS RlcSnWindow, RlcSdu_proofs

\* The numbers compared and the base are in the number space.
Inv == a \in Sn /\ b \in Sn /\ base \in Sn

\* Inv is an invariant of the specification.
LEMMA InvHolds == Spec => []Inv
<1>1. Init => Inv BY EdgeAssumption DEF Init, Inv
<1>2. Inv /\ [Next]_vars => Inv' BY EdgeAssumption DEF Inv, Next, Slide, vars
<1> QED BY <1>1, <1>2, PTL DEF Spec

\* Wherever the window is, the comparisons follow the distance from its lower edge
\* (OrderedFromTheBase).
THEOREM Ordered == Spec => []OrderedFromTheBase
<1>1. Inv => OrderedFromTheBase
  BY ComparisonsFollowTheWindow DEF Inv, OrderedFromTheBase
<1> QED BY <1>1, InvHolds, PTL

\* Below zero, too, the difference is the number k places before s.
LEMMA MinusIs ==
    ASSUME NEW s \in Sn, NEW k \in Sn
    PROVE  /\ s >= k => Minus(s, k) = s - k
           /\ s < k => Minus(s, k) = SNMod + (s - k)
<1>1. ASSUME s >= k PROVE Minus(s, k) = s - k
  <2>1. PICK d \in Sn : d = s - k BY <1>1, SnAssumption DEF Sn
  <2>2. CRem(d) = d /\ ToU16(d) = d /\ d % SNMod = d
    BY <2>1, SnAssumption DEF CRem, ToU16, Sn
  <2> QED BY <2>1, <2>2 DEF Minus
<1>2. ASSUME s < k PROVE Minus(s, k) = SNMod + (s - k)
  <2>1. PICK d \in Sn : d = SNMod + (s - k) BY <1>2, SnAssumption DEF Sn
  <2>2. CRem(s - k) = d - SNMod
    <3>1. -(s - k) = SNMod - d /\ SNMod - d \in Sn /\ s - k < 0
      BY <1>2, <2>1, SnAssumption DEF Sn
    <3>2. (-(s - k)) % SNMod = SNMod - d BY <3>1, SnAssumption DEF Sn
    <3> QED BY <3>1, <3>2, SnAssumption DEF CRem, Sn
  <2>3. d \in Nat /\ d < SNMod /\ U16 \in Nat /\ U16 >= SNMod /\ SNMod \in Nat \ {0}
    BY SnAssumption DEF Sn
  <2>4. ToU16(d - SNMod) = U16 + d - SNMod BY <2>3 DEF ToU16
  <2>5. (U16 + d - SNMod) % SNMod = d
    <3>1. U16 = SNMod * (U16 \div SNMod) /\ U16 \div SNMod \in Int BY SnAssumption
    <3>2. U16 + d - SNMod = SNMod * ((U16 \div SNMod) - 1) + d BY <2>3, <3>1
    <3>3. U16 + d - SNMod \in Nat BY <2>3
    <3> QED BY <3>1, <3>2, <3>3, RemainderIs DEF SnOf
  <2> QED BY <2>1, <2>2, <2>4, <2>5 DEF Minus
<1> QED BY <1>1, <1>2

\* The sum undoes the difference.
LEMMA PlusUndoes ==
    ASSUME NEW s \in Sn, NEW k \in Sn
    PROVE  Plus(Minus(s, k), k) = s
<1>1. CASE s >= k
  <2>1. Minus(s, k) + k = s BY <1>1, MinusIs, SnAssumption DEF Sn
  <2> QED BY <2>1, SnAssumption DEF Plus, Sn
<1>2. CASE s < k
  <2>1. Minus(s, k) + k = s + SNMod BY <1>2, MinusIs, SnAssumption DEF Sn
  <2>2. SnOf(s + SNMod) = SnOf(s) BY SnRound, SnAssumption DEF Sn
  <2>3. SnOf(s) = s BY SnAssumption DEF SnOf, Sn
  <2> QED BY <2>1, <2>2, <2>3 DEF Plus, SnOf
<1> QED BY <1>1, <1>2, SnAssumption DEF Sn

\* Whatever number is added or subtracted, the other operator gives back what there was
\* (MinusUndoesPlus).
THEOREM Undone == Spec => []MinusUndoesPlus
<1>1. Inv => MinusUndoesPlus
  BY MinusUndoes, PlusUndoes, EdgeAssumption DEF Inv, MinusUndoesPlus
<1> QED BY <1>1, InvHolds, PTL
=============================================================================
