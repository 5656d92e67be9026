--------------------------- MODULE RlcSdu_proofs ---------------------------
(***************************************************************************)
(* What both modes of RLC rest on.                                         *)
(*                                                                         *)
(* Sequence numbers, for every size of the number space: the comparisons   *)
(* of nr::SequenceNumber10 order numbers by their distance from the base,  *)
(* and within SNMod consecutive PDUs a number names one.                   *)
(*                                                                         *)
(* Segmentation and reassembly of SDUs: what the PDUs of one transmitter   *)
(* carry is cut out of one stream of bytes, and reassembly gives back the  *)
(* SDUs of the stream, however they are cut and glued together.            *)
(*                                                                         *)
(* The induction over the data goes through the smallest counterexample:   *)
(* a non-empty set of natural numbers has a least element, since strict    *)
(* inclusion is well-founded on finite sets.                               *)
(***************************************************************************)
EXTENDS RlcSdu, RlcSn, TLAPS, SequenceTheorems, FiniteSetTheorems

\* A PDU number is its quotient times SNMod plus its SN.
LEMMA DivMod ==
    ASSUME NEW n \in Nat
    PROVE  /\ SnOf(n) \in Sn
           /\ n \div SNMod \in Nat
           /\ n = SNMod * (n \div SNMod) + SnOf(n)
  BY SnAssumption DEF SnOf, Sn

\* A non-zero multiple of SNMod is at least SNMod away from zero.
LEMMA MultipleIsFar ==
    ASSUME NEW k \in Int, k # 0
    PROVE  SNMod * k >= SNMod \/ SNMod * k <= -SNMod
<1> DEFINE M == SNMod
<1>1. M \in Nat /\ M >= 1
  BY SnAssumption
<1>2. CASE k >= 1
  <2>1. M * k = M * (k - 1) + M
    BY <1>1
  <2>2. M * (k - 1) >= 0
    BY <1>1, <1>2
  <2> HIDE DEF M
  <2>3. QED
    BY <1>1, <2>1, <2>2 DEF M
<1>3. CASE k <= -1
  <2>1. M * k = M * (k + 1) - M
    BY <1>1
  <2>2. M * (k + 1) <= 0
    BY <1>1, <1>3
  <2>3. QED
    BY <1>1, <2>1, <2>2
<1>4. QED
  BY <1>2, <1>3

\* Two quotients and remainders of the same value are the same.
LEMMA DivisionIsUnique ==
    ASSUME NEW q1 \in Int, NEW q2 \in Int, NEW r1 \in Sn, NEW r2 \in Sn,
           SNMod * q1 + r1 = SNMod * q2 + r2
    PROVE  r1 = r2
<1>1. SNMod * (q1 - q2) = SNMod * q1 - SNMod * q2
  BY SnAssumption
<1>2. SNMod * (q1 - q2) = r2 - r1
  BY <1>1, SnAssumption DEF Sn
<1>3. q1 - q2 = 0
  <2>1. SUFFICES ASSUME q1 - q2 # 0 PROVE FALSE
    OBVIOUS
  <2>2. SNMod * (q1 - q2) >= SNMod \/ SNMod * (q1 - q2) <= -SNMod
    BY <2>1, MultipleIsFar
  <2>3. QED
    BY <1>2, <2>2, SnAssumption DEF Sn
<1>4. QED
  BY <1>2, <1>3, SnAssumption DEF Sn

\* The remainder is what is left when a multiple of SNMod is taken away.
LEMMA RemainderIs ==
    ASSUME NEW n \in Nat, NEW q \in Int, NEW r \in Sn, n = SNMod * q + r
    PROVE  SnOf(n) = r
<1>1. /\ SnOf(n) \in Sn /\ n \div SNMod \in Int
      /\ SNMod * (n \div SNMod) + SnOf(n) = SNMod * q + r
  BY DivMod
<1>2. QED
  BY <1>1, DivisionIsUnique

\* Fewer than SNMod apart, two PDUs with the same SN are the same PDU.
LEMMA SnUnique ==
    ASSUME NEW a \in Nat, NEW b \in Nat, SnOf(a) = SnOf(b),
           a < b + SNMod, b < a + SNMod
    PROVE  a = b
<1> DEFINE qa == a \div SNMod
           qb == b \div SNMod
<1>1. /\ SnOf(a) \in Sn /\ qa \in Int /\ a = SNMod * qa + SnOf(a)
      /\ SnOf(b) \in Sn /\ qb \in Int /\ b = SNMod * qb + SnOf(b)
  BY DivMod
<1> HIDE DEF qa, qb
<1>2. SNMod * (qa - qb) = SNMod * qa - SNMod * qb
  BY <1>1, SnAssumption
<1>3. SNMod * (qa - qb) = a - b
  BY <1>1, <1>2, SnAssumption DEF Sn
<1>4. qa - qb = 0
  <2>1. SUFFICES ASSUME qa - qb # 0 PROVE FALSE
    OBVIOUS
  <2>2. SNMod * (qa - qb) >= SNMod \/ SNMod * (qa - qb) <= -SNMod
    BY <1>1, <2>1, MultipleIsFar
  <2>3. QED
    BY <1>3, <2>2, SnAssumption
<1>5. QED
  BY <1>3, <1>4, SnAssumption

\* Going once round the number space leads to the same SN.
LEMMA SnRound ==
    ASSUME NEW n \in Nat
    PROVE  SnOf(n + SNMod) = SnOf(n)
<1> DEFINE q == n \div SNMod
<1>1. SnOf(n) \in Sn /\ q \in Int /\ n = SNMod * q + SnOf(n)
  BY DivMod
<1> HIDE DEF q
<1>2. SNMod * (q + 1) = SNMod * q + SNMod
  BY <1>1, SnAssumption
<1>3. n + SNMod = SNMod * (q + 1) + SnOf(n) /\ n + SNMod \in Nat
  BY <1>1, <1>2, SnAssumption DEF Sn
<1>4. QED
  BY <1>1, <1>3, RemainderIs

\* The SN k places ahead of PDU n is the SN of PDU n + k.
LEMMA PlusSn ==
    ASSUME NEW n \in Nat, NEW k \in Nat
    PROVE  Plus(SnOf(n), k) = SnOf(n + k)
<1> DEFINE q == n \div SNMod
           m == SnOf(n) + k
           qm == m \div SNMod
<1>1. SnOf(n) \in Sn /\ q \in Int /\ n = SNMod * q + SnOf(n)
  BY DivMod
<1>2. m \in Nat
  BY <1>1 DEF Sn
<1>3. SnOf(m) \in Sn /\ qm \in Int /\ m = SNMod * qm + SnOf(m)
  BY <1>2, DivMod
<1>m. m = SnOf(n) + k
  OBVIOUS
<1>p. Plus(SnOf(n), k) = SnOf(m)
  BY DEF Plus, SnOf
<1> HIDE DEF q, qm, m
<1>4. SNMod * (q + qm) = SNMod * q + SNMod * qm
  BY <1>1, <1>3, SnAssumption
<1>5. n + k = SNMod * (q + qm) + SnOf(m)
  BY <1>1, <1>3, <1>4, <1>m, SnAssumption DEF Sn
<1>6. SnOf(n + k) = SnOf(m)
  BY <1>1, <1>3, <1>5, RemainderIs
<1>7. QED
  BY <1>6, <1>p

\* The distance from PDU a to a PDU b that is ahead by less than SNMod.
LEMMA OffAhead ==
    ASSUME NEW a \in Nat, NEW b \in Nat, a <= b, b < a + SNMod
    PROVE  Off(SnOf(b), SnOf(a)) = b - a
<1> DEFINE x == SnOf(a)
           y == SnOf(b)
           d == b - a
<1>1. x \in 0 .. SNMod - 1 /\ y \in 0 .. SNMod - 1 /\ d \in 0 .. SNMod - 1
  BY DivMod, SnAssumption DEF Sn
<1>2. Plus(x, d) = y
  <2>1. Plus(SnOf(a), d) = SnOf(a + d)
    BY <1>1, PlusSn
  <2>2. QED
    BY <2>1
<1>3. (x + d) % SNMod = y
  BY <1>2 DEF Plus
<1> HIDE DEF x, y, d
<1>4. (y - x) % SNMod = d
  <2>1. CASE x + d < SNMod
    <3>1. (x + d) % SNMod = x + d
      BY <1>1, <2>1, SnAssumption
    <3>2. y - x = d
      BY <1>1, <1>3, <3>1
    <3>3. QED
      BY <1>1, <3>2, SnAssumption
  <2>2. CASE x + d >= SNMod
    <3>1. (x + d) % SNMod = x + d - SNMod
      <4>1. x + d - SNMod \in Sn /\ x + d \in Nat /\ x + d = SNMod * 1 + (x + d - SNMod)
        BY <1>1, <2>2, SnAssumption DEF Sn
      <4>2. SnOf(x + d) = x + d - SNMod
        BY <4>1, RemainderIs
      <4>3. QED
        BY <4>2 DEF SnOf
    <3>2. y - x = d - SNMod /\ y < x
      BY <1>1, <1>3, <3>1, SnAssumption
    <3>3. (y - x) % SNMod = y - x + SNMod
      BY <1>1, <3>2, SnAssumption
    <3>4. QED
      BY <1>1, <3>2, <3>3, SnAssumption
  <2>3. QED
    BY <1>1, <2>1, <2>2, SnAssumption
<1>5. QED
  BY <1>4 DEF Off, x, y, d

\* A PDU b that is behind PDU a seems to lie ahead of it: the window check is
\* what tells the two apart.
LEMMA OffBehind ==
    ASSUME NEW a \in Nat, NEW b \in Nat, b < a, a <= b + SNMod
    PROVE  Off(SnOf(b), SnOf(a)) = SNMod - (a - b)
<1>1. SnOf(b + SNMod) = SnOf(b)
  BY SnRound
<1>2. Off(SnOf(b + SNMod), SnOf(a)) = b + SNMod - a
  BY OffAhead, SnAssumption
<1>3. QED
  BY <1>1, <1>2, SnAssumption

\* The distance between two SNs, and the PDU it leads to.
LEMMA OffType ==
    ASSUME NEW s \in Sn, NEW base \in Sn
    PROVE  Off(s, base) \in 0 .. SNMod - 1
<1>1. CASE s >= base
  BY <1>1, SnAssumption DEF Off, Sn
<1>2. CASE s < base
  <2>1. (s - base) % SNMod = s - base + SNMod
    BY <1>2, SnAssumption DEF Sn
  <2>2. QED
    BY <1>2, <2>1, SnAssumption DEF Off, Sn
<1>3. QED
  BY <1>1, <1>2 DEF Sn

\* Every SN is the SN of the PDU that lies its distance ahead of the base.
LEMMA SnAt ==
    ASSUME NEW n \in Nat, NEW s \in Sn
    PROVE  s = SnOf(n + Off(s, SnOf(n)))
<1> DEFINE b == SnOf(n)
           d == Off(s, b)
<1>1. b \in Sn /\ d \in 0 .. SNMod - 1
  BY DivMod, OffType
<1>d. d = Off(s, b)
  OBVIOUS
<1>3. Plus(b, d) = SnOf(n + d)
  BY <1>1, PlusSn, SnAssumption
<1> HIDE DEF b, d
<1>2. Plus(b, d) = s
  <2>1. CASE s >= b
    <3>1. d = s - b
      BY <1>1, <1>d, <2>1, SnAssumption DEF Off, Sn
    <3>2. QED
      BY <1>1, <3>1, SnAssumption DEF Plus, Sn
  <2>2. CASE s < b
    <3>1. d = s - b + SNMod
      BY <1>1, <1>d, <2>2, SnAssumption DEF Off, Sn
    <3>2. b + d \in Nat /\ b + d = SNMod * 1 + s
      BY <1>1, <3>1, SnAssumption DEF Sn
    <3>3. SnOf(b + d) = s
      BY <3>2, RemainderIs
    <3>4. QED
      BY <3>3 DEF Plus, SnOf
  <2>3. QED
    BY <1>1, <2>1, <2>2 DEF Sn
<1>4. QED
  BY <1>2, <1>3 DEF b, d

\* What operator> compares: the distance from the base when the number is not
\* below the base, and a value above every distance, in the same order, else.
LEMMA PosIs ==
    ASSUME NEW s \in Sn, NEW base \in Sn
    PROVE  /\ s >= base => Pos(s, base) = s - base /\ Off(s, base) = s - base
           /\ s < base => /\ Pos(s, base) = U16 + (s - base)
                          /\ Off(s, base) = SNMod + (s - base)
<1>1. ASSUME s >= base PROVE Pos(s, base) = s - base /\ Off(s, base) = s - base
  <2>1. (s - base) % SNMod = s - base
    BY <1>1, SnAssumption DEF Sn
  <2>2. (s - base) % U16 = s - base
    BY <1>1, SnAssumption DEF Sn
  <2>3. QED
    BY <1>1, <2>1, <2>2 DEF Pos, CRem, ToU16, Off, Sn
<1>2. ASSUME s < base
      PROVE  Pos(s, base) = U16 + (s - base) /\ Off(s, base) = SNMod + (s - base)
  <2>1. (-(s - base)) % SNMod = base - s
    BY <1>2, SnAssumption DEF Sn
  <2>2. CRem(s - base) = s - base
    BY <1>2, <2>1 DEF CRem, Sn
  <2>3. (s - base) % U16 = U16 + (s - base)
    BY <1>2, SnAssumption DEF Sn
  <2>4. (s - base) % SNMod = SNMod + (s - base)
    BY <1>2, SnAssumption DEF Sn
  <2>5. QED
    BY <2>2, <2>3, <2>4 DEF Pos, ToU16, Off
<1>3. QED
  BY <1>1, <1>2

\* The sum is reduced to an SN.
LEMMA PlusType ==
    ASSUME NEW s \in Sn, NEW k \in Nat
    PROVE  Plus(s, k) \in Sn
  BY SnAssumption DEF Plus, Sn

\* Nor does the difference leave the number space.
LEMMA MinusType ==
    ASSUME NEW s \in Sn
    PROVE  Minus(s, 1) \in Sn
<1>1. CRem(s - 1) \in Int
  BY SnAssumption DEF CRem, Sn
<1>2. ToU16(CRem(s - 1)) \in Nat
  BY <1>1, SnAssumption DEF ToU16
<1>3. QED
  BY <1>2, SnAssumption DEF Minus, Sn

\* The first SN.
LEMMA ZeroIsSn == 0 \in Sn
  BY SnAssumption DEF Sn

-----------------------------------------------------------------------------
\* The comparisons of the class order SNs by their distance from the base, for
\* every size of the number space that divides the range of a uint16_t.
THEOREM ComparisonsFollowTheWindow ==
    ASSUME NEW a \in Sn, NEW b \in Sn, NEW base \in Sn
    PROVE  /\ Gt(a, b, base) <=> Off(a, base) > Off(b, base)
           /\ Le(a, b, base) <=> Off(a, base) <= Off(b, base)
           /\ Lt(a, b, base) <=> Off(a, base) < Off(b, base)
           /\ Ge(a, b, base) <=> Off(a, base) >= Off(b, base)
<1>1. /\ Off(a, base) \in 0 .. SNMod - 1 /\ Off(b, base) \in 0 .. SNMod - 1
      /\ Pos(a, base) \in Int /\ Pos(b, base) \in Int
  <2>1. Off(a, base) \in 0 .. SNMod - 1 /\ Off(b, base) \in 0 .. SNMod - 1
    BY OffType
  <2>2. a \in Int /\ b \in Int /\ base \in Int /\ U16 \in Int
    BY SnAssumption DEF Sn
  <2>3. Pos(a, base) \in {a - base, U16 + (a - base)}
    BY <2>2, PosIs
  <2>4. Pos(b, base) \in {b - base, U16 + (b - base)}
    BY <2>2, PosIs
  <2>5. QED
    BY <2>1, <2>2, <2>3, <2>4
<1>2. Pos(a, base) > Pos(b, base) <=> Off(a, base) > Off(b, base)
  BY PosIs, SnAssumption DEF Sn
<1>3. Off(a, base) = Off(b, base) <=> a = b
  BY PosIs, SnAssumption DEF Sn
<1>4. QED
  BY <1>1, <1>2, <1>3, SnAssumption DEF Gt, Le, Lt, Ge

\* PDU numbers within one round from the base are compared as their SNs are.
LEMMA CompareAhead ==
    ASSUME NEW base \in Nat, NEW a \in Nat, NEW b \in Nat,
           base <= a, a < base + SNMod, base <= b, b < base + SNMod
    PROVE  /\ Gt(SnOf(a), SnOf(b), SnOf(base)) <=> a > b
           /\ Le(SnOf(a), SnOf(b), SnOf(base)) <=> a <= b
           /\ Lt(SnOf(a), SnOf(b), SnOf(base)) <=> a < b
           /\ Ge(SnOf(a), SnOf(b), SnOf(base)) <=> a >= b
<1>1. SnOf(a) \in Sn /\ SnOf(b) \in Sn /\ SnOf(base) \in Sn
  BY DivMod
<1>2. Off(SnOf(a), SnOf(base)) = a - base /\ Off(SnOf(b), SnOf(base)) = b - base
  BY OffAhead
<1>3. /\ Gt(SnOf(a), SnOf(b), SnOf(base)) <=> a - base > b - base
      /\ Le(SnOf(a), SnOf(b), SnOf(base)) <=> a - base <= b - base
      /\ Lt(SnOf(a), SnOf(b), SnOf(base)) <=> a - base < b - base
      /\ Ge(SnOf(a), SnOf(b), SnOf(base)) <=> a - base >= b - base
  BY <1>1, <1>2, ComparisonsFollowTheWindow
<1>4. QED
  BY <1>3

\* operator- undoes operator+ across the wrap of the number space, although the
\* remainder it computes is negative there.
THEOREM MinusUndoes ==
    ASSUME NEW s \in Sn, NEW k \in Sn
    PROVE  Minus(Plus(s, k), k) = s
<1> DEFINE p == Plus(s, k)
<1>1. ASSUME NEW c \in Int, CRem(p - k) = c, ToU16(c) % SNMod = s
      PROVE  Minus(p, k) = s
  BY <1>1 DEF Minus
<1>2. CASE s + k < SNMod
  <2>1. p = s + k
    BY <1>2, SnAssumption DEF Plus, Sn
  <2> HIDE DEF p
  <2>2. CRem(p - k) = s
    BY <2>1, SnAssumption DEF CRem, Sn
  <2>3. s \in Int /\ ToU16(s) = s /\ s % SNMod = s
    BY SnAssumption DEF ToU16, Sn
  <2>4. QED
    BY <1>1, <2>2, <2>3 DEF p
<1>3. CASE s + k >= SNMod
  <2>1. s + k \in Nat /\ s + k - SNMod \in Sn /\ s + k = SNMod * 1 + (s + k - SNMod)
    BY <1>3, SnAssumption DEF Sn
  <2>2. p = s + k - SNMod
    BY <2>1, RemainderIs DEF Plus, SnOf
  <2> HIDE DEF p
  <2>3. p - k = s - SNMod /\ s - SNMod < 0 /\ SNMod - s \in Sn
    BY <1>3, <2>2, SnAssumption DEF Sn
  <2>4. (-(p - k)) % SNMod = SNMod - s
    BY <2>3, SnAssumption DEF Sn
  <2>5. CRem(p - k) = s - SNMod
    BY <2>2, <2>3, <2>4, SnAssumption DEF CRem, Sn
  <2>6. ToU16(s - SNMod) = U16 + s - SNMod
    BY <2>3, SnAssumption DEF ToU16, Sn
  <2>7. U16 = SNMod * (U16 \div SNMod) /\ U16 \div SNMod \in Int
    BY SnAssumption
  <2>8. U16 + s - SNMod = SNMod * ((U16 \div SNMod) - 1) + s
    BY <2>7, SnAssumption DEF Sn
  <2>9. U16 + s - SNMod \in Nat
    BY SnAssumption DEF Sn
  <2>10. (U16 + s - SNMod) % SNMod = s
    BY <2>7, <2>8, <2>9, RemainderIs DEF SnOf
  <2>11. s - SNMod \in Int /\ ToU16(s - SNMod) % SNMod = s
    BY <2>6, <2>10, SnAssumption DEF Sn
  <2>12. QED
    BY <1>1, <2>5, <2>11 DEF p
<1>4. QED
  BY <1>2, <1>3, SnAssumption DEF Sn

-----------------------------------------------------------------------------
\* A non-empty set of natural numbers has a least element.
LEMMA LeastElement ==
  ASSUME NEW T \in SUBSET Nat, T # {}
  PROVE  \E m \in T : \A k \in T : m <= k
<1> DEFINE R == StrictSubsetOrdering(Nat)
           F == FiniteSubsetsOf(Nat)
           Below == {s \in F : \E k \in T : s = 0 .. k}
<1>1. IsWellFoundedOn(R, F) BY FS_StrictSubsetOrderingWellFounded
<1>2. \A k \in Nat : 0 .. k \in F
  <2>1. \A k \in Nat : IsFiniteSet(0 .. k) BY FS_Interval
  <2>2. QED BY <2>1 DEF FiniteSubsetsOf
<1>3. Below \subseteq F OBVIOUS
<1>4. Below # {}
  <2>1. PICK k \in T : k \in Nat OBVIOUS
  <2>2. 0 .. k \in Below BY <1>2, <2>1
  <2>3. QED BY <2>2
<1>5. PICK x \in Below : \A y \in Below : ~ (<<y, x>> \in R)
  <2> HIDE DEF R, F, Below
  <2>1. QED BY <1>1, <1>3, <1>4, WFMin
<1>6. PICK m \in T : x = 0 .. m OBVIOUS
<1>7. ASSUME NEW k \in T, k < m PROVE FALSE
  <2>1. k \in Nat /\ m \in Nat OBVIOUS
  <2>2. 0 .. k \in Below BY <1>2, <2>1
  <2>3. 0 .. k \subseteq 0 .. m BY <1>7, <2>1
  <2>4. m \in 0 .. m /\ m \notin 0 .. k BY <1>7, <2>1
  <2>5. 0 .. k # 0 .. m BY <2>4
  <2>6. 0 .. k \in SUBSET Nat /\ 0 .. m \in SUBSET Nat BY <2>1
  <2>7. <<0 .. k, 0 .. m>> \in R BY <2>3, <2>5, <2>6 DEF StrictSubsetOrdering
  <2>8. QED BY <1>5, <1>6, <2>2, <2>7
<1>8. \A k \in T : m <= k BY <1>7
<1>9. QED BY <1>8

\* A non-empty set of numbers between two bounds has a least and a greatest element.
LEMMA MinMax ==
  ASSUME NEW n \in Nat, NEW T \in SUBSET (1 .. n), T # {}
  PROVE  /\ Min(T) \in T /\ \A k \in T : Min(T) <= k
         /\ Max(T) \in T /\ \A k \in T : k <= Max(T)
<1>1. T \in SUBSET Nat /\ \A k \in T : k \in Nat /\ k <= n OBVIOUS
<1>2. \E m \in T : \A k \in T : m <= k BY <1>1, LeastElement
<1>3. \E m \in T : \A k \in T : m >= k
  <2> DEFINE U == {n - k : k \in T}
  <2>1. U \in SUBSET Nat /\ U # {}
    <3>1. \A k \in T : n - k \in Nat BY <1>1
    <3>2. PICK k \in T : TRUE OBVIOUS
    <3>3. n - k \in U OBVIOUS
    <3>4. QED BY <3>1, <3>3
  <2>2. PICK m \in U : \A k \in U : m <= k
    <3> HIDE DEF U
    <3>1. QED BY <2>1, LeastElement
  <2>3. PICK t \in T : m = n - t OBVIOUS
  <2>4. \A k \in T : n - k \in U OBVIOUS
  <2>5. \A k \in T : t >= k BY <1>1, <2>2, <2>3, <2>4, SMTT(30)
  <2>6. QED BY <2>5
<1>4. Min(T) \in T /\ \A k \in T : Min(T) =< k
  BY <1>2 DEF Min
<1>5. Max(T) \in T /\ \A k \in T : Max(T) >= k
  BY <1>3 DEF Max
<1>6. QED BY <1>1, <1>4, <1>5

\* A function on 1 .. n is a sequence of length n.
LEMMA FunctionIsSequence ==
  ASSUME NEW S, NEW n \in Nat, NEW f \in [1 .. n -> S]
  PROVE  f \in Seq(S) /\ Len(f) = n /\ DOMAIN f = 1 .. n
<1>1. f \in Seq(S) BY SeqDef
<1>2. DOMAIN f = 1 .. n OBVIOUS
<1>3. Len(f) \in Nat /\ DOMAIN f = 1 .. Len(f) BY <1>1, LenProperties
<1>4. Len(f) = n
  <2>1. 1 .. n = 1 .. Len(f) BY <1>2, <1>3
  <2>2. QED BY <1>3, <2>1
<1>5. QED BY <1>1, <1>2, <1>4

-----------------------------------------------------------------------------
(* Buffers as sets of PDU numbers.                                         *)

\* Within one round a SN in a buffer means that PDU.
LEMMA HasIs ==
    ASSUME NEW buffer, NEW low \in Nat, NEW x \in Nat, low <= x, x < low + SNMod,
           \A p \in buffer : p.n \in Nat /\ p.sn = SnOf(p.n) /\ low <= p.n /\ p.n < low + SNMod
    PROVE  Has(buffer, SnOf(x)) <=> \E p \in buffer : p.n = x
<1>1. ASSUME NEW p \in buffer, p.sn = SnOf(x) PROVE p.n = x
  <2>1. p.n \in Nat /\ SnOf(p.n) = SnOf(x) /\ p.n < x + SNMod /\ x < p.n + SNMod
    BY <1>1, SnAssumption
  <2>2. QED
    BY <2>1, SnUnique
<1>2. ASSUME NEW p \in buffer, p.n = x PROVE p.sn = SnOf(x)
  BY <1>2
<1>3. QED
  BY <1>1, <1>2 DEF Has

\* A run of buffered SNs ends at or below the upper end of the buffer.
LEMMA RunEnds ==
    ASSUME NEW buffer, NEW lo \in Nat, NEW hi \in Nat, NEW from \in Nat,
           NEW k \in 0 .. SNMod - 1,
           hi < lo + SNMod, lo <= from, from <= hi,
           \A p \in buffer : p.n \in Nat /\ p.sn = SnOf(p.n) /\ lo <= p.n /\ p.n < hi,
           IsRun(buffer, SnOf(from), k)
    PROVE  /\ from + k \in Nat /\ from + k <= hi
           /\ Plus(SnOf(from), k) = SnOf(from + k)
           /\ \A x \in from .. from + k - 1 : \E p \in buffer : p.n = x
           /\ \A p \in buffer : p.n # from + k
<1>1. k \in Nat /\ from + k \in Nat
  BY SnAssumption
<1>2. /\ \A j \in 0 .. k - 1 : Has(buffer, SnOf(from + j))
      /\ ~ Has(buffer, SnOf(from + k))
      /\ Plus(SnOf(from), k) = SnOf(from + k)
  <2>1. \A j \in Nat : Plus(SnOf(from), j) = SnOf(from + j)
    BY PlusSn
  <2>2. QED
    BY <1>1, <2>1 DEF IsRun
<1>3. \A p \in buffer : p.n \in Nat /\ p.sn = SnOf(p.n) /\ lo <= p.n /\ p.n < lo + SNMod
  BY SnAssumption
<1>4. ASSUME NEW x \in Nat, lo <= x, x < lo + SNMod
      PROVE  Has(buffer, SnOf(x)) <=> \E p \in buffer : p.n = x
  BY <1>3, <1>4, HasIs
<1>5. from + k <= hi
  <2>1. SUFFICES ASSUME hi < from + k PROVE FALSE
    BY <1>1
  <2>2. hi - from \in 0 .. k - 1 /\ from + (hi - from) = hi
    BY <1>1, <2>1
  <2>3. Has(buffer, SnOf(hi))
    BY <1>2, <2>2
  <2>4. \E p \in buffer : p.n = hi
    BY <1>4, <2>3
  <2>5. QED
    BY <2>4
<1>6. ASSUME NEW x \in from .. from + k - 1 PROVE \E p \in buffer : p.n = x
  <2>1. x \in Nat /\ lo <= x /\ x < lo + SNMod /\ x - from \in 0 .. k - 1 /\ from + (x - from) = x
    BY <1>1, <1>5, SnAssumption
  <2>2. Has(buffer, SnOf(x))
    BY <1>2, <2>1
  <2>3. QED
    BY <1>4, <2>1, <2>2
<1>7. \A p \in buffer : p.n # from + k
  BY <1>2 DEF Has
<1>8. QED
  BY <1>1, <1>2, <1>5, <1>6, <1>7

-----------------------------------------------------------------------------
(* Bytes and pieces of SDUs.                                               *)

\* SDUs are not empty.
SduLens == SduLen \in Seq(Nat \ {0})

\* A byte is a place in an SDU.
LEMMA ByteIs ==
  ASSUME SduLens, NEW b \in Byte
  PROVE  /\ b = <<b[1], b[2]>> /\ b[1] \in 1 .. Len(SduLen) /\ b[1] \in Nat
         /\ SduLen[b[1]] \in Nat \ {0} /\ b[2] \in 1 .. SduLen[b[1]] /\ b[2] \in Nat
<1>1. DOMAIN SduLen = 1 .. Len(SduLen) /\ Len(SduLen) \in Nat BY LenProperties DEF SduLens
<1>2. \A i \in 1 .. Len(SduLen) : SduLen[i] \in Nat \ {0} BY ElementOfSeq DEF SduLens
<1>3. PICK i \in DOMAIN SduLen : b \in {<<i, k>> : k \in 1 .. SduLen[i]} BY DEF Byte
<1>4. PICK k \in 1 .. SduLen[i] : b = <<i, k>> BY <1>3
<1>5. QED BY <1>1, <1>2, <1>3, <1>4

\* A place in an SDU is a byte.
LEMMA IsByte ==
  ASSUME SduLens, NEW i \in 1 .. Len(SduLen), NEW k \in 1 .. SduLen[i]
  PROVE  <<i, k>> \in Byte
<1>1. DOMAIN SduLen = 1 .. Len(SduLen) BY LenProperties DEF SduLens
<1>2. QED BY <1>1 DEF Byte

\* An SDU is a sequence of bytes.
LEMMA SduType ==
    ASSUME SduLens, NEW i \in 1 .. Len(SduLen)
    PROVE  Sdu(i) \in Seq(Byte)
<1>1. SduLen \in Seq(Nat \ {0}) /\ SduLen[i] \in Nat /\ i \in DOMAIN SduLen
  BY ElementOfSeq, LenProperties DEF SduLens
<1>2. \A k \in 1 .. SduLen[i] : <<i, k>> \in Byte
  BY <1>1 DEF Byte
<1>3. Sdu(i) \in [1 .. SduLen[i] -> Byte]
  BY <1>1, <1>2 DEF Sdu
<1>4. QED
  BY <1>1, <1>3, SeqDef

\* A sequence of bytes falls into two when its first k bytes are taken.
LEMMA PartType ==
    ASSUME NEW s \in Seq(Byte), NEW k \in 1 .. Len(s)
    PROVE  SubSeq(s, 1, k) \in Seq(Byte) /\ SubSeq(s, k + 1, Len(s)) \in Seq(Byte)
<1>1. Len(s) \in Nat /\ \A i \in 1 .. Len(s) : s[i] \in Byte
  BY LenProperties, ElementOfSeq
<1>2. (\A i \in 1 .. k : s[i] \in Byte) /\ (\A i \in k + 1 .. Len(s) : s[i] \in Byte)
  BY <1>1
<1>3. k \in Int /\ k + 1 \in Int /\ Len(s) \in Int /\ 1 \in Int
  BY <1>1
<1>4. SubSeq(s, 1, k) \in Seq(Byte)
  BY <1>2, <1>3, SubSeqProperties
<1>5. SubSeq(s, k + 1, Len(s)) \in Seq(Byte)
  BY <1>2, <1>3, SubSeqProperties
<1>6. QED
  BY <1>4, <1>5

\* The bytes a to b of SDU i.
Piece(i, a, b) == [k \in 1 .. b - a + 1 |-> <<i, a + k - 1>>]

\* A piece is a sequence of bytes.
LEMMA PieceIs ==
  ASSUME SduLens, NEW i \in 1 .. Len(SduLen), NEW a \in Nat \ {0}, NEW b \in Nat,
         a <= b + 1, b <= SduLen[i]
  PROVE  /\ Piece(i, a, b) \in Seq(Byte) /\ Len(Piece(i, a, b)) = b - a + 1
         /\ \A k \in 1 .. b - a + 1 : Piece(i, a, b)[k] = <<i, a + k - 1>>
<1>0. SduLen[i] \in Nat BY ElementOfSeq DEF SduLens
<1>1. b - a + 1 \in Nat OBVIOUS
<1>2. \A k \in 1 .. b - a + 1 : a + k - 1 \in 1 .. SduLen[i] BY <1>0
<1>3. \A k \in 1 .. b - a + 1 : <<i, a + k - 1>> \in Byte BY <1>2, IsByte
<1>4. Piece(i, a, b) \in [1 .. b - a + 1 -> Byte] BY <1>3 DEF Piece
<1>5. QED BY <1>1, <1>4, FunctionIsSequence DEF Piece

\* All bytes of an SDU are the SDU.
LEMMA WholePiece ==
  ASSUME SduLens, NEW i \in 1 .. Len(SduLen)
  PROVE  Piece(i, 1, SduLen[i]) = Sdu(i)
<1>1. SduLen[i] \in Nat BY ElementOfSeq DEF SduLens
<1>2. SduLen[i] - 1 + 1 = SduLen[i] /\ \A k \in 1 .. SduLen[i] : 1 + k - 1 = k BY <1>1
<1>3. QED BY <1>2 DEF Piece, Sdu

\* The first bytes of an SDU.
LEMMA FirstPiece ==
  ASSUME SduLens, NEW i \in 1 .. Len(SduLen), NEW b \in Nat, b <= SduLen[i]
  PROVE  /\ Piece(i, 1, b) \in Seq(Byte) /\ Len(Piece(i, 1, b)) = b
         /\ \A k \in 1 .. b : Piece(i, 1, b)[k] = <<i, k>>
<1>1. b - 1 + 1 = b /\ \A k \in Int : 1 + k - 1 = k OBVIOUS
<1>2. SduLen[i] \in Nat BY ElementOfSeq DEF SduLens
<1>3. Piece(i, 1, b) \in Seq(Byte) /\ Len(Piece(i, 1, b)) = b BY <1>1, <1>2, PieceIs
<1>4. ASSUME NEW k \in 1 .. b PROVE Piece(i, 1, b)[k] = <<i, k>>
  <2>1. k \in 1 .. b - 1 + 1 /\ 1 + k - 1 = k BY <1>1
  <2>2. QED BY <2>1 DEF Piece
<1>5. QED BY <1>3, <1>4

\* Two pieces that follow each other are one.
LEMMA PiecesJoin ==
  ASSUME SduLens, NEW i \in 1 .. Len(SduLen), NEW a \in Nat, NEW b \in Nat,
         a <= b, b <= SduLen[i]
  PROVE  Piece(i, 1, a) \o Piece(i, a + 1, b) = Piece(i, 1, b)
<1> DEFINE s == Piece(i, 1, a)  t == Piece(i, a + 1, b)  w == Piece(i, 1, b)
<1>0. SduLen[i] \in Nat BY ElementOfSeq DEF SduLens
<1>1. s \in Seq(Byte) /\ Len(s) = a /\ \A k \in 1 .. a : s[k] = <<i, k>>
  <2>1. a <= SduLen[i] BY <1>0
  <2>2. QED BY <2>1, FirstPiece
<1>2. t \in Seq(Byte) /\ Len(t) = b - a /\ \A k \in 1 .. b - a : t[k] = <<i, a + k>>
  <2>1. b - (a + 1) + 1 = b - a OBVIOUS
  <2>2. a + 1 \in Nat \ {0} /\ a + 1 <= b + 1 OBVIOUS
  <2>3. t \in Seq(Byte) /\ Len(t) = b - a BY <1>0, <2>1, <2>2, PieceIs
  <2>4. ASSUME NEW k \in 1 .. b - a PROVE t[k] = <<i, a + k>>
    <3>1. k \in 1 .. b - (a + 1) + 1 /\ (a + 1) + k - 1 = a + k OBVIOUS
    <3>2. QED BY <3>1 DEF Piece
  <2>5. QED BY <2>3, <2>4
<1>3. w \in Seq(Byte) /\ Len(w) = b /\ \A k \in 1 .. b : w[k] = <<i, k>>
  BY FirstPiece
<1> HIDE DEF s, t, w
<1>0a. /\ s \o t \in Seq(Byte) /\ Len(s \o t) = Len(s) + Len(t)
       /\ \A k \in 1 .. Len(s) + Len(t) :
             (s \o t)[k] = IF k <= Len(s) THEN s[k] ELSE t[k - Len(s)]
  BY <1>1, <1>2, ConcatProperties
<1>4. s \o t \in Seq(Byte) /\ Len(s \o t) = b
  BY <1>0a, <1>1, <1>2
<1>5. ASSUME NEW k \in 1 .. b PROVE (s \o t)[k] = w[k]
  <2>0. k \in 1 .. Len(s) + Len(t) BY <1>1, <1>2
  <2>1. (s \o t)[k] = IF k <= a THEN s[k] ELSE t[k - a]
    BY <1>0a, <1>1, <2>0
  <2>2. CASE k <= a
    <3>1. s[k] = <<i, k>> BY <1>1, <2>2
    <3>2. w[k] = <<i, k>> BY <1>3
    <3>3. QED BY <2>1, <2>2, <3>1, <3>2
  <2>3. CASE k > a
    <3>1. k - a \in 1 .. b - a /\ a + (k - a) = k BY <2>3
    <3>2. t[k - a] = <<i, k>> BY <1>2, <3>1
    <3>3. w[k] = <<i, k>> BY <1>3
    <3>4. ~ (k <= a) BY <2>3
    <3>5. QED BY <2>1, <3>2, <3>3, <3>4
  <2>4. k <= a \/ k > a OBVIOUS
  <2>5. QED BY <2>2, <2>3, <2>4
<1>6. s \o t = w BY <1>3, <1>4, <1>5, SeqEqual
<1>7. QED BY <1>6 DEF s, t, w

-----------------------------------------------------------------------------
(* Streams: bytes that follow each other as SDUs are submitted.            *)

\* The byte after b.
After(b) == IF b[2] < SduLen[b[1]] THEN <<b[1], b[2] + 1>> ELSE <<b[1] + 1, 1>>

IsStream(d) ==
  /\ d \in Seq(Byte)
  /\ \A k \in 1 .. Len(d) - 1 : d[k + 1] = After(d[k])

\* The bytes of a stream.
LEMMA StreamBytes ==
  ASSUME SduLens, NEW d, IsStream(d)
  PROVE  /\ Len(d) \in Nat /\ DOMAIN d = 1 .. Len(d) /\ d \in Seq(Byte)
         /\ \A k \in 1 .. Len(d) :
               /\ d[k] \in Byte /\ d[k] = <<d[k][1], d[k][2]>>
               /\ d[k][1] \in 1 .. Len(SduLen) /\ d[k][1] \in Nat
               /\ SduLen[d[k][1]] \in Nat \ {0}
               /\ d[k][2] \in 1 .. SduLen[d[k][1]] /\ d[k][2] \in Nat
<1>1. d \in Seq(Byte) BY DEF IsStream
<1>2. Len(d) \in Nat /\ DOMAIN d = 1 .. Len(d) BY <1>1, LenProperties
<1>3. ASSUME NEW k \in 1 .. Len(d) PROVE d[k] \in Byte BY <1>1, ElementOfSeq
<1>4. QED BY <1>1, <1>2, <1>3, ByteIs

\* The bytes of a stream are in order, and those of one SDU without a gap.
LEMMA StreamOrder ==
  ASSUME SduLens, NEW d, IsStream(d), NEW k \in 1 .. Len(d), NEW l \in k .. Len(d)
  PROVE  \/ d[k][1] < d[l][1]
         \/ d[k][1] = d[l][1] /\ d[l][2] = d[k][2] + (l - k)
<1> DEFINE Ordered(j) == \/ d[k][1] < d[j][1]
                         \/ d[k][1] = d[j][1] /\ d[j][2] = d[k][2] + (j - k)
           T == {j \in k .. Len(d) : ~ Ordered(j)}
<1>0. Len(d) \in Nat /\ k \in Nat /\ l \in Nat BY StreamBytes
<1>1. SUFFICES ASSUME T # {} PROVE FALSE
  <2>1. l \notin T BY <1>1
  <2>2. Ordered(l) BY <2>1
  <2>3. QED BY <2>2
<1>2. T \in SUBSET Nat BY <1>0
<1>3. PICK m \in T : \A j \in T : m <= j
  <2> HIDE DEF T
  <2>1. QED BY <1>1, <1>2, LeastElement
<1>4. m \in k .. Len(d) /\ ~ Ordered(m) OBVIOUS
<1>5. d[k][2] \in Nat /\ d[k][1] \in Nat BY StreamBytes
<1>6. m # k
  <2>1. Ordered(k) BY <1>0, <1>5
  <2>2. QED BY <1>4, <2>1
<1>7. m - 1 \in k .. Len(d) /\ m - 1 \in 1 .. Len(d) - 1 /\ m - 1 < m /\ (m - 1) + 1 = m
  BY <1>0, <1>4, <1>6
<1>8. Ordered(m - 1)
  <2>1. m - 1 \notin T BY <1>0, <1>3, <1>4, <1>7
  <2>2. QED BY <1>7, <2>1
<1>9. d[m] = After(d[m - 1]) BY <1>7 DEF IsStream
<1>10. d[m - 1][1] \in Nat /\ d[m - 1][2] \in Nat
  <2>1. m - 1 \in 1 .. Len(d) BY <1>0, <1>7
  <2>2. QED BY <2>1, StreamBytes
<1>11. \/ d[m] = <<d[m - 1][1], d[m - 1][2] + 1>>
       \/ d[m] = <<d[m - 1][1] + 1, 1>>
  BY <1>9 DEF After
<1>12. \/ d[m][1] = d[m - 1][1] /\ d[m][2] = d[m - 1][2] + 1
       \/ d[m][1] = d[m - 1][1] + 1
  BY <1>11
<1>13. Ordered(m)
  <2>1. PICK a \in Nat, b \in Nat, x \in Nat, y \in Nat :
          a = d[k][1] /\ b = d[k][2] /\ x = d[m - 1][1] /\ y = d[m - 1][2]
    BY <1>5, <1>10
  <2>2. a < x \/ (a = x /\ y = b + (m - 1) - k) BY <1>8, <2>1
  <2>3. PICK i, j : i = d[m][1] /\ j = d[m][2] OBVIOUS
  <2>4. (i = x /\ j = y + 1) \/ i = x + 1 BY <1>12, <2>1, <2>3
  <2>5. m \in Int /\ k \in Int BY <1>0, <1>4
  <2> HIDE DEF T
  <2>6. a < i \/ (a = i /\ j = b + m - k)
    <3>1. CASE i = x + 1 BY <3>1, <2>2
    <3>2. CASE i = x /\ j = y + 1
      <4>1. y = b + (m - 1) - k => y + 1 = b + m - k BY <2>5
      <4>2. QED BY <3>2, <2>2, <4>1
    <3>3. QED BY <2>4, <3>1, <3>2
  <2>7. QED BY <2>1, <2>3, <2>6
<1>14. QED BY <1>4, <1>13

\* The SDUs from the first to the last one of a stream, each with its bytes.
First(d) == d[1][1]
Final(d) == d[Len(d)][1]
FromByte(d, i) == IF i = First(d) THEN d[1][2] ELSE 1
ToByte(d, i) == IF i = Final(d) THEN d[Len(d)][2] ELSE SduLen[i]

\* The bytes of a SDU lie in one place of a stream.
LEMMA StreamPlaces ==
  ASSUME SduLens, NEW d, IsStream(d), d # <<>>, NEW i \in First(d) .. Final(d)
  PROVE  \E lo, hi \in 1 .. Len(d) :
            /\ {k \in DOMAIN d : d[k][1] = i} = lo .. hi
            /\ lo <= hi
            /\ d[lo] = <<i, FromByte(d, i)>> /\ d[hi] = <<i, ToByte(d, i)>>
<1> DEFINE n == Len(d)  P == {k \in 1 .. n : d[k][1] = i}
           U == {k \in 1 .. n : d[k][1] >= i}
<1>1. n \in Nat /\ DOMAIN d = 1 .. n /\ n # 0
  <2>1. n # 0 BY EmptySeq, StreamBytes
  <2>2. QED BY <2>1, StreamBytes
<1>2. \A k \in 1 .. n : /\ d[k][1] \in Nat /\ d[k][2] \in Nat /\ SduLen[d[k][1]] \in Nat \ {0}
                        /\ d[k] = <<d[k][1], d[k][2]>> /\ d[k][2] \in 1 .. SduLen[d[k][1]]
  BY StreamBytes
<1>3. 1 \in 1 .. n /\ n \in 1 .. n BY <1>1
<1>4. i \in Nat /\ d[1][1] <= i /\ i <= d[n][1] BY <1>2, <1>3 DEF First, Final
<1>5. \A k \in 1 .. n - 1 : d[k + 1] = After(d[k]) BY DEF IsStream
<1>6. \A k \in 1 .. n : \A l \in k .. n : d[k][1] <= d[l][1]
  <2> SUFFICES ASSUME NEW k \in 1 .. n, NEW l \in k .. n PROVE d[k][1] <= d[l][1] OBVIOUS
  <2>1. l \in 1 .. n BY <1>1
  <2>2. d[k][1] \in Nat /\ d[l][1] \in Nat BY <1>2, <2>1
  <2>3. QED BY <2>2, StreamOrder
<1>7. \A k \in 1 .. n - 1 : \/ d[k + 1][1] = d[k][1]
                            \/ /\ d[k + 1] = <<d[k][1] + 1, 1>> /\ d[k][2] = SduLen[d[k][1]]
                               /\ d[k + 1][1] = d[k][1] + 1
  <2> SUFFICES ASSUME NEW k \in 1 .. n - 1
               PROVE  \/ d[k + 1][1] = d[k][1]
                      \/ /\ d[k + 1] = <<d[k][1] + 1, 1>> /\ d[k][2] = SduLen[d[k][1]]
                         /\ d[k + 1][1] = d[k][1] + 1
    OBVIOUS
  <2>1. d[k + 1] = After(d[k]) /\ k \in 1 .. n BY <1>1, <1>5
  <2>2. d[k][2] \in Nat /\ SduLen[d[k][1]] \in Nat /\ d[k][2] <= SduLen[d[k][1]] BY <1>2, <2>1
  <2>3. CASE d[k][2] < SduLen[d[k][1]]
    <3>1. d[k + 1] = <<d[k][1], d[k][2] + 1>> BY <2>1, <2>3 DEF After
    <3>2. QED BY <3>1
  <2>4. CASE ~ (d[k][2] < SduLen[d[k][1]])
    <3>1. d[k + 1] = <<d[k][1] + 1, 1>> BY <2>1, <2>4 DEF After
    <3>2. d[k][2] = SduLen[d[k][1]] BY <2>2, <2>4
    <3>3. QED BY <3>1, <3>2
  <2>5. QED BY <2>3, <2>4
<1>8. U \in SUBSET (1 .. n) /\ U # {}
  <2>1. d[n][1] >= i BY <1>2, <1>3, <1>4
  <2>2. n \in U BY <1>3, <2>1
  <2>3. QED BY <2>2
<1>9. PICK lo \in U : \A k \in U : lo <= k
  <2> HIDE DEF U
  <2>1. U \in SUBSET Nat BY <1>1, <1>8
  <2>2. QED BY <1>8, <2>1, LeastElement
<1>10. lo \in 1 .. n /\ d[lo][1] >= i /\ lo \in Nat BY <1>1
<1>11. d[lo] = <<i, FromByte(d, i)>>
  <2>1. CASE lo = 1
    <3>1. d[1][1] = i BY <1>2, <1>3, <1>4, <1>10, <2>1
    <3>2. QED BY <1>2, <1>3, <2>1, <3>1 DEF FromByte, First
  <2>2. CASE lo # 1
    <3>1. lo - 1 \in 1 .. n - 1 /\ lo - 1 \in 1 .. n /\ (lo - 1) + 1 = lo /\ ~ (lo <= lo - 1)
      BY <1>1, <1>10, <2>2
    <3>2. lo - 1 \notin U BY <1>9, <3>1
    <3>3. d[lo - 1][1] < i BY <1>2, <1>4, <3>1, <3>2
    <3>4. \/ d[lo][1] = d[lo - 1][1]
          \/ d[lo] = <<d[lo - 1][1] + 1, 1>> /\ d[lo][1] = d[lo - 1][1] + 1
      BY <1>7, <3>1
    <3>5. d[lo - 1][1] \in Nat /\ d[lo][1] \in Nat BY <1>2, <1>10, <3>1
    <3>6. d[lo] = <<d[lo - 1][1] + 1, 1>> /\ d[lo - 1][1] + 1 = i
      BY <1>4, <1>10, <3>3, <3>4, <3>5
    <3>7. d[1][1] <= d[lo - 1][1]
      <4>1. lo - 1 \in 1 .. n /\ 1 \in 1 .. n BY <3>1, <1>3
      <4>2. QED BY <1>6, <4>1
    <3>8. i # First(d) BY <1>2, <1>3, <1>4, <3>3, <3>5, <3>7 DEF First
    <3>9. QED BY <3>6, <3>8 DEF FromByte
  <2>3. QED BY <2>1, <2>2
<1>12. lo \in P
  <2>1. d[lo][1] = i BY <1>11
  <2>2. QED BY <1>10, <2>1
<1>13. P \in SUBSET (1 .. n) /\ P # {} BY <1>12
<1>14. Max(P) \in P /\ \A k \in P : k <= Max(P)
  <2> HIDE DEF P
  <2>1. QED BY <1>1, <1>13, MinMax
<1>15. PICK hi \in P : \A k \in P : k <= hi
  <2> HIDE DEF P
  <2>1. QED BY <1>14
<1>16. hi \in 1 .. n /\ d[hi][1] = i /\ hi \in Nat /\ lo <= hi BY <1>1, <1>12, <1>15
<1>17. d[hi] = <<i, ToByte(d, i)>>
  <2>1. d[hi] = <<i, d[hi][2]>> BY <1>2, <1>16
  <2>2. CASE hi = n BY <1>16, <2>1, <2>2 DEF ToByte, Final
  <2>3. CASE hi # n
    <3>1. hi \in 1 .. n - 1 /\ hi + 1 \in 1 .. n /\ ~ (hi + 1 <= hi) BY <1>1, <1>16, <2>3
    <3>2. hi + 1 \notin P BY <1>15, <3>1
    <3>3. d[hi + 1][1] # i BY <3>1, <3>2
    <3>4. d[hi][2] = SduLen[i] /\ d[hi + 1][1] = i + 1 BY <1>7, <1>16, <3>1, <3>3
    <3>5. n \in hi + 1 .. n BY <1>1, <3>1
    <3>6. d[hi + 1][1] <= d[n][1] BY <1>6, <3>1, <3>5
    <3>7. i # Final(d) BY <1>2, <1>3, <1>4, <3>4, <3>6 DEF Final
    <3>8. QED BY <2>1, <3>4, <3>7 DEF ToByte
  <2>4. QED BY <2>2, <2>3
<1>18. P = lo .. hi
  <2>1. ASSUME NEW k \in P PROVE k \in lo .. hi
    <3>1. k \in 1 .. n /\ d[k][1] = i OBVIOUS
    <3>2. k \in U BY <1>4, <3>1
    <3>3. QED BY <1>9, <1>10, <1>15, <1>16, <3>1, <3>2
  <2>2. ASSUME NEW k \in lo .. hi PROVE k \in P
    <3>1. k \in 1 .. n /\ k \in lo .. n /\ hi \in k .. n BY <1>1, <1>10, <1>16
    <3>2. d[lo][1] <= d[k][1] /\ d[k][1] <= d[hi][1] BY <1>6, <1>10, <3>1
    <3>3. d[lo][1] = i BY <1>11
    <3>4. d[k][1] = i BY <1>2, <1>4, <1>16, <3>1, <3>2, <3>3
    <3>5. QED BY <3>1, <3>4
  <2>3. QED BY <2>1, <2>2
<1>19. QED BY <1>1, <1>10, <1>11, <1>16, <1>17, <1>18

\* The head of a sequence is its first element.
LEMMA HeadIs ==
  ASSUME NEW S, NEW s \in Seq(S), s # <<>>
  PROVE  Head(s) = s[1] /\ Len(s) \in Nat \ {0}
<1>1. Len(s) \in Nat \ {0} BY EmptySeq
<1>2. QED BY <1>1

\* The bytes that a field begins and ends with.
LEMMA FieldEnds ==
  ASSUME SduLens, NEW d, IsStream(d), d # <<>>, NEW i \in First(d) .. Final(d)
  PROVE  /\ First(d) \in 1 .. Len(SduLen) /\ Final(d) \in 1 .. Len(SduLen)
         /\ First(d) <= Final(d)
         /\ i \in 1 .. Len(SduLen) /\ SduLen[i] \in Nat \ {0}
         /\ FromByte(d, i) \in 1 .. SduLen[i] /\ ToByte(d, i) \in 1 .. SduLen[i]
         /\ FromByte(d, i) <= ToByte(d, i)
<1>1. Len(d) \in Nat \ {0} BY StreamBytes, HeadIs
<1>2. 1 \in 1 .. Len(d) /\ Len(d) \in 1 .. Len(d) BY <1>1
<1>3. /\ First(d) \in 1 .. Len(SduLen) /\ Final(d) \in 1 .. Len(SduLen)
      /\ d[1][2] \in 1 .. SduLen[First(d)] /\ d[Len(d)][2] \in 1 .. SduLen[Final(d)]
  BY <1>2, StreamBytes DEF First, Final
<1>4. i \in 1 .. Len(SduLen) /\ First(d) <= Final(d) BY <1>3
<1>5. SduLen[i] \in Nat \ {0} BY <1>4, ElementOfSeq DEF SduLens
<1>6. FromByte(d, i) \in 1 .. SduLen[i] /\ ToByte(d, i) \in 1 .. SduLen[i]
  BY <1>3, <1>5 DEF FromByte, ToByte
<1>7. FromByte(d, i) <= ToByte(d, i)
  <2>1. CASE i = First(d) /\ i = Final(d)
    <3>1. Len(d) \in 1 .. Len(d) BY <1>2
    <3>2. d[Len(d)][2] = d[1][2] + (Len(d) - 1)
      <4>1. d[1][1] = d[Len(d)][1] BY <2>1 DEF First, Final
      <4>2. d[1][1] \in Nat /\ d[Len(d)][1] \in Nat BY <1>2, StreamBytes
      <4>3. QED BY <1>2, <4>1, <4>2, StreamOrder
    <3>3. QED BY <1>1, <1>3, <2>1, <3>2 DEF FromByte, ToByte
  <2>2. CASE i # First(d)
    BY <1>5, <1>6, <2>2 DEF FromByte
  <2>3. CASE i # Final(d)
    BY <1>5, <1>6, <2>3 DEF ToByte
  <2>4. QED BY <2>1, <2>2, <2>3
<1>8. QED BY <1>3, <1>4, <1>5, <1>6, <1>7

\* A field holds the bytes of its SDU that the PDU carries.
LEMMA FieldIs ==
  ASSUME SduLens, NEW d, IsStream(d), d # <<>>, NEW i \in First(d) .. Final(d)
  PROVE  Fields(d)[i - First(d) + 1] = Piece(i, FromByte(d, i), ToByte(d, i))
<1> DEFINE P == {k \in DOMAIN d : d[k][1] = i}
           a == FromByte(d, i)  b == ToByte(d, i)  n == Len(d)
<1>1. n \in Nat \ {0} /\ d \in Seq(Byte) BY StreamBytes, HeadIs
<1>2. Head(d) = d[1] /\ Last(d) = d[n] BY <1>1, HeadIs DEF Last
<1>3. First(d) \in Nat /\ Final(d) \in Nat /\ i \in Nat /\ a \in Nat /\ b \in Nat /\ a <= b
  BY FieldEnds
<1>4. PICK lo, hi \in 1 .. n : /\ P = lo .. hi /\ lo <= hi
                               /\ d[lo] = <<i, a>> /\ d[hi] = <<i, b>>
  BY StreamPlaces
<1>5. Min(P) = lo /\ Max(P) = hi
  <2>1. lo \in P /\ hi \in P /\ \A k \in P : k \in Nat /\ lo <= k /\ k <= hi BY <1>1, <1>4
  <2>2. P \in SUBSET (1 .. n) /\ P # {} BY <1>1, <1>4
  <2>3. /\ Min(P) \in P /\ \A k \in P : Min(P) <= k
        /\ Max(P) \in P /\ \A k \in P : k <= Max(P)
    <3> HIDE DEF P
    <3>1. QED BY <1>1, <2>2, MinMax
  <2>4. lo \in Nat /\ hi \in Nat /\ Min(P) \in Nat /\ Max(P) \in Nat BY <2>1, <2>3
  <2> HIDE DEF P
  <2>5. Min(P) <= lo /\ lo <= Min(P) /\ Max(P) <= hi /\ hi <= Max(P) BY <2>1, <2>3
  <2>6. QED BY <2>4, <2>5
<1>6. Fields(d)[i - First(d) + 1] = SubSeq(d, lo, hi)
  <2>1. i - First(d) + 1 \in 1 .. Final(d) - First(d) + 1 /\ First(d) + (i - First(d) + 1) - 1 = i
    BY <1>3
  <2>2. Fields(d)[i - First(d) + 1] = SubSeq(d, Min(P), Max(P))
    BY <1>2, <2>1 DEF Fields, First, Final
  <2>3. QED BY <1>5, <2>2
<1>7. \A k \in lo .. hi : d[k] \in Byte BY <1>1, StreamBytes
<1>8. b = a + (hi - lo)
  <2>1. hi \in lo .. n BY <1>1, <1>4
  <2>2. d[lo][1] = i /\ d[hi][1] = i /\ d[lo][2] = a /\ d[hi][2] = b BY <1>4
  <2>3. QED BY <1>3, <2>1, <2>2, StreamOrder, SMTT(30)
<1>9. /\ SubSeq(d, lo, hi) \in Seq(Byte) /\ Len(SubSeq(d, lo, hi)) = hi - lo + 1
      /\ \A k \in 1 .. hi - lo + 1 : SubSeq(d, lo, hi)[k] = d[lo + k - 1]
  <2>1. lo \in Int /\ hi \in Int BY <1>1
  <2>2. QED BY <1>4, <1>7, <2>1, SubSeqProperties
<1>10. \A k \in 1 .. hi - lo + 1 : d[lo + k - 1] = <<i, a + k - 1>>
  <2> SUFFICES ASSUME NEW k \in 1 .. hi - lo + 1 PROVE d[lo + k - 1] = <<i, a + k - 1>>
    OBVIOUS
  <2>1. lo + k - 1 \in lo .. n /\ lo + k - 1 \in lo .. hi /\ lo + k - 1 \in 1 .. n /\ lo \in 1 .. n
        /\ (lo + k - 1) - lo = k - 1
    BY <1>1, <1>4
  <2>2. lo + k - 1 \in P BY <1>4, <2>1
  <2>3. d[lo + k - 1][1] = i BY <2>2
  <2>4. d[lo][1] = i /\ d[lo][2] = a BY <1>4
  <2>5. d[lo + k - 1][2] = a + k - 1
    <3> HIDE DEF a
    <3>1. \/ d[lo][1] < d[lo + k - 1][1]
          \/ d[lo + k - 1][2] = d[lo][2] + ((lo + k - 1) - lo)
      BY <2>1, StreamOrder
    <3>2. d[lo + k - 1][2] = a + ((lo + k - 1) - lo) BY <1>3, <2>3, <2>4, <3>1
    <3>3. QED BY <1>1, <1>3, <3>2
  <2>6. d[lo + k - 1] = <<d[lo + k - 1][1], d[lo + k - 1][2]>> BY <2>1, StreamBytes
  <2>7. QED BY <2>3, <2>5, <2>6
<1>11. /\ Piece(i, a, b) \in Seq(Byte) /\ Len(Piece(i, a, b)) = b - a + 1
       /\ \A k \in 1 .. b - a + 1 : Piece(i, a, b)[k] = <<i, a + k - 1>>
  <2>1. /\ i \in 1 .. Len(SduLen) /\ a \in Nat \ {0} /\ b \in Nat /\ a <= b + 1 /\ b <= SduLen[i]
    BY FieldEnds
  <2> HIDE DEF a, b
  <2>2. QED BY <2>1, PieceIs
<1>12. b - a + 1 = hi - lo + 1 BY <1>1, <1>3, <1>8
<1>13. SubSeq(d, lo, hi) = Piece(i, a, b)
  <2> DEFINE x == SubSeq(d, lo, hi)  y == Piece(i, a, b)
  <2>1. x \in Seq(Byte) /\ y \in Seq(Byte) /\ Len(x) = Len(y) BY <1>9, <1>11, <1>12
  <2>2. ASSUME NEW k \in 1 .. Len(x) PROVE x[k] = y[k]
    <3>1. k \in 1 .. hi - lo + 1 /\ k \in 1 .. b - a + 1 BY <1>9, <1>12
    <3>2. x[k] = <<i, a + k - 1>> BY <1>9, <1>10, <3>1
    <3>3. y[k] = <<i, a + k - 1>> BY <1>11, <3>1
    <3>4. QED BY <3>2, <3>3
  <2> HIDE DEF x, y
  <2>3. x = y BY <2>1, <2>2, SeqEqual
  <2>4. QED BY <2>3 DEF x, y
<1>14. QED BY <1>6, <1>13

-----------------------------------------------------------------------------
(* Reassembly.                                                             *)

\* The held segment is taken up again.
Usable(st, pdu) == pdu.sn = st.expected /\ st.keep # <<>>

\* The first SDU that comes out, and the last one: a segment whose beginning was
\* lost is dropped, and the last SDU of a PDU may lack its end.
FirstOut(st, pdu) ==
  IF pdu.data[1][2] = 1 \/ Usable(st, pdu) THEN First(pdu.data) ELSE First(pdu.data) + 1
Complete(d) == d[Len(d)][2] = SduLen[Final(d)]
LastOut(pdu) == IF Complete(pdu.data) THEN Final(pdu.data) ELSE Final(pdu.data) - 1

\* The SDUs from s to e.
Sdus(s, e) == [j \in 1 .. e - s + 1 |-> Sdu(s + j - 1)]

\* What reassembly goes on from is the beginning of the SDU that the PDU continues.
Fits(st, pdu) ==
  /\ st.keep \in Seq(Byte) /\ st.out \in Seq(Seq(Byte))
  /\ pdu.data[1][2] # 1 /\ Usable(st, pdu) =>
        st.keep = Piece(First(pdu.data), 1, pdu.data[1][2] - 1)

\* SDUs are sequences of bytes.
LEMMA SdusAre ==
  ASSUME SduLens, NEW s \in 1 .. Len(SduLen), NEW e \in 1 .. Len(SduLen), s <= e + 1
  PROVE  /\ Sdus(s, e) \in Seq(Seq(Byte)) /\ Len(Sdus(s, e)) = e - s + 1
         /\ \A j \in 1 .. e - s + 1 : Sdus(s, e)[j] = Sdu(s + j - 1)
<1>0. Len(SduLen) \in Nat BY LenProperties DEF SduLens
<1>1. e - s + 1 \in Nat BY <1>0
<1>2. ASSUME NEW i \in 1 .. Len(SduLen) PROVE Sdu(i) \in Seq(Byte)
  <2>1. SduLen[i] \in Nat BY ElementOfSeq DEF SduLens
  <2>2. QED BY <2>1, WholePiece, FirstPiece
<1>3. \A j \in 1 .. e - s + 1 : s + j - 1 \in 1 .. Len(SduLen) BY <1>0
<1>4. Sdus(s, e) \in [1 .. e - s + 1 -> Seq(Byte)] BY <1>2, <1>3 DEF Sdus
<1>5. QED BY <1>1, <1>4, FunctionIsSequence, ZenonT(30) DEF Sdus

\* The pieces of SDUs that one PDU completes or begins.
Pieces(st, pdu) ==
  LET fields == Fields(pdu.data)
      continues == Head(pdu.data)[2] # 1
      usable == pdu.sn = st.expected /\ st.keep # <<>>
  IN IF ~ continues THEN fields
     ELSE IF usable THEN <<st.keep \o Head(fields)>> \o Tail(fields)
     ELSE Tail(fields)

\* The pieces are those of consecutive SDUs, each from its beginning.
LEMMA PiecesAre ==
  ASSUME SduLens, NEW st, NEW pdu, IsStream(pdu.data), pdu.data # <<>>, Fits(st, pdu)
  PROVE  LET d == pdu.data
             s == FirstOut(st, pdu)
             x == Pieces(st, pdu)
         IN /\ x \in Seq(Seq(Byte)) /\ Len(x) = Final(d) - s + 1
            /\ \A j \in 1 .. Final(d) - s + 1 : x[j] = Piece(s + j - 1, 1, ToByte(d, s + j - 1))
<1> DEFINE d == pdu.data  m == Final(d) - First(d) + 1  f == Fields(d)
           s == FirstOut(st, pdu)  x == Pieces(st, pdu)
<1>1. Len(d) \in Nat \ {0} /\ Head(d) = d[1] /\ Last(d) = d[Len(d)]
  BY StreamBytes, HeadIs DEF Last
<1>2. First(d) \in Nat /\ Final(d) \in Nat /\ First(d) <= Final(d) /\ m \in Nat \ {0}
  <2>1. 1 \in 1 .. Len(d) /\ Len(d) \in 1 .. Len(d) BY <1>1
  <2>2. First(d) \in Nat /\ Final(d) \in Nat BY <2>1, StreamBytes DEF First, Final
  <2>3. First(d) <= Final(d)
    <3>1. Len(d) \in 1 .. Len(d) BY <1>1
    <3>2. QED BY <2>1, <2>2, <3>1, StreamOrder DEF First, Final
  <2>4. QED BY <2>2, <2>3
<1>3. \A i \in First(d) .. Final(d) :
         /\ i \in Nat /\ i \in 1 .. Len(SduLen) /\ SduLen[i] \in Nat \ {0}
         /\ FromByte(d, i) \in 1 .. SduLen[i] /\ ToByte(d, i) \in 1 .. SduLen[i]
         /\ FromByte(d, i) <= ToByte(d, i)
         /\ Piece(i, FromByte(d, i), ToByte(d, i)) \in Seq(Byte)
  <2> SUFFICES ASSUME NEW i \in First(d) .. Final(d)
               PROVE  /\ i \in Nat /\ i \in 1 .. Len(SduLen) /\ SduLen[i] \in Nat \ {0}
                      /\ FromByte(d, i) \in 1 .. SduLen[i] /\ ToByte(d, i) \in 1 .. SduLen[i]
                      /\ FromByte(d, i) <= ToByte(d, i)
                      /\ Piece(i, FromByte(d, i), ToByte(d, i)) \in Seq(Byte)
    OBVIOUS
  <2> HIDE DEF d
  <2>1. /\ i \in Nat /\ i \in 1 .. Len(SduLen) /\ SduLen[i] \in Nat \ {0}
        /\ FromByte(d, i) \in 1 .. SduLen[i] /\ ToByte(d, i) \in 1 .. SduLen[i]
        /\ FromByte(d, i) <= ToByte(d, i)
    BY <1>2, FieldEnds DEF d
  <2>2. Piece(i, FromByte(d, i), ToByte(d, i)) \in Seq(Byte)
    <3>1. /\ FromByte(d, i) \in Nat \ {0} /\ ToByte(d, i) \in Nat
          /\ FromByte(d, i) <= ToByte(d, i) + 1 /\ ToByte(d, i) <= SduLen[i]
      BY <2>1
    <3>2. QED BY <2>1, <3>1, PieceIs
  <2>3. QED BY <2>1, <2>2
<1>4. \A j \in 1 .. m : f[j] = Piece(First(d) + j - 1, FromByte(d, First(d) + j - 1),
                                     ToByte(d, First(d) + j - 1))
  <2> SUFFICES ASSUME NEW j \in 1 .. m
               PROVE  f[j] = Piece(First(d) + j - 1, FromByte(d, First(d) + j - 1),
                                   ToByte(d, First(d) + j - 1))
    OBVIOUS
  <2>1. First(d) + j - 1 \in First(d) .. Final(d) /\ (First(d) + j - 1) - First(d) + 1 = j
    BY <1>2
  <2> DEFINE i == First(d) + j - 1
  <2>2. i \in First(d) .. Final(d) /\ i - First(d) + 1 = j BY <2>1
  <2> HIDE DEF i
  <2>3. f[i - First(d) + 1] = Piece(i, FromByte(d, i), ToByte(d, i)) BY <2>2, FieldIs
  <2>4. QED BY <2>2, <2>3 DEF i
<1>5. f \in Seq(Seq(Byte)) /\ Len(f) = m
  <2>1. \A j \in 1 .. m : First(d) + j - 1 \in First(d) .. Final(d) BY <1>2
  <2>2. \A j \in 1 .. m : f[j] \in Seq(Byte) BY <1>3, <1>4, <2>1
  <2>3. DOMAIN f = 1 .. m BY <1>1 DEF Fields, First, Final
  <2>4. f = [j \in 1 .. m |-> f[j]] BY <1>1 DEF Fields, First, Final
  <2>5. f \in [1 .. m -> Seq(Byte)] BY <2>2, <2>3, <2>4
  <2>6. QED BY <1>2, <2>5, FunctionIsSequence
<1>6. \A i \in First(d) .. Final(d) : i # First(d) => FromByte(d, i) = 1 BY DEF FromByte
<1>7. FromByte(d, First(d)) = d[1][2] /\ First(d) \in First(d) .. Final(d) BY <1>2 DEF FromByte
<1>8. f # <<>> /\ Head(f) = f[1] /\ 1 \in 1 .. m BY <1>2, <1>5, EmptySeq, HeadIs
<1>9. /\ Tail(f) \in Seq(Seq(Byte)) /\ Len(Tail(f)) = m - 1
      /\ \A j \in 1 .. m - 1 : Tail(f)[j] = f[j + 1]
  BY <1>2, <1>5, <1>8, HeadTailProperties
<1>10. CASE d[1][2] = 1
  <2>1. x = f /\ s = First(d) BY <1>1, <1>10 DEF Pieces, FirstOut
  <2>2. \A i \in First(d) .. Final(d) : FromByte(d, i) = 1 BY <1>6, <1>7, <1>10
  <2>3. \A j \in 1 .. m : First(d) + j - 1 \in First(d) .. Final(d) BY <1>2
  <2>4. \A j \in 1 .. m : f[j] = Piece(First(d) + j - 1, 1, ToByte(d, First(d) + j - 1))
    BY <1>4, <2>2, <2>3
  <2>5. QED BY <1>5, <2>1, <2>4
<1>11. CASE d[1][2] # 1 /\ Usable(st, pdu)
  <2> DEFINE b == ToByte(d, First(d))  h == st.keep \o Head(f)
  <2>1. x = <<h>> \o Tail(f) /\ s = First(d) BY <1>1, <1>11 DEF Pieces, FirstOut, Usable
  <2>2. /\ First(d) \in 1 .. Len(SduLen) /\ d[1][2] \in 1 .. SduLen[First(d)]
        /\ b \in Nat /\ d[1][2] <= b /\ b <= SduLen[First(d)] /\ SduLen[First(d)] \in Nat
    BY <1>3, <1>7
  <2>3. h = Piece(First(d), 1, b)
    <3> DEFINE a == d[1][2] - 1
    <3>1. st.keep = Piece(First(d), 1, a) BY <1>11 DEF Fits
    <3>2. f[1] = Piece(First(d), a + 1, b)
      <4>1. First(d) + 1 - 1 = First(d) /\ a + 1 = d[1][2] BY <1>2, <2>2
      <4>2. QED BY <1>4, <1>7, <1>8, <4>1
    <3>3. a \in Nat /\ a <= b BY <2>2
    <3> HIDE DEF a, b
    <3>4. Piece(First(d), 1, a) \o Piece(First(d), a + 1, b) = Piece(First(d), 1, b)
      BY <2>2, <3>3, PiecesJoin
    <3>5. QED BY <1>8, <3>1, <3>2, <3>4
  <2>4. h \in Seq(Byte) BY <2>2, <2>3, FirstPiece
  <2>5. <<h>> \in Seq(Seq(Byte)) /\ Len(<<h>>) = 1 /\ <<h>>[1] = h
    <3> HIDE DEF h
    <3>1. QED BY <2>4
  <2> DEFINE g == <<h>>  r == Tail(f)
  <2>6. /\ g \o r \in Seq(Seq(Byte)) /\ Len(g \o r) = Len(g) + Len(r)
        /\ \A j \in 1 .. Len(g) + Len(r) : (g \o r)[j] = IF j <= Len(g) THEN g[j] ELSE r[j - Len(g)]
    <3> HIDE DEF g, r
    <3>1. g \in Seq(Seq(Byte)) /\ r \in Seq(Seq(Byte)) BY <1>9, <2>5 DEF g, r
    <3>2. QED BY <3>1, ConcatProperties
  <2>7. Len(g) = 1 /\ Len(r) = m - 1 /\ Len(g) + Len(r) = m
    <3>1. Len(g) = 1 /\ Len(r) = m - 1 BY <1>9, <2>5
    <3> HIDE DEF g, r
    <3>2. QED BY <1>2, <3>1
  <2>8. ASSUME NEW j \in 1 .. m
        PROVE  x[j] = Piece(s + j - 1, 1, ToByte(d, s + j - 1))
    <3>1. x[j] = IF j <= 1 THEN g[j] ELSE r[j - 1] BY <2>1, <2>6, <2>7
    <3>2. CASE j = 1
      <4>1. s + j - 1 = First(d) BY <1>2, <2>1, <3>2
      <4>2. x[j] = h
        <5>1. g[j] = h BY <2>5, <3>2
        <5> HIDE DEF g, r, h, x
        <5>2. x[j] = g[j] BY <3>1, <3>2
        <5>3. QED BY <5>1, <5>2
      <4>3. QED BY <2>3, <4>1, <4>2
    <3>3. CASE j # 1
      <4>1. j - 1 \in 1 .. m - 1 /\ (j - 1) + 1 = j /\ ~ (j <= 1) BY <1>2, <3>3
      <4>2. r[j - 1] = f[j] BY <1>9, <4>1
      <4>3. First(d) + j - 1 \in First(d) .. Final(d) /\ First(d) + j - 1 # First(d) BY <1>2, <3>3
      <4>4. f[j] = Piece(First(d) + j - 1, 1, ToByte(d, First(d) + j - 1)) BY <1>4, <1>6, <4>3
      <4>5. x[j] = f[j] BY <3>1, <4>1, <4>2
      <4>6. QED BY <2>1, <4>4, <4>5
    <3>4. QED BY <3>2, <3>3
  <2>9. x \in Seq(Seq(Byte)) /\ Len(x) = m BY <2>1, <2>6, <2>7
  <2>10. QED BY <2>1, <2>8, <2>9
<1>12. CASE d[1][2] # 1 /\ ~ Usable(st, pdu)
  <2>1. x = Tail(f) /\ s = First(d) + 1 BY <1>1, <1>12 DEF Pieces, FirstOut, Usable
  <2>2. Final(d) - s + 1 = m - 1 BY <1>2, <2>1
  <2>3. ASSUME NEW j \in 1 .. m - 1
        PROVE  x[j] = Piece(s + j - 1, 1, ToByte(d, s + j - 1))
    <3>1. /\ j + 1 \in 1 .. m /\ First(d) + (j + 1) - 1 = s + j - 1
          /\ s + j - 1 \in First(d) .. Final(d) /\ s + j - 1 # First(d)
      BY <1>2, <2>1, SMTT(30)
    <3>2. x[j] = f[j + 1] BY <1>9, <2>1
    <3>3. f[j + 1] = Piece(s + j - 1, 1, ToByte(d, s + j - 1)) BY <1>4, <1>6, <3>1
    <3>4. QED BY <3>2, <3>3
  <2>4. x \in Seq(Seq(Byte)) /\ Len(x) = m - 1 BY <1>9, <2>1
  <2>5. QED BY <2>2, <2>3, <2>4
<1>13. QED BY <1>10, <1>11, <1>12

\* What reassembly of one PDU gives: the SDUs it completes come out whole, and the
\* beginning of the last one is held back when its end is in a later PDU.
LEMMA ReassembleIs ==
  ASSUME SduLens, NEW st, NEW pdu, IsStream(pdu.data), pdu.data # <<>>, Fits(st, pdu)
  PROVE  LET d == pdu.data
             s == FirstOut(st, pdu)
             e == LastOut(pdu)
             r == Reassemble(st, pdu)
         IN /\ r.expected = Plus(pdu.sn, 1)
            /\ \/ s > e /\ r.out = st.out
               \/ s <= e /\ r.out = st.out \o Sdus(s, e)
            /\ \/ (s > Final(d) \/ Complete(d)) /\ r.keep = <<>>
               \/ /\ s <= Final(d) /\ ~ Complete(d)
                  /\ r.keep = Piece(Final(d), 1, d[Len(d)][2])
<1> DEFINE d == pdu.data  s == FirstOut(st, pdu)  e == LastOut(pdu)
           r == Reassemble(st, pdu)  x == Pieces(st, pdu)  z == Final(d)
<1>1. Len(d) \in Nat \ {0} /\ Last(d) = d[Len(d)] BY StreamBytes, HeadIs DEF Last
<1>2. z \in First(d) .. z /\ First(d) \in 1 .. Len(SduLen) /\ First(d) \in Nat
      /\ z \in 1 .. Len(SduLen) /\ z \in Nat
  <2>1. 1 \in 1 .. Len(d) /\ Len(d) \in 1 .. Len(d) BY <1>1
  <2>2. /\ First(d) \in 1 .. Len(SduLen) /\ First(d) \in Nat
        /\ z \in 1 .. Len(SduLen) /\ z \in Nat
    BY <2>1, StreamBytes DEF First, Final
  <2>3. First(d) <= z
    <3>1. Len(d) \in 1 .. Len(d) BY <1>1
    <3>2. QED BY <2>1, <2>2, <3>1, StreamOrder DEF First, Final
  <2>4. QED BY <2>2, <2>3
<1>3. s \in Nat /\ s \in First(d) .. z + 1 BY <1>2 DEF FirstOut
<1>4. e = z \/ e = z - 1 BY DEF LastOut
<1>5. /\ x \in Seq(Seq(Byte)) /\ Len(x) = z - s + 1
      /\ \A j \in 1 .. z - s + 1 : x[j] = Piece(s + j - 1, 1, ToByte(d, s + j - 1))
  BY PiecesAre
<1>6. \A i \in 1 .. Len(SduLen) : Piece(i, 1, SduLen[i]) = Sdu(i) BY WholePiece
<1>7. ToByte(d, z) = d[Len(d)][2] /\ \A i \in First(d) .. z : i # z => ToByte(d, i) = SduLen[i]
  BY DEF ToByte
<1>8. Len(SduLen) \in Nat BY LenProperties DEF SduLens
<1>9. \A j \in 1 .. z - s + 1 : s + j - 1 \in First(d) .. z /\ s + j - 1 \in 1 .. Len(SduLen)
  BY <1>2, <1>3, <1>8
<1>10. \A j \in 1 .. e - s + 1 : j \in 1 .. z - s + 1 /\ x[j] = Sdu(s + j - 1)
  <2> SUFFICES ASSUME NEW j \in 1 .. e - s + 1
               PROVE  j \in 1 .. z - s + 1 /\ x[j] = Sdu(s + j - 1)
    OBVIOUS
  <2>0. e \in Int BY <1>2, <1>4
  <2>1. j \in 1 .. z - s + 1 BY <1>2, <1>3, <1>4, <2>0
  <2> DEFINE i == s + j - 1
  <2>2. i \in First(d) .. z /\ i \in 1 .. Len(SduLen) BY <1>9, <2>1
  <2>3. ToByte(d, i) = SduLen[i]
    <3>1. CASE Complete(d)
      BY <1>7, <2>2, <3>1 DEF Complete
    <3>2. CASE ~ Complete(d)
      <4>1. e = z - 1 BY <3>2 DEF LastOut
      <4>2. i # z
        <5> HIDE DEF z, s
        <5>1. QED BY <1>2, <1>3, <4>1
      <4>3. QED BY <1>7, <2>2, <4>2
    <3>3. QED BY <3>1, <3>2
  <2>4. x[j] = Piece(i, 1, ToByte(d, i)) BY <1>5, <2>1
  <2>5. x[j] = Sdu(i)
    <3> HIDE DEF i, x
    <3>1. QED BY <1>6, <2>2, <2>3, <2>4
  <2>6. QED BY <2>1, <2>5
<1>11. x = <<>> <=> s = z + 1
  <2>1. x = <<>> => Len(x) = 0 BY <1>5, EmptySeq
  <2>2. x # <<>> => Len(x) # 0 BY <1>5, EmptySeq
  <2>3. Len(x) = 0 <=> s = z + 1
    <3> HIDE DEF z, s, x
    <3>1. QED BY <1>2, <1>3, <1>5
  <2>4. QED BY <2>1, <2>2, <2>3
<1>12. /\ r.expected = Plus(pdu.sn, 1)
       /\ r.keep = IF ~ Complete(d) /\ x # <<>> THEN Last(x) ELSE <<>>
       /\ r.out = st.out \o (IF ~ Complete(d) /\ x # <<>> THEN Front(x) ELSE x)
  BY <1>1 DEF Reassemble, Pieces, Complete, Final
<1>13. st.out \in Seq(Seq(Byte)) BY DEF Fits
<1>14. s \in 1 .. Len(SduLen) \/ s > z BY <1>2, <1>3, <1>8
<1>15. CASE s = z + 1
  <2>1. r.out = st.out \o <<>> /\ r.keep = <<>> /\ r.expected = Plus(pdu.sn, 1)
    <3> HIDE DEF r, x, d, s, z
    <3>1. x = <<>> BY <1>11, <1>15
    <3>2. ~ (~ Complete(d) /\ x # <<>>) BY <3>1
    <3>3. QED BY <1>12, <3>1, <3>2
  <2>2. r.out = st.out BY <1>13, <2>1, ConcatEmptySeq
  <2>3. s > e /\ s > z BY <1>2, <1>3, <1>4, <1>15
  <2>4. QED BY <2>1, <2>2, <2>3
<1>16. CASE s # z + 1 /\ Complete(d)
  <2>1. r.out = st.out \o x /\ r.keep = <<>> /\ r.expected = Plus(pdu.sn, 1)
    BY <1>12, <1>16
  <2>2. e = z /\ s <= e BY <1>2, <1>3, <1>16 DEF LastOut
  <2>3. s \in 1 .. Len(SduLen) /\ e \in 1 .. Len(SduLen) /\ s <= e + 1
    BY <1>2, <1>3, <1>8, <2>2
  <2>4. /\ Sdus(s, e) \in Seq(Seq(Byte)) /\ Len(Sdus(s, e)) = e - s + 1
        /\ \A j \in 1 .. e - s + 1 : Sdus(s, e)[j] = Sdu(s + j - 1)
    <3> HIDE DEF s, e
    <3>1. QED BY <2>3, SdusAre
  <2>5. x = Sdus(s, e)
    <3> HIDE DEF x, s, e, z, d
    <3>1. Len(x) = Len(Sdus(s, e)) BY <1>5, <2>2, <2>4
    <3>2. ASSUME NEW j \in 1 .. Len(x) PROVE x[j] = Sdus(s, e)[j]
      <4>1. j \in 1 .. e - s + 1 BY <1>5, <2>2
      <4>2. QED BY <1>10, <2>4, <4>1
    <3>3. QED BY <1>5, <2>4, <3>1, <3>2, SeqEqual
  <2>6. QED BY <1>16, <2>1, <2>2, <2>5
<1>17. CASE s # z + 1 /\ ~ Complete(d)
  <2>1. r.out = st.out \o Front(x) /\ r.keep = Last(x) /\ r.expected = Plus(pdu.sn, 1)
    <3> HIDE DEF r, x, d, s, z
    <3>1. ~ Complete(d) /\ x # <<>> BY <1>11, <1>17
    <3>2. QED BY <1>12, <3>1
  <2>2. e = z - 1 /\ s <= z BY <1>2, <1>3, <1>17 DEF LastOut
  <2>3. Last(x) = Piece(z, 1, d[Len(d)][2])
    <3>1. Last(x) = x[z - s + 1] BY <1>5 DEF Last
    <3>2. z - s + 1 \in 1 .. z - s + 1 /\ s + (z - s + 1) - 1 = z
      <4> HIDE DEF z, s
      <4>1. QED BY <1>2, <1>3, <2>2
    <3>3. x[z - s + 1] = Piece(s + (z - s + 1) - 1, 1, ToByte(d, s + (z - s + 1) - 1))
      BY <1>5, <3>2
    <3>4. QED BY <1>7, <3>1, <3>2, <3>3
  <2>4. /\ Front(x) \in Seq(Seq(Byte)) /\ Len(Front(x)) = z - s
        /\ \A j \in 1 .. z - s : Front(x)[j] = x[j]
    <3> HIDE DEF x, z, s
    <3>1. \A i \in 1 .. Len(x) - 1 : x[i] \in Seq(Byte)
      <4>1. \A i \in 1 .. Len(x) : x[i] \in Seq(Byte) BY <1>5, ElementOfSeq
      <4>2. Len(x) \in Nat BY <1>5, LenProperties
      <4>3. QED BY <4>1, <4>2
    <3>2. Len(x) - 1 = z - s /\ 1 \in Int /\ z - s \in Nat BY <1>2, <1>3, <1>5, <2>2
    <3>3. Front(x) = SubSeq(x, 1, z - s) BY <3>2 DEF Front
    <3>4. \A i \in 1 .. z - s : x[i] \in Seq(Byte) BY <3>1, <3>2
    <3>5. /\ SubSeq(x, 1, z - s) \in Seq(Seq(Byte))
          /\ Len(SubSeq(x, 1, z - s)) = IF 1 <= z - s THEN (z - s) - 1 + 1 ELSE 0
          /\ \A j \in 1 .. (z - s) - 1 + 1 : SubSeq(x, 1, z - s)[j] = x[1 + j - 1]
      BY <3>2, <3>4, SubSeqProperties
    <3>6. Len(SubSeq(x, 1, z - s)) = z - s BY <3>2, <3>5
    <3>7. ASSUME NEW j \in 1 .. z - s PROVE SubSeq(x, 1, z - s)[j] = x[j]
      <4>1. j \in 1 .. (z - s) - 1 + 1 /\ 1 + j - 1 = j BY <3>2
      <4>2. QED BY <3>5, <4>1
    <3>8. QED BY <3>3, <3>5, <3>6, <3>7
  <2>5. CASE s > e
    <3>1. z = s BY <1>2, <1>3, <2>2, <2>5
    <3>2. Len(Front(x)) = 0 BY <1>2, <2>4, <3>1
    <3>3. Front(x) = <<>> BY <2>4, <3>2, EmptySeq
    <3>4. r.out = st.out BY <1>13, <2>1, <3>3, ConcatEmptySeq
    <3>5. QED BY <1>17, <2>1, <2>2, <2>3, <2>5, <3>4
  <2>6. CASE s <= e
    <3>1. s \in 1 .. Len(SduLen) /\ e \in 1 .. Len(SduLen) /\ s <= e + 1
      BY <1>2, <1>3, <1>8, <2>2, <2>6
    <3>2. /\ Sdus(s, e) \in Seq(Seq(Byte)) /\ Len(Sdus(s, e)) = e - s + 1
          /\ \A j \in 1 .. e - s + 1 : Sdus(s, e)[j] = Sdu(s + j - 1)
      <4> HIDE DEF s, e
      <4>1. QED BY <3>1, SdusAre
    <3>3. Front(x) = Sdus(s, e)
      <4> DEFINE y == Front(x)
      <4>1. e - s + 1 = z - s BY <1>2, <1>3, <2>2
      <4> HIDE DEF x, y, s, e, z, d
      <4>2. y \in Seq(Seq(Byte)) /\ Len(y) = Len(Sdus(s, e)) BY <2>4, <3>2, <4>1 DEF y
      <4>3. ASSUME NEW j \in 1 .. Len(y) PROVE y[j] = Sdus(s, e)[j]
        <5>1. j \in 1 .. z - s /\ j \in 1 .. e - s + 1 BY <2>4, <4>1 DEF y
        <5>2. y[j] = x[j] BY <2>4, <5>1 DEF y
        <5>3. x[j] = Sdu(s + j - 1) BY <1>10, <5>1
        <5>4. QED BY <3>2, <5>1, <5>2, <5>3
      <4>4. y = Sdus(s, e) BY <3>2, <4>2, <4>3, SeqEqual
      <4>5. QED BY <4>4 DEF y
    <3>4. QED BY <1>17, <2>1, <2>2, <2>3, <2>6, <3>3
  <2>7. s > e \/ s <= e BY <1>2, <1>3, <2>2
  <2>8. QED BY <2>5, <2>6, <2>7
<1>18. QED BY <1>15, <1>16, <1>17

-----------------------------------------------------------------------------
(* Streams are cut and continued.                                          *)

\* A stream that is cut gives two streams, the second of which follows the first.
LEMMA StreamCut ==
  ASSUME SduLens, NEW d, IsStream(d), NEW k \in 1 .. Len(d)
  PROVE  LET a == SubSeq(d, 1, k)
             b == SubSeq(d, k + 1, Len(d))
         IN /\ IsStream(a) /\ a # <<>> /\ a[1] = d[1] /\ a[Len(a)] = d[k]
            /\ IsStream(b)
            /\ b # <<>> => b[1] = After(a[Len(a)]) /\ b[Len(b)] = d[Len(d)]
            /\ b = <<>> => k = Len(d)
            /\ ToSet(d) = ToSet(a) \cup ToSet(b)
<1> DEFINE a == SubSeq(d, 1, k)  b == SubSeq(d, k + 1, Len(d))  n == Len(d)
<1>1. n \in Nat /\ k \in Nat /\ d \in Seq(Byte) /\ DOMAIN d = 1 .. n /\ k <= n /\ 1 <= k
  BY StreamBytes
<1>2. \A i \in 1 .. n : d[i] \in Byte BY StreamBytes
<1>3. \A i \in 1 .. n - 1 : d[i + 1] = After(d[i]) BY DEF IsStream
<1>4. a \in Seq(Byte) /\ Len(a) = k /\ \A i \in 1 .. k : a[i] = d[i]
  <2>1. \A i \in 1 .. k : d[i] \in Byte BY <1>1, <1>2
  <2>2. /\ a \in Seq(Byte) /\ Len(a) = IF 1 <= k THEN k - 1 + 1 ELSE 0
        /\ \A i \in 1 .. k - 1 + 1 : a[i] = d[1 + i - 1]
    BY <1>1, <2>1, SubSeqProperties
  <2>3. ASSUME NEW i \in 1 .. k PROVE a[i] = d[i]
    <3>1. i \in 1 .. k - 1 + 1 /\ 1 + i - 1 = i BY <1>1
    <3>2. QED BY <2>2, <3>1
  <2>4. Len(a) = k
    <3> HIDE DEF a
    <3>1. QED BY <1>1, <2>2
  <2>5. QED BY <2>2, <2>3, <2>4
<1>5. b \in Seq(Byte) /\ Len(b) = n - k /\ \A i \in 1 .. n - k : b[i] = d[k + i]
  <2>1. \A i \in k + 1 .. n : d[i] \in Byte BY <1>1, <1>2
  <2>2. /\ b \in Seq(Byte) /\ Len(b) = IF k + 1 <= n THEN n - (k + 1) + 1 ELSE 0
        /\ \A i \in 1 .. n - (k + 1) + 1 : b[i] = d[(k + 1) + i - 1]
    <3>1. k + 1 \in Int /\ n \in Int BY <1>1
    <3>2. QED BY <2>1, <3>1, SubSeqProperties
  <2>3. ASSUME NEW i \in 1 .. n - k PROVE b[i] = d[k + i]
    <3>1. i \in 1 .. n - (k + 1) + 1 /\ (k + 1) + i - 1 = k + i BY <1>1
    <3>2. QED BY <2>2, <3>1
  <2>4. Len(b) = n - k
    <3> HIDE DEF b, n
    <3>1. k + 1 <= n \/ k = n BY <1>1
    <3>2. n - (k + 1) + 1 = n - k BY <1>1
    <3>3. QED BY <1>1, <2>2, <3>1, <3>2
  <2>5. QED BY <2>2, <2>3, <2>4
<1> HIDE DEF a, b
<1>6. IsStream(a) /\ a # <<>> /\ a[1] = d[1] /\ a[Len(a)] = d[k]
  <2>1. \A i \in 1 .. k - 1 : i \in 1 .. k /\ i + 1 \in 1 .. k /\ i \in 1 .. n - 1 BY <1>1
  <2>2. \A i \in 1 .. k - 1 : a[i + 1] = After(a[i]) BY <1>3, <1>4, <2>1
  <2>3. a # <<>> BY <1>1, <1>4, EmptySeq
  <2>4. 1 \in 1 .. k /\ k \in 1 .. k BY <1>1
  <2>5. QED BY <1>4, <2>2, <2>3, <2>4 DEF IsStream
<1>7. IsStream(b)
  <2>1. \A i \in 1 .. n - k - 1 : /\ i \in 1 .. n - k /\ i + 1 \in 1 .. n - k
                                  /\ k + i \in 1 .. n - 1 /\ k + (i + 1) = (k + i) + 1
    BY <1>1
  <2>2. \A i \in 1 .. n - k - 1 : b[i + 1] = After(b[i]) BY <1>3, <1>5, <2>1
  <2>3. QED BY <1>5, <2>2 DEF IsStream
<1>8. ASSUME b # <<>> PROVE b[1] = After(a[Len(a)]) /\ b[Len(b)] = d[n]
  <2>1. n - k \in Nat \ {0} BY <1>5, <1>8, EmptySeq
  <2>2. 1 \in 1 .. n - k /\ n - k \in 1 .. n - k /\ k + (n - k) = n /\ k \in 1 .. n - 1
    <3> HIDE DEF n
    <3>1. QED BY <1>1, <2>1
  <2>3. b[1] = d[k + 1] /\ b[n - k] = d[n] BY <1>5, <2>2
  <2>4. d[k + 1] = After(d[k]) BY <1>3, <2>2
  <2>5. QED BY <1>5, <1>6, <2>3, <2>4
<1>9. b = <<>> => k = n
  <2>1. b = <<>> => Len(b) = 0 BY EmptySeq
  <2> HIDE DEF n
  <2>2. QED BY <1>1, <1>5, <2>1
<1>10. ToSet(d) = ToSet(a) \cup ToSet(b)
  <2>1. DOMAIN a = 1 .. k /\ DOMAIN b = 1 .. n - k BY <1>4, <1>5, LenProperties
  <2>2. ToSet(d) = {d[i] : i \in 1 .. n} BY <1>1 DEF ToSet
  <2>3. ToSet(a) = {d[i] : i \in 1 .. k} BY <1>4, <2>1 DEF ToSet
  <2>4. ToSet(b) = {d[i] : i \in k + 1 .. n}
    <3>1. ToSet(b) = {d[k + i] : i \in 1 .. n - k} BY <1>5, <2>1 DEF ToSet
    <3>2. \A i \in 1 .. n - k : k + i \in k + 1 .. n BY <1>1
    <3>3. \A i \in k + 1 .. n : i - k \in 1 .. n - k /\ k + (i - k) = i BY <1>1
    <3>4. QED BY <3>1, <3>2, <3>3
  <2>5. 1 .. n = (1 .. k) \cup (k + 1 .. n) BY <1>1
  <2>6. QED BY <2>2, <2>3, <2>4, <2>5
<1>11. QED BY <1>6, <1>7, <1>8, <1>9, <1>10 DEF a, b

\* An SDU is a stream.
LEMMA SduStream ==
  ASSUME SduLens, NEW i \in 1 .. Len(SduLen)
  PROVE  /\ IsStream(Sdu(i)) /\ Sdu(i) # <<>> /\ Len(Sdu(i)) = SduLen[i]
         /\ Sdu(i)[1] = <<i, 1>> /\ Sdu(i)[SduLen[i]] = <<i, SduLen[i]>>
         /\ \A k \in 1 .. SduLen[i] : Sdu(i)[k] = <<i, k>>
         /\ After(<<i, SduLen[i]>>) = <<i + 1, 1>>
         /\ SduLen[i] \in Nat \ {0}
<1>1. SduLen[i] \in Nat \ {0} BY ElementOfSeq DEF SduLens
<1>2. /\ Sdu(i) \in Seq(Byte) /\ Len(Sdu(i)) = SduLen[i]
      /\ \A k \in 1 .. SduLen[i] : Sdu(i)[k] = <<i, k>>
  BY <1>1, WholePiece, FirstPiece
<1>3. \A k \in 1 .. SduLen[i] - 1 : Sdu(i)[k + 1] = After(Sdu(i)[k])
  <2> SUFFICES ASSUME NEW k \in 1 .. SduLen[i] - 1 PROVE Sdu(i)[k + 1] = After(Sdu(i)[k]) OBVIOUS
  <2>1. k \in 1 .. SduLen[i] /\ k + 1 \in 1 .. SduLen[i] /\ k < SduLen[i] BY <1>1
  <2>2. Sdu(i)[k] = <<i, k>> /\ Sdu(i)[k + 1] = <<i, k + 1>> BY <1>2, <2>1
  <2>3. After(<<i, k>>) = <<i, k + 1>> BY <2>1 DEF After
  <2>4. QED BY <2>2, <2>3
<1>4. IsStream(Sdu(i)) BY <1>2, <1>3 DEF IsStream
<1>5. Sdu(i) # <<>> BY <1>1, <1>2, EmptySeq
<1>6. 1 \in 1 .. SduLen[i] /\ SduLen[i] \in 1 .. SduLen[i] BY <1>1
<1>7. After(<<i, SduLen[i]>>) = <<i + 1, 1>> BY <1>1 DEF After
<1>8. QED BY <1>1, <1>2, <1>4, <1>5, <1>6, <1>7

\* The next SDU continues a stream.
LEMMA StreamGoesOn ==
  ASSUME SduLens, NEW d, IsStream(d), NEW i \in 1 .. Len(SduLen),
         d # <<>> => After(d[Len(d)]) = <<i, 1>>
  PROVE  LET w == d \o Sdu(i)
         IN /\ IsStream(w) /\ w # <<>>
            /\ w[1] = IF d = <<>> THEN <<i, 1>> ELSE d[1]
            /\ After(w[Len(w)]) = <<i + 1, 1>>
            /\ ToSet(w) = ToSet(d) \cup ToSet(Sdu(i))
            /\ \A k \in 1 .. Len(w) : w[k] \in ToSet(d) \/ w[k][1] = i
<1> DEFINE e == Sdu(i)  w == d \o e  n == Len(d)  l == SduLen[i]
<1>1. /\ e \in Seq(Byte) /\ Len(e) = l /\ e[1] = <<i, 1>> /\ e[l] = <<i, l>> /\ l \in Nat \ {0}
      /\ \A k \in 1 .. l : e[k] = <<i, k>>
      /\ \A k \in 1 .. l - 1 : e[k + 1] = After(e[k])
      /\ After(<<i, l>>) = <<i + 1, 1>>
  <2>1. IsStream(e) /\ Len(e) = l BY SduStream
  <2>2. e \in Seq(Byte) /\ \A k \in 1 .. l - 1 : e[k + 1] = After(e[k]) BY <2>1 DEF IsStream
  <2>3. QED BY <2>1, <2>2, SduStream
<1>2. n \in Nat /\ d \in Seq(Byte) /\ DOMAIN d = 1 .. n /\ \A k \in 1 .. n - 1 : d[k + 1] = After(d[k])
  BY StreamBytes DEF IsStream
<1> HIDE DEF e, l
<1>3. w \in Seq(Byte) /\ Len(w) = n + l
      /\ \A k \in 1 .. n + l : w[k] = IF k <= n THEN d[k] ELSE e[k - n]
  <2>1. /\ w \in Seq(Byte) /\ Len(w) = Len(d) + Len(e)
        /\ \A k \in 1 .. Len(d) + Len(e) : w[k] = IF k <= Len(d) THEN d[k] ELSE e[k - Len(d)]
    BY <1>1, <1>2, ConcatProperties
  <2>2. Len(e) = l BY <1>1
  <2> HIDE DEF w
  <2>3. QED BY <2>1, <2>2
<1> HIDE DEF w
<1>4. \A k \in 1 .. n : k \in 1 .. n + l /\ w[k] = d[k]
  <2>1. \A k \in 1 .. n : k \in 1 .. n + l /\ k <= n BY <1>1, <1>2
  <2>2. QED BY <1>3, <2>1
<1>5. \A k \in 1 .. l : n + k \in 1 .. n + l /\ w[n + k] = e[k]
  <2> SUFFICES ASSUME NEW k \in 1 .. l PROVE n + k \in 1 .. n + l /\ w[n + k] = e[k] OBVIOUS
  <2>1. n + k \in 1 .. n + l /\ ~ (n + k <= n) /\ (n + k) - n = k BY <1>1, <1>2
  <2>2. QED BY <1>3, <2>1
<1>6. \A k \in 1 .. n + l : k \in 1 .. n \/ (k - n \in 1 .. l /\ n + (k - n) = k) BY <1>1, <1>2
<1>7. n # 0 => d # <<>> BY EmptySeq
<1>8. ASSUME NEW k \in 1 .. n + l - 1 PROVE w[k + 1] = After(w[k])
  <2>1. CASE k < n
    <3>1. k \in 1 .. n - 1 /\ k \in 1 .. n /\ k + 1 \in 1 .. n BY <1>2, <2>1
    <3>2. QED BY <1>2, <1>4, <3>1
  <2>2. CASE k = n
    <3>1. k \in 1 .. n /\ n \in 1 .. n /\ 1 \in 1 .. l BY <1>1, <1>2, <2>2
    <3>2. n # 0 BY <3>1
    <3>3. w[n] = d[n] /\ w[n + 1] = <<i, 1>> BY <1>1, <1>4, <1>5, <3>1
    <3>4. After(d[n]) = <<i, 1>> BY <1>7, <3>2
    <3>5. QED BY <2>2, <3>3, <3>4
  <2>3. CASE k > n
    <3>1. k - n \in 1 .. l - 1 /\ k - n \in 1 .. l /\ (k - n) + 1 \in 1 .. l
          /\ n + (k - n) = k /\ n + ((k - n) + 1) = k + 1
      BY <1>1, <1>2, <2>3
    <3>2. w[k] = e[k - n] BY <1>5, <3>1
    <3>3. w[k + 1] = e[(k - n) + 1] BY <1>5, <3>1
    <3>4. QED BY <1>1, <3>1, <3>2, <3>3
  <2>4. k \in Nat /\ (k < n \/ k = n \/ k > n)
    <3> HIDE DEF n
    <3>1. QED BY <1>1, <1>2
  <2>5. QED BY <2>1, <2>2, <2>3, <2>4
<1>9. IsStream(w)
  <2>1. Len(w) = n + l /\ n \in Nat /\ l \in Nat BY <1>1, <1>2, <1>3
  <2> HIDE DEF n
  <2>2. \A k \in 1 .. n + l - 1 : w[k + 1] = After(w[k]) BY <1>8
  <2>3. ASSUME NEW k \in 1 .. Len(w) - 1 PROVE w[k + 1] = After(w[k])
    <3>1. k \in 1 .. n + l - 1 BY <2>1
    <3>2. QED BY <2>2, <3>1
  <2>4. QED BY <1>3, <2>3 DEF IsStream
<1>10. w # <<>>
  <2>1. n + l # 0 BY <1>1, <1>2
  <2>2. QED BY <1>3, <2>1, EmptySeq
<1>11. w[1] = IF d = <<>> THEN <<i, 1>> ELSE d[1]
  <2>1. CASE d = <<>>
    <3>1. n = 0 BY <2>1, EmptySeq
    <3>2. 1 \in 1 .. l /\ n + 1 = 1 BY <1>1, <3>1
    <3>3. QED BY <1>1, <1>5, <2>1, <3>2
  <2>2. CASE d # <<>>
    <3>1. n # 0 BY <1>2, <2>2, EmptySeq
    <3>2. 1 \in 1 .. n BY <1>2, <3>1
    <3>3. QED BY <1>4, <2>2, <3>2
  <2>3. QED BY <2>1, <2>2
<1>12. After(w[Len(w)]) = <<i + 1, 1>>
  <2>1. l \in 1 .. l BY <1>1
  <2>2. w[n + l] = <<i, l>> BY <1>1, <1>5, <2>1
  <2>3. QED BY <1>1, <1>3, <2>2
<1>13. ToSet(w) = ToSet(d) \cup ToSet(e)
  <2>1. DOMAIN w = 1 .. n + l /\ DOMAIN e = 1 .. l BY <1>1, <1>3, LenProperties
  <2>2. ToSet(w) = {w[k] : k \in 1 .. n + l} BY <2>1 DEF ToSet
  <2>3. ToSet(d) = {w[k] : k \in 1 .. n} BY <1>2, <1>4 DEF ToSet
  <2>4. ToSet(e) = {w[n + k] : k \in 1 .. l} BY <1>5, <2>1 DEF ToSet
  <2>5. QED BY <1>4, <1>5, <1>6, <2>2, <2>3, <2>4
<1>14. \A k \in 1 .. Len(w) : w[k] \in ToSet(d) \/ w[k][1] = i
  <2> SUFFICES ASSUME NEW k \in 1 .. n + l PROVE w[k] \in ToSet(d) \/ w[k][1] = i BY <1>3
  <2>1. CASE k \in 1 .. n BY <1>2, <1>4, <2>1 DEF ToSet
  <2>2. CASE k - n \in 1 .. l /\ n + (k - n) = k
    <3>1. w[k] = <<i, k - n>> BY <1>1, <1>5, <2>2
    <3>2. QED BY <3>1
  <2>3. QED BY <1>6, <2>1, <2>2
<1>15. QED BY <1>9, <1>10, <1>11, <1>12, <1>13, <1>14 DEF w, e

-----------------------------------------------------------------------------
(* Reassembly of PDUs that follow each other.                              *)

\* The SDUs before x came out whole and in order, and what comes before x of its
\* own SDU is held back.
AtPlace(st, x) ==
  /\ st.out \in Seq(Seq(Byte)) /\ st.keep \in Seq(Byte)
  /\ x = <<Len(st.out) + 1, Len(st.keep) + 1>>
  /\ \A i \in 1 .. Len(st.out) : st.out[i] = Sdu(i)
  /\ st.keep # <<>> => st.keep = Piece(Len(st.out) + 1, 1, Len(st.keep))

\* The byte b came out, or is held back.
Arrived(st, b) == b[1] <= Len(st.out) \/ b \in ToSet(st.keep)

\* The PDU that begins at the place reached moves it to the end of the PDU.
LEMMA ReassembleInOrder ==
  ASSUME SduLens, NEW st, NEW pdu, IsStream(pdu.data), pdu.data # <<>>,
         AtPlace(st, pdu.data[1]), st.keep # <<>> => st.expected = pdu.sn
  PROVE  LET r == Reassemble(st, pdu)
             d == pdu.data
         IN /\ AtPlace(r, After(d[Len(d)])) /\ r.expected = Plus(pdu.sn, 1)
            /\ Len(st.out) <= Len(r.out) /\ Len(r.out) <= d[Len(d)][1]
            /\ \A b \in ToSet(d) : Arrived(r, b)
            /\ \A b \in Byte : Arrived(st, b) => Arrived(r, b)
<1> DEFINE r == Reassemble(st, pdu)  d == pdu.data  n == Len(d)
           o == Len(st.out)  h == Len(st.keep)  z == Final(d)  y == d[n][2]
           s == FirstOut(st, pdu)  e == LastOut(pdu)
<1>1. n \in Nat \ {0} /\ 1 \in 1 .. n /\ n \in 1 .. n BY StreamBytes, HeadIs
<1>2. o \in Nat /\ h \in Nat /\ d[1] = <<o + 1, h + 1>> BY LenProperties DEF AtPlace
<1>3. First(d) = o + 1 /\ d[1][2] = h + 1 BY <1>2 DEF First
<1>4. /\ z \in Nat /\ z \in 1 .. Len(SduLen) /\ o + 1 \in 1 .. Len(SduLen)
      /\ y \in 1 .. SduLen[z] /\ y \in Nat /\ SduLen[z] \in Nat \ {0}
      /\ d[n] = <<z, y>> /\ d[n][1] = z
  BY <1>1, <1>3, StreamBytes DEF Final, First
<1>5. o + 1 < z \/ (o + 1 = z /\ y = h + 1 + (n - 1))
  <2>1. n \in 1 .. n BY <1>1
  <2>2. d[1][1] < d[n][1] \/ (d[1][1] = d[n][1] /\ d[n][2] = d[1][2] + (n - 1))
    BY <1>1, <2>1, StreamOrder
  <2>3. d[1][1] = o + 1 BY <1>3 DEF First
  <2>4. QED BY <1>3, <1>4, <2>2, <2>3
<1>6. h # 0 => st.keep # <<>> BY EmptySeq DEF AtPlace
<1>7. Fits(st, pdu)
  <2>1. ASSUME d[1][2] # 1 PROVE st.keep = Piece(First(d), 1, d[1][2] - 1)
    <3>1. h # 0 /\ d[1][2] - 1 = h BY <1>2, <1>3, <2>1
    <3>2. QED BY <1>3, <1>6, <3>1 DEF AtPlace
  <2>2. QED BY <2>1 DEF Fits, AtPlace
<1>8. s = o + 1
  <2>1. d[1][2] = 1 \/ Usable(st, pdu)
    <3>1. CASE h = 0 BY <1>3, <3>1
    <3>2. CASE h # 0 BY <1>6, <3>2 DEF Usable
    <3>3. QED BY <3>1, <3>2
  <2>2. QED BY <1>3, <2>1 DEF FirstOut
<1>9. /\ r.expected = Plus(pdu.sn, 1)
      /\ \/ s > e /\ r.out = st.out
         \/ s <= e /\ r.out = st.out \o Sdus(s, e)
      /\ \/ (s > z \/ Complete(d)) /\ r.keep = <<>>
         \/ s <= z /\ ~ Complete(d) /\ r.keep = Piece(z, 1, y)
  BY <1>7, ReassembleIs
<1>10. (Complete(d) => e = z /\ y = SduLen[z]) /\ (~ Complete(d) => e = z - 1 /\ y # SduLen[z])
  BY DEF LastOut, Complete, Final
<1> HIDE DEF r, z, y, s, e, o, h, n
<1>11. s <= z /\ ~ (s > z) /\ o + 1 <= z
  <2>1. o + 1 <= z BY <1>2, <1>4, <1>5
  <2>2. QED BY <1>2, <1>4, <1>8, <2>1
<1>12. /\ r.out \in Seq(Seq(Byte)) /\ Len(r.out) = e /\ e \in Nat
       /\ o <= e /\ e <= z
       /\ \A i \in 1 .. e : r.out[i] = Sdu(i)
  <2>0. e \in Nat /\ o <= e /\ e <= z /\ (e = z \/ e = z - 1)
    BY <1>2, <1>4, <1>10, <1>11
  <2>1. CASE s > e
    <3>1. e = o BY <1>2, <1>8, <2>0, <2>1
    <3>2. ~ (s <= e) BY <1>2, <1>8, <2>0, <2>1
    <3>3. r.out = st.out BY <1>9, <3>2
    <3>4. QED BY <2>0, <3>1, <3>3 DEF AtPlace, o
  <2>2. CASE s <= e
    <3>1. s \in 1 .. Len(SduLen) /\ e \in 1 .. Len(SduLen) /\ s <= e + 1
      BY <1>2, <1>4, <1>8, <2>0, <2>2
    <3>2. /\ Sdus(s, e) \in Seq(Seq(Byte)) /\ Len(Sdus(s, e)) = e - s + 1
          /\ \A j \in 1 .. e - s + 1 : Sdus(s, e)[j] = Sdu(s + j - 1)
      BY <3>1, SdusAre
    <3>3. r.out = st.out \o Sdus(s, e)
      <4>1. ~ (s > e) BY <1>2, <1>8, <2>0, <2>2
      <4>2. QED BY <1>9, <4>1
    <3>4. st.out \in Seq(Seq(Byte)) /\ Len(st.out) = o BY DEF AtPlace, o
    <3> DEFINE a == st.out  b == Sdus(s, e)
    <3>5. /\ a \o b \in Seq(Seq(Byte)) /\ Len(a \o b) = Len(a) + Len(b)
          /\ \A i \in 1 .. Len(a) + Len(b) : (a \o b)[i] = IF i <= Len(a) THEN a[i] ELSE b[i - Len(a)]
      <4>1. a \in Seq(Seq(Byte)) /\ b \in Seq(Seq(Byte)) BY <3>2, <3>4
      <4> HIDE DEF a, b
      <4>2. QED BY <4>1, ConcatProperties
    <3>6. Len(a) = o /\ Len(b) = e - o /\ Len(a) + Len(b) = e
      <4>1. Len(a) = o /\ Len(b) = e - s + 1 BY <3>2, <3>4
      <4> HIDE DEF a, b
      <4>2. QED BY <1>2, <1>8, <2>0, <4>1
    <3>7. ASSUME NEW i \in 1 .. e PROVE r.out[i] = Sdu(i)
      <4>1. r.out[i] = IF i <= o THEN a[i] ELSE b[i - o] BY <3>3, <3>5, <3>6
      <4>2. CASE i <= o
        <5>1. i \in 1 .. o BY <1>2, <4>2
        <5>2. a[i] = Sdu(i) BY <5>1 DEF AtPlace, o
        <5>3. QED BY <4>1, <4>2, <5>2
      <4>3. CASE ~ (i <= o)
        <5>1. i - o \in 1 .. e - s + 1 /\ s + (i - o) - 1 = i BY <1>2, <1>8, <2>0, <4>3
        <5>2. b[i - o] = Sdu(i) BY <3>2, <5>1
        <5>3. QED BY <4>1, <4>3, <5>2
      <4>4. QED BY <4>2, <4>3
    <3>8. QED BY <2>0, <3>3, <3>5, <3>6, <3>7
  <2>3. s > e \/ s <= e BY <1>2, <1>8, <2>0
  <2>4. QED BY <2>1, <2>2, <2>3
<1>13. /\ r.keep \in Seq(Byte) /\ After(d[n]) = <<e + 1, Len(r.keep) + 1>>
       /\ r.keep # <<>> => r.keep = Piece(e + 1, 1, Len(r.keep))
       /\ ~ Complete(d) => /\ z = e + 1 /\ Len(r.keep) = y
                           /\ \A k \in 1 .. y : <<z, k>> \in ToSet(r.keep)
  <2>1. CASE Complete(d)
    <3>1. r.keep = <<>> BY <1>9, <1>11, <2>1
    <3>2. r.keep \in Seq(Byte) /\ Len(r.keep) = 0 BY <3>1, EmptySeq
    <3>3. After(d[n]) = <<z + 1, 1>>
      <4>1. After(<<z, SduLen[z]>>) = <<z + 1, 1>> BY <1>4, SduStream
      <4>2. QED BY <1>4, <1>10, <2>1, <4>1
    <3>4. QED BY <1>10, <2>1, <3>1, <3>2, <3>3
  <2>2. CASE ~ Complete(d)
    <3>1. r.keep = Piece(z, 1, y) BY <1>9, <1>11, <2>2
    <3>2. y < SduLen[z] /\ z = e + 1 BY <1>4, <1>10, <2>2
    <3>3. /\ r.keep \in Seq(Byte) /\ Len(r.keep) = y
          /\ \A k \in 1 .. y : r.keep[k] = <<z, k>>
      BY <1>4, <3>1, <3>2, FirstPiece
    <3>4. After(d[n]) = <<z, y + 1>> BY <1>4, <3>2 DEF After
    <3>5. DOMAIN r.keep = 1 .. y BY <3>3, LenProperties
    <3>6. \A k \in 1 .. y : <<z, k>> \in ToSet(r.keep) BY <3>3, <3>5 DEF ToSet
    <3>7. QED BY <3>1, <3>2, <3>3, <3>4, <3>6
  <2>3. QED BY <2>1, <2>2
<1>14. ASSUME NEW k \in 1 .. n PROVE Arrived(r, d[k])
  <2>1. n \in k .. n BY <1>1
  <2>2. d[k][1] < d[n][1] \/ (d[k][1] = d[n][1] /\ d[n][2] = d[k][2] + (n - k))
    BY <2>1, StreamOrder DEF n
  <2>3. /\ d[k][1] \in Nat /\ d[k][2] \in Nat /\ d[k] = <<d[k][1], d[k][2]>>
        /\ d[k][2] \in 1 .. SduLen[d[k][1]]
    BY StreamBytes DEF n
  <2>4. CASE d[k][1] <= e BY <1>12, <2>4 DEF Arrived
  <2>5. CASE ~ (d[k][1] <= e)
    <3>1. d[k][1] = z /\ e = z - 1 BY <1>4, <1>10, <1>12, <2>2, <2>3, <2>5
    <3>2. ~ Complete(d) BY <1>4, <1>10, <3>1
    <3>3. y = d[k][2] + (n - k) BY <1>4, <2>2, <2>3, <3>1 DEF y
    <3>4. d[k][2] \in 1 .. y BY <1>1, <1>4, <2>3, <3>3
    <3>5. d[k] \in ToSet(r.keep) BY <1>13, <2>3, <3>1, <3>2, <3>4
    <3>6. QED BY <3>5 DEF Arrived
  <2>6. QED BY <2>4, <2>5
<1>15. \A b \in ToSet(d) : Arrived(r, b)
  <2>1. DOMAIN d = 1 .. n BY StreamBytes DEF n
  <2>2. \A b \in ToSet(d) : \E k \in 1 .. n : b = d[k] BY <2>1 DEF ToSet
  <2>3. QED BY <1>14, <2>2
<1>16. ASSUME NEW b \in Byte, Arrived(st, b) PROVE Arrived(r, b)
  <2>1. b[1] \in Nat BY ByteIs
  <2>2. CASE b[1] <= o BY <1>2, <1>12, <2>1, <2>2 DEF Arrived
  <2>3. CASE b \in ToSet(st.keep)
    <3>1. PICK k \in 1 .. h : b = st.keep[k]
      <4>1. DOMAIN st.keep = 1 .. h BY LenProperties DEF AtPlace, h
      <4>2. QED BY <2>3, <4>1 DEF ToSet
    <3>2. st.keep # <<>>
      <4>1. h # 0 BY <1>2, <3>1
      <4>2. QED BY <4>1, EmptySeq DEF h
    <3>3. st.keep = Piece(o + 1, 1, h) BY <3>2 DEF AtPlace, o, h
    <3>4. b = <<o + 1, k>>
      <4>1. k \in 1 .. h - 1 + 1 /\ 1 + k - 1 = k BY <1>2
      <4>2. QED BY <3>1, <3>3, <4>1 DEF Piece
    <3>5. CASE o + 1 <= e BY <1>12, <3>4, <3>5 DEF Arrived
    <3>6. CASE ~ (o + 1 <= e)
      <4>1. e = z - 1 /\ z = o + 1 BY <1>2, <1>4, <1>10, <1>11, <1>12, <3>6
      <4>2. ~ Complete(d) BY <1>4, <1>10, <4>1
      <4>3. y = h + 1 + (n - 1) BY <1>2, <1>4, <1>5, <4>1
      <4>4. k \in 1 .. y BY <1>1, <1>2, <1>4, <4>3
      <4>5. b = <<z, k>> BY <3>4, <4>1
      <4>6. b \in ToSet(r.keep) BY <1>13, <4>2, <4>4, <4>5
      <4>7. QED BY <4>6 DEF Arrived
    <3>7. QED BY <3>5, <3>6
  <2>4. QED BY <1>16, <2>2, <2>3 DEF Arrived, o
<1>17. AtPlace(r, After(d[n])) BY <1>12, <1>13 DEF AtPlace
<1>18. Len(st.out) <= Len(r.out) /\ Len(r.out) <= d[n][1] BY <1>4, <1>12 DEF o
<1>19. QED BY <1>9, <1>15, <1>16, <1>17, <1>18 DEF r, n

-----------------------------------------------------------------------------
(* Reassembly of a run of PDUs.                                            *)

\* What holds of zero, and of the next number when it holds of a number, holds
\* of every number.
LEMMA Counting ==
  ASSUME NEW Q, 0 \in Q, \A j \in Nat : j \in Q => j + 1 \in Q
  PROVE  \A j \in Nat : j \in Q
<1> DEFINE T == {j \in Nat : j \notin Q}
<1>1. SUFFICES ASSUME T # {} PROVE FALSE OBVIOUS
<1>2. PICK m \in T : \A j \in T : m <= j
  <2>1. T \in SUBSET Nat OBVIOUS
  <2> HIDE DEF T
  <2>2. QED BY <1>1, <2>1, LeastElement
<1>3. m \in Nat /\ m \notin Q /\ m # 0 OBVIOUS
<1>4. m - 1 \in Nat /\ (m - 1) + 1 = m /\ m - 1 < m BY <1>3
<1>5. m - 1 \in Q
  <2>1. m - 1 \notin T BY <1>2, <1>4
  <2>2. QED BY <1>4, <2>1
<1>6. QED BY <1>3, <1>4, <1>5

\* The state after one more SN of the buffer, and after the first k of them.
Visit(x, buffer, sn, j) ==
  IF Has(buffer, Plus(sn, j - 1)) THEN Reassemble(x, At(buffer, Plus(sn, j - 1))) ELSE x
Visits(f, st, buffer, sn, k) ==
  f = [j \in 0 .. k |-> IF j = 0 THEN st
                        ELSE IF Has(buffer, Plus(sn, j - 1))
                             THEN Reassemble(f[j - 1], At(buffer, Plus(sn, j - 1)))
                             ELSE f[j - 1]]

\* The recursion is well founded: the states it goes through exist.
LEMMA VisitsExist ==
  ASSUME NEW st, NEW buffer, NEW sn
  PROVE  \A k \in Nat : \E f : Visits(f, st, buffer, sn, k)
<1> DEFINE Q == {k \in Nat : \E f : Visits(f, st, buffer, sn, k)}
<1>1. 0 \in Q
  <2> DEFINE f == [j \in 0 .. 0 |-> st]
  <2>1. \A j \in 0 .. 0 : j = 0 OBVIOUS
  <2>2. Visits(f, st, buffer, sn, 0) BY <2>1 DEF Visits
  <2>3. QED BY <2>2
<1>2. ASSUME NEW k \in Nat, k \in Q PROVE k + 1 \in Q
  <2>1. PICK f : Visits(f, st, buffer, sn, k) BY <1>2
  <2> DEFINE g == [j \in 0 .. k + 1 |-> IF j = k + 1 THEN Visit(f[k], buffer, sn, k + 1)
                                        ELSE f[j]]
  <2>2. \A j \in 0 .. k : g[j] = f[j] /\ j # k + 1 OBVIOUS
  <2>3. ASSUME NEW j \in 0 .. k + 1
        PROVE  g[j] = IF j = 0 THEN st
                      ELSE IF Has(buffer, Plus(sn, j - 1))
                           THEN Reassemble(g[j - 1], At(buffer, Plus(sn, j - 1)))
                           ELSE g[j - 1]
    <3>1. CASE j = k + 1
      <4>1. j - 1 = k /\ j # 0 /\ k \in 0 .. k /\ (k + 1) - 1 = k BY <3>1
      <4>2. g[j] = Visit(f[k], buffer, sn, k + 1) /\ g[k] = f[k] BY <2>2, <3>1, <4>1
      <4>3. QED BY <4>1, <4>2 DEF Visit
    <3>2. CASE j # k + 1
      <4>1. j \in 0 .. k /\ (j # 0 => j - 1 \in 0 .. k) BY <3>2
      <4>2. g[j] = f[j] /\ (j # 0 => g[j - 1] = f[j - 1]) BY <2>2, <4>1
      <4>3. f[j] = IF j = 0 THEN st
                   ELSE IF Has(buffer, Plus(sn, j - 1))
                        THEN Reassemble(f[j - 1], At(buffer, Plus(sn, j - 1)))
                        ELSE f[j - 1]
        BY <2>1, <4>1 DEF Visits
      <4> HIDE DEF g
      <4>4. QED BY <4>2, <4>3
    <3>3. QED BY <3>1, <3>2
  <2>4. g = [j \in 0 .. k + 1 |-> g[j]] OBVIOUS
  <2> HIDE DEF g
  <2>5. Visits(g, st, buffer, sn, k + 1) BY <2>3, <2>4 DEF Visits
  <2>6. QED BY <2>5
<1> HIDE DEF Q
<1>3. \A k \in Nat : k \in Q BY <1>1, <1>2, Counting
<1>4. QED BY <1>3 DEF Q

\* Reassembly of a run goes through one state for each SN.
LEMMA ReassembleFromIs ==
  ASSUME NEW st, NEW buffer, NEW sn, NEW k \in Nat
  PROVE  \E f : /\ f[0] = st /\ ReassembleFrom(st, buffer, sn, k) = f[k]
                /\ \A j \in 0 .. k - 1 :
                      f[j + 1] = IF Has(buffer, Plus(sn, j))
                                 THEN Reassemble(f[j], At(buffer, Plus(sn, j))) ELSE f[j]
<1> DEFINE f == CHOOSE f : Visits(f, st, buffer, sn, k)
<1>1. Visits(f, st, buffer, sn, k) BY VisitsExist
<1>2. ReassembleFrom(st, buffer, sn, k) = f[k] BY DEF ReassembleFrom, Visits
<1> HIDE DEF f
<1>3. f[0] = st
  <2>1. 0 \in 0 .. k OBVIOUS
  <2>2. QED BY <1>1, <2>1 DEF Visits
<1>4. ASSUME NEW j \in 0 .. k - 1
      PROVE  f[j + 1] = IF Has(buffer, Plus(sn, j))
                        THEN Reassemble(f[j], At(buffer, Plus(sn, j))) ELSE f[j]
  <2>1. j + 1 \in 0 .. k /\ j + 1 # 0 /\ (j + 1) - 1 = j OBVIOUS
  <2>2. f[j + 1] = IF Has(buffer, Plus(sn, (j + 1) - 1))
                   THEN Reassemble(f[(j + 1) - 1], At(buffer, Plus(sn, (j + 1) - 1)))
                   ELSE f[(j + 1) - 1]
    BY <1>1, <2>1 DEF Visits
  <2>3. QED BY <2>1, <2>2
<1>5. QED BY <1>2, <1>3, <1>4

\* Where the n-th PDU begins, when the PDUs carry pl[0], pl[1] and so on.
NextOf(pl, n) == IF n = 0 THEN <<1, 1>> ELSE After(pl[n - 1][Len(pl[n - 1])])

\* The n-th PDU carries bytes, from where the one before it ended.
InLine(pl, n) == IsStream(pl[n]) /\ pl[n] # <<>> /\ pl[n][1] = NextOf(pl, n)

\* What the state s after j PDUs owes to the state st before the first one, which
\* is number r.
CameThrough(s, st, pl, r, j) ==
  /\ AtPlace(s, NextOf(pl, r + j)) /\ s.expected = SnOf(r + j)
  /\ Len(st.out) <= Len(s.out)
  /\ \A b \in Byte : Arrived(st, b) => Arrived(s, b)
  /\ \A i \in 0 .. j - 1 : \A b \in ToSet(pl[r + i]) : Arrived(s, b)

\* A run of PDUs without a gap is reassembled to the end of the last of them.
LEMMA RunInOrder ==
  ASSUME SduLens, NEW st, NEW buffer, NEW r \in Nat, NEW k \in Nat, NEW pl,
         \A j \in 0 .. k - 1 : /\ Has(buffer, SnOf(r + j)) /\ InLine(pl, r + j)
                               /\ At(buffer, SnOf(r + j)).data = pl[r + j],
         AtPlace(st, NextOf(pl, r)), st.expected = SnOf(r)
  PROVE  CameThrough(ReassembleFrom(st, buffer, SnOf(r), k), st, pl, r, k)
<1>1. PICK f : /\ f[0] = st /\ ReassembleFrom(st, buffer, SnOf(r), k) = f[k]
               /\ \A j \in 0 .. k - 1 :
                     f[j + 1] = IF Has(buffer, Plus(SnOf(r), j))
                                THEN Reassemble(f[j], At(buffer, Plus(SnOf(r), j))) ELSE f[j]
  BY ReassembleFromIs
<1> DEFINE Q == {j \in Nat : j <= k => CameThrough(f[j], st, pl, r, j)}
<1>2. 0 \in Q
  <2>1. r + 0 = r /\ 0 .. 0 - 1 = {} OBVIOUS
  <2>2. Len(st.out) <= Len(st.out)
    <3>1. Len(st.out) \in Nat BY LenProperties DEF AtPlace
    <3>2. QED BY <3>1
  <2>3. CameThrough(f[0], st, pl, r, 0) BY <1>1, <2>1, <2>2 DEF CameThrough
  <2>4. QED BY <2>3
<1>3. ASSUME NEW j \in Nat, j \in Q PROVE j + 1 \in Q
  <2>1. SUFFICES ASSUME j + 1 <= k PROVE CameThrough(f[j + 1], st, pl, r, j + 1) OBVIOUS
  <2>2. j \in 0 .. k - 1 /\ j <= k /\ r + (j + 1) = (r + j) + 1 /\ r + j \in Nat BY <2>1
  <2>3. CameThrough(f[j], st, pl, r, j) BY <1>3, <2>2
  <2> DEFINE p == At(buffer, SnOf(r + j))  d == pl[r + j]
  <2>4. Plus(SnOf(r), j) = SnOf(r + j) BY PlusSn
  <2>5. p.sn = SnOf(r + j) /\ p.data = d /\ InLine(pl, r + j) BY <2>2 DEF Has, At
  <2>6. f[j + 1] = Reassemble(f[j], p) BY <1>1, <2>2, <2>4
  <2> HIDE DEF p
  <2>7. IsStream(p.data) /\ p.data # <<>> /\ AtPlace(f[j], p.data[1]) /\ f[j].expected = p.sn
    BY <2>3, <2>5 DEF InLine, CameThrough
  <2>8. /\ AtPlace(f[j + 1], After(d[Len(d)])) /\ f[j + 1].expected = Plus(p.sn, 1)
        /\ Len(f[j].out) <= Len(f[j + 1].out)
        /\ \A b \in ToSet(d) : Arrived(f[j + 1], b)
        /\ \A b \in Byte : Arrived(f[j], b) => Arrived(f[j + 1], b)
    BY <2>5, <2>6, <2>7, ReassembleInOrder
  <2>9. NextOf(pl, r + (j + 1)) = After(d[Len(d)])
    <3>1. (r + (j + 1)) - 1 = r + j /\ r + (j + 1) # 0 BY <2>2
    <3>2. QED BY <3>1 DEF NextOf
  <2>10. f[j + 1].expected = SnOf(r + (j + 1))
    <3>1. Plus(SnOf(r + j), 1) = SnOf(r + j + 1) BY <2>2, PlusSn
    <3>2. QED BY <2>2, <2>5, <2>8, <3>1
  <2>11. Len(st.out) <= Len(f[j + 1].out)
    <3>1. Len(st.out) \in Nat /\ Len(f[j].out) \in Nat /\ Len(f[j + 1].out) \in Nat
      BY <2>3, <2>8, LenProperties DEF AtPlace, CameThrough
    <3>2. QED BY <2>3, <2>8, <3>1, SMTT(30) DEF CameThrough
  <2>12. ASSUME NEW i \in 0 .. (j + 1) - 1, NEW b \in ToSet(pl[r + i])
         PROVE  Arrived(f[j + 1], b)
    <3>1. CASE i = j BY <2>8, <3>1
    <3>2. CASE i # j
      <4>1. i \in 0 .. j - 1 /\ i \in 0 .. k - 1 BY <2>2, <3>2
      <4>2. Arrived(f[j], b) BY <2>3, <4>1 DEF CameThrough
      <4>3. b \in Byte
        <5>1. IsStream(pl[r + i]) BY <4>1 DEF InLine
        <5>2. QED BY <5>1, StreamBytes DEF ToSet
      <4>4. QED BY <2>8, <4>2, <4>3
    <3>3. QED BY <3>1, <3>2
  <2>13. QED BY <2>3, <2>8, <2>9, <2>10, <2>11, <2>12 DEF CameThrough
<1>4. \A j \in Nat : j \in Q
  <2> HIDE DEF Q
  <2>1. QED BY <1>2, <1>3, Counting
<1>5. CameThrough(f[k], st, pl, r, k) BY <1>4
<1>6. QED BY <1>1, <1>5

=============================================================================
