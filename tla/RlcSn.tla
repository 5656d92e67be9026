------------------------------- MODULE RlcSn -------------------------------
(***************************************************************************)
(* Sequence numbers of the RLC entities (nr-rlc-sequence-number.h): the    *)
(* class nr::SequenceNumber10.  A number is a value modulo SNMod; it is    *)
(* ordered relative to a modulus base, the lower edge of the window it is  *)
(* compared in.  The class keeps the base inside each object and asserts   *)
(* that both operands of a comparison have the same one; here the base is  *)
(* the third argument of the comparison.                                   *)
(***************************************************************************)
EXTENDS Integers

CONSTANTS SNMod,   \* size of the number space: 1024 in the code
          U16      \* 2^16, the values of a uint16_t

ASSUME SnAssumption ==
    /\ SNMod \in Nat \ {0}
    /\ U16 \in Nat \ {0}
    /\ U16 >= SNMod
    /\ U16 % SNMod = 0

Sn == 0 .. SNMod - 1

\* Conversion of an int to uint16_t.
ToU16(x) == x % U16

\* The % of C++ truncates towards zero, so the remainder has the sign of x.
CRem(x) == IF x >= 0 THEN x % SNMod ELSE -((-x) % SNMod)

\* Deviation for the checks: the sum is not reduced.
PlusUnreduced(s, k) == s + k

\* operator+(uint16_t): the next value, wrapping.
Plus(s, k) == (s + k) % SNMod

\* Deviation: the remainder is taken as it comes, though it may be negative.
MinusAsUnsigned(s, k) == ToU16(CRem(s - k))

\* operator-(uint16_t): the remainder may be negative when the constructor
\* converts it to uint16_t, which reduces it modulo SNMod once more.
Minus(s, k) == ToU16(CRem(s - k)) % SNMod

\* Deviation: values are compared without regard to the base.
PosAbsolute(s, base) == s

\* What operator> compares: the distance from the base, as a uint16_t.  A
\* value below the base becomes a large number, not a distance below SNMod.
Pos(s, base) == ToU16(CRem(s - base))

Gt(a, b, base) == Pos(a, base) > Pos(b, base)
Le(a, b, base) == ~ Gt(a, b, base)
Lt(a, b, base) == ~ Gt(a, b, base) /\ a # b
Ge(a, b, base) == Gt(a, b, base) \/ a = b

\* The SN of the n-th PDU of an entity (PDUs are counted from zero).
SnOf(n) == n % SNMod

\* The reference: how far s lies ahead of base, going round the number space.
Off(s, base) == (s - base) % SNMod

=============================================================================
