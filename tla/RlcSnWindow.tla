---------------------------- MODULE RlcSnWindow ----------------------------
(***************************************************************************)
(* Two sequence numbers that are compared in a window, whose lower edge is *)
(* their modulus base and slides over the number space.                    *)
(***************************************************************************)
EXTENDS RlcSn

CONSTANT Edge   \* the numbers that are looked at

ASSUME EdgeAssumption == Edge \subseteq Sn

VARIABLES a, b,   \* two sequence numbers that are compared
          base    \* the lower edge of the window they are compared in

vars == <<a, b, base>>

Init == a \in Edge /\ b \in Edge /\ base \in Edge

\* The window slides by one: SetModulusBase with the next number.
Slide == base' = Plus(base, 1) /\ base' \in Edge /\ UNCHANGED <<a, b>>

Next == Slide

Spec == Init /\ [][Next]_vars

-----------------------------------------------------------------------------
\* operator> and the operators defined from it order numbers by how far they
\* lie ahead of the base, although the remainder of C++ turns the distance of
\* a wrapped number into a value above 64512.
OrderedFromTheBase ==
    /\ Gt(a, b, base) <=> Off(a, base) > Off(b, base)
    /\ Le(a, b, base) <=> Off(a, base) <= Off(b, base)
    /\ Lt(a, b, base) <=> Off(a, base) < Off(b, base)
    /\ Ge(a, b, base) <=> Off(a, base) >= Off(b, base)

\* operator-(uint16_t) undoes operator+(uint16_t), across the wrap too:
\* POLL_SN = VT(S) - 1 is the number of the PDU that was just built.
MinusUndoesPlus ==
    \A k \in Edge : Minus(Plus(a, k), k) = a /\ Plus(Minus(a, k), k) = a

=============================================================================
