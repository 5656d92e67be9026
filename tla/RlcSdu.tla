------------------------------- MODULE RlcSdu -------------------------------
(***************************************************************************)
(* SDUs and their segments, as the acknowledged and the unacknowledged     *)
(* mode of RLC share them (nr-rlc.cc).  A byte of an SDU is a pair         *)
(* <<SDU, position>>, so that payload that is lost, repeated, reordered or *)
(* glued to a foreign SDU shows.  The PDUs are records with an SN sn, data *)
(* and the count n of PDUs built before, a history value.                  *)
(***************************************************************************)
EXTENDS RlcSn, Sequences, SequencesExt

CONSTANT SduLen   \* lengths of the SDUs that PDCP submits; their number is a bound

Sdu(i) == [k \in 1 .. SduLen[i] |-> <<i, k>>]
Byte == UNION {{<<i, k>> : k \in 1 .. SduLen[i]} : i \in DOMAIN SduLen}

Has(buffer, sn) == \E p \in buffer : p.sn = sn

\* The buffered PDU with this SN.
At(buffer, sn) == CHOOSE p \in buffer : p.sn = sn

\* k consecutive SNs from sn on are in the buffer, and the next one is not.
IsRun(buffer, sn, k) ==
    /\ \A j \in 0 .. k - 1 : Has(buffer, Plus(sn, j))
    /\ ~ Has(buffer, Plus(sn, k))

-----------------------------------------------------------------------------
\* The data fields of a PDU: the sender ends a field, and pushes a length
\* indicator, where an SDU ends.
Fields(data) ==
    LET first == Head(data)[1]
        places(i) == {k \in DOMAIN data : data[k][1] = i}
    IN [j \in 1 .. Last(data)[1] - first + 1 |->
          SubSeq(data, Min(places(first + j - 1)), Max(places(first + j - 1)))]

\* ReassembleAndDeliver of one PDU, on the held segment, the expected SN and
\* the SDUs delivered so far.  The framing info of the header tells whether the
\* first field continues an SDU and whether the last one completes one.
Reassemble(st, pdu) ==
    LET fields == Fields(pdu.data)
        continues == Head(pdu.data)[2] # 1
        complete == Last(pdu.data)[2] = SduLen[Last(pdu.data)[1]]
        usable == pdu.sn = st.expected /\ st.keep # <<>>
        sdus == IF ~ continues THEN fields
                ELSE IF usable THEN <<st.keep \o Head(fields)>> \o Tail(fields)
                ELSE Tail(fields)
        holdsBack == ~ complete /\ sdus # <<>>
    IN [keep |-> IF holdsBack THEN Last(sdus) ELSE <<>>,
        expected |-> Plus(pdu.sn, 1),
        out |-> st.out \o (IF holdsBack THEN Front(sdus) ELSE sdus)]

\* Reassembly of the PDUs of the buffer with the k SNs from sn on, in this order;
\* one that is not there is passed over.
ReassembleFrom(st, buffer, sn, k) ==
    LET after[j \in 0 .. k] ==
          IF j = 0 THEN st
          ELSE IF Has(buffer, Plus(sn, j - 1))
               THEN Reassemble(after[j - 1], At(buffer, Plus(sn, j - 1)))
               ELSE after[j - 1]
    IN after[k]

=============================================================================
