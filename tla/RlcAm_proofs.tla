---------------------------- MODULE RlcAm_proofs ----------------------------
(***************************************************************************)
(* Proofs about the acknowledged mode of RLC, for every size of the number *)
(* space and of the windows, every sequence of SDUs, every retransmission  *)
(* threshold and any number of PDUs lost or delivered twice: the types,    *)
(* and then the windows of the two entities: what a STATUS PDU makes the   *)
(* sender release was received, whatever is lost, delivered twice, late or *)
(* out of order, as long as no copy outlives the distance MaxLag at which  *)
(* its SN is reused.  And last the payload: the SDUs come out whole, once  *)
(* and in order, and no byte is dropped by both ends.                      *)
(***************************************************************************)
EXTENDS RlcAm, RlcSdu_proofs

-----------------------------------------------------------------------------
\* Stuttering keeps the types.
LEMMA TypeUnchanged ==
    /\ TxTypeOK /\ UNCHANGED txVars => TxTypeOK'
    /\ RxTypeOK /\ UNCHANGED rxVars => RxTypeOK'
    /\ NetTypeOK /\ UNCHANGED netVars => NetTypeOK'
  BY DEF TxTypeOK, RxTypeOK, NetTypeOK, txVars, rxVars, netVars

\* Each handler keeps the types of what it changes.
LEMMA TypeTransmitPdcpPdu ==
    ASSUME TypeOK, TransmitPdcpPdu PROVE TypeOK'
<1>1. TxTypeOK'
  <2>1. Len(SduLen) \in Nat
    BY AmAssumption, LenProperties
  <2>2. Sdu(accepted + 1) \in Seq(Byte)
    BY <2>1, SduType, AmAssumption DEF SduLens, TransmitPdcpPdu, TypeOK, TxTypeOK
  <2>3. txonBuffer \o Sdu(accepted + 1) \in Seq(Byte)
    BY <2>2, ConcatProperties DEF TypeOK, TxTypeOK
  <2>4. /\ accepted \in Nat /\ accepted < Len(SduLen)
        /\ \/ txonBuffer' = txonBuffer \o Sdu(accepted + 1) /\ accepted' = accepted + 1
           \/ txonBuffer' = txonBuffer /\ accepted' = accepted
    BY DEF TransmitPdcpPdu, TypeOK, TxTypeOK
  <2>6. txonBuffer' \in Seq(Byte)
    BY <2>3, <2>4 DEF TypeOK, TxTypeOK
  <2>7. accepted' \in 0 .. Len(SduLen)
    BY <2>1, <2>4
  <2>5. QED
    BY <2>6, <2>7 DEF TransmitPdcpPdu, TypeOK, TxTypeOK
<1>2. QED
  BY <1>1, TypeUnchanged DEF TransmitPdcpPdu, TypeOK

\* RetransmitPdu keeps the types.
LEMMA TypeRetransmitPdu ==
    ASSUME TypeOK, NEW bytes \in 1 .. MaxDataField, RetransmitPdu(bytes) PROVE TypeOK'
<1>1. PICK e \in retxBuffer :
         /\ IF PollsAgain(e) THEN Poll(vtS)
            ELSE UNCHANGED <<pollRetransmitTimerJustExpired, pollSn, pollRetransmitTimer>>
         /\ maxRetxReachedNotified' =
               (maxRetxReachedNotified \/ RetxCount(e) >= MaxRetxThreshold)
         /\ retxBuffer' = {p \in retxBuffer : p.sn # e.sn}
         /\ txedBuffer' = {p \in txedBuffer : p.sn # e.sn}
                              \cup {[e EXCEPT !.retx = RetxCount(e)]}
         /\ dataPdus' = dataPdus \cup
               {[n |-> e.n, sn |-> e.sn, data |-> e.data, poll |-> PollsAgain(e)]}
  BY DEF RetransmitPdu
<1>2. e \in HeldPdu
  BY DEF TypeOK, TxTypeOK
<1>3. Minus(vtS, 1) \in Sn
  BY MinusType DEF TypeOK, TxTypeOK
<1>4. RetxCount(e) \in 0 .. MaxRetxThreshold
  BY <1>2, AmAssumption DEF RetxCount, HeldPdu
<1>5. [e EXCEPT !.retx = RetxCount(e)] \in HeldPdu
  BY <1>2, <1>4 DEF HeldPdu
<1>6. [n |-> e.n, sn |-> e.sn, data |-> e.data, poll |-> PollsAgain(e)] \in DataPdu
  <2>1. PollsAgain(e) \in BOOLEAN
    BY DEF PollsAgain
  <2>2. QED
    BY <1>2, <2>1 DEF HeldPdu, DataPdu
<1>7. /\ pollRetransmitTimerJustExpired' \in BOOLEAN /\ pollSn' \in Sn
      /\ pollRetransmitTimer' \in BOOLEAN /\ maxRetxReachedNotified' \in BOOLEAN
  <2>1. CASE PollsAgain(e)
    BY <1>1, <1>3, <2>1 DEF Poll
  <2>2. CASE ~ PollsAgain(e)
    BY <1>1, <2>2 DEF TypeOK, TxTypeOK
  <2>3. QED
    BY <1>1, <2>1, <2>2
<1>8. retxBuffer' \subseteq HeldPdu /\ txedBuffer' \subseteq HeldPdu /\ dataPdus' \subseteq DataPdu
  BY <1>1, <1>5, <1>6 DEF TypeOK, TxTypeOK, NetTypeOK
<1>9. TxTypeOK' /\ NetTypeOK'
  BY <1>7, <1>8 DEF RetransmitPdu, TypeOK, TxTypeOK, NetTypeOK
<1>10. QED
  BY <1>9, TypeUnchanged DEF RetransmitPdu, TypeOK

\* TransmitNewPdu keeps the types.
LEMMA TypeTransmitNewPdu ==
    ASSUME TypeOK, NEW bytes \in 1 .. MaxDataField, TransmitNewPdu(bytes) PROVE TypeOK'
<1>1. PICK k \in 1 .. Len(txonBuffer) :
         /\ txonBuffer' = SubSeq(txonBuffer, k + 1, Len(txonBuffer))
         /\ txedBuffer' = {p \in txedBuffer : p.sn # vtS}
               \cup {[n |-> sent, sn |-> vtS, data |-> SubSeq(txonBuffer, 1, k), retx |-> 0]}
         /\ dataPdus' = {p \in dataPdus : p.n + MaxLag > sent}
               \cup {[n |-> sent, sn |-> vtS, data |-> SubSeq(txonBuffer, 1, k), poll |-> TRUE]}
  BY DEF TransmitNewPdu
<1>2. /\ SubSeq(txonBuffer, 1, k) \in Seq(Byte)
      /\ SubSeq(txonBuffer, k + 1, Len(txonBuffer)) \in Seq(Byte)
  BY PartType DEF TypeOK, TxTypeOK
<1>3. vtS' \in Sn /\ pollSn' \in Sn
  <2>1. vtS' \in Sn
    BY PlusType DEF TransmitNewPdu, TypeOK, TxTypeOK
  <2>2. Minus(vtS', 1) \in Sn
    BY <2>1, MinusType
  <2>3. QED
    BY <2>1, <2>2 DEF TransmitNewPdu, Poll
<1>4. 0 \in 0 .. MaxRetxThreshold
  BY AmAssumption
<1>5. [n |-> sent, sn |-> vtS, data |-> SubSeq(txonBuffer, 1, k), retx |-> 0] \in HeldPdu
  BY <1>2, <1>4 DEF TypeOK, TxTypeOK, HeldPdu
<1>6. [n |-> sent, sn |-> vtS, data |-> SubSeq(txonBuffer, 1, k), poll |-> TRUE] \in DataPdu
  BY <1>2 DEF TypeOK, TxTypeOK, DataPdu
<1>7. /\ txonBuffer' \in Seq(Byte) /\ txedBuffer' \subseteq HeldPdu
      /\ dataPdus' \subseteq DataPdu
  BY <1>1, <1>2, <1>5, <1>6 DEF TypeOK, TxTypeOK, NetTypeOK
<1>8. /\ pollRetransmitTimer' \in BOOLEAN /\ pollRetransmitTimerJustExpired' \in BOOLEAN
      /\ sent' \in Nat /\ statusPdus' \subseteq StatusPdu
      /\ UNCHANGED <<retxBuffer, vtA, bsrTimer, maxRetxReachedNotified, accepted, acked,
                     losses, dups>>
  <2>1. statusPdus' = {s \in statusPdus : s.ackN + MaxLag > sent} /\ sent' = sent + 1
    BY DEF TransmitNewPdu
  <2>2. sent' \in Nat /\ statusPdus' \subseteq StatusPdu
    BY <2>1 DEF TypeOK, TxTypeOK, NetTypeOK
  <2>3. QED
    BY <2>2 DEF TransmitNewPdu, Poll
<1>9. TxTypeOK' /\ NetTypeOK'
  BY <1>3, <1>7, <1>8 DEF TypeOK, TxTypeOK, NetTypeOK
<1>10. QED
  BY <1>9, TypeUnchanged DEF TransmitNewPdu, TypeOK

\* ReceiveStatusPdu keeps the types.
LEMMA TypeReceiveStatusPdu ==
    ASSUME TypeOK, NEW s \in statusPdus, ReceiveStatusPdu(s) PROVE TxTypeOK'
<1>1. CASE UNCHANGED txVars
  BY <1>1, TypeUnchanged DEF TypeOK
<1>2. CASE ~ UNCHANGED txVars
  <2>1. PICK sn \in Sn : vtA' = sn /\ acked' = acked + Off(sn, vtA)
    BY <1>2 DEF ReceiveStatusPdu
  <2>2. acked' \in Nat
    <3>1. Off(sn, vtA) \in Nat
      BY OffType, SnAssumption DEF TypeOK, TxTypeOK
    <3>2. QED
      BY <2>1, <3>1 DEF TypeOK, TxTypeOK
  <2>3. /\ pollRetransmitTimer' \in BOOLEAN
        /\ txedBuffer' \subseteq txedBuffer
        /\ retxBuffer' \subseteq txedBuffer \cup retxBuffer
        /\ UNCHANGED <<txonBuffer, vtS, pollSn, pollRetransmitTimerJustExpired, bsrTimer,
                       maxRetxReachedNotified, accepted, sent>>
    <3>1. pollRetransmitTimer' \in BOOLEAN
      <4>1. pollRetransmitTimer' = (pollRetransmitTimer /\ ~ Covers(s, pollSn))
        BY <1>2, Zenon DEF ReceiveStatusPdu
      <4>2. (pollRetransmitTimer /\ ~ Covers(s, pollSn)) \in BOOLEAN
        BY Zenon
      <4>3. QED
        BY <4>1, <4>2, Zenon
    <3>2. txedBuffer' \subseteq txedBuffer
      BY <1>2 DEF ReceiveStatusPdu
    <3>3. retxBuffer' \subseteq txedBuffer \cup retxBuffer
      BY <1>2 DEF ReceiveStatusPdu
    <3>4. QED
      BY <1>2, <3>1, <3>2, <3>3 DEF ReceiveStatusPdu
  <2>4. QED
    BY <2>1, <2>2, <2>3 DEF TypeOK, TxTypeOK
<1>3. QED
  BY <1>1, <1>2


\* ReceiveDataPdu keeps the types.
LEMMA TypeReceiveDataPdu ==
    ASSUME TypeOK, NEW m \in dataPdus, ReceiveDataPdu(m)
    PROVE  RxTypeOK'
<1>1. m \in DataPdu /\ m.sn \in Sn /\ m.poll \in BOOLEAN
  BY DEF TypeOK, NetTypeOK, DataPdu
<1>2. statusPduRequested' \in BOOLEAN /\ statusReported' \in BOOLEAN /\ statusProhibitTimer' \in BOOLEAN
  BY <1>1 DEF ReceiveDataPdu, TypeOK, RxTypeOK
<1>3. CASE ~ IsInsideReceivingWindow(m.sn, vrR)
  BY <1>2, <1>3 DEF ReceiveDataPdu, TypeOK, RxTypeOK
<1>4. CASE IsInsideReceivingWindow(m.sn, vrR)
  <2> DEFINE buffer == IF Has(rxonBuffer, m.sn) THEN rxonBuffer
                       ELSE rxonBuffer \cup {[n |-> m.n, sn |-> m.sn, data |-> m.data]}
  <2>1. /\ vrH' = IF Ge(m.sn, vrH, vrR) THEN Plus(m.sn, 1) ELSE vrH
        /\ \E k \in 0 .. SNMod - 1 : vrMs' = Plus(vrMs, k)
        /\ \/ \E k \in 0 .. SNMod - 1 : DeliverRun(buffer, k)
           \/ rxonBuffer' = buffer /\ vrR' = vrR /\ rcvd' = rcvd
        /\ UpdateReorderingTimer
    BY <1>4 DEF ReceiveDataPdu
  <2>2. buffer \subseteq RxPdu
    BY <1>1 DEF TypeOK, RxTypeOK, RxPdu, DataPdu
  <2> HIDE DEF buffer
  <2>3. vrH' \in Sn /\ vrMs' \in Sn
    BY <1>1, <2>1, PlusType DEF TypeOK, RxTypeOK
  <2>4. rxonBuffer' \subseteq RxPdu /\ vrR' \in Sn /\ rcvd' \in Nat
    <3>1. ASSUME NEW k \in 0 .. SNMod - 1, DeliverRun(buffer, k)
          PROVE  rxonBuffer' \subseteq RxPdu /\ vrR' \in Sn /\ rcvd' \in Nat
      <4>1. k \in Nat
        BY SnAssumption
      <4>2. Plus(vrR, k) \in Sn
        BY <4>1, PlusType DEF TypeOK, RxTypeOK
      <4>3. rcvd + k \in Nat
        BY <4>1 DEF TypeOK, RxTypeOK
      <4>4. /\ rxonBuffer' \subseteq buffer /\ vrR' = Plus(vrR, k) /\ rcvd' = rcvd + k
        BY <3>1 DEF DeliverRun
      <4>5. QED
        BY <2>2, <4>2, <4>3, <4>4
    <3>2. QED
      BY <2>1, <2>2, <3>1 DEF TypeOK, RxTypeOK
  <2>5. vrX' \in Sn /\ reorderingTimer' \in BOOLEAN
    <3>1. \/ reorderingTimer' = reorderingTimer /\ vrX' = vrX
          \/ reorderingTimer' = TRUE /\ vrX' = vrH'
          \/ reorderingTimer' = FALSE /\ vrX' = vrX
      BY <2>1 DEF UpdateReorderingTimer
    <3>2. QED
      BY <2>3, <3>1 DEF TypeOK, RxTypeOK
  <2>6. QED
    BY <1>2, <2>3, <2>4, <2>5 DEF RxTypeOK
<1>5. QED
  BY <1>3, <1>4

\* TransmitStatusPdu keeps the types.
LEMMA TypeTransmitStatusPdu ==
    ASSUME TypeOK, TransmitStatusPdu PROVE TypeOK'
<1> DEFINE missing == {sn \in Sn : Lt(sn, vrMs, vrR) /\ ~ Has(rxonBuffer, sn)}
<1>1. PICK ack \in missing \cup {vrMs} :
         statusPdus' = statusPdus \cup
            {[ackSn |-> ack, nacks |-> {sn \in missing : Lt(sn, ack, vrR)},
              ackN |-> rcvd + Off(ack, vrR)]}
  BY DEF TransmitStatusPdu
<1>2. ack \in Sn /\ missing \subseteq Sn
  BY DEF TypeOK, RxTypeOK
<1>3. rcvd + Off(ack, vrR) \in Nat
  BY <1>2, OffType, SnAssumption DEF TypeOK, RxTypeOK
<1> HIDE DEF missing
<1>4. statusPdus' \subseteq StatusPdu
  BY <1>1, <1>2, <1>3 DEF TypeOK, NetTypeOK, StatusPdu
<1>5. RxTypeOK' /\ NetTypeOK'
  BY <1>4 DEF TransmitStatusPdu, TypeOK, RxTypeOK, NetTypeOK
<1>6. QED
  BY <1>5, TypeUnchanged DEF TransmitStatusPdu, TypeOK

\* ExpireReorderingTimer keeps the types.
LEMMA TypeExpireReorderingTimer ==
    ASSUME TypeOK, ExpireReorderingTimer PROVE TypeOK'
<1>1. PICK k \in 0 .. SNMod - 1 : vrMs' = Plus(vrX, k)
  BY DEF ExpireReorderingTimer
<1>2. vrMs' \in Sn
  BY <1>1, PlusType, SnAssumption DEF TypeOK, RxTypeOK
<1>3. vrX' \in {vrX, vrH} /\ reorderingTimer' \in BOOLEAN
  BY DEF ExpireReorderingTimer
<1>4. RxTypeOK'
  BY <1>2, <1>3 DEF ExpireReorderingTimer, TypeOK, RxTypeOK
<1>5. QED
  BY <1>4, TypeUnchanged DEF ExpireReorderingTimer, TypeOK

\* The steps that touch timers or the flows only.
LEMMA TypeExpirePollRetransmitTimer ==
    ASSUME TypeOK, ExpirePollRetransmitTimer PROVE TypeOK'
<1>1. txedBuffer' \subseteq HeldPdu /\ retxBuffer' \subseteq HeldPdu
  <2> DEFINE moved == {p \in txedBuffer : Lt(p.sn, vtS, vtA)}
  <2>1. \/ retxBuffer' = retxBuffer \cup moved /\ txedBuffer' = txedBuffer \ moved
        \/ retxBuffer' = retxBuffer /\ txedBuffer' = txedBuffer
    BY DEF ExpirePollRetransmitTimer
  <2>2. moved \subseteq HeldPdu
    BY DEF TypeOK, TxTypeOK
  <2> HIDE DEF moved
  <2>3. QED
    BY <2>1, <2>2 DEF TypeOK, TxTypeOK
<1>2. TxTypeOK'
  BY <1>1 DEF ExpirePollRetransmitTimer, TypeOK, TxTypeOK
<1>3. QED
  BY <1>2, TypeUnchanged DEF ExpirePollRetransmitTimer, TypeOK

\* The steps that change a timer or lose a PDU keep the types.
LEMMA TypeOtherSteps ==
    ASSUME TypeOK, ExpireBsrTimer \/ ExpireStatusProhibitTimer \/ Lose PROVE TypeOK'
<1>1. CASE ExpireBsrTimer
  <2>1. TxTypeOK'
    BY <1>1 DEF ExpireBsrTimer, TypeOK, TxTypeOK
  <2>2. QED
    BY <1>1, <2>1, TypeUnchanged DEF ExpireBsrTimer, TypeOK
<1>2. CASE ExpireStatusProhibitTimer
  <2>1. RxTypeOK'
    BY <1>2 DEF ExpireStatusProhibitTimer, TypeOK, RxTypeOK
  <2>2. QED
    BY <1>2, <2>1, TypeUnchanged DEF ExpireStatusProhibitTimer, TypeOK
<1>3. CASE Lose
  <2>1. dataPdus' \subseteq dataPdus /\ statusPdus' \subseteq statusPdus
    BY <1>3 DEF Lose
  <2>2. NetTypeOK'
    BY <1>3, <2>1, AmAssumption DEF Lose, TypeOK, NetTypeOK
  <2>3. QED
    BY <1>3, <2>2, TypeUnchanged DEF Lose, TypeOK
<1>4. QED
  BY <1>1, <1>2, <1>3

\* DeliverData keeps the types.
LEMMA TypeDeliverData ==
    ASSUME TypeOK, NEW m \in dataPdus, DeliverData(m) PROVE TypeOK'
<1>1. RxTypeOK'
  BY TypeReceiveDataPdu DEF DeliverData
<1>2. NetTypeOK'
  BY AmAssumption DEF DeliverData, Leaves, TypeOK, NetTypeOK
<1>3. QED
  BY <1>1, <1>2, TypeUnchanged DEF DeliverData, TypeOK

\* DeliverStatus keeps the types.
LEMMA TypeDeliverStatus ==
    ASSUME TypeOK, NEW s \in statusPdus, DeliverStatus(s) PROVE TypeOK'
<1>1. TxTypeOK'
  BY TypeReceiveStatusPdu DEF DeliverStatus
<1>2. NetTypeOK'
  BY AmAssumption DEF DeliverStatus, Leaves, TypeOK, NetTypeOK
<1>3. QED
  BY <1>1, <1>2, TypeUnchanged DEF DeliverStatus, TypeOK

\* The initial state has the types.
LEMMA TypeInit == Init => TypeOK
<1> SUFFICES ASSUME Init PROVE TypeOK
  OBVIOUS
<1>1. 0 \in 0 .. Len(SduLen) /\ <<>> \in Seq(Byte)
  BY AmAssumption, EmptySeq, LenProperties
<1>2. TxTypeOK
  BY <1>1, ZeroIsSn DEF Init, TxTypeOK
<1>3. RxTypeOK
  BY ZeroIsSn DEF Init, RxTypeOK
<1>4. NetTypeOK
  BY AmAssumption DEF Init, NetTypeOK
<1>5. QED
  BY <1>2, <1>3, <1>4 DEF TypeOK

\* Every step keeps the types.
LEMMA TypeStep == TypeOK /\ [Next]_vars => TypeOK'
<1> SUFFICES ASSUME TypeOK, [Next]_vars PROVE TypeOK'
  OBVIOUS
<1>1. CASE UNCHANGED vars
  BY <1>1, TypeUnchanged DEF vars, TypeOK
<1>2. CASE Next
  BY <1>2, TypeTransmitPdcpPdu, TypeRetransmitPdu, TypeTransmitNewPdu, TypeTransmitStatusPdu,
     TypeDeliverData, TypeDeliverStatus, TypeExpirePollRetransmitTimer, TypeExpireReorderingTimer, TypeOtherSteps
     DEF Next
<1>3. QED
  BY <1>1, <1>2

\* Every reachable state of the two entities is well typed: each variable that
\* holds an SN stays inside the number space, across its wrap.
THEOREM TypeCorrect == Spec => []TypeOK
<1>1. Init => TypeOK
  BY TypeInit
<1>2. TypeOK /\ [Next]_vars => TypeOK'
  BY TypeStep
<1>3. QED
  BY <1>1, <1>2, PTL DEF Spec

-----------------------------------------------------------------------------
(* The inductive invariant.  The sequence numbers of the code are placed   *)
(* on the line of the PDU numbers: VT(A), VT(S) and VR(R) by the history   *)
(* variables, VR(MS), VR(H) and VR(X) by their distance from VR(R).        *)

MsN == rcvd + Off(vrMs, vrR)
HN == rcvd + Off(vrH, vrR)
XN == rcvd + Off(vrX, vrR)

\* The sender's window and the receiver's overlap.
WindowInv ==
    /\ vtA = SnOf(acked) /\ vtS = SnOf(sent) /\ vrR = SnOf(rcvd)
    /\ acked <= rcvd /\ MsN <= HN /\ HN <= sent /\ sent <= acked + WindowSize

\* t-Reordering covers the gaps that are not reported yet, and below VR(MS)
\* nothing is missing above VR(X).
ReorderingInv ==
    /\ MsN < HN => reorderingTimer
    /\ reorderingTimer => /\ rcvd < XN /\ XN <= HN
                          /\ \A n \in XN .. MsN - 1 : Received(n)

\* The sender holds PDUs of its window, each in one buffer.
TxBufferInv ==
    /\ \A p \in txedBuffer \cup retxBuffer : p.sn = SnOf(p.n) /\ acked <= p.n /\ p.n < sent
    /\ \A p \in txedBuffer, q \in retxBuffer : p.n # q.n

\* The receiver holds PDUs above VR(R) and below VR(H).
RxBufferInv == \A p \in rxonBuffer : p.sn = SnOf(p.n) /\ rcvd < p.n /\ p.n < HN

\* No copy in flight is older than MaxLag.
DataInv == \A m \in dataPdus : m.sn = SnOf(m.n) /\ m.n < sent /\ sent <= m.n + MaxLag

\* A STATUS PDU tells the truth for ever: what it does not report missing below
\* ACK_SN was received.
StatusInv ==
    \A s \in statusPdus :
       /\ s.ackSn = SnOf(s.ackN) /\ s.ackN <= sent /\ sent <= s.ackN + MaxLag
       /\ \A n \in 0 .. s.ackN - 1 : SnOf(n) \in s.nacks \/ Received(n)

\* What the sender does not hold any more was received.
ReleaseInv == \A n \in 0 .. sent - 1 : Holds(n) \/ Received(n)

IInv ==
    /\ TypeOK
    /\ WindowInv /\ ReorderingInv /\ TxBufferInv /\ RxBufferInv
    /\ DataInv /\ StatusInv /\ ReleaseInv

-----------------------------------------------------------------------------
(* Sequence numbers compared within a window                               *)

\* The sizes of the windows, as inequalities for the provers.
LEMMA Sizes ==
    /\ SNMod \in Nat /\ WindowSize \in Nat /\ MaxLag \in Nat
    /\ 1 <= WindowSize /\ WindowSize <= MaxLag /\ MaxLag + WindowSize <= SNMod
    /\ WindowSize < SNMod
  BY SnAssumption, AmAssumption

\* The receiving window takes the PDUs from r on, and no late copy below it.
LEMMA InsideIsAhead ==
    ASSUME NEW r \in Nat, NEW n \in Nat, n < r + WindowSize, r <= n + MaxLag
    PROVE  IsInsideReceivingWindow(SnOf(n), SnOf(r)) <=> r <= n
<1>1. /\ SnOf(n) \in Sn /\ SnOf(r) \in Sn /\ SnOf(r + WindowSize) \in Sn
      /\ r + WindowSize \in Nat
  BY Sizes, DivMod
<1>2. Plus(SnOf(r), WindowSize) = SnOf(r + WindowSize)
  BY Sizes, PlusSn
<1>3. /\ Off(SnOf(r), SnOf(r)) = 0
      /\ Off(SnOf(r + WindowSize), SnOf(r)) = WindowSize
  <2>1. Off(SnOf(r), SnOf(r)) = r - r
    BY Sizes, OffAhead
  <2>2. Off(SnOf(r + WindowSize), SnOf(r)) = r + WindowSize - r
    BY <1>1, Sizes, OffAhead
  <2>3. QED
    BY <2>1, <2>2, Sizes
<1>4. IsInsideReceivingWindow(SnOf(n), SnOf(r)) <=> Off(SnOf(n), SnOf(r)) < WindowSize
  <2>1. Off(SnOf(n), SnOf(r)) \in 0 .. SNMod - 1
    BY <1>1, OffType
  <2>2. Le(SnOf(r), SnOf(n), SnOf(r))
    BY <1>1, <1>3, <2>1, Sizes, ComparisonsFollowTheWindow
  <2>3. Lt(SnOf(n), SnOf(r + WindowSize), SnOf(r)) <=> Off(SnOf(n), SnOf(r)) < WindowSize
    BY <1>1, <1>3, ComparisonsFollowTheWindow
  <2>4. QED
    BY <1>2, <2>2, <2>3 DEF IsInsideReceivingWindow
<1>5. CASE r <= n
  BY <1>4, <1>5, Sizes, OffAhead
<1>6. CASE n < r
  <2>1. Off(SnOf(n), SnOf(r)) = SNMod - (r - n)
    BY <1>6, Sizes, OffBehind
  <2>2. ~ (SNMod - (r - n) < WindowSize)
    BY <1>6, Sizes
  <2>3. QED
    BY <1>4, <1>6, <2>1, <2>2
<1>7. QED
  BY <1>5, <1>6

\* The variables of the receiver on the line of the PDU numbers.
LEMMA Positions ==
    ASSUME TypeOK, WindowInv
    PROVE  /\ MsN \in Nat /\ HN \in Nat /\ XN \in Nat
           /\ sent \in Nat /\ acked \in Nat /\ rcvd \in Nat
           /\ rcvd <= MsN /\ rcvd <= HN /\ rcvd <= XN
           /\ XN < rcvd + SNMod
           /\ vrMs = SnOf(MsN) /\ vrH = SnOf(HN) /\ vrX = SnOf(XN)
           /\ rcvd <= sent /\ sent <= rcvd + WindowSize /\ HN <= rcvd + WindowSize
<1>1. /\ vrMs \in Sn /\ vrH \in Sn /\ vrX \in Sn /\ vrR \in Sn
      /\ sent \in Nat /\ acked \in Nat /\ rcvd \in Nat
  BY DEF TypeOK, TxTypeOK, RxTypeOK
<1>2. /\ Off(vrMs, vrR) \in 0 .. SNMod - 1 /\ Off(vrH, vrR) \in 0 .. SNMod - 1
      /\ Off(vrX, vrR) \in 0 .. SNMod - 1
  BY <1>1, OffType
<1>3. /\ vrMs = SnOf(rcvd + Off(vrMs, vrR)) /\ vrH = SnOf(rcvd + Off(vrH, vrR))
      /\ vrX = SnOf(rcvd + Off(vrX, vrR))
  BY <1>1, SnAt DEF WindowInv
<1>4. MsN \in Nat /\ HN \in Nat /\ XN \in Nat
  BY <1>1, <1>2, Sizes DEF MsN, HN, XN
<1>5. rcvd <= MsN /\ rcvd <= HN /\ rcvd <= XN /\ XN < rcvd + SNMod
  BY <1>1, <1>2, Sizes DEF MsN, HN, XN
<1>6. rcvd <= sent /\ sent <= rcvd + WindowSize /\ HN <= rcvd + WindowSize
  BY <1>1, <1>4, <1>5, Sizes DEF WindowInv
<1>7. QED
  BY <1>1, <1>3, <1>4, <1>5, <1>6 DEF MsN, HN, XN

\* A variable that holds the SN of a PDU not far ahead of VR(R) lies there.
LEMMA PositionIs ==
    ASSUME NEW r \in Nat, NEW n \in Nat, r <= n, n < r + SNMod
    PROVE  r + Off(SnOf(n), SnOf(r)) = n
  BY OffAhead, Sizes

-----------------------------------------------------------------------------
(* What a step leaves alone stays true                                     *)

\* A step keeps each part of the invariant that is about nothing it changes.
LEMMA Frame ==
    /\ WindowInv /\ UNCHANGED <<vtA, vtS, vrR, vrMs, vrH, acked, sent, rcvd>> => WindowInv'
    /\ ReorderingInv /\ UNCHANGED <<reorderingTimer, rcvd, vrR, vrMs, vrH, vrX, rxonBuffer>>
          => ReorderingInv'
    /\ TxBufferInv /\ UNCHANGED <<txedBuffer, retxBuffer, acked, sent>> => TxBufferInv'
    /\ RxBufferInv /\ UNCHANGED <<rxonBuffer, rcvd, vrR, vrH>> => RxBufferInv'
    /\ DataInv /\ dataPdus' \subseteq dataPdus /\ UNCHANGED sent => DataInv'
    /\ StatusInv /\ statusPdus' \subseteq statusPdus /\ UNCHANGED <<sent, rxonBuffer, rcvd>>
          => StatusInv'
    /\ ReleaseInv /\ UNCHANGED <<txedBuffer, retxBuffer, sent, rxonBuffer, rcvd>> => ReleaseInv'
<1>1. WindowInv /\ UNCHANGED <<vtA, vtS, vrR, vrMs, vrH, acked, sent, rcvd>> => WindowInv'
  BY DEF WindowInv, MsN, HN
<1>2. ReorderingInv /\ UNCHANGED <<reorderingTimer, rcvd, vrR, vrMs, vrH, vrX, rxonBuffer>>
          => ReorderingInv'
  BY DEF ReorderingInv, MsN, HN, XN, Received
<1>3. TxBufferInv /\ UNCHANGED <<txedBuffer, retxBuffer, acked, sent>> => TxBufferInv'
  BY DEF TxBufferInv
<1>4. RxBufferInv /\ UNCHANGED <<rxonBuffer, rcvd, vrR, vrH>> => RxBufferInv'
  BY DEF RxBufferInv, HN
<1>5. DataInv /\ dataPdus' \subseteq dataPdus /\ UNCHANGED sent => DataInv'
  BY DEF DataInv
<1>6. StatusInv /\ statusPdus' \subseteq statusPdus /\ UNCHANGED <<sent, rxonBuffer, rcvd>>
          => StatusInv'
  BY DEF StatusInv, Received
<1>7. ReleaseInv /\ UNCHANGED <<txedBuffer, retxBuffer, sent, rxonBuffer, rcvd>> => ReleaseInv'
  BY DEF ReleaseInv, Received, Holds
<1>8. QED
  BY <1>1, <1>2, <1>3, <1>4, <1>5, <1>6, <1>7

-----------------------------------------------------------------------------
(* Buffers as sets of PDU numbers                                          *)

\* The records of the buffers and of the flows carry PDU numbers.
LEMMA Numbers ==
    ASSUME TypeOK
    PROVE  /\ \A p \in txedBuffer \cup retxBuffer : p.n \in Nat /\ p.sn \in Sn
           /\ \A p \in rxonBuffer : p.n \in Nat
           /\ \A m \in dataPdus : m.n \in Nat
           /\ \A s \in statusPdus : s.ackN \in Nat /\ s.ackSn \in Sn
  BY DEF TypeOK, TxTypeOK, RxTypeOK, NetTypeOK, HeldPdu, RxPdu, DataPdu, StatusPdu

\* The PDUs the sender holds have different SNs when they are different PDUs.
LEMMA HeldDiffer ==
    ASSUME TypeOK, WindowInv, TxBufferInv,
           NEW p \in txedBuffer \cup retxBuffer, NEW q \in txedBuffer \cup retxBuffer
    PROVE  p.sn = q.sn <=> p.n = q.n
<1>1. /\ p.n \in Nat /\ q.n \in Nat /\ p.sn = SnOf(p.n) /\ q.sn = SnOf(q.n)
      /\ acked <= p.n /\ p.n < sent /\ acked <= q.n /\ q.n < sent
  BY Numbers DEF TxBufferInv
<1>2. p.n < q.n + SNMod /\ q.n < p.n + SNMod
  BY <1>1, Positions, Sizes DEF WindowInv
<1>3. QED
  BY <1>1, <1>2, SnUnique

-----------------------------------------------------------------------------
(* The sender                                                              *)

\* RetransmitPdu keeps the invariant.
LEMMA WindowRetransmitPdu ==
    ASSUME IInv, NEW bytes \in 1 .. MaxDataField, RetransmitPdu(bytes)
    PROVE  TxBufferInv' /\ DataInv' /\ ReleaseInv'
<1>1. PICK e \in retxBuffer :
         /\ retxBuffer' = {p \in retxBuffer : p.sn # e.sn}
         /\ txedBuffer' = {p \in txedBuffer : p.sn # e.sn}
                               \cup {[e EXCEPT !.retx = RetxCount(e)]}
         /\ dataPdus' = dataPdus \cup
              {[n |-> e.n, sn |-> e.sn, data |-> e.data, poll |-> PollsAgain(e)]}
  BY Zenon DEF RetransmitPdu
<1>2. UNCHANGED <<acked, sent, rcvd, rxonBuffer>>
  BY DEF RetransmitPdu, rxVars
<1> DEFINE f == [e EXCEPT !.retx = RetxCount(e)]
<1>3. f.n = e.n /\ f.sn = e.sn
  BY DEF IInv, TypeOK, TxTypeOK, HeldPdu
<1>4. e.n \in Nat /\ e.sn = SnOf(e.n) /\ acked <= e.n /\ e.n < sent
  BY Numbers DEF IInv, TxBufferInv
<1>5. \A p \in txedBuffer \cup retxBuffer : p.sn = e.sn <=> p.n = e.n
  BY HeldDiffer DEF IInv
<1> HIDE DEF f
<1>6. txedBuffer' \cup retxBuffer' = {p \in txedBuffer \cup retxBuffer : p.sn # e.sn} \cup {f}
  BY <1>1 DEF f
<1>7. TxBufferInv'
  <2>1. \A p \in (txedBuffer \cup retxBuffer)' : p.sn = SnOf(p.n) /\ acked' <= p.n /\ p.n < sent'
    BY <1>2, <1>3, <1>4, <1>6 DEF IInv, TxBufferInv
  <2>2. ASSUME NEW p \in txedBuffer', NEW q \in retxBuffer' PROVE p.n # q.n
    <3>1. q \in retxBuffer /\ q.n # e.n
      BY <1>1, <1>5
    <3>2. CASE p \in txedBuffer
      BY <3>1, <3>2 DEF IInv, TxBufferInv
    <3>3. CASE p = f
      BY <1>3, <3>1, <3>3
    <3>4. QED
      BY <1>1, <3>2, <3>3 DEF f
  <2>3. QED
    BY <2>1, <2>2 DEF TxBufferInv
<1>8. DataInv'
  <2>1. sent <= e.n + MaxLag
    BY <1>4, Positions, Sizes DEF IInv, WindowInv
  <2>2. QED
    BY <1>1, <1>2, <1>4, <2>1 DEF IInv, DataInv
<1>9. ReleaseInv'
  <2>1. ASSUME NEW n \in 0 .. sent - 1, Holds(n) PROVE Holds(n)'
    <3>1. PICK p \in txedBuffer \cup retxBuffer : p.n = n
      BY <2>1 DEF Holds
    <3>2. CASE p.sn = e.sn
      BY <1>3, <1>5, <1>6, <3>1, <3>2 DEF Holds
    <3>3. CASE p.sn # e.sn
      BY <1>6, <3>1, <3>3 DEF Holds
    <3>4. QED
      BY <3>2, <3>3
  <2>2. QED
    BY <1>2, <2>1 DEF IInv, ReleaseInv, Received
<1>10. QED
  BY <1>7, <1>8, <1>9

\* TransmitNewPdu keeps the invariant.
LEMMA WindowTransmitNewPdu ==
    ASSUME IInv, NEW bytes \in 1 .. MaxDataField, TransmitNewPdu(bytes)
    PROVE  WindowInv' /\ TxBufferInv' /\ DataInv' /\ StatusInv' /\ ReleaseInv'
<1>1. PICK data :
         /\ txedBuffer' = {p \in txedBuffer : p.sn # vtS}
                             \cup {[n |-> sent, sn |-> vtS, data |-> data, retx |-> 0]}
         /\ dataPdus' = {p \in dataPdus : p.n + MaxLag > sent}
                           \cup {[n |-> sent, sn |-> vtS, data |-> data, poll |-> TRUE]}
  BY Zenon DEF TransmitNewPdu
<1>2. /\ statusPdus' = {s \in statusPdus : s.ackN + MaxLag > sent}
      /\ vtS' = Plus(vtS, 1) /\ sent' = sent + 1 /\ vtS # VtMs
      /\ UNCHANGED <<retxBuffer, vtA, acked, rcvd, rxonBuffer, vrR, vrMs, vrH>>
  BY DEF TransmitNewPdu, rxVars
<1>3. /\ sent \in Nat /\ acked \in Nat /\ rcvd \in Nat /\ sent <= acked + WindowSize
      /\ vtS = SnOf(sent) /\ vtA = SnOf(acked)
      /\ HN <= sent /\ HN \in Nat
  BY Positions DEF IInv, WindowInv
<1>4. sent < acked + WindowSize
  <2>1. VtMs = SnOf(acked + WindowSize)
    BY <1>3, PlusSn, Sizes DEF VtMs
  <2>2. sent # acked + WindowSize
    BY <1>2, <1>3, <2>1
  <2>3. QED
    BY <1>3, <2>2, Sizes
<1>5. WindowInv'
  <2>1. vtS' = SnOf(sent + 1)
    BY <1>2, <1>3, PlusSn
  <2>2. HN' = HN /\ MsN' = MsN
    BY <1>2 DEF HN, MsN
  <2>3. HN' <= sent'
    BY <1>2, <1>3, <2>2
  <2>4. sent' <= acked' + WindowSize
    BY <1>2, <1>3, <1>4, Sizes
  <2>5. QED
    BY <1>2, <2>1, <2>2, <2>3, <2>4 DEF IInv, WindowInv
<1>6. ASSUME NEW p \in txedBuffer \cup retxBuffer
      PROVE  p.n \in Nat /\ p.sn = SnOf(p.n) /\ acked <= p.n /\ p.n < sent /\ p.sn # vtS
  <2>1. p.n \in Nat /\ p.sn = SnOf(p.n) /\ acked <= p.n /\ p.n < sent
    BY Numbers DEF IInv, TxBufferInv
  <2>2. p.n < sent + SNMod /\ sent < p.n + SNMod
    BY <1>3, <2>1, Sizes
  <2>3. QED
    BY <1>3, <2>1, <2>2, SnUnique
<1>7. TxBufferInv'
  <2>1. \A p \in (txedBuffer \cup retxBuffer)' : p.sn = SnOf(p.n) /\ acked' <= p.n /\ p.n < sent'
    <3>1. ASSUME NEW p \in (txedBuffer \cup retxBuffer)'
          PROVE  p.sn = SnOf(p.n) /\ acked <= p.n /\ p.n < sent + 1
      <4>1. CASE p \in txedBuffer \cup retxBuffer
        BY <1>3, <1>6, <4>1
      <4>2. CASE p \notin txedBuffer \cup retxBuffer
        <5>1. p.n = sent /\ p.sn = vtS
          BY <1>1, <1>2, <4>2
        <5>2. acked <= sent
          BY Positions DEF IInv, WindowInv
        <5>3. QED
          BY <1>3, <5>1, <5>2
      <4>3. QED
        BY <4>1, <4>2
    <3>2. QED
      BY <1>2, <3>1
  <2>2. retxBuffer' = {}
    BY <1>2 DEF TransmitNewPdu
  <2>3. QED
    BY <2>1, <2>2 DEF TxBufferInv
<1>8. DataInv'
  <2>1. ASSUME NEW m \in dataPdus, m.n + MaxLag > sent
        PROVE  m.sn = SnOf(m.n) /\ m.n < sent + 1 /\ sent + 1 <= m.n + MaxLag
    BY <1>3, <2>1, Numbers, Sizes DEF IInv, DataInv
  <2>2. sent < sent + 1 /\ sent + 1 <= sent + MaxLag
    BY <1>3, Sizes
  <2>3. QED
    BY <1>1, <1>2, <1>3, <2>1, <2>2 DEF DataInv
<1>9. StatusInv'
  <2>1. ASSUME NEW s \in statusPdus, s.ackN + MaxLag > sent
        PROVE  s.ackN <= sent + 1 /\ sent + 1 <= s.ackN + MaxLag
    BY <1>3, <2>1, Numbers, Sizes DEF IInv, StatusInv
  <2>2. ASSUME NEW s \in statusPdus'
        PROVE  /\ s.ackSn = SnOf(s.ackN) /\ s.ackN <= sent' /\ sent' <= s.ackN + MaxLag
               /\ \A n \in 0 .. s.ackN - 1 : SnOf(n) \in s.nacks \/ Received(n)'
    <3>1. s \in statusPdus /\ s.ackN + MaxLag > sent
      BY <1>2
    <3>2. \A n : Received(n)' <=> Received(n)
      BY <1>2 DEF Received
    <3>3. QED
      BY <1>2, <2>1, <3>1, <3>2 DEF IInv, StatusInv
  <2>3. QED
    BY <2>2 DEF StatusInv
<1>10. ReleaseInv'
  <2>1. ASSUME NEW n \in 0 .. sent, n # sent, Holds(n) PROVE Holds(n)'
    BY <1>1, <1>2, <1>6, <2>1 DEF Holds
  <2>2. ASSUME NEW n \in 0 .. sent, n = sent PROVE Holds(n)'
    <3> DEFINE new == [n |-> sent, sn |-> vtS, data |-> data, retx |-> 0]
    <3>1. new \in txedBuffer' /\ new.n = n
      BY <1>1, <2>2
    <3>2. QED
      BY <3>1 DEF Holds
  <2>3. 0 .. sent' - 1 = 0 .. sent
    BY <1>2, <1>3
  <2>4. ASSUME NEW n \in 0 .. sent PROVE (Holds(n) \/ Received(n))'
    <3>1. CASE n = sent
      BY <2>2, <3>1
    <3>2. CASE n # sent
      BY <1>2, <1>3, <2>1, <3>2 DEF IInv, ReleaseInv, Received
    <3>3. QED
      BY <3>1, <3>2
  <2>5. QED
    BY <2>3, <2>4 DEF ReleaseInv
<1>11. QED
  BY <1>5, <1>7, <1>8, <1>9, <1>10

\* ExpirePollRetransmitTimer keeps the invariant.
LEMMA WindowExpirePollRetransmitTimer ==
    ASSUME IInv, ExpirePollRetransmitTimer
    PROVE  TxBufferInv' /\ ReleaseInv'
<1> DEFINE moved == {p \in txedBuffer : Lt(p.sn, vtS, vtA)}
<1>1. \/ retxBuffer' = retxBuffer \cup moved /\ txedBuffer' = txedBuffer \ moved
      \/ retxBuffer' = retxBuffer /\ txedBuffer' = txedBuffer
  BY DEF ExpirePollRetransmitTimer
<1>2. UNCHANGED <<acked, sent, rcvd, rxonBuffer>>
  BY DEF ExpirePollRetransmitTimer, rxVars
<1>3. txedBuffer' \cup retxBuffer' = txedBuffer \cup retxBuffer
  BY <1>1
<1>4. ASSUME NEW p \in txedBuffer', NEW q \in retxBuffer' PROVE p.n # q.n
  <2>1. p \in txedBuffer
    BY <1>1
  <2>2. CASE q \in retxBuffer
    BY <2>1, <2>2 DEF IInv, TxBufferInv
  <2>3. CASE q \notin retxBuffer
    <3>1. q \in moved /\ p \notin moved
      BY <1>1, <2>3
    <3>2. p.sn # q.sn
      BY <2>1, <3>1
    <3>3. QED
      BY <2>1, <3>1, <3>2, HeldDiffer DEF IInv
  <2>4. QED
    BY <2>2, <2>3
<1>5. TxBufferInv'
  BY <1>2, <1>3, <1>4 DEF IInv, TxBufferInv
<1>6. ReleaseInv'
  BY <1>2, <1>3 DEF IInv, ReleaseInv, Holds, Received
<1>7. QED
  BY <1>5, <1>6

\* A STATUS PDU in flight that is valid is not older than VT(A): one that is
\* older looks ahead of VT(S), because no copy outlives MaxLag.
LEMMA ValidIsRecent ==
    ASSUME IInv, NEW s \in statusPdus, IsValid(s)
    PROVE  acked <= s.ackN /\ s.ackN <= sent
<1>1. /\ s.ackN \in Nat /\ s.ackSn = SnOf(s.ackN) /\ s.ackN <= sent /\ sent <= s.ackN + MaxLag
  BY Numbers DEF IInv, StatusInv
<1>2. /\ sent \in Nat /\ acked \in Nat /\ acked <= sent /\ sent <= acked + WindowSize
      /\ vtA = SnOf(acked) /\ vtS = SnOf(sent)
  BY Positions DEF IInv, WindowInv
<1>3. SUFFICES ASSUME s.ackN < acked PROVE FALSE
  BY <1>1, <1>2
<1>4. Off(s.ackSn, vtA) = SNMod - (acked - s.ackN)
  BY <1>1, <1>2, <1>3, OffBehind, Sizes
<1>5. Off(vtS, vtA) = sent - acked
  BY <1>2, OffAhead, Sizes
<1>6. vtA \in Sn /\ vtS \in Sn /\ s.ackSn \in Sn
  BY <1>1, <1>2, DivMod
<1>7. Off(s.ackSn, vtA) <= Off(vtS, vtA)
  BY <1>6, ComparisonsFollowTheWindow DEF IsValid
<1>8. QED
  BY <1>1, <1>2, <1>4, <1>5, <1>7, Sizes

\* ReceiveStatusPdu keeps the invariant.
LEMMA WindowReceiveStatusPdu ==
    ASSUME IInv, NEW s \in statusPdus, ReceiveStatusPdu(s), UNCHANGED rxVars
    PROVE  WindowInv' /\ TxBufferInv' /\ ReleaseInv' /\ UNCHANGED sent
<1>1. UNCHANGED <<vrR, vrMs, vrH, rcvd, rxonBuffer>>
  BY DEF rxVars
<1>2. CASE ~ IsValid(s) /\ UNCHANGED txVars
  <2>1. UNCHANGED <<vtA, vtS, acked, sent, txedBuffer, retxBuffer>>
    BY <1>2 DEF txVars
  <2>2. QED
    BY <1>1, <2>1, Frame DEF IInv
<1>3. CASE IsValid(s) /\ ~ (~ IsValid(s) /\ UNCHANGED txVars)
  <2> DEFINE held == txedBuffer \cup retxBuffer
             k == s.ackN
  <2>1. /\ retxBuffer' = {p \in retxBuffer : Covers(s, p.sn) => Nacked(s, p.sn)}
                            \cup {p \in txedBuffer : Nacked(s, p.sn)}
        /\ txedBuffer' = {p \in txedBuffer : ~ Covers(s, p.sn)}
    BY <1>3, Zenon DEF ReceiveStatusPdu
  <2>2. PICK sn \in Sn : /\ Le(sn, s.ackSn, vtA)
                         /\ \A r \in Sn : Lt(r, sn, vtA) => ~ Nacked(s, r)
                         /\ vtA' = sn
                         /\ acked' = acked + Off(sn, vtA)
    BY <1>3, Zenon DEF ReceiveStatusPdu
  <2>3. vtS' = vtS /\ sent' = sent
    BY <1>3, Zenon DEF ReceiveStatusPdu
  <2>4. /\ k \in Nat /\ s.ackSn = SnOf(k) /\ acked <= k /\ k <= sent
        /\ sent \in Nat /\ acked \in Nat /\ rcvd \in Nat /\ acked <= rcvd
        /\ sent <= acked + WindowSize /\ vtA = SnOf(acked)
    BY <1>3, ValidIsRecent, Numbers, Positions DEF IInv, WindowInv, StatusInv
  <2> HIDE DEF k
  <2>5. ASSUME NEW n \in Nat, acked <= n, n < sent
        PROVE  Covers(s, SnOf(n)) <=> n < k
    BY <2>4, <2>5, CompareAhead, Sizes DEF Covers
  <2>6. ASSUME NEW p \in held
        PROVE  /\ p.n \in Nat /\ p.sn = SnOf(p.n) /\ p.sn \in Sn /\ acked <= p.n /\ p.n < sent
               /\ Covers(s, p.sn) <=> p.n < k
               /\ Nacked(s, p.sn) <=> p.n < k /\ p.sn \in s.nacks
    <3>1. p.n \in Nat /\ p.sn = SnOf(p.n) /\ p.sn \in Sn /\ acked <= p.n /\ p.n < sent
      BY Numbers DEF IInv, TxBufferInv
    <3>2. Covers(s, p.sn) <=> p.n < k
      BY <2>5, <3>1
    <3>3. Has(held, p.sn)
      BY DEF Has
    <3>4. QED
      BY <3>1, <3>2, <3>3 DEF Nacked
  <2>7. acked' \in Nat /\ acked <= acked' /\ acked' <= k /\ sn = SnOf(acked') /\ vtA' = SnOf(acked')
    <3>1. Off(sn, vtA) \in 0 .. SNMod - 1
      BY OffType DEF IInv, TypeOK, TxTypeOK
    <3>2. acked' \in Nat /\ acked <= acked' /\ acked' < acked + SNMod
      BY <2>2, <2>4, <3>1, Sizes
    <3>3. sn = SnOf(acked')
      BY <2>2, <2>4, SnAt
    <3>4. Le(SnOf(acked'), SnOf(k), SnOf(acked)) <=> acked' <= k
      BY <2>4, <3>2, CompareAhead, Sizes
    <3>5. QED
      BY <2>2, <2>4, <3>2, <3>3, <3>4
  <2>8. ASSUME NEW n \in Nat, acked <= n, n < acked' PROVE ~ Nacked(s, SnOf(n))
    <3>1. Lt(SnOf(n), SnOf(acked'), SnOf(acked))
      BY <2>4, <2>7, <2>8, CompareAhead, Sizes
    <3>2. SnOf(n) \in Sn
      BY DivMod
    <3>3. QED
      BY <2>2, <2>4, <2>7, <3>1, <3>2
  <2>9. acked' <= rcvd
    <3>1. SUFFICES ASSUME rcvd < acked' PROVE FALSE
      BY <2>4, <2>7
    <3>2. ~ Received(rcvd)
      BY <2>4, Numbers DEF IInv, RxBufferInv, Received
    <3>3. rcvd \in 0 .. k - 1 /\ rcvd \in 0 .. sent - 1
      BY <2>4, <2>7, <3>1
    <3>4. SnOf(rcvd) \in s.nacks
      BY <3>2, <3>3 DEF IInv, StatusInv, k
    <3>5. PICK p \in held : p.n = rcvd
      BY <3>2, <3>3 DEF IInv, ReleaseInv, Holds
    <3>6. Nacked(s, SnOf(rcvd))
      <4>1. p.sn = SnOf(rcvd)
        BY <2>6, <3>5
      <4>2. p.n < k
        BY <2>4, <3>3, <3>5
      <4>3. QED
        BY <2>6, <3>4, <4>1, <4>2
    <3>7. QED
      BY <2>4, <2>8, <3>1, <3>6
  <2>10. WindowInv'
    <3>1. HN' = HN /\ MsN' = MsN
      BY <1>1 DEF HN, MsN
    <3>2. sent' <= acked' + WindowSize
      <4>1. \A x \in Nat : acked <= x => sent <= x + WindowSize
        BY <2>4, Sizes
      <4>2. QED
        BY <2>3, <2>7, <4>1
    <3>3. QED
      BY <1>1, <2>3, <2>7, <2>9, <3>1, <3>2 DEF IInv, WindowInv
  <2>11. TxBufferInv'
    <3>1. ASSUME NEW p \in txedBuffer' \cup retxBuffer'
          PROVE  p \in held /\ acked' <= p.n
      <4>1. p \in held /\ (Covers(s, p.sn) => Nacked(s, p.sn))
        BY <2>1, Zenon DEF Nacked
      <4>2. ~ (p.n < acked')
        BY <2>6, <2>7, <2>8, <2>4, <4>1
      <4>3. QED
        BY <2>6, <2>7, <4>1, <4>2
    <3>2. ASSUME NEW p \in txedBuffer', NEW q \in retxBuffer' PROVE p.n # q.n
      <4>1. p \in txedBuffer /\ ~ Covers(s, p.sn)
        BY <2>1
      <4>2. CASE q \in retxBuffer
        BY <4>1, <4>2 DEF IInv, TxBufferInv
      <4>3. CASE q \in txedBuffer /\ Nacked(s, q.sn)
        <5>1. p.sn # q.sn
          BY <4>1, <4>3 DEF Nacked
        <5>2. QED
          BY <4>1, <4>3, <5>1, HeldDiffer DEF IInv
      <4>4. QED
        BY <2>1, <4>2, <4>3
    <3>3. ASSUME NEW p \in (txedBuffer \cup retxBuffer)'
          PROVE  p.sn = SnOf(p.n) /\ acked' <= p.n /\ p.n < sent'
      BY <2>3, <2>6, <3>1
    <3>4. QED
      BY <3>2, <3>3 DEF TxBufferInv
  <2>12. ReleaseInv'
    <3>1. ASSUME NEW n \in 0 .. sent - 1, ~ Received(n) PROVE Holds(n)'
      <4>1. PICK p \in held : p.n = n
        BY <3>1 DEF IInv, ReleaseInv, Holds
      <4>2. CASE n < k
        <5>1. n \in 0 .. k - 1
          BY <2>4, <4>2
        <5>2. SnOf(n) \in s.nacks
          BY <3>1, <5>1 DEF IInv, StatusInv, k
        <5>3. Nacked(s, p.sn)
          BY <2>6, <4>1, <4>2, <5>2
        <5>4. p \in retxBuffer'
          BY <2>1, <5>3
        <5>5. QED
          BY <4>1, <5>4 DEF Holds
      <4>3. CASE ~ (n < k)
        <5>1. ~ Covers(s, p.sn)
          BY <2>6, <4>1, <4>3
        <5>2. p \in txedBuffer' \cup retxBuffer'
          BY <2>1, <5>1
        <5>3. QED
          BY <4>1, <5>2 DEF Holds
      <4>4. QED
        BY <4>2, <4>3
    <3>2. QED
      BY <1>1, <2>3, <3>1 DEF ReleaseInv, Received
  <2>13. QED
    BY <2>3, <2>10, <2>11, <2>12
<1>4. QED
  BY <1>2, <1>3, Zenon DEF ReceiveStatusPdu

-----------------------------------------------------------------------------
(* The receiver                                                            *)

\* A data PDU inside the receiving window moves the variables of the receiver
\* forward, up to VR(H), and what was received stays received.
LEMMA ReceiverAdvances ==
    ASSUME IInv, NEW m \in dataPdus, IsInsideReceivingWindow(m.sn, vrR), ReceiveDataPdu(m)
    PROVE  \E ms \in Nat, h \in Nat :
              /\ rcvd' \in Nat /\ vrR' = SnOf(rcvd') /\ vrMs' = SnOf(ms) /\ vrH' = SnOf(h)
              /\ rcvd <= rcvd' /\ rcvd' <= ms /\ ms <= h /\ h <= sent
              /\ MsN <= ms /\ HN <= h
              /\ \A p \in rxonBuffer' : p.sn = SnOf(p.n) /\ rcvd' < p.n /\ p.n < h
              /\ \A n \in Nat : Received(n) \/ (MsN <= n /\ n < ms) => Received(n)'
<1> DEFINE new == [n |-> m.n, sn |-> m.sn, data |-> m.data]
           buffer == IF Has(rxonBuffer, m.sn) THEN rxonBuffer ELSE rxonBuffer \cup {new}
           h == IF m.n >= HN THEN m.n + 1 ELSE HN
<1>1. /\ m.n \in Nat /\ m.sn = SnOf(m.n) /\ m.n < sent /\ sent <= m.n + MaxLag
  BY Numbers DEF IInv, DataInv
<1>2. /\ rcvd \in Nat /\ HN \in Nat /\ MsN \in Nat /\ sent \in Nat
      /\ rcvd <= MsN /\ MsN <= HN /\ HN <= sent /\ rcvd <= sent /\ sent <= rcvd + WindowSize
      /\ vrR = SnOf(rcvd) /\ vrMs = SnOf(MsN) /\ vrH = SnOf(HN)
  BY Positions DEF IInv, WindowInv
<1>3. rcvd <= m.n
  <2>1. m.n < rcvd + WindowSize /\ rcvd <= m.n + MaxLag
    BY <1>1, <1>2, Sizes
  <2>2. QED
    BY <1>1, <1>2, <2>1, InsideIsAhead
<1>4. h \in Nat /\ HN <= h /\ m.n < h /\ h <= sent /\ h < rcvd + SNMod
  BY <1>1, <1>2, Sizes
<1>5. new.n = m.n /\ new.sn = m.sn
  OBVIOUS
<1> HIDE DEF new
<1>6. \A p \in rxonBuffer : p.n \in Nat /\ p.sn = SnOf(p.n) /\ rcvd < p.n /\ p.n < HN
  BY Numbers DEF IInv, RxBufferInv
<1>7. \A p \in buffer : p.n \in Nat /\ p.sn = SnOf(p.n) /\ rcvd <= p.n /\ p.n < h
  BY <1>1, <1>2, <1>3, <1>4, <1>5, <1>6
<1>8. rxonBuffer \subseteq buffer
  OBVIOUS
<1>9. \E p \in buffer : p.n = m.n
  <2>1. CASE Has(rxonBuffer, m.sn)
    <3>1. PICK p \in rxonBuffer : p.sn = m.sn
      BY <2>1 DEF Has
    <3>2. /\ p.n < m.n + SNMod /\ m.n < p.n + SNMod /\ SnOf(p.n) = SnOf(m.n) /\ p.n \in Nat
      BY <1>1, <1>2, <1>3, <1>6, <3>1, Sizes
    <3>3. p.n = m.n
      BY <1>1, <3>2, SnUnique
    <3>4. QED
      BY <1>8, <3>1, <3>3
  <2>2. CASE ~ Has(rxonBuffer, m.sn)
    BY <1>5, <2>2
  <2>3. QED
    BY <2>1, <2>2
<1>10. /\ vrH' = IF Ge(m.sn, vrH, vrR) THEN Plus(m.sn, 1) ELSE vrH
       /\ \E k \in 0 .. SNMod - 1 : IsRun(buffer, vrMs, k) /\ vrMs' = Plus(vrMs, k)
       /\ m.sn = vrR => \E k \in 0 .. SNMod - 1 : IsRun(buffer, vrR, k) /\ DeliverRun(buffer, k)
       /\ m.sn # vrR => rxonBuffer' = buffer /\ vrR' = vrR /\ rcvd' = rcvd
  BY DEF ReceiveDataPdu, new
<1> HIDE DEF buffer
<1>11. vrH' = SnOf(h)
  <2>1. Ge(m.sn, vrH, vrR) <=> m.n >= HN
    <3>1. m.n < rcvd + SNMod /\ HN < rcvd + SNMod /\ rcvd <= HN
      BY <1>1, <1>2, Sizes
    <3>2. QED
      BY <1>1, <1>2, <1>3, <3>1, CompareAhead
  <2>2. Plus(m.sn, 1) = SnOf(m.n + 1)
    BY <1>1, PlusSn
  <2>3. QED
    BY <1>2, <1>10, <2>1, <2>2
<1> HIDE DEF h
<1>12. PICK k \in 0 .. SNMod - 1 : IsRun(buffer, vrMs, k) /\ vrMs' = Plus(vrMs, k)
  BY <1>10
<1> DEFINE ms == MsN + k
<1>13. /\ ms \in Nat /\ ms <= h /\ vrMs' = SnOf(ms)
       /\ \A x \in MsN .. ms - 1 : \E p \in buffer : p.n = x
       /\ \A p \in buffer : p.n # ms
  <2>1. IsRun(buffer, SnOf(MsN), k)
    BY <1>2, <1>12
  <2>2. MsN <= h
    BY <1>2, <1>4
  <2>3. QED
    BY <1>2, <1>4, <1>7, <1>12, <2>1, <2>2, RunEnds
<1>14. MsN <= ms
  BY <1>2, Sizes
<1> HIDE DEF ms
<1>15. CASE m.sn # vrR
  <2>1. m.n # rcvd
    BY <1>1, <1>2, <1>15
  <2>2. rxonBuffer' = buffer /\ vrR' = vrR /\ rcvd' = rcvd
    BY <1>10, <1>15
  <2>3. \A p \in rxonBuffer' : p.sn = SnOf(p.n) /\ rcvd' < p.n /\ p.n < h
    <3>1. \A p \in buffer : p.n # rcvd
      BY <1>2, <1>5, <1>6, <2>1 DEF buffer
    <3>2. QED
      BY <1>2, <1>7, <2>2, <3>1
  <2>4. \A n \in Nat : Received(n) \/ (MsN <= n /\ n < ms) => Received(n)'
    BY <1>2, <1>8, <1>13, <2>2 DEF Received
  <2>5. rcvd' \in Nat /\ rcvd <= rcvd' /\ rcvd' <= ms /\ vrR' = SnOf(rcvd')
    BY <1>2, <1>13, <1>14, <2>2
  <2>6. QED
    BY <1>4, <1>11, <1>13, <1>14, <2>3, <2>4, <2>5
<1>16. CASE m.sn = vrR
  <2>1. PICK c \in 0 .. SNMod - 1 : IsRun(buffer, vrR, c) /\ DeliverRun(buffer, c)
    BY <1>10, <1>16
  <2> DEFINE r == rcvd + c
  <2>2. /\ rxonBuffer' = {p \in buffer : \A j \in 0 .. c - 1 : p.sn # Plus(vrR, j)}
        /\ vrR' = Plus(vrR, c) /\ rcvd' = r
    BY <2>1 DEF DeliverRun
  <2>3. /\ r \in Nat /\ r <= h /\ vrR' = SnOf(r)
        /\ \A x \in rcvd .. r - 1 : \E p \in buffer : p.n = x
        /\ \A p \in buffer : p.n # r
    <3>1. IsRun(buffer, SnOf(rcvd), c)
      BY <1>2, <2>1
    <3>2. rcvd <= h
      BY <1>2, <1>4
    <3>3. vrR' = Plus(SnOf(rcvd), c)
      BY <1>2, <2>2
    <3>4. QED
      BY <1>2, <1>4, <1>7, <2>1, <3>1, <3>2, <3>3, RunEnds
  <2>4. rcvd <= r
    BY <1>2, Sizes
  <2>5. r <= ms
    <3>1. SUFFICES ASSUME ms < r PROVE FALSE
      BY <1>13, <2>3
    <3>2. ms \in rcvd .. r - 1
      BY <1>2, <1>13, <1>14, <2>3, <3>1
    <3>3. QED
      BY <1>13, <2>3, <3>2
  <2>6. ASSUME NEW p \in buffer PROVE p \in rxonBuffer' <=> r < p.n
    <3>1. ASSUME NEW j \in 0 .. c - 1 PROVE p.sn = Plus(vrR, j) <=> p.n = rcvd + j
      <4>1. j \in Nat /\ rcvd + j \in Nat /\ rcvd + j < rcvd + SNMod
        BY <1>2, Sizes
      <4>2. Plus(vrR, j) = SnOf(rcvd + j)
        BY <1>2, <4>1, PlusSn
      <4>3. p.n < rcvd + j + SNMod /\ rcvd + j < p.n + SNMod
        BY <1>2, <1>4, <1>7, <4>1, Sizes
      <4>4. QED
        BY <1>7, <4>1, <4>2, <4>3, SnUnique
    <3>2. p \in rxonBuffer' <=> \A j \in 0 .. c - 1 : p.n # rcvd + j
      BY <2>2, <3>1
    <3>3. (\A j \in 0 .. c - 1 : p.n # rcvd + j) <=> ~ (p.n < r)
      <4>1. p.n \in Nat /\ rcvd <= p.n
        BY <1>7
      <4>2. p.n < r => p.n - rcvd \in 0 .. c - 1 /\ p.n = rcvd + (p.n - rcvd)
        BY <1>2, <4>1
      <4>3. \A j \in 0 .. c - 1 : p.n = rcvd + j => p.n < r
        BY <1>2, <4>1
      <4>4. QED
        BY <4>2, <4>3
    <3>4. p.n # r
      BY <2>3
    <3>5. QED
      BY <1>7, <2>3, <3>2, <3>3, <3>4
  <2> HIDE DEF r
  <2>7. \A p \in rxonBuffer' : p.sn = SnOf(p.n) /\ rcvd' < p.n /\ p.n < h
    <3>1. rxonBuffer' \subseteq buffer
      BY <2>2
    <3>2. QED
      BY <1>7, <2>2, <2>6, <3>1
  <2>8. ASSUME NEW n \in Nat, n < rcvd \/ \E p \in buffer : p.n = n PROVE Received(n)'
    <3>1. CASE n < r
      BY <2>2, <3>1 DEF Received
    <3>2. CASE ~ (n < r)
      <4>1. PICK p \in buffer : p.n = n
        BY <1>2, <2>3, <2>4, <2>8, <3>2
      <4>2. r < p.n
        BY <2>3, <3>2, <4>1
      <4>3. QED
        BY <2>6, <4>1, <4>2 DEF Received
    <3>3. QED
      BY <3>1, <3>2
  <2>9. \A n \in Nat : Received(n) \/ (MsN <= n /\ n < ms) => Received(n)'
    BY <1>2, <1>8, <1>13, <2>8 DEF Received
  <2>10. QED
    BY <1>4, <1>11, <1>13, <1>14, <2>2, <2>3, <2>4, <2>5, <2>7, <2>9
<1>17. QED
  BY <1>15, <1>16

\* ReceiveDataPdu keeps the invariant.
LEMMA WindowReceiveDataPdu ==
    ASSUME IInv, NEW m \in dataPdus, ReceiveDataPdu(m), statusPdus' \subseteq statusPdus,
           UNCHANGED txVars
    PROVE  /\ WindowInv' /\ ReorderingInv' /\ RxBufferInv' /\ StatusInv' /\ ReleaseInv'
           /\ MsN' >= MsN
<1>1. UNCHANGED <<vtA, vtS, acked, sent, txedBuffer, retxBuffer>>
  BY DEF txVars
<1>2. CASE ~ IsInsideReceivingWindow(m.sn, vrR)
  <2>1. UNCHANGED <<rxonBuffer, vrR, vrX, vrMs, vrH, reorderingTimer, rcvd>>
    BY <1>2 DEF ReceiveDataPdu
  <2>2. MsN' = MsN /\ MsN \in Nat
    BY <2>1, Positions DEF IInv, MsN
  <2>3. QED
    BY <1>1, <2>1, <2>2, Frame DEF IInv
<1>3. CASE IsInsideReceivingWindow(m.sn, vrR)
  <2>1. PICK ms \in Nat, h \in Nat :
              /\ rcvd' \in Nat /\ vrR' = SnOf(rcvd') /\ vrMs' = SnOf(ms) /\ vrH' = SnOf(h)
              /\ rcvd <= rcvd' /\ rcvd' <= ms /\ ms <= h /\ h <= sent
              /\ MsN <= ms /\ HN <= h
              /\ \A p \in rxonBuffer' : p.sn = SnOf(p.n) /\ rcvd' < p.n /\ p.n < h
              /\ \A n \in Nat : Received(n) \/ (MsN <= n /\ n < ms) => Received(n)'
    BY <1>3, ReceiverAdvances
  <2>2. /\ rcvd \in Nat /\ acked \in Nat /\ sent \in Nat /\ acked <= rcvd
        /\ sent <= rcvd + WindowSize /\ sent <= acked + WindowSize
        /\ MsN \in Nat /\ HN \in Nat /\ XN \in Nat /\ HN <= sent
        /\ rcvd <= XN /\ vrX = SnOf(XN)
    BY Positions DEF IInv, WindowInv
  <2>3. h <= rcvd' + WindowSize /\ h < rcvd' + SNMod
    <3>1. \A r \in Nat : rcvd <= r => h <= r + WindowSize /\ h < r + SNMod
      BY <2>1, <2>2, Sizes
    <3>2. QED
      BY <2>1, <3>1
  <2>4. \A n \in Nat : rcvd' <= n /\ n <= h => rcvd' + Off(SnOf(n), vrR') = n
    <3>1. ASSUME NEW r \in Nat, NEW n \in Nat, r <= n, n < r + SNMod
          PROVE  r + Off(SnOf(n), SnOf(r)) = n
      BY <3>1, PositionIs
    <3>2. ASSUME NEW r \in Nat, NEW n \in Nat, h < r + SNMod, n <= h
          PROVE  n < r + SNMod
      BY <3>2, Sizes
    <3>3. QED
      BY <2>1, <2>3, <3>1, <3>2
  <2>5. MsN' = ms /\ HN' = h
    BY <2>1, <2>4 DEF MsN, HN
  <2>6. WindowInv' /\ MsN' >= MsN
    BY <1>1, <2>1, <2>2, <2>5 DEF IInv, WindowInv
  <2>7. RxBufferInv'
    BY <2>1, <2>5 DEF RxBufferInv
  <2>8. ASSUME NEW n \in Nat, Received(n) PROVE Received(n)'
    BY <2>1, <2>8
  <2>9. StatusInv'
    <3>1. ASSUME NEW s \in statusPdus, NEW n \in 0 .. s.ackN - 1
          PROVE  SnOf(n) \in s.nacks \/ Received(n)'
      <4>1. n \in Nat
        BY Numbers DEF IInv
      <4>2. QED
        BY <2>8, <4>1 DEF IInv, StatusInv
    <3>2. QED
      BY <1>1, <3>1 DEF IInv, StatusInv
  <2>10. ReleaseInv'
    BY <1>1, <2>2, <2>8 DEF IInv, ReleaseInv, Holds
  <2>11. Gt(vrH', vrR', vrR') <=> h > rcvd'
    <3>1. ASSUME NEW r \in Nat, r <= h, h < r + SNMod
          PROVE  Gt(SnOf(h), SnOf(r), SnOf(r)) <=> h > r
      BY <2>1, <3>1, CompareAhead, Sizes
    <3>2. QED
      BY <2>1, <2>3, <3>1
  <2>12. CASE reorderingTimer' = FALSE /\ ~ Gt(vrH', vrR', vrR')
    <3>1. ms = h
      BY <2>1, <2>11, <2>12
    <3>2. QED
      BY <2>5, <2>6, <2>7, <2>9, <2>10, <2>12, <3>1 DEF ReorderingInv
  <2>13. CASE reorderingTimer' = TRUE /\ vrX' = vrH' /\ Gt(vrH', vrR', vrR')
    <3>1. XN' = h
      BY <2>1, <2>4, <2>13 DEF XN
    <3>2. rcvd' < h /\ h .. ms - 1 = {}
      BY <2>1, <2>11, <2>13
    <3>3. ReorderingInv'
      BY <2>1, <2>5, <2>13, <3>1, <3>2 DEF ReorderingInv
    <3>4. QED
      BY <2>6, <2>7, <2>9, <2>10, <3>3
  <2>14. CASE /\ reorderingTimer /\ reorderingTimer' = TRUE /\ vrX' = vrX /\ vrX # vrR'
              /\ IsInsideReceivingWindow(vrX, vrR') \/ vrX = Plus(vrR', WindowSize)
    <3>1. rcvd < XN /\ XN <= HN /\ \A n \in XN .. MsN - 1 : Received(n)
      BY <2>14 DEF IInv, ReorderingInv
    <3>2. rcvd' < XN
      <4>1. ASSUME NEW r \in Nat, r <= rcvd + WindowSize, XN < r,
                   vrX = Plus(SnOf(r), WindowSize)
            PROVE  FALSE
        <5>1. Plus(SnOf(r), WindowSize) = SnOf(r + WindowSize)
          BY PlusSn, Sizes
        <5>2. /\ r + WindowSize \in Nat
              /\ XN < r + WindowSize + SNMod /\ r + WindowSize < XN + SNMod
          BY <2>2, <3>1, <4>1, Sizes
        <5>3. XN = r + WindowSize
          BY <2>2, <4>1, <5>1, <5>2, SnUnique
        <5>4. QED
          BY <2>2, <4>1, <5>3, Sizes
      <4>2. ASSUME NEW r \in Nat, r <= rcvd + WindowSize, XN < r,
                   IsInsideReceivingWindow(vrX, SnOf(r))
            PROVE  FALSE
        <5>1. XN < r + WindowSize /\ r <= XN + MaxLag
          BY <2>2, <3>1, <4>2, Sizes
        <5>2. r <= XN
          BY <2>2, <4>2, <5>1, InsideIsAhead
        <5>3. QED
          BY <2>2, <4>2, <5>2
      <4>3. rcvd' <= rcvd + WindowSize
        BY <2>1, <2>2, Sizes
      <4>4. ~ (XN < rcvd')
        BY <2>1, <2>14, <4>1, <4>2, <4>3
      <4>5. XN # rcvd'
        BY <2>1, <2>2, <2>14
      <4>6. QED
        BY <2>1, <2>2, <4>4, <4>5
    <3>3. XN' = XN
      <4>1. rcvd' + Off(SnOf(XN), vrR') = XN
        BY <2>1, <2>2, <2>4, <3>1, <3>2
      <4>2. QED
        BY <2>2, <2>14, <4>1 DEF XN
    <3>4. \A n \in XN .. ms - 1 : Received(n)'
      <4>1. ASSUME NEW n \in XN .. ms - 1 PROVE Received(n)'
        <5>1. n \in Nat
          BY <2>2
        <5>2. CASE n < MsN
          BY <2>2, <2>8, <3>1, <5>1, <5>2
        <5>3. CASE ~ (n < MsN)
          BY <2>1, <2>2, <5>1, <5>3
        <5>4. QED
          BY <5>2, <5>3
      <4>2. QED
        BY <4>1
    <3>5. XN <= h
      BY <2>1, <2>2, <3>1
    <3>6. ReorderingInv'
      BY <2>5, <2>14, <3>2, <3>3, <3>4, <3>5 DEF ReorderingInv
    <3>7. QED
      BY <2>6, <2>7, <2>9, <2>10, <3>6
  <2>15. UpdateReorderingTimer
    BY <1>3 DEF ReceiveDataPdu
  <2>16. reorderingTimer \in BOOLEAN
    BY DEF IInv, TypeOK, RxTypeOK
  <2>17. QED
    BY <2>12, <2>13, <2>14, <2>15, <2>16 DEF UpdateReorderingTimer
<1>4. QED
  BY <1>2, <1>3

\* TransmitStatusPdu keeps the invariant.
LEMMA WindowTransmitStatusPdu ==
    ASSUME IInv, TransmitStatusPdu
    PROVE  StatusInv'
<1> DEFINE missing == {sn \in Sn : Lt(sn, vrMs, vrR) /\ ~ Has(rxonBuffer, sn)}
<1>1. PICK ack \in missing \cup {vrMs} :
         statusPdus' = statusPdus \cup
            {[ackSn |-> ack, nacks |-> {sn \in missing : Lt(sn, ack, vrR)},
              ackN |-> rcvd + Off(ack, vrR)]}
  BY DEF TransmitStatusPdu
<1>2. UNCHANGED <<sent, rcvd, rxonBuffer>>
  BY DEF TransmitStatusPdu, txVars
<1>3. /\ rcvd \in Nat /\ sent \in Nat /\ MsN \in Nat /\ rcvd <= MsN /\ MsN <= sent
      /\ sent <= rcvd + WindowSize /\ vrR = SnOf(rcvd) /\ vrMs = SnOf(MsN)
      /\ vrMs \in Sn /\ vrR \in Sn
  BY Positions, DivMod DEF IInv, WindowInv
<1> DEFINE a == rcvd + Off(ack, vrR)
<1>4. ack \in Sn
  BY <1>3
<1>5. a \in Nat /\ rcvd <= a /\ ack = SnOf(a)
  <2>1. Off(ack, vrR) \in 0 .. SNMod - 1
    BY <1>3, <1>4, OffType
  <2>2. ack = SnOf(a)
    BY <1>3, <1>4, SnAt
  <2>3. QED
    BY <1>3, <2>1, <2>2, Sizes
<1>6. a <= MsN
  <2>1. Off(ack, vrR) <= Off(vrMs, vrR)
    <3>1. CASE ack = vrMs
      BY <1>3, <3>1, OffType, Sizes
    <3>2. CASE ack \in missing
      <4>1. Lt(ack, vrMs, vrR)
        BY <3>2
      <4>2. Off(ack, vrR) < Off(vrMs, vrR)
        BY <1>3, <1>4, <4>1, ComparisonsFollowTheWindow
      <4>3. Off(ack, vrR) \in Int /\ Off(vrMs, vrR) \in Int
        BY <1>3, <1>4, OffType
      <4>4. QED
        BY <4>2, <4>3
    <3>3. QED
      BY <1>1, <3>1, <3>2
  <2>2. Off(ack, vrR) \in Int /\ Off(vrMs, vrR) \in Int
    BY <1>3, <1>4, OffType
  <2>3. QED
    BY <1>3, <2>1, <2>2 DEF MsN
<1> DEFINE s0 == [ackSn |-> ack, nacks |-> {sn \in missing : Lt(sn, ack, vrR)}, ackN |-> a]
<1>7. s0.ackSn = ack /\ s0.ackN = a /\ s0.nacks = {sn \in missing : Lt(sn, ack, vrR)}
  OBVIOUS
<1>8. ASSUME NEW n \in 0 .. a - 1 PROVE SnOf(n) \in s0.nacks \/ Received(n)
  <2>1. n \in Nat /\ n < a
    BY <1>5
  <2>2. CASE n < rcvd
    BY <2>2 DEF Received
  <2>3. CASE ~ (n < rcvd)
    <3>1. /\ rcvd <= n /\ n < rcvd + SNMod /\ a < rcvd + SNMod /\ MsN < rcvd + SNMod
          /\ n < MsN
      BY <1>3, <1>5, <1>6, <2>1, <2>3, Sizes
    <3>2. Lt(SnOf(n), ack, vrR) /\ Lt(SnOf(n), vrMs, vrR) /\ SnOf(n) \in Sn
      BY <1>3, <1>5, <2>1, <3>1, CompareAhead, DivMod
    <3>3. CASE Has(rxonBuffer, SnOf(n))
      <4>1. \A p \in rxonBuffer : p.n \in Nat /\ p.sn = SnOf(p.n) /\ rcvd <= p.n
                                  /\ p.n < rcvd + SNMod
        <5>1. HN \in Nat /\ HN < rcvd + SNMod
          BY <1>3, Positions, Sizes DEF IInv
        <5>2. QED
          BY <1>3, <5>1, Numbers, Sizes DEF IInv, RxBufferInv
      <4>2. \E p \in rxonBuffer : p.n = n
        BY <1>3, <2>1, <3>1, <3>3, <4>1, HasIs
      <4>3. QED
        BY <4>2 DEF Received
    <3>4. CASE ~ Has(rxonBuffer, SnOf(n))
      BY <1>7, <3>2, <3>4
    <3>5. QED
      BY <3>3, <3>4
  <2>4. QED
    BY <2>2, <2>3
<1>9. s0.ackN <= sent /\ sent <= s0.ackN + MaxLag
  <2>1. \A x \in Nat : rcvd <= x /\ x <= MsN => x <= sent /\ sent <= x + MaxLag
    BY <1>3, Sizes
  <2>2. QED
    BY <1>5, <1>6, <1>7, <2>1
<1>10. statusPdus' = statusPdus \cup {s0}
  BY <1>1
<1> HIDE DEF s0, a, missing
<1>11. ASSUME NEW s \in statusPdus'
       PROVE  /\ s.ackSn = SnOf(s.ackN) /\ s.ackN <= sent' /\ sent' <= s.ackN + MaxLag
              /\ \A n \in 0 .. s.ackN - 1 : SnOf(n) \in s.nacks \/ Received(n)'
  <2>1. \A n : Received(n)' <=> Received(n)
    BY <1>2 DEF Received
  <2>2. CASE s \in statusPdus
    BY <1>2, <2>1, <2>2 DEF IInv, StatusInv
  <2>3. CASE s = s0
    BY <1>2, <1>5, <1>7, <1>8, <1>9, <2>1, <2>3
  <2>4. QED
    BY <1>10, <2>2, <2>3
<1>12. QED
  BY <1>11 DEF StatusInv

\* ExpireReorderingTimer keeps the invariant.
LEMMA WindowExpireReorderingTimer ==
    ASSUME IInv, ExpireReorderingTimer
    PROVE  WindowInv' /\ ReorderingInv' /\ RxBufferInv' /\ StatusInv' /\ MsN' >= MsN
<1>1. UNCHANGED <<vtA, vtS, acked, sent, rxonBuffer, vrR, vrH, rcvd, statusPdus>>
  BY DEF ExpireReorderingTimer, txVars, netVars
<1>2. /\ rcvd \in Nat /\ sent \in Nat /\ MsN \in Nat /\ HN \in Nat /\ XN \in Nat
      /\ rcvd <= MsN /\ MsN <= HN /\ HN <= sent /\ sent <= rcvd + WindowSize
      /\ vrR = SnOf(rcvd) /\ vrMs = SnOf(MsN) /\ vrH = SnOf(HN) /\ vrX = SnOf(XN)
  BY Positions DEF IInv, WindowInv
<1>3. rcvd < XN /\ XN <= HN /\ \A n \in XN .. MsN - 1 : Received(n)
  BY DEF IInv, ReorderingInv, ExpireReorderingTimer
<1>4. PICK k \in 0 .. SNMod - 1 : IsRun(rxonBuffer, vrX, k) /\ vrMs' = Plus(vrX, k)
  BY DEF ExpireReorderingTimer
<1> DEFINE ms == XN + k
<1>5. HN < rcvd + SNMod
  BY <1>2, Sizes
<1>6. /\ ms \in Nat /\ ms <= HN /\ vrMs' = SnOf(ms)
      /\ \A p \in rxonBuffer : p.n # ms
  <2>1. \A p \in rxonBuffer : p.n \in Nat /\ p.sn = SnOf(p.n) /\ rcvd <= p.n /\ p.n < HN
    BY <1>2, Numbers DEF IInv, RxBufferInv
  <2>2. IsRun(rxonBuffer, SnOf(XN), k) /\ vrMs' = Plus(SnOf(XN), k)
    BY <1>2, <1>4
  <2>3. rcvd <= XN
    BY <1>2, <1>3
  <2>4. QED
    BY <1>2, <1>3, <1>5, <2>1, <2>2, <2>3, RunEnds
<1>7. XN <= ms
  BY <1>2, Sizes
<1> HIDE DEF ms
<1>8. rcvd < ms /\ ms < rcvd + SNMod
  BY <1>2, <1>3, <1>5, <1>6, <1>7, Sizes
<1>9. MsN <= ms
  <2>1. SUFFICES ASSUME ms < MsN PROVE FALSE
    BY <1>2, <1>6
  <2>2. Received(ms)
    BY <1>2, <1>3, <1>6, <1>7, <2>1
  <2>3. QED
    BY <1>2, <1>6, <1>8, <2>2 DEF Received
<1>10. MsN' = ms /\ HN' = HN
  <2>1. rcvd + Off(SnOf(ms), SnOf(rcvd)) = ms
    BY <1>2, <1>6, <1>8, PositionIs
  <2>2. QED
    BY <1>1, <1>2, <1>6, <2>1 DEF MsN, HN
<1>11. WindowInv'
  BY <1>1, <1>6, <1>10 DEF IInv, WindowInv
<1>12. RxBufferInv' /\ StatusInv'
  BY <1>1, Frame DEF IInv
<1>13. Gt(vrH, vrMs', vrR) <=> HN > ms
  BY <1>2, <1>5, <1>6, <1>8, CompareAhead
<1>14. ReorderingInv'
  <2>1. CASE HN > ms
    <3>1. reorderingTimer' = TRUE /\ vrX' = vrH
      BY <1>13, <2>1 DEF ExpireReorderingTimer
    <3>2. XN' = HN
      BY <1>1, <3>1 DEF XN, HN
    <3>3. HN .. ms - 1 = {}
      BY <1>2, <1>6, <2>1
    <3>4. rcvd' < XN'
      BY <1>1, <1>2, <1>3, <3>2
    <3>5. QED
      BY <1>2, <1>10, <3>1, <3>2, <3>3, <3>4 DEF ReorderingInv
  <2>2. CASE ~ (HN > ms)
    <3>1. reorderingTimer' = FALSE
      BY <1>13, <2>2 DEF ExpireReorderingTimer
    <3>2. ~ (ms < HN)
      BY <1>2, <1>6, <2>2
    <3>3. QED
      BY <1>10, <3>1, <3>2 DEF ReorderingInv
  <2>3. QED
    BY <2>1, <2>2
<1>15. QED
  BY <1>2, <1>6, <1>9, <1>10, <1>11, <1>12, <1>14

-----------------------------------------------------------------------------
(* The invariant holds in every reachable state                            *)

\* The initial state satisfies the invariant.
LEMMA WindowInit == Init => IInv
<1> SUFFICES ASSUME Init PROVE IInv
  OBVIOUS
<1>1. SnOf(0) = 0 /\ 0 \in Sn /\ Off(0, 0) = 0
  BY RemainderIs, ZeroIsSn, OffAhead, Sizes DEF SnOf
<1>2. MsN = 0 /\ HN = 0
  BY <1>1 DEF Init, MsN, HN
<1>3. WindowInv
  BY <1>1, <1>2, Sizes DEF Init, WindowInv
<1>4. ReorderingInv
  BY <1>2 DEF Init, ReorderingInv
<1>5. TxBufferInv /\ RxBufferInv /\ DataInv /\ StatusInv /\ ReleaseInv
  BY DEF Init, TxBufferInv, RxBufferInv, DataInv, StatusInv, ReleaseInv
<1>6. QED
  BY <1>3, <1>4, <1>5, TypeInit DEF IInv

\* The parts of the invariant that an action does not touch are carried by
\* Frame; what it touches, by the lemma of the action.
LEMMA WindowStep ==
    ASSUME IInv, [Next]_vars
    PROVE  IInv' /\ MsN' >= MsN
<1>1. TypeOK' /\ MsN \in Nat
  BY TypeStep, Positions DEF IInv
<1>2. ASSUME UNCHANGED <<vrR, vrMs, rcvd>> PROVE MsN' >= MsN
  BY <1>1, <1>2 DEF MsN
<1> USE DEF txVars, rxVars, netVars
<1>3. CASE UNCHANGED vars
  BY <1>1, <1>2, <1>3, Frame DEF vars, IInv
<1>4. CASE TransmitPdcpPdu
  BY <1>1, <1>2, <1>4, Frame DEF TransmitPdcpPdu, IInv
<1>5. ASSUME NEW bytes \in 1 .. MaxDataField, RetransmitPdu(bytes)
      PROVE  IInv' /\ MsN' >= MsN
  <2>1. UNCHANGED <<vtA, vtS, acked, sent, statusPdus>> /\ UNCHANGED rxVars
    BY <1>5 DEF RetransmitPdu
  <2>2. TxBufferInv' /\ DataInv' /\ ReleaseInv'
    BY <1>5, WindowRetransmitPdu
  <2>3. QED
    BY <1>1, <1>2, <2>1, <2>2, Frame DEF IInv
<1>6. ASSUME NEW bytes \in 1 .. MaxDataField, TransmitNewPdu(bytes)
      PROVE  IInv' /\ MsN' >= MsN
  <2>1. UNCHANGED rxVars
    BY <1>6 DEF TransmitNewPdu
  <2>2. WindowInv' /\ TxBufferInv' /\ DataInv' /\ StatusInv' /\ ReleaseInv'
    BY <1>6, WindowTransmitNewPdu
  <2>3. QED
    BY <1>1, <1>2, <2>1, <2>2, Frame DEF IInv
<1>7. CASE TransmitStatusPdu
  <2>1. /\ UNCHANGED <<rxonBuffer, vrR, vrX, vrMs, vrH, reorderingTimer, rcvd, dataPdus>>
        /\ UNCHANGED txVars
    BY <1>7 DEF TransmitStatusPdu
  <2>2. StatusInv'
    BY <1>7, WindowTransmitStatusPdu
  <2>3. QED
    BY <1>1, <1>2, <2>1, <2>2, Frame DEF IInv
<1>8. ASSUME NEW m \in dataPdus, DeliverData(m)
      PROVE  IInv' /\ MsN' >= MsN
  <2>1. /\ UNCHANGED txVars /\ UNCHANGED statusPdus /\ dataPdus' \subseteq dataPdus
        /\ ReceiveDataPdu(m)
    BY <1>8 DEF DeliverData, Leaves
  <2>2. WindowInv' /\ ReorderingInv' /\ RxBufferInv' /\ StatusInv' /\ ReleaseInv' /\ MsN' >= MsN
    BY <2>1, WindowReceiveDataPdu
  <2>3. QED
    BY <1>1, <2>1, <2>2, Frame DEF IInv
<1>9. ASSUME NEW s \in statusPdus, DeliverStatus(s)
      PROVE  IInv' /\ MsN' >= MsN
  <2>1. /\ UNCHANGED rxVars /\ UNCHANGED dataPdus /\ statusPdus' \subseteq statusPdus
        /\ ReceiveStatusPdu(s)
    BY <1>9 DEF DeliverStatus, Leaves
  <2>2. WindowInv' /\ TxBufferInv' /\ ReleaseInv' /\ UNCHANGED sent
    BY <2>1, WindowReceiveStatusPdu
  <2>3. QED
    BY <1>1, <1>2, <2>1, <2>2, Frame DEF IInv
<1>10. CASE Lose
  <2>1. /\ dataPdus' \subseteq dataPdus /\ statusPdus' \subseteq statusPdus
        /\ UNCHANGED <<txVars, rxVars>>
    BY <1>10 DEF Lose
  <2>2. QED
    BY <1>1, <1>2, <2>1, Frame DEF IInv
<1>11. CASE ExpirePollRetransmitTimer
  <2>1. /\ UNCHANGED <<vtA, vtS, acked, sent>> /\ UNCHANGED <<rxVars, netVars>>
    BY <1>11 DEF ExpirePollRetransmitTimer
  <2>2. TxBufferInv' /\ ReleaseInv'
    BY <1>11, WindowExpirePollRetransmitTimer
  <2>3. QED
    BY <1>1, <1>2, <2>1, <2>2, Frame DEF IInv
<1>12. CASE ExpireReorderingTimer
  <2>1. UNCHANGED <<txVars, netVars>> /\ UNCHANGED <<rxonBuffer, rcvd>>
    BY <1>12 DEF ExpireReorderingTimer
  <2>2. WindowInv' /\ ReorderingInv' /\ RxBufferInv' /\ StatusInv' /\ MsN' >= MsN
    BY <1>12, WindowExpireReorderingTimer
  <2>3. QED
    BY <1>1, <2>1, <2>2, Frame DEF IInv
<1>13. CASE ExpireBsrTimer
  BY <1>1, <1>2, <1>13, Frame DEF ExpireBsrTimer, IInv
<1>14. CASE ExpireStatusProhibitTimer
  BY <1>1, <1>2, <1>14, Frame DEF ExpireStatusProhibitTimer, IInv
<1>15. QED
  BY <1>3, <1>4, <1>5, <1>6, <1>7, <1>8, <1>9, <1>10, <1>11, <1>12, <1>13, <1>14 DEF Next

\* The windows and the buffers of the two entities stay consistent.
THEOREM IInvHolds == Spec => []IInv
<1>1. Init => IInv
  BY WindowInit
<1>2. IInv /\ [Next]_vars => IInv'
  BY WindowStep
<1>3. QED
  BY <1>1, <1>2, PTL DEF Spec

-----------------------------------------------------------------------------
(* What it says of the protocol                                            *)

\* A STATUS PDU that is late, repeated or out of order never makes the sender
\* release a PDU, or move VT(A) past one, that the peer has not received.
THEOREM StatusNeverReleasesTooMuch == Spec => []NoFalseAck
<1>1. IInv => NoFalseAck
  BY DEF IInv, ReleaseInv, WindowInv, NoFalseAck
<1>2. QED
  BY <1>1, IInvHolds, PTL

\* VT(A), VR(R), VR(MS), VR(H) and VT(S) keep their order round the number
\* space, and VT(S) keeps within the window of VT(A).
THEOREM WindowsAlwaysAgree == Spec => []WindowsAgree
<1>1. ASSUME IInv PROVE WindowsAgree
  <2>1. /\ Off(vrMs, vrR) \in Nat /\ Off(vrH, vrR) \in Nat /\ Off(vrX, vrR) \in Nat
        /\ rcvd \in Nat
    BY <1>1, OffType, Sizes DEF IInv, TypeOK, RxTypeOK
  <2>2. Off(vrMs, vrR) <= Off(vrH, vrR)
    BY <1>1, <2>1 DEF IInv, WindowInv, MsN, HN
  <2>3. reorderingTimer => Off(vrX, vrR) \in 1 .. Off(vrH, vrR)
    BY <1>1, <2>1 DEF IInv, ReorderingInv, XN, HN
  <2>4. QED
    BY <1>1, <2>2, <2>3 DEF IInv, WindowInv, WindowsAgree, HN
<1>2. QED
  BY <1>1, IInvHolds, PTL

\* t-Reordering runs while a gap below VR(H) is not yet open to be reported.
THEOREM GapsAreWatched == Spec => []NoGapIsForgotten
<1>1. ASSUME IInv PROVE NoGapIsForgotten
  <2>1. /\ MsN \in Nat /\ HN \in Nat /\ rcvd \in Nat /\ rcvd <= MsN /\ rcvd <= HN
        /\ MsN <= HN /\ HN < rcvd + SNMod
        /\ vrMs = SnOf(MsN) /\ vrH = SnOf(HN) /\ vrR = SnOf(rcvd)
    BY <1>1, Positions, Sizes DEF IInv, WindowInv
  <2>2. Lt(vrMs, vrH, vrR) <=> MsN < HN
    BY <2>1, CompareAhead, Sizes
  <2>3. QED
    BY <1>1, <2>2 DEF IInv, ReorderingInv, NoGapIsForgotten
<1>2. QED
  BY <1>1, IInvHolds, PTL

\* None of the assertions and aborts that the entities rely on can fire.
THEOREM AssertionsNeverFire == Spec => []AssertionsHold
<1>1. ASSUME IInv PROVE AssertionsHold
  <2>1. /\ sent \in Nat /\ acked \in Nat /\ acked <= sent /\ sent <= acked + WindowSize
        /\ vtA = SnOf(acked) /\ vtS = SnOf(sent)
    BY <1>1, Positions DEF IInv, WindowInv
  <2>2. ASSUME NEW p \in retxBuffer PROVE Lt(p.sn, vtS, vtA)
    <3>1. p.n \in Nat /\ p.sn = SnOf(p.n) /\ acked <= p.n /\ p.n < sent
      BY <1>1, Numbers DEF IInv, TxBufferInv
    <3>2. p.n < acked + SNMod /\ sent < acked + SNMod
      BY <2>1, <3>1, Sizes
    <3>3. QED
      BY <2>1, <3>1, <3>2, CompareAhead
  <2>3. Le(vtS, VtMs, vtA)
    <3>1. VtMs = SnOf(acked + WindowSize)
      BY <2>1, PlusSn, Sizes DEF VtMs
    <3>2. /\ acked + WindowSize \in Nat /\ acked + WindowSize < acked + SNMod
          /\ sent < acked + SNMod /\ acked <= acked + WindowSize
      BY <2>1, Sizes
    <3>3. QED
      BY <2>1, <3>1, <3>2, CompareAhead
  <2>4. \A p \in txedBuffer, q \in retxBuffer : p.sn # q.sn
    BY <1>1, HeldDiffer DEF IInv, TxBufferInv
  <2>5. \E sn \in Sn : ~ Has(rxonBuffer, sn)
    <3>1. /\ rcvd \in Nat /\ HN \in Nat /\ HN <= rcvd + WindowSize /\ vrR \in Sn
          /\ vrR = SnOf(rcvd)
      BY <1>1, Positions DEF IInv, WindowInv, TypeOK, RxTypeOK
    <3>2. ASSUME NEW p \in rxonBuffer PROVE p.sn # vrR
      <4>1. p.n \in Nat /\ p.sn = SnOf(p.n) /\ rcvd < p.n /\ p.n < rcvd + SNMod
        BY <1>1, <3>1, Numbers, Sizes DEF IInv, RxBufferInv
      <4>2. rcvd < p.n + SNMod
        BY <3>1, <4>1, Sizes
      <4>3. QED
        BY <3>1, <4>1, <4>2, SnUnique
    <3>3. QED
      BY <3>1, <3>2 DEF Has
  <2>6. QED
    BY <2>2, <2>3, <2>4, <2>5 DEF AssertionsHold
<1>2. QED
  BY <1>1, IInvHolds, PTL

\* VR(MS) never moves back, not when t-Reordering expires after VR(MS) has
\* overtaken VR(X) either.
THEOREM VrMsOnlyAdvances == Spec => VrMsNeverMovesBack
<1>1. IInv /\ [Next]_vars => [rcvd' + Off(vrMs', vrR') >= rcvd + Off(vrMs, vrR)]_vars
  BY WindowStep DEF MsN
<1>2. QED
  BY <1>1, IInvHolds, PTL DEF Spec, VrMsNeverMovesBack

-----------------------------------------------------------------------------
\* The periodic buffer status report is pending as long as the sender holds
\* data: it is started by every SDU and stopped by empty buffers only.
THEOREM ReportGoesOn == Spec => []HeldDataKeepsBsrTimer
<1>1. Init => HeldDataKeepsBsrTimer
  BY DEF Init, HeldDataKeepsBsrTimer
<1>2. ASSUME HeldDataKeepsBsrTimer, [Next]_vars PROVE HeldDataKeepsBsrTimer'
  <2> USE <1>2 DEF HeldDataKeepsBsrTimer, txVars
  <2>1. CASE UNCHANGED vars
    BY <2>1 DEF vars
  <2>2. CASE TransmitPdcpPdu
    BY <2>2 DEF TransmitPdcpPdu
  <2>3. ASSUME NEW bytes \in 1 .. MaxDataField, RetransmitPdu(bytes)
        PROVE  HeldDataKeepsBsrTimer'
    BY <2>3, Zenon DEF RetransmitPdu
  <2>4. ASSUME NEW bytes \in 1 .. MaxDataField, TransmitNewPdu(bytes)
        PROVE  HeldDataKeepsBsrTimer'
    BY <2>4, Zenon DEF TransmitNewPdu
  <2>5. CASE TransmitStatusPdu
    BY <2>5 DEF TransmitStatusPdu
  <2>6. ASSUME NEW m \in dataPdus, DeliverData(m) PROVE HeldDataKeepsBsrTimer'
    BY <2>6 DEF DeliverData
  <2>7. ASSUME NEW s \in statusPdus, DeliverStatus(s) PROVE HeldDataKeepsBsrTimer'
    <3>1. ReceiveStatusPdu(s)
      BY <2>7 DEF DeliverStatus
    <3>2. CASE IsValid(s) /\ ~ UNCHANGED txVars
      <4>1. /\ retxBuffer' \subseteq txedBuffer \cup retxBuffer
            /\ txedBuffer' \subseteq txedBuffer
            /\ UNCHANGED <<txonBuffer, bsrTimer>>
        BY <3>1, <3>2 DEF ReceiveStatusPdu
      <4>2. QED
        BY <4>1
    <3>3. QED
      BY <3>1, <3>2 DEF ReceiveStatusPdu
  <2>8. CASE Lose
    BY <2>8 DEF Lose
  <2>9. CASE ExpirePollRetransmitTimer
    BY <2>9 DEF ExpirePollRetransmitTimer
  <2>10. CASE ExpireBsrTimer
    BY <2>10 DEF ExpireBsrTimer
  <2>11. CASE ExpireReorderingTimer \/ ExpireStatusProhibitTimer
    BY <2>11 DEF ExpireReorderingTimer, ExpireStatusProhibitTimer
  <2>12. QED
    BY <2>1, <2>2, <2>3, <2>4, <2>5, <2>6, <2>7, <2>8, <2>9, <2>10, <2>11 DEF Next
<1>3. QED
  BY <1>1, <1>2, PTL DEF Spec

-----------------------------------------------------------------------------
(* Retransmission counts                                                   *)

\* The sender holds each PDU once.
HeldOnce == \A p \in txedBuffer \cup retxBuffer, q \in txedBuffer \cup retxBuffer :
                p.n = q.n => p = q

\* The count of p, which is held, goes along to q, the same PDU after a step.
CountGoesAlong(p, q) ==
    /\ p.retx <= q.retx
    /\ p \in retxBuffer /\ q \in txedBuffer' => p.retx < q.retx \/ q.retx = MaxRetxThreshold

CountsGoAlong ==
    \A p \in txedBuffer \cup retxBuffer : \A q \in (txedBuffer \cup retxBuffer)' :
       p.n = q.n => CountGoesAlong(p, q)

\* The counts are numbers up to the threshold.
LEMMA CountTypes ==
    ASSUME TypeOK, NEW p \in txedBuffer \cup retxBuffer
    PROVE  p.retx \in Nat /\ p.retx <= MaxRetxThreshold
  BY AmAssumption DEF TypeOK, TxTypeOK, HeldPdu

\* Nothing is retransmitted: the transmitted PDUs were there before.
LEMMA CountsOfTheHeld ==
    ASSUME IInv, HeldOnce, txedBuffer' \subseteq txedBuffer,
           retxBuffer' \subseteq txedBuffer \cup retxBuffer
    PROVE  HeldOnce' /\ CountsGoAlong
<1>1. ASSUME NEW p \in txedBuffer \cup retxBuffer, NEW q \in (txedBuffer \cup retxBuffer)',
             p.n = q.n
      PROVE  CountGoesAlong(p, q)
  <2>1. p = q
    BY <1>1 DEF HeldOnce
  <2>2. p.retx <= q.retx
    BY <2>1, CountTypes DEF IInv
  <2>3. ~ (p \in retxBuffer /\ q \in txedBuffer')
    BY <2>1 DEF IInv, TxBufferInv
  <2>4. QED
    BY <2>2, <2>3 DEF CountGoesAlong
<1>2. HeldOnce'
  BY DEF HeldOnce
<1>3. QED
  BY <1>1, <1>2 DEF CountsGoAlong

\* A PDU that is sent again takes its count along, one higher.
LEMMA CountsOfRetransmitPdu ==
    ASSUME IInv, HeldOnce, NEW bytes \in 1 .. MaxDataField, RetransmitPdu(bytes)
    PROVE  HeldOnce' /\ CountsGoAlong
<1>1. PICK e \in retxBuffer :
         /\ retxBuffer' = {p \in retxBuffer : p.sn # e.sn}
         /\ txedBuffer' = {p \in txedBuffer : p.sn # e.sn}
                               \cup {[e EXCEPT !.retx = RetxCount(e)]}
  BY Zenon DEF RetransmitPdu
<1> DEFINE f == [e EXCEPT !.retx = RetxCount(e)]
<1>2. f.n = e.n /\ f.retx = RetxCount(e)
  BY DEF IInv, TypeOK, TxTypeOK, HeldPdu
<1>3. \A p \in txedBuffer \cup retxBuffer : p.sn = e.sn <=> p.n = e.n
  BY HeldDiffer DEF IInv
<1>4. /\ RetxCount(e) \in Nat /\ e.retx \in Nat /\ e.retx <= RetxCount(e)
      /\ e.retx < RetxCount(e) \/ RetxCount(e) = MaxRetxThreshold
  BY CountTypes, AmAssumption DEF RetxCount, IInv
<1> HIDE DEF f
<1>5. txedBuffer' = {p \in txedBuffer : p.sn # e.sn} \cup {f}
  BY <1>1 DEF f
<1>6. ASSUME NEW p \in txedBuffer \cup retxBuffer, NEW q \in (txedBuffer \cup retxBuffer)',
             p.n = q.n
      PROVE  CountGoesAlong(p, q)
  <2>1. CASE q = f
    <3>1. p = e
      BY <1>2, <1>6, <2>1 DEF HeldOnce
    <3>2. QED
      BY <1>2, <1>4, <2>1, <3>1 DEF CountGoesAlong
  <2>2. CASE q # f
    <3>1. q \in txedBuffer \cup retxBuffer
      BY <1>1, <1>5, <2>2
    <3>2. p = q
      BY <1>6, <3>1 DEF HeldOnce
    <3>3. p.retx <= q.retx
      BY <3>2, CountTypes DEF IInv
    <3>4. ~ (p \in retxBuffer /\ q \in txedBuffer')
      BY <1>5, <2>2, <3>2 DEF IInv, TxBufferInv
    <3>5. QED
      BY <3>3, <3>4 DEF CountGoesAlong
  <2>3. QED
    BY <2>1, <2>2
<1>7. \A p \in (txedBuffer \cup retxBuffer)' :
         p = f \/ (p \in txedBuffer \cup retxBuffer /\ p.n # e.n)
  BY <1>1, <1>3, <1>5
<1>8. HeldOnce'
  BY <1>2, <1>7 DEF HeldOnce
<1>9. QED
  BY <1>6, <1>8 DEF CountsGoAlong

\* A new PDU is none of those that are held.
LEMMA CountsOfTransmitNewPdu ==
    ASSUME IInv, HeldOnce, NEW bytes \in 1 .. MaxDataField, TransmitNewPdu(bytes)
    PROVE  HeldOnce' /\ CountsGoAlong
<1>1. PICK data :
         txedBuffer' = {p \in txedBuffer : p.sn # vtS}
                           \cup {[n |-> sent, sn |-> vtS, data |-> data, retx |-> 0]}
  BY Zenon DEF TransmitNewPdu
<1> DEFINE f == [n |-> sent, sn |-> vtS, data |-> data, retx |-> 0]
<1>2. retxBuffer = {} /\ retxBuffer' = {}
  BY DEF TransmitNewPdu
<1>3. f.n = sent
  OBVIOUS
<1>4. \A p \in txedBuffer : p.n # sent
  BY Numbers, Positions DEF IInv, TxBufferInv, WindowInv
<1> HIDE DEF f
<1>5. \A p \in (txedBuffer \cup retxBuffer)' : p = f \/ p \in txedBuffer
  BY <1>1, <1>2 DEF f
<1>6. HeldOnce'
  BY <1>3, <1>4, <1>5 DEF HeldOnce
<1>7. ASSUME NEW p \in txedBuffer \cup retxBuffer, NEW q \in (txedBuffer \cup retxBuffer)',
             p.n = q.n
      PROVE  CountGoesAlong(p, q)
  <2>1. p = q
    BY <1>2, <1>3, <1>4, <1>5, <1>7 DEF HeldOnce
  <2>2. p.retx <= q.retx
    BY <2>1, CountTypes DEF IInv
  <2>3. QED
    BY <1>2, <2>2 DEF CountGoesAlong
<1>8. QED
  BY <1>6, <1>7 DEF CountsGoAlong

\* Every step takes the counts of the held PDUs along.
LEMMA CountsStep ==
    ASSUME IInv, HeldOnce, [Next]_vars
    PROVE  HeldOnce' /\ CountsGoAlong
<1>1. ASSUME NEW bytes \in 1 .. MaxDataField, RetransmitPdu(bytes)
      PROVE  HeldOnce' /\ CountsGoAlong
  BY <1>1, CountsOfRetransmitPdu
<1>2. ASSUME NEW bytes \in 1 .. MaxDataField, TransmitNewPdu(bytes)
      PROVE  HeldOnce' /\ CountsGoAlong
  BY <1>2, CountsOfTransmitNewPdu
<1>3. ASSUME NEW s \in statusPdus, DeliverStatus(s)
      PROVE  txedBuffer' \subseteq txedBuffer /\ retxBuffer' \subseteq txedBuffer \cup retxBuffer
  BY <1>3 DEF DeliverStatus, ReceiveStatusPdu, txVars
<1>4. CASE ExpirePollRetransmitTimer
  <2>1. txedBuffer' \subseteq txedBuffer /\ retxBuffer' \subseteq txedBuffer \cup retxBuffer
    BY <1>4 DEF ExpirePollRetransmitTimer
  <2>2. QED
    BY <2>1, CountsOfTheHeld
<1>5. CASE UNCHANGED <<txedBuffer, retxBuffer>>
  BY <1>5, CountsOfTheHeld
<1>6. ASSUME NEW m \in dataPdus, DeliverData(m)
      PROVE  UNCHANGED <<txedBuffer, retxBuffer>>
  BY <1>6 DEF DeliverData, txVars
<1>7. CASE \/ TransmitPdcpPdu \/ TransmitStatusPdu \/ Lose \/ ExpireBsrTimer
           \/ ExpireReorderingTimer \/ ExpireStatusProhibitTimer \/ UNCHANGED vars
  BY <1>5, <1>7 DEF TransmitPdcpPdu, TransmitStatusPdu, Lose, ExpireBsrTimer,
     ExpireReorderingTimer, ExpireStatusProhibitTimer, vars, txVars
<1>8. QED
  BY <1>1, <1>2, <1>3, <1>4, <1>5, <1>6, <1>7, CountsOfTheHeld DEF Next

\* The retransmission count of a PDU survives its moves between the two buffers
\* and grows with each retransmission: the radio link failure comes.
THEOREM RetransmissionsAreCounted == Spec => RetxCountKept
<1>1. Init => HeldOnce
  BY DEF Init, HeldOnce
<1>2. IInv /\ HeldOnce /\ [Next]_vars => HeldOnce' /\ CountsGoAlong
  BY CountsStep
<1>3. CountsGoAlong =>
        [\A p \in txedBuffer \cup retxBuffer : \A q \in (txedBuffer \cup retxBuffer)' :
            p.n = q.n => /\ p.retx <= q.retx
                         /\ p \in retxBuffer /\ q \in txedBuffer' =>
                               p.retx < q.retx \/ q.retx = MaxRetxThreshold]_vars
  BY DEF CountsGoAlong, CountGoesAlong
<1>4. QED
  BY <1>1, <1>2, <1>3, IInvHolds, PTL DEF Spec, RetxCountKept

-----------------------------------------------------------------------------
(* The payload.  What the n-th PDU carried when it was built is pl[n], and *)
(* every copy of the PDU carries it.  No variable remembers pl, since the  *)
(* PDUs that were delivered are gone: the invariant says that some pl      *)
(* explains the state.                                                     *)

Held == [keep |-> keepS0, expected |-> expectedSeqNumber, out |-> delivered]

Copies == txedBuffer \cup retxBuffer \cup rxonBuffer \cup dataPdus

\* The PDUs and then the transmission buffer carry the accepted SDUs, byte after byte.
BuiltInLine(pl) ==
    /\ pl \in [Nat -> Seq(Byte)]
    /\ \A n \in 0 .. sent - 1 : InLine(pl, n)
    /\ IsStream(txonBuffer)
    /\ txonBuffer # <<>> => /\ txonBuffer[1] = NextOf(pl, sent)
                            /\ After(txonBuffer[Len(txonBuffer)]) = <<accepted + 1, 1>>
    /\ txonBuffer = <<>> => NextOf(pl, sent) = <<accepted + 1, 1>>

\* They carry bytes of accepted SDUs, and all of them.
OfAccepted(pl) ==
    /\ \A b \in ToSet(txonBuffer) : b[1] <= accepted
    /\ \A n \in 0 .. sent - 1 : \A b \in ToSet(pl[n]) : b[1] <= accepted
    /\ \A b \in Byte : b[1] <= accepted =>
          b \in ToSet(txonBuffer) \/ \E n \in 0 .. sent - 1 : b \in ToSet(pl[n])

\* What was received is reassembled up to the end of the last PDU below VR(R).
Reassembled(pl) ==
    /\ AtPlace(Held, NextOf(pl, rcvd)) /\ expectedSeqNumber = vrR
    /\ \A n \in 0 .. rcvd - 1 : \A b \in ToSet(pl[n]) : Arrived(Held, b)

Explains(pl) ==
    /\ BuiltInLine(pl) /\ OfAccepted(pl) /\ Reassembled(pl)
    /\ \A p \in Copies : p.data = pl[p.n]

PayloadInv == \E pl : Explains(pl)

\* SDUs are not empty.
LEMMA AmSdus == SduLens
  BY AmAssumption DEF SduLens

\* Nothing is built at the start, so any payload explains it.
LEMMA PayloadInit == Init => PayloadInv
<1> SUFFICES ASSUME Init PROVE PayloadInv OBVIOUS
<1> DEFINE pl == [n \in Nat |-> <<>>]
<1>1. pl \in [Nat -> Seq(Byte)]
  <2>1. <<>> \in Seq(Byte) BY EmptySeq
  <2>2. QED BY <2>1
<1>2. IsStream(<<>>)
  <2>1. <<>> \in Seq(Byte) /\ Len(<<>>) = 0 BY EmptySeq
  <2>2. 1 .. 0 - 1 = {} OBVIOUS
  <2>3. QED BY <2>1, <2>2 DEF IsStream
<1>3. NextOf(pl, 0) = <<1, 1>> BY DEF NextOf
<1>4. ToSet(<<>>) = {} BY EmptySeq DEF ToSet
<1>5. 0 .. 0 - 1 = {} /\ 0 + 1 = 1 OBVIOUS
<1> HIDE DEF pl
<1>6. BuiltInLine(pl) BY <1>1, <1>2, <1>3, <1>5 DEF Init, BuiltInLine
<1>7. OfAccepted(pl)
  <2>1. \A b \in Byte : ~ (b[1] <= 0)
    <3>1. \A b \in Byte : b[1] \in Nat /\ b[1] \in 1 .. Len(SduLen) BY AmSdus, ByteIs
    <3>2. QED BY <3>1
  <2>2. QED BY <1>4, <1>5, <2>1 DEF Init, OfAccepted
<1>8. Reassembled(pl)
  <2>1. Held.keep = <<>> /\ Held.out = <<>> BY DEF Init, Held
  <2>2. /\ <<>> \in Seq(Byte) /\ <<>> \in Seq(Seq(Byte)) /\ Len(<<>>) = 0
    BY EmptySeq
  <2>3. AtPlace(Held, <<1, 1>>) BY <1>5, <2>1, <2>2 DEF AtPlace
  <2>4. QED BY <1>3, <1>5, <2>3 DEF Init, Reassembled
<1>9. QED BY <1>6, <1>7, <1>8 DEF Init, PayloadInv, Explains, Copies

\* The payload explains the state after a step that builds no PDU and receives none.
LEMMA PayloadFrame ==
    ASSUME NEW pl, Explains(pl), UNCHANGED <<txonBuffer, accepted, sent>>,
           UNCHANGED <<keepS0, expectedSeqNumber, delivered, rcvd, vrR>>,
           \A p \in Copies' : \E q \in Copies : p.n = q.n /\ p.data = q.data
    PROVE  Explains(pl)'
<1>1. BuiltInLine(pl)' /\ OfAccepted(pl)'
  BY DEF Explains, BuiltInLine, OfAccepted
<1>2. Reassembled(pl)'
  BY DEF Explains, Reassembled, Held
<1>3. \A p \in Copies' : p.data = pl[p.n]
  BY DEF Explains
<1>4. QED BY <1>1, <1>2, <1>3 DEF Explains

\* The payload of the PDUs built before does not change.
LEMMA NextOfKept ==
    ASSUME NEW pl \in [Nat -> Seq(Byte)], NEW s \in Nat, NEW d \in Seq(Byte),
           NEW n \in 0 .. s
    PROVE  NextOf([pl EXCEPT ![s] = d], n) = NextOf(pl, n)
<1>1. n # 0 => n - 1 \in Nat /\ n - 1 # s BY DEF NextOf
<1>2. n # 0 => [pl EXCEPT ![s] = d][n - 1] = pl[n - 1] BY <1>1
<1>3. QED BY <1>2 DEF NextOf

\* An accepted SDU goes on where the transmission buffer ends.
LEMMA PayloadTransmitPdcpPdu ==
    ASSUME IInv, NEW pl, Explains(pl), TransmitPdcpPdu PROVE Explains(pl)'
<1> DEFINE i == accepted + 1
<1>1. /\ UNCHANGED <<sent, txedBuffer, retxBuffer, rxonBuffer, dataPdus>>
      /\ UNCHANGED <<keepS0, expectedSeqNumber, delivered, rcvd, vrR>>
      /\ accepted < Len(SduLen)
      /\ \/ UNCHANGED <<txonBuffer, accepted>>
         \/ txonBuffer' = txonBuffer \o Sdu(i) /\ accepted' = i
  BY DEF TransmitPdcpPdu, rxVars, netVars
<1>2. UNCHANGED Copies BY <1>1 DEF Copies
<1>3. CASE UNCHANGED <<txonBuffer, accepted>> BY <1>1, <1>2, <1>3, PayloadFrame
<1>4. CASE txonBuffer' = txonBuffer \o Sdu(i) /\ accepted' = i
  <2>1. accepted \in Nat /\ i \in 1 .. Len(SduLen) /\ Len(SduLen) \in Nat
    <3>1. Len(SduLen) \in Nat BY LenProperties, AmAssumption
    <3>2. QED BY <1>1, <3>1 DEF IInv, TypeOK, TxTypeOK
  <2> DEFINE w == txonBuffer \o Sdu(i)
  <2>2. IsStream(txonBuffer) /\ (txonBuffer # <<>> => After(txonBuffer[Len(txonBuffer)]) = <<i, 1>>)
    BY DEF Explains, BuiltInLine
  <2>3. /\ IsStream(w) /\ w # <<>>
        /\ w[1] = IF txonBuffer = <<>> THEN <<i, 1>> ELSE txonBuffer[1]
        /\ After(w[Len(w)]) = <<i + 1, 1>>
        /\ ToSet(w) = ToSet(txonBuffer) \cup ToSet(Sdu(i))
        /\ \A k \in 1 .. Len(w) : w[k] \in ToSet(txonBuffer) \/ w[k][1] = i
    BY <2>1, <2>2, AmSdus, StreamGoesOn
  <2>4. DOMAIN w = 1 .. Len(w) BY <2>3, AmSdus, StreamBytes
  <2> HIDE DEF w
  <2>5. \A b \in ToSet(w) : b \in ToSet(txonBuffer) \/ b[1] = i BY <2>3, <2>4 DEF ToSet
  <2>6. \A b \in Byte : b[1] <= i => b[1] <= accepted \/ b \in ToSet(Sdu(i))
    <3> SUFFICES ASSUME NEW b \in Byte, b[1] = i PROVE b \in ToSet(Sdu(i))
      <4>1. \A b \in Byte : b[1] \in Nat BY AmSdus, ByteIs
      <4>2. \A b \in Byte : b[1] <= i => b[1] <= accepted \/ b[1] = i BY <2>1, <4>1
      <4>3. QED BY <4>2
    <3>1. b = <<i, b[2]>> /\ b[2] \in 1 .. SduLen[i] BY AmSdus, ByteIs
    <3>2. /\ Sdu(i)[b[2]] = b /\ IsStream(Sdu(i)) /\ Len(Sdu(i)) = SduLen[i]
      BY <2>1, <3>1, AmSdus, SduStream
    <3>3. DOMAIN Sdu(i) = 1 .. SduLen[i] BY <3>2, AmSdus, StreamBytes
    <3>4. QED BY <3>1, <3>2, <3>3 DEF ToSet
  <2>7. BuiltInLine(pl)'
    <3>1. w # <<>> => w[1] = NextOf(pl, sent) BY <2>3 DEF Explains, BuiltInLine
    <3>2. accepted' = i /\ txonBuffer' = w /\ sent' = sent BY <1>1, <1>4 DEF w
    <3>3. QED BY <2>3, <3>1, <3>2 DEF Explains, BuiltInLine
  <2>8. OfAccepted(pl)'
    <3>1. accepted' = i /\ txonBuffer' = w /\ sent' = sent BY <1>1, <1>4 DEF w
    <3>2. \A b \in Byte : b[1] \in Nat /\ (b[1] <= accepted => b[1] <= i)
      <4>1. \A b \in Byte : b[1] \in Nat BY AmSdus, ByteIs
      <4>2. QED BY <2>1, <4>1
    <3>3. ToSet(txonBuffer) \subseteq Byte /\ \A n \in 0 .. sent - 1 : ToSet(pl[n]) \subseteq Byte
      <4>1. \A d : IsStream(d) => ToSet(d) \subseteq Byte BY AmSdus, StreamBytes DEF ToSet
      <4>2. QED BY <2>2, <4>1 DEF Explains, BuiltInLine, InLine
    <3>4. i <= i BY <2>1
    <3>5. \A b \in ToSet(w) : b[1] <= i BY <2>5, <3>2, <3>3, <3>4 DEF Explains, OfAccepted
    <3>6. \A n \in 0 .. sent - 1 : \A b \in ToSet(pl[n]) : b[1] <= i
      BY <3>2, <3>3 DEF Explains, OfAccepted
    <3>7. \A b \in Byte : b[1] <= i =>
             b \in ToSet(w) \/ \E n \in 0 .. sent - 1 : b \in ToSet(pl[n])
      BY <2>3, <2>6 DEF Explains, OfAccepted
    <3>8. QED BY <3>1, <3>5, <3>6, <3>7 DEF OfAccepted
  <2>9. Reassembled(pl)' BY <1>1 DEF Explains, Reassembled, Held
  <2>10. QED BY <1>2, <2>7, <2>8, <2>9 DEF Explains
<1>5. QED BY <1>1, <1>3, <1>4

\* A new PDU takes the front of the transmission buffer.
LEMMA PayloadTransmitNewPdu ==
    ASSUME IInv, NEW pl, Explains(pl), NEW bytes \in 1 .. MaxDataField, TransmitNewPdu(bytes)
    PROVE  PayloadInv'
<1>1. PICK k \in 1 .. Len(txonBuffer) :
         /\ txonBuffer' = SubSeq(txonBuffer, k + 1, Len(txonBuffer))
         /\ txedBuffer' = {p \in txedBuffer : p.sn # vtS}
               \cup {[n |-> sent, sn |-> vtS, data |-> SubSeq(txonBuffer, 1, k), retx |-> 0]}
         /\ dataPdus' = {p \in dataPdus : p.n + MaxLag > sent}
               \cup {[n |-> sent, sn |-> vtS, data |-> SubSeq(txonBuffer, 1, k), poll |-> TRUE]}
  BY DEF TransmitNewPdu
<1>2. /\ sent' = sent + 1 /\ sent \in Nat /\ rcvd \in Nat /\ rcvd <= sent /\ HN <= sent /\ HN \in Nat
      /\ UNCHANGED <<accepted, retxBuffer, rxonBuffer>>
      /\ UNCHANGED <<keepS0, expectedSeqNumber, delivered, rcvd, vrR>>
  BY Positions DEF IInv, WindowInv, TransmitNewPdu, rxVars
<1> DEFINE a == SubSeq(txonBuffer, 1, k)
           b == SubSeq(txonBuffer, k + 1, Len(txonBuffer))
<1>3. IsStream(txonBuffer) /\ txonBuffer # <<>> /\ Len(txonBuffer) \in Nat
  <2>1. IsStream(txonBuffer) /\ txonBuffer # <<>> BY DEF Explains, BuiltInLine, TransmitNewPdu
  <2>2. QED BY <2>1, AmSdus, StreamBytes
<1>4. /\ IsStream(a) /\ a # <<>> /\ a[1] = txonBuffer[1] /\ a[Len(a)] = txonBuffer[k]
      /\ IsStream(b)
      /\ b # <<>> => b[1] = After(a[Len(a)]) /\ b[Len(b)] = txonBuffer[Len(txonBuffer)]
      /\ b = <<>> => k = Len(txonBuffer)
      /\ ToSet(txonBuffer) = ToSet(a) \cup ToSet(b)
  BY <1>3, AmSdus, StreamCut
<1>5. txonBuffer' = b BY <1>1
<1>6. \A p \in txedBuffer' \cup dataPdus' :
         \/ p \in txedBuffer \cup dataPdus
         \/ p.n = sent /\ p.data = a
  BY <1>1
<1>7. a \in Seq(Byte) /\ pl \in [Nat -> Seq(Byte)] BY <1>4 DEF IsStream, Explains, BuiltInLine
<1> HIDE DEF a, b
<1> PICK new : new = [pl EXCEPT ![sent] = a] OBVIOUS
<1>8. /\ new \in [Nat -> Seq(Byte)] /\ new[sent] = a
      /\ \A n \in Nat : n # sent => new[n] = pl[n]
      /\ \A n \in 0 .. sent : NextOf(new, n) = NextOf(pl, n)
  BY <1>2, <1>7, NextOfKept
<1>9. \A n \in 0 .. sent - 1 : n \in Nat /\ n # sent /\ n \in 0 .. sent BY <1>2
<1>10. \A n \in 0 .. (sent + 1) - 1 : n \in 0 .. sent - 1 \/ n = sent BY <1>2
<1>11. NextOf(new, sent + 1) = After(a[Len(a)])
  <2>1. sent + 1 # 0 /\ (sent + 1) - 1 = sent BY <1>2
  <2>2. QED BY <1>8, <2>1 DEF NextOf
<1>12. BuiltInLine(new)'
  <2>1. ASSUME NEW n \in 0 .. (sent + 1) - 1 PROVE InLine(new, n)
    <3>1. CASE n \in 0 .. sent - 1
      BY <1>8, <1>9, <3>1 DEF Explains, BuiltInLine, InLine
    <3>2. CASE n = sent
      <4>1. sent \in 0 .. sent BY <1>2
      <4>2. a[1] = NextOf(pl, sent) BY <1>3, <1>4 DEF Explains, BuiltInLine
      <4>3. QED BY <1>4, <1>8, <3>2, <4>1, <4>2 DEF InLine
    <3>3. QED BY <1>10, <3>1, <3>2
  <2>2. b # <<>> => b[1] = NextOf(new, sent + 1) /\ After(b[Len(b)]) = <<accepted + 1, 1>>
    BY <1>3, <1>4, <1>11 DEF Explains, BuiltInLine
  <2>3. b = <<>> => NextOf(new, sent + 1) = <<accepted + 1, 1>>
    BY <1>3, <1>4, <1>11 DEF Explains, BuiltInLine
  <2>4. QED BY <1>2, <1>4, <1>5, <1>8, <2>1, <2>2, <2>3 DEF BuiltInLine
<1>13. OfAccepted(new)'
  <2>1. \A c \in ToSet(b) : c[1] <= accepted BY <1>4 DEF Explains, OfAccepted
  <2>2. ASSUME NEW n \in 0 .. (sent + 1) - 1, NEW c \in ToSet(new[n]) PROVE c[1] <= accepted
    <3>1. CASE n \in 0 .. sent - 1
      BY <1>8, <1>9, <3>1 DEF Explains, OfAccepted
    <3>2. CASE n = sent
      BY <1>4, <1>8, <3>2 DEF Explains, OfAccepted
    <3>3. QED BY <1>10, <3>1, <3>2
  <2>3. ASSUME NEW c \in Byte, c[1] <= accepted
        PROVE  c \in ToSet(b) \/ \E n \in 0 .. (sent + 1) - 1 : c \in ToSet(new[n])
    <3>1. CASE c \in ToSet(txonBuffer)
      <4>1. sent \in 0 .. (sent + 1) - 1 BY <1>2
      <4>2. QED BY <1>4, <1>8, <3>1, <4>1
    <3>2. CASE \E n \in 0 .. sent - 1 : c \in ToSet(pl[n])
      <4>1. PICK n \in 0 .. sent - 1 : c \in ToSet(pl[n]) BY <3>2
      <4>2. n \in 0 .. (sent + 1) - 1 BY <1>2
      <4>3. QED BY <1>8, <1>9, <4>1, <4>2
    <3>3. QED BY <2>3, <3>1, <3>2 DEF Explains, OfAccepted
  <2>4. QED BY <1>2, <1>5, <2>1, <2>2, <2>3 DEF OfAccepted
<1>14. Reassembled(new)'
  <2>1. NextOf(new, rcvd) = NextOf(pl, rcvd)
    <3>1. rcvd \in 0 .. sent BY <1>2
    <3>2. QED BY <1>8, <3>1
  <2>2. \A n \in 0 .. rcvd - 1 : n \in Nat /\ n # sent BY <1>2
  <2>3. \A n \in 0 .. rcvd - 1 : new[n] = pl[n] BY <1>8, <2>2
  <2>4. AtPlace(Held, NextOf(new, rcvd)) /\ expectedSeqNumber = vrR
        /\ \A n \in 0 .. rcvd - 1 : \A c \in ToSet(new[n]) : Arrived(Held, c)
    BY <2>1, <2>3 DEF Explains, Reassembled
  <2>5. Held' = Held BY <1>2 DEF Held
  <2>6. QED BY <1>2, <2>4, <2>5 DEF Reassembled
<1>15. ASSUME NEW p \in Copies' PROVE p.data = new[p.n]
  <2>1. CASE p \in Copies
    <3>1. p.n \in Nat /\ p.n < sent
      <4>1. p.n \in Nat BY <2>1, Numbers DEF IInv, Copies
      <4>2. p.n < sent \/ p.n < HN BY <2>1 DEF IInv, Copies, TxBufferInv, RxBufferInv, DataInv
      <4>3. QED BY <1>2, <4>1, <4>2
    <3>2. p.n # sent BY <1>2, <3>1
    <3>3. QED BY <1>8, <2>1, <3>1, <3>2 DEF Explains
  <2>2. CASE p.n = sent /\ p.data = a BY <1>8, <2>2
  <2>3. QED BY <1>2, <1>6, <2>1, <2>2 DEF Copies
<1>16. QED BY <1>12, <1>13, <1>14, <1>15 DEF PayloadInv, Explains

\* A copy of a PDU carries what the PDU carried.
LEMMA PayloadRetransmitPdu ==
    ASSUME IInv, NEW pl, Explains(pl), NEW bytes \in 1 .. MaxDataField, RetransmitPdu(bytes)
    PROVE  Explains(pl)'
<1>1. PICK e \in retxBuffer :
         /\ retxBuffer' = {p \in retxBuffer : p.sn # e.sn}
         /\ txedBuffer' = {p \in txedBuffer : p.sn # e.sn}
                               \cup {[e EXCEPT !.retx = RetxCount(e)]}
         /\ dataPdus' = dataPdus \cup
              {[n |-> e.n, sn |-> e.sn, data |-> e.data, poll |-> PollsAgain(e)]}
  BY Zenon DEF RetransmitPdu
<1>2. /\ UNCHANGED <<txonBuffer, accepted, sent>>
      /\ UNCHANGED <<rxonBuffer, keepS0, expectedSeqNumber, delivered, rcvd, vrR>>
  BY DEF RetransmitPdu, rxVars
<1> DEFINE f == [e EXCEPT !.retx = RetxCount(e)]
<1>3. f.n = e.n /\ f.data = e.data
  BY DEF IInv, TypeOK, TxTypeOK, HeldPdu
<1> HIDE DEF f
<1>4. \A p \in txedBuffer' : p \in txedBuffer \/ p = f BY <1>1 DEF f
<1>5. \A p \in Copies' : p \in Copies \/ p = f \/ (p.n = e.n /\ p.data = e.data)
  BY <1>1, <1>2, <1>4 DEF Copies
<1>6. e \in Copies BY DEF Copies
<1>7. \A p \in Copies' : \E q \in Copies : p.n = q.n /\ p.data = q.data
  BY <1>3, <1>5, <1>6
<1>8. QED BY <1>2, <1>7, PayloadFrame
\* Steps that release, move or lose PDUs.
LEMMA PayloadLessCopies ==
    ASSUME NEW pl, Explains(pl), UNCHANGED <<txonBuffer, accepted, sent>>,
           UNCHANGED <<keepS0, expectedSeqNumber, delivered, rcvd, vrR>>,
           Copies' \subseteq Copies
    PROVE  Explains(pl)'
<1>1. \A p \in Copies' : \E q \in Copies : p.n = q.n /\ p.data = q.data OBVIOUS
<1>2. QED BY <1>1, PayloadFrame

\* A data PDU that arrives.  Those of the run that VR(R) passes are reassembled.
LEMMA PayloadReceiveDataPdu ==
    ASSUME IInv, NEW pl, Explains(pl), NEW m \in dataPdus, ReceiveDataPdu(m),
           UNCHANGED txVars, dataPdus' \subseteq dataPdus
    PROVE  Explains(pl)' /\ Len(delivered) <= Len(delivered')
<1>1. UNCHANGED <<txonBuffer, accepted, sent, txedBuffer, retxBuffer>> BY DEF txVars
<1>2. Len(delivered) <= Len(delivered)
  <2>1. Len(delivered) \in Nat BY LenProperties DEF Explains, Reassembled, AtPlace, Held
  <2>2. QED BY <2>1
<1>3. CASE UNCHANGED <<rxonBuffer, vrR, keepS0, expectedSeqNumber, delivered, rcvd>>
  <2>1. Copies' \subseteq Copies BY <1>1, <1>3 DEF Copies
  <2>2. QED BY <1>1, <1>2, <1>3, <2>1, PayloadLessCopies
<1> DEFINE new == [n |-> m.n, sn |-> m.sn, data |-> m.data]
           buffer == IF Has(rxonBuffer, m.sn) THEN rxonBuffer ELSE rxonBuffer \cup {new}
<1>4. new.n = m.n /\ new.sn = m.sn /\ new.data = m.data /\ m \in Copies BY DEF Copies
<1> HIDE DEF new
<1>5. \A p \in buffer : p \in rxonBuffer \/ p = new OBVIOUS
<1>6. CASE /\ rxonBuffer' = buffer
           /\ UNCHANGED <<vrR, keepS0, expectedSeqNumber, delivered, rcvd>>
  <2>1. \A p \in Copies' : p \in Copies \/ p = new BY <1>1, <1>5, <1>6 DEF Copies
  <2>2. \A p \in Copies' : \E q \in Copies : p.n = q.n /\ p.data = q.data BY <1>4, <2>1
  <2>3. QED BY <1>1, <1>2, <1>6, <2>2, PayloadFrame
<1>7. ASSUME IsInsideReceivingWindow(m.sn, vrR), m.sn = vrR,
             NEW k \in 0 .. SNMod - 1, IsRun(buffer, vrR, k), DeliverRun(buffer, k)
      PROVE  Explains(pl)' /\ Len(delivered) <= Len(delivered')
  <2>1. /\ rcvd \in Nat /\ sent \in Nat /\ HN \in Nat /\ HN <= sent
        /\ rcvd <= sent /\ sent <= rcvd + WindowSize /\ vrR = SnOf(rcvd) /\ k \in Nat
    BY Positions, Sizes DEF IInv, WindowInv
  <2>2. m.n \in Nat /\ m.sn = SnOf(m.n) /\ m.n < sent /\ sent <= m.n + MaxLag
    BY Numbers DEF IInv, DataInv
  <2>3. rcvd <= m.n
    <3>1. m.n < rcvd + WindowSize /\ rcvd <= m.n + MaxLag BY <2>1, <2>2, Sizes
    <3>2. QED BY <1>7, <2>1, <2>2, <3>1, InsideIsAhead
  <2>4. ASSUME NEW p \in buffer
        PROVE  /\ p.n \in Nat /\ p.sn = SnOf(p.n) /\ rcvd <= p.n /\ p.n < sent
               /\ p.data = pl[p.n]
    <3>1. CASE p = new BY <1>4, <2>2, <2>3, <3>1 DEF Explains
    <3>2. CASE p \in rxonBuffer
      <4>1. p.n \in Nat /\ p.sn = SnOf(p.n) /\ rcvd < p.n /\ p.n < HN
        BY <3>2, Numbers DEF IInv, RxBufferInv
      <4>2. rcvd <= p.n /\ p.n < sent BY <2>1, <4>1
      <4>3. p.data = pl[p.n] BY <3>2 DEF Explains, Copies
      <4>4. QED BY <4>1, <4>2, <4>3
    <3>3. QED BY <1>5, <3>1, <3>2
  <2> HIDE DEF buffer
  <2>5. ASSUME NEW j \in 0 .. k - 1
        PROVE  /\ Has(buffer, SnOf(rcvd + j)) /\ InLine(pl, rcvd + j) /\ rcvd + j < sent
               /\ At(buffer, SnOf(rcvd + j)).data = pl[rcvd + j]
    <3>1. j \in Nat /\ j < SNMod /\ rcvd + j \in Nat BY <2>1, Sizes
    <3>2. Plus(vrR, j) = SnOf(rcvd + j) BY <2>1, <3>1, PlusSn
    <3>3. Has(buffer, SnOf(rcvd + j)) BY <1>7, <3>2 DEF IsRun
    <3> DEFINE p == At(buffer, SnOf(rcvd + j))
    <3>4. p \in buffer /\ p.sn = SnOf(rcvd + j) BY <3>3 DEF Has, At
    <3> HIDE DEF p
    <3>5. p.n \in Nat /\ p.sn = SnOf(p.n) /\ rcvd <= p.n /\ p.n < sent /\ p.data = pl[p.n]
      BY <2>4, <3>4
    <3>6. rcvd + j < p.n + SNMod /\ p.n < rcvd + j + SNMod BY <2>1, <3>1, <3>5, Sizes
    <3>7. p.n = rcvd + j BY <3>1, <3>4, <3>5, <3>6, SnUnique
    <3>8. rcvd + j \in 0 .. sent - 1 BY <2>1, <3>1, <3>5, <3>7
    <3>9. InLine(pl, rcvd + j) BY <3>8 DEF Explains, BuiltInLine
    <3>10. QED BY <3>3, <3>5, <3>7, <3>9 DEF p
  <2> DEFINE s == ReassembleFrom(Held, buffer, SnOf(rcvd), k)
  <2>6. AtPlace(Held, NextOf(pl, rcvd)) /\ Held.expected = SnOf(rcvd)
    BY <2>1 DEF Explains, Reassembled, Held
  <2>7. CameThrough(s, Held, pl, rcvd, k)
    BY <2>1, <2>5, <2>6, AmSdus, RunInOrder
  <2>8. /\ keepS0' = s.keep /\ expectedSeqNumber' = s.expected /\ delivered' = s.out
        /\ rxonBuffer' \subseteq buffer /\ vrR' = SnOf(rcvd + k) /\ rcvd' = rcvd + k
    <3>1. Plus(vrR, k) = SnOf(rcvd + k) BY <2>1, PlusSn
    <3>2. QED BY <1>7, <2>1, <3>1 DEF DeliverRun, Held
  <2> HIDE DEF s
  <2>9. Held'.keep = s.keep /\ Held'.out = s.out BY <2>8 DEF Held
  <2>10. Reassembled(pl)'
    <3>1. AtPlace(Held', NextOf(pl, rcvd + k)) /\ expectedSeqNumber' = vrR'
      BY <2>7, <2>8, <2>9 DEF CameThrough, AtPlace
    <3>2. ASSUME NEW n \in 0 .. rcvd + k - 1, NEW b \in ToSet(pl[n]) PROVE Arrived(Held', b)
      <4>1. CASE n < rcvd
        <5>1. n \in 0 .. rcvd - 1 /\ n \in 0 .. sent - 1 BY <2>1, <4>1
        <5>2. Arrived(Held, b) BY <5>1 DEF Explains, Reassembled
        <5>3. b \in Byte
          <6>1. IsStream(pl[n]) BY <5>1 DEF Explains, BuiltInLine, InLine
          <6>2. QED BY <6>1, AmSdus, StreamBytes DEF ToSet
        <5>4. QED BY <2>7, <2>9, <5>2, <5>3 DEF CameThrough, Arrived
      <4>2. CASE ~ (n < rcvd)
        <5>1. n - rcvd \in 0 .. k - 1 /\ rcvd + (n - rcvd) = n BY <2>1, <4>2
        <5>2. QED BY <2>7, <2>9, <5>1 DEF CameThrough, Arrived
      <4>3. QED BY <4>1, <4>2
    <3>3. \A n \in 0 .. rcvd' - 1 : \A b \in ToSet(pl[n]) : Arrived(Held', b)
      <4>1. 0 .. rcvd' - 1 = 0 .. rcvd + k - 1 BY <2>1, <2>8
      <4>2. QED BY <3>2, <4>1
    <3>4. AtPlace(Held', NextOf(pl, rcvd'))
      BY <2>8, <3>1
    <3>5. QED BY <3>1, <3>3, <3>4 DEF Reassembled
  <2>11. ASSUME NEW p \in Copies' PROVE p.data = pl[p.n]
    <3>1. p \in Copies \/ p \in buffer BY <1>1, <2>8 DEF Copies
    <3>2. QED BY <2>4, <3>1 DEF Explains
  <2>12. BuiltInLine(pl)' /\ OfAccepted(pl)'
    BY <1>1 DEF Explains, BuiltInLine, OfAccepted
  <2>13. Len(delivered) <= Len(delivered') BY <2>7, <2>8 DEF CameThrough, Held
  <2>14. QED BY <2>10, <2>11, <2>12, <2>13 DEF Explains
<1>8. QED
  <2>1. CASE ~ IsInsideReceivingWindow(m.sn, vrR) BY <1>3, <2>1 DEF ReceiveDataPdu
  <2>2. CASE IsInsideReceivingWindow(m.sn, vrR) /\ m.sn # vrR
    BY <1>6, <2>2 DEF ReceiveDataPdu, new
  <2>3. CASE IsInsideReceivingWindow(m.sn, vrR) /\ m.sn = vrR
    BY <1>7, <2>3 DEF ReceiveDataPdu, new
  <2>4. QED BY <2>1, <2>2, <2>3

\* Every step leaves a payload that explains the state, and takes back no SDU.
LEMMA PayloadStep ==
    ASSUME IInv, PayloadInv, [Next]_vars
    PROVE  PayloadInv' /\ Len(delivered) <= Len(delivered')
<1>1. PICK pl : Explains(pl) BY DEF PayloadInv
<1>2. UNCHANGED delivered => Len(delivered) <= Len(delivered')
  <2>1. Len(delivered) \in Nat BY <1>1, LenProperties DEF Explains, Reassembled, AtPlace, Held
  <2>2. QED BY <2>1
<1>3. UNCHANGED rxVars => UNCHANGED <<rxonBuffer, keepS0, expectedSeqNumber, delivered, rcvd, vrR>>
  BY DEF rxVars
<1>4. UNCHANGED txVars => UNCHANGED <<txonBuffer, accepted, sent, txedBuffer, retxBuffer>>
  BY DEF txVars
<1>5. UNCHANGED netVars => UNCHANGED dataPdus BY DEF netVars
<1>6. Explains(pl)' => PayloadInv' BY DEF PayloadInv
<1>7. CASE UNCHANGED vars
  <2>1. UNCHANGED <<txVars, rxVars, netVars>> BY <1>7 DEF vars
  <2>2. Copies' \subseteq Copies BY <1>3, <1>4, <1>5, <2>1 DEF Copies
  <2>3. QED BY <1>1, <1>2, <1>3, <1>4, <1>6, <2>1, <2>2, PayloadLessCopies
<1>8. CASE TransmitPdcpPdu
  <2>1. UNCHANGED delivered BY <1>8 DEF TransmitPdcpPdu, rxVars
  <2>2. QED BY <1>1, <1>2, <1>6, <1>8, <2>1, PayloadTransmitPdcpPdu
<1>9. ASSUME NEW bytes \in 1 .. MaxDataField, RetransmitPdu(bytes) \/ TransmitNewPdu(bytes)
      PROVE  PayloadInv' /\ Len(delivered) <= Len(delivered')
  <2>1. UNCHANGED delivered BY <1>9 DEF RetransmitPdu, TransmitNewPdu, rxVars
  <2>2. QED BY <1>1, <1>2, <1>6, <1>9, <2>1, PayloadRetransmitPdu, PayloadTransmitNewPdu
<1>10. CASE TransmitStatusPdu
  <2>1. /\ UNCHANGED <<rxonBuffer, keepS0, expectedSeqNumber, delivered, rcvd, vrR, dataPdus>>
        /\ UNCHANGED txVars
    BY <1>10 DEF TransmitStatusPdu
  <2>2. Copies' \subseteq Copies BY <1>4, <2>1 DEF Copies
  <2>3. QED BY <1>1, <1>2, <1>4, <1>6, <2>1, <2>2, PayloadLessCopies
<1>11. ASSUME NEW m \in dataPdus, DeliverData(m)
       PROVE  PayloadInv' /\ Len(delivered) <= Len(delivered')
  <2>1. ReceiveDataPdu(m) /\ dataPdus' \subseteq dataPdus /\ UNCHANGED txVars
    BY <1>11 DEF DeliverData, Leaves
  <2>2. QED BY <1>1, <1>6, <2>1, PayloadReceiveDataPdu
<1>12. ASSUME NEW s \in statusPdus, DeliverStatus(s)
       PROVE  PayloadInv' /\ Len(delivered) <= Len(delivered')
  <2>1. UNCHANGED rxVars /\ UNCHANGED dataPdus /\ ReceiveStatusPdu(s)
    BY <1>12 DEF DeliverStatus
  <2>2. /\ UNCHANGED <<txonBuffer, accepted, sent>>
        /\ txedBuffer' \cup retxBuffer' \subseteq txedBuffer \cup retxBuffer
    <3>1. CASE UNCHANGED txVars BY <1>4, <3>1
    <3>2. CASE ~ UNCHANGED txVars
      <4>1. /\ retxBuffer' = {p \in retxBuffer : Covers(s, p.sn) => Nacked(s, p.sn)}
                                 \cup {p \in txedBuffer : Nacked(s, p.sn)}
            /\ txedBuffer' = {p \in txedBuffer : ~ Covers(s, p.sn)}
            /\ UNCHANGED <<txonBuffer, accepted, sent>>
        BY <2>1, <3>2 DEF ReceiveStatusPdu
      <4>2. QED BY <4>1
    <3>3. QED BY <3>1, <3>2
  <2>3. Copies' \subseteq Copies BY <1>3, <2>1, <2>2 DEF Copies
  <2>4. QED BY <1>1, <1>2, <1>3, <1>6, <2>1, <2>2, <2>3, PayloadLessCopies
<1>13. CASE Lose
  <2>1. UNCHANGED <<txVars, rxVars>> /\ dataPdus' \subseteq dataPdus BY <1>13 DEF Lose
  <2>2. Copies' \subseteq Copies BY <1>3, <1>4, <2>1 DEF Copies
  <2>3. QED BY <1>1, <1>2, <1>3, <1>4, <1>6, <2>1, <2>2, PayloadLessCopies
<1>14. CASE ExpirePollRetransmitTimer
  <2>1. /\ UNCHANGED <<txonBuffer, accepted, sent>> /\ UNCHANGED <<rxVars, netVars>>
        /\ txedBuffer' \cup retxBuffer' \subseteq txedBuffer \cup retxBuffer
    BY <1>14 DEF ExpirePollRetransmitTimer
  <2>2. Copies' \subseteq Copies BY <1>3, <1>5, <2>1 DEF Copies
  <2>3. QED BY <1>1, <1>2, <1>3, <1>6, <2>1, <2>2, PayloadLessCopies
<1>15. CASE ExpireBsrTimer
  <2>1. /\ UNCHANGED <<txonBuffer, accepted, sent, txedBuffer, retxBuffer>>
        /\ UNCHANGED <<rxVars, netVars>>
    BY <1>15 DEF ExpireBsrTimer
  <2>2. Copies' \subseteq Copies BY <1>3, <1>5, <2>1 DEF Copies
  <2>3. QED BY <1>1, <1>2, <1>3, <1>6, <2>1, <2>2, PayloadLessCopies
<1>16. CASE ExpireReorderingTimer \/ ExpireStatusProhibitTimer
  <2>1. /\ UNCHANGED <<rxonBuffer, keepS0, expectedSeqNumber, delivered, rcvd, vrR>>
        /\ UNCHANGED <<txVars, netVars>>
    BY <1>16 DEF ExpireReorderingTimer, ExpireStatusProhibitTimer
  <2>2. Copies' \subseteq Copies BY <1>4, <1>5, <2>1 DEF Copies
  <2>3. QED BY <1>1, <1>2, <1>4, <1>6, <2>1, <2>2, PayloadLessCopies
<1>17. QED
  BY <1>7, <1>8, <1>9, <1>10, <1>11, <1>12, <1>13, <1>14, <1>15, <1>16 DEF Next

\* Some payload explains every reachable state.
THEOREM PayloadHolds == Spec => []PayloadInv
<1>1. Init => PayloadInv BY PayloadInit
<1>2. IInv /\ PayloadInv /\ [Next]_vars => PayloadInv' BY PayloadStep
<1>3. QED BY <1>1, <1>2, IInvHolds, PTL DEF Spec

\* What PayloadInv says of the SDUs delivered.
LEMMA PayloadDelivered ==
    ASSUME IInv, PayloadInv
    PROVE  InOrderDelivery /\ delivered \in Seq(Seq(Byte)) /\ accepted \in 0 .. Len(SduLen)
<1>1. PICK pl : Explains(pl) BY DEF PayloadInv
<1>2. AtPlace(Held, NextOf(pl, rcvd)) BY <1>1 DEF Explains, Reassembled
<1>3. /\ delivered \in Seq(Seq(Byte)) /\ \A i \in 1 .. Len(delivered) : delivered[i] = Sdu(i)
      /\ NextOf(pl, rcvd)[1] = Len(delivered) + 1
  BY <1>2 DEF AtPlace, Held
<1>4. Len(delivered) \in Nat BY <1>3, LenProperties
<1>5. accepted \in Nat /\ rcvd \in Nat /\ rcvd <= sent /\ sent \in Nat /\ accepted \in 0 .. Len(SduLen)
  <2>1. Len(SduLen) \in Nat BY AmAssumption, LenProperties
  <2>2. QED BY <2>1, Positions DEF IInv, TypeOK, TxTypeOK
<1>6. Len(delivered) <= accepted
  <2>1. CASE rcvd = 0
    <3>1. NextOf(pl, rcvd)[1] = 1 BY <2>1 DEF NextOf
    <3>2. QED BY <1>3, <1>4, <1>5, <3>1
  <2>2. CASE rcvd # 0
    <3> DEFINE d == pl[rcvd - 1]
    <3>1. rcvd - 1 \in 0 .. sent - 1 BY <1>5, <2>2
    <3>2. IsStream(d) /\ d # <<>> BY <1>1, <3>1 DEF Explains, BuiltInLine, InLine
    <3>3. Len(d) \in 1 .. Len(d) /\ DOMAIN d = 1 .. Len(d)
      <4>1. Len(d) \in Nat /\ DOMAIN d = 1 .. Len(d) /\ d \in Seq(Byte) BY <3>2, AmSdus, StreamBytes
      <4>2. Len(d) # 0 BY <3>2, <4>1, EmptySeq
      <4> HIDE DEF d
      <4>3. QED BY <4>1, <4>2
    <3>4. d[Len(d)][1] <= accepted /\ d[Len(d)][1] \in Nat
      <4>1. d[Len(d)] \in ToSet(d) BY <3>3 DEF ToSet
      <4>2. d[Len(d)][1] <= accepted BY <1>1, <3>1, <4>1 DEF Explains, OfAccepted
      <4>3. d[Len(d)][1] \in Nat BY <3>2, <3>3, AmSdus, StreamBytes
      <4>4. QED BY <4>2, <4>3
    <3>5. NextOf(pl, rcvd) = After(d[Len(d)]) BY <2>2 DEF NextOf
    <3>6. After(d[Len(d)])[1] \in {d[Len(d)][1], d[Len(d)][1] + 1} BY DEF After
    <3> HIDE DEF d
    <3>7. QED BY <1>3, <1>4, <1>5, <3>4, <3>5, <3>6
  <2>3. QED BY <2>1, <2>2
<1>7. QED BY <1>3, <1>5, <1>6 DEF InOrderDelivery

\* The peer's PDCP gets the accepted SDUs whole, once and in order, however their
\* bytes were cut into PDUs and in whatever order the PDUs arrived.
THEOREM DeliveredInOrder == Spec => []InOrderDelivery
<1>1. IInv /\ PayloadInv => InOrderDelivery BY PayloadDelivered
<1>2. QED BY <1>1, IInvHolds, PayloadHolds, PTL

\* Every byte of an accepted SDU that was not delivered is still to be sent, or in
\* a PDU that one of the two entities holds, or in the held segment.
THEOREM NoByteIsLost == Spec => []NothingLost
<1>1. ASSUME IInv, PayloadInv PROVE NothingLost
  <2>1. PICK pl : Explains(pl) BY <1>1 DEF PayloadInv
  <2>2. Len(delivered) \in Nat /\ accepted \in Nat /\ Len(SduLen) \in Nat
        /\ accepted <= Len(SduLen) /\ rcvd \in Nat /\ sent \in Nat
    <3>1. delivered \in Seq(Seq(Byte)) /\ accepted \in 0 .. Len(SduLen) BY <1>1, PayloadDelivered
    <3>2. Len(SduLen) \in Nat BY AmAssumption, LenProperties
    <3>3. QED BY <1>1, <3>1, <3>2, LenProperties, Positions DEF IInv
  <2>3. ASSUME NEW i \in Len(delivered) + 1 .. accepted, NEW b \in ToSet(Sdu(i))
        PROVE  b \in ToSet(txonBuffer) \cup BytesOf(txedBuffer) \cup BytesOf(retxBuffer)
                        \cup BytesOf(rxonBuffer) \cup ToSet(keepS0)
    <3>1. i \in 1 .. Len(SduLen) BY <2>2
    <3>2. b \in Byte /\ b[1] = i
      <4>1. IsStream(Sdu(i)) /\ Len(Sdu(i)) = SduLen[i] /\ \A k \in 1 .. SduLen[i] : Sdu(i)[k] = <<i, k>>
        BY <3>1, AmSdus, SduStream
      <4>2. PICK k \in 1 .. SduLen[i] : b = Sdu(i)[k]
        <5>1. DOMAIN Sdu(i) = 1 .. SduLen[i] BY <4>1, AmSdus, StreamBytes
        <5>2. QED BY <5>1 DEF ToSet
      <4>3. Sdu(i)[k] \in Byte BY <4>1, AmSdus, StreamBytes
      <4>4. QED BY <4>1, <4>2, <4>3
    <3>3. b[1] <= accepted /\ ~ (b[1] <= Len(delivered)) BY <2>2, <3>2
    <3>4. CASE b \in ToSet(txonBuffer) BY <3>4
    <3>5. ASSUME NEW n \in 0 .. sent - 1, b \in ToSet(pl[n])
          PROVE  b \in BytesOf(txedBuffer) \cup BytesOf(retxBuffer)
                          \cup BytesOf(rxonBuffer) \cup ToSet(keepS0)
      <4>1. CASE n < rcvd
        <5>1. n \in 0 .. rcvd - 1 BY <2>2, <4>1
        <5>2. Arrived(Held, b) BY <2>1, <3>5, <5>1 DEF Explains, Reassembled
        <5>3. QED BY <3>3, <5>2 DEF Arrived, Held
      <4>2. CASE ~ (n < rcvd)
        <5>1. PICK p \in txedBuffer \cup retxBuffer \cup rxonBuffer : p.n = n
          BY <1>1, <4>2 DEF IInv, ReleaseInv, Holds, Received
        <5>2. p.data = pl[n] BY <2>1, <5>1 DEF Explains, Copies
        <5>3. QED BY <3>5, <5>1, <5>2 DEF BytesOf
      <4>3. QED BY <4>1, <4>2
    <3>6. QED BY <2>1, <3>2, <3>3, <3>4, <3>5 DEF Explains, OfAccepted
  <2>4. QED BY <2>3 DEF NothingLost
<1>2. QED BY <1>1, IInvHolds, PayloadHolds, PTL

-----------------------------------------------------------------------------
(* The service                                                             *)

\* The messages the service accepted, as the refinement maps them.
LEMMA AcceptedMessages ==
    ASSUME NEW n \in Nat
    PROVE  LET s == [i \in 1 .. n |-> Sdu(i)]
           IN /\ s \in Seq({Sdu(i) : i \in 1 .. n}) /\ Len(s) = n /\ DOMAIN s = 1 .. n
              /\ \A i \in 1 .. n : s[i] = Sdu(i)
<1> DEFINE s == [i \in 1 .. n |-> Sdu(i)]
<1>1. s \in [1 .. n -> {Sdu(i) : i \in 1 .. n}] OBVIOUS
<1>2. QED BY <1>1, FunctionIsSequence

\* Each step of the two entities and of the PDUs between them is a step of the
\* service, or changes nothing it shows.
LEMMA ServiceStep ==
    ASSUME IInv, IInv', PayloadInv, PayloadInv', [Next]_vars
    PROVE  [Service!Next]_(Service!vars)
<1>1. /\ InOrderDelivery /\ delivered \in Seq(Seq(Byte)) /\ accepted \in Nat
      /\ Len(delivered) \in Nat /\ Len(SduLen) \in Nat
  <2>1. /\ InOrderDelivery /\ delivered \in Seq(Seq(Byte)) /\ accepted \in 0 .. Len(SduLen)
    BY PayloadDelivered
  <2>2. Len(SduLen) \in Nat BY AmAssumption, LenProperties
  <2>3. QED BY <2>1, <2>2, LenProperties
<1>2. /\ Len(delivered') <= accepted' /\ \A i \in 1 .. Len(delivered') : delivered'[i] = Sdu(i)
      /\ delivered' \in Seq(Seq(Byte)) /\ accepted' \in Nat /\ Len(delivered') \in Nat
  <2>1. (IInv /\ PayloadInv =>
            InOrderDelivery /\ delivered \in Seq(Seq(Byte)) /\ accepted \in 0 .. Len(SduLen))'
    BY PayloadDelivered, PTL
  <2>2. InOrderDelivery' /\ delivered' \in Seq(Seq(Byte)) /\ accepted' \in 0 .. Len(SduLen)
    BY <2>1
  <2>3. QED BY <1>1, <2>2, LenProperties DEF InOrderDelivery
<1>3. Len(delivered) <= Len(delivered') BY PayloadStep
<1> DEFINE acc == [i \in 1 .. accepted |-> Sdu(i)]
           acc2 == [i \in 1 .. accepted' |-> Sdu(i)]
<1>4. UNCHANGED accepted \/ (TransmitPdcpPdu /\ accepted' = accepted + 1)
  BY DEF Next, vars, txVars, rxVars, netVars, TransmitPdcpPdu, RetransmitPdu, TransmitNewPdu,
         TransmitStatusPdu, DeliverData, DeliverStatus, ReceiveStatusPdu, Lose,
         ExpirePollRetransmitTimer, ExpireBsrTimer, ExpireReorderingTimer,
         ExpireStatusProhibitTimer
<1>5. CASE TransmitPdcpPdu /\ accepted' = accepted + 1
  <2>1. UNCHANGED delivered /\ accepted + 1 \in DOMAIN SduLen
    <3>1. UNCHANGED delivered /\ accepted < Len(SduLen) BY <1>5 DEF TransmitPdcpPdu, rxVars
    <3>2. DOMAIN SduLen = 1 .. Len(SduLen) BY AmAssumption, LenProperties
    <3>3. QED BY <1>1, <3>1, <3>2
  <2>2. acc2 = Append(acc, Sdu(accepted + 1))
    <3> DEFINE M == {Sdu(i) : i \in 1 .. accepted + 1}
    <3>1. Sdu(accepted + 1) \in M /\ \A i \in 1 .. accepted : Sdu(i) \in M
      <4>1. \A i \in 1 .. accepted : i \in 1 .. accepted + 1 BY <1>1
      <4>2. accepted + 1 \in 1 .. accepted + 1 BY <1>1
      <4>3. QED BY <4>1, <4>2
    <3>2. acc \in [1 .. accepted -> M] /\ acc2 \in [1 .. accepted + 1 -> M]
      BY <1>5, <3>1
    <3>3. acc \in Seq(M) /\ Len(acc) = accepted /\ \A i \in 1 .. accepted : acc[i] = Sdu(i)
      BY <1>1, <3>2, FunctionIsSequence
    <3>4. /\ acc2 \in Seq(M) /\ Len(acc2) = accepted + 1
          /\ \A i \in 1 .. accepted + 1 : acc2[i] = Sdu(i)
      <4>1. accepted + 1 \in Nat BY <1>1
      <4>2. \A i \in 1 .. accepted + 1 : acc2[i] = Sdu(i) BY <1>5
      <4> HIDE DEF acc2, M
      <4>3. acc2 \in Seq(M) /\ Len(acc2) = accepted + 1 BY <3>2, <4>1, FunctionIsSequence
      <4>4. QED BY <4>2, <4>3
    <3> HIDE DEF acc, acc2, M
    <3> DEFINE ext == Append(acc, Sdu(accepted + 1))
    <3>5. /\ ext \in Seq(M) /\ Len(ext) = accepted + 1
          /\ ext[accepted + 1] = Sdu(accepted + 1)
          /\ \A i \in 1 .. accepted : ext[i] = Sdu(i)
      BY <3>1, <3>3, AppendProperties
    <3> HIDE DEF ext
    <3>6. \A i \in 1 .. accepted + 1 : i \in 1 .. accepted \/ i = accepted + 1 BY <1>1
    <3>7. \A i \in 1 .. Len(ext) : ext[i] = acc2[i] BY <3>4, <3>5, <3>6
    <3>8. ext = acc2 BY <3>4, <3>5, <3>7, SeqEqual
    <3>9. QED BY <3>8 DEF ext
  <2>3. Service!Accept
    <3>1. \E m \in {Sdu(i) : i \in DOMAIN SduLen} : acc2 = Append(acc, m) BY <2>1, <2>2
    <3>2. QED BY <2>1, <3>1 DEF Service!Accept
  <2>4. QED BY <2>3 DEF Service!Next
<1>6. CASE UNCHANGED accepted
  <2>1. CASE Len(delivered) = Len(delivered')
    <3>1. \A i \in 1 .. Len(delivered) : delivered[i] = delivered'[i]
      BY <1>1, <1>2, <2>1 DEF InOrderDelivery
    <3>2. delivered = delivered' BY <1>1, <1>2, <2>1, <3>1, SeqEqual
    <3>3. QED BY <1>6, <3>2 DEF Service!vars
  <2>2. CASE Len(delivered) # Len(delivered')
    <3>1. Len(delivered') \in Len(delivered) + 1 .. accepted BY <1>1, <1>2, <1>3, <1>6, <2>2
    <3>2. delivered' = SubSeq(acc, 1, Len(delivered'))
      <4> DEFINE k == Len(delivered')  M == Seq(Byte) \cup {Sdu(i) : i \in 1 .. accepted}
      <4>1. acc \in [1 .. accepted -> M] OBVIOUS
      <4>2. acc \in Seq(M) /\ Len(acc) = accepted /\ \A i \in 1 .. accepted : acc[i] = Sdu(i)
        BY <1>1, <4>1, FunctionIsSequence
      <4>3. \A i \in 1 .. k : i \in 1 .. accepted BY <1>1, <3>1
      <4>4. \A i \in 1 .. k : acc[i] \in M /\ acc[i] = Sdu(i) BY <4>2, <4>3
      <4> HIDE DEF acc, M
      <4> DEFINE sub == SubSeq(acc, 1, k)
      <4>5. /\ sub \in Seq(M) /\ Len(sub) = IF 1 <= k THEN k - 1 + 1 ELSE 0
            /\ \A i \in 1 .. k - 1 + 1 : sub[i] = acc[1 + i - 1]
        BY <1>2, <4>4, SubSeqProperties
      <4>6. k \in Nat \ {0} BY <1>1, <3>1
      <4> HIDE DEF sub, k
      <4>7. Len(sub) = k /\ k - 1 + 1 = k BY <4>5, <4>6
      <4>8. ASSUME NEW i \in 1 .. k PROVE sub[i] = delivered'[i]
        <5>1. i \in 1 .. k - 1 + 1 /\ 1 + i - 1 = i BY <4>6
        <5>2. delivered'[i] = Sdu(i) BY <1>2 DEF k
        <5>3. QED BY <4>4, <4>5, <5>1, <5>2
      <4>9. delivered' \in Seq(M)
        <5>1. delivered' \in [1 .. k -> M]
          <6>1. DOMAIN delivered' = 1 .. k BY <1>2, LenProperties DEF k
          <6>2. \A i \in 1 .. k : delivered'[i] \in M BY <4>4, <4>8, <1>2 DEF k
          <6>3. delivered' \in [1 .. k -> Seq(Byte)] BY <1>2, LenProperties DEF k
          <6>4. QED BY <6>2, <6>3
        <5>2. QED BY <4>6, <5>1, FunctionIsSequence
      <4>10. Len(sub) = Len(delivered') BY <4>7 DEF k
      <4>11. \A i \in 1 .. Len(sub) : sub[i] = delivered'[i] BY <4>7, <4>8
      <4>12. sub = delivered' BY <4>5, <4>9, <4>10, <4>11, SeqEqual
      <4>13. QED BY <4>12 DEF sub, k
    <3>3. Len(acc) = accepted
      <4>1. acc \in [1 .. accepted -> {Sdu(i) : i \in 1 .. accepted}] OBVIOUS
      <4>2. QED BY <1>1, <4>1, FunctionIsSequence
    <3>4. Service!Deliver BY <1>6, <3>1, <3>2, <3>3 DEF Service!Deliver
    <3>5. QED BY <3>4 DEF Service!Next
  <2>3. QED BY <2>1, <2>2
<1>7. QED BY <1>4, <1>5, <1>6

\* The safety part of ImplementsService: the two entities and the PDUs between them
\* show PDCP nothing that the service does not allow.
THEOREM ImplementsServiceSafely ==
    Spec => Service!Init /\ [][Service!Next]_(Service!vars)
<1>1. Init => Service!Init
  <2> SUFFICES ASSUME Init PROVE Service!Init OBVIOUS
  <2>1. [i \in 1 .. accepted |-> Sdu(i)] = <<>>
    <3>1. accepted = 0 BY DEF Init
    <3>2. [i \in 1 .. accepted |-> Sdu(i)] \in [1 .. accepted -> {Sdu(i) : i \in 1 .. accepted}]
      OBVIOUS
    <3>3. /\ [i \in 1 .. accepted |-> Sdu(i)] \in Seq({Sdu(i) : i \in 1 .. accepted})
          /\ Len([i \in 1 .. accepted |-> Sdu(i)]) = 0
      BY <3>1, <3>2, FunctionIsSequence
    <3>4. QED BY <3>3, EmptySeq
  <2>2. delivered = <<>> BY DEF Init
  <2>3. QED BY <2>1, <2>2 DEF Service!Init
<1>2. IInv /\ IInv' /\ PayloadInv /\ PayloadInv' /\ [Next]_vars => [Service!Next]_(Service!vars)
  BY ServiceStep
<1>3. QED BY <1>1, <1>2, IInvHolds, PayloadHolds, PTL DEF Spec

=============================================================================
