------------------------------- MODULE RlcAm -------------------------------
(***************************************************************************)
(* The acknowledged mode of RLC (NrRlcAm, nr-rlc-am.cc), one direction of  *)
(* one bearer: the transmitting side of one entity, the receiving side of  *)
(* its peer, and the two flows of PDUs between them.                       *)
(*                                                                         *)
(* A PDU is identified for the code by its sequence number only; the field *)
(* n, the count of PDUs built before it, is a history value that no guard  *)
(* of the entities reads.                                                  *)
(*                                                                         *)
(* The code sets m_pollPdu to 1, so every new PDU polls and the counters   *)
(* m_pduWithoutPoll and m_byteWithoutPoll are zero between two calls.      *)
(* VT(MS) and VR(MR) are always VT(A) and VR(R) plus the window size.      *)
(* A timer is a Boolean: pending or not; it may expire at any time.        *)
(***************************************************************************)
EXTENDS RlcSdu, FiniteSets

CONSTANTS
    WindowSize,        \* m_windowSize: 512 in the code
    MaxRetxThreshold,  \* m_maxRetxThreshold: 5 in the code
    MaxTxBufferSize,   \* m_maxTxBufferSize in bytes; 0: unlimited
    MaxDataField,      \* data bytes that the largest transmission opportunity carries
    MaxLag,            \* a copy of a PDU this many SNs behind VT(S) is no longer in flight
    MaxLoss, MaxDup    \* bounds: PDUs the lower layers lose, and deliver twice

ASSUME AmAssumption ==
    /\ WindowSize \in Nat \ {0}
    /\ MaxLag \in WindowSize .. SNMod - WindowSize
    /\ MaxRetxThreshold \in Nat \ {0}
    /\ MaxTxBufferSize \in Nat
    /\ MaxDataField \in Nat \ {0}
    /\ SduLen \in Seq(Nat \ {0})
    /\ MaxLoss \in Nat /\ MaxDup \in Nat

VARIABLES
    \* transmitting side
    txonBuffer,        \* bytes of the SDUs that wait for their first transmission
    txedBuffer,        \* PDUs sent and not acknowledged
    retxBuffer,        \* PDUs that wait for retransmission
    vtA, vtS,          \* first SN not acknowledged, next SN
    pollSn, pollRetransmitTimer, pollRetransmitTimerJustExpired,
    bsrTimer, maxRetxReachedNotified,
    \* receiving side
    rxonBuffer,        \* PDUs received above VR(R)
    vrR, vrX, vrMs, vrH,
    reorderingTimer, statusProhibitTimer, statusPduRequested,
    statusReported,    \* the MAC has a buffer status report that announces a STATUS PDU
    keepS0, expectedSeqNumber,
    \* the PDUs in flight, what the lower layers did to them
    dataPdus, statusPdus, losses, dups,
    \* history: SDUs accepted and delivered, PDUs built, acknowledged and received
    accepted, delivered, sent, acked, rcvd

txVars == <<txonBuffer, txedBuffer, retxBuffer, vtA, vtS, pollSn, pollRetransmitTimer,
            pollRetransmitTimerJustExpired, bsrTimer, maxRetxReachedNotified,
            accepted, sent, acked>>
rxVars == <<rxonBuffer, vrR, vrX, vrMs, vrH, reorderingTimer, statusProhibitTimer,
            statusPduRequested, statusReported, keepS0, expectedSeqNumber,
            delivered, rcvd>>
netVars == <<dataPdus, statusPdus, losses, dups>>
vars == <<txVars, rxVars, netVars>>

-----------------------------------------------------------------------------
(* PDUs                                                                    *)

DataPdu == [n : Nat, sn : Sn, data : Seq(Byte), poll : BOOLEAN]
HeldPdu == [n : Nat, sn : Sn, data : Seq(Byte), retx : 0 .. MaxRetxThreshold]
RxPdu == [n : Nat, sn : Sn, data : Seq(Byte)]
StatusPdu == [ackSn : Sn, nacks : SUBSET Sn, ackN : Nat]

\* Deviation for the checks: the transmit window is one PDU too large.
VtMsOneTooFar == Plus(vtA, WindowSize + 1)

VtMs == Plus(vtA, WindowSize)

\* Deviation: the upper edge of the receiving window is not tested.
IsInsideWithoutUpperEdge(sn, low) == Le(low, sn, low)

IsInsideReceivingWindow(sn, low) ==
    Le(low, sn, low) /\ Lt(sn, Plus(low, WindowSize), low)

-----------------------------------------------------------------------------
Init ==
    /\ txonBuffer = <<>> /\ txedBuffer = {} /\ retxBuffer = {}
    /\ vtA = 0 /\ vtS = 0 /\ pollSn = 0
    /\ pollRetransmitTimer = FALSE /\ pollRetransmitTimerJustExpired = FALSE
    /\ bsrTimer = FALSE /\ maxRetxReachedNotified = FALSE
    /\ rxonBuffer = {} /\ vrR = 0 /\ vrX = 0 /\ vrMs = 0 /\ vrH = 0
    /\ reorderingTimer = FALSE /\ statusProhibitTimer = FALSE
    /\ statusPduRequested = FALSE /\ statusReported = FALSE
    /\ keepS0 = <<>> /\ expectedSeqNumber = 0
    /\ dataPdus = {} /\ statusPdus = {} /\ losses = 0 /\ dups = 0
    /\ accepted = 0 /\ delivered = <<>> /\ sent = 0 /\ acked = 0 /\ rcvd = 0

-----------------------------------------------------------------------------
(* Transmitting side                                                       *)

\* PDCP submits the next SDU; one that overflows the buffer is discarded.
TransmitPdcpPdu ==
    /\ accepted < Len(SduLen)
    /\ LET sdu == Sdu(accepted + 1)
           fits == \/ MaxTxBufferSize = 0
                   \/ Len(txonBuffer) + Len(sdu) <= MaxTxBufferSize
       IN \/ fits /\ txonBuffer' = txonBuffer \o sdu /\ accepted' = accepted + 1
          \/ ~ fits /\ UNCHANGED <<txonBuffer, accepted>>
    /\ bsrTimer' = TRUE
    /\ UNCHANGED <<txedBuffer, retxBuffer, vtA, vtS, pollSn, pollRetransmitTimer,
                   pollRetransmitTimerJustExpired, maxRetxReachedNotified, sent, acked>>
    /\ UNCHANGED <<rxVars, netVars>>

\* The polling bit is set: POLL_SN is the last SN sent, t-PollRetransmit (re)starts.
Poll(nextSn) ==
    /\ pollRetransmitTimerJustExpired' = FALSE
    /\ pollSn' = Minus(nextSn, 1)
    /\ pollRetransmitTimer' = TRUE

\* The PDU is one of the window and its data fits the opportunity.
MayRetransmit(p, bytes) == Lt(p.sn, vtS, vtA) /\ Len(p.data) <= bytes

\* Deviation: only a full window makes a retransmitted PDU poll.
PollsAgainWhenStalled(p) == Ge(vtS, VtMs, vtA)

\* A retransmitted PDU polls when it is the last of all, when the transmit
\* window is full, or when t-PollRetransmit has just expired.
PollsAgain(p) ==
    \/ txonBuffer = <<>> /\ retxBuffer = {p}
    \/ Ge(vtS, VtMs, vtA)
    \/ pollRetransmitTimerJustExpired

\* Deviation: the count does not go along to the transmitted PDUs.
RetxCountRestarted(p) == 0

\* m_retxCount after one more retransmission, not counted beyond the threshold.
RetxCount(p) == IF p.retx < MaxRetxThreshold THEN p.retx + 1 ELSE p.retx

\* A transmission opportunity with PDUs to retransmit: the first one that fits
\* goes out with a new header and returns to the transmitted PDUs.
RetransmitPdu(bytes) ==
    /\ \E e \in retxBuffer :
          /\ MayRetransmit(e, bytes)
          /\ \A p \in retxBuffer : MayRetransmit(p, bytes) => Le(e.sn, p.sn, vtA)
          /\ IF PollsAgain(e) THEN Poll(vtS)
             ELSE UNCHANGED <<pollRetransmitTimerJustExpired, pollSn, pollRetransmitTimer>>
          /\ maxRetxReachedNotified' =
                (maxRetxReachedNotified \/ RetxCount(e) >= MaxRetxThreshold)
          /\ retxBuffer' = {p \in retxBuffer : p.sn # e.sn}
          /\ txedBuffer' = {p \in txedBuffer : p.sn # e.sn}
                               \cup {[e EXCEPT !.retx = RetxCount(e)]}
          /\ dataPdus' = dataPdus \cup
                {[n |-> e.n, sn |-> e.sn, data |-> e.data, poll |-> PollsAgain(e)]}
    /\ UNCHANGED <<txonBuffer, vtA, vtS, bsrTimer, accepted, sent, acked,
                   statusPdus, losses, dups>>
    /\ UNCHANGED rxVars

\* A transmission opportunity with nothing to retransmit: a new PDU takes the
\* next bytes of the transmission buffer, as many as the opportunity and the
\* length indicators leave room for, unless the transmit window is full.
TransmitNewPdu(bytes) ==
    /\ retxBuffer = {}
    /\ txonBuffer # <<>>
    /\ vtS # VtMs
    /\ \E k \in 1 .. Len(txonBuffer) :
          LET data == SubSeq(txonBuffer, 1, k)
          IN /\ k <= bytes
             /\ txonBuffer' = SubSeq(txonBuffer, k + 1, Len(txonBuffer))
             /\ txedBuffer' = {p \in txedBuffer : p.sn # vtS}
                                 \cup {[n |-> sent, sn |-> vtS, data |-> data, retx |-> 0]}
             /\ dataPdus' = {p \in dataPdus : p.n + MaxLag > sent}
                               \cup {[n |-> sent, sn |-> vtS, data |-> data, poll |-> TRUE]}
    /\ statusPdus' = {s \in statusPdus : s.ackN + MaxLag > sent}
    /\ vtS' = Plus(vtS, 1)
    /\ Poll(vtS')
    /\ sent' = sent + 1
    /\ UNCHANGED <<retxBuffer, vtA, bsrTimer, maxRetxReachedNotified, accepted, acked,
                   losses, dups>>
    /\ UNCHANGED rxVars

\* Deviation: a STATUS PDU of any age is applied.
IsValidAtAnyAge(s) == Le(vtA, s.ackSn, vtA)

\* ACK_SN lies in VT(A) .. VT(S); otherwise the STATUS PDU is discarded.
IsValid(s) == Le(vtA, s.ackSn, vtA) /\ Le(s.ackSn, vtS, vtA)

\* Deviation: ACK_SN itself counts as acknowledged.
CoversAckSn(s, sn) == Le(sn, s.ackSn, vtA) /\ Lt(sn, vtS, vtA)

\* The STATUS PDU says of this SN whether it was received.
Covers(s, sn) == Lt(sn, s.ackSn, vtA)

\* A PDU that the sender holds is reported missing.
Nacked(s, sn) == Covers(s, sn) /\ sn \in s.nacks /\ Has(txedBuffer \cup retxBuffer, sn)

\* A STATUS PDU arrives.  Below ACK_SN a held PDU is retransmitted when it is
\* NACKed and released otherwise; VT(A) stops at the first one NACKed.
ReceiveStatusPdu(s) ==
    \/ ~ IsValid(s) /\ UNCHANGED txVars
    \/ /\ IsValid(s)
       /\ pollRetransmitTimer' = (pollRetransmitTimer /\ ~ Covers(s, pollSn))
       /\ retxBuffer' = {p \in retxBuffer : Covers(s, p.sn) => Nacked(s, p.sn)}
                           \cup {p \in txedBuffer : Nacked(s, p.sn)}
       /\ txedBuffer' = {p \in txedBuffer : ~ Covers(s, p.sn)}
       /\ \E sn \in Sn :
             /\ Le(sn, s.ackSn, vtA)
             /\ sn = s.ackSn \/ Nacked(s, sn)
             /\ \A r \in Sn : Lt(r, sn, vtA) => ~ Nacked(s, r)
             /\ vtA' = sn
             /\ acked' = acked + Off(sn, vtA)
       /\ UNCHANGED <<txonBuffer, vtS, pollSn, pollRetransmitTimerJustExpired, bsrTimer,
                      maxRetxReachedNotified, accepted, sent>>

\* Deviation: the PDUs are copied to the retransmission buffer, not moved.
ExpirePollRetransmitTimerCopying ==
    /\ pollRetransmitTimer
    /\ pollRetransmitTimer' = FALSE
    /\ pollRetransmitTimerJustExpired' = TRUE
    /\ retxBuffer' = retxBuffer \cup {p \in txedBuffer : Lt(p.sn, vtS, vtA)}
    /\ UNCHANGED <<txonBuffer, txedBuffer, vtA, vtS, pollSn, bsrTimer,
                   maxRetxReachedNotified, accepted, sent, acked>>
    /\ UNCHANGED <<rxVars, netVars>>

\* t-PollRetransmit: with nothing else to send, or with a full window, all that
\* is not acknowledged is retransmitted; otherwise the next PDU polls.
ExpirePollRetransmitTimer ==
    /\ pollRetransmitTimer
    /\ pollRetransmitTimer' = FALSE
    /\ pollRetransmitTimerJustExpired' = TRUE
    /\ LET moved == {p \in txedBuffer : Lt(p.sn, vtS, vtA)}
       IN IF (txonBuffer = <<>> /\ retxBuffer = {}) \/ vtS = VtMs
          THEN retxBuffer' = retxBuffer \cup moved /\ txedBuffer' = txedBuffer \ moved
          ELSE UNCHANGED <<retxBuffer, txedBuffer>>
    /\ UNCHANGED <<txonBuffer, vtA, vtS, pollSn, bsrTimer, maxRetxReachedNotified,
                   accepted, sent, acked>>
    /\ UNCHANGED <<rxVars, netVars>>

\* Deviation: the report is repeated for data that was never sent only.
ExpireBsrTimerForNewData ==
    /\ bsrTimer
    /\ bsrTimer' = (txonBuffer # <<>>)
    /\ UNCHANGED <<txonBuffer, txedBuffer, retxBuffer, vtA, vtS, pollSn, pollRetransmitTimer,
                   pollRetransmitTimerJustExpired, maxRetxReachedNotified,
                   accepted, sent, acked>>
    /\ UNCHANGED <<rxVars, netVars>>

\* The timer of the periodic buffer status report runs while a buffer holds data.
ExpireBsrTimer ==
    /\ bsrTimer
    /\ bsrTimer' = (txonBuffer # <<>> \/ txedBuffer # {} \/ retxBuffer # {})
    /\ UNCHANGED <<txonBuffer, txedBuffer, retxBuffer, vtA, vtS, pollSn, pollRetransmitTimer,
                   pollRetransmitTimerJustExpired, maxRetxReachedNotified,
                   accepted, sent, acked>>
    /\ UNCHANGED <<rxVars, netVars>>

-----------------------------------------------------------------------------
(* Receiving side                                                          *)

\* The k PDUs from VR(R) on are reassembled in order and leave the buffer.
DeliverRun(buffer, k) ==
    LET held == [keep |-> keepS0, expected |-> expectedSeqNumber, out |-> delivered]
        st == ReassembleFrom(held, buffer, vrR, k)
    IN /\ keepS0' = st.keep /\ expectedSeqNumber' = st.expected /\ delivered' = st.out
       /\ rxonBuffer' = {p \in buffer : \A j \in 0 .. k - 1 : p.sn # Plus(vrR, j)}
       /\ vrR' = Plus(vrR, k)
       /\ rcvd' = rcvd + k

\* Deviation: once stopped the timer is not started for the gap that remains.
UpdateReorderingTimerOnce ==
    IF reorderingTimer
    THEN reorderingTimer' = (vrX # vrR') /\ vrX' = vrX
    ELSE reorderingTimer' = Gt(vrH', vrR', vrR') /\ vrX' = vrH'

\* t-Reordering after a PDU was placed in the buffer: it stops when VR(X) left
\* the window or was reached, and starts when a gap is open and it is stopped.
UpdateReorderingTimer ==
    LET stops == \/ vrX = vrR'
                 \/ /\ ~ IsInsideReceivingWindow(vrX, vrR')
                    /\ vrX # Plus(vrR', WindowSize)
    IN IF reorderingTimer /\ ~ stops
       THEN UNCHANGED <<reorderingTimer, vrX>>
       ELSE IF Gt(vrH', vrR', vrR')
            THEN reorderingTimer' = TRUE /\ vrX' = vrH'
            ELSE reorderingTimer' = FALSE /\ vrX' = vrX

\* A data PDU arrives.  A poll requests a STATUS PDU, which is announced to the
\* MAC unless t-StatusProhibit runs, even when the PDU itself is discarded.
ReceiveDataPdu(m) ==
    /\ statusPduRequested' = (statusPduRequested \/ m.poll)
    /\ statusReported' = (statusReported \/ (m.poll /\ ~ statusProhibitTimer))
    /\ IF ~ IsInsideReceivingWindow(m.sn, vrR)
       THEN UNCHANGED <<rxonBuffer, vrR, vrX, vrMs, vrH, reorderingTimer, keepS0,
                        expectedSeqNumber, delivered, rcvd>>
       ELSE LET buffer == IF Has(rxonBuffer, m.sn) THEN rxonBuffer
                          ELSE rxonBuffer \cup {[n |-> m.n, sn |-> m.sn, data |-> m.data]}
            IN /\ vrH' = IF Ge(m.sn, vrH, vrR) THEN Plus(m.sn, 1) ELSE vrH
               /\ \E k \in 0 .. SNMod - 1 : IsRun(buffer, vrMs, k) /\ vrMs' = Plus(vrMs, k)
               /\ IF m.sn = vrR
                  THEN \E k \in 0 .. SNMod - 1 : IsRun(buffer, vrR, k) /\ DeliverRun(buffer, k)
                  ELSE /\ rxonBuffer' = buffer
                       /\ UNCHANGED <<vrR, keepS0, expectedSeqNumber, delivered, rcvd>>
               /\ UpdateReorderingTimer
    /\ UNCHANGED statusProhibitTimer

\* A transmission opportunity with a STATUS PDU to send.  The PDU reports the
\* SNs missing below VR(MS) from VR(R) on, as many as fit; ACK_SN is the first
\* SN that is neither received nor reported missing.
TransmitStatusPdu ==
    /\ statusPduRequested /\ ~ statusProhibitTimer
    /\ LET missing == {sn \in Sn : Lt(sn, vrMs, vrR) /\ ~ Has(rxonBuffer, sn)}
       IN \E ack \in missing \cup {vrMs} :
             statusPdus' = statusPdus \cup
                {[ackSn |-> ack, nacks |-> {sn \in missing : Lt(sn, ack, vrR)},
                  ackN |-> rcvd + Off(ack, vrR)]}
    /\ statusPduRequested' = FALSE /\ statusReported' = FALSE /\ statusProhibitTimer' = TRUE
    /\ UNCHANGED <<rxonBuffer, vrR, vrX, vrMs, vrH, reorderingTimer, keepS0,
                   expectedSeqNumber, delivered, rcvd, dataPdus, losses, dups>>
    /\ UNCHANGED txVars

\* Deviation: VR(MS) is set to VR(X) though PDUs from VR(X) on were received.
ExpireReorderingTimerAtVrX ==
    /\ reorderingTimer
    /\ vrMs' = vrX
    /\ reorderingTimer' = Gt(vrH, vrMs', vrR)
    /\ vrX' = IF Gt(vrH, vrMs', vrR) THEN vrH ELSE vrX
    /\ statusPduRequested' = TRUE
    /\ statusReported' = (statusReported \/ ~ statusProhibitTimer)
    /\ UNCHANGED <<rxonBuffer, vrR, vrH, statusProhibitTimer, keepS0, expectedSeqNumber,
                   delivered, rcvd>>
    /\ UNCHANGED <<txVars, netVars>>

\* t-Reordering: the gaps below VR(X) count as lost and may be reported.
ExpireReorderingTimer ==
    /\ reorderingTimer
    /\ \E k \in 0 .. SNMod - 1 : IsRun(rxonBuffer, vrX, k) /\ vrMs' = Plus(vrX, k)
    /\ IF Gt(vrH, vrMs', vrR)
       THEN reorderingTimer' = TRUE /\ vrX' = vrH
       ELSE reorderingTimer' = FALSE /\ UNCHANGED vrX
    /\ statusPduRequested' = TRUE
    /\ statusReported' = (statusReported \/ ~ statusProhibitTimer)
    /\ UNCHANGED <<rxonBuffer, vrR, vrH, statusProhibitTimer, keepS0, expectedSeqNumber,
                   delivered, rcvd>>
    /\ UNCHANGED <<txVars, netVars>>

\* t-StatusProhibit: its handler does nothing.
ExpireStatusProhibitTimer ==
    /\ statusProhibitTimer
    /\ statusProhibitTimer' = FALSE
    /\ UNCHANGED <<rxonBuffer, vrR, vrX, vrMs, vrH, reorderingTimer, statusPduRequested,
                   statusReported, keepS0, expectedSeqNumber, delivered, rcvd>>
    /\ UNCHANGED <<txVars, netVars>>

-----------------------------------------------------------------------------
(* The lower layers: PDUs in flight are delivered in any order, some of    *)
(* them twice, and some are lost.                                          *)

\* What becomes of the copy that was delivered: it is gone, or stays in flight.
Leaves(flight, m) ==
    \/ flight' = flight \ {m} /\ UNCHANGED dups
    \/ dups < MaxDup /\ dups' = dups + 1 /\ UNCHANGED flight

DeliverData(m) ==
    /\ Leaves(dataPdus, m)
    /\ ReceiveDataPdu(m)
    /\ UNCHANGED <<statusPdus, losses>>
    /\ UNCHANGED txVars

DeliverStatus(s) ==
    /\ Leaves(statusPdus, s)
    /\ ReceiveStatusPdu(s)
    /\ UNCHANGED <<dataPdus, losses>>
    /\ UNCHANGED rxVars

Lose ==
    /\ losses < MaxLoss
    /\ losses' = losses + 1
    /\ \/ \E m \in dataPdus : dataPdus' = dataPdus \ {m} /\ UNCHANGED statusPdus
       \/ \E s \in statusPdus : statusPdus' = statusPdus \ {s} /\ UNCHANGED dataPdus
    /\ UNCHANGED dups
    /\ UNCHANGED <<txVars, rxVars>>

-----------------------------------------------------------------------------
Next ==
    \/ TransmitPdcpPdu
    \/ \E bytes \in 1 .. MaxDataField : RetransmitPdu(bytes) \/ TransmitNewPdu(bytes)
    \/ TransmitStatusPdu
    \/ \E m \in dataPdus : DeliverData(m)
    \/ \E s \in statusPdus : DeliverStatus(s)
    \/ Lose
    \/ ExpirePollRetransmitTimer \/ ExpireBsrTimer
    \/ ExpireReorderingTimer \/ ExpireStatusProhibitTimer

Spec == Init /\ [][Next]_vars

\* Every PDU number there can be: each PDU carries at least one byte.
PduNumber == 0 .. Cardinality(Byte) - 1

\* The fairness of the code's scheduling.  Timers of the simulator expire.  The
\* MAC serves a queue it was told about: the sender's while its periodic report
\* runs, in the end with its largest grant; the receiver's STATUS PDU only once
\* it was reported.  What the lower layers do not lose they deliver.
Fairness ==
    /\ WF_vars(bsrTimer /\ RetransmitPdu(MaxDataField))
    /\ WF_vars(bsrTimer /\ TransmitNewPdu(MaxDataField))
    /\ WF_vars(statusReported /\ TransmitStatusPdu)
    /\ \A n \in PduNumber : WF_vars(\E m \in dataPdus : m.n = n /\ DeliverData(m))
    /\ WF_vars(\E s \in statusPdus : DeliverStatus(s))
    /\ WF_vars(ExpirePollRetransmitTimer) /\ WF_vars(ExpireReorderingTimer)
    /\ WF_vars(ExpireStatusProhibitTimer)

FairSpec == Spec /\ Fairness

-----------------------------------------------------------------------------
(* Properties                                                              *)

TxTypeOK ==
    /\ txonBuffer \in Seq(Byte)
    /\ txedBuffer \subseteq HeldPdu /\ retxBuffer \subseteq HeldPdu
    /\ vtA \in Sn /\ vtS \in Sn /\ pollSn \in Sn
    /\ pollRetransmitTimer \in BOOLEAN /\ pollRetransmitTimerJustExpired \in BOOLEAN
    /\ bsrTimer \in BOOLEAN /\ maxRetxReachedNotified \in BOOLEAN
    /\ accepted \in 0 .. Len(SduLen)
    /\ sent \in Nat /\ acked \in Nat

RxTypeOK ==
    /\ rxonBuffer \subseteq RxPdu
    /\ vrR \in Sn /\ vrX \in Sn /\ vrMs \in Sn /\ vrH \in Sn
    /\ reorderingTimer \in BOOLEAN /\ statusProhibitTimer \in BOOLEAN
    /\ statusPduRequested \in BOOLEAN /\ statusReported \in BOOLEAN
    /\ rcvd \in Nat

NetTypeOK ==
    /\ dataPdus \subseteq DataPdu /\ statusPdus \subseteq StatusPdu
    /\ losses \in 0 .. MaxLoss /\ dups \in 0 .. MaxDup

\* Each variable of the two entities and of the flows keeps its type.
TypeOK == TxTypeOK /\ RxTypeOK /\ NetTypeOK

\* The PDU with number n arrived: it was reassembled or waits in the buffer.
Received(n) == n < rcvd \/ \E p \in rxonBuffer : p.n = n

\* The sender still holds the PDU with number n.
Holds(n) == \E p \in txedBuffer \cup retxBuffer : p.n = n

\* The sender gives up a PDU only when the peer has it: whatever STATUS PDUs
\* come late, twice or out of order, no PDU is released, and VT(A) passes no
\* SN, before the PDU was received.
NoFalseAck ==
    /\ \A n \in 0 .. sent - 1 : Holds(n) \/ Received(n)
    /\ acked <= rcvd

\* PDCP gets the accepted SDUs, each whole, once and in order.
InOrderDelivery ==
    /\ Len(delivered) <= accepted
    /\ \A i \in 1 .. Len(delivered) : delivered[i] = Sdu(i)

\* Every byte of an accepted SDU that was not delivered is somewhere: not yet
\* sent, in a PDU one of the two entities holds, or in the held segment.
BytesOf(buffer) == UNION {ToSet(p.data) : p \in buffer}
NothingLost ==
    \A i \in Len(delivered) + 1 .. accepted :
       ToSet(Sdu(i)) \subseteq ToSet(txonBuffer) \cup BytesOf(txedBuffer) \cup BytesOf(retxBuffer)
                                 \cup BytesOf(rxonBuffer) \cup ToSet(keepS0)

\* The two windows overlap as the protocol needs it.  As PDU numbers, with the
\* receiver's variables placed by their distance from VR(R):
\* VT(A) <= VR(R) <= VR(MS) <= VR(H) <= VT(S) <= VT(A) + window, and VR(X)
\* lies above VR(R) and not above VR(H) while t-Reordering runs.
WindowsAgree ==
    /\ acked <= rcvd
    /\ Off(vrMs, vrR) <= Off(vrH, vrR)
    /\ rcvd + Off(vrH, vrR) <= sent
    /\ sent <= acked + WindowSize
    /\ vtA = SnOf(acked) /\ vtS = SnOf(sent) /\ vrR = SnOf(rcvd)
    /\ reorderingTimer => Off(vrX, vrR) \in 1 .. Off(vrH, vrR)

\* A gap in the received SNs is either open to be reported in the next STATUS
\* PDU (it is below VR(MS)) or under t-Reordering; none is forgotten.
NoGapIsForgotten == Lt(vrMs, vrH, vrR) => reorderingTimer

\* The assertions and aborts of nr-rlc-am.cc do not fire: a retransmission
\* finds a PDU inside [VT(A), VT(S)), VT(S) is not above VT(MS), a SN is in one
\* of the two buffers of the sender only, and the loops that advance VR(MS) and
\* VR(R) end, because some SN of the number space is not in the buffer.
AssertionsHold ==
    /\ retxBuffer # {} => \E p \in retxBuffer : Lt(p.sn, vtS, vtA)
    /\ Le(vtS, VtMs, vtA)
    /\ \A p \in txedBuffer, q \in retxBuffer : p.sn # q.sn
    /\ \E sn \in Sn : ~ Has(rxonBuffer, sn)

\* A STATUS PDU that may be sent was announced to the MAC: nr-rlc-am.cc:1434
\* promises it for the expiry of t-Reordering on a bearer that only receives.
PendingStatusIsAdvertised ==
    statusPduRequested /\ ~ statusProhibitTimer => statusReported

\* While the sender holds data its periodic buffer status report runs, so that
\* the MAC is told again of data it has forgotten or of a PDU to retransmit.
HeldDataKeepsBsrTimer ==
    txonBuffer # <<>> \/ txedBuffer # {} \/ retxBuffer # {} => bsrTimer

\* VR(MS), the limit of what a STATUS PDU reports, never moves back: the SNs a
\* STATUS PDU acknowledged are not taken back by a later t-Reordering expiry.
VrMsNeverMovesBack ==
    [][rcvd' + Off(vrMs', vrR') >= rcvd + Off(vrMs, vrR)]_vars

\* A PDU that goes back and forth between the two buffers of the sender keeps
\* its retransmission count, which grows with each retransmission up to the
\* threshold, so that the radio link failure indication comes.
RetxCountKept ==
    [][\A p \in txedBuffer \cup retxBuffer : \A q \in (txedBuffer \cup retxBuffer)' :
          p.n = q.n => /\ p.retx <= q.retx
                       /\ p \in retxBuffer /\ q \in txedBuffer' =>
                             p.retx < q.retx \/ q.retx = MaxRetxThreshold]_vars

\* The refinement: the two entities and the PDUs between them implement the
\* service, an SDU standing for the sequence of its bytes.
Service == INSTANCE RlcService WITH
              Message <- {Sdu(i) : i \in DOMAIN SduLen},
              accepted <- [i \in 1 .. accepted |-> Sdu(i)],
              delivered <- delivered

\* What the buffer accepts from PDCP is delivered whole, once, in order, and in
\* the end, though PDUs are lost and STATUS PDUs kept back by t-StatusProhibit.
ImplementsService == Service!Spec

\* The sender gets rid of what it holds: VT(A) does not freeze on a PDU that was
\* received, though STATUS PDUs are lost, late or kept back by t-StatusProhibit.
SenderDrains ==
    [](sent > acked => <>(txedBuffer = {} /\ retxBuffer = {} /\ acked = sent))

=============================================================================
