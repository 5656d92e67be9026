------------------------------- MODULE RlcUm -------------------------------
(***************************************************************************)
(* The unacknowledged mode of RLC (NrRlcUm, nr-rlc-um.cc), one direction   *)
(* of one bearer: the transmitting entity, the receiving one, and the flow *)
(* of PDUs between them, which loses, repeats and reorders.                *)
(*                                                                         *)
(* A handover destroys the entities and makes new ones, while PDUs of the  *)
(* old transmitter are in flight: each PDU names its entity (nr-rlc.cc),   *)
(* and the numbers start again.                                            *)
(*                                                                         *)
(* The window of the receiver hangs from its upper edge VR(UH).  A PDU     *)
(* carries the time of the sender: here the number of the first PDU built  *)
(* in the same instant, since the code compares the times of one           *)
(* transmitter only.  As in RlcAm the field n is a history value: it       *)
(* counts the PDUs of one transmitter.                                     *)
(***************************************************************************)
EXTENDS RlcSdu, FiniteSets

CONSTANTS
    WindowSize,        \* m_windowSize: 512 in the code
    MaxTxBufferSize,   \* m_maxTxBufferSize in bytes; 0: unlimited
    MaxDataField,      \* data bytes that the largest transmission opportunity carries
    MaxPerInstant,     \* PDUs that are built in one instant
    MaxLag,            \* no PDU is in flight when the one MaxLag numbers later is built
    MaxTrouble,        \* bound: PDUs the lower layers lose or deliver twice
    MaxRestart         \* bound: how often each end of the bearer is made anew

ASSUME UmAssumption ==
    /\ WindowSize \in Nat \ {0}
    /\ MaxPerInstant \in 1 .. WindowSize
    /\ MaxLag \in 1 .. SNMod
    /\ WindowSize + WindowSize <= SNMod
    /\ MaxTxBufferSize \in Nat
    /\ MaxDataField \in Nat \ {0}
    /\ SduLen \in Seq(Nat \ {0})
    /\ MaxTrouble \in Nat /\ MaxRestart \in Nat

VARIABLES
    outOfOrderDelivery,   \* attribute of the receiver, fixed when it is made
    \* transmitting entity
    rlcEntityId,       \* of the present transmitter; later ones have larger ids
    txBuffer,          \* bytes of the SDUs that wait
    sequenceNumber, bsrTimer,
    clock,             \* the current instant
    \* receiving entity
    peerRlcEntityId,   \* the transmitter it listens to; 0: none heard yet
    rx,                \* the state variables of the receiver (InitialRx)
    \* the PDUs in flight, what the lower layers did to them
    pdus, troubles,
    \* history: SDUs accepted, SDUs this receiver delivered, PDUs this
    \* transmitter built, receivers destroyed
    accepted, delivered, sent, receivers

txVars == <<rlcEntityId, txBuffer, sequenceNumber, bsrTimer, clock, accepted, sent>>
rxVars == <<peerRlcEntityId, rx, delivered, receivers>>
netVars == <<pdus, troubles>>
vars == <<outOfOrderDelivery, txVars, rxVars, netVars>>

UmdPdu == [id : Nat, n : Nat, sn : Sn, data : Seq(Byte), time : Nat]

\* A PDU in the reception buffer; a tombstone stands for one delivered already.
RxPdu == [id : Nat, n : Nat, sn : Sn, data : Seq(Byte), tombstone : BOOLEAN]

\* The receiver at the start.  Its last two fields are history: one more than the
\* largest number placed in the buffer, and the SDUs that arrived within one PDU.
InitialRx ==
    [rxBuffer |-> {}, vrUr |-> 0, vrUx |-> 0, vrUh |-> 0, reorderingTimer |-> FALSE,
     maxRxSenderTimestamp |-> 0, keepS0 |-> <<>>, expectedSeqNumber |-> 0,
     newest |-> 0, arrived |-> {}]

Init ==
    /\ outOfOrderDelivery \in BOOLEAN
    /\ rlcEntityId = 1 /\ txBuffer = <<>> /\ sequenceNumber = 0 /\ bsrTimer = FALSE
    /\ clock = 0 /\ peerRlcEntityId = 0 /\ rx = InitialRx
    /\ pdus = {} /\ troubles = 0
    /\ accepted = 0 /\ delivered = <<>> /\ sent = 0 /\ receivers = 0

-----------------------------------------------------------------------------
(* Transmitting entity                                                     *)

\* Deviation for the checks: new data cancels the report timer.
TransmitPdcpPduCancelling ==
    /\ accepted < Len(SduLen)
    /\ txBuffer' = txBuffer \o Sdu(accepted + 1) /\ accepted' = accepted + 1
    /\ bsrTimer' = FALSE
    /\ UNCHANGED <<rlcEntityId, sequenceNumber, clock, sent>>
    /\ UNCHANGED <<outOfOrderDelivery, rxVars, netVars>>

\* PDCP submits the next SDU.  It is discarded when it overflows the buffer or
\* when the head of the queue has waited too long (EnablePdcpDiscarding).
\* A running report timer is left alone.
TransmitPdcpPdu ==
    /\ accepted < Len(SduLen)
    /\ LET sdu == Sdu(accepted + 1)
           fits == MaxTxBufferSize = 0 \/ Len(txBuffer) + Len(sdu) <= MaxTxBufferSize
       IN \/ fits /\ txBuffer' = txBuffer \o sdu /\ accepted' = accepted + 1
          \/ /\ ~ fits \/ txBuffer # <<>>
             /\ UNCHANGED <<txBuffer, accepted>>
    /\ UNCHANGED <<rlcEntityId, sequenceNumber, bsrTimer, clock, sent>>
    /\ UNCHANGED <<outOfOrderDelivery, rxVars, netVars>>

\* A transmission opportunity: a PDU takes the next bytes, as many as the
\* opportunity and the length indicators leave room for.
TransmitPdu(bytes) ==
    /\ txBuffer # <<>>
    /\ \A p \in pdus : p.id = rlcEntityId => p.n + MaxLag > sent
    /\ \/ clock' = sent
       \/ sent - clock < MaxPerInstant /\ UNCHANGED clock
    /\ \E k \in 1 .. Len(txBuffer) :
          /\ k <= bytes
          /\ txBuffer' = SubSeq(txBuffer, k + 1, Len(txBuffer))
          /\ pdus' = pdus \cup {[id |-> rlcEntityId, n |-> sent, sn |-> sequenceNumber,
                                 data |-> SubSeq(txBuffer, 1, k), time |-> clock']}
    /\ sequenceNumber' = Plus(sequenceNumber, 1)
    /\ bsrTimer' = (txBuffer' # <<>>)
    /\ sent' = sent + 1
    /\ UNCHANGED <<rlcEntityId, accepted, troubles>>
    /\ UNCHANGED <<outOfOrderDelivery, rxVars>>

\* The timer of the periodic buffer status report.
ExpireBsrTimer ==
    /\ bsrTimer
    /\ bsrTimer' = (txBuffer # <<>>)
    /\ UNCHANGED <<rlcEntityId, txBuffer, sequenceNumber, clock, accepted, sent>>
    /\ UNCHANGED <<outOfOrderDelivery, rxVars, netVars>>

-----------------------------------------------------------------------------
(* Receiving entity.  Its operators take its state r: the PDU of a new     *)
(* transmitter re-establishes the receiver before it is looked at.         *)

\* The base of all comparisons: the lower edge of the window below VR(UH).
Low(uh) == Minus(uh, WindowSize)

IsInsideReorderingWindow(sn, uh) == Le(Low(uh), sn, Low(uh)) /\ Lt(sn, uh, Low(uh))

\* Deviation: every PDU outside the window is new traffic.
IsDelayedNever(r, m) == FALSE

\* A PDU outside the window and sent before another one already received is a
\* severely delayed one, not new traffic.
IsDelayed(r, m) ==
    ~ IsInsideReorderingWindow(m.sn, r.vrUh) /\ m.time < r.maxRxSenderTimestamp

\* The PDU is in the buffer already, or VR(UR) has passed it.
IsDiscarded(r, m) ==
    \/ /\ Lt(r.vrUr, m.sn, Low(r.vrUh)) /\ Lt(m.sn, r.vrUh, Low(r.vrUh))
       /\ Has(r.rxBuffer, m.sn)
    \/ /\ Le(Low(r.vrUh), m.sn, Low(r.vrUh))
       /\ Lt(m.sn, r.vrUr, Low(r.vrUh))

\* Reassembly of PDUs of the buffer in ascending order of their SNs, from one on;
\* tombstones are skipped.
Deliver(st, buffer, from) ==
    ReassembleFrom(st, {p \in buffer : ~ p.tombstone}, from, SNMod)

\* ReassembleOutsideWindow: the PDUs met from VR(UR) on before the first one
\* that lies inside the window.
OutsideWindow(buffer, ur, uh) ==
    {p \in buffer : \A q \in buffer :
        Off(q.sn, ur) <= Off(p.sn, ur) => ~ IsInsideReorderingWindow(q.sn, uh)}

\* What reassembly of the receiver r goes on from.
Held(r) == [keep |-> r.keepS0, expected |-> r.expectedSeqNumber, out |-> delivered]

\* Deviation: once stopped the timer is not started for the gap that remains.
UpdateReorderingTimerOnce(r) ==
    IF r.reorderingTimer
    THEN [r EXCEPT !.reorderingTimer = ~ Le(r.vrUx, r.vrUr, Low(r.vrUh))]
    ELSE [r EXCEPT !.reorderingTimer = Gt(r.vrUh, r.vrUr, Low(r.vrUh)), !.vrUx = r.vrUh]

\* t-Reordering after a PDU was placed in the buffer: it stops when VR(UX) was
\* reached or left the window, and starts when a gap is open and it is stopped.
UpdateReorderingTimer(r) ==
    LET low == Low(r.vrUh)
        stops == \/ Le(r.vrUx, r.vrUr, low)
                 \/ ~ IsInsideReorderingWindow(r.vrUx, r.vrUh) /\ r.vrUx # r.vrUh
    IN IF r.reorderingTimer /\ ~ stops THEN r
       ELSE IF Gt(r.vrUh, r.vrUr, low)
            THEN [r EXCEPT !.reorderingTimer = TRUE, !.vrUx = r.vrUh]
            ELSE [r EXCEPT !.reorderingTimer = FALSE]

\* Deviation: what was delivered out of order is forgotten.
TombstonesErased(buffer) == {}

\* What the delivered PDUs of the buffer become with out-of-order delivery.
Tombstones(buffer) == {[p EXCEPT !.tombstone = TRUE] : p \in buffer}

\* The SDUs that lie whole in one PDU.
Whole(data) == {i \in DOMAIN SduLen : ToSet(Sdu(i)) \subseteq ToSet(data)}

Later(a, b) == IF a < b THEN b ELSE a

\* The PDU goes to the buffer.  With out-of-order delivery the PDUs outside the
\* window are delivered and leave tombstones.  A PDU outside the window moves
\* its upper edge, and what falls out at the lower edge is delivered; so is the
\* run of PDUs from VR(UR) on.
PlacePdu(r, m) ==
    LET placed == r.rxBuffer \cup {[id |-> m.id, n |-> m.n, sn |-> m.sn, data |-> m.data,
                                    tombstone |-> FALSE]}
        early == {p \in OutsideWindow(placed, r.vrUr, r.vrUh) : outOfOrderDelivery}
        marked == (placed \ early) \cup Tombstones(early)
        slides == ~ IsInsideReorderingWindow(m.sn, r.vrUh)
        uh == IF slides THEN Plus(m.sn, 1) ELSE r.vrUh
        passed == {p \in OutsideWindow(marked, r.vrUr, uh) : slides}
        ur == IF slides /\ ~ IsInsideReorderingWindow(r.vrUr, uh) THEN Low(uh) ELSE r.vrUr
        rest == marked \ passed
        run == {p \in rest : \A j \in 0 .. Off(p.sn, ur) : Has(rest, Plus(ur, j))}
        end == Plus(ur, Cardinality(run))
    IN \E st \in {Deliver(Deliver(Deliver(Held(r), early, r.vrUr), passed, r.vrUr), run, ur)} :
          /\ rx' = UpdateReorderingTimer(
                      [r EXCEPT !.rxBuffer = rest \ run,
                                !.keepS0 = st.keep, !.expectedSeqNumber = st.expected,
                                !.vrUh = uh, !.vrUr = end,
                                !.newest = Later(@, m.n + 1),
                                !.arrived = @ \cup Whole(m.data)])
          /\ delivered' = st.out

\* Deviation: PDUs of a transmitter that is gone are taken.
AcceptPduFromPeerEntityAlways(m) == TRUE

\* Not the PDU of a transmitter before the one the receiver listens to.
AcceptPduFromPeerEntity(m) == m.id >= peerRlcEntityId

\* Deviation: reassembly goes on where it was.
ReestablishRxSideButReassembly(r) ==
    [InitialRx EXCEPT !.keepS0 = r.keepS0, !.expectedSeqNumber = r.expectedSeqNumber]

\* Everything received is discarded, and t-Reordering stops.
ReestablishRxSide(r) == InitialRx

\* The receiver as the PDU meets it: re-established for a later transmitter.
Met(m) ==
    IF peerRlcEntityId # 0 /\ m.id > peerRlcEntityId THEN ReestablishRxSide(rx) ELSE rx

ReceivePdu(m) ==
    IF ~ AcceptPduFromPeerEntity(m) THEN UNCHANGED rxVars
    ELSE /\ UNCHANGED receivers
         /\ peerRlcEntityId' = Later(peerRlcEntityId, m.id)
         /\ LET r == Met(m)
                heard == [r EXCEPT !.maxRxSenderTimestamp = Later(@, m.time)]
            IN IF IsDelayed(r, m) THEN rx' = r /\ UNCHANGED delivered
               ELSE IF IsDiscarded(r, m) THEN rx' = heard /\ UNCHANGED delivered
               ELSE PlacePdu(heard, m)

\* Deviation: the PDUs from VR(UX) on leave the buffer without being delivered.
AtExpiryUpToVrUx(k) ==
    LET low == Low(rx.vrUh)
        ur == Plus(rx.vrUx, k)
        passed == {p \in rx.rxBuffer : Le(rx.vrUr, p.sn, low) /\ Lt(p.sn, ur, low)}
    IN [ur |-> ur, buffer |-> rx.rxBuffer \ passed,
        st |-> Deliver(Held(rx), {p \in passed : Lt(p.sn, rx.vrUx, low)}, rx.vrUr)]

\* Deviation: the interval that is delivered starts at the new VR(UR).
AtExpiryAfterAdvance(k) ==
    [ur |-> Plus(rx.vrUx, k), buffer |-> rx.rxBuffer, st |-> Held(rx)]

\* What t-Reordering leaves when it expires: VR(UR) goes to the first SN from
\* VR(UX) on that was not received, and what lies below is delivered.
AtExpiry(k) ==
    LET low == Low(rx.vrUh)
        ur == Plus(rx.vrUx, k)
        passed == {p \in rx.rxBuffer : Le(rx.vrUr, p.sn, low) /\ Lt(p.sn, ur, low)}
    IN [ur |-> ur, buffer |-> rx.rxBuffer \ passed, st |-> Deliver(Held(rx), passed, rx.vrUr)]

\* t-Reordering: the gaps below VR(UX) are given up, and a segment that is held
\* after the delivery is discarded.
ExpireReorderingTimer ==
    /\ rx.reorderingTimer
    /\ UNCHANGED <<outOfOrderDelivery, txVars, netVars, peerRlcEntityId, receivers>>
    /\ \E at \in {AtExpiry(k) : k \in {j \in 0 .. SNMod - 1 : IsRun(rx.rxBuffer, rx.vrUx, j)}} :
          LET open == Gt(rx.vrUh, at.ur, Low(rx.vrUh))
          IN /\ rx' = [rx EXCEPT !.rxBuffer = at.buffer, !.vrUr = at.ur,
                                 !.keepS0 = <<>>, !.expectedSeqNumber = at.st.expected,
                                 !.reorderingTimer = open,
                                 !.vrUx = IF open THEN rx.vrUh ELSE @]
             /\ delivered' = at.st.out

-----------------------------------------------------------------------------
(* The lower layers: PDUs in flight are delivered in any order, some of    *)
(* them twice, and some are lost.  Numbers cannot tell a PDU from one a    *)
(* whole turn away, so at least one PDU of SNMod - WindowSize consecutive  *)
(* ones arrives before those after it, unless the receiver is new.         *)

DeliverPdu(m) ==
    /\ Met(m).newest # 0 => m.n < Met(m).newest + SNMod - WindowSize
    /\ ReceivePdu(m)
    /\ \/ pdus' = pdus \ {m} /\ UNCHANGED troubles
       \/ troubles < MaxTrouble /\ troubles' = troubles + 1 /\ UNCHANGED pdus
    /\ UNCHANGED <<outOfOrderDelivery, txVars>>

Lose ==
    /\ troubles < MaxTrouble
    /\ troubles' = troubles + 1
    /\ \E m \in pdus : pdus' = pdus \ {m}
    /\ UNCHANGED <<outOfOrderDelivery, txVars, rxVars>>

-----------------------------------------------------------------------------
(* The ends of the bearer: an entity is destroyed with what it holds, and  *)
(* one with the next id takes its place.                                   *)

RecreateTransmitter ==
    /\ rlcEntityId <= MaxRestart /\ rlcEntityId' = rlcEntityId + 1
    /\ txBuffer' = <<>> /\ sequenceNumber' = 0 /\ bsrTimer' = FALSE
    /\ clock' = 0 /\ sent' = 0
    /\ UNCHANGED accepted
    /\ UNCHANGED <<outOfOrderDelivery, rxVars, netVars>>

RecreateReceiver ==
    /\ receivers < MaxRestart /\ receivers' = receivers + 1
    /\ rx' = InitialRx /\ peerRlcEntityId' = 0 /\ delivered' = <<>>
    /\ UNCHANGED <<outOfOrderDelivery, txVars, netVars>>

-----------------------------------------------------------------------------
Next ==
    \/ TransmitPdcpPdu
    \/ \E bytes \in 1 .. MaxDataField : TransmitPdu(bytes)
    \/ \E m \in pdus : DeliverPdu(m)
    \/ Lose
    \/ ExpireBsrTimer \/ ExpireReorderingTimer
    \/ RecreateTransmitter \/ RecreateReceiver

Spec == Init /\ [][Next]_vars

\* The timers of the simulator expire.
FairSpec == Spec /\ WF_vars(ExpireReorderingTimer)

-----------------------------------------------------------------------------
(* Properties                                                              *)

\* Each variable of the two entities and of the flow between them keeps its type.
TypeOK ==
    /\ outOfOrderDelivery \in BOOLEAN
    /\ rlcEntityId \in Nat \ {0} /\ txBuffer \in Seq(Byte) /\ sequenceNumber \in Sn
    /\ bsrTimer \in BOOLEAN /\ clock \in Nat
    /\ peerRlcEntityId \in 0 .. rlcEntityId
    /\ rx.rxBuffer \subseteq RxPdu /\ rx.vrUr \in Sn /\ rx.vrUx \in Sn /\ rx.vrUh \in Sn
    /\ rx.reorderingTimer \in BOOLEAN /\ rx.maxRxSenderTimestamp \in Nat
    /\ rx.keepS0 \in Seq(Byte) /\ rx.expectedSeqNumber \in Sn
    /\ pdus \subseteq UmdPdu /\ troubles \in 0 .. MaxTrouble
    /\ accepted \in 0 .. Len(SduLen) /\ sent \in Nat /\ receivers \in 0 .. MaxRestart

\* A receiver gives PDCP SDUs that were accepted, each whole and at most once, and
\* without out-of-order delivery in the order they were submitted, though the
\* PDUs of transmitters before and after a handover carry the same numbers.
SdusDelivered ==
    \E sdu \in [DOMAIN delivered -> 1 .. accepted] :
       /\ \A j \in DOMAIN delivered : delivered[j] = Sdu(sdu[j])
       /\ \A j, k \in DOMAIN delivered :
             j < k => (sdu[j] # sdu[k] /\ (outOfOrderDelivery \/ sdu[j] < sdu[k]))

\* VR(UR) on the line of PDU numbers.
UrN == rx.newest - Off(rx.vrUh, rx.vrUr)

\* The window follows the newest PDU placed and the numbers mean what they
\* should: the buffer holds PDUs of one transmitter, and of those in flight a PDU
\* that may arrive is placed in it exactly when it lies at or above VR(UR) and is
\* not there yet, whatever turn of the numbers it is of.
ExactlyNewPdusArePlaced ==
    /\ rx.vrUh = SnOf(rx.newest)
    /\ \A p \in rx.rxBuffer :
          p.id = peerRlcEntityId /\ p.sn = SnOf(p.n) /\ UrN < p.n /\ p.n < rx.newest
    /\ \A m \in pdus :
          m.id = peerRlcEntityId /\ rx.newest # 0 /\ m.n < rx.newest + SNMod - WindowSize =>
             (~ IsDelayed(rx, m) /\ ~ IsDiscarded(rx, m)
                <=> UrN <= m.n /\ \A p \in rx.rxBuffer : p.n # m.n)

\* An SDU that arrived whole in one PDU placed in the buffer is delivered or
\* still waits there until the transmitter changes: it is not stranded when the
\* window moves.
WholeSdusAreKept ==
    \A i \in rx.arrived :
       \/ \E j \in DOMAIN delivered : delivered[j] = Sdu(i)
       \/ \E p \in rx.rxBuffer : ~ p.tombstone /\ i \in Whole(p.data)

\* While a gap is open t-Reordering runs.
GapKeepsReorderingTimer == rx.vrUr # rx.vrUh => rx.reorderingTimer

\* New data never stops the periodic report (the comment in DoTransmitPdcpPdu).
ReportGoesOn == [][bsrTimer /\ txBuffer' # <<>> => bsrTimer']_vars

\* A PDU placed in the reception buffer, or its tombstone, leaves it, though PDUs
\* before it never arrive (no PDU has a number above the count of all bytes).
BufferedPdusLeave ==
    \A n \in 0 .. FoldLeft(+, 0, SduLen) - 1 :
       (\E p \in rx.rxBuffer : p.n = n) ~> (\A p \in rx.rxBuffer : p.n # n)

\* The next byte of a held segment.
NextByte(segment) == <<Last(segment)[1], Last(segment)[2] + 1>>

\* nr-rlc-um.cc:937 says of a segment held at the expiry of t-Reordering that its
\* continuation was among the lost SNs and will never arrive: when the timer may
\* expire, the byte that continues it neither waits at the sender nor is in flight.
StrandedSduIsLost ==
    rx.reorderingTimer =>
       \A k \in 0 .. SNMod - 1 :
          IsRun(rx.rxBuffer, rx.vrUx, k) /\ AtExpiry(k).st.keep # <<>> =>
             LET next == NextByte(AtExpiry(k).st.keep)
             IN next \notin ToSet(txBuffer) \cup UNION {ToSet(m.data) : m \in pdus}

=============================================================================
