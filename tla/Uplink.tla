------------------------------- MODULE Uplink ------------------------------
(***************************************************************************)
(* The uplink of one UE: RLC above, the UE MAC, the air, the gNB's PHY,    *)
(* MAC and scheduler.                                                      *)
(*                                                                         *)
(* Requests, grants and blocks take their time and may vanish: the UE      *)
(* re-tunes, or a burst is not received.  A block that is received is      *)
(* decoded or corrupted; soft combining keeps what was corrupted.          *)
(***************************************************************************)
EXTENDS UeMac, UlScheduler

CONSTANT MaxDelay  \* slots until the feedback for a grant is there

\* A process outlives the way of its grant, block and feedback: with the
\* defaults that is N2Delay plus decoding, a few slots of 20.
ASSUME UplinkAssumption == MaxDelay \in 0 .. NumHarqProcess - 1

VARIABLES
    harqHistory,  \* gNB PHY: the blocks each process combines, by their data
    received,     \* units that reached the gNB's RLC
    writtenOff    \* history: units the uplink may give up

phyVars == <<harqHistory, received, writtenOff>>
vars == <<ueVars, gnbVars, airVars, phyVars, abort>>

TypeOK ==
    /\ UeTypeOK
    /\ GnbTypeOK
    /\ sr \in BOOLEAN
    /\ dcis \in Seq(Dci)
    /\ tbs \in Seq(Tb)
    /\ abort \in {"none", "TransmitRetx", "UlHarqFeedback"}
    /\ harqHistory \in [HarqId -> SUBSET SUBSET Data]
    /\ received \subseteq Data
    /\ trouble \in 0 .. MaxTrouble
    /\ writtenOff \subseteq Data

Init ==
    /\ UeInit
    /\ GnbInit
    /\ sr = FALSE
    /\ dcis = <<>>
    /\ tbs = <<>>
    /\ abort = "none"
    /\ harqHistory = [p \in HarqId |-> {}]
    /\ received = {}
    /\ trouble = 0
    /\ writtenOff = {}

Going == abort = "none" /\ ~ra

Ue(action) == Going /\ action /\ UNCHANGED <<gnbVars, phyVars>>

-----------------------------------------------------------------------------
(* The gNB                                                                 *)

\* Deviation for the checks: the history of a process is not forgotten when
\* new data comes.
CombinedForever(tb) == harqHistory[tb.p]

\* What a block is combined with: nothing when it carries new data.
Combined(tb) == IF tb.ndi = 1 THEN {} ELSE harqHistory[tb.p]

\* A block is decoded, or not.  After the last redundancy version the history
\* is dropped.
ReceiveTb(decoded) ==
    /\ Going
    /\ tbs # <<>>
    /\ LET tb == Head(tbs) IN
        /\ ulHarqInfoReceived' = Append(ulHarqInfoReceived, [p |-> tb.p, ok |-> decoded])
        /\ IF decoded
           THEN /\ received' = received \cup tb.data
                /\ ulCeReceived' = IF tb.bsr THEN "backlog" ELSE "empty"
                /\ UNCHANGED writtenOff
           ELSE /\ writtenOff' = IF IsLastRv(tb.rv) THEN writtenOff \cup tb.data ELSE writtenOff
                /\ UNCHANGED <<received, ulCeReceived>>
        /\ harqHistory' = [harqHistory EXCEPT ![tb.p] =
              IF decoded \/ tb.rv = MaxRv THEN {} ELSE Combined(tb) \cup {tb.data}]
    /\ tbs' = Tail(tbs)
    /\ UNCHANGED <<ueVars, sr, dcis, abort, srList, srBytesPending, lcg, ulHarq, ulHarqToRetransmit,
                    enableHarqReTx, trouble>>

\* The processes whose grant or block is under way.
Pending == {d.p : d \in ToSet(dcis)} \cup {tb.p : tb \in ToSet(tbs)}

\* The processes with a NACK for which no symbol was left.
LeftOut == {p \in HarqId : ulHarq'[p].status = "RECEIVED_FEEDBACK"}

SlotUl(cut, retx, room, grant) ==
    /\ Going
    /\ \A p \in Pending : ulHarq[p].timer < MaxDelay
    /\ SlotUlWith(cut, retx, room, grant)
    /\ writtenOff' = writtenOff \cup UNION {harqPacket[p] \cap Data : p \in LeftOut}
    /\ UNCHANGED <<ueVars, harqHistory, received>>

MaxNacks == Len(ulHarqToRetransmit) + Len(ulHarqInfoReceived)

SomeSlotUl ==
    \E cut \in 0 .. MaxNacks : \E retx \in SUBSET (1 .. cut) :
        \E room, grant \in BOOLEAN : SlotUl(cut, retx, room, grant)

-----------------------------------------------------------------------------
(* The air                                                                 *)

\* What a grant or a block of process p stood for is given up by its timer.
Vanish ==
    /\ Going
    /\ trouble < MaxTrouble
    /\ trouble' = trouble + 1
    /\ \/ /\ sr
          /\ sr' = FALSE
          /\ UNCHANGED <<dcis, tbs, writtenOff>>
       \/ /\ dcis # <<>>
          /\ dcis' = Tail(dcis)
          /\ writtenOff' = IF Head(dcis).ndi = 1 THEN writtenOff
                           ELSE writtenOff \cup (harqPacket[Head(dcis).p] \cap Data)
          /\ UNCHANGED <<sr, tbs>>
       \/ /\ tbs # <<>>
          /\ tbs' = Tail(tbs)
          /\ writtenOff' = writtenOff \cup Head(tbs).data
          /\ UNCHANGED <<sr, dcis>>
    /\ UNCHANGED <<ueVars, gnbVars, abort, harqHistory, received>>

-----------------------------------------------------------------------------
(* The specification                                                       *)

Next ==
    \/ Ue(Submit)
    \/ Ue(ExpireBsrTimer)
    \/ Ue(ExpireSrProhibitTimer)
    \/ Ue(SlotIndication)
    \/ Ue(ProcessUlDci)
    \/ \E decoded \in BOOLEAN : ReceiveTb(decoded)
    \/ SomeSlotUl
    \/ Vanish

Spec == Init /\ [][Next]_vars
-----------------------------------------------------------------------------
(* Safety                                                                  *)

\* Feedback never meets a process that does not wait for it, and no process
\* is asked to repeat what it never sent: FATAL_ERROR, asserts and aborts of
\* ProcessHARQFeedbacks, ComputeActiveHarq, ScheduleUlHarq and TransmitRetx.
AssertionsHold == abort = "none"

\* The gNB's PHY combines only copies of one block, though processes end in
\* several ways, are given new data at once, and the attribute that limits
\* retransmissions is unknown to the PHY.
NoMixedCombining ==
    /\ \A p \in HarqId : \A a, b \in harqHistory[p] : a = b
    /\ \A i \in DOMAIN tbs : \A a \in Combined(tbs[i]) : a = tbs[i].data

\* What the UE MAC took from RLC was received, or is still in the burst of a
\* process the scheduler keeps, or was given up for a reason: the last
\* retransmission failed, something vanished, or no symbol was left for it.
DataStaysUnderHarq ==
    1 .. sent \subseteq received \cup writtenOff
                        \cup UNION {harqPacket[p] : p \in {q \in HarqId : Active(ulHarq, q)}}

\* No block is sent again after it was received: the gNB MAC passes every
\* decoded block to RLC, as it has no filter for repeated ones in the uplink.
NothingTwice == \A i \in DOMAIN tbs : tbs[i].data \cap received = {}

-----------------------------------------------------------------------------
(* Liveness                                                                *)

\* Slots in which the other UEs leave enough symbols.
GrantingSlot == \E cut \in 0 .. MaxNacks : SlotUl(cut, {}, TRUE, TRUE)
RetransmittingSlot == \E cut \in 1 .. MaxNacks : SlotUl(cut, 1 .. cut, TRUE, FALSE)

\* Timers expire, slots come, what does not vanish arrives; again and again
\* there is room in a slot, and a block is decoded.
Fairness ==
    /\ WF_vars(Backlog /\ Ue(ExpireBsrTimer))
    /\ WF_vars(Ue(ExpireSrProhibitTimer))
    /\ WF_vars(Ue(SlotIndication))
    /\ WF_vars(Ue(ProcessUlDci))
    /\ WF_vars(SomeSlotUl)
    /\ SF_vars(ReceiveTb(TRUE))
    /\ SF_vars(GrantingSlot)
    /\ SF_vars(RetransmittingSlot)

FairSpec == Spec /\ Fairness

\* Data that waits at the UE is sent in the end, or the UE turns to random
\* access: whatever vanished, stale as the copies of the queue may be at the
\* UE MAC and at the scheduler.
BacklogServed == Backlog ~> (~Backlog \/ ra)

\* Every HARQ process the scheduler takes is free in the end, or has just been
\* taken again: none waits for good for a block that vanished, or for room to
\* retransmit.  With DataStaysUnderHarq, what was sent is received or given up.
JustTaken(p) == ulHarq[p].timer = 0 /\ ulHarq[p].rv = 0 /\ p \notin ToSet(ulHarqToRetransmit)

HarqProcessesEnd ==
    \A p \in HarqId :
        Active(ulHarq, p) /\ ~JustTaken(p) ~> (~Active(ulHarq, p) \/ JustTaken(p) \/ ra)

\* When the reports of the UE's RLC are used up, the scheduler learns it: it does
\* not go on granting because a block with a report was lost, or for the rest of
\* its own estimate.
WastedGrantsEnd == (lcg /\ ~ulBsr) ~> (~lcg \/ ulBsr \/ ra)
=============================================================================
