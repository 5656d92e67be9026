---------------------------- MODULE UlScheduler ----------------------------
(***************************************************************************)
(* The uplink of the gNB MAC and of its scheduler for one UE: requests and *)
(* buffer status reports, the HARQ processes, grants (nr-gnb-mac.cc,       *)
(* nr-mac-scheduler-ns3.cc, -harq-rr.cc, -lcg.cc, nr-mac-harq-vector.cc).  *)
(*                                                                         *)
(* The symbols of a slot are what other UEs, the SRS and the random access *)
(* leave: any number.  A model of one slot chooses what follows from it:   *)
(* which retransmissions fit, and whether there is room for new data.      *)
(***************************************************************************)
EXTENDS UlAir, SequencesExt

VARIABLES
    ulCeReceived,        \* gNB MAC: the last buffer status report since then
    ulHarqInfoReceived,  \* gNB MAC: HARQ feedback since then
    srList,              \* scheduler: requests not looked at yet
    srBytesPending,      \* a bootstrap grant is owed for a request
    lcg,                 \* the scheduler's copy of the UE's queue is not empty
    ulHarq,              \* the HARQ processes
    ulHarqToRetransmit,  \* NACKs buffered for the next slot
    enableHarqReTx       \* attribute EnableHarqReTx, chosen in GnbInit

gnbVars == <<ulCeReceived, ulHarqInfoReceived, srList, srBytesPending,
             lcg, ulHarq, ulHarqToRetransmit, enableHarqReTx>>

Feedback == [p : HarqId, ok : BOOLEAN]
Erased == [status |-> "INACTIVE", timer |-> 0, rv |-> 0]

GnbTypeOK ==
    /\ ulCeReceived \in {"none", "empty", "backlog"}
    /\ ulHarqInfoReceived \in Seq(Feedback)
    /\ srList \in BOOLEAN
    /\ srBytesPending \in BOOLEAN
    /\ lcg \in BOOLEAN
    /\ ulHarq \in [HarqId -> [status : {"INACTIVE", "WAITING_FEEDBACK", "RECEIVED_FEEDBACK"},
                              timer : 0 .. NumHarqProcess, rv : 0 .. MaxRv]]
    /\ ulHarqToRetransmit \in Seq(HarqId)
    /\ enableHarqReTx \in BOOLEAN

GnbInit ==
    /\ ulCeReceived = "none"
    /\ ulHarqInfoReceived = <<>>
    /\ srList = FALSE
    /\ srBytesPending = FALSE
    /\ lcg = FALSE
    /\ ulHarq = [p \in HarqId |-> Erased]
    /\ ulHarqToRetransmit = <<>>
    /\ enableHarqReTx \in BOOLEAN

Active(h, p) == h[p].status # "INACTIVE"

-----------------------------------------------------------------------------
(* HARQ processes                                                          *)

\* Deviation for the checks: the timer goes on counting from the grant.
ResetExpiredHARQLate(h) ==
    [p \in HarqId |->
        IF Active(h, p) /\ h[p].timer < NumHarqProcess
        THEN [h[p] EXCEPT !.timer = @ + 1] ELSE h[p]]

\* Each slot a process gets older, and is freed when it is too old.
ResetExpiredHARQ(h) ==
    [p \in HarqId |->
        IF Active(h, p) /\ h[p].timer < NumHarqProcess
        THEN [h[p] EXCEPT !.timer = @ + 1] ELSE Erased]

\* The elements of s at the positions in I, in order.
At(s, I) ==
    LET nth(k) == CHOOSE i \in I : Cardinality({j \in I : j <= i}) = k
    IN  [k \in 1 .. Cardinality(I) |-> s[nth(k)]]

\* The buffered NACKs go first; feedback for a freed process is disposed of.
MergeHARQ(h) ==
    LET buffered == [i \in DOMAIN ulHarqToRetransmit |->
                        [p |-> ulHarqToRetransmit[i], ok |-> FALSE]]
        all == buffered \o ulHarqInfoReceived
    IN  At(all, {i \in DOMAIN all : Active(h, all[i].p)})

\* Two feedbacks for one process in a slot.  Whatever they say, a check that
\* follows fails: the process is freed by the first one, or was not there when
\* the NACKs are collected, or is retransmitted twice.
IsTwofold(feedback) ==
    \E i, j \in DOMAIN feedback : i # j /\ feedback[i].p = feedback[j].p

\* Deviation for the checks: one retransmission more than there are versions.
IsLastRvOneMore(rv) == rv > IF enableHarqReTx THEN MaxRv ELSE 0

IsLastRv(rv) == rv = IF enableHarqReTx THEN MaxRv ELSE 0

\* Deviation for the checks: an ACK does not end the process.
EndsUnacknowledged(h, f) == IsLastRv(h[f.p].rv)

Ends(h, f) == f.ok \/ IsLastRv(h[f.p].rv)

Named(feedback) == {feedback[i].p : i \in DOMAIN feedback}

\* A process ends with an ACK or its last NACK, or is to be retransmitted.
ProcessHARQFeedbacks(h, feedback) ==
    [p \in HarqId |->
        IF \E f \in ToSet(feedback) : f.p = p /\ Ends(h, f) THEN Erased
        ELSE IF p \in Named(feedback) THEN [h[p] EXCEPT !.status = "RECEIVED_FEEDBACK"]
        ELSE h[p]]

Nacks(h, feedback) == At(feedback, {i \in DOMAIN feedback : ~Ends(h, feedback[i])})

\* Deviation for the checks: the process goes on ageing.
BufferedAged(h, p) == [h[p] EXCEPT !.status = "WAITING_FEEDBACK"]

\* m_dciElement->m_rv < 4 and the status asserted in ScheduleUlHarq.
Retransmitted(h, p) == [h[p] EXCEPT !.status = "WAITING_FEEDBACK", !.timer = 0, !.rv = @ + 1]
Buffered(h, p) == [h[p] EXCEPT !.status = "WAITING_FEEDBACK", !.timer = 0]

\* Of the NACKs, the first cut are looked at while there are symbols: those in
\* retx fit and are retransmitted, the others are buffered.  The rest is left
\* as it is, once the last retransmission took the last symbol.
Served(nacks, cut, retx) ==
    /\ cut \in 0 .. Len(nacks)
    /\ retx \subseteq 1 .. cut
    /\ cut < Len(nacks) => cut = 0 \/ cut \in retx

ScheduleUlHarq(h, nacks, cut, retx) ==
    [p \in HarqId |->
        IF \E i \in retx : nacks[i].p = p THEN Retransmitted(h, p)
        ELSE IF \E i \in 1 .. cut : nacks[i].p = p THEN Buffered(h, p)
        ELSE h[p]]

-----------------------------------------------------------------------------
(* Reports, requests and grants                                            *)

\* A report sets the scheduler's copy of the queue; the grant owed for a
\* request is no longer owed.
HasReport == ulCeReceived # "none"
\* Deviation for the checks: a report never lowers the copy.
LcgAfterReportGrown == lcg \/ ulCeReceived = "backlog"

LcgAfterReport == IF HasReport THEN ulCeReceived = "backlog" ELSE lcg
SrAfterReport == ~HasReport /\ srBytesPending

CanInsert(h) == \E p \in HarqId : ~Active(h, p)

\* Deviation for the checks: the first process, whether it is free or not.
FirstAvailableIdBusy(h) == 0

\* A free process, by the order of the map.
FirstAvailableId(h) == CHOOSE p \in HarqId : ~Active(h, p)

\* New data for a UE without retransmission in this slot.  The grant answers
\* the request, and lowers the copy of the queue by what it may carry.
ScheduleUlData(h, owed, known) ==
    LET p == FirstAvailableId(h) IN
    /\ owed \/ known
    /\ CanInsert(h)
    /\ ulHarq' = [h EXCEPT ![p] = [status |-> "WAITING_FEEDBACK", timer |-> 0, rv |-> 0]]
    /\ srBytesPending' = FALSE
    /\ lcg' \in {FALSE, known}
    /\ dcis' = Append(dcis, [p |-> p, ndi |-> 1, rv |-> 0])

\* One slot: requests, reports, feedback, retransmissions and a new grant.
\* room: symbols are left after the retransmissions.  A grant need not come
\* then: other UEs may take them all, or the block would be too small.
\* The three values that everything follows from are bound once.
SlotUlWith(cut, retx, room, grant) ==
    \E aged \in {ResetExpiredHARQ(ulHarq)} :
    \E feedback \in {MergeHARQ(aged)} :
    \E nacks \in {Nacks(aged, feedback)} :
    LET told == ProcessHARQFeedbacks(aged, feedback)
        again == ScheduleUlHarq(told, nacks, cut, retx)
        requested == srList \/ sr
        owed == SrAfterReport \/ (room /\ requested)
        retxDcis == At([i \in DOMAIN nacks |->
                            [p |-> nacks[i].p, ndi |-> 0, rv |-> again[nacks[i].p].rv]], retx)
    IN
    /\ Served(nacks, cut, retx)
    /\ room => cut = Len(nacks)
    /\ cut = Len(nacks) /\ cut > 0 /\ cut \notin retx => room
    /\ grant => room /\ retx = {}
    /\ IF grant
       THEN ScheduleUlData(again, owed, LcgAfterReport)
       ELSE /\ ulHarq' = again
            /\ srBytesPending' = owed
            /\ lcg' = LcgAfterReport
            /\ dcis' = dcis \o retxDcis
    /\ sr' = FALSE
    /\ srList' = (requested /\ ~room)
    /\ ulCeReceived' = "none"
    /\ ulHarqInfoReceived' = <<>>
    /\ ulHarqToRetransmit' = [i \in DOMAIN At(nacks, (1 .. cut) \ retx) |->
                                 At(nacks, (1 .. cut) \ retx)[i].p]
    /\ abort' = IF IsTwofold(feedback) THEN "UlHarqFeedback" ELSE abort
    /\ UNCHANGED <<enableHarqReTx, tbs, trouble>>
=============================================================================
