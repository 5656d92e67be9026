------------------------------- MODULE UeMac -------------------------------
(***************************************************************************)
(* The uplink of the UE MAC (nr-ue-mac.cc): buffer status reports from     *)
(* RLC, the scheduling request procedure, and the use of uplink grants.    *)
(*                                                                         *)
(* RLC is that of an acknowledged bearer, as a counter of the units it got *)
(* and of those it handed down; a unit it retransmits would be one more.   *)
(* m_ulBsrReceived, the copy of RLC's queue sizes that decides all here,   *)
(* counts bytes and headers by estimates: it may be used up before the     *)
(* data is, and be left when the data is gone.                             *)
(***************************************************************************)
EXTENDS UlAir

CONSTANT SrTransMax  \* scheduling requests sent before the UE gives up

ASSUME UeMacAssumption == SrTransMax \in Nat \ {0}

VARIABLES
    accepted,    \* units RLC got from above
    sent,        \* units RLC handed to the MAC
    ulBsr,       \* m_ulBsrReceived says that data is waiting
    srState,     \* m_srState
    srCounter,   \* m_srCounter
    prohibit,    \* sr-ProhibitTimer runs (m_lastSrSent)
    harqPacket,  \* m_miUlHarqProcessesPacket: what each process sent last
    ra           \* the UE turned to random access, the end of this model

ueVars == <<accepted, sent, ulBsr, srState, srCounter, prohibit, harqPacket, ra>>

\* Values of m_pktBurst beside data: the empty burst of the constructor, and
\* the null pointer of a process that had nothing but a report to send.
EmptyBurst == {0}
NullBurst == {}

UeTypeOK ==
    /\ accepted \in 0 .. MaxData
    /\ sent \in 0 .. accepted
    /\ ulBsr \in BOOLEAN
    /\ srState \in {"INACTIVE", "TO_SEND", "ACTIVE"}
    /\ srCounter \in 0 .. SrTransMax
    /\ prohibit \in BOOLEAN
    /\ harqPacket \in [HarqId -> (SUBSET Data) \cup {EmptyBurst}]
    /\ ra \in BOOLEAN

UeInit ==
    /\ accepted = 0
    /\ sent = 0
    /\ ulBsr = FALSE
    /\ srState = "INACTIVE"
    /\ srCounter = 0
    /\ prohibit = FALSE
    /\ harqPacket = [p \in HarqId |-> EmptyBurst]
    /\ ra = FALSE

Backlog == sent < accepted

-----------------------------------------------------------------------------
(* Reports of RLC                                                          *)

\* Deviation for the checks: a request that was sent is not sent again.
TransmitBufferStatusReportOnce ==
    /\ ulBsr' = TRUE
    /\ srState' = IF srState = "INACTIVE" THEN "TO_SEND" ELSE srState
    /\ srCounter' = IF srState = "INACTIVE" THEN 0 ELSE srCounter

\* A report makes the UE ask for a grant, also when it has asked before; the
\* count of requests starts over only when none was pending.
TransmitBufferStatusReport ==
    /\ ulBsr' = TRUE
    /\ srState' = "TO_SEND"
    /\ srCounter' = IF srState = "INACTIVE" THEN 0 ELSE srCounter

\* RLC reports each SDU it gets ...
Submit ==
    /\ accepted < MaxData
    /\ accepted' = accepted + 1
    /\ TransmitBufferStatusReport
    /\ UNCHANGED <<sent, prohibit, harqPacket, ra, airVars, abort>>

\* ... and repeats the report as long as it holds data; it also reports what it
\* sent and what is not acknowledged.
ExpireBsrTimer ==
    /\ \/ Backlog /\ UNCHANGED trouble
       \/ /\ ~Backlog
          /\ sent > 0
          /\ trouble < MaxTrouble
          /\ trouble' = trouble + 1
    /\ TransmitBufferStatusReport
    /\ UNCHANGED <<accepted, sent, prohibit, harqPacket, ra, sr, dcis, tbs, abort>>

-----------------------------------------------------------------------------
(* Scheduling requests                                                     *)

ExpireSrProhibitTimer ==
    /\ prohibit
    /\ prohibit' = FALSE
    /\ UNCHANGED <<accepted, sent, ulBsr, srState, srCounter, harqPacket, ra, airVars, abort>>

\* At a slot, a pending request is sent, or given up for random access.
SlotIndication ==
    /\ srState = "TO_SEND"
    /\ ~prohibit
    /\ \/ /\ srCounter < SrTransMax
          /\ sr' = TRUE
          /\ srCounter' = srCounter + 1
          /\ prohibit' = TRUE
          /\ srState' = "ACTIVE"
          /\ UNCHANGED ra
       \/ /\ srCounter = SrTransMax
          /\ ra' = TRUE
          /\ srCounter' = 0
          /\ prohibit' = FALSE
          /\ srState' = "INACTIVE"
          /\ UNCHANGED sr
    /\ UNCHANGED <<accepted, sent, ulBsr, harqPacket, dcis, tbs, trouble, abort>>

-----------------------------------------------------------------------------
(* Uplink grants                                                           *)

\* A grant takes k units, and rest is what is left of the reports.  When RLC
\* had data, the reports may be used up before or after the data is; when RLC
\* had none, they are used up.  A grant of 12 to 14 bytes has room for the
\* report alone.
SendNewData(k, rest) ==
    /\ \/ /\ ulBsr /\ Backlog
          /\ k \in 1 .. accepted - sent
          /\ UNCHANGED trouble
       \/ /\ ~(ulBsr /\ Backlog)
          /\ k = 0 /\ ~rest
          /\ UNCHANGED trouble
       \/ /\ ulBsr
          /\ k = 0 /\ rest
          /\ trouble < MaxTrouble
          /\ trouble' = trouble + 1
    /\ sent' = sent + k
    /\ ulBsr' = rest

\* Every block carries a new report, which stops sr-ProhibitTimer and lets the
\* count of requests start over.
SendBufferStatusReport(d, burst, waiting) ==
    /\ tbs' = Append(tbs, [p |-> d.p, ndi |-> d.ndi, rv |-> d.rv,
                           data |-> burst, bsr |-> waiting])
    /\ srCounter' = 0
    /\ prohibit' = FALSE

NewTransmission(d) ==
    /\ d.ndi = 1
    /\ \E k \in 0 .. MaxData, rest \in BOOLEAN :
        /\ SendNewData(k, rest)
        /\ harqPacket' = [harqPacket EXCEPT ![d.p] = sent + 1 .. sent + k]
        /\ SendBufferStatusReport(d, harqPacket'[d.p], rest)
        /\ srState' = IF rest THEN srState ELSE "INACTIVE"
    /\ UNCHANGED abort

\* Deviation for the checks: a retransmission takes data from RLC, too.
TransmitRetxAnew(d) ==
    /\ d.ndi = 0
    /\ \E k \in 0 .. MaxData, rest \in BOOLEAN :
        /\ SendNewData(k, rest)
        /\ harqPacket' = [harqPacket EXCEPT ![d.p] = sent + 1 .. sent + k]
        /\ SendBufferStatusReport(d, harqPacket'[d.p], rest)
    /\ UNCHANGED <<srState, abort>>

\* What the process sent is sent again, with a new report.
TransmitRetx(d) ==
    /\ d.ndi = 0
    /\ IF harqPacket[d.p] = EmptyBurst
       THEN /\ abort' = "TransmitRetx"
            /\ UNCHANGED <<tbs, srCounter, prohibit>>
       ELSE /\ SendBufferStatusReport(d, harqPacket[d.p], ulBsr)
            /\ UNCHANGED abort
    /\ UNCHANGED <<sent, ulBsr, srState, harqPacket, trouble>>

ProcessUlDci ==
    /\ dcis # <<>>
    /\ dcis' = Tail(dcis)
    /\ NewTransmission(Head(dcis)) \/ TransmitRetx(Head(dcis))
    /\ UNCHANGED <<accepted, ra, sr>>
=============================================================================
