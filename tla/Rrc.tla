-------------------------------- MODULE Rrc --------------------------------
(***************************************************************************)
(* RRC of UEs and gNBs, random access between their MACs, X2 between the   *)
(* gNBs and the core network (EpcService), composed.                       *)
(*                                                                         *)
(* RRC messages have no delay, so they are delivered before anything else  *)
(* happens; X2 messages, the core network and timers take any time, with   *)
(* one exception: the random access response and the connection request    *)
(* are faster than the connection request timeout, which the code demands  *)
(* of that attribute.                                                      *)
(***************************************************************************)
EXTENDS GnbRrc, UeRrc

LOCAL INSTANCE Functions

CONSTANTS
    Bounds,       \* bound: how often each kind of trouble happens
    MaxTrouble    \* bound: how often any happens, but for handovers

Handover ==
    {"handover",    \* a handover is decided,
     "return"}      \* to one that a third gNB has not asked to forget the UE yet
Trouble == Handover \cup
    {"fault",       \* a cell is unsuitable, random access or the radio link fails, a gNB refuses
     "recovery",    \* a connected UE gets no answer to its scheduling requests
     "reconfig",    \* the radio parameters of a UE change
     "overlap"}     \* a random preamble has the number of one kept for a handover

ASSUME RrcAssumption == Bounds \in [Trouble -> Nat] /\ MaxTrouble \in Nat

VARIABLE spent  \* how often each happened

vars == <<gnbVars, x2, epcVars, airVars, abort, ue, spent>>

\* The assertions that may fail when events come in an unlucky order, and those that no
\* order makes fail (of SetupCompleted, SnStatusTransfer, the bearers of
\* HandoverRequestAck, the timeouts, and Setup at the UE).
ReachedAborts ==
    {"connection request without context", "context release in another state",
     "context set-up in another state", "context set-up without context",
     "handover acknowledged without context", "handover cancel in another state",
     "handover command at the UE", "handover failure in another state",
     "handover requested in another state", "path switch acknowledged in another state",
     "reconfiguration at the UE", "reconfiguration completed in another state",
     "reconfiguration in another state"}
ExcludedAborts ==
    {"set-up completed in another state", "set-up at the UE", "status of an unknown bearer",
     "bearers not admitted", "timeout in another state"}

TypeOK ==
    /\ GnbTypeOK /\ EpcTypeOK /\ UeTypeOK
    /\ up \in [Ue -> Seq(UpMessage)]
    /\ down \in [Ue -> Seq(DownMessage)]
    /\ abort \in {"none"} \cup ReachedAborts \cup ExcludedAborts
    /\ spent \in [Trouble -> Nat]
    /\ \A k \in Trouble : spent[k] <= Bounds[k]

Init ==
    /\ GnbInit /\ EpcInit /\ UeInit
    /\ up = [u \in Ue |-> <<>>] /\ down = [u \in Ue |-> <<>>]
    /\ abort = "none"
    /\ spent = [k \in Trouble |-> 0]

Spend(kind) ==
    /\ spent[kind] < Bounds[kind]
    /\ kind \notin Handover => SumFunctionOnSet(spent, Trouble \ Handover) < MaxTrouble
    /\ spent' = [spent EXCEPT ![kind] = @ + 1]

gnbSide == <<gnbVars, x2, epcVars>>

-----------------------------------------------------------------------------
(* RRC messages                                                            *)

\* A gNB receives an RRC message of UE u; only a connection request can be rejected.
DeliverUp(u) ==
    /\ up[u] # <<>>
    /\ up' = [up EXCEPT ![u] = Tail(@)]
    /\ LET m == Head(up[u]) IN
       \/ /\ m.type = "ConnectionRequest"
          /\ \/ RecvRrcConnectionRequest(m.gnb, m.rnti, u, TRUE) /\ UNCHANGED spent
             \/ RecvRrcConnectionRequest(m.gnb, m.rnti, u, FALSE) /\ Spend("fault")
       \/ /\ m.type = "SetupCompleted"
          /\ RecvRrcConnectionSetupCompleted(m.gnb, m.rnti)
          /\ UNCHANGED spent
       \/ /\ m.type = "ReconfigurationCompleted"
          /\ RecvRrcConnectionReconfigurationCompleted(m.gnb, m.rnti)
          /\ UNCHANGED spent
       \/ /\ m.type = "IdealUeContextRemove"
          /\ RecvIdealUeContextRemoveRequest(m.gnb, m.rnti)
          /\ UNCHANGED spent
    /\ UNCHANGED ue

\* A UE receives an RRC message; it may find that a handover command comes too late.
DeliverDown(u) ==
    /\ down[u] # <<>>
    /\ down' = [down EXCEPT ![u] = Tail(@)]
    /\ \/ RecvDown(u, Head(down[u])) /\ UNCHANGED spent
       \/ RefuseHandoverCommand(u, Head(down[u])) /\ Spend("fault")
    /\ UNCHANGED gnbSide

-----------------------------------------------------------------------------
(* Random access                                                           *)

\* Deviation for the checks: a preamble kept for a handover is not recognised.
AnswerRaPreambleAfresh(g, u, r) ==
    /\ AllocateTemporaryCellRnti(g)
    /\ r = NewRnti(g)
    /\ UNCHANGED spent

\* gNB g answers a preamble of UE u with RNTI r: the one for which the preamble is kept
\* (m_allocatedNcRaPreambleMap), or that of a new context.  The preambles kept have
\* numbers from 52 on, and the UEs count their random preambles on past that.
AnswerRaPreamble(g, u, r) ==
    LET kept == ue[u].st = "CONNECTED_HANDOVER" /\ HasUeManager(g, ue[u].rnti) IN
    \/ /\ kept /\ r = ue[u].rnti
       /\ UNCHANGED <<gnbSide, down, abort, spent>>
    \/ /\ ~kept /\ HasUeManager(g, r) /\ ctx[g][r].source # None
       /\ Spend("overlap")
       /\ UNCHANGED <<gnbSide, down, abort>>
    \/ /\ ~kept /\ r = NewRnti(g)
       /\ AllocateTemporaryCellRnti(g)
       /\ UNCHANGED spent

\* A UE sends a preamble and its gNB (ProcessRaPreambles) answers.
RaPreamble(u) ==
    /\ InRandomAccess(u) /\ ue[u].rar = 0
    /\ \E r \in Rnti : AnswerRaPreamble(ue[u].cell, u, r) /\ ue' = [ue EXCEPT ![u].rar = r]
    /\ UNCHANGED up

\* So does a connected UE, when no scheduling request is answered (SrTransMax).
RecoverUplink(u) ==
    /\ ue[u].st = "CONNECTED_NORMALLY" /\ ue[u].rar = 0
    /\ Spend("recovery")
    /\ AllocateTemporaryCellRnti(ue[u].cell)
    /\ ue' = [ue EXCEPT ![u].rar = NewRnti(ue[u].cell)]
    /\ UNCHANGED up

-----------------------------------------------------------------------------
(* The rest of what happens                                                *)

\* What a UE goes through, and what goes wrong for it.
UeStep(u) ==
    /\ \/ StartCellSelection(u)
       \/ \E g \in Gnb : ue[u].st = "IDLE_START" /\ ForceCampedOnGnb(u, g)
       \/ ReportUeMeasurements(u)
       \/ RecvMasterInformationBlock(u)
       \/ \E g \in Gnb : RecvSystemInformationBlockType1(u, g, TRUE)
       \/ RecvSystemInformation(u)
       \/ NotifyRandomAccessSuccessful(u)
       \/ ConnectionTimeout(u)
    /\ UNCHANGED <<gnbSide, down, spent>>
UeFault(u) ==
    /\ \/ \E g \in Gnb : RecvSystemInformationBlockType1(u, g, FALSE)
       \/ RadioLinkFailureDetected(u)
       \/ NotifyRandomAccessFailed(u)
       \/ RaResponseTimeout(u)
    /\ Spend("fault")
    /\ UNCHANGED <<gnbSide, down>>

X2Step ==
    /\ \E g, h \in Gnb : \E answer \in {"admit", "reject", "noPreamble"} :
          /\ RecvX2(g, h, answer)
          /\ IF answer = "admit" THEN UNCHANGED spent
             ELSE Head(x2[h][g]).type = "HandoverRequest" /\ Spend("fault")
    /\ UNCHANGED <<up, ue>>

\* The core network works, and answers the gNB in whose cell it believes the UE.
EpcStep ==
    \/ Serve /\ UNCHANGED <<gnbVars, x2, airVars, abort, ue, spent>>
    \/ \E g \in Gnb : LET req == Head(requests) IN
       /\ Answer(req, g)
       /\ \/ req.type = "Create" /\ InitialContextSetupRequest(g, req.ue, req.session)
          \/ req.type = "Modify" /\ PathSwitchRequestAcknowledge(g, req.ue)
       /\ UNCHANGED <<up, ue, spent>>

GnbTimeout(g, r) ==
    /\ \E t \in Timer :
          /\ t = "connectionRequest" => \A u \in Ue : ~(ue[u].cell = g /\ ue[u].rar = r)
          /\ Timeout(g, r, t)
    /\ UNCHANGED <<up, ue, spent>>

\* Gnb h is not the one that context c came from, and still has TEIDs of its session.
Revisits(c, h) == c.source # h /\ \E q \in Rnti : rntiSession[h][q] = c.session

\* The measurements of a connected UE suggest another cell (ExecuteHandover).
DecideHandover(g, r, h) ==
    /\ ctx[g][r].st = "CONNECTED_NORMALLY"
    /\ \E u \in Ue : u = ctx[g][r].imsi /\ ue[u].st = "CONNECTED_NORMALLY" /\ ue[u].cell = g
    /\ PrepareHandover(g, r, h)
    /\ Spend(IF Revisits(ctx[g][r], h) THEN "return" ELSE "handover")
    /\ UNCHANGED <<up, ue>>

Reconfigure(g, r) ==
    /\ ScheduleRrcConnectionReconfiguration(g, r)
    /\ Spend("reconfig")
    /\ UNCHANGED <<up, ue>>

\* Events of a simulation without trouble, by the order they happen in.
Progress ==
    /\ abort = "none"
    /\ \/ \E u \in Ue : DeliverUp(u) \/ DeliverDown(u)
       \/ /\ InstantOver
          /\ \/ \E u \in Ue : RaPreamble(u) \/ UeStep(u)
             \/ X2Step
             \/ EpcStep
             \/ \E g \in Gnb, r \in Rnti : GnbTimeout(g, r)

Disturbance ==
    /\ abort = "none" /\ InstantOver
    /\ \/ \E u \in Ue : RecoverUplink(u) \/ UeFault(u)
       \/ \E g \in Gnb, r \in Rnti :
             Reconfigure(g, r) \/ \E h \in Gnb : DecideHandover(g, r, h)

Next == Progress \/ Disturbance

Spec == Init /\ [][Next]_vars

\* The simulator executes every event that is scheduled.
FairSpec == Spec /\ WF_vars(Progress)
-----------------------------------------------------------------------------
(* Properties                                                              *)

Quiet == InstantOver /\ requests = <<>> /\ \A g, h \in Gnb : x2[g][h] = <<>>

\* Contexts through which a gNB serves a UE.
Serving(g) == {r \in Rnti : ctx[g][r].st \in {"ATTACH_REQUEST", "CONNECTED_NORMALLY",
    "CONNECTION_RECONFIGURATION", "HANDOVER_PREPARATION", "HANDOVER_PATH_SWITCH"}}
IsServedBy(u, g, r) == ue[u].st \in Connected /\ ue[u].cell = g /\ ue[u].rnti = r

\* No order of events makes one of these assertions of the handlers fail.
ExcludedAbort == abort \notin ExcludedAborts

\* The contexts at the two ends of a handover belong to the same UE, however late the X2
\* messages that carry their numbers (oldGnbUeX2apId, newGnbUeX2apId) are, unless a UE was
\* given the RNTI of another one (AnswerRaPreamble).
HandoverJoinsOneUe ==
    spent["overlap"] = 0 =>
       \A g \in Gnb, r \in Rnti :
          LET c == ctx[g][r] IN
          c.st \in {"HANDOVER_JOINING", "HANDOVER_PATH_SWITCH"} /\ HasUeManager(c.source, c.sourceId)
          => ctx[c.source][c.sourceId].imsi = c.imsi

\* As long as no connected UE takes another RNTI (RecoverUplink) and no UE is given the RNTI
\* of another one (AnswerRaPreamble), a gNB serves a UE through one context only, and it is
\* the one the UE uses.
OneContextServes ==
    spent["recovery"] = 0 /\ spent["overlap"] = 0 /\ InstantOver =>
       \A g \in Gnb : \A r \in Serving(g) : IsServedBy(ctx[g][r].imsi, g, r)

\* When nothing is under way, downlink packets of a connected UE go from the core network to
\* its gNB, and there to the context it uses.  They may not if the UE was handed back to a
\* gNB by a third one while its first context there was not released: the release then
\* erases TEIDs that lead to the new context (DoUeContextRelease).
DownlinkReachesUe ==
    spent["recovery"] = 0 /\ spent["return"] = 0 /\ Quiet /\ abort = "none" =>
       \A g \in Gnb : \A r \in Serving(g) :
          LET u == ctx[g][r].imsi IN
          /\ endpoint[downlink[u]] = g
          /\ sessionRnti[g][downlink[u]] = r /\ rntiSession[g][r] = downlink[u]

\* Whatever happens, every UE is connected in the end, or an assertion failed.  It has a
\* context then, unless a handover failed or it took another RNTI (ConnectedUeHasContext).
UesConnect ==
    <>[](\/ abort # "none"
         \/ \A u \in Ue :
               /\ ue[u].st = "CONNECTED_NORMALLY"
               /\ \/ HasUeManager(ue[u].cell, ue[u].rnti)
                  \/ spent["recovery"] + spent["handover"] > 0)

\* In the end a gNB only has the contexts of the UEs it serves, and those left over after a
\* handover that failed (RecvHandoverPreparationFailure).
ContextsEnd ==
    <>[](\/ abort # "none" \/ spent["recovery"] + spent["overlap"] > 0
         \/ \A g \in Gnb, r \in Rnti :
               \/ ctx[g][r].st \in {"NONE", "HANDOVER_LEAVING"}
               \/ ctx[g][r].st = "CONNECTED_NORMALLY" /\ IsServedBy(ctx[g][r].imsi, g, r))

\* A random access of a connected UE "only restores the uplink grant path, so the connection
\* carries on with nothing to signal" (nr-ue-rrc.cc:949): the UE keeps a context at its gNB
\* when the simulation goes on and nothing is under way.
ConnectedUeHasContext ==
    Quiet /\ abort = "none" =>
       \A u \in Ue : ue[u].st = "CONNECTED_NORMALLY" => HasUeManager(ue[u].cell, ue[u].rnti)
=============================================================================
