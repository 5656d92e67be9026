------------------------------- MODULE UeRrc -------------------------------
(***************************************************************************)
(* RRC of the UEs (NrUeRrc, nr-ue-rrc.cc) with the NAS above it            *)
(* (nr-epc-ue-nas.cc) and the outcome of random access in the MAC          *)
(* (nr-ue-mac.cc).  The NAS acts at once: it asks for a connection when    *)
(* one failed, and takes the UE back to cell search when one was released. *)
(*                                                                         *)
(* What the UE wants is always a connection (the helpers call Connect with *)
(* the attachment), so it never stays in IDLE_CAMPED_NORMALLY; it holds    *)
(* SIB2 from the start of random access until it loses the cell or the     *)
(* connection fails; m_leaveConnectedMode holds outside the connected      *)
(* states.  None of the three needs a variable.                            *)
(***************************************************************************)
EXTENDS NrRan

CONSTANTS
    RachAttemptsLimit,  \* m_rachAttemptsLimit: failed random accesses before a new cell search
    ConnEstFailCount    \* m_connEstFailCountLimit: expiries of T300 before a new cell search

ASSUME UeAssumption == RachAttemptsLimit \in Nat \ {0} /\ ConnEstFailCount \in 1 .. 4

VARIABLE ue  \* per UE; rar: RNTI in the random access response under way, 0: none

UeState ==
    {"IDLE_START", "IDLE_CELL_SEARCH", "IDLE_WAIT_MIB_SIB1", "IDLE_WAIT_MIB", "IDLE_WAIT_SIB1",
     "IDLE_WAIT_SIB2", "IDLE_RANDOM_ACCESS", "IDLE_CONNECTING", "CONNECTED_NORMALLY",
     "CONNECTED_HANDOVER"}
Connected == {"CONNECTED_NORMALLY", "CONNECTED_HANDOVER"}

UeTypeOK ==
    ue \in [Ue -> [st : UeState, cell : Gnb \cup {None}, rnti : 0 .. MaxRnti, rar : 0 .. MaxRnti,
                   rachAttempts : 0 .. RachAttemptsLimit - 1,
                   connEstFails : 0 .. ConnEstFailCount - 1]]

UeInit ==
    ue = [u \in Ue |-> [st |-> "IDLE_START", cell |-> None, rnti |-> 0, rar |-> 0,
                        rachAttempts |-> 0, connEstFails |-> 0]]

UeAbort(site) == abort' = site /\ UNCHANGED <<ue, up>>
Become(u, c) == ue' = [ue EXCEPT ![u] = c] /\ UNCHANGED abort
SendUp(u, type, g, r) == up' = To(up, u, [type |-> type, gnb |-> g, rnti |-> r])

-----------------------------------------------------------------------------
(* Cell selection                                                          *)

StartCellSelection(u) ==
    /\ ue[u].st = "IDLE_START"
    /\ Become(u, [ue[u] EXCEPT !.st = "IDLE_CELL_SEARCH"])
    /\ UNCHANGED up

\* Manual attachment; it overrides a cell selection under way.
ForceCampedOnGnb(u, g) ==
    /\ ue[u].st \in {"IDLE_START", "IDLE_CELL_SEARCH", "IDLE_WAIT_MIB_SIB1", "IDLE_WAIT_SIB1"}
    /\ Become(u, [ue[u] EXCEPT !.st = "IDLE_WAIT_MIB", !.cell = g])
    /\ UNCHANGED up

\* A cell that was measured and not found unsuitable before is tried, if there is one.
SynchronizeToStrongestCell(c, found) ==
    [c EXCEPT !.st = IF found THEN "IDLE_WAIT_MIB_SIB1" ELSE "IDLE_CELL_SEARCH"]

ReportUeMeasurements(u) ==
    /\ ue[u].st = "IDLE_CELL_SEARCH"
    /\ Become(u, SynchronizeToStrongestCell(ue[u], TRUE))
    /\ UNCHANGED up

\* Deviation for the checks: the MIB is expected after a manual attachment only.
RecvMasterInformationBlockManual(u) ==
    /\ ue[u].st = "IDLE_WAIT_MIB"
    /\ Become(u, [ue[u] EXCEPT !.st = "IDLE_WAIT_SIB2"])
    /\ UNCHANGED up

RecvMasterInformationBlock(u) ==
    /\ \/ /\ ue[u].st = "IDLE_WAIT_MIB"
          /\ Become(u, [ue[u] EXCEPT !.st = "IDLE_WAIT_SIB2"])
       \/ /\ ue[u].st = "IDLE_WAIT_MIB_SIB1"
          /\ Become(u, [ue[u] EXCEPT !.st = "IDLE_WAIT_SIB1"])
    /\ UNCHANGED up

\* SIB1 of cell g: the cell is selected, or another one is sought (EvaluateCellForSelection).
RecvSystemInformationBlockType1(u, g, isSuitableCell) ==
    /\ ue[u].st = "IDLE_WAIT_SIB1"
    /\ \/ /\ isSuitableCell
          /\ Become(u, [ue[u] EXCEPT !.st = "IDLE_WAIT_SIB2", !.cell = g])
       \/ /\ ~isSuitableCell
          /\ \E found \in BOOLEAN : Become(u, SynchronizeToStrongestCell(ue[u], found))
    /\ UNCHANGED up

\* SIB2: random access starts (StartConnection).
RecvSystemInformation(u) ==
    /\ ue[u].st = "IDLE_WAIT_SIB2"
    /\ Become(u, [ue[u] EXCEPT !.st = "IDLE_RANDOM_ACCESS"])
    /\ UNCHANGED up

-----------------------------------------------------------------------------
(* Leaving a connection                                                    *)

\* LeaveConnectedMode: cell, RNTI and MAC are forgotten, cells are sought.
Left(c) == [c EXCEPT !.st = "IDLE_CELL_SEARCH", !.cell = None, !.rnti = 0, !.rar = 0]

\* The gNB the UE is at is told to forget it, then the NAS disconnects.
LeaveAndTell(u) ==
    /\ Become(u, Left(ue[u]))
    /\ SendUp(u, "IdealUeContextRemove", ue[u].cell, ue[u].rnti)

\* Deviation for the checks: the gNB is not told.
RadioLinkFailureUntold(u) ==
    ue[u].st \in Connected /\ Become(u, Left(ue[u])) /\ UNCHANGED up

\* T310 expires, or RLC gives up.
RadioLinkFailureDetected(u) == ue[u].st \in Connected /\ LeaveAndTell(u)

-----------------------------------------------------------------------------
(* Random access                                                           *)

\* The procedures RRC starts; the MAC starts one by itself when no scheduling
\* request was answered (SrTransMax).
InRandomAccess(u) == ue[u].st \in {"IDLE_RANDOM_ACCESS", "CONNECTED_HANDOVER"}

\* The response names the RNTI, which the UE takes in every state.
NotifyRandomAccessSuccessful(u) ==
    LET c == [ue[u] EXCEPT !.rnti = ue[u].rar, !.rar = 0, !.rachAttempts = 0] IN
    /\ ue[u].rar # 0
    /\ \/ /\ c.st = "IDLE_RANDOM_ACCESS"
          /\ Become(u, [c EXCEPT !.st = "IDLE_CONNECTING"])
          /\ SendUp(u, "ConnectionRequest", c.cell, c.rnti)
       \/ /\ c.st = "CONNECTED_HANDOVER"
          /\ Become(u, [c EXCEPT !.st = "CONNECTED_NORMALLY"])
          /\ SendUp(u, "ReconfigurationCompleted", c.cell, c.rnti)
       \/ /\ c.st = "CONNECTED_NORMALLY"
          /\ Become(u, c) /\ UNCHANGED up

\* No response to any preamble.  A UE that may try again does so at once.
NotifyRandomAccessFailed(u) ==
    LET c == ue[u] IN
    /\ c.rar = 0
    /\ \/ /\ c.st = "IDLE_RANDOM_ACCESS" /\ c.rachAttempts + 1 < RachAttemptsLimit
          /\ Become(u, [c EXCEPT !.rachAttempts = @ + 1])
          /\ UNCHANGED up
       \/ /\ c.st = "IDLE_RANDOM_ACCESS" /\ c.rachAttempts + 1 >= RachAttemptsLimit
          /\ \E found \in BOOLEAN :
                Become(u, SynchronizeToStrongestCell([c EXCEPT !.rachAttempts = 0], found))
          /\ UNCHANGED up
       \/ c.st = "CONNECTED_HANDOVER" /\ LeaveAndTell(u)

\* The response came too late or was lost: the preamble is sent again.
RaResponseTimeout(u) ==
    /\ ue[u].rar # 0
    /\ Become(u, [ue[u] EXCEPT !.rar = 0])
    /\ UNCHANGED up

-----------------------------------------------------------------------------
(* Connection                                                              *)

\* Deviation for the checks: one failed attempt too many.
ConnectionTimeoutOnceMore(u) ==
    LET fails == ue[u].connEstFails + 1 IN
    /\ ue[u].st = "IDLE_CONNECTING"
    /\ IF fails > ConnEstFailCount
       THEN Become(u, [Left(ue[u]) EXCEPT !.connEstFails = 0])
       ELSE Become(u, [ue[u] EXCEPT !.st = "IDLE_WAIT_SIB2", !.connEstFails = fails])
    /\ UNCHANGED up

\* T300 expires (ConnectionTimeout); it runs in IDLE_CONNECTING.
ConnectionTimeout(u) ==
    LET fails == ue[u].connEstFails + 1 IN
    /\ ue[u].st = "IDLE_CONNECTING"
    /\ IF fails >= ConnEstFailCount
       THEN Become(u, [Left(ue[u]) EXCEPT !.connEstFails = 0])
       ELSE Become(u, [ue[u] EXCEPT !.st = "IDLE_WAIT_SIB2", !.connEstFails = fails])
    /\ UNCHANGED up

RecvRrcConnectionSetup(u) ==
    LET c == ue[u] IN
    \/ /\ c.st = "IDLE_CONNECTING"
       /\ Become(u, [c EXCEPT !.st = "CONNECTED_NORMALLY", !.connEstFails = 0])
       /\ SendUp(u, "SetupCompleted", c.cell, c.rnti)
    \/ c.st = "CONNECTED_NORMALLY" /\ UNCHANGED <<ue, up, abort>>
    \/ c.st \notin {"IDLE_CONNECTING", "CONNECTED_NORMALLY"} /\ UeAbort("set-up at the UE")

\* The MAC is reset, SIB2 is read again.
RecvRrcConnectionReject(u) ==
    /\ Become(u, [ue[u] EXCEPT !.st = "IDLE_WAIT_SIB2"])
    /\ UNCHANGED up

RecvRrcConnectionReconfiguration(u) ==
    LET c == ue[u] IN
    \/ /\ c.st = "CONNECTED_NORMALLY"
       /\ SendUp(u, "ReconfigurationCompleted", c.cell, c.rnti)
       /\ UNCHANGED <<ue, abort>>
    \/ c.st # "CONNECTED_NORMALLY" /\ UeAbort("reconfiguration at the UE")

\* With mobility control information: the UE turns to the target at once.
RecvHandoverCommand(u, g, r) ==
    LET c == ue[u] IN
    \/ /\ c.st = "CONNECTED_NORMALLY"
       /\ Become(u, [c EXCEPT !.st = "CONNECTED_HANDOVER", !.cell = g, !.rnti = r, !.rar = 0])
       /\ UNCHANGED up
    \/ c.st # "CONNECTED_NORMALLY" /\ UeAbort("handover command at the UE")

\* The command came when T310 had run for so long that the radio link counts as failed
\* (Tr36839HandoverFailure): the UE is still at the source and has that context removed.
RefuseHandoverCommand(u, m) ==
    /\ m.type = "HandoverCommand" /\ ue[u].st = "CONNECTED_NORMALLY"
    /\ RadioLinkFailureDetected(u)

\* A UE that is leaving, or left, ignores it.
RecvRrcConnectionRelease(u) ==
    \/ ue[u].st \in Connected /\ LeaveAndTell(u)
    \/ ue[u].st \notin Connected /\ UNCHANGED <<ue, up, abort>>

RecvDown(u, m) ==
    \/ m.type = "ConnectionSetup" /\ RecvRrcConnectionSetup(u)
    \/ m.type = "ConnectionReject" /\ RecvRrcConnectionReject(u)
    \/ m.type = "Reconfiguration" /\ RecvRrcConnectionReconfiguration(u)
    \/ m.type = "HandoverCommand" /\ RecvHandoverCommand(u, m.gnb, m.rnti)
    \/ m.type = "ConnectionRelease" /\ RecvRrcConnectionRelease(u)
=============================================================================
