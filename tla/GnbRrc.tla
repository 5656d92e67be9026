------------------------------- MODULE GnbRrc -------------------------------
(***************************************************************************)
(* RRC of the gNBs (NrGnbRrc and NrUeManager, nr-gnb-rrc.cc) with the      *)
(* application that ties it to the core network                            *)
(* (nr-epc-gnb-application.cc).  One operator per handler; g is the gNB,   *)
(* r the RNTI.  A message that comes over X2 is taken from its channel by  *)
(* the handler itself.                                                     *)
(***************************************************************************)
EXTENDS NrRan, EpcService

VARIABLES
    ctx,          \* m_ueMap: the context (NrUeManager) of each RNTI
    lastRnti,     \* m_lastAllocatedRnti
    x2,           \* X2 messages from one gNB to another
    imsiRnti,     \* m_imsiRntiMap of the application; 0: no entry
    rntiSession,  \* m_rqfiTeidMap: session of an RNTI; 0: no entry
    sessionRnti   \* m_teidRqfiMap: RNTI that downlink packets of a session go to

appVars == <<imsiRnti, rntiSession, sessionRnti>>
gnbVars == <<ctx, lastRnti, appVars>>

State ==
    {"INITIAL_RANDOM_ACCESS", "CONNECTION_SETUP", "CONNECTION_REJECTED", "ATTACH_REQUEST",
     "CONNECTED_NORMALLY", "CONNECTION_RECONFIGURATION", "HANDOVER_PREPARATION",
     "HANDOVER_JOINING", "HANDOVER_PATH_SWITCH", "HANDOVER_LEAVING"}

\* The state in which each timeout is armed and in which it may expire.
TimerState ==
    [connectionRequest |-> "INITIAL_RANDOM_ACCESS", connectionSetup |-> "CONNECTION_SETUP",
     connectionRejected |-> "CONNECTION_REJECTED", handoverJoining |-> "HANDOVER_JOINING",
     handoverLeaving |-> "HANDOVER_LEAVING"]
Timer == DOMAIN TimerState

\* Context of an RNTI that is not in use, and of one just allocated.
NewContext(st, timers) ==
    [st |-> st, imsi |-> None, timers |-> timers, pending |-> FALSE, pendingHo |-> None,
     source |-> None, sourceId |-> 0, target |-> None, targetId |-> 0, session |-> 0]
NoContext == NewContext("NONE", {})

Context ==
    [st : State \cup {"NONE"}, imsi : Ue \cup {None}, timers : SUBSET Timer,
     pending : BOOLEAN,               \* m_pendingRrcConnectionReconfiguration
     pendingHo : Gnb \cup {None},     \* m_pendingHandoverTargetCellId
     source : Gnb \cup {None}, sourceId : 0 .. MaxRnti,
     target : Gnb \cup {None}, targetId : 0 .. MaxRnti,
     session : 0 .. MaxSession]       \* TEIDs of the bearers in m_drbMap; 0: no bearer

X2Message ==
    [type : {"HandoverRequest", "HandoverRequestAck", "HandoverPreparationFailure",
             "SnStatusTransfer", "UeContextRelease", "HandoverCancel"},
     old : 0 .. MaxRnti, new : 0 .. MaxRnti, imsi : Ue \cup {None}, session : 0 .. MaxSession]

GnbTypeOK ==
    /\ ctx \in [Gnb -> [Rnti -> Context]]
    /\ lastRnti \in [Gnb -> 0 .. MaxRnti]
    /\ x2 \in [Gnb -> [Gnb -> Seq(X2Message)]]
    /\ imsiRnti \in [Gnb -> [Ue -> 0 .. MaxRnti]]
    /\ rntiSession \in [Gnb -> [Rnti -> 0 .. MaxSession]]
    /\ sessionRnti \in [Gnb -> [Session -> 0 .. MaxRnti]]

GnbInit ==
    /\ ctx = [g \in Gnb |-> [r \in Rnti |-> NoContext]]
    /\ lastRnti = [g \in Gnb |-> 0]
    /\ x2 = [g \in Gnb |-> [h \in Gnb |-> <<>>]]
    /\ imsiRnti = [g \in Gnb |-> [u \in Ue |-> 0]]
    /\ rntiSession = [g \in Gnb |-> [r \in Rnti |-> 0]]
    /\ sessionRnti = [g \in Gnb |-> [s \in Session |-> 0]]

HasUeManager(g, r) == r \in Rnti /\ ctx[g][r].st # "NONE"

-----------------------------------------------------------------------------
(* What handlers do                                                        *)

\* An assertion fails: the simulation ends.
AbortInAnswer(site) == abort' = site /\ UNCHANGED <<gnbVars, x2, down>>
Abort(site) == AbortInAnswer(site) /\ UNCHANGED epcVars
Running == UNCHANGED abort

SetContext(g, r, c) ==
    /\ ctx' = [ctx EXCEPT ![g][r] = c]
    /\ UNCHANGED <<lastRnti, appVars>>

Message(type, old, new, imsi, session) ==
    [type |-> type, old |-> old, new |-> new, imsi |-> imsi, session |-> session]

\* x2 after g sends m to h, and after g takes the first message from h.
Sent(g, h, m) == [x2 EXCEPT ![g][h] = Append(@, m)]
Taken(h, g) == [x2 EXCEPT ![h][g] = Tail(@)]
Answered(h, g, m) == [x2 EXCEPT ![h][g] = Tail(@), ![g][h] = Append(@, m)]

SendDown(u, type, g, r) == down' = To(down, u, [type |-> type, gnb |-> g, rnti |-> r])

\* SwitchToState(CONNECTED_NORMALLY): a reconfiguration that waited is sent at once.
Normal(c) ==
    [c EXCEPT !.st = IF c.pending THEN "CONNECTION_RECONFIGURATION" ELSE "CONNECTED_NORMALLY",
              !.pending = FALSE]
SwitchToNormal(g, r, c) ==
    /\ SetContext(g, r, Normal(c))
    /\ IF c.pending THEN SendDown(c.imsi, "Reconfiguration", g, r) ELSE UNCHANGED down

\* Deviation for the checks: the lowest RNTI that is free.
NewRntiLowest(g) ==
    CHOOSE r \in 1 .. MaxRnti + 1 : ~HasUeManager(g, r) /\ \A q \in 1 .. r - 1 : HasUeManager(g, q)

\* The RNTI of the next context, if there is room for one.
NewRnti(g) == lastRnti[g] + 1
AddUe(g, c) ==
    /\ lastRnti[g] < MaxRnti
    /\ ctx' = [ctx EXCEPT ![g][NewRnti(g)] = c]
    /\ lastRnti' = [lastRnti EXCEPT ![g] = NewRnti(g)]
    /\ UNCHANGED appVars

\* Deviation for the checks: the loop goes on erasing after the TEIDs of the RNTI.
UeContextReleaseOnwards(g, r) ==
    /\ sessionRnti' = [sessionRnti EXCEPT ![g] =
                          [s \in Session |-> IF s >= rntiSession[g][r] THEN 0 ELSE @[s]]]
    /\ rntiSession' = [rntiSession EXCEPT ![g][r] = 0]
    /\ UNCHANGED imsiRnti

\* The application forgets the TEIDs of the RNTI (DoUeContextRelease).
UeContextRelease(g, r) ==
    /\ sessionRnti' = [sessionRnti EXCEPT ![g] =
                          [s \in Session |-> IF s = rntiSession[g][r] THEN 0 ELSE @[s]]]
    /\ rntiSession' = [rntiSession EXCEPT ![g][r] = 0]
    /\ UNCHANGED imsiRnti

\* All timeouts of the context are cancelled and it is deleted.
RemoveUe(g, r) ==
    /\ ctx' = [ctx EXCEPT ![g][r] = NoContext]
    /\ UeContextRelease(g, r)
    /\ UNCHANGED lastRnti

-----------------------------------------------------------------------------
(* Random access and connection                                            *)

\* A contention preamble: a context is made for a UE not known yet.
AllocateTemporaryCellRnti(g) ==
    /\ AddUe(g, NewContext("INITIAL_RANDOM_ACCESS", {"connectionRequest"}))
    /\ UNCHANGED <<x2, down, epcVars, abort>>

\* A UE that lost its connection asks again in a context that served one: the
\* context is reset, and nothing is sent.  HANDOVER_JOINING, CONNECTION_SETUP and
\* the other states ignore the request.
RecvRrcConnectionRequest(g, r, u, admit) ==
    LET c == ctx[g][r] IN
    \/ ~HasUeManager(g, r) /\ Abort("connection request without context")
    \/ /\ HasUeManager(g, r) /\ Running
       /\ \/ /\ c.st = "INITIAL_RANDOM_ACCESS" /\ admit
             /\ SetContext(g, r, [c EXCEPT !.st = "CONNECTION_SETUP", !.imsi = u,
                    !.timers = (@ \ {"connectionRequest"}) \cup {"connectionSetup"}])
             /\ SendDown(u, "ConnectionSetup", g, r)
          \/ /\ c.st = "INITIAL_RANDOM_ACCESS" /\ ~admit
             /\ SetContext(g, r, [c EXCEPT !.st = "CONNECTION_REJECTED",
                    !.timers = (@ \ {"connectionRequest"}) \cup {"connectionRejected"}])
             /\ SendDown(u, "ConnectionReject", g, r)
          \/ /\ c.st \in {"CONNECTED_NORMALLY", "HANDOVER_LEAVING"}
             /\ SetContext(g, r, [c EXCEPT !.st = "INITIAL_RANDOM_ACCESS",
                                           !.timers = @ \ {"handoverLeaving"}])
             /\ UNCHANGED down
          \/ /\ c.st \notin {"INITIAL_RANDOM_ACCESS", "CONNECTED_NORMALLY", "HANDOVER_LEAVING"}
             /\ UNCHANGED <<gnbVars, down>>
       /\ UNCHANGED <<x2, epcVars>>

\* Deviation for the checks: the set-up timeout is left running.
RecvRrcConnectionSetupCompletedLate(g, r) ==
    LET c == ctx[g][r] IN
    \/ /\ ~(HasUeManager(g, r) /\ c.st = "CONNECTION_SETUP")
       /\ Abort("set-up completed in another state")
    \/ /\ HasUeManager(g, r) /\ c.st = "CONNECTION_SETUP" /\ Running
       /\ ctx' = [ctx EXCEPT ![g][r].st = "ATTACH_REQUEST"]
       /\ imsiRnti' = [imsiRnti EXCEPT ![g][c.imsi] = r]
       /\ AskSession(c.imsi, g)
       /\ UNCHANGED <<lastRnti, rntiSession, sessionRnti, x2, down>>

\* The core network is asked for a session.  A handover that was put off stays
\* put off: it is dispatched only where there is no core network.
RecvRrcConnectionSetupCompleted(g, r) ==
    LET c == ctx[g][r] IN
    \/ /\ ~(HasUeManager(g, r) /\ c.st = "CONNECTION_SETUP")
       /\ Abort("set-up completed in another state")
    \/ /\ HasUeManager(g, r) /\ c.st = "CONNECTION_SETUP" /\ Running
       /\ ctx' = [ctx EXCEPT ![g][r].st = "ATTACH_REQUEST",
                             ![g][r].timers = @ \ {"connectionSetup"}]
       /\ imsiRnti' = [imsiRnti EXCEPT ![g][c.imsi] = r]
       /\ AskSession(c.imsi, g)
       /\ UNCHANGED <<lastRnti, rntiSession, sessionRnti, x2, down>>

\* The core network answers: bearers are set up in the context that the
\* application last saw the UE in, and the UE is told.
InitialContextSetupRequest(g, u, s) ==
    LET r == imsiRnti[g][u]  c == ctx[g][r] IN
    \/ ~HasUeManager(g, r) /\ AbortInAnswer("context set-up without context")
    \/ /\ HasUeManager(g, r)
       /\ ~(c.st = "ATTACH_REQUEST" /\ c.session = 0)
       /\ AbortInAnswer("context set-up in another state")
    \/ /\ HasUeManager(g, r) /\ c.st = "ATTACH_REQUEST" /\ c.session = 0 /\ Running
       /\ ctx' = [ctx EXCEPT ![g][r] = Normal([c EXCEPT !.session = s, !.pending = TRUE])]
       /\ SendDown(c.imsi, "Reconfiguration", g, r)
       /\ rntiSession' = [rntiSession EXCEPT ![g][r] = s]
       /\ sessionRnti' = [sessionRnti EXCEPT ![g][s] = r]
       /\ UNCHANGED <<lastRnti, imsiRnti, x2>>

\* The UE applied a reconfiguration, or joined after a handover.
RecvRrcConnectionReconfigurationCompleted(g, r) ==
    LET c == ctx[g][r] IN
    \/ /\ HasUeManager(g, r) /\ c.st = "CONNECTION_RECONFIGURATION" /\ Running
       /\ SwitchToNormal(g, r, c)
       /\ UNCHANGED <<x2, epcVars>>
    \/ /\ HasUeManager(g, r) /\ c.st = "HANDOVER_JOINING" /\ Running
       /\ ctx' = [ctx EXCEPT ![g][r].st = "HANDOVER_PATH_SWITCH",
                             ![g][r].timers = @ \ {"handoverJoining"}]
       /\ imsiRnti' = [imsiRnti EXCEPT ![g][c.imsi] = r]
       /\ rntiSession' = [rntiSession EXCEPT ![g][r] = c.session]
       /\ sessionRnti' = [s \in Gnb |->
              IF s = g THEN [k \in Session |-> IF k = c.session THEN r ELSE sessionRnti[g][k]]
                       ELSE sessionRnti[s]]
       /\ AskSwitch(c.imsi, g, c.session)
       /\ UNCHANGED <<lastRnti, x2, down>>
    \/ /\ ~HasUeManager(g, r) \/ c.st \in {"INITIAL_RANDOM_ACCESS", "CONNECTED_NORMALLY",
                                           "HANDOVER_LEAVING"}
       /\ Running /\ UNCHANGED <<gnbVars, x2, down, epcVars>>
    \/ /\ HasUeManager(g, r)
       /\ c.st \in {"CONNECTION_SETUP", "CONNECTION_REJECTED", "ATTACH_REQUEST",
                    "HANDOVER_PREPARATION", "HANDOVER_PATH_SWITCH"}
       /\ Abort("reconfiguration completed in another state")

\* The path is switched: the source may forget the UE.
PathSwitchRequestAcknowledge(g, u) ==
    LET r == imsiRnti[g][u]  c == ctx[g][r] IN
    \/ /\ ~(HasUeManager(g, r) /\ c.st = "HANDOVER_PATH_SWITCH")
       /\ AbortInAnswer("path switch acknowledged in another state")
    \/ /\ HasUeManager(g, r) /\ c.st = "HANDOVER_PATH_SWITCH" /\ Running
       /\ x2' = Sent(g, c.source, Message("UeContextRelease", c.sourceId, r, None, 0))
       /\ SwitchToNormal(g, r, c)

\* Radio parameters of the UE change (SetPdschConfigDedicated, SetSrsConfigurationIndex,
\* CmacUeConfigUpdateInd): the UE must be reconfigured now or later.
ScheduleRrcConnectionReconfiguration(g, r) ==
    LET c == ctx[g][r] IN
    /\ HasUeManager(g, r)
    /\ \/ /\ c.st \in {"HANDOVER_PATH_SWITCH", "CONNECTION_REJECTED"}
          /\ Abort("reconfiguration in another state")
       \/ /\ c.st = "CONNECTED_NORMALLY" /\ Running
          /\ SwitchToNormal(g, r, [c EXCEPT !.pending = TRUE])
          /\ UNCHANGED <<x2, epcVars>>
       \/ /\ c.st \notin {"HANDOVER_PATH_SWITCH", "CONNECTION_REJECTED", "CONNECTED_NORMALLY"}
          /\ Running
          /\ SetContext(g, r, [c EXCEPT !.pending = TRUE])
          /\ UNCHANGED <<x2, down, epcVars>>

\* The UE, or the gNB itself after a release, asks to forget the context.  A
\* context that awaits a UE by handover tells the source that it failed.
RecvIdealUeContextRemoveRequest(g, r) ==
    LET c == ctx[g][r] IN
    /\ Running
    /\ IF HasUeManager(g, r)
       THEN /\ x2' = IF c.st = "HANDOVER_JOINING"
                     THEN Sent(g, c.source,
                               Message("HandoverPreparationFailure", c.sourceId, 0, None, 0))
                     ELSE x2
            /\ RemoveUe(g, r)
       ELSE UNCHANGED <<gnbVars, x2>>
    /\ UNCHANGED <<down, epcVars>>

-----------------------------------------------------------------------------
(* Handover over X2                                                        *)

\* A handover to h is wanted.  The measurements (ExecuteHandover) ask for it in
\* CONNECTED_NORMALLY only, a script (SendHandoverRequest) in any state.
PrepareHandover(g, r, h) ==
    LET c == ctx[g][r] IN
    /\ HasUeManager(g, r) /\ h # g
    /\ \/ /\ c.st = "CONNECTED_NORMALLY" /\ Running
          /\ SetContext(g, r, [c EXCEPT !.st = "HANDOVER_PREPARATION", !.target = h])
          /\ x2' = Sent(g, h, Message("HandoverRequest", r, 0, c.imsi, c.session))
          /\ UNCHANGED <<down, epcVars>>
       \/ /\ c.st = "CONNECTION_SETUP" /\ Running
          /\ SetContext(g, r, [c EXCEPT !.pendingHo = h])
          /\ UNCHANGED <<x2, down, epcVars>>
       \/ /\ c.st \in {"INITIAL_RANDOM_ACCESS", "CONNECTION_REJECTED", "ATTACH_REQUEST",
                       "CONNECTION_RECONFIGURATION", "HANDOVER_PREPARATION"}
          /\ Abort("handover requested in another state")

\* Handover request: answer is "admit", "reject" (no admission, no SRS index left)
\* or "noPreamble" (a context is made and removed again).
RecvHandoverRequest(g, h, m, answer) ==
    /\ Running
    /\ \/ /\ answer = "admit"
          /\ AddUe(g, [NewContext("HANDOVER_JOINING", {"handoverJoining"}) EXCEPT
                          !.imsi = m.imsi, !.source = h, !.sourceId = m.old,
                          !.session = m.session, !.pending = m.session # 0])
          /\ x2' = Answered(h, g, Message("HandoverRequestAck", m.old, NewRnti(g), None, m.session))
       \/ /\ answer = "reject"
          /\ x2' = Answered(h, g, Message("HandoverPreparationFailure", m.old, 0, None, 0))
          /\ UNCHANGED gnbVars
       \/ /\ answer = "noPreamble" /\ lastRnti[g] < MaxRnti
          /\ x2' = Answered(h, g, Message("HandoverPreparationFailure", m.old, 0, None, 0))
          /\ lastRnti' = [lastRnti EXCEPT ![g] = NewRnti(g)]
          /\ UNCHANGED <<ctx, appVars>>
    /\ UNCHANGED <<down, epcVars>>

\* The target is ready: the UE is sent there.  The state is not looked at.
RecvHandoverRequestAck(g, h, m) ==
    LET r == m.old  c == ctx[g][r] IN
    \/ ~HasUeManager(g, r) /\ Abort("handover acknowledged without context")
    \/ /\ HasUeManager(g, r) /\ (m.session = 0) # (c.session = 0)
       /\ Abort("bearers not admitted")
    \/ /\ HasUeManager(g, r) /\ (m.session = 0) = (c.session = 0) /\ Running
       /\ SetContext(g, r, [c EXCEPT !.st = "HANDOVER_LEAVING", !.target = h,
                                     !.targetId = m.new, !.timers = @ \cup {"handoverLeaving"}])
       /\ SendDown(c.imsi, "HandoverCommand", h, m.new)
       /\ x2' = Answered(h, g, Message("SnStatusTransfer", r, m.new, None, c.session))
       /\ UNCHANGED epcVars

\* Deviation for the checks: the context serves the UE again, its timeout goes on.
StopLeavingResuming(c) == [c EXCEPT !.st = "CONNECTED_NORMALLY"]

\* The target gave up waiting for a UE that was sent there.
StopLeaving(c) == [c EXCEPT !.timers = @ \ {"handoverLeaving"}]

\* The target refuses, or gave up waiting for the UE: in the latter case the
\* leaving timeout is cancelled and the context stays.
RecvHandoverPreparationFailure(g, h, m) ==
    LET r == m.old  c == ctx[g][r] IN
    \/ /\ ~HasUeManager(g, r) /\ Running
       /\ x2' = Taken(h, g) /\ UNCHANGED <<gnbVars, down, epcVars>>
    \/ /\ HasUeManager(g, r) /\ c.st = "HANDOVER_PREPARATION" /\ c.target = h /\ Running
       /\ SwitchToNormal(g, r, c)
       /\ x2' = Taken(h, g) /\ UNCHANGED epcVars
    \/ /\ HasUeManager(g, r) /\ c.st = "HANDOVER_LEAVING" /\ c.target = h /\ Running
       /\ SetContext(g, r, StopLeaving(c))
       /\ x2' = Taken(h, g) /\ UNCHANGED <<down, epcVars>>
    \/ /\ HasUeManager(g, r)
       /\ ~(c.st \in {"HANDOVER_PREPARATION", "HANDOVER_LEAVING"} /\ c.target = h)
       /\ Abort("handover failure in another state")

\* PDCP sequence numbers of the bearers: a bearer that is not there is an error.
RecvSnStatusTransfer(g, h, m) ==
    \/ /\ HasUeManager(g, m.new) /\ m.session # 0 /\ ctx[g][m.new].session = 0
       /\ Abort("status of an unknown bearer")
    \/ /\ ~HasUeManager(g, m.new) \/ m.session = 0 \/ ctx[g][m.new].session # 0
       /\ Running
       /\ x2' = Taken(h, g) /\ UNCHANGED <<gnbVars, down, epcVars>>

\* The handover is complete: the source forgets the UE.
RecvUeContextRelease(g, h, m) ==
    LET r == m.old IN
    \/ /\ HasUeManager(g, r) /\ ctx[g][r].st # "HANDOVER_LEAVING"
       /\ Abort("context release in another state")
    \/ /\ ~HasUeManager(g, r) /\ Running
       /\ x2' = Taken(h, g) /\ UNCHANGED <<gnbVars, down, epcVars>>
    \/ /\ HasUeManager(g, r) /\ ctx[g][r].st = "HANDOVER_LEAVING" /\ Running
       /\ RemoveUe(g, r)
       /\ x2' = Taken(h, g) /\ UNCHANGED <<down, epcVars>>

\* The source gave up: the joining timeout is cancelled and the context stays.
RecvHandoverCancel(g, h, m) ==
    LET r == m.new IN
    \/ /\ HasUeManager(g, r) /\ ctx[g][r].st # "HANDOVER_JOINING"
       /\ Abort("handover cancel in another state")
    \/ /\ ~HasUeManager(g, r) /\ Running
       /\ x2' = Taken(h, g) /\ UNCHANGED <<gnbVars, down, epcVars>>
    \/ /\ HasUeManager(g, r) /\ ctx[g][r].st = "HANDOVER_JOINING" /\ Running
       /\ SetContext(g, r, [ctx[g][r] EXCEPT !.timers = @ \ {"handoverJoining"}])
       /\ x2' = Taken(h, g) /\ UNCHANGED <<down, epcVars>>

RecvX2(g, h, answer) ==
    /\ x2[h][g] # <<>>
    /\ LET m == Head(x2[h][g]) IN
       \/ m.type = "HandoverRequest" /\ RecvHandoverRequest(g, h, m, answer)
       \/ m.type = "HandoverRequestAck" /\ RecvHandoverRequestAck(g, h, m)
       \/ m.type = "HandoverPreparationFailure" /\ RecvHandoverPreparationFailure(g, h, m)
       \/ m.type = "SnStatusTransfer" /\ RecvSnStatusTransfer(g, h, m)
       \/ m.type = "UeContextRelease" /\ RecvUeContextRelease(g, h, m)
       \/ m.type = "HandoverCancel" /\ RecvHandoverCancel(g, h, m)

-----------------------------------------------------------------------------
(* Timeouts                                                                *)

Timeout(g, r, t) ==
    /\ t \in ctx[g][r].timers
    /\ \/ ctx[g][r].st # TimerState[t] /\ Abort("timeout in another state")
       \/ /\ ctx[g][r].st = TimerState[t] /\ Running
          /\ LET c == ctx[g][r] IN
             \/ /\ t \in {"connectionRequest", "connectionSetup", "connectionRejected"}
                /\ UNCHANGED <<x2, down>>
             \/ /\ t = "handoverJoining"
                /\ x2' = Sent(g, c.source,
                              Message("HandoverPreparationFailure", c.sourceId, 0, None, 0))
                /\ UNCHANGED down
             \/ /\ t = "handoverLeaving"
                /\ x2' = Sent(g, c.target, Message("HandoverCancel", r, c.targetId, None, 0))
                /\ SendDown(c.imsi, "ConnectionRelease", g, r)
          /\ RemoveUe(g, r)
          /\ UNCHANGED epcVars

-----------------------------------------------------------------------------
\* No timeout expires in a state its handler does not expect: every handler that leaves
\* a state cancels the timeouts of that state (the NS_ASSERTs of the five timeouts,
\* nr-gnb-rrc.cc:2943-3036).
TimersMatchState ==
    \A g \in Gnb, r \in Rnti : \A t \in ctx[g][r].timers : ctx[g][r].st = TimerState[t]
=============================================================================
