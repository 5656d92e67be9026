------------------------------ MODULE Rrc_proofs ------------------------------
(***************************************************************************)
(* The inductive invariant of the composed system (Inv) and what follows   *)
(* from it for every number of UEs, gNBs, RNTIs and sessions: the types,   *)
(* that every timeout is armed only in its state, and that the assertions  *)
(* listed in ExcludedAborts hold.                                          *)
(*                                                                         *)
(* The second part is about RNTIs: one of a gNB is given to one UE (Owned),*)
(* the UE whose preamble or whose handover made the context.  UEs, RRC     *)
(* messages, contexts and X2 messages, which name contexts by RNTIs only,  *)
(* agree on that UE, unless a random preamble was taken for one kept for a *)
(* handover ("overlap").  It follows that the contexts at the two ends of  *)
(* a handover are of one UE (HandoverJoinsOneUe), and that a UE is served  *)
(* through one context only, the one it uses (OneContextServes).           *)
(***************************************************************************)
EXTENDS Rrc, GnbRrc_proofs

\* Type of the state of a UE.
UeRecord ==
    [st : UeState, cell : Gnb \cup {None}, rnti : 0 .. MaxRnti, rar : 0 .. MaxRnti,
     rachAttempts : 0 .. RachAttemptsLimit - 1, connEstFails : 0 .. ConnEstFailCount - 1]

\* States in which a UE has a cell, and those in which it may access it at random.
Placed == {"IDLE_WAIT_MIB", "IDLE_WAIT_SIB2", "IDLE_RANDOM_ACCESS", "IDLE_CONNECTING",
           "CONNECTED_NORMALLY", "CONNECTED_HANDOVER"}
Accessing == {"IDLE_RANDOM_ACCESS", "CONNECTED_NORMALLY", "CONNECTED_HANDOVER"}

\* What holds of a UE in each of its states.
UeGood == {c \in UeRecord : /\ c.st \in Placed => c.cell \in Gnb
                            /\ c.rar # 0 => c.st \in Accessing}
UeOK == ue \in [Ue -> UeGood]

\* Nothing in the air, and the message m of the UE u only.
NoMessage == [u \in Ue |-> <<>>]
Only(u, m) == [v \in Ue |-> IF v = u THEN <<m>> ELSE <<>>]

\* What the sender of a message, or the one it is for, is doing while it is in the
\* air.
UpExpected(u, m) ==
    /\ m.type = "ConnectionRequest" =>
          ue[u].st = "IDLE_CONNECTING" /\ ue[u].cell = m.gnb /\ ue[u].rnti = m.rnti
    /\ m.type = "SetupCompleted" =>
          HasUeManager(m.gnb, m.rnti) /\ ctx[m.gnb][m.rnti].st = "CONNECTION_SETUP"
DownExpected(u, m) ==
    /\ m.type = "ConnectionSetup" =>
          /\ ue[u].st = "IDLE_CONNECTING" /\ HasUeManager(ue[u].cell, ue[u].rnti)
          /\ ctx[ue[u].cell][ue[u].rnti].st = "CONNECTION_SETUP"
    /\ m.type = "ConnectionReject" => ue[u].st = "IDLE_CONNECTING"

\* One message at most is in the air: it is delivered before anything else happens.
AirInv ==
    \/ up = NoMessage /\ down = NoMessage
    \/ \E u \in Ue, m \in UpMessage : up = Only(u, m) /\ down = NoMessage /\ UpExpected(u, m)
    \/ \E u \in Ue, m \in DownMessage :
          down = Only(u, m) /\ up = NoMessage /\ DownExpected(u, m)

\* The assertions that may fail.
AbortOK == abort \in {"none"} \cup ReachedAborts

\* The disturbances counted so far.
SpentOK == spent \in [Trouble -> Nat] /\ \A k \in Trouble : spent[k] <= Bounds[k]

\* The inductive invariant.
Inv == GInv /\ UeOK /\ AirInv /\ AbortOK /\ SpentOK

\* A disturbance is counted.
LEMMA Spending ==
  ASSUME SpentOK, NEW kind \in Trouble, Spend(kind) \/ UNCHANGED spent
  PROVE  SpentOK'
<1>1. CASE UNCHANGED spent BY <1>1 DEF SpentOK
<1>2. CASE Spend(kind)
  <2>1. /\ spent' = [spent EXCEPT ![kind] = @ + 1] /\ spent[kind] < Bounds[kind]
        /\ spent \in [Trouble -> Nat] /\ \A k \in Trouble : spent[k] <= Bounds[k]
    BY <1>2 DEF Spend, SpentOK
  <2>2. \A k \in Trouble : Bounds[k] \in Nat BY RrcAssumption
  <2>3. spent' \in [Trouble -> Nat] BY <2>1
  <2>4. \A k \in Trouble : spent'[k] <= Bounds[k] BY <2>1, <2>2
  <2> QED BY <2>3, <2>4 DEF SpentOK
<1> QED BY <1>1, <1>2

\* The invariant implies the types.
LEMMA InvTypes == Inv => TypeOK
<1> SUFFICES ASSUME Inv PROVE TypeOK OBVIOUS
<1>1. GnbTypeOK /\ EpcTypeOK BY GInvTypes DEF Inv
<1>2. UeTypeOK BY DEF Inv, UeOK, UeGood, UeTypeOK, UeRecord
<1>3. /\ NoMessage \in [Ue -> Seq(UpMessage)] /\ NoMessage \in [Ue -> Seq(DownMessage)]
      /\ \A u \in Ue, m \in UpMessage : Only(u, m) \in [Ue -> Seq(UpMessage)]
      /\ \A u \in Ue, m \in DownMessage : Only(u, m) \in [Ue -> Seq(DownMessage)]
  BY DEF NoMessage, Only
<1>4. up \in [Ue -> Seq(UpMessage)] /\ down \in [Ue -> Seq(DownMessage)]
  BY <1>3 DEF Inv, AirInv
<1> QED BY <1>1, <1>2, <1>4 DEF Inv, AbortOK, SpentOK, TypeOK

\* It holds at the start.
LEMMA InitInv == Init => Inv
<1> SUFFICES ASSUME Init PROVE Inv OBVIOUS
<1>1. GInv
  <2>1. ctx \in Contexts /\ \A g \in Gnb, r \in Rnti : ctx[g][r] = NoContext
    <3>1. \A g \in Gnb : NoContext \in Context BY NoContextIsGood DEF Good
    <3>2. ctx = [g \in Gnb |-> [r \in Rnti |-> NoContext]] BY DEF Init, GnbInit
    <3> HIDE DEF NoContext
    <3> QED BY <3>1, <3>2 DEF Contexts
  <2>2. /\ lastRnti \in [Gnb -> 0 .. MaxRnti] /\ x2 \in Channels
        /\ \A g, h \in Gnb : x2[g][h] = <<>>
    BY RanAssumption DEF Init, GnbInit, Channels
  <2>3. CtxInv(ctx, lastRnti)
    <3> HIDE DEF NoContext
    <3> QED BY <2>1, NoContextIsGood DEF CtxInv
  <2>4. MsgInv(ctx, lastRnti, x2) BY <2>2 DEF MsgInv
  <2>5. X2Inv(ctx, lastRnti, x2)
    <3> SUFFICES ASSUME NEW g \in Gnb, NEW h \in Gnb, NEW r \in 0 .. MaxRnti
                 PROVE  /\ ~Silent(ctx, x2, g, h, r) => r \in 1 .. lastRnti[g]
                        /\ r \in Rnti => Talk(ctx[g][r], ctx, x2, g, h, r)
      BY DEF X2Inv
    <3>1. Silent(ctx, x2, g, h, r)
      <4>1. \A k, l \in Gnb : \A type, i : ~Has(x2[k][l], type, r, i)
        BY <2>2 DEF Has
      <4>2. ~Asks(x2, g, h, r) /\ ~Acks(x2, g, h, r) /\ ~Fails(x2, g, h, r)
        BY <4>1 DEF Asks, Acks, Fails, Holds
      <4>3. ~Joins(ctx, g, h, r)
        BY <2>1, NoContextIsGood DEF Joins, Joining
      <4> QED BY <4>2, <4>3 DEF Silent
    <3>2. ASSUME r \in Rnti PROVE Talk(ctx[g][r], ctx, x2, g, h, r)
      <4>1. ctx[g][r].st = "NONE" BY <2>1, <3>2, NoContextIsGood
      <4> QED BY <4>1, <3>1 DEF Talk, Done, Connecting
    <3> QED BY <3>1, <3>2
  <2>6. AppOK
    <3>1. 0 \in 0 .. MaxRnti /\ 0 \in 0 .. MaxSession BY RanAssumption, EpcAssumption
    <3> QED BY <3>1 DEF Init, GnbInit, AppOK
  <2>7. EpcOK
    <3>1. /\ requests = <<>> /\ served = 0 /\ sessions = 0
          /\ mmeCell = [u \in Ue |-> None] /\ endpoint = [s \in Session |-> None]
          /\ downlink = [u \in Ue |-> 0]
      BY DEF Init, EpcInit
    <3>2. requests \in Seq(Request) /\ Len(requests) = 0 BY <3>1
    <3>3. mmeCell \in [Ue -> Gnb \cup {None}] /\ endpoint \in [Session -> Gnb \cup {None}] BY <3>1
    <3>4. downlink \in [Ue -> 0 .. MaxSession] BY <3>1, EpcAssumption
    <3>5. served \in 0 .. Len(requests) /\ sessions \in 0 .. MaxSession
      BY <3>1, <3>2, EpcAssumption
    <3>6. \A i \in 1 .. Len(requests) :
             i <= served /\ requests[i].type = "Create" => requests[i].session # 0
      BY <3>2
    <3> QED BY <3>2, <3>3, <3>4, <3>5, <3>6 DEF EpcOK, EpcTypeOK
  <2> QED BY <2>1, <2>2, <2>3, <2>4, <2>5, <2>6, <2>7 DEF GInv, RanInv
<1>2. UeOK
  <2> DEFINE c == [st |-> "IDLE_START", cell |-> None, rnti |-> 0, rar |-> 0,
                   rachAttempts |-> 0, connEstFails |-> 0]
  <2>1. c \in UeRecord
    BY RanAssumption, UeAssumption DEF UeRecord, UeState
  <2>2. c.st = "IDLE_START" /\ c.rar = 0 OBVIOUS
  <2>3. ue = [u \in Ue |-> c] BY DEF Init, UeInit
  <2> HIDE DEF c
  <2>4. c \in UeGood BY <2>1, <2>2 DEF UeGood, Placed
  <2> QED BY <2>3, <2>4 DEF UeOK
<1>3. AirInv BY DEF Init, AirInv, NoMessage
<1>4. AbortOK BY DEF Init, AbortOK
<1>5. SpentOK
  <2>1. spent = [k \in Trouble |-> 0] /\ \A k \in Trouble : Bounds[k] \in Nat
    BY RrcAssumption DEF Init
  <2> QED BY <2>1 DEF SpentOK
<1> QED BY <1>1, <1>2, <1>3, <1>4, <1>5 DEF Inv

-----------------------------------------------------------------------------
\* What a handler of a gNB does besides changing the gNB: it fails in a way that can
\* happen, and sends one message at most, which is no answer to a connection request.
Tells(d) ==
    \/ d = down
    \/ \E v \in Ue, m \in DownMessage :
          m.type \notin {"ConnectionSetup", "ConnectionReject"} /\ d = To(down, v, m)
Calm == abort' \in {"none"} \cup ReachedAborts /\ Tells(down')

\* A handler that sends one of the messages which answer no connection request.
LEMMA SendDownTells ==
  ASSUME NEW u \in Ue, NEW g \in Gnb, NEW r \in 0 .. MaxRnti,
         NEW type \in {"Reconfiguration", "HandoverCommand", "ConnectionRelease"},
         SendDown(u, type, g, r)
  PROVE  Tells(down')
<1>1. [type |-> type, gnb |-> g, rnti |-> r] \in DownMessage BY DEF DownMessage
<1> QED BY <1>1 DEF SendDown, Tells

\* The same for a context that returns to CONNECTED_NORMALLY.
LEMMA SwitchToNormalTells ==
  ASSUME NEW g \in Gnb, NEW r \in Rnti, NEW c, c.imsi \in Ue, SwitchToNormal(g, r, c)
  PROVE  Tells(down')
<1>1. r \in 0 .. MaxRnti BY RanAssumption DEF Rnti
<1> QED BY <1>1, SendDownTells DEF SwitchToNormal, Tells

\* RNTIs of contexts are among those a message can carry.
LEMMA RntiRange ==
  ASSUME NEW r \in Rnti
  PROVE  r \in 0 .. MaxRnti
BY RanAssumption DEF Rnti

\* The preamble, the handover decision and the removal of a context.
LEMMA ConnectionCalm ==
  ASSUME Inv, abort = "none", NEW g \in Gnb
  PROVE  /\ AllocateTemporaryCellRnti(g) => Calm
         /\ \A r : \A h \in Gnb : PrepareHandover(g, r, h) => Calm
         /\ \A r : RecvIdealUeContextRemoveRequest(g, r) => Calm
<1>1. AllocateTemporaryCellRnti(g) => Calm BY DEF AllocateTemporaryCellRnti, Calm, Tells
<1>2. \A r : \A h \in Gnb : PrepareHandover(g, r, h) => Calm
  BY DEF PrepareHandover, Calm, Tells, Abort, AbortInAnswer, Running, ReachedAborts
<1>3. \A r : RecvIdealUeContextRemoveRequest(g, r) => Calm
  BY DEF RecvIdealUeContextRemoveRequest, Calm, Tells, Running
<1> QED BY <1>1, <1>2, <1>3

\* The end of the connection set-up, in the state that expects it.
LEMMA SetupCompletedCalm ==
  ASSUME Inv, abort = "none", NEW g \in Gnb, NEW r, HasUeManager(g, r),
         ctx[g][r].st = "CONNECTION_SETUP", RecvRrcConnectionSetupCompleted(g, r)
  PROVE  Calm
BY DEF RecvRrcConnectionSetupCompleted, Calm, Tells, Running

\* The end of a reconfiguration, in every state.
LEMMA ReconfigurationCompletedCalm ==
  ASSUME Inv, abort = "none", NEW g \in Gnb, NEW r,
         RecvRrcConnectionReconfigurationCompleted(g, r)
  PROVE  Calm
<1> DEFINE c == ctx[g][r]
<1>1. CASE UNCHANGED down /\ UNCHANGED abort BY <1>1 DEF Calm, Tells
<1>2. CASE Abort("reconfiguration completed in another state")
  BY <1>2 DEF Calm, Tells, Abort, AbortInAnswer, ReachedAborts
<1>3. ASSUME HasUeManager(g, r), c.st = "CONNECTION_RECONFIGURATION", UNCHANGED abort,
             SwitchToNormal(g, r, c)
      PROVE  Calm
  <2>1. r \in Rnti /\ c \in Good(g) BY <1>3, IsContext DEF Inv
  <2>2. c.imsi \in Ue BY <1>3, <2>1 DEF Good, Named
  <2> QED BY <1>3, <2>1, <2>2, SwitchToNormalTells DEF Calm
<1> QED BY <1>1, <1>2, <1>3 DEF RecvRrcConnectionReconfigurationCompleted, Running

\* A reconfiguration that is sent or put off.
LEMMA ScheduleCalm ==
  ASSUME Inv, abort = "none", NEW g \in Gnb, NEW r, ScheduleRrcConnectionReconfiguration(g, r)
  PROVE  Calm
<1> DEFINE c == ctx[g][r]
           e == [c EXCEPT !.pending = TRUE]
<1>1. CASE UNCHANGED down /\ UNCHANGED abort BY <1>1 DEF Calm, Tells
<1>2. CASE Abort("reconfiguration in another state")
  BY <1>2 DEF Calm, Tells, Abort, AbortInAnswer, ReachedAborts
<1>3. ASSUME HasUeManager(g, r), c.st = "CONNECTED_NORMALLY", UNCHANGED abort,
             SwitchToNormal(g, r, e)
      PROVE  Calm
  <2>1. r \in Rnti /\ c \in Good(g) /\ c \in Context BY <1>3, IsContext DEF Inv
  <2>2. c.imsi \in Ue BY <1>3, <2>1 DEF Good, Named
  <2>3. e.imsi \in Ue BY <2>1, <2>2 DEF Context
  <2> HIDE DEF e
  <2> QED BY <1>3, <2>1, <2>3, SwitchToNormalTells DEF Calm
<1> QED BY <1>1, <1>2, <1>3 DEF ScheduleRrcConnectionReconfiguration, Running

\* The answers of the core network.
LEMMA AnswerCalm ==
  ASSUME Inv, abort = "none", NEW g \in Gnb, NEW u \in Ue
  PROVE  /\ \A s : InitialContextSetupRequest(g, u, s) => Calm
         /\ PathSwitchRequestAcknowledge(g, u) => Calm
<1> DEFINE r == imsiRnti[g][u]
           c == ctx[g][r]
<1>1. ASSUME HasUeManager(g, r) PROVE r \in Rnti /\ c \in Good(g)
  BY <1>1, IsContext DEF Inv
<1>2. ASSUME NEW s, InitialContextSetupRequest(g, u, s) PROVE Calm
  <2>1. CASE \/ AbortInAnswer("context set-up without context")
             \/ AbortInAnswer("context set-up in another state")
    BY <2>1 DEF Calm, Tells, AbortInAnswer, ReachedAborts
  <2>2. ASSUME HasUeManager(g, r), c.st = "ATTACH_REQUEST", UNCHANGED abort,
               SendDown(c.imsi, "Reconfiguration", g, r)
        PROVE  Calm
    <3>1. c.imsi \in Ue /\ r \in 0 .. MaxRnti
      BY <1>1, <2>2, RntiRange DEF Good, Named
    <3> HIDE DEF c, r
    <3> QED BY <2>2, <3>1, SendDownTells DEF Calm
  <2> QED BY <1>2, <2>1, <2>2 DEF InitialContextSetupRequest, Running
<1>3. ASSUME PathSwitchRequestAcknowledge(g, u) PROVE Calm
  <2>1. CASE AbortInAnswer("path switch acknowledged in another state")
    BY <2>1 DEF Calm, Tells, AbortInAnswer, ReachedAborts
  <2>2. ASSUME HasUeManager(g, r), c.st = "HANDOVER_PATH_SWITCH", UNCHANGED abort,
               SwitchToNormal(g, r, c)
        PROVE  Calm
    <3>1. c.imsi \in Ue /\ r \in Rnti BY <1>1, <2>2 DEF Good, Named
    <3> HIDE DEF c, r
    <3> QED BY <2>2, <3>1, SwitchToNormalTells DEF Calm
  <2> QED BY <1>3, <2>1, <2>2 DEF PathSwitchRequestAcknowledge, Running
<1> QED BY <1>2, <1>3

\* No handler of an X2 message fails in a way that is excluded.
LEMMA RecvX2Calm ==
  ASSUME Inv, abort = "none", NEW g \in Gnb, NEW h \in Gnb, NEW answer, RecvX2(g, h, answer)
  PROVE  Calm
<1> DEFINE m == Head(x2[h][g])
           r == m.old
           c == ctx[g][r]
<1>0. x2[h][g] # <<>> /\ GInv BY DEF RecvX2, Inv
<1>1. m \in X2Message /\ MsgGood(ctx, lastRnti, h, g, m) BY <1>0, TakenFacts
<1>2. CASE RecvHandoverRequest(g, h, m, answer)
  BY <1>2 DEF RecvHandoverRequest, Calm, Tells, Running
<1>3. CASE m.type = "HandoverRequestAck" /\ RecvHandoverRequestAck(g, h, m)
  <2>1. CASE ~HasUeManager(g, r)
    BY <1>3, <2>1 DEF RecvHandoverRequestAck, Calm, Tells, Abort, AbortInAnswer, ReachedAborts
  <2>2. CASE HasUeManager(g, r)
    <3>1. m.session # 0 /\ c.session # 0 /\ c.imsi \in Ue
      BY <1>0, <1>3, <2>2, AckFindsPreparation
    <3>2. UNCHANGED abort /\ SendDown(c.imsi, "HandoverCommand", h, m.new)
      BY <1>3, <2>2, <3>1 DEF RecvHandoverRequestAck, Running
    <3>3. m.new \in 0 .. MaxRnti BY <1>1 DEF X2Message
    <3> HIDE DEF c, m
    <3> QED BY <3>1, <3>2, <3>3, SendDownTells DEF Calm
  <2> QED BY <2>1, <2>2
<1>4. CASE RecvHandoverPreparationFailure(g, h, m)
  <2>1. CASE UNCHANGED down /\ UNCHANGED abort BY <2>1 DEF Calm, Tells
  <2>2. CASE Abort("handover failure in another state")
    BY <2>2 DEF Calm, Tells, Abort, AbortInAnswer, ReachedAborts
  <2>3. ASSUME HasUeManager(g, r), c.st = "HANDOVER_PREPARATION", UNCHANGED abort,
               SwitchToNormal(g, r, c)
        PROVE  Calm
    <3>1. r \in Rnti /\ c \in Good(g) BY <1>0, <2>3, IsContext
    <3>2. c.imsi \in Ue BY <2>3, <3>1 DEF Good, Named
    <3> HIDE DEF c, r
    <3> QED BY <2>3, <3>1, <3>2, SwitchToNormalTells DEF Calm
  <2> QED BY <1>4, <2>1, <2>2, <2>3 DEF RecvHandoverPreparationFailure, Running
<1>5. CASE m.type = "SnStatusTransfer" /\ RecvSnStatusTransfer(g, h, m)
  <2>1. Bears(ctx, lastRnti, g, m.new) BY <1>1, <1>5 DEF MsgGood
  <2>2. HasUeManager(g, m.new) => ctx[g][m.new].session # 0 BY <2>1 DEF Bears, HasUeManager
  <2> QED BY <1>5, <2>2 DEF RecvSnStatusTransfer, Calm, Tells, Running
<1>6. CASE RecvUeContextRelease(g, h, m)
  BY <1>6 DEF RecvUeContextRelease, Calm, Tells, Running, Abort, AbortInAnswer, ReachedAborts
<1>7. CASE RecvHandoverCancel(g, h, m)
  BY <1>7 DEF RecvHandoverCancel, Calm, Tells, Running, Abort, AbortInAnswer, ReachedAborts
<1> QED BY <1>2, <1>3, <1>4, <1>5, <1>6, <1>7 DEF RecvX2

\* No timeout fails.
LEMMA TimeoutCalm ==
  ASSUME Inv, abort = "none", NEW g \in Gnb, NEW r \in Rnti, NEW t \in Timer, Timeout(g, r, t)
  PROVE  Calm
<1> DEFINE c == ctx[g][r]
<1>1. c \in Good(g) BY ContextIsGood DEF Inv, GInv
<1>2. t \in c.timers /\ c.st = TimerState[t] BY <1>1 DEF Timeout, Good
<1>3. UNCHANGED abort BY <1>2 DEF Timeout, Running
<1>4. CASE UNCHANGED down BY <1>3, <1>4 DEF Calm, Tells
<1>5. ASSUME t = "handoverLeaving", SendDown(c.imsi, "ConnectionRelease", g, r) PROVE Calm
  <2>1. c.st = "HANDOVER_LEAVING" BY <1>2, <1>5 DEF TimerState
  <2>2. c.imsi \in Ue /\ r \in 0 .. MaxRnti BY <1>1, <2>1, RntiRange DEF Good, Named
  <2> HIDE DEF c
  <2> QED BY <1>3, <1>5, <2>2, SendDownTells DEF Calm
<1> QED BY <1>2, <1>4, <1>5 DEF Timeout

-----------------------------------------------------------------------------
\* What a UE may send, given what it becomes.
Says(u, q) ==
    \/ q = up
    \/ \E m \in UpMessage :
          /\ m.type \in {"ConnectionRequest", "ReconfigurationCompleted", "IdealUeContextRemove"}
          /\ q = To(up, u, m)
          /\ m.type = "ConnectionRequest" =>
                ue'[u].st = "IDLE_CONNECTING" /\ ue'[u].cell = m.gnb /\ ue'[u].rnti = m.rnti
UeMoves(u) == UeOK' /\ abort' \in {"none"} \cup ReachedAborts /\ Says(u, up')

\* A UE takes a good state.
LEMMA Becoming ==
  ASSUME UeOK, abort = "none", NEW u \in Ue, NEW c \in UeGood, Become(u, c)
  PROVE  /\ UeOK' /\ abort' \in {"none"} \cup ReachedAborts /\ ue'[u] = c
         /\ up' = up => UeMoves(u)
BY DEF Become, UeOK, UeMoves, Says

\* The state of every UE is good.
LEMMA UeIsGood ==
  ASSUME UeOK, NEW u \in Ue
  PROVE  ue[u] \in UeGood /\ ue[u] \in UeRecord
BY DEF UeOK, UeGood

\* So is that of a UE that left the connected mode.
LEMMA LeftIsGood ==
  ASSUME NEW c \in UeRecord
  PROVE  Left(c) \in UeGood /\ Left(c) \in UeRecord /\ Left(c).st = "IDLE_CELL_SEARCH"
         /\ Left(c).rar = 0
<1> DEFINE d == [c EXCEPT !.st = "IDLE_CELL_SEARCH", !.cell = None, !.rnti = 0, !.rar = 0]
<1>1. "IDLE_CELL_SEARCH" \in UeState /\ 0 \in 0 .. MaxRnti BY RanAssumption DEF UeState
<1>2. d \in UeRecord /\ d.st = "IDLE_CELL_SEARCH" /\ d.rar = 0 BY <1>1 DEF UeRecord
<1>3. Left(c) = d BY DEF Left
<1> HIDE DEF d
<1> QED BY <1>2, <1>3 DEF UeGood, Placed

\* A UE that leaves the connected mode and tells its gNB.
LEMMA LeaveAndTellMoves ==
  ASSUME UeOK, abort = "none", NEW u \in Ue, ue[u].st \in Connected, LeaveAndTell(u)
  PROVE  UeMoves(u)
<1> DEFINE m == [type |-> "IdealUeContextRemove", gnb |-> ue[u].cell, rnti |-> ue[u].rnti]
<1>1. ue[u] \in UeGood /\ ue[u] \in UeRecord BY UeIsGood
<1>2. ue[u].cell \in Gnb /\ ue[u].rnti \in 0 .. MaxRnti
  BY <1>1 DEF UeGood, UeRecord, Connected, Placed
<1>3. m \in UpMessage /\ m.type = "IdealUeContextRemove" BY <1>2 DEF UpMessage
<1>4. up' = To(up, u, m) BY DEF LeaveAndTell, SendUp
<1>5. UeOK' /\ abort' \in {"none"} \cup ReachedAborts
  BY <1>1, LeftIsGood, Becoming DEF LeaveAndTell
<1> HIDE DEF m
<1> QED BY <1>3, <1>4, <1>5 DEF UeMoves, Says

\* A UE in a state of the cell selection.
LEMMA NewStateIsGood ==
  ASSUME NEW c \in UeRecord, NEW st \in UeState, st \in Placed => c.cell \in Gnb,
         c.rar # 0 => st \in Accessing
  PROVE  [c EXCEPT !.st = st] \in UeGood
<1> DEFINE d == [c EXCEPT !.st = st]
<1>1. d \in UeRecord /\ d.st = st /\ d.cell = c.cell /\ d.rar = c.rar BY DEF UeRecord
<1> HIDE DEF d
<1>2. d \in UeGood BY <1>1 DEF UeGood
<1> QED BY <1>2 DEF d

\* A UE that synchronises with a cell.
LEMMA SynchronizeIsGood ==
  ASSUME NEW c \in UeRecord, c.rar = 0, NEW found \in BOOLEAN
  PROVE  SynchronizeToStrongestCell(c, found) \in UeGood
<1>1. PICK st \in {"IDLE_WAIT_MIB_SIB1", "IDLE_CELL_SEARCH"} :
         SynchronizeToStrongestCell(c, found) = [c EXCEPT !.st = st]
  BY DEF SynchronizeToStrongestCell
<1>2. st \in UeState /\ st \notin Placed BY DEF UeState, Placed
<1> QED BY <1>1, <1>2, NewStateIsGood

\* The steps of the cell selection.
LEMMA SelectionMoves ==
  ASSUME UeOK, abort = "none", NEW u \in Ue,
         \/ StartCellSelection(u) \/ ReportUeMeasurements(u)
         \/ RecvMasterInformationBlock(u) \/ RecvSystemInformation(u)
         \/ \E g \in Gnb : ForceCampedOnGnb(u, g)
         \/ \E g \in Gnb : \E s \in BOOLEAN : RecvSystemInformationBlockType1(u, g, s)
  PROVE  UeMoves(u)
<1> DEFINE c == ue[u]
<1>0. c \in UeGood /\ c \in UeRecord BY UeIsGood
<1>1. up' = up
  BY DEF StartCellSelection, ForceCampedOnGnb, ReportUeMeasurements,
         RecvMasterInformationBlock, RecvSystemInformation, RecvSystemInformationBlockType1
<1>2. ASSUME NEW d \in UeGood, Become(u, d) PROVE UeMoves(u) BY <1>1, <1>2, Becoming
<1>3. c.st \notin Accessing => c.rar = 0 BY <1>0 DEF UeGood
<1>4. CASE StartCellSelection(u)
  <2>1. c.st = "IDLE_START" /\ Become(u, [c EXCEPT !.st = "IDLE_CELL_SEARCH"])
    BY <1>4 DEF StartCellSelection
  <2>2. "IDLE_CELL_SEARCH" \in UeState /\ "IDLE_CELL_SEARCH" \notin Placed /\ c.rar = 0
    BY <1>3, <2>1 DEF UeState, Placed, Accessing
  <2> QED BY <1>0, <1>2, <2>1, <2>2, NewStateIsGood
<1>5. ASSUME NEW g \in Gnb, ForceCampedOnGnb(u, g) PROVE UeMoves(u)
  <2> DEFINE d == [c EXCEPT !.st = "IDLE_WAIT_MIB", !.cell = g]
  <2>1. c.st \notin Accessing /\ Become(u, d) BY <1>5 DEF ForceCampedOnGnb, Accessing
  <2>2. d \in UeRecord /\ d.cell = g /\ d.rar = 0
    BY <1>0, <1>3, <2>1 DEF UeRecord, UeState
  <2> HIDE DEF d
  <2>3. d \in UeGood BY <2>2 DEF UeGood
  <2> QED BY <1>2, <2>1, <2>3
<1>6. CASE ReportUeMeasurements(u)
  <2>1. c.st = "IDLE_CELL_SEARCH" /\ Become(u, SynchronizeToStrongestCell(c, TRUE))
    BY <1>6 DEF ReportUeMeasurements
  <2>2. c.rar = 0 BY <1>3, <2>1 DEF Accessing
  <2> QED BY <1>0, <1>2, <2>1, <2>2, SynchronizeIsGood
<1>7. CASE RecvMasterInformationBlock(u)
  <2>1. CASE c.st = "IDLE_WAIT_MIB" /\ Become(u, [c EXCEPT !.st = "IDLE_WAIT_SIB2"])
    <3>1. "IDLE_WAIT_SIB2" \in UeState /\ c.cell \in Gnb /\ c.rar = 0
      BY <1>0, <1>3, <2>1 DEF UeState, UeGood, Placed, Accessing
    <3> QED BY <1>0, <1>2, <2>1, <3>1, NewStateIsGood
  <2>2. CASE c.st = "IDLE_WAIT_MIB_SIB1" /\ Become(u, [c EXCEPT !.st = "IDLE_WAIT_SIB1"])
    <3>1. "IDLE_WAIT_SIB1" \in UeState /\ "IDLE_WAIT_SIB1" \notin Placed /\ c.rar = 0
      BY <1>3, <2>2 DEF UeState, Placed, Accessing
    <3> QED BY <1>0, <1>2, <2>2, <3>1, NewStateIsGood
  <2> QED BY <1>7, <2>1, <2>2 DEF RecvMasterInformationBlock
<1>8. CASE RecvSystemInformation(u)
  <2>1. c.st = "IDLE_WAIT_SIB2" /\ Become(u, [c EXCEPT !.st = "IDLE_RANDOM_ACCESS"])
    BY <1>8 DEF RecvSystemInformation
  <2>2. "IDLE_RANDOM_ACCESS" \in UeState /\ c.cell \in Gnb /\ c.rar = 0
    BY <1>0, <1>3, <2>1 DEF UeState, UeGood, Placed, Accessing
  <2> QED BY <1>0, <1>2, <2>1, <2>2, NewStateIsGood
<1>9. ASSUME NEW g \in Gnb, NEW s \in BOOLEAN, RecvSystemInformationBlockType1(u, g, s) PROVE UeMoves(u)
  <2> DEFINE d == [c EXCEPT !.st = "IDLE_WAIT_SIB2", !.cell = g]
  <2>1. c.st = "IDLE_WAIT_SIB1" BY <1>9 DEF RecvSystemInformationBlockType1
  <2>2. c.rar = 0 BY <1>3, <2>1 DEF Accessing
  <2>3. CASE Become(u, d)
    <3>1. d \in UeRecord /\ d.cell = g /\ d.rar = 0 BY <1>0, <2>2 DEF UeRecord, UeState
    <3> HIDE DEF d
    <3>2. d \in UeGood BY <3>1 DEF UeGood
    <3> QED BY <1>2, <2>3, <3>2
  <2>4. ASSUME NEW found \in BOOLEAN, Become(u, SynchronizeToStrongestCell(c, found))
        PROVE  UeMoves(u)
    BY <1>0, <1>2, <2>2, <2>4, SynchronizeIsGood
  <2> QED BY <1>9, <2>3, <2>4 DEF RecvSystemInformationBlockType1
<1> QED BY <1>4, <1>5, <1>6, <1>7, <1>8, <1>9

\* A random access that ends with an RNTI.
LEMMA NotifyRandomAccessSuccessfulMoves ==
  ASSUME UeOK, abort = "none", NEW u \in Ue, NotifyRandomAccessSuccessful(u)
  PROVE  UeMoves(u)
<1> DEFINE o == ue[u]
           c == [o EXCEPT !.rnti = ue[u].rar, !.rar = 0, !.rachAttempts = 0]
           m(type) == [type |-> type, gnb |-> c.cell, rnti |-> c.rnti]
<1>0. o \in UeGood /\ o \in UeRecord BY UeIsGood
<1>1. /\ c \in UeRecord /\ c.st = o.st /\ c.cell = o.cell /\ c.rar = 0
  <2>1. 0 \in 0 .. RachAttemptsLimit - 1 /\ 0 \in 0 .. MaxRnti BY UeAssumption, RanAssumption
  <2> QED BY <1>0, <2>1 DEF UeRecord
<1>2. o.st \in Accessing /\ c.cell \in Gnb /\ c.rnti \in 0 .. MaxRnti
  <2>1. o.rar # 0 BY DEF NotifyRandomAccessSuccessful
  <2> QED BY <1>0, <1>1, <2>1 DEF UeGood, UeRecord, Accessing, Placed
<1>3. m("ConnectionRequest") \in UpMessage /\ m("ReconfigurationCompleted") \in UpMessage
  BY <1>2 DEF UpMessage
<1>4. c \in UeGood BY <1>1, <1>2 DEF UeGood
<1>5. CASE /\ c.st = "IDLE_RANDOM_ACCESS"
           /\ Become(u, [c EXCEPT !.st = "IDLE_CONNECTING"])
           /\ up' = To(up, u, m("ConnectionRequest"))
  <2> DEFINE d == [c EXCEPT !.st = "IDLE_CONNECTING"]
             a == m("ConnectionRequest")
  <2>1. d \in UeGood
    BY <1>1, <1>2, NewStateIsGood DEF UeState
  <2>2. d.st = "IDLE_CONNECTING" /\ d.cell = c.cell /\ d.rnti = c.rnti BY <1>1 DEF UeRecord
  <2>3. a \in UpMessage /\ a.type = "ConnectionRequest" /\ a.gnb = d.cell /\ a.rnti = d.rnti
    BY <1>3, <2>2
  <2>4. Become(u, d) /\ up' = To(up, u, a) BY <1>5
  <2> HIDE DEF a, d
  <2> QED BY <2>1, <2>2, <2>3, <2>4, Becoming DEF UeMoves, Says
<1>6. CASE /\ c.st = "CONNECTED_HANDOVER"
           /\ Become(u, [c EXCEPT !.st = "CONNECTED_NORMALLY"])
           /\ up' = To(up, u, m("ReconfigurationCompleted"))
  <2> DEFINE d == [c EXCEPT !.st = "CONNECTED_NORMALLY"]
             a == m("ReconfigurationCompleted")
  <2>1. d \in UeGood
    BY <1>1, <1>2, NewStateIsGood DEF UeState
  <2>2. a \in UpMessage /\ a.type = "ReconfigurationCompleted" BY <1>3
  <2>3. Become(u, d) /\ up' = To(up, u, a) BY <1>6
  <2> HIDE DEF a, d
  <2> QED BY <2>1, <2>2, <2>3, Becoming DEF UeMoves, Says
<1>7. CASE Become(u, c) /\ up' = up
  <2> HIDE DEF c
  <2> QED BY <1>4, <1>7, Becoming
<1> QED BY <1>5, <1>6, <1>7 DEF NotifyRandomAccessSuccessful, SendUp

\* Random access that fails, and the loss of a connection.
LEMMA FaultMoves ==
  ASSUME UeOK, abort = "none", NEW u \in Ue,
         NotifyRandomAccessFailed(u) \/ RaResponseTimeout(u) \/ RadioLinkFailureDetected(u)
         \/ ConnectionTimeout(u)
  PROVE  UeMoves(u)
<1> DEFINE c == ue[u]
<1>0. c \in UeGood /\ c \in UeRecord BY UeIsGood
<1>1. CASE RadioLinkFailureDetected(u)
  BY <1>1, LeaveAndTellMoves DEF RadioLinkFailureDetected
<1>2. ASSUME NEW d \in UeGood, Become(u, d), up' = up PROVE UeMoves(u) BY <1>2, Becoming
<1>3. CASE RaResponseTimeout(u)
  <2> DEFINE d == [c EXCEPT !.rar = 0]
  <2>1. Become(u, d) /\ up' = up BY <1>3 DEF RaResponseTimeout
  <2>2. d \in UeRecord /\ d.st = c.st /\ d.cell = c.cell /\ d.rar = 0
    BY <1>0, RanAssumption DEF UeRecord
  <2> HIDE DEF d
  <2>3. d \in UeGood BY <1>0, <2>2 DEF UeGood
  <2> QED BY <1>2, <2>1, <2>3
<1>4. CASE NotifyRandomAccessFailed(u)
  <2>0. c.rar = 0 BY <1>4 DEF NotifyRandomAccessFailed
  <2>1. ASSUME c.st = "IDLE_RANDOM_ACCESS", c.rachAttempts + 1 < RachAttemptsLimit,
               Become(u, [c EXCEPT !.rachAttempts = @ + 1]), up' = up
        PROVE  UeMoves(u)
    <3> DEFINE d == [c EXCEPT !.rachAttempts = @ + 1]
    <3>1. c.rachAttempts + 1 \in 0 .. RachAttemptsLimit - 1
      BY <1>0, <2>1, UeAssumption DEF UeRecord
    <3>2. d \in UeRecord /\ d.st = c.st /\ d.cell = c.cell /\ d.rar = c.rar
      BY <1>0, <3>1 DEF UeRecord
    <3>3. Become(u, d) BY <2>1
    <3> HIDE DEF d
    <3>4. d \in UeGood BY <1>0, <3>2 DEF UeGood
    <3> QED BY <1>2, <2>1, <3>3, <3>4
  <2>2. ASSUME NEW found \in BOOLEAN, up' = up,
               Become(u, SynchronizeToStrongestCell([c EXCEPT !.rachAttempts = 0], found))
        PROVE  UeMoves(u)
    <3> DEFINE d == [c EXCEPT !.rachAttempts = 0]
    <3>1. 0 \in 0 .. RachAttemptsLimit - 1 BY UeAssumption
    <3>2. d \in UeRecord /\ d.rar = 0 BY <1>0, <2>0, <3>1 DEF UeRecord
    <3>3. Become(u, SynchronizeToStrongestCell(d, found)) BY <2>2
    <3> HIDE DEF d
    <3> QED BY <1>2, <2>2, <3>2, <3>3, SynchronizeIsGood
  <2>3. CASE c.st = "CONNECTED_HANDOVER" /\ LeaveAndTell(u)
    BY <2>3, LeaveAndTellMoves DEF Connected
  <2> QED BY <1>4, <2>1, <2>2, <2>3 DEF NotifyRandomAccessFailed
<1>5. CASE ConnectionTimeout(u)
  <2> DEFINE fails == c.connEstFails + 1
  <2>0. c.st = "IDLE_CONNECTING" /\ up' = up /\ c.connEstFails \in Nat
    BY <1>0, <1>5, UeAssumption DEF ConnectionTimeout, UeRecord
  <2>1. c.rar = 0 /\ c.cell \in Gnb BY <1>0, <2>0 DEF UeGood, Accessing, Placed
  <2>2. CASE fails >= ConnEstFailCount
    <3> DEFINE l == Left(c)
               d == [l EXCEPT !.connEstFails = 0]
    <3>1. Become(u, d) BY <1>5, <2>2 DEF ConnectionTimeout
    <3>2. l \in UeRecord /\ l.st = "IDLE_CELL_SEARCH" /\ l.rar = 0 BY <1>0, LeftIsGood
    <3>3. 0 \in 0 .. ConnEstFailCount - 1 BY UeAssumption
    <3> HIDE DEF l
    <3>4. d \in UeRecord /\ d.st = "IDLE_CELL_SEARCH" /\ d.rar = 0 BY <3>2, <3>3 DEF UeRecord
    <3> HIDE DEF d
    <3>5. d \in UeGood BY <3>4 DEF UeGood, Placed
    <3> QED BY <1>2, <2>0, <3>1, <3>5
  <2>3. CASE ~(fails >= ConnEstFailCount)
    <3> DEFINE d == [c EXCEPT !.st = "IDLE_WAIT_SIB2", !.connEstFails = fails]
    <3>1. Become(u, d) BY <1>5, <2>3 DEF ConnectionTimeout
    <3>2. fails \in 0 .. ConnEstFailCount - 1 BY <2>0, <2>3, UeAssumption
    <3> HIDE DEF fails
    <3>3. d \in UeRecord /\ d.cell = c.cell /\ d.rar = 0
      BY <1>0, <2>1, <3>2 DEF UeRecord, UeState
    <3> HIDE DEF d
    <3>4. d \in UeGood BY <2>1, <3>3 DEF UeGood
    <3> QED BY <1>2, <2>0, <3>1, <3>4
  <2> QED BY <2>2, <2>3
<1> QED BY <1>1, <1>3, <1>4, <1>5

\* What a UE answers to a message of its gNB.
LEMMA RecvDownMoves ==
  ASSUME UeOK, abort = "none", NEW u \in Ue, NEW m \in DownMessage, DownExpected(u, m),
         RecvDown(u, m)
  PROVE  /\ UeOK' /\ abort' \in {"none"} \cup ReachedAborts
         /\ \/ Says(u, up')
            \/ \E a \in UpMessage :
                  /\ a.type = "SetupCompleted" /\ up' = To(up, u, a)
                  /\ HasUeManager(a.gnb, a.rnti) /\ ctx[a.gnb][a.rnti].st = "CONNECTION_SETUP"
<1> DEFINE c == ue[u]
<1>0. c \in UeGood /\ c \in UeRecord /\ m.gnb \in Gnb /\ m.rnti \in 0 .. MaxRnti
  BY UeIsGood DEF DownMessage
<1> USE DEF UeMoves
<1>1. CASE UNCHANGED <<ue, up, abort>> BY <1>1 DEF UeOK, Says
<1>2. CASE m.type = "ConnectionSetup" /\ RecvRrcConnectionSetup(u)
  <2> DEFINE d == [c EXCEPT !.st = "CONNECTED_NORMALLY", !.connEstFails = 0]
             a == [type |-> "SetupCompleted", gnb |-> c.cell, rnti |-> c.rnti]
  <2>1. /\ c.st = "IDLE_CONNECTING" /\ HasUeManager(c.cell, c.rnti)
        /\ ctx[c.cell][c.rnti].st = "CONNECTION_SETUP"
    BY <1>2 DEF DownExpected
  <2>2. Become(u, d) /\ up' = To(up, u, a) BY <1>2, <2>1 DEF RecvRrcConnectionSetup, SendUp
  <2>3. c.cell \in Gnb /\ c.rar = 0 BY <1>0, <2>1 DEF UeGood, Placed, Accessing
  <2>4. d \in UeRecord /\ d.cell = c.cell /\ d.rar = 0
    <3>1. 0 \in 0 .. ConnEstFailCount - 1 BY UeAssumption
    <3> QED BY <1>0, <2>3, <3>1 DEF UeRecord, UeState
  <2>5. a \in UpMessage /\ a.type = "SetupCompleted" /\ a.gnb = c.cell /\ a.rnti = c.rnti
    BY <1>0, <2>3 DEF UpMessage, UeRecord
  <2> HIDE DEF d, a
  <2>6. d \in UeGood BY <2>3, <2>4 DEF UeGood
  <2>7. UeOK' /\ abort' \in {"none"} \cup ReachedAborts BY <2>2, <2>6, Becoming
  <2>8. HasUeManager(a.gnb, a.rnti) BY <2>1, <2>5
  <2>9. ctx[a.gnb][a.rnti].st = "CONNECTION_SETUP" BY <2>1, <2>5
  <2> QED BY <2>2, <2>5, <2>7, <2>8, <2>9
<1>3. CASE m.type = "ConnectionReject" /\ RecvRrcConnectionReject(u)
  <2>1. c.st = "IDLE_CONNECTING" BY <1>3 DEF DownExpected
  <2>2. c.cell \in Gnb /\ c.rar = 0 BY <1>0, <2>1 DEF UeGood, Placed, Accessing
  <2>3. Become(u, [c EXCEPT !.st = "IDLE_WAIT_SIB2"]) /\ up' = up
    BY <1>3 DEF RecvRrcConnectionReject
  <2>4. "IDLE_WAIT_SIB2" \in UeState BY DEF UeState
  <2> QED BY <1>0, <2>2, <2>3, <2>4, NewStateIsGood, Becoming
<1>4. CASE RecvRrcConnectionReconfiguration(u)
  <2>1. CASE c.st # "CONNECTED_NORMALLY"
    BY <1>4, <2>1 DEF RecvRrcConnectionReconfiguration, UeAbort, UeOK, Says, ReachedAborts
  <2>2. CASE c.st = "CONNECTED_NORMALLY"
    <3> DEFINE a == [type |-> "ReconfigurationCompleted", gnb |-> c.cell, rnti |-> c.rnti]
    <3>1. c.cell \in Gnb BY <1>0, <2>2 DEF UeGood, Placed
    <3>2. a \in UpMessage /\ a.type = "ReconfigurationCompleted"
      BY <1>0, <3>1 DEF UpMessage, UeRecord
    <3>3. up' = To(up, u, a) /\ UNCHANGED <<ue, abort>>
      BY <1>4, <2>2 DEF RecvRrcConnectionReconfiguration, SendUp
    <3> HIDE DEF a
    <3> QED BY <3>2, <3>3 DEF UeOK, Says
  <2> QED BY <2>1, <2>2
<1>5. CASE RecvHandoverCommand(u, m.gnb, m.rnti)
  <2>1. CASE c.st # "CONNECTED_NORMALLY"
    BY <1>5, <2>1 DEF RecvHandoverCommand, UeAbort, UeOK, Says, ReachedAborts
  <2>2. CASE c.st = "CONNECTED_NORMALLY"
    <3> DEFINE d == [c EXCEPT !.st = "CONNECTED_HANDOVER", !.cell = m.gnb, !.rnti = m.rnti,
                              !.rar = 0]
    <3>1. Become(u, d) /\ up' = up BY <1>5, <2>2 DEF RecvHandoverCommand
    <3>2. d \in UeRecord /\ d.cell = m.gnb /\ d.rar = 0
      <4>1. 0 \in 0 .. MaxRnti BY RanAssumption
      <4> QED BY <1>0, <4>1 DEF UeRecord, UeState
    <3> HIDE DEF d
    <3>3. d \in UeGood BY <1>0, <3>2 DEF UeGood
    <3> QED BY <3>1, <3>3, Becoming
  <2> QED BY <2>1, <2>2
<1>6. CASE ue[u].st \in Connected /\ LeaveAndTell(u) BY <1>6, LeaveAndTellMoves
<1> QED BY <1>1, <1>2, <1>3, <1>4, <1>5, <1>6 DEF RecvDown, RecvRrcConnectionRelease

-----------------------------------------------------------------------------
\* One message is sent when none is in the air.
LEMMA OnlySent ==
  ASSUME NEW u \in Ue, NEW m
  PROVE  /\ To(NoMessage, u, m) = Only(u, m)
         /\ [Only(u, m) EXCEPT ![u] = Tail(@)] = NoMessage
         /\ Only(u, m)[u] # <<>> /\ Head(Only(u, m)[u]) = m
         /\ NoMessage[u] = <<>>
         /\ \A v \in Ue : Only(u, m)[v] # <<>> => v = u
<1>1. Append(<<>>, m) = <<m>> /\ Tail(<<m>>) = <<>> /\ <<m>> # <<>> /\ Head(<<m>>) = m OBVIOUS
<1> QED BY <1>1 DEF To, Only, NoMessage

\* No message is in the air when none is to be delivered.
LEMMA NothingInTheAir ==
  ASSUME AirInv, InstantOver
  PROVE  up = NoMessage /\ down = NoMessage
BY OnlySent DEF AirInv, InstantOver

\* Taking the only uplink message leaves none.
LEMMA TakeUp ==
  ASSUME AirInv, NEW u \in Ue, up[u] # <<>>
  PROVE  /\ Head(up[u]) \in UpMessage /\ UpExpected(u, Head(up[u]))
         /\ down = NoMessage /\ [up EXCEPT ![u] = Tail(@)] = NoMessage
BY OnlySent DEF AirInv

\* Taking the only downlink message leaves none.
LEMMA TakeDown ==
  ASSUME AirInv, NEW u \in Ue, down[u] # <<>>
  PROVE  /\ Head(down[u]) \in DownMessage /\ DownExpected(u, Head(down[u]))
         /\ up = NoMessage /\ [down EXCEPT ![u] = Tail(@)] = NoMessage
BY OnlySent DEF AirInv

\* The air after a handler of a gNB.
LEMMA AirAfterGnb ==
  ASSUME down = NoMessage, up' = NoMessage, Tells(down')
  PROVE  AirInv'
<1>1. CASE down' = down BY <1>1 DEF AirInv, NoMessage
<1>2. ASSUME NEW v \in Ue, NEW m \in DownMessage,
             m.type \notin {"ConnectionSetup", "ConnectionReject"}, down' = To(down, v, m)
      PROVE  AirInv'
  <2>1. down' = Only(v, m) BY <1>2, OnlySent
  <2>2. DownExpected(v, m)' BY <1>2 DEF DownExpected
  <2> QED BY <2>1, <2>2 DEF AirInv, NoMessage, Only
<1> QED BY <1>1, <1>2 DEF Tells

\* The air after a step of a UE.
LEMMA AirAfterUe ==
  ASSUME up = NoMessage, down' = NoMessage, NEW u \in Ue, Says(u, up')
  PROVE  AirInv'
<1>1. CASE up' = up BY <1>1 DEF AirInv, NoMessage
<1>2. ASSUME NEW m \in UpMessage, up' = To(up, u, m),
             m.type \in {"ConnectionRequest", "ReconfigurationCompleted",
                         "IdealUeContextRemove"},
             m.type = "ConnectionRequest" =>
                ue'[u].st = "IDLE_CONNECTING" /\ ue'[u].cell = m.gnb /\ ue'[u].rnti = m.rnti
      PROVE  AirInv'
  <2>1. up' = Only(u, m) BY <1>2, OnlySent
  <2>2. UpExpected(u, m)' BY <1>2 DEF UpExpected
  <2> QED BY <2>1, <2>2 DEF AirInv, NoMessage, Only
<1> QED BY <1>1, <1>2 DEF Says

-----------------------------------------------------------------------------
\* A connection request is delivered to the context its RNTI names, which the UE
\* still waits for.
LEMMA ConnectionRequestDelivered ==
  ASSUME GInv, abort = "none", NEW u \in Ue, NEW g \in Gnb, NEW r \in 0 .. MaxRnti,
         ue[u].st = "IDLE_CONNECTING", ue[u].cell = g, ue[u].rnti = r,
         down = NoMessage, up' = NoMessage, ue' = ue, NEW admit \in BOOLEAN,
         RecvRrcConnectionRequest(g, r, u, admit)
  PROVE  GInv' /\ AirInv' /\ AbortOK'
<1> DEFINE c == ctx[g][r]
           a(type) == [type |-> type, gnb |-> g, rnti |-> r]
<1>1. GInv' BY RecvRrcConnectionRequestKeeps
<1>2. ASSUME UNCHANGED down, abort' \in {"none"} \cup ReachedAborts
      PROVE  AirInv' /\ AbortOK'
  BY <1>2 DEF AirInv, NoMessage, AbortOK
<1>3. ASSUME UNCHANGED abort, NEW type \in {"ConnectionSetup", "ConnectionReject"},
             down' = To(down, u, a(type)),
             type = "ConnectionSetup" =>
                HasUeManager(g, r)' /\ ctx'[g][r].st = "CONNECTION_SETUP"
      PROVE  AirInv' /\ AbortOK'
  <2>1. a(type) \in DownMessage /\ a(type).type = type BY DEF DownMessage
  <2>2. DownExpected(u, a(type))' BY <1>3 DEF DownExpected
  <2>3. down' = Only(u, a(type)) BY <1>3, OnlySent
  <2>4. AirInv' BY <2>1, <2>2, <2>3 DEF AirInv, NoMessage, Only
  <2> QED BY <1>3, <2>4 DEF AbortOK
<1>4. CASE ~HasUeManager(g, r)
  <2>1. Abort("connection request without context") BY <1>4 DEF RecvRrcConnectionRequest
  <2> QED BY <1>1, <1>2, <2>1 DEF Abort, AbortInAnswer, ReachedAborts
<1>5. ASSUME HasUeManager(g, r), UNCHANGED abort,
             ctx' = [ctx EXCEPT ![g][r] = [c EXCEPT !.st = "CONNECTION_SETUP", !.imsi = u,
                  !.timers = (@ \ {"connectionRequest"}) \cup {"connectionSetup"}]],
             down' = To(down, u, a("ConnectionSetup"))
      PROVE  AirInv' /\ AbortOK'
  <2>1. r \in Rnti /\ ctx \in Contexts /\ c \in Context
    BY <1>5, IsContext DEF GInv, RanInv
  <2>2. ctx'[g][r].st = "CONNECTION_SETUP" BY <1>5, <2>1 DEF Contexts, Context
  <2>3. HasUeManager(g, r)' BY <2>1, <2>2 DEF HasUeManager
  <2> QED BY <1>3, <1>5, <2>2, <2>3
<1>6. ASSUME UNCHANGED abort, down' = To(down, u, a("ConnectionReject"))
      PROVE  AirInv' /\ AbortOK'
  BY <1>3, <1>6
<1> QED BY <1>1, <1>2, <1>4, <1>5, <1>6
        DEF RecvRrcConnectionRequest, SetContext, SendDown, Running

\* An uplink message is delivered.
LEMMA DeliverUpKeeps ==
  ASSUME Inv, abort = "none", NEW u \in Ue, DeliverUp(u)
  PROVE  Inv'
<1> DEFINE m == Head(up[u])
<1>1. /\ m \in UpMessage /\ UpExpected(u, m) /\ down = NoMessage /\ up' = NoMessage
  BY TakeUp DEF Inv, DeliverUp
<1>2. m.gnb \in Gnb BY <1>1 DEF UpMessage
<1>3. GInv /\ UeOK /\ SpentOK BY DEF Inv
<1>4. UeOK' BY <1>3 DEF DeliverUp, UeOK
<1>5. SpentOK'
  <2>1. Spend("fault") \/ UNCHANGED spent BY DEF DeliverUp
  <2>2. "fault" \in Trouble BY DEF Trouble, Handover
  <2> QED BY <1>3, <2>1, <2>2, Spending
<1>6. ASSUME GInv', Calm PROVE Inv'
  BY <1>1, <1>4, <1>5, <1>6, AirAfterGnb DEF Inv, Calm, AbortOK
<1>7. ASSUME m.type = "ConnectionRequest", NEW admit \in BOOLEAN,
             RecvRrcConnectionRequest(m.gnb, m.rnti, u, admit)
      PROVE  Inv'
  <2>1. PICK g \in Gnb, r \in 0 .. MaxRnti : g = m.gnb /\ r = m.rnti
    BY <1>1 DEF UpMessage
  <2>2. ue[u].st = "IDLE_CONNECTING" /\ ue[u].cell = g /\ ue[u].rnti = r
    BY <1>1, <1>7, <2>1 DEF UpExpected
  <2>3. RecvRrcConnectionRequest(g, r, u, admit) BY <1>7, <2>1
  <2>4. GInv' /\ AirInv' /\ AbortOK'
    BY <1>1, <1>3, <2>2, <2>3, ConnectionRequestDelivered DEF DeliverUp
  <2> QED BY <1>4, <1>5, <2>4 DEF Inv
<1>8. CASE m.type = "SetupCompleted" /\ RecvRrcConnectionSetupCompleted(m.gnb, m.rnti)
  <2>1. HasUeManager(m.gnb, m.rnti) /\ ctx[m.gnb][m.rnti].st = "CONNECTION_SETUP"
    BY <1>1, <1>8 DEF UpExpected
  <2>2. Calm BY <1>2, <1>8, <2>1, SetupCompletedCalm
  <2> QED BY <1>2, <1>3, <1>6, <1>8, <2>2, RecvRrcConnectionSetupCompletedKeeps
<1>9. CASE RecvRrcConnectionReconfigurationCompleted(m.gnb, m.rnti)
  BY <1>2, <1>3, <1>6, <1>9, RecvRrcConnectionReconfigurationCompletedKeeps,
     ReconfigurationCompletedCalm
<1>10. CASE RecvIdealUeContextRemoveRequest(m.gnb, m.rnti)
  BY <1>2, <1>3, <1>6, <1>10, RecvIdealUeContextRemoveRequestKeeps, ConnectionCalm
<1> QED BY <1>7, <1>8, <1>9, <1>10 DEF DeliverUp

\* A step that counts a disturbance or none.
LEMMA SpentAfter ==
  ASSUME SpentOK, \/ UNCHANGED spent \/ Spend("fault") \/ Spend("recovery")
                  \/ Spend("reconfig") \/ Spend("overlap") \/ Spend("handover") \/ Spend("return")
  PROVE  SpentOK'
BY Spending DEF Trouble, Handover

\* A downlink message is delivered.
LEMMA DeliverDownKeeps ==
  ASSUME Inv, abort = "none", NEW u \in Ue, DeliverDown(u)
  PROVE  Inv'
<1> DEFINE d == Head(down[u])
<1>1. /\ d \in DownMessage /\ DownExpected(u, d) /\ up = NoMessage /\ down' = NoMessage
  BY TakeDown DEF Inv, DeliverDown
<1>2. UNCHANGED <<gnbVars, x2, epcVars>> /\ (UNCHANGED spent \/ Spend("fault"))
  BY DEF DeliverDown, gnbSide
<1>3. GInv' BY <1>2, GInvStutter DEF Inv
<1>4. SpentOK' BY <1>2, SpentAfter DEF Inv
<1>5. ASSUME UeOK', AbortOK', Says(u, up') PROVE Inv'
  BY <1>1, <1>3, <1>4, <1>5, AirAfterUe DEF Inv
<1>6. CASE RecvDown(u, d)
  <2>1. UeOK' /\ AbortOK' BY <1>1, <1>6, RecvDownMoves DEF Inv, AbortOK
  <2>2. ASSUME NEW a \in UpMessage, a.type = "SetupCompleted", up' = To(up, u, a),
               HasUeManager(a.gnb, a.rnti), ctx[a.gnb][a.rnti].st = "CONNECTION_SETUP"
        PROVE  Inv'
    <3>1. up' = Only(u, a) BY <1>1, <2>2, OnlySent
    <3>2. ctx' = ctx BY <1>2 DEF gnbVars
    <3>3. UpExpected(u, a)' BY <2>2, <3>2 DEF UpExpected, HasUeManager
    <3>4. AirInv' BY <1>1, <3>1, <3>3 DEF AirInv, NoMessage, Only
    <3> QED BY <1>3, <1>4, <2>1, <3>4 DEF Inv
  <2> QED BY <1>1, <1>5, <1>6, <2>1, <2>2, RecvDownMoves DEF Inv
<1>7. CASE RefuseHandoverCommand(u, d)
  <2>1. UeMoves(u) BY <1>7, FaultMoves DEF Inv, RefuseHandoverCommand
  <2> QED BY <1>5, <2>1 DEF UeMoves, AbortOK
<1> QED BY <1>6, <1>7 DEF DeliverDown

\* A step of a gNB or of the core network between two instants.
LEMMA GnbStepKeeps ==
  ASSUME Inv, InstantOver, GInv', Calm, up' = up, UeOK', SpentOK'
  PROVE  Inv'
<1>1. up = NoMessage /\ down = NoMessage BY NothingInTheAir DEF Inv
<1> QED BY <1>1, AirAfterGnb DEF Inv, Calm, AbortOK

\* A step of a UE between two instants.
LEMMA UeStepKeeps ==
  ASSUME Inv, InstantOver, NEW u \in Ue, UeMoves(u), UNCHANGED <<gnbSide, down>>, SpentOK'
  PROVE  Inv'
<1>1. up = NoMessage /\ down = NoMessage BY NothingInTheAir DEF Inv
<1>2. GInv' BY GInvStutter DEF Inv, gnbSide
<1> QED BY <1>1, <1>2, AirAfterUe DEF Inv, UeMoves, AbortOK

\* A UE that waits for a random access response gets RNTI r.
LEMMA RarIsGood ==
  ASSUME UeOK, NEW u \in Ue, ue[u].st \in Accessing, NEW r \in Rnti,
         ue' = [ue EXCEPT ![u].rar = r]
  PROVE  UeOK'
<1> DEFINE d == [ue[u] EXCEPT !.rar = r]
<1>1. ue[u] \in UeGood /\ ue[u] \in UeRecord BY UeIsGood
<1>2. r \in 0 .. MaxRnti BY RntiRange
<1>3. d \in UeRecord /\ d.st = ue[u].st /\ d.cell = ue[u].cell BY <1>1, <1>2 DEF UeRecord
<1>4. ue' = [ue EXCEPT ![u] = d] OBVIOUS
<1> HIDE DEF d
<1>5. d \in UeGood BY <1>1, <1>3 DEF UeGood
<1> QED BY <1>4, <1>5 DEF UeOK

\* A preamble is sent, and a context made or found for it.
LEMMA RaPreambleKeeps ==
  ASSUME Inv, abort = "none", InstantOver, NEW u \in Ue, RaPreamble(u) \/ RecoverUplink(u)
  PROVE  Inv'
<1> DEFINE g == ue[u].cell
<1>1. ue[u].st \in Accessing BY DEF RaPreamble, RecoverUplink, InRandomAccess, Accessing
<1>2. g \in Gnb BY <1>1, UeIsGood DEF Inv, UeGood, Accessing, Placed
<1>3. GInv /\ UeOK /\ SpentOK BY DEF Inv
<1>4. up' = up BY DEF RaPreamble, RecoverUplink
<1>5. SpentOK' BY <1>3, SpentAfter DEF RaPreamble, RecoverUplink, AnswerRaPreamble
<1>6. PICK r : /\ ue' = [ue EXCEPT ![u].rar = r]
               /\ r \in Rnti \/ (AllocateTemporaryCellRnti(g) /\ r = NewRnti(g))
  BY DEF RaPreamble, RecoverUplink
<1>7. AllocateTemporaryCellRnti(g) => NewRnti(g) \in Rnti
  BY <1>2, <1>3, NewRntiIsFresh DEF AllocateTemporaryCellRnti, AddUe, NewRnti, GInv, RanInv
<1>8. UeOK' BY <1>1, <1>3, <1>6, <1>7, RarIsGood
<1>9. CASE AllocateTemporaryCellRnti(g)
  BY <1>2, <1>3, <1>4, <1>5, <1>8, <1>9, AllocateTemporaryCellRntiKeeps, ConnectionCalm,
     GnbStepKeeps
<1>10. CASE UNCHANGED <<gnbSide, down, abort>>
  <2>1. GInv' BY <1>3, <1>10, GInvStutter DEF gnbSide
  <2>2. Calm BY <1>10 DEF Calm, Tells
  <2> QED BY <1>4, <1>5, <1>8, <2>1, <2>2, GnbStepKeeps
<1> QED BY <1>9, <1>10 DEF RaPreamble, RecoverUplink, AnswerRaPreamble

\* A step of the core network.
LEMMA EpcStepKeeps ==
  ASSUME Inv, abort = "none", InstantOver, EpcStep
  PROVE  Inv'
<1>0. GInv /\ UeOK /\ SpentOK /\ EpcOK /\ RanInv(ctx, lastRnti, x2) /\ AppOK
  BY DEF Inv, GInv
<1>1. CASE Serve /\ UNCHANGED <<gnbVars, x2, airVars, abort, ue, spent>>
  <2>1. EpcOK' BY <1>0, <1>1, ServeKeeps
  <2>2. RanInv(ctx', lastRnti', x2') BY <1>0, <1>1 DEF gnbVars
  <2>3. AppOK' BY <1>0, <1>1 DEF gnbVars, appVars, AppOK
  <2>4. Calm /\ up' = up BY <1>1 DEF Calm, Tells, airVars
  <2>5. UeOK' /\ SpentOK' BY <1>0, <1>1 DEF UeOK, SpentOK
  <2> QED BY <2>1, <2>2, <2>3, <2>4, <2>5, GnbStepKeeps DEF GInv
<1>2. ASSUME NEW g \in Gnb, NEW req, req = Head(requests), Answer(req, g),
             \/ req.type = "Create" /\ InitialContextSetupRequest(g, req.ue, req.session)
             \/ req.type = "Modify" /\ PathSwitchRequestAcknowledge(g, req.ue),
             UNCHANGED <<up, ue, spent>>
      PROVE  Inv'
  <2>1. EpcOK' /\ req \in Request /\ (req.type = "Create" => req.session # 0)
    BY <1>0, <1>2, AnswerKeeps
  <2>2. req.ue \in Ue /\ (req.type = "Create" => req.session \in Session)
    <3>1. req.session \in 0 .. MaxSession /\ req.ue \in Ue BY <2>1 DEF Request
    <3> QED BY <2>1, <3>1, EpcAssumption DEF Session
  <2>3. RanInv(ctx', lastRnti', x2') /\ AppOK'
    BY <1>0, <1>2, <2>2, InitialContextSetupRequestKeeps, PathSwitchRequestAcknowledgeKeeps
  <2>4. Calm BY <1>2, <2>2, AnswerCalm
  <2>5. UeOK' /\ SpentOK' BY <1>0, <1>2 DEF UeOK, SpentOK
  <2> QED BY <1>2, <2>1, <2>3, <2>4, <2>5, GnbStepKeeps DEF GInv
<1> QED BY <1>1, <1>2 DEF EpcStep

\* Every step keeps the invariant.
LEMMA NextInv ==
  ASSUME Inv, [Next]_vars
  PROVE  Inv'
<1>0. GInv /\ UeOK /\ SpentOK BY DEF Inv
<1>1. CASE UNCHANGED vars
  <2>1. GInv' BY <1>0, <1>1, GInvStutter DEF vars
  <2>2. UeOK' /\ SpentOK' BY <1>0, <1>1 DEF UeOK, SpentOK, vars
  <2>3. AirInv'
    BY <1>1 DEF Inv, AirInv, vars, airVars, gnbVars, UpExpected, DownExpected, HasUeManager
  <2>4. AbortOK' BY <1>1 DEF Inv, AbortOK, vars
  <2> QED BY <2>1, <2>2, <2>3, <2>4 DEF Inv
<1>2. ASSUME abort = "none", NEW u \in Ue, DeliverUp(u) \/ DeliverDown(u) PROVE Inv'
  BY <1>2, DeliverUpKeeps, DeliverDownKeeps
<1>3. ASSUME abort = "none", InstantOver, NEW u \in Ue, RaPreamble(u) \/ RecoverUplink(u)
      PROVE  Inv'
  BY <1>3, RaPreambleKeeps
<1>4. ASSUME abort = "none", InstantOver, NEW u \in Ue, UeStep(u) \/ UeFault(u) PROVE Inv'
  <2>1. UNCHANGED <<gnbSide, down>> /\ (UNCHANGED spent \/ Spend("fault"))
    BY <1>4 DEF UeStep, UeFault
  <2>2. SpentOK' BY <1>0, <2>1, SpentAfter
  <2>3. UeMoves(u)
    <3>1. CASE \E g \in Gnb : \/ ForceCampedOnGnb(u, g)
                              \/ RecvSystemInformationBlockType1(u, g, TRUE)
                              \/ RecvSystemInformationBlockType1(u, g, FALSE)
      BY <1>0, <1>4, <3>1, SelectionMoves
    <3>2. CASE \/ StartCellSelection(u) \/ ReportUeMeasurements(u)
               \/ RecvMasterInformationBlock(u) \/ RecvSystemInformation(u)
      BY <1>0, <1>4, <3>2, SelectionMoves
    <3>3. CASE NotifyRandomAccessSuccessful(u)
      BY <1>0, <1>4, <3>3, NotifyRandomAccessSuccessfulMoves
    <3>4. CASE \/ NotifyRandomAccessFailed(u) \/ RaResponseTimeout(u)
               \/ RadioLinkFailureDetected(u) \/ ConnectionTimeout(u)
      BY <1>0, <1>4, <3>4, FaultMoves
    <3> QED BY <1>4, <3>1, <3>2, <3>3, <3>4 DEF UeStep, UeFault
  <2> QED BY <1>4, <2>1, <2>2, <2>3, UeStepKeeps
<1>5. ASSUME GInv', Calm, InstantOver, UNCHANGED <<up, ue>>, SpentOK' PROVE Inv'
  <2>1. UeOK' /\ up' = up BY <1>0, <1>5 DEF UeOK
  <2> QED BY <1>5, <2>1, GnbStepKeeps
<1>6. ASSUME abort = "none", InstantOver, X2Step PROVE Inv'
  <2>1. PICK g \in Gnb, h \in Gnb, answer \in {"admit", "reject", "noPreamble"} :
           RecvX2(g, h, answer) /\ (UNCHANGED spent \/ Spend("fault"))
    BY <1>6 DEF X2Step
  <2>2. GInv' BY <1>0, <2>1, RecvX2Keeps
  <2>3. Calm BY <1>6, <2>1, RecvX2Calm
  <2>4. SpentOK' BY <1>0, <2>1, SpentAfter
  <2> QED BY <1>5, <1>6, <2>2, <2>3, <2>4 DEF X2Step
<1>7. ASSUME abort = "none", InstantOver, EpcStep PROVE Inv' BY <1>7, EpcStepKeeps
<1>8. ASSUME abort = "none", InstantOver, NEW g \in Gnb, NEW r \in Rnti, GnbTimeout(g, r)
      PROVE  Inv'
  <2>1. PICK t \in Timer : Timeout(g, r, t) BY <1>8 DEF GnbTimeout
  <2>2. GInv' /\ Calm BY <1>0, <1>8, <2>1, TimeoutKeeps, TimeoutCalm
  <2>3. UNCHANGED <<up, ue, spent>> BY <1>8 DEF GnbTimeout
  <2>4. SpentOK' BY <1>0, <2>3, SpentAfter
  <2> QED BY <1>5, <1>8, <2>2, <2>3, <2>4
<1>9. ASSUME abort = "none", InstantOver, NEW g \in Gnb, NEW r \in Rnti, Reconfigure(g, r)
      PROVE  Inv'
  <2>1. ScheduleRrcConnectionReconfiguration(g, r) /\ UNCHANGED <<up, ue>>
        /\ Spend("reconfig")
    BY <1>9 DEF Reconfigure
  <2>2. GInv' /\ Calm
    BY <1>0, <1>9, <2>1, ScheduleRrcConnectionReconfigurationKeeps, ScheduleCalm
  <2>3. SpentOK' BY <1>0, <2>1, SpentAfter
  <2> QED BY <1>5, <1>9, <2>1, <2>2, <2>3
<1>10. ASSUME abort = "none", InstantOver, NEW g \in Gnb, NEW r \in Rnti, NEW h \in Gnb,
              DecideHandover(g, r, h)
       PROVE  Inv'
  <2>1. PrepareHandover(g, r, h) /\ UNCHANGED <<up, ue>> /\ (Spend("handover") \/ Spend("return"))
    BY <1>10 DEF DecideHandover
  <2>2. GInv' /\ Calm BY <1>0, <1>10, <2>1, PrepareHandoverKeeps, ConnectionCalm
  <2>3. SpentOK' BY <1>0, <2>1, SpentAfter
  <2> QED BY <1>5, <1>10, <2>1, <2>2, <2>3
<1> QED BY <1>1, <1>2, <1>3, <1>4, <1>6, <1>7, <1>8, <1>9, <1>10
        DEF Next, Progress, Disturbance

-----------------------------------------------------------------------------
\* Inv is an invariant of the specification (NrGnbRrc, NrUeRrc and the applications
\* of the core network together).
THEOREM InvHolds == Spec => []Inv
BY InitInv, NextInv, PTL DEF Spec

\* Every variable of the composed system keeps its type (TypeOK).
THEOREM TypeCorrect == Spec => []TypeOK
BY InvHolds, InvTypes, PTL

\* No timeout of a context is armed outside the state in which it may expire: the
\* fatal "timeout in state" errors of NrGnbRrc are unreachable (TimersMatchState).
THEOREM TimersMatch == Spec => []TimersMatchState
<1>1. Inv => TimersMatchState
  BY ContextIsGood DEF Inv, GInv, TimersMatchState, Good
<1> QED BY <1>1, InvHolds, PTL

\* The assertions listed in ExcludedAborts cannot fail, whatever the disturbances
\* (ExcludedAbort).
THEOREM ExcludedAbortsExcluded == Spec => []ExcludedAbort
<1>1. Inv => ExcludedAbort
  BY DEF Inv, AbortOK, ExcludedAbort, ExcludedAborts, ReachedAborts
<1> QED BY <1>1, InvHolds, PTL

-----------------------------------------------------------------------------
(* Who owns an RNTI                                                         *)

\* States of a context that came from another gNB, and those that serve a UE.
Joined == {"HANDOVER_JOINING", "HANDOVER_PATH_SWITCH"}
Serves == {"ATTACH_REQUEST", "CONNECTED_NORMALLY", "CONNECTION_RECONFIGURATION",
           "HANDOVER_PREPARATION", "HANDOVER_PATH_SWITCH"}

\* The UE each RNTI was given to; it does not matter for those not allocated yet.
Owners == [Gnb -> [Rnti -> Ue \cup {None}]]
Owns(own, last, g, r, u) == r \in 1 .. last[g] /\ own[g][r] = u

\* The context, if it exists, knows its UE.
Told(cx, g, r) == cx[g][r].st # "NONE" => cx[g][r].imsi # None

\* Contexts are of the owners of their RNTIs.
CtxOwned(own) ==
    \A g \in Gnb, r \in Rnti :
       ctx[g][r].st # "NONE" /\ ctx[g][r].imsi # None => own[g][r] = ctx[g][r].imsi

\* So is the source of a context that came by handover, which is of the same UE.
SourcesOwned(own) ==
    \A g \in Gnb, r \in Rnti :
       ctx[g][r].st \in Joined =>
          /\ Owns(own, lastRnti, ctx[g][r].source, ctx[g][r].sourceId, ctx[g][r].imsi)
          /\ Told(ctx, ctx[g][r].source, ctx[g][r].sourceId)

\* Handover requests and acknowledgements from h to g name RNTIs of one UE.
MsgOwned(own, cx, last, h, g, m) ==
    /\ m.type = "HandoverRequest" => Owns(own, last, h, m.old, m.imsi) /\ Told(cx, h, m.old)
    /\ m.type = "HandoverRequestAck" =>
          m.old \in 1 .. last[g] /\ Owns(own, last, h, m.new, own[g][m.old])
X2Owned(own) ==
    \A g, h \in Gnb : \A i \in 1 .. Len(x2[h][g]) :
       MsgOwned(own, ctx, lastRnti, h, g, x2[h][g][i])

\* The RNTIs that a UE has at its cell: the one it was given last, and the one of the
\* random access response under way.
Uses(c, g, r) ==
    /\ c.cell = g
    /\ c.rar = r \/ (c.st \in {"IDLE_CONNECTING"} \cup Connected /\ c.rnti = r)
UesOwned(own) ==
    \A u \in Ue, g \in Gnb, r \in Rnti : Uses(ue[u], g, r) => Owns(own, lastRnti, g, r, u)

\* RRC messages of a UE name its RNTIs; so do handover commands.
UpOwned(own) ==
    \A u \in Ue : up[u] # <<>> /\ Head(up[u]).rnti \in Rnti =>
       Owns(own, lastRnti, Head(up[u]).gnb, Head(up[u]).rnti, u)
DownOwned(own) ==
    \A u \in Ue : down[u] # <<>> /\ Head(down[u]).type = "HandoverCommand"
                  /\ Head(down[u]).rnti \in Rnti =>
       Owns(own, lastRnti, Head(down[u]).gnb, Head(down[u]).rnti, u)

Owned(own) ==
    /\ own \in Owners /\ CtxOwned(own) /\ SourcesOwned(own) /\ X2Owned(own)
    /\ UesOwned(own) /\ UpOwned(own) /\ DownOwned(own)

-----------------------------------------------------------------------------
\* The UE is connected, in context r of g.
IsAt(c, g, r) == c.st = "CONNECTED_NORMALLY" /\ c.cell = g /\ c.rnti = r

\* UE u is leaving context r of g: the gNB is being told.
Leaves(u, g, r) ==
    /\ up[u] # <<>> /\ Head(up[u]).type = "IdealUeContextRemove"
    /\ Head(up[u]).gnb = g /\ Head(up[u]).rnti = r

\* What a UE has completed it has completed in the context it names.
CompletedAt ==
    \A u \in Ue :
       up[u] # <<>> /\ Head(up[u]).type \in {"SetupCompleted", "ReconfigurationCompleted"} =>
          IsAt(ue[u], Head(up[u]).gnb, Head(up[u]).rnti)

\* A context that serves a UE is the one the UE is in, or is leaving.
ServedOnce ==
    \A g \in Gnb, r \in Rnti :
       ctx[g][r].st \in Serves =>
          \E u \in Ue : u = ctx[g][r].imsi /\ (IsAt(ue[u], g, r) \/ Leaves(u, g, r))

\* No context serves a UE to which a handover command is on its way.
CommandedUnserved ==
    \A u \in Ue : down[u] # <<>> /\ Head(down[u]).type = "HandoverCommand" =>
       \A g \in Gnb, r \in Rnti : ctx[g][r].st \in Serves => ctx[g][r].imsi # u

\* A connected UE keeps its RNTI, unless it recovers its uplink.
RntiKept == \A u \in Ue : ue[u].st = "CONNECTED_NORMALLY" => ue[u].rar = 0

Served == ServedOnce /\ CommandedUnserved /\ RntiKept

\* The inductive invariant.
OwnInv ==
    /\ Inv /\ CompletedAt
    /\ spent["overlap"] = 0 =>
          /\ \E own \in Owners : Owned(own)
          /\ spent["recovery"] = 0 => Served

-----------------------------------------------------------------------------
\* What a step of a gNB may make of context r of g: it is removed; it stays with its UE or
\* gets its owner; it serves a UE only if it did before or the UE is there; or it is
\* made for an RNTI that was never used.
Stays(own, g, r, d) ==
    \/ d.st = "NONE"
    \/ LET c == ctx[g][r] IN
       /\ c.st # "NONE"
       /\ d.imsi = c.imsi \/ (d.imsi \in Ue /\ d.imsi = own[g][r])
       /\ d.st \in Joined =>
             c.st \in Joined /\ d.imsi = c.imsi /\ d.source = c.source /\ d.sourceId = c.sourceId
       /\ d.st \in Serves =>
             \/ c.st \in Serves /\ d.imsi = c.imsi
             \/ d.imsi \in Ue /\ IsAt(ue[d.imsi], g, r)
Made(own, g, r, d) ==
    /\ r > lastRnti[g] /\ d.imsi \in {None, own[g][r]} /\ d.st \notin Serves
    /\ d.st \in Joined =>
          /\ d.source \in Gnb /\ d.imsi \in Ue
          /\ Owns(own, lastRnti, d.source, d.sourceId, d.imsi)
          /\ Told(ctx, d.source, d.sourceId)

CtxSteady(own) ==
    /\ \A g \in Gnb : lastRnti'[g] >= lastRnti[g]
    /\ \A g \in Gnb, r \in Rnti : Stays(own, g, r, ctx'[g][r]) \/ Made(own, g, r, ctx'[g][r])

\* A message on the channels was there before, or says what is true.
X2Steady(own) ==
    \A g, h \in Gnb : \A i \in 1 .. Len(x2'[h][g]) :
       \/ \E j \in 1 .. Len(x2[h][g]) : x2'[h][g][i] = x2[h][g][j]
       \/ MsgOwned(own, ctx', lastRnti', h, g, x2'[h][g][i])

\* So does a message to a UE; a handover command ends the service of a context.
DownSteady(own) ==
    \/ down' = down
    \/ \E v \in Ue, m \in DownMessage :
          /\ down' = To(down, v, m)
          /\ m.type = "HandoverCommand" =>
                /\ m.rnti \in Rnti => Owns(own, lastRnti', m.gnb, m.rnti, v)
                /\ \E g \in Gnb, r \in Rnti : /\ ctx[g][r].st \in Serves /\ ctx[g][r].imsi = v
                                              /\ ctx'[g][r].st \notin Serves

\* RNTIs that were given to a UE stay with it.
Grows(own, new) ==
    new \in Owners /\ \A g \in Gnb : \A r \in 1 .. lastRnti[g] : new[g][r] = own[g][r]

Steady(own) == CtxSteady(own) /\ X2Steady(own) /\ DownSteady(own)

-----------------------------------------------------------------------------
\* What the invariant of the gNBs says of the types.
LEMMA StateTypes ==
  ASSUME GInv
  PROVE  /\ ctx \in Contexts /\ lastRnti \in [Gnb -> 0 .. MaxRnti] /\ x2 \in Channels
         /\ \A g \in Gnb : lastRnti[g] \in Nat /\ 1 .. lastRnti[g] \subseteq Rnti
<1>1. ctx \in Contexts /\ lastRnti \in [Gnb -> 0 .. MaxRnti] /\ x2 \in Channels
  BY DEF GInv, RanInv
<1> QED BY <1>1, RanAssumption DEF Rnti

\* An RNTI stays with its owner, and its context goes on to know its UE.
LEMMA OwnsOn ==
  ASSUME GInv, GInv', NEW own \in Owners, NEW new, Grows(own, new), CtxSteady(new),
         NEW g \in Gnb, NEW r, NEW u, Owns(own, lastRnti, g, r, u)
  PROVE  /\ Owns(new, lastRnti', g, r, u)
         /\ Told(ctx, g, r) => Told(ctx', g, r)
<1>1. r \in 1 .. lastRnti[g] /\ r \in Rnti /\ lastRnti[g] \in Nat /\ new[g][r] = u
  BY StateTypes DEF Owns, Grows
<1>2. lastRnti'[g] \in Nat /\ lastRnti'[g] >= lastRnti[g]
  BY RanAssumption DEF GInv, RanInv, CtxSteady
<1>3. Owns(new, lastRnti', g, r, u) BY <1>1, <1>2 DEF Owns
<1>4. Stays(new, g, r, ctx'[g][r])
  <2>1. ~(r > lastRnti[g]) BY <1>1
  <2> QED BY <1>1, <2>1 DEF CtxSteady, Made
<1>5. Told(ctx, g, r) => Told(ctx', g, r) BY <1>4, NodesAssumption DEF Told, Stays
<1> QED BY <1>3, <1>5

\* What is said of contexts and their sources stays true.
LEMMA ContextsStayOwned ==
  ASSUME GInv, GInv', NEW own \in Owners, NEW new, Grows(own, new), CtxSteady(new),
         CtxOwned(own), SourcesOwned(own)
  PROVE  CtxOwned(new)' /\ SourcesOwned(new)'
<1>1. ASSUME NEW g \in Gnb, NEW r \in Rnti, ctx'[g][r].st # "NONE", ctx'[g][r].imsi # None
      PROVE  new[g][r] = ctx'[g][r].imsi
  <2>1. CASE Made(new, g, r, ctx'[g][r]) BY <1>1, <2>1 DEF Made
  <2>2. CASE Stays(new, g, r, ctx'[g][r])
    <3>1. ctx[g][r].st # "NONE" BY <1>1, <2>2 DEF Stays
    <3>2. r \in 1 .. lastRnti[g]
      BY <3>1, StateTypes DEF GInv, RanInv, CtxInv, Rnti
    <3>3. new[g][r] = own[g][r] BY <3>2 DEF Grows
    <3> QED BY <1>1, <2>2, <3>1, <3>3 DEF Stays, CtxOwned
  <2> QED BY <2>1, <2>2 DEF CtxSteady
<1>2. ASSUME NEW g \in Gnb, NEW r \in Rnti, ctx'[g][r].st \in Joined
      PROVE  /\ Owns(new, lastRnti', ctx'[g][r].source, ctx'[g][r].sourceId, ctx'[g][r].imsi)
             /\ Told(ctx', ctx'[g][r].source, ctx'[g][r].sourceId)
  <2> DEFINE c == ctx[g][r]
             d == ctx'[g][r]
  <2>1. CASE Made(new, g, r, d)
    <3>1. d.source \in Gnb /\ Owns(new, lastRnti, d.source, d.sourceId, d.imsi)
          /\ Told(ctx, d.source, d.sourceId)
      BY <1>2, <2>1 DEF Made
    <3>2. Owns(own, lastRnti, d.source, d.sourceId, d.imsi) BY <3>1 DEF Owns, Grows
    <3> QED BY <3>1, <3>2, OwnsOn
  <2>2. CASE Stays(new, g, r, d)
    <3>1. d.st # "NONE" BY <1>2 DEF Joined
    <3>2. c.st \in Joined /\ d.imsi = c.imsi /\ d.source = c.source /\ d.sourceId = c.sourceId
      BY <1>2, <2>2, <3>1 DEF Stays
    <3>3. c.source \in Gnb
      <4>1. c \in Good(g) BY ContextIsGood DEF GInv
      <4> QED BY <3>2, <4>1 DEF Good, Joined
    <3>4. Owns(own, lastRnti, c.source, c.sourceId, c.imsi) /\ Told(ctx, c.source, c.sourceId)
      BY <3>2 DEF SourcesOwned
    <3>5. /\ Owns(new, lastRnti', c.source, c.sourceId, c.imsi)
          /\ Told(ctx', c.source, c.sourceId)
      BY <3>3, <3>4, OwnsOn
    <3> QED BY <3>2, <3>5
  <2> QED BY <2>1, <2>2 DEF CtxSteady
<1> QED BY <1>1, <1>2 DEF CtxOwned, SourcesOwned

\* What X2 messages say stays true.
LEMMA MessagesStayOwned ==
  ASSUME GInv, GInv', NEW own \in Owners, NEW new, Grows(own, new), CtxSteady(new),
         X2Steady(new), X2Owned(own)
  PROVE  X2Owned(new)'
<1>1. ASSUME NEW g \in Gnb, NEW h \in Gnb, NEW m, MsgOwned(own, ctx, lastRnti, h, g, m)
      PROVE  MsgOwned(new, ctx', lastRnti', h, g, m)
  <2>1. ASSUME m.type = "HandoverRequest"
        PROVE  Owns(new, lastRnti', h, m.old, m.imsi) /\ Told(ctx', h, m.old)
    BY <1>1, <2>1, OwnsOn DEF MsgOwned
  <2>2. ASSUME m.type = "HandoverRequestAck"
        PROVE  m.old \in 1 .. lastRnti'[g] /\ Owns(new, lastRnti', h, m.new, new[g][m.old])
    <3>1. m.old \in 1 .. lastRnti[g] /\ Owns(own, lastRnti, h, m.new, own[g][m.old])
      BY <1>1, <2>2 DEF MsgOwned
    <3>2. Owns(new, lastRnti', h, m.new, own[g][m.old]) BY <3>1, OwnsOn
    <3>3. Owns(own, lastRnti, g, m.old, own[g][m.old]) BY <3>1 DEF Owns
    <3>4. Owns(new, lastRnti', g, m.old, own[g][m.old]) BY <3>3, OwnsOn
    <3> QED BY <3>2, <3>4 DEF Owns
  <2> QED BY <2>1, <2>2 DEF MsgOwned
<1>2. ASSUME NEW g \in Gnb, NEW h \in Gnb, NEW i \in 1 .. Len(x2'[h][g])
      PROVE  MsgOwned(new, ctx', lastRnti', h, g, x2'[h][g][i])
  <2>1. CASE MsgOwned(new, ctx', lastRnti', h, g, x2'[h][g][i]) BY <2>1
  <2>2. ASSUME NEW j \in 1 .. Len(x2[h][g]), x2'[h][g][i] = x2[h][g][j]
        PROVE  MsgOwned(new, ctx', lastRnti', h, g, x2'[h][g][i])
    <3>1. MsgOwned(own, ctx, lastRnti, h, g, x2[h][g][j]) BY DEF X2Owned
    <3>2. MsgOwned(new, ctx', lastRnti', h, g, x2[h][g][j]) BY <1>1, <3>1
    <3> QED BY <2>2, <3>2
  <2> QED BY <2>1, <2>2 DEF X2Steady
<1> QED BY <1>2 DEF X2Owned

\* RNTIs that UEs use stay theirs.
LEMMA UesStayOwned ==
  ASSUME GInv, GInv', NEW own \in Owners, NEW new, Grows(own, new), CtxSteady(new),
         UesOwned(own), NEW u \in Ue, NEW g \in Gnb, NEW r \in Rnti, Uses(ue[u], g, r)
  PROVE  Owns(new, lastRnti', g, r, u)
BY OwnsOn DEF UesOwned

-----------------------------------------------------------------------------
\* A message on the channels y was on x2, or is m from a to b.
Adds(y, a, b, m) ==
    \A g, h \in Gnb : \A i \in 1 .. Len(y[h][g]) :
       \/ \E j \in 1 .. Len(x2[h][g]) : y[h][g][i] = x2[h][g][j]
       \/ h = a /\ g = b /\ y[h][g][i] = m
AddsNothing(y) ==
    \A g, h \in Gnb : \A i \in 1 .. Len(y[h][g]) :
       \E j \in 1 .. Len(x2[h][g]) : y[h][g][i] = x2[h][g][j]

\* A message is taken.
LEMMA TakenAdds ==
  ASSUME x2 \in Channels, NEW a \in Gnb, NEW b \in Gnb, x2[a][b] # <<>>
  PROVE  AddsNothing(Taken(a, b)) /\ Taken(a, b) \in Channels
<1> DEFINE y == [x2 EXCEPT ![a][b] = Tail(@)]
<1>1. /\ y[a][b] = Tail(x2[a][b]) /\ x2[a][b] \in Seq(X2Message) /\ y \in Channels
      /\ \A g, h \in Gnb : <<h, g>> # <<a, b>> => y[h][g] = x2[h][g]
  BY DEF Channels
<1>2. y = Taken(a, b) BY DEF Taken
<1> HIDE DEF y
<1>3. \A i \in 1 .. Len(y[a][b]) : i + 1 \in 1 .. Len(x2[a][b]) /\ y[a][b][i] = x2[a][b][i + 1]
  <2>1. x2[a][b] \in Seq(X2Message) /\ x2[a][b] # <<>> BY <1>1
  <2>2. /\ Len(Tail(x2[a][b])) = Len(x2[a][b]) - 1 /\ Len(x2[a][b]) \in Nat
        /\ \A i \in 1 .. Len(x2[a][b]) - 1 : Tail(x2[a][b])[i] = x2[a][b][i + 1]
    BY <2>1
  <2> QED BY <1>1, <2>2
<1>4. ASSUME NEW g \in Gnb, NEW h \in Gnb, NEW i \in 1 .. Len(y[h][g])
      PROVE  \E j \in 1 .. Len(x2[h][g]) : y[h][g][i] = x2[h][g][j]
  <2>1. CASE <<h, g>> = <<a, b>> BY <1>3, <2>1
  <2>2. CASE <<h, g>> # <<a, b>>
    <3>1. y[h][g] = x2[h][g] BY <1>1, <2>2
    <3> QED BY <3>1
  <2> QED BY <2>1, <2>2
<1> QED BY <1>1, <1>2, <1>4 DEF AddsNothing

\* A message is appended to a queue.
LEMMA AppendAdds ==
  ASSUME NEW x \in Channels, AddsNothing(x), NEW a \in Gnb, NEW b, NEW m
  PROVE  Adds([x EXCEPT ![a][b] = Append(@, m)], a, b, m)
<1> DEFINE y == [x EXCEPT ![a][b] = Append(@, m)]
<1>1. CASE b \notin Gnb
  <2>1. \A g, h \in Gnb : y[h][g] = x[h][g] BY <1>1 DEF Channels
  <2> HIDE DEF y
  <2>2. Adds(y, a, b, m) BY <2>1, SMTT(30) DEF AddsNothing, Adds
  <2> QED BY <2>2 DEF y
<1>2. CASE b \in Gnb
  <2>1. /\ y[a][b] = Append(x[a][b], m) /\ x[a][b] \in Seq(X2Message)
        /\ \A g, h \in Gnb : <<h, g>> # <<a, b>> => y[h][g] = x[h][g]
    BY <1>2 DEF Channels
  <2>2. /\ Len(x[a][b]) \in Nat /\ Len(y[a][b]) = Len(x[a][b]) + 1
        /\ y[a][b][Len(x[a][b]) + 1] = m
        /\ \A i \in 1 .. Len(x[a][b]) : y[a][b][i] = x[a][b][i]
    BY <2>1
  <2> HIDE DEF y
  <2>3. ASSUME NEW g \in Gnb, NEW h \in Gnb, NEW i \in 1 .. Len(y[h][g])
        PROVE  \/ \E j \in 1 .. Len(x2[h][g]) : y[h][g][i] = x2[h][g][j]
               \/ h = a /\ g = b /\ y[h][g][i] = m
    <3>1. CASE <<h, g>> = <<a, b>>
      <4>1. i = Len(x[a][b]) + 1 \/ i \in 1 .. Len(x[a][b]) BY <2>2, <3>1
      <4>2. CASE i = Len(x[a][b]) + 1 BY <2>2, <3>1, <4>2
      <4>3. CASE i \in 1 .. Len(x[a][b])
        <5>1. y[h][g][i] = x[a][b][i] BY <2>2, <3>1, <4>3
        <5> QED BY <1>2, <3>1, <4>3, <5>1 DEF AddsNothing
      <4> QED BY <4>1, <4>2, <4>3
    <3>2. CASE <<h, g>> # <<a, b>>
      <4>1. y[h][g] = x[h][g] BY <2>1, <3>2
      <4> QED BY <4>1 DEF AddsNothing
    <3> QED BY <3>1, <3>2
  <2>4. Adds(y, a, b, m) BY <2>3 DEF Adds
  <2> QED BY <2>4 DEF y
<1> QED BY <1>1, <1>2

\* The channels after a message is sent.
LEMMA SentAdds ==
  ASSUME x2 \in Channels, NEW a \in Gnb, NEW b, NEW m
  PROVE  Adds(Sent(a, b, m), a, b, m)
<1>1. AddsNothing(x2) BY DEF AddsNothing
<1> QED BY <1>1, AppendAdds DEF Sent

\* The channels after a message is taken and answered.
LEMMA AnsweredAdds ==
  ASSUME x2 \in Channels, NEW g \in Gnb, NEW h \in Gnb, g # h, x2[h][g] # <<>>, NEW m
  PROVE  Adds(Answered(h, g, m), g, h, m)
<1>1. PICK x : x = Taken(h, g) OBVIOUS
<1>2. AddsNothing(x) /\ x \in Channels BY <1>1, TakenAdds
<1>3. Answered(h, g, m) = [x EXCEPT ![g][h] = Append(@, m)]
  BY <1>1, TakenAndAnswered DEF Answered, Taken
<1>4. Adds([x EXCEPT ![g][h] = Append(@, m)], g, h, m) BY <1>2, AppendAdds
<1> QED BY <1>3, <1>4

\* What is said after a message of another kind, or one that says what is true.
LEMMA AddedSteady ==
  ASSUME NEW own, NEW a \in Gnb, NEW b, NEW m, Adds(x2', a, b, m),
         b \in Gnb => MsgOwned(own, ctx', lastRnti', a, b, m)
  PROVE  X2Steady(own)
BY DEF Adds, X2Steady

\* What is said when no message is sent.
LEMMA NothingAddedSteady ==
  ASSUME NEW own, AddsNothing(x2') \/ x2' = x2
  PROVE  X2Steady(own)
BY DEF AddsNothing, X2Steady

\* A message that is neither a handover request nor an acknowledgement says nothing of
\* owners.
LEMMA OtherMessage ==
  ASSUME NEW type \in {"HandoverPreparationFailure", "SnStatusTransfer", "UeContextRelease",
                       "HandoverCancel"},
         NEW old, NEW new, NEW imsi, NEW session, NEW own, NEW a, NEW b, NEW cx, NEW last
  PROVE  MsgOwned(own, cx, last, a, b, Message(type, old, new, imsi, session))
<1>1. Message(type, old, new, imsi, session).type = type BY DEF Message
<1> QED BY <1>1 DEF MsgOwned

-----------------------------------------------------------------------------
\* A step that changes one context at most.
LEMMA OneContextSteady ==
  ASSUME GInv, NEW own, NEW g \in Gnb, NEW r \in Rnti, NEW d, ctx' = [ctx EXCEPT ![g][r] = d],
         Stays(own, g, r, d) \/ Made(own, g, r, d), \A h \in Gnb : lastRnti'[h] >= lastRnti[h]
  PROVE  CtxSteady(own)
<1>1. ctx \in Contexts BY StateTypes
<1>2. ASSUME NEW h \in Gnb, NEW s \in Rnti
      PROVE  Stays(own, h, s, ctx'[h][s]) \/ Made(own, h, s, ctx'[h][s])
  <2>1. CASE h = g /\ s = r
    <3>1. ctx'[g][r] = d BY <1>1 DEF Contexts
    <3> QED BY <2>1, <3>1
  <2>2. CASE ~(h = g /\ s = r)
    <3>1. ctx'[h][s] = ctx[h][s] BY <1>1, <2>2 DEF Contexts
    <3> QED BY <3>1 DEF Stays
  <2> QED BY <2>1, <2>2
<1> QED BY <1>2 DEF CtxSteady

\* A step that replaces the context of an RNTI by one that stays.
LEMMA SetSteady ==
  ASSUME GInv, NEW own, NEW g \in Gnb, NEW r \in Rnti, NEW d, ctx' = [ctx EXCEPT ![g][r] = d],
         Stays(own, g, r, d), lastRnti' = lastRnti
  PROVE  CtxSteady(own)
<1>1. \A h \in Gnb : lastRnti'[h] >= lastRnti[h] BY StateTypes
<1> QED BY <1>1, OneContextSteady

\* A step that leaves the contexts alone.
LEMMA ContextsSteady ==
  ASSUME GInv, NEW own, ctx' = ctx, \A h \in Gnb : lastRnti'[h] >= lastRnti[h]
  PROVE  CtxSteady(own)
BY DEF CtxSteady, Stays

\* A step that the gNBs do not take part in.
LEMMA SteadyStutter ==
  ASSUME GInv, NEW own, UNCHANGED <<gnbVars, x2, down>>
  PROVE  Steady(own)
<1>1. \A h \in Gnb : lastRnti'[h] >= lastRnti[h] BY StateTypes DEF gnbVars
<1> QED BY <1>1, ContextsSteady, NothingAddedSteady DEF Steady, DownSteady, gnbVars

\* A context is removed.
LEMMA RemovedSteady ==
  ASSUME GInv, NEW own, NEW g \in Gnb, NEW r \in Rnti, RemoveUe(g, r)
  PROVE  CtxSteady(own)
<1>1. Stays(own, g, r, NoContext) BY NoContextIsGood DEF Stays
<1> QED BY <1>1, SetSteady DEF RemoveUe

\* A context that stays with its UE.
LEMMA SameUeStays ==
  ASSUME NEW own, NEW g \in Gnb, NEW r \in Rnti, NEW d, ctx[g][r].st # "NONE",
         d.imsi = ctx[g][r].imsi, d.source = ctx[g][r].source,
         d.sourceId = ctx[g][r].sourceId, d.st \in Joined => ctx[g][r].st \in Joined,
         d.st \in Serves => ctx[g][r].st \in Serves
  PROVE  Stays(own, g, r, d)
BY DEF Stays

\* A context in CONNECTED_NORMALLY again.
LEMMA NormalStays ==
  ASSUME NEW own, NEW g \in Gnb, NEW r \in Rnti, ctx[g][r].st \in Serves, NEW e \in Context,
         e.imsi = ctx[g][r].imsi
  PROVE  Stays(own, g, r, Normal(e))
<1>1. /\ Normal(e).st \in {"CONNECTED_NORMALLY", "CONNECTION_RECONFIGURATION"}
      /\ Normal(e).imsi = ctx[g][r].imsi
  BY NormalFields
<1> QED BY <1>1 DEF Stays, Serves, Joined

\* A message to a UE other than a handover command.
LEMMA OtherDown ==
  ASSUME NEW own, NEW v \in Ue, NEW g \in Gnb, NEW r \in Rnti,
         NEW type \in {"ConnectionSetup", "ConnectionReject", "Reconfiguration",
                       "ConnectionRelease"},
         SendDown(v, type, g, r)
  PROVE  DownSteady(own)
<1> DEFINE m == [type |-> type, gnb |-> g, rnti |-> r]
<1>1. m \in DownMessage /\ m.type # "HandoverCommand" BY RntiRange DEF DownMessage
<1>2. down' = To(down, v, m) BY DEF SendDown
<1> QED BY <1>1, <1>2 DEF DownSteady


\* What does not go on a channel to a UE.
LEMMA NoDown ==
  ASSUME NEW own, UNCHANGED down
  PROVE  DownSteady(own)
BY DEF DownSteady

\* A context that serves a UE goes on in CONNECTED_NORMALLY.
LEMMA SwitchSteady ==
  ASSUME GInv, NEW own, NEW g \in Gnb, NEW r \in Rnti, ctx[g][r].st \in Serves,
         NEW e \in Context, e.imsi = ctx[g][r].imsi, SwitchToNormal(g, r, e)
  PROVE  CtxSteady(own) /\ DownSteady(own)
<1>1. ctx' = [ctx EXCEPT ![g][r] = Normal(e)] /\ lastRnti' = lastRnti
  BY DEF SwitchToNormal, SetContext
<1>2. CtxSteady(own) BY <1>1, NormalStays, SetSteady
<1>3. e.imsi \in Ue
  <2>1. ctx[g][r] \in Good(g) BY ContextIsGood DEF GInv
  <2> QED BY <2>1 DEF Good, Named, Serves
<1>4. DownSteady(own)
  <2>1. CASE UNCHANGED down BY <2>1, NoDown
  <2>2. CASE SendDown(e.imsi, "Reconfiguration", g, r) BY <1>3, <2>2, OtherDown
  <2> QED BY <2>1, <2>2 DEF SwitchToNormal
<1> QED BY <1>2, <1>4

-----------------------------------------------------------------------------
\* What the owners of the RNTIs say of a context.
LEMMA OwnerOf ==
  ASSUME GInv, NEW own, Owned(own), NEW g \in Gnb, NEW r \in Rnti, ctx[g][r].st \in Named
  PROVE  /\ ctx[g][r].imsi \in Ue /\ own[g][r] = ctx[g][r].imsi
         /\ Owns(own, lastRnti, g, r, ctx[g][r].imsi) /\ Told(ctx, g, r)
<1>1. ctx[g][r] \in Good(g) /\ (ctx[g][r].st # "NONE" => r <= lastRnti[g])
  BY DEF GInv, RanInv, CtxInv
<1>2. ctx[g][r].imsi \in Ue BY <1>1 DEF Good
<1>3. ctx[g][r].st # "NONE" /\ ctx[g][r].imsi # None BY <1>2, NodesAssumption DEF Named
<1>4. r \in 1 .. lastRnti[g] BY <1>1, <1>3, StateTypes DEF Rnti
<1> QED BY <1>2, <1>3, <1>4 DEF Owned, CtxOwned, Owns, Told

\* What is said by the first message on a channel.
LEMMA HeadOwned ==
  ASSUME GInv, NEW own, Owned(own), NEW g \in Gnb, NEW h \in Gnb, x2[h][g] # <<>>
  PROVE  MsgOwned(own, ctx, lastRnti, h, g, Head(x2[h][g]))
<1>1. x2[h][g] \in Seq(X2Message) BY StateTypes DEF Channels
<1>2. Head(x2[h][g]) = x2[h][g][1] /\ 1 \in 1 .. Len(x2[h][g]) BY <1>1
<1> QED BY <1>2 DEF Owned, X2Owned

\* A context is made for an RNTI that was never used: its owner is chosen.
LEMMA NewOwner ==
  ASSUME GInv, NEW own \in Owners, NEW g \in Gnb, NEW u \in Ue, lastRnti[g] < MaxRnti
  PROVE  LET n == NewRnti(g)
             new == [own EXCEPT ![g][n] = u]
         IN  /\ n \in Rnti /\ n > lastRnti[g] /\ n \in Nat
             /\ Grows(own, new) /\ new[g][n] = u
             /\ \A h \in Gnb : \A r \in 1 .. lastRnti[h] : new[h][r] = own[h][r]
<1> DEFINE n == NewRnti(g)
           new == [own EXCEPT ![g][n] = u]
<1>1. lastRnti[g] \in Nat /\ n = lastRnti[g] + 1 /\ n \in Rnti
  BY StateTypes, RanAssumption DEF NewRnti, Rnti
<1>2. new \in Owners /\ new[g][n] = u BY <1>1 DEF Owners
<1>3. ASSUME NEW h \in Gnb, NEW r \in 1 .. lastRnti[h]
      PROVE  new[h][r] = own[h][r]
  <2>1. r \in Rnti /\ (h = g => r # n) BY <1>1, StateTypes
  <2> QED BY <1>1, <2>1 DEF Owners
<1> QED BY <1>1, <1>2, <1>3 DEF Grows

\* A context of that RNTI is made.
LEMMA AddSteady ==
  ASSUME GInv, NEW own, NEW g \in Gnb, NEW d, AddUe(g, d), NewRnti(g) \in Rnti,
         Made(own, g, NewRnti(g), d)
  PROVE  CtxSteady(own)
<1>1. ctx' = [ctx EXCEPT ![g][NewRnti(g)] = d] BY DEF AddUe
<1>2. \A h \in Gnb : lastRnti'[h] >= lastRnti[h]
  BY StateTypes DEF AddUe, NewRnti
<1> QED BY <1>1, <1>2, OneContextSteady

-----------------------------------------------------------------------------
\* A contention preamble of u: it owns the RNTI of the new context.
LEMMA AllocateSteady ==
  ASSUME GInv, NEW own \in Owners, NEW g \in Gnb, NEW u \in Ue, AllocateTemporaryCellRnti(g)
  PROVE  LET new == [own EXCEPT ![g][NewRnti(g)] = u]
         IN  Grows(own, new) /\ Steady(new) /\ Owns(new, lastRnti', g, NewRnti(g), u)
<1> DEFINE n == NewRnti(g)
           new == [own EXCEPT ![g][n] = u]
           d == NewContext("INITIAL_RANDOM_ACCESS", {"connectionRequest"})
<1>1. lastRnti[g] < MaxRnti /\ AddUe(g, d) /\ lastRnti' = [lastRnti EXCEPT ![g] = n]
  BY DEF AllocateTemporaryCellRnti, AddUe
<1>2. n \in Rnti /\ n > lastRnti[g] /\ n \in Nat /\ Grows(own, new) /\ new[g][n] = u
  BY <1>1, NewOwner
<1>3. d.st = "INITIAL_RANDOM_ACCESS" /\ d.imsi = None BY DEF NewContext
<1> HIDE DEF d, new
<1>4. Made(new, g, n, d) BY <1>2, <1>3 DEF Made, Serves, Joined
<1>5. CtxSteady(new) BY <1>1, <1>2, <1>4, AddSteady
<1>6. x2' = x2 /\ down' = down BY DEF AllocateTemporaryCellRnti
<1>7. Steady(new) BY <1>5, <1>6, NothingAddedSteady, NoDown DEF Steady
<1>8. lastRnti'[g] = n BY <1>1, StateTypes
<1> QED BY <1>2, <1>7, <1>8 DEF Owns, Rnti, new

\* A connection request of the UE that owns the RNTI.
LEMMA ConnectionRequestSteady ==
  ASSUME GInv, NEW own, Owned(own), NEW g \in Gnb, NEW r, NEW u \in Ue, NEW admit \in BOOLEAN,
         r \in Rnti => Owns(own, lastRnti, g, r, u), RecvRrcConnectionRequest(g, r, u, admit)
  PROVE  Steady(own)
<1> DEFINE c == ctx[g][r]
<1>1. CASE UNCHANGED <<gnbVars, x2, down>> BY <1>1, SteadyStutter
<1>2. ASSUME HasUeManager(g, r), x2' = x2, lastRnti' = lastRnti, NEW d,
             ctx' = [ctx EXCEPT ![g][r] = d], d.imsi = u \/ d.imsi = c.imsi,
             d.st \in {"CONNECTION_SETUP", "CONNECTION_REJECTED", "INITIAL_RANDOM_ACCESS"},
             DownSteady(own)
      PROVE  Steady(own)
  <2>1. r \in Rnti /\ c.st # "NONE" BY <1>2 DEF HasUeManager
  <2>2. Stays(own, g, r, d) BY <1>2, <2>1 DEF Stays, Owns, Joined, Serves
  <2> QED BY <1>2, <2>1, <2>2, SetSteady, NothingAddedSteady DEF Steady
<1>3. ASSUME HasUeManager(g, r), UNCHANGED x2, c.st = "INITIAL_RANDOM_ACCESS",
             SetContext(g, r, [c EXCEPT !.st = "CONNECTION_SETUP", !.imsi = u,
                    !.timers = (@ \ {"connectionRequest"}) \cup {"connectionSetup"}]),
             SendDown(u, "ConnectionSetup", g, r)
      PROVE  Steady(own)
  <2>1. r \in Rnti /\ c \in Context BY <1>3, IsContext
  <2>2. PICK d : d = [c EXCEPT !.st = "CONNECTION_SETUP", !.imsi = u,
                    !.timers = (@ \ {"connectionRequest"}) \cup {"connectionSetup"}] OBVIOUS
  <2>3. d.st = "CONNECTION_SETUP" /\ d.imsi = u BY <2>1, <2>2 DEF Context
  <2>4. DownSteady(own) BY <1>3, <2>1, OtherDown
  <2> QED BY <1>2, <1>3, <2>2, <2>3, <2>4 DEF SetContext
<1>4. ASSUME HasUeManager(g, r), UNCHANGED x2, c.st = "INITIAL_RANDOM_ACCESS",
             SetContext(g, r, [c EXCEPT !.st = "CONNECTION_REJECTED",
                    !.timers = (@ \ {"connectionRequest"}) \cup {"connectionRejected"}]),
             SendDown(u, "ConnectionReject", g, r)
      PROVE  Steady(own)
  <2>1. r \in Rnti /\ c \in Context BY <1>4, IsContext
  <2>2. PICK d : d = [c EXCEPT !.st = "CONNECTION_REJECTED",
                    !.timers = (@ \ {"connectionRequest"}) \cup {"connectionRejected"}] OBVIOUS
  <2>3. d.st = "CONNECTION_REJECTED" /\ d.imsi = c.imsi BY <2>1, <2>2 DEF Context
  <2>4. DownSteady(own) BY <1>4, <2>1, OtherDown
  <2> QED BY <1>2, <1>4, <2>2, <2>3, <2>4 DEF SetContext
<1>5. ASSUME HasUeManager(g, r), UNCHANGED <<x2, down>>,
             SetContext(g, r, [c EXCEPT !.st = "INITIAL_RANDOM_ACCESS",
                                           !.timers = @ \ {"handoverLeaving"}])
      PROVE  Steady(own)
  <2>1. r \in Rnti /\ c \in Context BY <1>5, IsContext
  <2>2. PICK d : d = [c EXCEPT !.st = "INITIAL_RANDOM_ACCESS",
                                           !.timers = @ \ {"handoverLeaving"}] OBVIOUS
  <2>3. d.st = "INITIAL_RANDOM_ACCESS" /\ d.imsi = c.imsi BY <2>1, <2>2 DEF Context
  <2> QED BY <1>2, <1>5, <2>2, <2>3, NoDown DEF SetContext
<1> QED BY <1>1, <1>3, <1>4, <1>5 DEF RecvRrcConnectionRequest, Abort, AbortInAnswer

\* A UE completed its connection in the context it is in.
LEMMA SetupCompletedSteady ==
  ASSUME GInv, NEW own, Owned(own), NEW g \in Gnb, NEW r, NEW u \in Ue, IsAt(ue[u], g, r),
         r \in Rnti => Owns(own, lastRnti, g, r, u), RecvRrcConnectionSetupCompleted(g, r)
  PROVE  Steady(own)
<1> DEFINE c == ctx[g][r]
<1>1. CASE UNCHANGED <<gnbVars, x2, down>> BY <1>1, SteadyStutter
<1>2. ASSUME HasUeManager(g, r), c.st = "CONNECTION_SETUP",
             ctx' = [ctx EXCEPT ![g][r].st = "ATTACH_REQUEST",
                                ![g][r].timers = @ \ {"connectionSetup"}],
             UNCHANGED <<lastRnti, x2, down>>
      PROVE  Steady(own)
  <2>1. r \in Rnti /\ c \in Context BY <1>2, IsContext
  <2>2. c.imsi \in Ue /\ c.imsi = u BY <1>2, <2>1, OwnerOf DEF Owns, Named
  <2>3. PICK d : d = [c EXCEPT !.st = "ATTACH_REQUEST", !.timers = @ \ {"connectionSetup"}]
    OBVIOUS
  <2>4. d.st = "ATTACH_REQUEST" /\ d.imsi = c.imsi BY <2>1, <2>3 DEF Context
  <2>5. ctx' = [ctx EXCEPT ![g][r] = d] BY <1>2, <2>1, <2>3, StateTypes DEF Contexts
  <2>6. Stays(own, g, r, d) BY <1>2, <2>2, <2>4 DEF Stays, Joined
  <2> QED BY <1>2, <2>1, <2>5, <2>6, SetSteady, NothingAddedSteady, NoDown DEF Steady
<1> QED BY <1>1, <1>2 DEF RecvRrcConnectionSetupCompleted, Abort, AbortInAnswer

\* A UE completed a reconfiguration or a handover in the context it is in.
LEMMA ReconfigurationCompletedSteady ==
  ASSUME GInv, NEW own, Owned(own), NEW g \in Gnb, NEW r, NEW u \in Ue, IsAt(ue[u], g, r),
         r \in Rnti => Owns(own, lastRnti, g, r, u),
         RecvRrcConnectionReconfigurationCompleted(g, r)
  PROVE  Steady(own)
<1> DEFINE c == ctx[g][r]
<1>1. CASE UNCHANGED <<gnbVars, x2, down>> BY <1>1, SteadyStutter
<1>2. ASSUME HasUeManager(g, r), c.st = "CONNECTION_RECONFIGURATION",
             SwitchToNormal(g, r, c), UNCHANGED x2
      PROVE  Steady(own)
  <2>1. r \in Rnti /\ c \in Context BY <1>2, IsContext
  <2>2. CtxSteady(own) /\ DownSteady(own) BY <1>2, <2>1, SwitchSteady DEF Serves
  <2> QED BY <1>2, <2>2, NothingAddedSteady DEF Steady
<1>3. ASSUME HasUeManager(g, r), c.st = "HANDOVER_JOINING",
             ctx' = [ctx EXCEPT ![g][r].st = "HANDOVER_PATH_SWITCH",
                                ![g][r].timers = @ \ {"handoverJoining"}],
             UNCHANGED <<lastRnti, x2, down>>
      PROVE  Steady(own)
  <2>1. r \in Rnti /\ c \in Context BY <1>3, IsContext
  <2>2. c.imsi \in Ue /\ c.imsi = u BY <1>3, <2>1, OwnerOf DEF Owns, Named
  <2>3. PICK d : d = [c EXCEPT !.st = "HANDOVER_PATH_SWITCH",
                               !.timers = @ \ {"handoverJoining"}]
    OBVIOUS
  <2>4. /\ d.st = "HANDOVER_PATH_SWITCH" /\ d.imsi = c.imsi
        /\ d.source = c.source /\ d.sourceId = c.sourceId
    BY <2>1, <2>3 DEF Context
  <2>5. ctx' = [ctx EXCEPT ![g][r] = d] BY <1>3, <2>1, <2>3, StateTypes DEF Contexts
  <2>6. Stays(own, g, r, d) BY <1>3, <2>2, <2>4 DEF Stays, Joined
  <2> QED BY <1>3, <2>1, <2>5, <2>6, SetSteady, NothingAddedSteady, NoDown DEF Steady
<1> QED BY <1>1, <1>2, <1>3 DEF RecvRrcConnectionReconfigurationCompleted, Abort, AbortInAnswer

\* A UE asks to forget its context.
LEMMA ContextRemoveSteady ==
  ASSUME GInv, NEW own, NEW g \in Gnb, NEW r, RecvIdealUeContextRemoveRequest(g, r)
  PROVE  Steady(own)
<1> DEFINE c == ctx[g][r]
           m == Message("HandoverPreparationFailure", c.sourceId, 0, None, 0)
<1>1. CASE UNCHANGED <<gnbVars, x2, down>> BY <1>1, SteadyStutter
<1>2. ASSUME HasUeManager(g, r), RemoveUe(g, r), UNCHANGED down,
             x2' = x2 \/ x2' = Sent(g, c.source, m)
      PROVE  Steady(own)
  <2>1. r \in Rnti BY <1>2 DEF HasUeManager
  <2>2. X2Steady(own)
    <3>1. MsgOwned(own, ctx', lastRnti', g, c.source, m) BY OtherMessage
    <3>2. x2' = Sent(g, c.source, m) => Adds(x2', g, c.source, m) BY SentAdds, StateTypes
    <3> HIDE DEF m
    <3> QED BY <1>2, <3>1, <3>2, AddedSteady, NothingAddedSteady
  <2> QED BY <1>2, <2>1, <2>2, RemovedSteady, NoDown DEF Steady
<1> QED BY <1>1, <1>2 DEF RecvIdealUeContextRemoveRequest

-----------------------------------------------------------------------------
\* The core network has set up a session.
LEMMA ContextSetupSteady ==
  ASSUME GInv, NEW own, NEW g \in Gnb, NEW u \in Ue, NEW s \in Session,
         InitialContextSetupRequest(g, u, s)
  PROVE  Steady(own)
<1> DEFINE r == imsiRnti[g][u]
           c == ctx[g][r]
           e == [c EXCEPT !.session = s, !.pending = TRUE]
<1>1. CASE UNCHANGED <<gnbVars, x2, down>> BY <1>1, SteadyStutter
<1>2. ASSUME HasUeManager(g, r), c.st = "ATTACH_REQUEST", ctx' = [ctx EXCEPT ![g][r] = Normal(e)],
             SendDown(c.imsi, "Reconfiguration", g, r), UNCHANGED <<lastRnti, x2>>
      PROVE  Steady(own)
  <2>1. r \in Rnti /\ c \in Context /\ c \in Good(g) BY <1>2, IsContext
  <2>2. c.imsi \in Ue BY <1>2, <2>1 DEF Good, Named
  <2>3. e \in Context /\ e.imsi = c.imsi
    <3>1. s \in 0 .. MaxSession BY EpcAssumption DEF Session
    <3> QED BY <2>1, <3>1 DEF Context
  <2> HIDE DEF e
  <2>4. Stays(own, g, r, Normal(e)) BY <1>2, <2>1, <2>3, NormalStays DEF Serves
  <2>5. CtxSteady(own) BY <1>2, <2>1, <2>4, SetSteady
  <2>6. DownSteady(own) BY <1>2, <2>1, <2>2, OtherDown
  <2> QED BY <1>2, <2>5, <2>6, NothingAddedSteady DEF Steady
<1> QED BY <1>1, <1>2 DEF InitialContextSetupRequest, AbortInAnswer

\* It has switched the path.
LEMMA PathSwitchSteady ==
  ASSUME GInv, NEW own, NEW g \in Gnb, NEW u \in Ue, PathSwitchRequestAcknowledge(g, u)
  PROVE  Steady(own)
<1> DEFINE r == imsiRnti[g][u]
           c == ctx[g][r]
           m == Message("UeContextRelease", c.sourceId, r, None, 0)
<1>1. CASE UNCHANGED <<gnbVars, x2, down>> BY <1>1, SteadyStutter
<1>2. ASSUME HasUeManager(g, r), c.st = "HANDOVER_PATH_SWITCH", x2' = Sent(g, c.source, m),
             SwitchToNormal(g, r, c)
      PROVE  Steady(own)
  <2>1. r \in Rnti /\ c \in Context BY <1>2, IsContext
  <2>2. CtxSteady(own) /\ DownSteady(own) BY <1>2, <2>1, SwitchSteady DEF Serves
  <2>3. MsgOwned(own, ctx', lastRnti', g, c.source, m) BY OtherMessage
  <2> HIDE DEF m
  <2>4. Adds(x2', g, c.source, m) BY <1>2, SentAdds, StateTypes
  <2> QED BY <2>2, <2>3, <2>4, AddedSteady DEF Steady
<1> QED BY <1>1, <1>2 DEF PathSwitchRequestAcknowledge, AbortInAnswer

\* The radio parameters change.
LEMMA ScheduleSteady ==
  ASSUME GInv, NEW own, NEW g \in Gnb, NEW r, ScheduleRrcConnectionReconfiguration(g, r)
  PROVE  Steady(own)
<1> DEFINE c == ctx[g][r]
           e == [c EXCEPT !.pending = TRUE]
<1>1. CASE UNCHANGED <<gnbVars, x2, down>> BY <1>1, SteadyStutter
<1>2. HasUeManager(g, r) BY DEF ScheduleRrcConnectionReconfiguration
<1>3. r \in Rnti /\ c \in Context /\ c.st # "NONE" BY <1>2, IsContext DEF HasUeManager
<1>4. /\ e \in Context /\ e.imsi = c.imsi /\ e.st = c.st /\ e.source = c.source
      /\ e.sourceId = c.sourceId
  BY <1>3 DEF Context
<1> HIDE DEF e
<1>5. ASSUME c.st = "CONNECTED_NORMALLY", SwitchToNormal(g, r, e), UNCHANGED x2
      PROVE  Steady(own)
  <2>1. CtxSteady(own) /\ DownSteady(own) BY <1>3, <1>4, <1>5, SwitchSteady DEF Serves
  <2> QED BY <1>5, <2>1, NothingAddedSteady DEF Steady
<1>6. ASSUME SetContext(g, r, e), UNCHANGED <<x2, down>>
      PROVE  Steady(own)
  <2>1. Stays(own, g, r, e) BY <1>3, <1>4, SameUeStays
  <2> QED BY <1>3, <1>6, <2>1, SetSteady, NothingAddedSteady, NoDown DEF Steady, SetContext
<1> QED BY <1>1, <1>5, <1>6 DEF ScheduleRrcConnectionReconfiguration, Abort, AbortInAnswer, e

-----------------------------------------------------------------------------
\* A handover is wanted.
LEMMA PrepareSteady ==
  ASSUME GInv, NEW own, Owned(own), NEW g \in Gnb, NEW r, NEW h \in Gnb, PrepareHandover(g, r, h)
  PROVE  Steady(own)
<1> DEFINE c == ctx[g][r]
           m == Message("HandoverRequest", r, 0, c.imsi, c.session)
<1>1. CASE UNCHANGED <<gnbVars, x2, down>> BY <1>1, SteadyStutter
<1>2. HasUeManager(g, r) BY DEF PrepareHandover
<1>3. r \in Rnti /\ c \in Context /\ c.st # "NONE" BY <1>2, IsContext DEF HasUeManager
<1>4. ASSUME c.st = "CONNECTED_NORMALLY", x2' = Sent(g, h, m), UNCHANGED down,
             SetContext(g, r, [c EXCEPT !.st = "HANDOVER_PREPARATION", !.target = h])
      PROVE  Steady(own)
  <2>1. PICK d : d = [c EXCEPT !.st = "HANDOVER_PREPARATION", !.target = h] OBVIOUS
  <2>2. /\ d.st = "HANDOVER_PREPARATION" /\ d.imsi = c.imsi /\ d.source = c.source
        /\ d.sourceId = c.sourceId
    BY <1>3, <2>1 DEF Context
  <2>3. ctx' = [ctx EXCEPT ![g][r] = d] /\ lastRnti' = lastRnti BY <1>4, <2>1 DEF SetContext
  <2>4. Stays(own, g, r, d) BY <1>3, <1>4, <2>2, SameUeStays DEF Joined, Serves
  <2>5. CtxSteady(own) BY <1>3, <2>3, <2>4, SetSteady
  <2>6. c.imsi \in Ue /\ Owns(own, lastRnti, g, r, c.imsi) BY <1>3, <1>4, OwnerOf DEF Named
  <2>7. Told(ctx', g, r)
    <3>1. ctx'[g][r] = d BY <1>3, <2>3, StateTypes DEF Contexts
    <3> QED BY <2>2, <2>6, <3>1, NodesAssumption DEF Told
  <2>8. m.type = "HandoverRequest" /\ m.old = r /\ m.imsi = c.imsi BY DEF Message
  <2> HIDE DEF m
  <2>9. MsgOwned(own, ctx', lastRnti', g, h, m) BY <2>3, <2>6, <2>7, <2>8 DEF MsgOwned
  <2>10. Adds(x2', g, h, m) BY <1>4, SentAdds, StateTypes
  <2> QED BY <1>4, <2>5, <2>9, <2>10, AddedSteady, NoDown DEF Steady
<1>5. ASSUME SetContext(g, r, [c EXCEPT !.pendingHo = h]), UNCHANGED <<x2, down>>
      PROVE  Steady(own)
  <2>1. PICK d : d = [c EXCEPT !.pendingHo = h] OBVIOUS
  <2>2. d.st = c.st /\ d.imsi = c.imsi /\ d.source = c.source /\ d.sourceId = c.sourceId
    BY <1>3, <2>1 DEF Context
  <2>3. Stays(own, g, r, d) BY <1>3, <2>2, SameUeStays
  <2> QED BY <1>3, <1>5, <2>1, <2>3, SetSteady, NothingAddedSteady, NoDown DEF Steady, SetContext
<1> QED BY <1>1, <1>4, <1>5 DEF PrepareHandover, Abort, AbortInAnswer

\* A handover request is admitted: the UE it is for owns the RNTI of the new context.
LEMMA AdmitSteady ==
  ASSUME GInv, NEW own, Owned(own), NEW g \in Gnb, NEW h \in Gnb, x2[h][g] # <<>>,
         Head(x2[h][g]).type = "HandoverRequest",
         RecvHandoverRequest(g, h, Head(x2[h][g]), "admit")
  PROVE  \E new : Grows(own, new) /\ Steady(new)
<1> DEFINE m == Head(x2[h][g])
           n == NewRnti(g)
           new == [own EXCEPT ![g][n] = m.imsi]
           d == [NewContext("HANDOVER_JOINING", {"handoverJoining"}) EXCEPT
                   !.imsi = m.imsi, !.source = h, !.sourceId = m.old,
                   !.session = m.session, !.pending = m.session # 0]
           ack == Message("HandoverRequestAck", m.old, n, None, m.session)
<1>1. g # h /\ m.imsi \in Ue BY TakenFacts DEF MsgGood
<1>2. Owns(own, lastRnti, h, m.old, m.imsi) /\ Told(ctx, h, m.old)
  BY HeadOwned DEF MsgOwned
<1>3. AddUe(g, d) /\ x2' = Answered(h, g, ack) /\ UNCHANGED down
  BY DEF RecvHandoverRequest
<1>4. lastRnti[g] < MaxRnti /\ lastRnti' = [lastRnti EXCEPT ![g] = n] BY <1>3 DEF AddUe
<1>5. own \in Owners BY DEF Owned
<1>6. /\ n \in Rnti /\ n > lastRnti[g] /\ n \in Nat /\ Grows(own, new) /\ new[g][n] = m.imsi
      /\ \A k \in Gnb : \A r \in 1 .. lastRnti[k] : new[k][r] = own[k][r]
  BY <1>1, <1>4, <1>5, NewOwner
<1>7. /\ d.st = "HANDOVER_JOINING" /\ d.imsi = m.imsi /\ d.source = h /\ d.sourceId = m.old
  BY DEF NewContext
<1>8. ack.type = "HandoverRequestAck" /\ ack.old = m.old /\ ack.new = n BY DEF Message
<1> HIDE DEF d, new, ack
<1>9. Owns(new, lastRnti, h, m.old, m.imsi) BY <1>2, <1>6 DEF Owns
<1>10. Made(new, g, n, d) BY <1>1, <1>2, <1>6, <1>7, <1>9 DEF Made, Serves
<1>11. CtxSteady(new) BY <1>3, <1>6, <1>10, AddSteady
<1>12. MsgOwned(new, ctx', lastRnti', g, h, ack)
  <2>1. lastRnti'[g] = n /\ lastRnti'[h] = lastRnti[h] BY <1>1, <1>4, StateTypes
  <2>2. Owns(new, lastRnti', h, m.old, m.imsi) BY <1>9, <2>1 DEF Owns
  <2>3. Owns(new, lastRnti', g, n, m.imsi) BY <1>6, <2>1 DEF Owns, Rnti
  <2> QED BY <1>8, <2>2, <2>3 DEF MsgOwned, Owns
<1>13. Adds(x2', g, h, ack) BY <1>1, <1>3, AnsweredAdds, StateTypes
<1>14. Steady(new) BY <1>3, <1>11, <1>12, <1>13, AddedSteady, NoDown DEF Steady
<1> QED BY <1>6, <1>14

\* A handover request is refused; an RNTI may have been passed over.
LEMMA RefuseSteady ==
  ASSUME GInv, NEW own, NEW g \in Gnb, NEW h \in Gnb, x2[h][g] # <<>>, NEW answer,
         answer # "admit", RecvHandoverRequest(g, h, Head(x2[h][g]), answer)
  PROVE  Steady(own)
<1> DEFINE m == Head(x2[h][g])
           fail == Message("HandoverPreparationFailure", m.old, 0, None, 0)
<1>1. g # h BY TakenFacts
<1>2. /\ x2' = Answered(h, g, fail) /\ UNCHANGED <<ctx, down>>
      /\ lastRnti' = lastRnti \/ lastRnti' = [lastRnti EXCEPT ![g] = lastRnti[g] + 1]
  BY DEF RecvHandoverRequest, gnbVars, NewRnti
<1>3. MsgOwned(own, ctx', lastRnti', g, h, fail) BY OtherMessage
<1> HIDE DEF fail
<1>4. Adds(x2', g, h, fail) BY <1>1, <1>2, AnsweredAdds, StateTypes
<1>5. \A k \in Gnb : lastRnti'[k] >= lastRnti[k] BY <1>2, StateTypes
<1>6. CtxSteady(own) BY <1>2, <1>5, ContextsSteady
<1> QED BY <1>2, <1>3, <1>4, <1>6, AddedSteady, NoDown DEF Steady

\* The target is ready: the UE is sent to the context made for it.
LEMMA AckSteady ==
  ASSUME GInv, NEW own, Owned(own), NEW g \in Gnb, NEW h \in Gnb, x2[h][g] # <<>>,
         Head(x2[h][g]).type = "HandoverRequestAck",
         RecvHandoverRequestAck(g, h, Head(x2[h][g]))
  PROVE  Steady(own)
<1> DEFINE m == Head(x2[h][g])
           r == m.old
           c == ctx[g][r]
           status == Message("SnStatusTransfer", r, m.new, None, c.session)
           command == [type |-> "HandoverCommand", gnb |-> h, rnti |-> m.new]
<1>1. CASE UNCHANGED <<gnbVars, x2, down>> BY <1>1, SteadyStutter
<1>2. ASSUME HasUeManager(g, r),
             SetContext(g, r, [c EXCEPT !.st = "HANDOVER_LEAVING", !.target = h,
                                     !.targetId = m.new, !.timers = @ \cup {"handoverLeaving"}]),
             SendDown(c.imsi, "HandoverCommand", h, m.new), x2' = Answered(h, g, status)
      PROVE  Steady(own)
  <2>1. r \in Rnti /\ c \in Context /\ c.st # "NONE" BY <1>2, IsContext DEF HasUeManager
  <2>2. c.st = "HANDOVER_PREPARATION" /\ c.imsi \in Ue BY <1>2, AckFindsPreparation
  <2>3. g # h /\ m \in X2Message BY TakenFacts
  <2>4. PICK d : d = [c EXCEPT !.st = "HANDOVER_LEAVING", !.target = h,
                               !.targetId = m.new, !.timers = @ \cup {"handoverLeaving"}]
    OBVIOUS
  <2>5. d.st = "HANDOVER_LEAVING" /\ d.imsi = c.imsi BY <2>1, <2>4 DEF Context
  <2>6. ctx' = [ctx EXCEPT ![g][r] = d] /\ lastRnti' = lastRnti BY <1>2, <2>4 DEF SetContext
  <2>7. Stays(own, g, r, d) BY <2>1, <2>5 DEF Stays, Joined, Serves
  <2>8. CtxSteady(own) BY <2>1, <2>6, <2>7, SetSteady
  <2>9. MsgOwned(own, ctx', lastRnti', g, h, status) BY OtherMessage
  <2> HIDE DEF status
  <2>10. Adds(x2', g, h, status) BY <1>2, <2>3, AnsweredAdds, StateTypes
  <2>11. Owns(own, lastRnti', h, m.new, c.imsi)
    <3>1. Owns(own, lastRnti, h, m.new, own[g][r]) BY HeadOwned DEF MsgOwned
    <3>2. own[g][r] = c.imsi BY <2>1, <2>2, OwnerOf DEF Named
    <3> QED BY <2>6, <3>1, <3>2
  <2>12. ctx'[g][r].st \notin Serves
    <3>1. ctx'[g][r] = d BY <2>1, <2>6, StateTypes DEF Contexts
    <3> QED BY <2>5, <3>1 DEF Serves
  <2>13. command \in DownMessage /\ down' = To(down, c.imsi, command)
    <3>1. m.new \in 0 .. MaxRnti BY <2>3 DEF X2Message
    <3> QED BY <1>2, <3>1 DEF DownMessage, SendDown
  <2>14. command.gnb = h /\ command.rnti = m.new OBVIOUS
  <2>15. c.st \in Serves BY <2>2 DEF Serves
  <2> HIDE DEF command
  <2>16. DownSteady(own)
    BY <2>1, <2>2, <2>11, <2>12, <2>13, <2>14, <2>15 DEF DownSteady
  <2> QED BY <2>8, <2>9, <2>10, <2>16, AddedSteady DEF Steady
<1> QED BY <1>1, <1>2 DEF RecvHandoverRequestAck, Abort, AbortInAnswer

\* The target refuses, or gave up waiting.
LEMMA FailureSteady ==
  ASSUME GInv, NEW own, NEW g \in Gnb, NEW h \in Gnb, x2[h][g] # <<>>,
         RecvHandoverPreparationFailure(g, h, Head(x2[h][g]))
  PROVE  Steady(own)
<1> DEFINE r == Head(x2[h][g]).old
           c == ctx[g][r]
<1>1. CASE UNCHANGED <<gnbVars, x2, down>> BY <1>1, SteadyStutter
<1>2. x2' = Taken(h, g) => X2Steady(own) BY TakenAdds, StateTypes, NothingAddedSteady
<1>3. ASSUME x2' = Taken(h, g), UNCHANGED <<gnbVars, down>>
      PROVE  Steady(own)
  <2>1. \A k \in Gnb : lastRnti'[k] >= lastRnti[k] BY <1>3, StateTypes DEF gnbVars
  <2> QED BY <1>2, <1>3, <2>1, ContextsSteady, NoDown DEF Steady, gnbVars
<1>4. ASSUME HasUeManager(g, r), c.st = "HANDOVER_PREPARATION", SwitchToNormal(g, r, c),
             x2' = Taken(h, g)
      PROVE  Steady(own)
  <2>1. r \in Rnti /\ c \in Context BY <1>4, IsContext
  <2>2. CtxSteady(own) /\ DownSteady(own) BY <1>4, <2>1, SwitchSteady DEF Serves
  <2> QED BY <1>2, <1>4, <2>2 DEF Steady
<1>5. ASSUME HasUeManager(g, r), SetContext(g, r, StopLeaving(c)), x2' = Taken(h, g),
             UNCHANGED down
      PROVE  Steady(own)
  <2>1. r \in Rnti /\ c \in Context /\ c.st # "NONE" BY <1>5, IsContext DEF HasUeManager
  <2>2. PICK d : d = StopLeaving(c) OBVIOUS
  <2>3. d.st = c.st /\ d.imsi = c.imsi /\ d.source = c.source /\ d.sourceId = c.sourceId
    BY <2>1, <2>2 DEF Context, StopLeaving
  <2>4. Stays(own, g, r, d) BY <2>1, <2>3, SameUeStays
  <2> QED BY <1>2, <1>5, <2>1, <2>2, <2>4, SetSteady, NoDown DEF Steady, SetContext
<1> QED BY <1>1, <1>3, <1>4, <1>5 DEF RecvHandoverPreparationFailure, Abort, AbortInAnswer

\* The sequence numbers of the bearers come, or the handover is over, or given up.
LEMMA LastMessagesSteady ==
  ASSUME GInv, NEW own, NEW g \in Gnb, NEW h \in Gnb, x2[h][g] # <<>>,
         \/ RecvSnStatusTransfer(g, h, Head(x2[h][g]))
         \/ RecvUeContextRelease(g, h, Head(x2[h][g]))
         \/ RecvHandoverCancel(g, h, Head(x2[h][g]))
  PROVE  Steady(own)
<1> DEFINE m == Head(x2[h][g])
<1>1. CASE UNCHANGED <<gnbVars, x2, down>> BY <1>1, SteadyStutter
<1>2. x2' = Taken(h, g) => X2Steady(own) BY TakenAdds, StateTypes, NothingAddedSteady
<1>3. ASSUME x2' = Taken(h, g), UNCHANGED <<gnbVars, down>>
      PROVE  Steady(own)
  <2>1. \A k \in Gnb : lastRnti'[k] >= lastRnti[k] BY <1>3, StateTypes DEF gnbVars
  <2> QED BY <1>2, <1>3, <2>1, ContextsSteady, NoDown DEF Steady, gnbVars
<1>4. ASSUME NEW r, HasUeManager(g, r), RemoveUe(g, r), x2' = Taken(h, g), UNCHANGED down
      PROVE  Steady(own)
  <2>1. r \in Rnti BY <1>4 DEF HasUeManager
  <2> QED BY <1>2, <1>4, <2>1, RemovedSteady, NoDown DEF Steady
<1>5. ASSUME NEW r, HasUeManager(g, r), x2' = Taken(h, g), UNCHANGED down,
             SetContext(g, r, [ctx[g][r] EXCEPT !.timers = @ \ {"handoverJoining"}])
      PROVE  Steady(own)
  <2> DEFINE c == ctx[g][r]
  <2>1. r \in Rnti /\ c \in Context /\ c.st # "NONE" BY <1>5, IsContext DEF HasUeManager
  <2>2. PICK d : d = [c EXCEPT !.timers = @ \ {"handoverJoining"}] OBVIOUS
  <2>3. d.st = c.st /\ d.imsi = c.imsi /\ d.source = c.source /\ d.sourceId = c.sourceId
    BY <2>1, <2>2 DEF Context
  <2>4. Stays(own, g, r, d) BY <2>1, <2>3, SameUeStays
  <2> QED BY <1>2, <1>5, <2>1, <2>2, <2>4, SetSteady, NoDown DEF Steady, SetContext
<1>6. CASE RecvSnStatusTransfer(g, h, m)
  BY <1>1, <1>3, <1>6 DEF RecvSnStatusTransfer, Abort, AbortInAnswer
<1>7. CASE RecvUeContextRelease(g, h, m)
  BY <1>1, <1>3, <1>4, <1>7 DEF RecvUeContextRelease, Abort, AbortInAnswer
<1>8. CASE RecvHandoverCancel(g, h, m)
  BY <1>1, <1>3, <1>5, <1>8 DEF RecvHandoverCancel, Abort, AbortInAnswer
<1> QED BY <1>6, <1>7, <1>8

\* A message comes over X2.
LEMMA X2StepSteady ==
  ASSUME GInv, NEW own, Owned(own), NEW g \in Gnb, NEW h \in Gnb, NEW answer,
         RecvX2(g, h, answer)
  PROVE  \E new : Grows(own, new) /\ Steady(new)
<1>1. Grows(own, own) BY DEF Owned, Grows
<1>2. x2[h][g] # <<>> BY DEF RecvX2
<1>3. CASE Head(x2[h][g]).type = "HandoverRequest" /\ RecvHandoverRequest(g, h, Head(x2[h][g]), answer)
  BY <1>1, <1>2, <1>3, AdmitSteady, RefuseSteady
<1>4. CASE Head(x2[h][g]).type = "HandoverRequestAck" /\ RecvHandoverRequestAck(g, h, Head(x2[h][g]))
  BY <1>1, <1>2, <1>4, AckSteady
<1>5. CASE RecvHandoverPreparationFailure(g, h, Head(x2[h][g]))
  BY <1>1, <1>2, <1>5, FailureSteady
<1>6. CASE \/ RecvSnStatusTransfer(g, h, Head(x2[h][g]))
           \/ RecvUeContextRelease(g, h, Head(x2[h][g]))
           \/ RecvHandoverCancel(g, h, Head(x2[h][g]))
  BY <1>1, <1>2, <1>6, LastMessagesSteady
<1> QED BY <1>3, <1>4, <1>5, <1>6 DEF RecvX2

\* A timeout expires.
LEMMA TimeoutSteady ==
  ASSUME GInv, NEW own, NEW g \in Gnb, NEW r \in Rnti, NEW t \in Timer, Timeout(g, r, t)
  PROVE  Steady(own)
<1> DEFINE c == ctx[g][r]
           fail == Message("HandoverPreparationFailure", c.sourceId, 0, None, 0)
           cancel == Message("HandoverCancel", r, c.targetId, None, 0)
<1>1. CASE UNCHANGED <<gnbVars, x2, down>> BY <1>1, SteadyStutter
<1>2. ASSUME RemoveUe(g, r), c.st = TimerState[t],
             \/ UNCHANGED <<x2, down>>
             \/ x2' = Sent(g, c.source, fail) /\ UNCHANGED down
             \/ /\ t = "handoverLeaving" /\ x2' = Sent(g, c.target, cancel)
                /\ SendDown(c.imsi, "ConnectionRelease", g, r)
      PROVE  Steady(own)
  <2>1. CtxSteady(own) BY <1>2, RemovedSteady
  <2>2. X2Steady(own)
    <3>1. /\ MsgOwned(own, ctx', lastRnti', g, c.source, fail)
          /\ MsgOwned(own, ctx', lastRnti', g, c.target, cancel)
      BY OtherMessage
    <3>2. /\ x2' = Sent(g, c.source, fail) => Adds(x2', g, c.source, fail)
          /\ x2' = Sent(g, c.target, cancel) => Adds(x2', g, c.target, cancel)
      BY SentAdds, StateTypes
    <3> HIDE DEF fail, cancel
    <3> QED BY <1>2, <3>1, <3>2, AddedSteady, NothingAddedSteady
  <2>3. DownSteady(own)
    <3>1. CASE UNCHANGED down BY <3>1, NoDown
    <3>2. CASE t = "handoverLeaving" /\ SendDown(c.imsi, "ConnectionRelease", g, r)
      <4>1. c.st = "HANDOVER_LEAVING" BY <1>2, <3>2 DEF TimerState
      <4>2. c \in Good(g) BY ContextIsGood DEF GInv
      <4>3. c.imsi \in Ue BY <4>1, <4>2 DEF Good, Named
      <4> QED BY <3>2, <4>3, OtherDown
    <3> QED BY <1>2, <3>1, <3>2
  <2> QED BY <2>1, <2>2, <2>3 DEF Steady
<1> QED BY <1>1, <1>2 DEF Timeout, Abort, AbortInAnswer

-----------------------------------------------------------------------------
\* The invariant after a step of a gNB, in which a UE may start a random access.
LEMMA OwnedAfterGnb ==
  ASSUME GInv, GInv', NEW own, Owned(own), NEW new, Grows(own, new), Steady(new),
         down = NoMessage, up' = NoMessage, UesOwned(new)'
  PROVE  Owned(new)'
<1>1. own \in Owners /\ new \in Owners BY DEF Owned, Grows
<1>2. CtxOwned(new)' /\ SourcesOwned(new)'
  BY <1>1, ContextsStayOwned DEF Owned, Steady
<1>3. X2Owned(new)' BY <1>1, MessagesStayOwned DEF Owned, Steady
<1>4. UpOwned(new)' BY OnlySent DEF UpOwned
<1>5. DownOwned(new)'
  <2>1. CASE down' = down BY <2>1, OnlySent DEF DownOwned
  <2>2. ASSUME NEW v \in Ue, NEW m \in DownMessage, down' = To(down, v, m),
               m.type = "HandoverCommand" /\ m.rnti \in Rnti =>
                  Owns(new, lastRnti', m.gnb, m.rnti, v)
        PROVE  DownOwned(new)'
    <3>1. down' = Only(v, m) BY <2>2, OnlySent
    <3>2. \A u \in Ue : down'[u] # <<>> => u = v /\ Head(down'[u]) = m BY <3>1, OnlySent
    <3> QED BY <2>2, <3>2 DEF DownOwned
  <2> QED BY <2>1, <2>2 DEF Steady, DownSteady
<1> QED BY <1>1, <1>2, <1>3, <1>4, <1>5 DEF Owned

\* The contexts that serve UEs after a step of a gNB.
LEMMA ServedAfterGnb ==
  ASSUME GInv, Served, NEW own, Steady(own), down = NoMessage,
         \A v \in Ue, g \in Gnb, r \in Rnti :
            Leaves(v, g, r) => ctx'[g][r].st \notin Serves /\ down' = down,
         \A v \in Ue, g \in Gnb, r \in Rnti : IsAt(ue[v], g, r) => IsAt(ue'[v], g, r),
         RntiKept'
  PROVE  Served'
<1>1. ASSUME NEW g \in Gnb, NEW r \in Rnti, ctx'[g][r].st \in Serves
      PROVE  ctx'[g][r].imsi \in Ue /\ IsAt(ue[ctx'[g][r].imsi], g, r)
  <2>1. Stays(own, g, r, ctx'[g][r]) BY <1>1 DEF Steady, CtxSteady, Made
  <2>2. ctx'[g][r].st # "NONE" BY <1>1 DEF Serves
  <2>3. CASE ctx[g][r].st \in Serves /\ ctx'[g][r].imsi = ctx[g][r].imsi
    <3>1. PICK v \in Ue : v = ctx[g][r].imsi /\ (IsAt(ue[v], g, r) \/ Leaves(v, g, r))
      BY <2>3 DEF Served, ServedOnce
    <3> QED BY <1>1, <2>3, <3>1
  <2> QED BY <1>1, <2>1, <2>2, <2>3 DEF Stays
<1>2. ServedOnce' BY <1>1 DEF ServedOnce
<1>3. ASSUME NEW v \in Ue, down'[v] # <<>>, Head(down'[v]).type = "HandoverCommand",
             NEW g \in Gnb, NEW r \in Rnti, ctx'[g][r].st \in Serves, ctx'[g][r].imsi = v
      PROVE  FALSE
  <2>1. down' # down BY <1>3, OnlySent
  <2>2. PICK w \in Ue, m \in DownMessage :
           /\ down' = To(down, w, m)
           /\ m.type = "HandoverCommand" =>
                 \E h \in Gnb, q \in Rnti : /\ ctx[h][q].st \in Serves /\ ctx[h][q].imsi = w
                                            /\ ctx'[h][q].st \notin Serves
    BY <2>1 DEF Steady, DownSteady
  <2>3. down' = Only(w, m) BY <2>2, OnlySent
  <2>4. v = w /\ Head(down'[v]) = m BY <1>3, <2>3, OnlySent
  <2>5. PICK h \in Gnb, q \in Rnti : /\ ctx[h][q].st \in Serves /\ ctx[h][q].imsi = v
                                     /\ ctx'[h][q].st \notin Serves
    BY <1>3, <2>2, <2>4
  <2>6. IsAt(ue[v], h, q) \/ Leaves(v, h, q) BY <2>5 DEF Served, ServedOnce
  <2>7. IsAt(ue[v], h, q) BY <2>1, <2>6
  <2>8. IsAt(ue[v], g, r) BY <1>1, <1>3
  <2>9. h = g /\ q = r BY <2>7, <2>8 DEF IsAt
  <2> QED BY <1>3, <2>5, <2>9
<1>4. CommandedUnserved' BY <1>3 DEF CommandedUnserved
<1> QED BY <1>2, <1>4 DEF Served

\* The troubles counted do not become fewer.
LEMMA SpentGrows ==
  ASSUME SpentOK, NEW kind \in Trouble,
         \/ UNCHANGED spent \/ Spend("fault") \/ Spend("recovery")
         \/ Spend("reconfig") \/ Spend("overlap") \/ Spend("handover") \/ Spend("return")
  PROVE  spent'[kind] = 0 => spent[kind] = 0
<1>1. \A k \in Trouble : spent[k] \in Nat BY DEF SpentOK
<1>2. ASSUME NEW k \in Trouble, Spend(k) PROVE spent'[kind] = 0 => spent[kind] = 0
  <2>1. spent' = [spent EXCEPT ![k] = @ + 1] BY <1>2 DEF Spend
  <2>2. spent'[kind] = spent[kind] \/ spent'[kind] = spent[kind] + 1 BY <2>1 DEF SpentOK
  <2> QED BY <1>1, <2>2
<1> QED BY <1>2 DEF Trouble, Handover

\* A trouble that was met is counted.
LEMMA SpentIsNot0 ==
  ASSUME SpentOK, NEW kind \in Trouble, Spend(kind)
  PROVE  spent'[kind] # 0
<1>1. spent' = [spent EXCEPT ![kind] = @ + 1] /\ spent[kind] \in Nat BY DEF Spend, SpentOK
<1> QED BY <1>1 DEF SpentOK

\* A step of a gNB while the UEs stay as they are.
LEMMA GnbStepOwnInv ==
  ASSUME OwnInv, Inv', down = NoMessage, up' = NoMessage, ue' = ue,
         \A kind \in Trouble : spent'[kind] = 0 => spent[kind] = 0,
         \A own : Owned(own) => \E new : Grows(own, new) /\ Steady(new),
         \A v \in Ue, g \in Gnb, r \in Rnti :
            Leaves(v, g, r) => ctx'[g][r].st \notin Serves /\ down' = down
  PROVE  OwnInv'
<1>1. CompletedAt' BY OnlySent DEF CompletedAt
<1>2. ASSUME spent'["overlap"] = 0
      PROVE  /\ \E new \in Owners : Owned(new)'
             /\ spent'["recovery"] = 0 => Served'
  <2>1. PICK own \in Owners : Owned(own) BY <1>2 DEF OwnInv, Trouble, Handover
  <2>2. PICK new : Grows(own, new) /\ Steady(new) BY <2>1
  <2>3. GInv /\ GInv' BY DEF OwnInv, Inv
  <2>4. UesOwned(new)'
    <3>1. UesOwned(own) /\ CtxSteady(new) BY <2>1, <2>2 DEF Owned, Steady
    <3> QED BY <2>2, <2>3, <3>1, UesStayOwned DEF UesOwned
  <2>5. Owned(new)' BY <2>1, <2>2, <2>3, <2>4, OwnedAfterGnb
  <2>6. ASSUME spent'["recovery"] = 0 PROVE Served'
    <3>1. Served BY <1>2, <2>6 DEF OwnInv, Trouble, Handover
    <3>2. RntiKept' BY <3>1 DEF Served, RntiKept
    <3> QED BY <2>2, <2>3, <3>1, <3>2, ServedAfterGnb
  <2> QED BY <2>2, <2>5, <2>6 DEF Grows
<1> QED BY <1>1, <1>2 DEF OwnInv

\* A message of a UE is delivered.
LEMMA DeliverUpOwnInv ==
  ASSUME OwnInv, Inv', abort = "none", NEW u \in Ue, DeliverUp(u)
  PROVE  OwnInv'
<1> DEFINE m == Head(up[u])
           g == m.gnb
           r == m.rnti
<1>1. /\ m \in UpMessage /\ down = NoMessage /\ up' = NoMessage /\ up[u] # <<>>
      /\ UpExpected(u, m)
  BY TakeUp DEF OwnInv, Inv, DeliverUp
<1>2. g \in Gnb /\ r \in 0 .. MaxRnti BY <1>1 DEF UpMessage
<1>3. GInv /\ SpentOK BY DEF OwnInv, Inv
<1>4. \A kind \in Trouble : spent'[kind] = 0 => spent[kind] = 0
  BY <1>3, SpentGrows DEF DeliverUp
<1>5. \A v \in Ue : up[v] # <<>> => v = u
  <2>1. PICK w \in Ue, a \in UpMessage : up = Only(w, a) BY <1>1, OnlySent DEF OwnInv, Inv, AirInv
  <2> QED BY <1>1, <2>1, OnlySent
<1>6. ASSUME NEW own, Owned(own) PROVE r \in Rnti => Owns(own, lastRnti, g, r, u)
  BY <1>1, <1>6 DEF Owned, UpOwned
<1>7. ASSUME NEW own, Owned(own) PROVE \E new : Grows(own, new) /\ Steady(new)
  <2>1. Grows(own, own) BY <1>7 DEF Owned, Grows
  <2>2. CASE \E admit \in BOOLEAN : RecvRrcConnectionRequest(g, r, u, admit)
    BY <1>2, <1>3, <1>6, <1>7, <2>1, <2>2, ConnectionRequestSteady
  <2>3. CASE m.type = "SetupCompleted" /\ RecvRrcConnectionSetupCompleted(g, r)
    <3>1. IsAt(ue[u], g, r) BY <1>1, <2>3 DEF OwnInv, CompletedAt
    <3> QED BY <1>2, <1>3, <1>6, <1>7, <2>1, <2>3, <3>1, SetupCompletedSteady
  <2>4. CASE m.type = "ReconfigurationCompleted" /\ RecvRrcConnectionReconfigurationCompleted(g, r)
    <3>1. IsAt(ue[u], g, r) BY <1>1, <2>4 DEF OwnInv, CompletedAt
    <3> QED BY <1>2, <1>3, <1>6, <1>7, <2>1, <2>4, <3>1, ReconfigurationCompletedSteady
  <2>5. CASE RecvIdealUeContextRemoveRequest(g, r)
    BY <1>2, <1>3, <2>1, <2>5, ContextRemoveSteady
  <2> QED BY <2>2, <2>3, <2>4, <2>5 DEF DeliverUp
<1>8. ASSUME NEW v \in Ue, NEW h \in Gnb, NEW q \in Rnti, Leaves(v, h, q)
      PROVE  ctx'[h][q].st \notin Serves /\ down' = down
  <2>1. v = u /\ m.type = "IdealUeContextRemove" /\ h = g /\ q = r BY <1>5, <1>8 DEF Leaves
  <2>2. RecvIdealUeContextRemoveRequest(g, r) BY <2>1 DEF DeliverUp
  <2>3. down' = down BY <2>2 DEF RecvIdealUeContextRemoveRequest
  <2>4. CASE HasUeManager(g, r)
    <3>1. ctx' = [ctx EXCEPT ![g][r] = NoContext]
      BY <2>2, <2>4 DEF RecvIdealUeContextRemoveRequest, RemoveUe
    <3>2. ctx'[g][r] = NoContext BY <1>2, <1>3, <1>8, <2>1, <3>1, StateTypes DEF Contexts
    <3> QED BY <2>1, <2>3, <3>2 DEF NoContext, NewContext, Serves
  <2>5. CASE ~HasUeManager(g, r)
    <3>1. ctx' = ctx BY <2>2, <2>5 DEF RecvIdealUeContextRemoveRequest, gnbVars
    <3>2. ctx[g][r].st = "NONE" BY <1>8, <2>1, <2>5 DEF HasUeManager
    <3> QED BY <2>1, <2>3, <3>1, <3>2 DEF Serves
  <2> QED BY <2>4, <2>5
<1>9. ue' = ue BY DEF DeliverUp
<1> QED BY <1>1, <1>4, <1>7, <1>8, <1>9, GnbStepOwnInv

\* A step of a gNB or of the core network between two instants.
LEMMA BetweenInstantsOwnInv ==
  ASSUME OwnInv, Inv', InstantOver, UNCHANGED <<up, ue>>,
         \/ UNCHANGED spent \/ Spend("fault") \/ Spend("recovery")
         \/ Spend("reconfig") \/ Spend("overlap") \/ Spend("handover") \/ Spend("return"),
         \A own : Owned(own) => \E new : Grows(own, new) /\ Steady(new)
  PROVE  OwnInv'
<1>1. up = NoMessage /\ down = NoMessage BY NothingInTheAir DEF OwnInv, Inv
<1>2. \A kind \in Trouble : spent'[kind] = 0 => spent[kind] = 0
  BY SpentGrows DEF OwnInv, Inv
<1>3. \A v \in Ue, g \in Gnb, r \in Rnti : ~Leaves(v, g, r) BY <1>1, OnlySent DEF Leaves
<1> QED BY <1>1, <1>2, <1>3, GnbStepOwnInv

-----------------------------------------------------------------------------
\* UE u gets RNTI r in a random access response: it owns it.
Given(own, new, u, r) ==
    /\ Grows(own, new) /\ Steady(new)
    /\ ue' = [ue EXCEPT ![u].rar = r]
    /\ r \in Rnti => Owns(new, lastRnti', ue[u].cell, r, u)

\* A UE sends a preamble, or one that is connected recovers its uplink.
LEMMA RandomAccessOwnInv ==
  ASSUME OwnInv, Inv', InstantOver, NEW u \in Ue, RaPreamble(u) \/ RecoverUplink(u)
  PROVE  OwnInv'
<1> DEFINE g == ue[u].cell
<1>1. up = NoMessage /\ down = NoMessage BY NothingInTheAir DEF OwnInv, Inv
<1>2. ue[u].st \in Accessing BY DEF RaPreamble, RecoverUplink, InRandomAccess, Accessing
<1>3. g \in Gnb /\ ue \in [Ue -> UeGood] /\ ue[u] \in UeRecord
  BY <1>2, UeIsGood DEF OwnInv, Inv, UeGood, UeOK, Accessing, Placed
<1>4. GInv /\ GInv' /\ SpentOK BY DEF OwnInv, Inv
<1>5. up' = NoMessage BY <1>1 DEF RaPreamble, RecoverUplink
<1>6. CompletedAt' BY <1>5, OnlySent DEF CompletedAt
<1>7. \A kind \in Trouble : spent'[kind] = 0 => spent[kind] = 0
  BY <1>4, SpentGrows DEF RaPreamble, RecoverUplink, AnswerRaPreamble
<1>8. ASSUME NEW own \in Owners, Owned(own), NEW new, NEW r, Given(own, new, u, r)
      PROVE  /\ Owned(new)' /\ new \in Owners
             /\ Served /\ RaPreamble(u) => Served'
  <2>0. /\ Grows(own, new) /\ Steady(new) /\ ue' = [ue EXCEPT ![u].rar = r]
        /\ r \in Rnti => Owns(new, lastRnti', g, r, u)
    BY <1>8 DEF Given
  <2>1. ASSUME NEW v \in Ue, NEW h \in Gnb, NEW q \in Rnti, Uses(ue'[v], h, q)
        PROVE  Owns(new, lastRnti', h, q, v)
    <3>1. CASE v = u /\ q = r
      <4>1. ue'[u].cell = g BY <1>3, <1>8, <2>0 DEF UeOK, UeGood, UeRecord
      <4> QED BY <1>8, <2>0, <2>1, <3>1, <4>1 DEF Uses
    <3>2. CASE ~(v = u /\ q = r)
      <4>1. v # u => ue'[v] = ue[v] BY <1>3, <1>8, <2>0
      <4>2. /\ ue'[u].cell = ue[u].cell /\ ue'[u].st = ue[u].st /\ ue'[u].rnti = ue[u].rnti
            /\ ue'[u].rar = r
        BY <1>3, <1>8, <2>0 DEF UeRecord
      <4>3. Uses(ue[v], h, q) BY <2>1, <3>2, <4>1, <4>2 DEF Uses
      <4> QED BY <1>4, <1>8, <2>0, <4>3, UesStayOwned DEF Owned, Steady
    <3> QED BY <3>1, <3>2
  <2>2. Owned(new)' BY <1>1, <1>4, <1>5, <1>8, <2>0, <2>1, OwnedAfterGnb DEF UesOwned
  <2>3. ASSUME Served, RaPreamble(u) PROVE Served'
    <3>1. /\ \A v \in Ue : v # u => ue'[v] = ue[v]
          /\ ue'[u].st = ue[u].st /\ ue[u].st # "CONNECTED_NORMALLY"
      BY <1>3, <1>8, <2>0, <2>3 DEF UeRecord, RaPreamble, InRandomAccess
    <3>2. \A v \in Ue, h \in Gnb, q \in Rnti : IsAt(ue[v], h, q) => IsAt(ue'[v], h, q)
      BY <3>1 DEF IsAt
    <3>3. RntiKept' BY <2>3, <3>1 DEF Served, RntiKept
    <3>4. \A v \in Ue, h \in Gnb, q \in Rnti : ~Leaves(v, h, q) BY <1>1, OnlySent DEF Leaves
    <3> QED BY <1>1, <1>4, <1>8, <2>0, <2>3, <3>2, <3>3, <3>4, ServedAfterGnb
  <2> QED BY <1>8, <2>0, <2>2, <2>3 DEF Grows
<1>9. ASSUME NEW own \in Owners, Owned(own), spent'["overlap"] = 0
      PROVE  \E new, r : Given(own, new, u, r)
  <2>1. ASSUME AllocateTemporaryCellRnti(g), ue' = [ue EXCEPT ![u].rar = NewRnti(g)]
        PROVE  \E new, r : Given(own, new, u, r)
    <3> DEFINE n == NewRnti(g)
               grown == [own EXCEPT ![g][n] = u]
    <3>1. Grows(own, grown) /\ Steady(grown) /\ Owns(grown, lastRnti', g, n, u)
      BY <1>3, <1>4, <1>9, <2>1, AllocateSteady
    <3> HIDE DEF n, grown
    <3>2. Given(own, grown, u, n) BY <2>1, <3>1 DEF Given, n
    <3> QED BY <3>2
  <2>2. ASSUME ue[u].st = "CONNECTED_HANDOVER", UNCHANGED <<gnbSide, down>>,
               ue' = [ue EXCEPT ![u].rar = ue[u].rnti]
        PROVE  \E new, r : Given(own, new, u, r)
    <3>1. Grows(own, own) BY DEF Grows
    <3>2. Steady(own) BY <1>4, <2>2, SteadyStutter DEF gnbSide
    <3>3. ue[u].rnti \in Rnti => Uses(ue[u], g, ue[u].rnti) BY <2>2 DEF Uses, Connected
    <3>4. ue[u].rnti \in Rnti => Owns(own, lastRnti, g, ue[u].rnti, u)
      BY <1>3, <1>9, <3>3 DEF Owned, UesOwned
    <3>5. lastRnti' = lastRnti BY <2>2 DEF gnbSide, gnbVars
    <3>6. Given(own, own, u, ue[u].rnti) BY <2>2, <3>1, <3>2, <3>4, <3>5 DEF Given
    <3> QED BY <3>6
  <2>3. CASE RecoverUplink(u) BY <2>1, <2>3 DEF RecoverUplink
  <2>4. CASE RaPreamble(u)
    <3>1. PICK r \in Rnti : AnswerRaPreamble(g, u, r) /\ ue' = [ue EXCEPT ![u].rar = r]
      BY <2>4 DEF RaPreamble
    <3>2. ~Spend("overlap") BY <1>4, <1>9, SpentIsNot0 DEF Trouble, Handover
    <3> QED BY <2>1, <2>2, <3>1, <3>2 DEF AnswerRaPreamble
  <2> QED BY <2>3, <2>4
<1>10. spent'["recovery"] = 0 => RaPreamble(u)
  BY <1>4, SpentIsNot0 DEF RecoverUplink, Trouble, Handover
<1>11. ASSUME spent'["overlap"] = 0
       PROVE  /\ \E new \in Owners : Owned(new)'
              /\ spent'["recovery"] = 0 => Served'
  <2>1. PICK own \in Owners : Owned(own) BY <1>7, <1>11 DEF OwnInv, Trouble, Handover
  <2>2. PICK new, r : Given(own, new, u, r) BY <1>9, <1>11, <2>1
  <2>3. Owned(new)' /\ new \in Owners /\ (Served /\ RaPreamble(u) => Served')
    BY <1>8, <2>1, <2>2
  <2>4. spent'["recovery"] = 0 => Served BY <1>7, <1>11 DEF OwnInv, Trouble, Handover
  <2> QED BY <1>10, <2>3, <2>4
<1> QED BY <1>6, <1>11 DEF OwnInv

-----------------------------------------------------------------------------
\* UE u becomes d in a step that gives it no RNTI it did not have, and leaves its context
\* only if it had another RNTI in a random access response.
Shrinks(c, d) == \A g \in Gnb, r \in Rnti : Uses(d, g, r) => Uses(c, g, r)
StaysConnected(c, d) ==
    /\ \A g \in Gnb, r \in Rnti : IsAt(c, g, r) => IsAt(d, g, r) \/ c.rar # 0
    /\ d.st = "CONNECTED_NORMALLY" => d.rar = 0 \/ (c.st = "CONNECTED_NORMALLY" /\ d.rar = c.rar)

\* What UE u tells is true.
IsTrue(u, a) ==
    /\ a.rnti \in Rnti => Uses(ue[u], a.gnb, a.rnti)
    /\ a.type \in {"SetupCompleted", "ReconfigurationCompleted"} => IsAt(ue'[u], a.gnb, a.rnti)

\* What a step of UE u keeps: it tells when it leaves its context.
UeKeeps(u) ==
    /\ \A v \in Ue : v # u => ue'[v] = ue[v]
    /\ Shrinks(ue[u], ue'[u])
    /\ \/ up' = up /\ StaysConnected(ue[u], ue'[u])
       \/ \E a \in UpMessage :
             /\ up' = To(up, u, a) /\ IsTrue(u, a)
             /\ \/ StaysConnected(ue[u], ue'[u])
                \/ /\ a.type = "IdealUeContextRemove" /\ ue'[u].st # "CONNECTED_NORMALLY"
                   /\ a.gnb = ue[u].cell /\ a.rnti = ue[u].rnti

\* The record of a UE is replaced.
LEMMA UeReplaced ==
  ASSUME UeOK, NEW u \in Ue, NEW d, ue' = [ue EXCEPT ![u] = d]
  PROVE  ue'[u] = d /\ \A v \in Ue : v # u => ue'[v] = ue[v]
BY DEF UeOK

\* A step of a UE without a message.
LEMMA QuietlyKeeps ==
  ASSUME UeOK, NEW u \in Ue, NEW d, ue' = [ue EXCEPT ![u] = d], up' = up,
         Shrinks(ue[u], d), StaysConnected(ue[u], d)
  PROVE  UeKeeps(u)
BY UeReplaced DEF UeKeeps

\* A step of a UE with a message to its gNB.
LEMMA TellingKeeps ==
  ASSUME UeOK, NEW u \in Ue, NEW d, ue' = [ue EXCEPT ![u] = d], NEW a \in UpMessage,
         up' = To(up, u, a), Shrinks(ue[u], d), StaysConnected(ue[u], d),
         a.rnti \in Rnti => Uses(ue[u], a.gnb, a.rnti),
         a.type \in {"SetupCompleted", "ReconfigurationCompleted"} => IsAt(d, a.gnb, a.rnti)
  PROVE  UeKeeps(u)
BY UeReplaced DEF UeKeeps, IsTrue

\* A step in which the UE stays as it is.
LEMMA NothingKeeps ==
  ASSUME UeOK, NEW u \in Ue, UNCHANGED <<ue, up>>
  PROVE  UeKeeps(u)
BY DEF UeKeeps, Shrinks, StaysConnected

\* A UE that is not connected and seeks a cell or accesses one.
LEMMA SeekingKeeps ==
  ASSUME NEW c, NEW d, c.st # "CONNECTED_NORMALLY",
         d.st \notin {"IDLE_CONNECTING"} \cup Connected, d.rar = 0
  PROVE  Shrinks(c, d) /\ StaysConnected(c, d)
<1>1. 0 \notin Rnti BY DEF Rnti
<1> QED BY <1>1 DEF Shrinks, StaysConnected, Uses, IsAt, Connected

\* Cell selection.
LEMMA SelectionKeeps ==
  ASSUME UeOK, NEW u \in Ue,
         \/ StartCellSelection(u) \/ ReportUeMeasurements(u)
         \/ RecvMasterInformationBlock(u) \/ RecvSystemInformation(u)
         \/ \E g \in Gnb : ForceCampedOnGnb(u, g)
         \/ \E g \in Gnb : \E s \in BOOLEAN : RecvSystemInformationBlockType1(u, g, s)
  PROVE  UeKeeps(u)
<1> DEFINE c == ue[u]
<1>0. c \in UeGood /\ c \in UeRecord BY UeIsGood
<1>1. up' = up
  BY DEF StartCellSelection, ForceCampedOnGnb, ReportUeMeasurements,
         RecvMasterInformationBlock, RecvSystemInformation, RecvSystemInformationBlockType1
<1>2. c.st \notin Accessing
  BY DEF StartCellSelection, ForceCampedOnGnb, ReportUeMeasurements, RecvMasterInformationBlock,
         RecvSystemInformation, RecvSystemInformationBlockType1, Accessing
<1>3. c.rar = 0 /\ c.st # "CONNECTED_NORMALLY" BY <1>0, <1>2 DEF UeGood, Accessing
<1>4. PICK st \in {"IDLE_CELL_SEARCH", "IDLE_WAIT_MIB_SIB1", "IDLE_WAIT_SIB1", "IDLE_WAIT_MIB",
                  "IDLE_WAIT_SIB2", "IDLE_RANDOM_ACCESS"} :
         \/ ue' = [ue EXCEPT ![u] = [c EXCEPT !.st = st]]
         \/ \E g \in Gnb : ue' = [ue EXCEPT ![u] = [c EXCEPT !.st = st, !.cell = g]]
  BY DEF StartCellSelection, ForceCampedOnGnb, ReportUeMeasurements, RecvMasterInformationBlock,
         RecvSystemInformation, RecvSystemInformationBlockType1, Become, SynchronizeToStrongestCell
<1>5. st \notin {"IDLE_CONNECTING"} \cup Connected BY DEF Connected
<1>6. ASSUME NEW d, ue' = [ue EXCEPT ![u] = d], d.st = st, d.rar = c.rar PROVE UeKeeps(u)
  BY <1>1, <1>3, <1>5, <1>6, SeekingKeeps, QuietlyKeeps
<1>7. CASE ue' = [ue EXCEPT ![u] = [c EXCEPT !.st = st]]
  <2>1. PICK d : d = [c EXCEPT !.st = st] OBVIOUS
  <2>2. d.st = st /\ d.rar = c.rar BY <1>0, <2>1 DEF UeRecord
  <2> QED BY <1>6, <1>7, <2>1, <2>2
<1>8. ASSUME NEW g \in Gnb, ue' = [ue EXCEPT ![u] = [c EXCEPT !.st = st, !.cell = g]]
      PROVE  UeKeeps(u)
  <2>1. PICK d : d = [c EXCEPT !.st = st, !.cell = g] OBVIOUS
  <2>2. d.st = st /\ d.rar = c.rar BY <1>0, <2>1 DEF UeRecord
  <2> QED BY <1>6, <1>8, <2>1, <2>2
<1> QED BY <1>4, <1>7, <1>8

\* A UE leaves its gNB, which is told.
LEMMA LeaveAndTellKeeps ==
  ASSUME UeOK, NEW u \in Ue, ue[u].st \in Connected, LeaveAndTell(u)
  PROVE  UeKeeps(u)
<1> DEFINE c == ue[u]
           a == [type |-> "IdealUeContextRemove", gnb |-> c.cell, rnti |-> c.rnti]
<1>0. c \in UeGood /\ c \in UeRecord BY UeIsGood
<1>1. c.cell \in Gnb BY <1>0 DEF UeGood, Placed, Connected
<1>2. ue' = [ue EXCEPT ![u] = Left(c)] /\ up' = To(up, u, a)
  BY DEF LeaveAndTell, Become, SendUp
<1>3. a \in UpMessage /\ a.type = "IdealUeContextRemove" /\ a.gnb = c.cell /\ a.rnti = c.rnti
  BY <1>0, <1>1 DEF UpMessage, UeRecord
<1>4. Left(c).st = "IDLE_CELL_SEARCH" /\ Left(c).rar = 0 BY <1>0, LeftIsGood
<1>5. ue'[u] = Left(c) /\ \A v \in Ue : v # u => ue'[v] = ue[v] BY <1>2, UeReplaced
<1> HIDE DEF a
<1>6. Shrinks(c, ue'[u])
  <2>1. 0 \notin Rnti BY DEF Rnti
  <2> QED BY <1>4, <1>5, <2>1 DEF Shrinks, Uses, Connected
<1>7. Uses(c, a.gnb, a.rnti) BY <1>3 DEF Uses
<1> QED BY <1>2, <1>3, <1>4, <1>5, <1>6, <1>7 DEF UeKeeps, IsTrue

\* A random access ends with an RNTI.
LEMMA SuccessKeeps ==
  ASSUME UeOK, NEW u \in Ue, NotifyRandomAccessSuccessful(u)
  PROVE  UeKeeps(u)
<1> DEFINE o == ue[u]
           c == [o EXCEPT !.rnti = ue[u].rar, !.rar = 0, !.rachAttempts = 0]
           m(type) == [type |-> type, gnb |-> c.cell, rnti |-> c.rnti]
<1>0. o \in UeGood /\ o \in UeRecord BY UeIsGood
<1>1. /\ c \in UeRecord /\ c.st = o.st /\ c.cell = o.cell /\ c.rar = 0 /\ c.rnti = o.rar
  <2>1. 0 \in 0 .. RachAttemptsLimit - 1 /\ 0 \in 0 .. MaxRnti BY UeAssumption, RanAssumption
  <2> QED BY <1>0, <2>1 DEF UeRecord
<1>2. o.rar # 0 /\ o.st \in Accessing /\ c.cell \in Gnb /\ c.rnti \in 0 .. MaxRnti
  <2>1. o.rar # 0 BY DEF NotifyRandomAccessSuccessful
  <2> QED BY <1>0, <1>1, <2>1 DEF UeGood, UeRecord, Accessing, Placed
<1>3. /\ m("ConnectionRequest") \in UpMessage /\ m("ReconfigurationCompleted") \in UpMessage
  BY <1>2 DEF UpMessage
<1>4. ASSUME NEW d, d.cell = o.cell, d.rnti = o.rar, d.rar = 0
      PROVE  Shrinks(o, d) /\ StaysConnected(o, d) /\ Uses(o, d.cell, d.rnti)
  <2>1. 0 \notin Rnti BY DEF Rnti
  <2> QED BY <1>2, <1>4, <2>1 DEF Shrinks, StaysConnected, Uses
<1>5. CASE /\ Become(u, [c EXCEPT !.st = "IDLE_CONNECTING"])
           /\ up' = To(up, u, m("ConnectionRequest"))
  <2> DEFINE d == [c EXCEPT !.st = "IDLE_CONNECTING"]
             a == m("ConnectionRequest")
  <2>1. d.cell = o.cell /\ d.rnti = o.rar /\ d.rar = 0 BY <1>1 DEF UeRecord
  <2>2. a \in UpMessage /\ a.type = "ConnectionRequest" /\ a.gnb = d.cell /\ a.rnti = d.rnti
    BY <1>1, <1>3, <2>1
  <2>3. ue' = [ue EXCEPT ![u] = d] /\ up' = To(up, u, a) BY <1>5 DEF Become
  <2> HIDE DEF a, d
  <2> QED BY <1>4, <2>1, <2>2, <2>3, TellingKeeps
<1>6. CASE /\ Become(u, [c EXCEPT !.st = "CONNECTED_NORMALLY"])
           /\ up' = To(up, u, m("ReconfigurationCompleted"))
  <2> DEFINE d == [c EXCEPT !.st = "CONNECTED_NORMALLY"]
             a == m("ReconfigurationCompleted")
  <2>1. d.cell = o.cell /\ d.rnti = o.rar /\ d.rar = 0 /\ d.st = "CONNECTED_NORMALLY"
    BY <1>1 DEF UeRecord
  <2>2. a \in UpMessage /\ a.gnb = d.cell /\ a.rnti = d.rnti BY <1>1, <1>3, <2>1
  <2>3. ue' = [ue EXCEPT ![u] = d] /\ up' = To(up, u, a) BY <1>6 DEF Become
  <2> HIDE DEF a, d
  <2>4. IsAt(d, a.gnb, a.rnti) BY <2>1, <2>2 DEF IsAt
  <2> QED BY <1>4, <2>1, <2>2, <2>3, <2>4, TellingKeeps
<1>7. CASE Become(u, c) /\ up' = up
  <2>1. ue' = [ue EXCEPT ![u] = c] BY <1>7 DEF Become
  <2> HIDE DEF c
  <2> QED BY <1>1, <1>4, <1>7, <2>1, QuietlyKeeps
<1> QED BY <1>5, <1>6, <1>7 DEF NotifyRandomAccessSuccessful, SendUp

\* What goes wrong for a UE, and the end of its patience.
LEMMA FaultKeeps ==
  ASSUME UeOK, NEW u \in Ue,
         NotifyRandomAccessFailed(u) \/ RaResponseTimeout(u) \/ RadioLinkFailureDetected(u)
         \/ ConnectionTimeout(u)
  PROVE  UeKeeps(u)
<1> DEFINE c == ue[u]
<1>0. c \in UeGood /\ c \in UeRecord BY UeIsGood
<1>1. CASE RadioLinkFailureDetected(u)
  BY <1>1, LeaveAndTellKeeps DEF RadioLinkFailureDetected
<1>2. ASSUME NEW d, Become(u, d), up' = up, Shrinks(c, d), StaysConnected(c, d) PROVE UeKeeps(u)
  BY <1>2, QuietlyKeeps DEF Become
<1>3. CASE RaResponseTimeout(u)
  <2> DEFINE d == [c EXCEPT !.rar = 0]
  <2>1. Become(u, d) /\ up' = up BY <1>3 DEF RaResponseTimeout
  <2>2. d.st = c.st /\ d.cell = c.cell /\ d.rnti = c.rnti /\ d.rar = 0 BY <1>0 DEF UeRecord
  <2> HIDE DEF d
  <2>3. Shrinks(c, d) /\ StaysConnected(c, d)
    <3>1. 0 \notin Rnti BY DEF Rnti
    <3> QED BY <2>2, <3>1 DEF Shrinks, StaysConnected, Uses, IsAt
  <2> QED BY <1>2, <2>1, <2>3
<1>4. CASE NotifyRandomAccessFailed(u)
  <2>1. c.rar = 0 BY <1>4 DEF NotifyRandomAccessFailed
  <2>2. CASE c.st = "CONNECTED_HANDOVER" /\ LeaveAndTell(u)
    BY <2>2, LeaveAndTellKeeps DEF Connected
  <2>3. ASSUME c.st = "IDLE_RANDOM_ACCESS", up' = up, NEW d, Become(u, d), d.rar = 0,
               d.st \in {"IDLE_RANDOM_ACCESS", "IDLE_WAIT_MIB_SIB1", "IDLE_CELL_SEARCH"}
        PROVE  UeKeeps(u)
    <3>1. d.st \notin {"IDLE_CONNECTING"} \cup Connected /\ c.st # "CONNECTED_NORMALLY"
      BY <2>3 DEF Connected
    <3> QED BY <1>2, <2>3, <3>1, SeekingKeeps
  <2>4. ASSUME c.st = "IDLE_RANDOM_ACCESS", up' = up,
               Become(u, [c EXCEPT !.rachAttempts = @ + 1])
        PROVE  UeKeeps(u)
    <3>1. PICK d : d = [c EXCEPT !.rachAttempts = @ + 1] OBVIOUS
    <3>2. d.st = c.st /\ d.rar = c.rar BY <1>0, <3>1 DEF UeRecord
    <3> QED BY <2>1, <2>3, <2>4, <3>1, <3>2
  <2>5. ASSUME c.st = "IDLE_RANDOM_ACCESS", up' = up, NEW found \in BOOLEAN,
               Become(u, SynchronizeToStrongestCell([c EXCEPT !.rachAttempts = 0], found))
        PROVE  UeKeeps(u)
    <3>1. PICK e : e = [c EXCEPT !.rachAttempts = 0] OBVIOUS
    <3>2. PICK st \in {"IDLE_WAIT_MIB_SIB1", "IDLE_CELL_SEARCH"} :
             SynchronizeToStrongestCell(e, found) = [e EXCEPT !.st = st]
      BY DEF SynchronizeToStrongestCell
    <3>3. PICK d : d = [e EXCEPT !.st = st] OBVIOUS
    <3>4. d.st = st /\ d.rar = c.rar BY <1>0, <3>1, <3>3 DEF UeRecord
    <3>5. Become(u, d) BY <2>5, <3>1, <3>2, <3>3
    <3> QED BY <2>1, <2>3, <2>5, <3>4, <3>5
  <2> QED BY <1>4, <2>2, <2>4, <2>5 DEF NotifyRandomAccessFailed
<1>5. CASE ConnectionTimeout(u)
  <2>1. c.st = "IDLE_CONNECTING" /\ up' = up BY <1>5 DEF ConnectionTimeout
  <2>2. c.rar = 0 BY <1>0, <2>1 DEF UeGood, Accessing
  <2>3. PICK d : /\ Become(u, d)
                 /\ \/ \E n : d = [Left(c) EXCEPT !.connEstFails = n]
                    \/ \E n : d = [c EXCEPT !.st = "IDLE_WAIT_SIB2", !.connEstFails = n]
    BY <1>5 DEF ConnectionTimeout
  <2>4. d.st \in {"IDLE_CELL_SEARCH", "IDLE_WAIT_SIB2"} /\ d.rar = 0
    <3>1. Left(c) \in UeRecord /\ Left(c).st = "IDLE_CELL_SEARCH" /\ Left(c).rar = 0
      BY <1>0, LeftIsGood
    <3>2. PICK l : l = Left(c) OBVIOUS
    <3>3. ASSUME NEW n, d = [l EXCEPT !.connEstFails = n]
          PROVE  d.st = "IDLE_CELL_SEARCH" /\ d.rar = 0
      BY <3>1, <3>2, <3>3 DEF UeRecord
    <3>4. ASSUME NEW n, d = [c EXCEPT !.st = "IDLE_WAIT_SIB2", !.connEstFails = n]
          PROVE  d.st = "IDLE_WAIT_SIB2" /\ d.rar = 0
      BY <1>0, <2>2, <3>4 DEF UeRecord
    <3> QED BY <2>3, <3>2, <3>3, <3>4
  <2>5. d.st \notin {"IDLE_CONNECTING"} \cup Connected /\ c.st # "CONNECTED_NORMALLY"
    BY <2>1, <2>4 DEF Connected
  <2> QED BY <1>2, <2>1, <2>3, <2>4, <2>5, SeekingKeeps
<1> QED BY <1>1, <1>3, <1>4, <1>5

\* A UE receives a message other than a handover command.
LEMMA RecvDownUeKeeps ==
  ASSUME UeOK, NEW u \in Ue, NEW m \in DownMessage, DownExpected(u, m), RecvDown(u, m),
         m.type # "HandoverCommand"
  PROVE  UeKeeps(u)
<1> DEFINE c == ue[u]
<1>0. c \in UeGood /\ c \in UeRecord BY UeIsGood
<1>1. CASE UNCHANGED <<ue, up>> BY <1>1, NothingKeeps
<1>2. CASE m.type = "ConnectionSetup" /\ RecvRrcConnectionSetup(u)
  <2> DEFINE d == [c EXCEPT !.st = "CONNECTED_NORMALLY", !.connEstFails = 0]
             a == [type |-> "SetupCompleted", gnb |-> c.cell, rnti |-> c.rnti]
  <2>1. c.st = "IDLE_CONNECTING" BY <1>2 DEF DownExpected
  <2>2. ue' = [ue EXCEPT ![u] = d] /\ up' = To(up, u, a)
    BY <1>2, <2>1 DEF RecvRrcConnectionSetup, SendUp, Become
  <2>3. c.cell \in Gnb /\ c.rar = 0 BY <1>0, <2>1 DEF UeGood, Placed, Accessing
  <2>4. d.st = "CONNECTED_NORMALLY" /\ d.cell = c.cell /\ d.rnti = c.rnti /\ d.rar = 0
    BY <1>0, <2>3 DEF UeRecord
  <2>5. a \in UpMessage /\ a.gnb = c.cell /\ a.rnti = c.rnti
    BY <1>0, <2>3 DEF UpMessage, UeRecord
  <2> HIDE DEF d, a
  <2>6. Shrinks(c, d) /\ StaysConnected(c, d)
    <3>1. 0 \notin Rnti BY DEF Rnti
    <3> QED BY <2>1, <2>4, <3>1 DEF Shrinks, StaysConnected, Uses, IsAt
  <2>7. Uses(c, a.gnb, a.rnti) /\ IsAt(d, a.gnb, a.rnti) BY <2>1, <2>4, <2>5 DEF Uses, IsAt
  <2> QED BY <2>2, <2>5, <2>6, <2>7, TellingKeeps
<1>3. CASE m.type = "ConnectionReject" /\ RecvRrcConnectionReject(u)
  <2>1. c.st = "IDLE_CONNECTING" BY <1>3 DEF DownExpected
  <2>2. c.rar = 0 BY <1>0, <2>1 DEF UeGood, Accessing
  <2>3. PICK d : d = [c EXCEPT !.st = "IDLE_WAIT_SIB2"] OBVIOUS
  <2>4. ue' = [ue EXCEPT ![u] = d] /\ up' = up BY <1>3, <2>3 DEF RecvRrcConnectionReject, Become
  <2>5. d.st = "IDLE_WAIT_SIB2" /\ d.rar = 0 BY <1>0, <2>2, <2>3 DEF UeRecord
  <2>6. d.st \notin {"IDLE_CONNECTING"} \cup Connected /\ c.st # "CONNECTED_NORMALLY"
    BY <2>1, <2>5 DEF Connected
  <2> QED BY <2>4, <2>5, <2>6, SeekingKeeps, QuietlyKeeps
<1>4. ASSUME RecvRrcConnectionReconfiguration(u), c.st = "CONNECTED_NORMALLY" PROVE UeKeeps(u)
  <2> DEFINE a == [type |-> "ReconfigurationCompleted", gnb |-> c.cell, rnti |-> c.rnti]
  <2>1. c.cell \in Gnb BY <1>0, <1>4 DEF UeGood, Placed
  <2>2. a \in UpMessage /\ a.gnb = c.cell /\ a.rnti = c.rnti
    BY <1>0, <2>1 DEF UpMessage, UeRecord
  <2>3. up' = To(up, u, a) /\ ue' = ue
    BY <1>4 DEF RecvRrcConnectionReconfiguration, SendUp
  <2> HIDE DEF a
  <2>4. Uses(c, a.gnb, a.rnti) /\ IsAt(c, a.gnb, a.rnti)
    BY <1>4, <2>2 DEF Uses, IsAt, Connected
  <2>5. Shrinks(c, c) /\ StaysConnected(c, c) BY DEF Shrinks, StaysConnected
  <2> QED BY <2>2, <2>3, <2>4, <2>5 DEF UeKeeps, IsTrue
<1>5. CASE c.st \in Connected /\ LeaveAndTell(u) BY <1>5, LeaveAndTellKeeps
<1> QED BY <1>1, <1>2, <1>3, <1>4, <1>5
        DEF RecvDown, RecvRrcConnectionRelease, RecvRrcConnectionReconfiguration, UeAbort

-----------------------------------------------------------------------------
\* The invariant after a step of UE u, when no message was for a gNB.
LEMMA OwnedAfterUe ==
  ASSUME NEW own, Owned(own), NEW u \in Ue, up = NoMessage, down' = NoMessage,
         UNCHANGED gnbSide, \A v \in Ue : v # u => ue'[v] = ue[v],
         \A g \in Gnb, r \in Rnti : Uses(ue'[u], g, r) => Owns(own, lastRnti, g, r, u),
         \/ up' = up
         \/ \E a \in UpMessage : /\ up' = To(up, u, a)
                                 /\ a.rnti \in Rnti => Owns(own, lastRnti, a.gnb, a.rnti, u)
  PROVE  Owned(own)'
<1>1. ctx' = ctx /\ lastRnti' = lastRnti /\ x2' = x2 BY DEF gnbSide, gnbVars
<1>2. CtxOwned(own)' /\ SourcesOwned(own)' /\ X2Owned(own)'
  BY <1>1 DEF Owned, CtxOwned, SourcesOwned, X2Owned
<1>3. UesOwned(own)'
  <2>1. ASSUME NEW v \in Ue, NEW g \in Gnb, NEW r \in Rnti, Uses(ue'[v], g, r)
        PROVE  Owns(own, lastRnti, g, r, v)
    BY <2>1 DEF Owned, UesOwned
  <2> QED BY <1>1, <2>1 DEF UesOwned
<1>4. UpOwned(own)'
  <2>1. CASE up' = up BY <2>1, OnlySent DEF UpOwned
  <2>2. ASSUME NEW a \in UpMessage, up' = To(up, u, a),
               a.rnti \in Rnti => Owns(own, lastRnti, a.gnb, a.rnti, u)
        PROVE  UpOwned(own)'
    <3>1. up' = Only(u, a) BY <2>2, OnlySent
    <3>2. \A v \in Ue : up'[v] # <<>> => v = u /\ Head(up'[v]) = a BY <3>1, OnlySent
    <3> QED BY <1>1, <2>2, <3>2 DEF UpOwned
  <2> QED BY <2>1, <2>2
<1>5. DownOwned(own)' BY OnlySent DEF DownOwned
<1> QED BY <1>2, <1>3, <1>4, <1>5 DEF Owned

\* A context goes on to serve the UE, or the UE is leaving it.
LEMMA ServedAfterUe ==
  ASSUME Served, NEW u \in Ue, up = NoMessage, down' = NoMessage, UNCHANGED gnbSide, UeKeeps(u)
  PROVE  Served'
<1>1. ctx' = ctx BY DEF gnbSide, gnbVars
<1>2. ASSUME NEW g \in Gnb, NEW r \in Rnti, ctx[g][r].st \in Serves
      PROVE  \E v \in Ue : v = ctx[g][r].imsi /\ (IsAt(ue'[v], g, r) \/ Leaves(v, g, r)')
  <2>1. PICK v \in Ue : v = ctx[g][r].imsi /\ (IsAt(ue[v], g, r) \/ Leaves(v, g, r))
    BY <1>2 DEF Served, ServedOnce
  <2>2. IsAt(ue[v], g, r) BY <2>1, OnlySent DEF Leaves
  <2>3. CASE v # u BY <2>1, <2>2, <2>3 DEF UeKeeps
  <2>4. CASE v = u
    <3>1. ue[u].rar = 0 BY <2>2, <2>4 DEF Served, RntiKept, IsAt
    <3>2. CASE StaysConnected(ue[u], ue'[u])
      BY <2>1, <2>2, <2>4, <3>1, <3>2 DEF StaysConnected
    <3>3. ASSUME NEW a \in UpMessage, up' = To(up, u, a), a.type = "IdealUeContextRemove",
                 a.gnb = ue[u].cell, a.rnti = ue[u].rnti
          PROVE  Leaves(u, g, r)'
      <4>1. up' = Only(u, a) BY <3>3, OnlySent
      <4>2. up'[u] # <<>> /\ Head(up'[u]) = a BY <4>1, OnlySent
      <4> QED BY <2>2, <2>4, <3>3, <4>2 DEF Leaves, IsAt
    <3> QED BY <2>1, <2>4, <3>2, <3>3 DEF UeKeeps
  <2> QED BY <2>3, <2>4
<1>3. ServedOnce' BY <1>1, <1>2 DEF ServedOnce
<1>4. CommandedUnserved' BY OnlySent DEF CommandedUnserved
<1>5. RntiKept'
  BY DEF Served, RntiKept, UeKeeps, StaysConnected
<1> QED BY <1>3, <1>4, <1>5 DEF Served

\* What is completed is completed.
LEMMA CompletedAfterUe ==
  ASSUME NEW u \in Ue, up = NoMessage, UeKeeps(u)
  PROVE  CompletedAt'
<1>1. CASE up' = up BY <1>1, OnlySent DEF CompletedAt
<1>2. ASSUME NEW a \in UpMessage, up' = To(up, u, a), IsTrue(u, a) PROVE CompletedAt'
  <2>1. up' = Only(u, a) BY <1>2, OnlySent
  <2>2. \A v \in Ue : up'[v] # <<>> => v = u /\ Head(up'[v]) = a BY <2>1, OnlySent
  <2> QED BY <1>2, <2>2 DEF CompletedAt, IsTrue
<1> QED BY <1>1, <1>2 DEF UeKeeps

\* A step of a UE that is not a handover.
LEMMA UeStepOwnInv ==
  ASSUME OwnInv, Inv', NEW u \in Ue, up = NoMessage, down' = NoMessage, UNCHANGED gnbSide,
         UNCHANGED spent \/ Spend("fault"), UeKeeps(u)
  PROVE  OwnInv'
<1>1. \A kind \in Trouble : spent'[kind] = 0 => spent[kind] = 0
  BY SpentGrows DEF OwnInv, Inv
<1>2. ASSUME NEW own, Owned(own) PROVE Owned(own)'
  <2>1. ASSUME NEW g \in Gnb, NEW r \in Rnti, Uses(ue[u], g, r)
        PROVE  Owns(own, lastRnti, g, r, u)
    BY <1>2, <2>1 DEF Owned, UesOwned
  <2>2. \A a \in UpMessage : IsTrue(u, a) =>
           (a.rnti \in Rnti => Owns(own, lastRnti, a.gnb, a.rnti, u))
    BY <2>1 DEF IsTrue, UpMessage
  <2>3. \A g \in Gnb, r \in Rnti : Uses(ue'[u], g, r) => Owns(own, lastRnti, g, r, u)
    BY <2>1 DEF UeKeeps, Shrinks
  <2>4. \/ up' = up
        \/ \E a \in UpMessage : /\ up' = To(up, u, a)
                                /\ a.rnti \in Rnti => Owns(own, lastRnti, a.gnb, a.rnti, u)
    BY <2>2 DEF UeKeeps
  <2>5. \A v \in Ue : v # u => ue'[v] = ue[v] BY DEF UeKeeps
  <2> QED BY <1>2, <2>3, <2>4, <2>5, OwnedAfterUe
<1>3. Served => Served' BY ServedAfterUe
<1>4. CompletedAt' BY CompletedAfterUe
<1>5. ASSUME spent'["overlap"] = 0
      PROVE  /\ \E own \in Owners : Owned(own)'
             /\ spent'["recovery"] = 0 => Served'
  BY <1>1, <1>2, <1>3, <1>5 DEF OwnInv, Trouble, Handover
<1> QED BY <1>4, <1>5 DEF OwnInv

\* A UE turns to the target of a handover.
LEMMA HandoverOwnInv ==
  ASSUME OwnInv, Inv', NEW u \in Ue, NEW m \in DownMessage, down[u] # <<>>, Head(down[u]) = m,
         m.type = "HandoverCommand", RecvHandoverCommand(u, m.gnb, m.rnti), up = NoMessage,
         down' = NoMessage, UNCHANGED <<gnbSide, spent>>
  PROVE  OwnInv'
<1> DEFINE c == ue[u]
           d == [c EXCEPT !.st = "CONNECTED_HANDOVER", !.cell = m.gnb, !.rnti = m.rnti, !.rar = 0]
<1>1. UeOK BY DEF OwnInv, Inv
<1>2. CASE UNCHANGED <<ue, up>>
  <2>1. UeKeeps(u) BY <1>1, <1>2, NothingKeeps
  <2> QED BY <2>1, UeStepOwnInv
<1>3. ASSUME ue' = [ue EXCEPT ![u] = d], up' = up PROVE OwnInv'
  <2>1. d.st = "CONNECTED_HANDOVER" /\ d.cell = m.gnb /\ d.rnti = m.rnti /\ d.rar = 0
    BY <1>1, UeIsGood DEF UeRecord
  <2>2. ue'[u] = d /\ \A v \in Ue : v # u => ue'[v] = ue[v] BY <1>1, <1>3, UeReplaced
  <2> HIDE DEF d
  <2>3. ASSUME NEW own, Owned(own) PROVE Owned(own)'
    <3>1. ASSUME NEW g \in Gnb, NEW r \in Rnti, Uses(ue'[u], g, r)
          PROVE  Owns(own, lastRnti, g, r, u)
      <4>1. g = m.gnb /\ r = m.rnti
        <5>1. 0 \notin Rnti BY DEF Rnti
        <5> QED BY <2>1, <2>2, <3>1, <5>1 DEF Uses
      <4> QED BY <2>3, <4>1 DEF Owned, DownOwned
    <3> QED BY <1>3, <2>2, <2>3, <3>1, OwnedAfterUe
  <2>4. ASSUME Served PROVE Served'
    <3>1. ctx' = ctx BY DEF gnbSide, gnbVars
    <3>2. \A v \in Ue, g \in Gnb, r \in Rnti : ~Leaves(v, g, r) BY OnlySent DEF Leaves
    <3>3. ASSUME NEW g \in Gnb, NEW r \in Rnti, ctx[g][r].st \in Serves
          PROVE  \E v \in Ue : v = ctx[g][r].imsi /\ IsAt(ue'[v], g, r)
      <4>1. PICK v \in Ue : v = ctx[g][r].imsi /\ IsAt(ue[v], g, r)
        BY <2>4, <3>2, <3>3 DEF Served, ServedOnce
      <4>2. v # u BY <2>4, <3>3, <4>1 DEF Served, CommandedUnserved
      <4> QED BY <2>2, <4>1, <4>2
    <3>4. ServedOnce' BY <3>1, <3>3 DEF ServedOnce
    <3>5. CommandedUnserved' BY OnlySent DEF CommandedUnserved
    <3>6. RntiKept' BY <2>1, <2>2, <2>4 DEF Served, RntiKept
    <3> QED BY <3>4, <3>5, <3>6 DEF Served
  <2>5. CompletedAt' BY <1>3, OnlySent DEF CompletedAt
  <2> QED BY <2>3, <2>4, <2>5 DEF OwnInv
<1> QED BY <1>2, <1>3 DEF RecvHandoverCommand, UeAbort, Become

-----------------------------------------------------------------------------
\* Initially no RNTI has an owner.
LEMMA InitOwnInv == Init => OwnInv
<1> SUFFICES ASSUME Init PROVE OwnInv OBVIOUS
<1>1. Inv BY InitInv
<1>2. up = NoMessage /\ down = NoMessage BY DEF Init, NoMessage
<1>3. CompletedAt BY <1>2, OnlySent DEF CompletedAt
<1>4. \A g \in Gnb, r \in Rnti : ctx[g][r].st = "NONE"
  BY DEF Init, GnbInit, NoContext, NewContext
<1>5. \A u \in Ue : ue[u].st = "IDLE_START" /\ ue[u].rar = 0 BY DEF Init, UeInit
<1> DEFINE own == [g \in Gnb |-> [r \in Rnti |-> None]]
<1>6. Owned(own)
  <2>1. own \in Owners BY DEF Owners
  <2> HIDE DEF own
  <2>2. CtxOwned(own) /\ SourcesOwned(own) BY <1>4 DEF CtxOwned, SourcesOwned, Joined
  <2>3. X2Owned(own) BY DEF Init, GnbInit, X2Owned
  <2>4. UesOwned(own)
    <3>1. 0 \notin Rnti BY DEF Rnti
    <3> QED BY <1>5, <3>1 DEF UesOwned, Uses, Connected
  <2>5. UpOwned(own) /\ DownOwned(own) BY <1>2, OnlySent DEF UpOwned, DownOwned
  <2> QED BY <2>1, <2>2, <2>3, <2>4, <2>5 DEF Owned
<1>7. Served
  <2>1. ServedOnce /\ RntiKept BY <1>4, <1>5 DEF ServedOnce, RntiKept, Serves
  <2>2. CommandedUnserved BY <1>2, OnlySent DEF CommandedUnserved
  <2> QED BY <2>1, <2>2 DEF Served
<1>8. own \in Owners BY DEF Owners
<1> HIDE DEF own
<1> QED BY <1>1, <1>3, <1>6, <1>7, <1>8 DEF OwnInv

\* Every step keeps the invariant.
LEMMA NextOwnInv ==
  ASSUME OwnInv, [Next]_vars
  PROVE  OwnInv'
<1>0. Inv /\ Inv' /\ GInv BY NextInv DEF OwnInv, Inv
<1>1. CASE UNCHANGED vars
  <2>1. UNCHANGED <<ctx, lastRnti, x2, ue, up, down, spent>> BY <1>1 DEF vars, gnbVars, airVars
  <2>2. CompletedAt' BY <2>1 DEF OwnInv, CompletedAt
  <2>3. Served => Served'
    BY <2>1 DEF Served, ServedOnce, CommandedUnserved, RntiKept, Leaves
  <2>4. ASSUME NEW own, Owned(own) PROVE Owned(own)'
    BY <2>1, <2>4 DEF Owned, CtxOwned, SourcesOwned, X2Owned, UesOwned, UpOwned, DownOwned
  <2> QED BY <1>0, <2>1, <2>2, <2>3, <2>4 DEF OwnInv
<1>2. ASSUME abort = "none", NEW u \in Ue, DeliverUp(u) PROVE OwnInv'
  BY <1>0, <1>2, DeliverUpOwnInv
<1>3. ASSUME NEW u \in Ue, DeliverDown(u) PROVE OwnInv'
  <2> DEFINE m == Head(down[u])
  <2>1. m \in DownMessage /\ DownExpected(u, m) /\ up = NoMessage /\ down' = NoMessage
    BY <1>0, <1>3, TakeDown DEF Inv, DeliverDown
  <2>2. UNCHANGED gnbSide /\ down[u] # <<>> /\ (UNCHANGED spent \/ Spend("fault"))
    BY <1>3 DEF DeliverDown
  <2>3. CASE m.type = "HandoverCommand" /\ RecvDown(u, m) /\ UNCHANGED spent
    <3>1. RecvHandoverCommand(u, m.gnb, m.rnti) BY <2>3 DEF RecvDown
    <3> QED BY <1>0, <2>1, <2>2, <2>3, <3>1, HandoverOwnInv
  <2>4. CASE m.type # "HandoverCommand" /\ RecvDown(u, m)
    <3>1. UeKeeps(u) BY <1>0, <2>1, <2>4, RecvDownUeKeeps DEF Inv
    <3> QED BY <1>0, <2>1, <2>2, <3>1, UeStepOwnInv
  <2>5. CASE RefuseHandoverCommand(u, m)
    <3>1. UeKeeps(u) BY <1>0, <2>5, FaultKeeps DEF Inv, RefuseHandoverCommand
    <3> QED BY <1>0, <2>1, <2>2, <3>1, UeStepOwnInv
  <2> QED BY <1>3, <2>3, <2>4, <2>5 DEF DeliverDown
<1>4. ASSUME InstantOver, NEW u \in Ue, RaPreamble(u) \/ RecoverUplink(u) PROVE OwnInv'
  BY <1>0, <1>4, RandomAccessOwnInv
<1>5. ASSUME InstantOver, NEW u \in Ue, UeStep(u) \/ UeFault(u) PROVE OwnInv'
  <2>1. UNCHANGED <<gnbSide, down>> /\ (UNCHANGED spent \/ Spend("fault"))
    BY <1>5 DEF UeStep, UeFault
  <2>2. UeOK /\ up = NoMessage /\ down = NoMessage BY <1>0, <1>5, NothingInTheAir DEF Inv
  <2>3. UeKeeps(u)
    <3>1. CASE \E g \in Gnb : \/ ForceCampedOnGnb(u, g)
                              \/ RecvSystemInformationBlockType1(u, g, TRUE)
                              \/ RecvSystemInformationBlockType1(u, g, FALSE)
      BY <2>2, <3>1, SelectionKeeps
    <3>2. CASE \/ StartCellSelection(u) \/ ReportUeMeasurements(u)
               \/ RecvMasterInformationBlock(u) \/ RecvSystemInformation(u)
      BY <2>2, <3>2, SelectionKeeps
    <3>3. CASE NotifyRandomAccessSuccessful(u) BY <2>2, <3>3, SuccessKeeps
    <3>4. CASE \/ NotifyRandomAccessFailed(u) \/ RaResponseTimeout(u)
               \/ RadioLinkFailureDetected(u) \/ ConnectionTimeout(u)
      BY <2>2, <3>4, FaultKeeps
    <3> QED BY <1>5, <3>1, <3>2, <3>3, <3>4 DEF UeStep, UeFault
  <2> QED BY <1>0, <2>1, <2>2, <2>3, UeStepOwnInv
<1>6. ASSUME InstantOver, UNCHANGED <<up, ue>>,
             \/ UNCHANGED spent \/ Spend("fault") \/ Spend("recovery")
             \/ Spend("reconfig") \/ Spend("overlap") \/ Spend("handover") \/ Spend("return"),
             \A own : Owned(own) => Steady(own)
      PROVE  OwnInv'
  <2>1. \A own : Owned(own) => Grows(own, own) BY DEF Owned, Grows
  <2> QED BY <1>0, <1>6, <2>1, BetweenInstantsOwnInv
<1>7. ASSUME InstantOver, X2Step PROVE OwnInv'
  <2>1. PICK g \in Gnb, h \in Gnb, answer \in {"admit", "reject", "noPreamble"} :
           RecvX2(g, h, answer) /\ (UNCHANGED spent \/ Spend("fault"))
    BY <1>7 DEF X2Step
  <2>2. \A own : Owned(own) => \E new : Grows(own, new) /\ Steady(new)
    BY <1>0, <2>1, X2StepSteady
  <2>3. UNCHANGED <<up, ue>> BY <1>7 DEF X2Step
  <2> QED BY <1>0, <1>7, <2>1, <2>2, <2>3, BetweenInstantsOwnInv
<1>8. ASSUME InstantOver, EpcStep PROVE OwnInv'
  <2>1. CASE Serve /\ UNCHANGED <<gnbVars, x2, airVars, abort, ue, spent>>
    <3>1. \A own : Owned(own) => Steady(own)
      BY <1>0, <2>1, SteadyStutter DEF airVars
    <3> QED BY <1>6, <1>8, <2>1, <3>1 DEF airVars
  <2>2. ASSUME NEW g \in Gnb, NEW req, req = Head(requests), Answer(req, g),
               \/ req.type = "Create" /\ InitialContextSetupRequest(g, req.ue, req.session)
               \/ req.type = "Modify" /\ PathSwitchRequestAcknowledge(g, req.ue),
               UNCHANGED <<up, ue, spent>>
        PROVE  OwnInv'
    <3>1. EpcOK' /\ req \in Request /\ (req.type = "Create" => req.session # 0)
      BY <1>0, <2>2, AnswerKeeps DEF GInv
    <3>2. req.ue \in Ue /\ (req.type = "Create" => req.session \in Session)
      <4>1. req.session \in 0 .. MaxSession /\ req.ue \in Ue BY <3>1 DEF Request
      <4> QED BY <3>1, <4>1, EpcAssumption DEF Session
    <3>3. \A own : Owned(own) => Steady(own)
      BY <1>0, <2>2, <3>2, ContextSetupSteady, PathSwitchSteady
    <3> QED BY <1>6, <1>8, <2>2, <3>3
  <2> QED BY <1>8, <2>1, <2>2 DEF EpcStep
<1>9. ASSUME InstantOver, NEW g \in Gnb, NEW r \in Rnti, GnbTimeout(g, r) PROVE OwnInv'
  <2>1. PICK t \in Timer : Timeout(g, r, t) BY <1>9 DEF GnbTimeout
  <2>2. \A own : Owned(own) => Steady(own) BY <1>0, <1>9, <2>1, TimeoutSteady
  <2> QED BY <1>6, <1>9, <2>2 DEF GnbTimeout
<1>10. ASSUME InstantOver, NEW g \in Gnb, NEW r \in Rnti, Reconfigure(g, r) PROVE OwnInv'
  <2>1. ScheduleRrcConnectionReconfiguration(g, r) /\ UNCHANGED <<up, ue>>
        /\ Spend("reconfig")
    BY <1>10 DEF Reconfigure
  <2>2. \A own : Owned(own) => Steady(own) BY <1>0, <1>10, <2>1, ScheduleSteady
  <2> QED BY <1>6, <1>10, <2>1, <2>2
<1>11. ASSUME InstantOver, NEW g \in Gnb, NEW r \in Rnti, NEW h \in Gnb, DecideHandover(g, r, h)
       PROVE  OwnInv'
  <2>1. PrepareHandover(g, r, h) /\ UNCHANGED <<up, ue>> /\ (Spend("handover") \/ Spend("return"))
    BY <1>11 DEF DecideHandover
  <2>2. \A own : Owned(own) => Steady(own) BY <1>0, <1>11, <2>1, PrepareSteady
  <2> QED BY <1>6, <1>11, <2>1, <2>2
<1> QED BY <1>1, <1>2, <1>3, <1>4, <1>5, <1>7, <1>8, <1>9, <1>10, <1>11
        DEF Next, Progress, Disturbance

-----------------------------------------------------------------------------
\* OwnInv is an invariant of the specification.
THEOREM OwnInvHolds == Spec => []OwnInv
BY InitOwnInv, NextOwnInv, PTL DEF Spec

\* The contexts at the two ends of a handover belong to the same UE, however late the X2
\* messages that carry their numbers are (HandoverJoinsOneUe): handover requests, their
\* acknowledgements and the contexts made of them name an RNTI of that UE.
THEOREM HandoverJoins == Spec => []HandoverJoinsOneUe
<1>1. OwnInv => HandoverJoinsOneUe
  <2> SUFFICES ASSUME OwnInv, spent["overlap"] = 0, NEW g \in Gnb, NEW r \in Rnti,
                      ctx[g][r].st \in Joined,
                      HasUeManager(ctx[g][r].source, ctx[g][r].sourceId)
               PROVE  ctx[ctx[g][r].source][ctx[g][r].sourceId].imsi = ctx[g][r].imsi
    BY DEF HandoverJoinsOneUe, Joined
  <2> DEFINE c == ctx[g][r]
  <2>1. PICK own \in Owners : Owned(own) BY DEF OwnInv
  <2>2. Owns(own, lastRnti, c.source, c.sourceId, c.imsi) /\ Told(ctx, c.source, c.sourceId)
    BY <2>1 DEF Owned, SourcesOwned
  <2>3. c.source \in Gnb
    <3>1. c \in Good(g) BY ContextIsGood DEF OwnInv, Inv, GInv
    <3> QED BY <3>1 DEF Good, Joined
  <2>4. c.sourceId \in Rnti /\ ctx[c.source][c.sourceId].st # "NONE" BY DEF HasUeManager
  <2>5. ctx[c.source][c.sourceId].imsi # None BY <2>2, <2>4 DEF Told
  <2> QED BY <2>1, <2>2, <2>3, <2>4, <2>5 DEF Owned, CtxOwned, Owns
<1> QED BY <1>1, OwnInvHolds, PTL

\* A gNB serves a UE through one context only, and it is the one the UE uses
\* (OneContextServes), as long as no UE takes an RNTI other than its own.
THEOREM OneContext == Spec => []OneContextServes
<1>1. OwnInv => OneContextServes
  <2> SUFFICES ASSUME OwnInv, spent["recovery"] = 0, spent["overlap"] = 0, InstantOver,
                      NEW g \in Gnb, NEW r \in Serving(g)
               PROVE  IsServedBy(ctx[g][r].imsi, g, r)
    BY DEF OneContextServes
  <2>1. r \in Rnti /\ ctx[g][r].st \in Serves BY DEF Serving, Serves
  <2>2. PICK u \in Ue : u = ctx[g][r].imsi /\ (IsAt(ue[u], g, r) \/ Leaves(u, g, r))
    BY <2>1 DEF OwnInv, Served, ServedOnce
  <2>3. ~Leaves(u, g, r) BY DEF InstantOver, Leaves
  <2> QED BY <2>2, <2>3 DEF IsServedBy, IsAt, Connected
<1> QED BY <1>1, OwnInvHolds, PTL
=============================================================================
