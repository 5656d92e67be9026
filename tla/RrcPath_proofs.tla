--------------------------- MODULE RrcPath_proofs ---------------------------
(***************************************************************************)
(* The path of downlink packets, from the core network to the context that *)
(* the UE uses (DownlinkReachesUe), for every number of UEs, gNBs, RNTIs   *)
(* and sessions.  A session has an end point at one gNB, and that gNB has  *)
(* two tables between sessions and RNTIs; connection set-up, handover,     *)
(* path switch and release move the three of them at different times.      *)
(*                                                                         *)
(* The invariant (PathInv) says for each UE what is true of them while the *)
(* core network was asked for nothing (Fed), while it was asked and did    *)
(* not answer (Awaited), and of the context that a handover sent the UE to *)
(* (JoinReady); and that TEIDs which are to be erased are so before their  *)
(* session comes back to the gNB (TargetForgets): the release that erases  *)
(* them is ahead of the handover request on the same link.                 *)
(***************************************************************************)
EXTENDS Rrc_proofs

\* States of a context that waits for the core network, and of one that was answered.
Awaits == {"ATTACH_REQUEST", "HANDOVER_PATH_SWITCH"}
Reached == Serves \ Awaits

\* A request for UE v is not answered; request i is the only one.
Asked(v) == \E i \in 1 .. Len(requests) : requests[i].ue = v
Alone(v, i) ==
    /\ i \in 1 .. Len(requests) /\ requests[i].ue = v
    /\ \A j \in 1 .. Len(requests) : requests[j].ue = v => j = i

\* Context r of g is the one the answers of the core network for UE v go to.
Latest(v, g, r) == mmeCell[v] = g /\ imsiRnti[g][v] = r

\* The UE each session was created for; it does not matter for those not created yet.
SessionOwners == [Session -> Ue \cup {None}]
IsOf(sown, n, s, v) == v \in Ue /\ s \in 1 .. n /\ sown[s] = v
Known(sown, s, v) == IsOf(sown, sessions, s, v)

\* TEIDs are those of a session of the UE whose packets they carry, wherever they are.
SessionsKnown(sown) ==
    /\ \A g \in Gnb, r \in Rnti :
          ctx[g][r].st # "NONE" /\ ctx[g][r].session # 0 =>
             Known(sown, ctx[g][r].session, ctx[g][r].imsi)
    /\ \A v \in Ue : downlink[v] # 0 => Known(sown, downlink[v], v)
    /\ \A i \in 1 .. Len(requests) :
          requests[i].session # 0 => Known(sown, requests[i].session, requests[i].ue)
    /\ \A g, h \in Gnb : \A i \in 1 .. Len(x2[h][g]) :
          x2[h][g][i].type = "HandoverRequest" => Known(sown, x2[h][g][i].session, x2[h][g][i].imsi)

\* The tables of the application tell what the contexts do.
TablesTold ==
    /\ \A g \in Gnb, v \in Ue : imsiRnti[g][v] # 0 =>
          /\ imsiRnti[g][v] \in 1 .. lastRnti[g]
          /\ ctx[g][imsiRnti[g][v]].st # "NONE" => ctx[g][imsiRnti[g][v]].imsi = v
    /\ \A g \in Gnb, r \in Rnti : rntiSession[g][r] # 0 =>
          ctx[g][r].st # "NONE" /\ ctx[g][r].session = rntiSession[g][r]

\* Both ends of a handover have one session.
MsgSession(cx, h, g, m) ==
    /\ m.type = "HandoverRequest" /\ cx[h][m.old].st # "NONE" => cx[h][m.old].session = m.session
    /\ m.type = "HandoverRequestAck" /\ cx[h][m.new].st # "NONE" =>
          /\ cx[h][m.new].source = g /\ cx[h][m.new].sourceId = m.old
          /\ cx[g][m.old].st # "NONE" => cx[g][m.old].session = cx[h][m.new].session
MsgSessions == \A g, h \in Gnb : \A i \in 1 .. Len(x2[h][g]) : MsgSession(ctx, h, g, x2[h][g][i])

\* Only context r has TEIDs of session s in the table of its gNB.
OnlyAt(table, r, s) == \A q \in Rnti : table[q] = s => q = r

\* The release of context q is on the queue, and before the handover request of r.
Before(queue, q, r) ==
    \E i, j \in Nat : /\ Has(queue, "UeContextRelease", q, i)
                      /\ Has(queue, "HandoverRequest", r, j) /\ i < j

\* Downlink packets of v go to context r of g, and will go on to.
TargetForgets(v, g, r) ==
    LET c == ctx[g][r] IN
    c.target \in Gnb =>
       \A q \in Rnti : rntiSession[c.target][q] = downlink[v] => Before(x2[g][c.target], q, r)
Fed(v, g, r) ==
    LET c == ctx[g][r]  s == downlink[v] IN
    /\ c.session = s /\ endpoint[s] = g
    /\ rntiSession[g][r] = s /\ sessionRnti[g][s] = r /\ OnlyAt(rntiSession[g], r, s)
    /\ c.source \in Gnb =>
          \A q \in Rnti :
             rntiSession[c.source][q] = s => Holds(x2[g][c.source], "UeContextRelease", q)
    /\ c.st = "HANDOVER_PREPARATION" => TargetForgets(v, g, r)

ReachedFed(v) ==
    ~Asked(v) => \A g \in Gnb, r \in Rnti :
                    ctx[g][r].imsi = v /\ ctx[g][r].st \in Reached => Fed(v, g, r)

\* The context waits for the answer to the request.
CreateAwaited(v, i, g, r) ==
    LET c == ctx[g][r]  q == requests[i] IN
    q.type = "Create" /\ c.st = "ATTACH_REQUEST" /\ c.session = 0 =>
       /\ q.gnb = g
       /\ i <= served => /\ q.session = downlink[v] /\ endpoint[q.session] = g
                         /\ \A k \in Gnb, n \in Rnti : rntiSession[k][n] # q.session
SwitchAwaited(v, i, g, r) ==
    LET c == ctx[g][r]  q == requests[i] IN
    q.type = "Modify" /\ c.st = "HANDOVER_PATH_SWITCH" =>
       /\ q.gnb = g /\ q.session = c.session /\ c.session = downlink[v]
       /\ rntiSession[g][r] = c.session /\ sessionRnti[g][c.session] = r
       /\ OnlyAt(rntiSession[g], r, c.session)
       /\ OnlyAt(rntiSession[c.source], c.sourceId, c.session)
       /\ i <= served => endpoint[c.session] = g
Awaited(v) ==
    \A i \in 1 .. Len(requests), g \in Gnb, r \in Rnti :
       Alone(v, i) /\ Latest(v, g, r) => CreateAwaited(v, i, g, r) /\ SwitchAwaited(v, i, g, r)

\* A context that waits is the one the answer goes to.
AwaitsLatest(v) ==
    \A g \in Gnb, r \in Rnti : ctx[g][r].imsi = v /\ ctx[g][r].st \in Awaits =>
       Asked(v) /\ Latest(v, g, r)

\* UE v was sent to context r of g.
SentTo(v, g, r) ==
    \/ Uses(ue[v], g, r)
    \/ /\ down[v] # <<>> /\ Head(down[v]).type = "HandoverCommand"
       /\ Head(down[v]).gnb = g /\ Head(down[v]).rnti = r
JoinReady(v, g, r) ==
    LET c == ctx[g][r] IN
    /\ c.session = downlink[v]
    /\ \A q \in Rnti : rntiSession[g][q] # c.session
    /\ OnlyAt(rntiSession[c.source], c.sourceId, c.session)
JoinsReady(v) ==
    ~Asked(v) => \A g \in Gnb, r \in Rnti :
                    SentTo(v, g, r) /\ ctx[g][r].st = "HANDOVER_JOINING" => JoinReady(v, g, r)

Follows(v) == ReachedFed(v) /\ Awaited(v) /\ AwaitsLatest(v) /\ JoinsReady(v)
PathOK(sown) == SessionsKnown(sown) /\ TablesTold /\ MsgSessions /\ \A v \in Ue : Follows(v)

\* No assertion failed, and none of the troubles happened that packets may get lost in.
Untroubled == abort = "none" /\ spent["overlap"] = 0 /\ spent["recovery"] = 0 /\ spent["return"] = 0
PathInv == Untroubled => \E sown \in SessionOwners : PathOK(sown)

-----------------------------------------------------------------------------
(* How a step may change the queues.                                        *)

\* What a queue says of the release of context r, it goes on to say in y.
Lasts(q, y, r) ==
    /\ Holds(q, "UeContextRelease", r) => Holds(y, "UeContextRelease", r)
    /\ \A k : Before(q, r, k) => Before(y, r, k)

\* A release goes on to be on its way until the context has no TEIDs.
QueuesLast ==
    \A g, h \in Gnb : \A q \in Rnti :
       Lasts(x2[g][h], x2'[g][h], q) \/ rntiSession'[h][q] = 0

\* A message is put behind the others.
LEMMA AppendLasts ==
  ASSUME NEW q \in Seq(X2Message), NEW m \in X2Message, NEW r
  PROVE  Lasts(q, Append(q, m), r)
<1>1. \A type, k, i : Has(q, type, k, i) => i \in Nat /\ Has(Append(q, m), type, k, i)
  <2>1. Len(q) \in Nat OBVIOUS
  <2>2. \A i \in 1 .. Len(q) : i \in Nat BY <2>1
  <2> QED BY <2>2, HasAppend DEF Has
<1> QED BY <1>1 DEF Lasts, Holds, Before

\* A message other than the release is taken.
LEMMA TailLasts ==
  ASSUME NEW q \in Seq(X2Message), q # <<>>, NEW r,
         ~(Head(q).type = "UeContextRelease" /\ Head(q).old = r)
  PROVE  Lasts(q, Tail(q), r)
<1>1. \A type, k : \A i \in Nat : Has(q, type, k, i + 1) /\ i > 0 => Has(Tail(q), type, k, i)
  BY HasTail
<1>2. ASSUME NEW i \in Nat, Has(q, "UeContextRelease", r, i)
      PROVE  i > 1 /\ i - 1 \in Nat /\ Has(Tail(q), "UeContextRelease", r, i - 1)
  <2>1. i # 1 BY <1>2, HasTail
  <2>2. i > 1 /\ i - 1 \in Nat /\ (i - 1) + 1 = i BY <1>2, <2>1 DEF Has
  <2>3. Has(q, "UeContextRelease", r, (i - 1) + 1) BY <1>2, <2>2
  <2>4. i - 1 > 0 BY <2>2
  <2> QED BY <2>2, <2>3, <2>4, <1>1
<1>3. ASSUME NEW k, NEW i \in Nat, NEW j \in Nat, Has(q, "UeContextRelease", r, i),
             Has(q, "HandoverRequest", k, j), i < j
      PROVE  Before(Tail(q), r, k)
  <2>1. i > 1 /\ i - 1 \in Nat /\ Has(Tail(q), "UeContextRelease", r, i - 1) BY <1>2, <1>3
  <2>2. j - 1 \in Nat /\ j - 1 > 0 /\ (j - 1) + 1 = j /\ i - 1 < j - 1 BY <1>3, <2>1
  <2>3. Has(q, "HandoverRequest", k, (j - 1) + 1) BY <1>3, <2>2
  <2>4. Has(Tail(q), "HandoverRequest", k, j - 1) BY <2>2, <2>3, <1>1
  <2> QED BY <2>1, <2>2, <2>4 DEF Before
<1> QED BY <1>2, <1>3 DEF Lasts, Holds, Before
\* What lasts from one queue to the next lasts to a third one.
LEMMA LastsOn ==
  ASSUME NEW q, NEW y, NEW z, NEW r, Lasts(q, y, r), Lasts(y, z, r)
  PROVE  Lasts(q, z, r)
BY DEF Lasts

\* Queues that stay as they are, or get a message.
LEMMA SentLasts ==
  ASSUME x2 \in Channels, NEW a \in Gnb, NEW b \in Gnb, NEW m \in X2Message,
         x2' = x2 \/ x2' = Sent(a, b, m)
  PROVE  QueuesLast
<1> SUFFICES ASSUME NEW g \in Gnb, NEW h \in Gnb, NEW q \in Rnti
             PROVE  Lasts(x2[g][h], x2'[g][h], q)
  BY DEF QueuesLast
<1>1. x2[g][h] \in Seq(X2Message) BY DEF Channels
<1>2. x2'[g][h] = x2[g][h] \/ x2'[g][h] = Append(x2[g][h], m)
  BY DEF Sent, Channels
<1>3. Lasts(x2[g][h], x2[g][h], q) BY DEF Lasts
<1> QED BY <1>1, <1>2, <1>3, AppendLasts

\* Queues from which a message is taken, which may be answered.  The TEIDs of a context that
\* is released are forgotten.
LEMMA TakenLasts ==
  ASSUME x2 \in Channels, NEW h \in Gnb, NEW g \in Gnb, h # g, NEW m \in X2Message,
         x2[h][g] # <<>>, x2' = Taken(h, g) \/ x2' = Answered(h, g, m),
         LET first == Head(x2[h][g]) IN
            first.type = "UeContextRelease" /\ first.old \in Rnti => rntiSession'[g][first.old] = 0
  PROVE  QueuesLast
<1> SUFFICES ASSUME NEW a \in Gnb, NEW b \in Gnb, NEW q \in Rnti, rntiSession'[b][q] # 0
             PROVE  Lasts(x2[a][b], x2'[a][b], q)
  BY DEF QueuesLast
<1>1. x2[a][b] \in Seq(X2Message) BY DEF Channels
<1>2. CASE a = h /\ b = g
  <2>1. x2'[h][g] = Tail(x2[h][g])
    <3>1. PICK y : y = Taken(h, g) OBVIOUS
    <3>2. y \in Channels /\ y[h][g] = Tail(x2[h][g]) BY <3>1, TakenAdds DEF Taken, Channels
    <3>3. x2' = y \/ x2' = [y EXCEPT ![g][h] = Append(@, m)]
      BY <3>1, TakenAndAnswered DEF Taken, Answered
    <3>5. [y EXCEPT ![g][h] = Append(@, m)][h] = y[h] BY <3>2 DEF Channels
    <3> QED BY <3>2, <3>3, <3>5
  <2>2. ~(Head(x2[a][b]).type = "UeContextRelease" /\ Head(x2[a][b]).old = q) BY <1>2
  <2> QED BY <1>1, <1>2, <2>1, <2>2, TailLasts
<1>3. CASE ~(a = h /\ b = g)
  <2>1. x2'[a][b] = x2[a][b] \/ x2'[a][b] = Append(x2[a][b], m)
    <3>1. CASE x2' = Taken(h, g) BY <1>3, <3>1 DEF Taken, Channels
    <3>2. CASE x2' = Answered(h, g, m) BY <1>3, <3>2 DEF Answered, Channels
    <3> QED BY <3>1, <3>2
  <2>2. Lasts(x2[a][b], x2[a][b], q) BY DEF Lasts
  <2> QED BY <1>1, <2>1, <2>2, AppendLasts
<1> QED BY <1>2, <1>3

-----------------------------------------------------------------------------
(* What a step leaves as it is for UE v.                                    *)

\* The contexts that serve it did before, and know what they knew.
ServesOn(v) ==
    \A g \in Gnb, r \in Rnti :
       LET c == ctx[g][r]  d == ctx'[g][r] IN
       d.imsi = v /\ d.st \in Serves =>
          /\ c.st \in Serves /\ c.imsi = v /\ c.session = d.session
          /\ c.source = d.source /\ c.sourceId = d.sourceId
          /\ d.st \in Awaits => c.st = d.st
          /\ d.st \in Reached => c.st \in Reached
          /\ d.st = "HANDOVER_PREPARATION" =>
                \/ c.st = "HANDOVER_PREPARATION" /\ c.target = d.target
                \/ Fed(v, g, r) => TargetForgets(v, g, r)'

\* Downlink packets of session s go where they went, unless the context is removed.
SessionGoesOn(s) ==
    /\ endpoint'[s] = endpoint[s]
    /\ \A g \in Gnb, r \in Rnti :
          /\ rntiSession'[g][r] = s => rntiSession[g][r] = s
          /\ rntiSession[g][r] = s => rntiSession'[g][r] = s \/ ctx'[g][r].st = "NONE"
    /\ \A g \in Gnb : \/ sessionRnti'[g][s] = sessionRnti[g][s]
                      \/ \E r \in Rnti : rntiSession[g][r] = s /\ ctx'[g][r].st = "NONE"

\* The core network is asked and knows of it what it was and did.
RequestsGoOn(v) ==
    /\ downlink'[v] = downlink[v] /\ mmeCell'[v] = mmeCell[v]
    /\ \A g \in Gnb : imsiRnti'[g][v] = imsiRnti[g][v]
    /\ Asked(v)' <=> Asked(v)
    /\ \A i : Alone(v, i)' =>
          \E j : Alone(v, j) /\ requests'[i] = requests[j] /\ (i <= served' => j <= served)

\* It was sent before to the contexts that await it, or they are ready for it.
SentOn(v) ==
    \A g \in Gnb, r \in Rnti :
       LET c == ctx[g][r]  d == ctx'[g][r] IN
       SentTo(v, g, r)' /\ d.st = "HANDOVER_JOINING" =>
          \/ /\ SentTo(v, g, r) /\ c.st = "HANDOVER_JOINING" /\ c.session = d.session
             /\ c.source = d.source /\ c.sourceId = d.sourceId
          \/ ~Asked(v) => JoinReady(v, g, r)'

\* The sessions of a UE are numbers of sessions, and contexts that were answered have one.
LEMMA BearerSession ==
  ASSUME GInv, NEW sown, SessionsKnown(sown), NEW g \in Gnb, NEW r \in Rnti,
         ctx[g][r].st \in Bearing
  PROVE  /\ Known(sown, ctx[g][r].session, ctx[g][r].imsi)
         /\ ctx[g][r].session \in Session /\ ctx[g][r].session # 0
<1>1. ctx[g][r] \in Good(g) BY ContextIsGood DEF GInv
<1>2. ctx[g][r].session # 0 /\ ctx[g][r].st # "NONE" /\ ctx[g][r].session \in 0 .. MaxSession
  BY <1>1 DEF Good, Context, Bearing, Named
<1>3. ctx[g][r].session \in Session BY <1>2, EpcAssumption DEF Session
<1> QED BY <1>2, <1>3 DEF SessionsKnown

\* Only one context has the TEIDs of the session, as before.
LEMMA OnlyAtOn ==
  ASSUME NEW s, SessionGoesOn(s), NEW g \in Gnb, NEW r, OnlyAt(rntiSession[g], r, s)
  PROVE  OnlyAt(rntiSession'[g], r, s)
BY DEF SessionGoesOn, OnlyAt

\* TEIDs of a context that goes on go on to lead to it.
LEMMA TeidsOn ==
  ASSUME NEW s, SessionGoesOn(s), NEW g \in Gnb, NEW r \in Rnti, ctx'[g][r].st # "NONE",
         OnlyAt(rntiSession[g], r, s), rntiSession[g][r] = s, sessionRnti[g][s] = r
  PROVE  rntiSession'[g][r] = s /\ sessionRnti'[g][s] = r
BY DEF SessionGoesOn, OnlyAt

\* Who waits for a release on the way goes on to.
LEMMA ForgetsOn ==
  ASSUME NEW s, s # 0, SessionGoesOn(s), QueuesLast, NEW g \in Gnb, NEW h \in Gnb, NEW q \in Rnti,
         rntiSession'[h][q] = s
  PROVE  rntiSession[h][q] = s /\ Lasts(x2[g][h], x2'[g][h], q)
BY DEF SessionGoesOn, QueuesLast

\* Downlink packets that reach the context go on to.
LEMMA FedOn ==
  ASSUME GInv, GInv', NEW sown, SessionsKnown(sown), NEW v \in Ue, NEW g \in Gnb, NEW r \in Rnti,
         ServesOn(v), QueuesLast, downlink'[v] = downlink[v],
         \A s : Known(sown, s, v) => SessionGoesOn(s),
         ctx'[g][r].imsi = v, ctx'[g][r].st \in Reached, Fed(v, g, r)
  PROVE  Fed(v, g, r)'
<1> DEFINE c == ctx[g][r]
           d == ctx'[g][r]
           s == downlink[v]
<1>1. /\ c.st \in Reached /\ c.imsi = v /\ c.session = d.session /\ c.source = d.source
      /\ d.st = "HANDOVER_PREPARATION" =>
            \/ c.st = "HANDOVER_PREPARATION" /\ c.target = d.target
            \/ Fed(v, g, r) => TargetForgets(v, g, r)'
  BY DEF ServesOn, Reached
<1>2. /\ c.session = s /\ endpoint[s] = g /\ rntiSession[g][r] = s /\ sessionRnti[g][s] = r
      /\ OnlyAt(rntiSession[g], r, s)
  BY DEF Fed
<1>3. SessionGoesOn(s) /\ s # 0
  BY <1>1, <1>2, BearerSession DEF Reached, Serves, Bearing, Named, Awaits
<1>4. d.st # "NONE" BY DEF Reached, Serves
<1>5. rntiSession'[g][r] = s /\ sessionRnti'[g][s] = r /\ OnlyAt(rntiSession'[g], r, s)
  BY <1>2, <1>3, <1>4, TeidsOn, OnlyAtOn
<1>6. endpoint'[s] = g BY <1>2, <1>3 DEF SessionGoesOn
<1>7. ASSUME d.source \in Gnb, NEW q \in Rnti, rntiSession'[d.source][q] = s
      PROVE  Holds(x2'[g][d.source], "UeContextRelease", q)
  <2>1. rntiSession[d.source][q] = s /\ Lasts(x2[g][d.source], x2'[g][d.source], q)
    BY <1>3, <1>7, ForgetsOn
  <2>2. Holds(x2[g][d.source], "UeContextRelease", q) BY <1>1, <1>7, <2>1 DEF Fed
  <2> QED BY <2>1, <2>2 DEF Lasts
<1>8. ASSUME d.st = "HANDOVER_PREPARATION"
      PROVE  TargetForgets(v, g, r)'
  <2>1. CASE TargetForgets(v, g, r)' BY <2>1
  <2>2. CASE c.st = "HANDOVER_PREPARATION" /\ c.target = d.target
    <3>1. TargetForgets(v, g, r) BY <2>2 DEF Fed
    <3>3. ASSUME d.target \in Gnb, NEW q \in Rnti, rntiSession'[d.target][q] = s
          PROVE  Before(x2'[g][d.target], q, r)
      <4>2. rntiSession[d.target][q] = s /\ Lasts(x2[g][d.target], x2'[g][d.target], q)
        BY <1>3, <3>3, ForgetsOn
      <4>3. Before(x2[g][d.target], q, r) BY <2>2, <3>1, <3>3, <4>2 DEF TargetForgets
      <4> QED BY <4>2, <4>3 DEF Lasts
    <3> QED BY <3>3 DEF TargetForgets
  <2> QED BY <1>1, <1>8, <2>1, <2>2
<1> QED BY <1>1, <1>2, <1>5, <1>6, <1>7, <1>8 DEF Fed

\* A request that was the only one of the UE, and what it is for, stay as they are.
LEMMA AwaitedOn ==
  ASSUME GInv, GInv', NEW sown, SessionsKnown(sown), NEW v \in Ue, ServesOn(v), RequestsGoOn(v),
         \A s : Known(sown, s, v) => SessionGoesOn(s), TablesTold', Awaited(v)
  PROVE  Awaited(v)'
<1> SUFFICES ASSUME NEW i, NEW g \in Gnb, NEW r \in Rnti, Alone(v, i)', Latest(v, g, r)'
             PROVE  CreateAwaited(v, i, g, r)' /\ SwitchAwaited(v, i, g, r)'
  BY DEF Awaited
<1> DEFINE c == ctx[g][r]
           d == ctx'[g][r]
           s == downlink[v]
<1>1. PICK j : Alone(v, j) /\ requests'[i] = requests[j] /\ (i <= served' => j <= served)
  BY DEF RequestsGoOn
<1>2. j \in 1 .. Len(requests) /\ requests[j].ue = v BY <1>1 DEF Alone
<1>3. Latest(v, g, r) BY DEF Latest, RequestsGoOn
<1>4. CreateAwaited(v, j, g, r) /\ SwitchAwaited(v, j, g, r) BY <1>1, <1>2, <1>3 DEF Awaited
<1>5. downlink'[v] = s BY DEF RequestsGoOn
<1>6. g = mmeCell'[v] /\ r = imsiRnti'[g][v] BY DEF Latest
<1>7. d.st \in Awaits => c.st = d.st /\ c.session = d.session /\ c.source = d.source
                         /\ c.sourceId = d.sourceId /\ c.st # "NONE" /\ c.imsi = v
  <2>1. d.st # "NONE" => d.imsi = v BY <1>6, NodesAssumption DEF TablesTold, Rnti
  <2> QED BY <2>1 DEF ServesOn, Awaits, Serves
<1>8. CreateAwaited(v, i, g, r)'
  <2> SUFFICES ASSUME requests'[i].type = "Create", d.st = "ATTACH_REQUEST", d.session = 0
               PROVE  /\ requests'[i].gnb = g
                      /\ i <= served' =>
                            /\ requests'[i].session = s /\ endpoint'[requests'[i].session] = g
                            /\ \A k \in Gnb, n \in Rnti : rntiSession'[k][n] # requests'[i].session
    BY <1>5 DEF CreateAwaited
  <2>1. /\ requests[j].gnb = g
        /\ j <= served =>
              /\ requests[j].session = s /\ endpoint[requests[j].session] = g
              /\ \A k \in Gnb, n \in Rnti : rntiSession[k][n] # requests[j].session
    BY <1>1, <1>4, <1>7 DEF CreateAwaited, Awaits
  <2>2. j <= served => SessionGoesOn(requests[j].session)
    <3>1. j <= served => requests[j].session # 0 BY <1>1, <1>2 DEF GInv, EpcOK
    <3> QED BY <1>2, <3>1 DEF SessionsKnown
  <2> QED BY <1>1, <2>1, <2>2 DEF SessionGoesOn
<1>9. SwitchAwaited(v, i, g, r)'
  <2> SUFFICES ASSUME requests'[i].type = "Modify", d.st = "HANDOVER_PATH_SWITCH"
               PROVE  /\ requests'[i].gnb = g /\ requests'[i].session = d.session /\ d.session = s
                      /\ rntiSession'[g][r] = d.session /\ sessionRnti'[g][d.session] = r
                      /\ OnlyAt(rntiSession'[g], r, d.session)
                      /\ OnlyAt(rntiSession'[d.source], d.sourceId, d.session)
                      /\ i <= served' => endpoint'[d.session] = g
    BY <1>5 DEF SwitchAwaited
  <2>1. /\ c.st = "HANDOVER_PATH_SWITCH" /\ c.session = d.session /\ c.source = d.source
        /\ c.sourceId = d.sourceId /\ c.imsi = v
    BY <1>7 DEF Awaits
  <2>2. /\ requests[j].gnb = g /\ requests[j].session = c.session /\ c.session = s
        /\ rntiSession[g][r] = c.session /\ sessionRnti[g][c.session] = r
        /\ OnlyAt(rntiSession[g], r, c.session)
        /\ OnlyAt(rntiSession[c.source], c.sourceId, c.session)
        /\ j <= served => endpoint[c.session] = g
    BY <1>1, <1>4, <2>1 DEF SwitchAwaited
  <2>3. SessionGoesOn(c.session) BY <2>1, BearerSession DEF Bearing, Named
  <2>4. c.source \in Gnb
    <3>1. c \in Good(g) BY ContextIsGood DEF GInv
    <3> QED BY <2>1, <3>1 DEF Good
  <2>5. /\ rntiSession'[g][r] = c.session /\ sessionRnti'[g][c.session] = r
        /\ OnlyAt(rntiSession'[g], r, c.session)
        /\ OnlyAt(rntiSession'[c.source], c.sourceId, c.session)
    BY <2>2, <2>3, <2>4, TeidsOn, OnlyAtOn
  <2>6. OnlyAt(rntiSession'[d.source], d.sourceId, d.session) BY <2>1, <2>5 DEF OnlyAt
  <2>7. OnlyAt(rntiSession'[g], r, d.session) BY <2>1, <2>5 DEF OnlyAt
  <2>8. endpoint'[c.session] = endpoint[c.session] BY <2>3 DEF SessionGoesOn
  <2> QED BY <1>1, <2>1, <2>2, <2>5, <2>6, <2>7, <2>8
<1> QED BY <1>8, <1>9

\* A UE that is not asked about: the contexts that await it are ready for it, as before.
LEMMA JoinsReadyOn ==
  ASSUME GInv, GInv', NEW sown, SessionsKnown(sown), NEW v \in Ue, SentOn(v), RequestsGoOn(v),
         \A s : Known(sown, s, v) => SessionGoesOn(s), JoinsReady(v),
         downlink[v] # 0 => Known(sown, downlink[v], v)
  PROVE  JoinsReady(v)'
<1> SUFFICES ASSUME ~Asked(v)', NEW g \in Gnb, NEW r \in Rnti, SentTo(v, g, r)',
                    ctx'[g][r].st = "HANDOVER_JOINING"
             PROVE  JoinReady(v, g, r)'
  BY DEF JoinsReady
<1> DEFINE c == ctx[g][r]
           d == ctx'[g][r]
<1>1. ~Asked(v) BY DEF RequestsGoOn
<1>2. CASE JoinReady(v, g, r)' BY <1>2
<1>3. CASE /\ SentTo(v, g, r) /\ c.st = "HANDOVER_JOINING" /\ c.session = d.session
           /\ c.source = d.source /\ c.sourceId = d.sourceId
  <2>1. JoinReady(v, g, r) BY <1>1, <1>3 DEF JoinsReady
  <2>2. /\ c.session = downlink[v]
        /\ \A q \in Rnti : rntiSession[g][q] # c.session
        /\ OnlyAt(rntiSession[c.source], c.sourceId, c.session)
    BY <2>1 DEF JoinReady
  <2>3. c \in Good(g) BY ContextIsGood DEF GInv
  <2>4. c.source \in Gnb /\ c.session # 0 BY <1>3, <2>3 DEF Good, Bearing, Named
  <2>5. SessionGoesOn(c.session) BY <2>2, <2>4
  <2>6. \A q \in Rnti : rntiSession'[g][q] # c.session BY <2>2, <2>5 DEF SessionGoesOn
  <2>7. OnlyAt(rntiSession'[c.source], c.sourceId, c.session) BY <2>2, <2>4, <2>5, OnlyAtOn
  <2>8. OnlyAt(rntiSession'[d.source], d.sourceId, d.session) BY <1>3, <2>7 DEF OnlyAt
  <2>9. downlink'[v] = downlink[v] BY DEF RequestsGoOn
  <2> QED BY <1>3, <2>2, <2>6, <2>8, <2>9 DEF JoinReady
<1> QED BY <1>1, <1>2, <1>3 DEF SentOn

\* What is said of a UE stays true in a step that leaves it alone.
LEMMA FollowsOn ==
  ASSUME GInv, GInv', NEW sown, SessionsKnown(sown), NEW v \in Ue, Follows(v), TablesTold',
         ServesOn(v), RequestsGoOn(v), SentOn(v), QueuesLast,
         \A s : Known(sown, s, v) => SessionGoesOn(s)
  PROVE  Follows(v)'
<1>1. ReachedFed(v) /\ Awaited(v) /\ AwaitsLatest(v) /\ JoinsReady(v) BY DEF Follows
<1>2. ReachedFed(v)'
  <2> SUFFICES ASSUME ~Asked(v)', NEW g \in Gnb, NEW r \in Rnti, ctx'[g][r].imsi = v,
                      ctx'[g][r].st \in Reached
               PROVE  Fed(v, g, r)'
    BY DEF ReachedFed
  <2>1. ~Asked(v) /\ downlink'[v] = downlink[v] BY DEF RequestsGoOn
  <2>2. ctx[g][r].imsi = v /\ ctx[g][r].st \in Reached BY DEF ServesOn, Reached
  <2>3. Fed(v, g, r) BY <1>1, <2>1, <2>2 DEF ReachedFed
  <2> QED BY <2>1, <2>3, FedOn
<1>3. Awaited(v)' BY <1>1, AwaitedOn
<1>4. AwaitsLatest(v)'
  <2> SUFFICES ASSUME NEW g \in Gnb, NEW r \in Rnti, ctx'[g][r].imsi = v, ctx'[g][r].st \in Awaits
               PROVE  Asked(v)' /\ Latest(v, g, r)'
    BY DEF AwaitsLatest
  <2>1. ctx[g][r].imsi = v /\ ctx[g][r].st \in Awaits BY DEF ServesOn, Awaits, Serves
  <2>2. Asked(v) /\ Latest(v, g, r) BY <1>1, <2>1 DEF AwaitsLatest
  <2> QED BY <2>2 DEF RequestsGoOn, Latest
<1>5. JoinsReady(v)'
  <2>1. downlink[v] # 0 => Known(sown, downlink[v], v) BY DEF SessionsKnown
  <2> QED BY <1>1, <2>1, JoinsReadyOn
<1> QED BY <1>2, <1>3, <1>4, <1>5 DEF Follows

-----------------------------------------------------------------------------
(* What a step must leave as it is for the sessions to stay known.          *)

\* The sessions created so far stay with their UEs.
Spreads(sown, new) ==
    /\ new \in SessionOwners /\ sessions' >= sessions
    /\ \A s \in 1 .. sessions : new[s] = sown[s]

\* A context goes on to know its UE, session and source; a new session is one of the UE.
Knows(c, d) ==
    /\ c.st # "NONE" /\ c.imsi \in {None, d.imsi} /\ c.session \in {0, d.session}
    /\ d.source = c.source /\ d.sourceId = c.sourceId
CtxKnows(new) ==
    /\ \A g \in Gnb : lastRnti'[g] >= lastRnti[g]
    /\ \A g \in Gnb, r \in Rnti :
          LET c == ctx[g][r]  d == ctx'[g][r] IN
          d.st # "NONE" =>
             /\ r > lastRnti[g] \/ Knows(c, d)
             /\ d.session # 0 => \/ c.st # "NONE" /\ c.session = d.session
                                 \/ IsOf(new, sessions', d.session, d.imsi)

\* So are a new session of the core network, and one in a new message.
EpcTells(new) ==
    /\ \A v \in Ue : downlink'[v] = downlink[v] \/ IsOf(new, sessions', downlink'[v], v)
    /\ \A i \in 1 .. Len(requests') :
          \/ \E j \in 1 .. Len(requests) : requests'[i] = requests[j]
          \/ requests'[i].session # 0 =>
                IsOf(new, sessions', requests'[i].session, requests'[i].ue)
X2Tells(new) ==
    \A g, h \in Gnb : \A i \in 1 .. Len(x2'[h][g]) :
       LET m == x2'[h][g][i] IN
       \/ \E j \in 1 .. Len(x2[h][g]) : m = x2[h][g][j]
       \/ /\ m.type = "HandoverRequest" => IsOf(new, sessions', m.session, m.imsi)
          /\ MsgSession(ctx', h, g, m)

\* Tables of the application change with the contexts.
AppTells ==
    /\ \A g \in Gnb, v \in Ue :
          LET r == imsiRnti'[g][v] IN
          \/ r = imsiRnti[g][v]
          \/ r \in 1 .. lastRnti'[g] /\ (ctx'[g][r].st # "NONE" => ctx'[g][r].imsi = v)
    /\ \A g \in Gnb, r \in Rnti :
          LET s == rntiSession'[g][r] IN
          s # 0 => ctx'[g][r].st # "NONE" /\ (s = rntiSession[g][r] \/ s = ctx'[g][r].session)

PathTells(new) == CtxKnows(new) /\ EpcTells(new) /\ X2Tells(new) /\ AppTells

\* A session of a UE stays one.
LEMMA IsOfOn ==
  ASSUME GInv, GInv', NEW sown, NEW new, Spreads(sown, new), NEW s, NEW v, Known(sown, s, v)
  PROVE  IsOf(new, sessions', s, v)
<1>1. sessions \in Nat /\ sessions' \in Nat /\ sessions' >= sessions
  BY EpcAssumption DEF GInv, EpcOK, EpcTypeOK, Spreads
<1> QED BY <1>1 DEF Known, IsOf, Spreads

\* A context that existed goes on to know what it knew.
LEMMA ContextKnows ==
  ASSUME GInv, NEW new, CtxKnows(new), NEW g \in Gnb, NEW r \in 1 .. lastRnti[g],
         ctx'[g][r].st # "NONE"
  PROVE  Knows(ctx[g][r], ctx'[g][r])
<1>1. r \in Rnti /\ ~(r > lastRnti[g]) BY StateTypes
<1> QED BY <1>1 DEF CtxKnows

\* Sessions stay with their UEs.
LEMMA SessionsKnownOn ==
  ASSUME GInv, GInv', NEW sown, NEW new, Spreads(sown, new), SessionsKnown(sown),
         CtxKnows(new), EpcTells(new), X2Tells(new)
  PROVE  SessionsKnown(new)'
<1>1. ASSUME NEW g \in Gnb, NEW r \in Rnti, ctx'[g][r].st # "NONE", ctx'[g][r].session # 0
      PROVE  IsOf(new, sessions', ctx'[g][r].session, ctx'[g][r].imsi)
  <2> DEFINE c == ctx[g][r]
             d == ctx'[g][r]
  <2>1. CASE IsOf(new, sessions', d.session, d.imsi) BY <2>1
  <2>2. CASE c.st # "NONE" /\ c.session = d.session
    <3>1. Known(sown, c.session, c.imsi) BY <1>1, <2>2 DEF SessionsKnown
    <3>2. r \in 1 .. lastRnti[g] BY <2>2, StateTypes DEF GInv, RanInv, CtxInv, Rnti
    <3>3. c.imsi \in {None, d.imsi} BY <1>1, <3>2, ContextKnows DEF Knows
    <3>4. c.imsi = d.imsi BY <3>1, <3>3, NodesAssumption DEF Known, IsOf
    <3> QED BY <2>2, <3>1, <3>4, IsOfOn
  <2> QED BY <1>1, <2>1, <2>2 DEF CtxKnows
<1>2. ASSUME NEW v \in Ue, downlink'[v] # 0 PROVE IsOf(new, sessions', downlink'[v], v)
  <2>1. downlink'[v] = downlink[v] => Known(sown, downlink[v], v) BY <1>2 DEF SessionsKnown
  <2> QED BY <2>1, IsOfOn DEF EpcTells
<1>3. ASSUME NEW i \in 1 .. Len(requests'), requests'[i].session # 0
      PROVE  IsOf(new, sessions', requests'[i].session, requests'[i].ue)
  <2>1. ASSUME NEW j \in 1 .. Len(requests), requests'[i] = requests[j]
        PROVE  Known(sown, requests[j].session, requests[j].ue)
    BY <1>3, <2>1 DEF SessionsKnown
  <2> QED BY <1>3, <2>1, IsOfOn DEF EpcTells
<1>4. ASSUME NEW g \in Gnb, NEW h \in Gnb, NEW i \in 1 .. Len(x2'[h][g]),
             x2'[h][g][i].type = "HandoverRequest"
      PROVE  IsOf(new, sessions', x2'[h][g][i].session, x2'[h][g][i].imsi)
  <2>1. ASSUME NEW j \in 1 .. Len(x2[h][g]), x2'[h][g][i] = x2[h][g][j]
        PROVE  Known(sown, x2[h][g][j].session, x2[h][g][j].imsi)
    BY <1>4, <2>1 DEF SessionsKnown
  <2> QED BY <1>4, <2>1, IsOfOn DEF X2Tells
<1> QED BY <1>1, <1>2, <1>3, <1>4 DEF SessionsKnown, Known

\* Tables go on to tell what the contexts do.
LEMMA TablesToldOn ==
  ASSUME GInv, GInv', NEW new, CtxKnows(new), AppTells, TablesTold
  PROVE  TablesTold'
<1>1. ASSUME NEW g \in Gnb, NEW v \in Ue, imsiRnti'[g][v] # 0
      PROVE  LET r == imsiRnti'[g][v] IN
             r \in 1 .. lastRnti'[g] /\ (ctx'[g][r].st # "NONE" => ctx'[g][r].imsi = v)
  <2> DEFINE r == imsiRnti'[g][v]
  <2>1. CASE r = imsiRnti[g][v]
    <3>1. r \in 1 .. lastRnti[g] /\ (ctx[g][r].st # "NONE" => ctx[g][r].imsi = v)
      BY <1>1, <2>1 DEF TablesTold
    <3>2. lastRnti[g] \in Nat /\ lastRnti'[g] \in Nat /\ lastRnti'[g] >= lastRnti[g]
      BY RanAssumption DEF GInv, RanInv, CtxKnows
    <3>3. r \in 1 .. lastRnti'[g] BY <3>1, <3>2
    <3>4. ASSUME ctx'[g][r].st # "NONE" PROVE ctx'[g][r].imsi = v
      <4>1. Knows(ctx[g][r], ctx'[g][r]) BY <3>1, <3>4, ContextKnows
      <4> QED BY <3>1, <4>1, NodesAssumption DEF Knows
    <3> QED BY <3>3, <3>4
  <2> QED BY <2>1 DEF AppTells
<1>2. ASSUME NEW g \in Gnb, NEW r \in Rnti, rntiSession'[g][r] # 0
      PROVE  ctx'[g][r].st # "NONE" /\ ctx'[g][r].session = rntiSession'[g][r]
  <2>1. ctx'[g][r].st # "NONE" BY <1>2 DEF AppTells
  <2>2. CASE rntiSession'[g][r] = rntiSession[g][r]
    <3>1. ctx[g][r].st # "NONE" /\ ctx[g][r].session = rntiSession[g][r]
      BY <1>2, <2>2 DEF TablesTold
    <3>2. r \in 1 .. lastRnti[g] BY <3>1, StateTypes DEF GInv, RanInv, CtxInv, Rnti
    <3>3. Knows(ctx[g][r], ctx'[g][r]) BY <2>1, <3>2, ContextKnows
    <3> QED BY <1>2, <2>1, <2>2, <3>1, <3>3 DEF Knows
  <2> QED BY <1>2, <2>1, <2>2 DEF AppTells
<1> QED BY <1>1, <1>2 DEF TablesTold

\* So do the messages.
LEMMA MsgSessionsOn ==
  ASSUME GInv, GInv', NEW own, Owned(own), NEW new, CtxKnows(new), X2Tells(new), MsgSessions
  PROVE  MsgSessions'
<1>1. ASSUME NEW g \in Gnb, NEW h \in Gnb, NEW j \in 1 .. Len(x2[h][g])
      PROVE  MsgSession(ctx', h, g, x2[h][g][j])
  <2>1. PICK m : m = x2[h][g][j] OBVIOUS
  <2>2. /\ MsgSession(ctx, h, g, m) /\ MsgOwned(own, ctx, lastRnti, h, g, m)
        /\ MsgGood(ctx, lastRnti, h, g, m)
    BY <2>1 DEF MsgSessions, Owned, X2Owned, GInv, RanInv, MsgInv
  <2>3. ASSUME m.type = "HandoverRequest", ctx'[h][m.old].st # "NONE"
        PROVE  ctx'[h][m.old].session = m.session
    <3>1. m.old \in 1 .. lastRnti[h] BY <2>2, <2>3 DEF MsgOwned, Owns
    <3>2. Knows(ctx[h][m.old], ctx'[h][m.old]) BY <2>3, <3>1, ContextKnows
    <3>3. ctx[h][m.old].session = m.session /\ m.session # 0
      BY <2>2, <2>3, <3>2 DEF MsgSession, MsgGood, Knows
    <3> QED BY <3>2, <3>3 DEF Knows
  <2>4. ASSUME m.type = "HandoverRequestAck", ctx'[h][m.new].st # "NONE"
        PROVE  /\ ctx'[h][m.new].source = g /\ ctx'[h][m.new].sourceId = m.old
               /\ ctx'[g][m.old].st # "NONE" => ctx'[g][m.old].session = ctx'[h][m.new].session
    <3>1. m.old \in 1 .. lastRnti[g] /\ m.new \in 1 .. lastRnti[h]
      BY <2>2, <2>4 DEF MsgOwned, Owns
    <3>2. Knows(ctx[h][m.new], ctx'[h][m.new]) BY <2>4, <3>1, ContextKnows
    <3>3. /\ ctx[h][m.new].source = g /\ ctx[h][m.new].sourceId = m.old
          /\ ctx[g][m.old].st # "NONE" => ctx[g][m.old].session = ctx[h][m.new].session
          /\ ctx[h][m.new].session # 0
      BY <2>2, <2>4, <3>2 DEF MsgSession, MsgGood, Bears, Knows
    <3>4. ASSUME ctx'[g][m.old].st # "NONE"
          PROVE  ctx'[g][m.old].session = ctx'[h][m.new].session
      <4>1. Knows(ctx[g][m.old], ctx'[g][m.old]) BY <3>1, <3>4, ContextKnows
      <4> QED BY <3>2, <3>3, <4>1 DEF Knows
    <3> QED BY <3>2, <3>3, <3>4 DEF Knows
  <2> QED BY <2>1, <2>3, <2>4 DEF MsgSession
<1>2. ASSUME NEW g \in Gnb, NEW h \in Gnb, NEW i \in 1 .. Len(x2'[h][g])
      PROVE  MsgSession(ctx', h, g, x2'[h][g][i])
  BY <1>1 DEF X2Tells
<1> QED BY <1>2 DEF MsgSessions

\* What is said of sessions, tables and messages stays true.
LEMMA PathTold ==
  ASSUME GInv, GInv', NEW own, Owned(own), NEW sown, NEW new, Spreads(sown, new), PathOK(sown),
         PathTells(new)
  PROVE  SessionsKnown(new)' /\ TablesTold' /\ MsgSessions'
BY SessionsKnownOn, TablesToldOn, MsgSessionsOn DEF PathOK, PathTells

-----------------------------------------------------------------------------
(* Steps of a gNB that the core network has no part in.                     *)

\* A context goes on, and serves its UE only if it did; or it is made, and does not serve.
Remains(c, d) ==
    /\ c.st # "NONE" /\ c.imsi \in {None, d.imsi} /\ d.session = c.session
    /\ d.source = c.source /\ d.sourceId = c.sourceId
    /\ d.st = "HANDOVER_JOINING" => c.st = "HANDOVER_JOINING"
    /\ d.st \in Serves => c.st \in Serves
    /\ d.st \in Awaits => c.st = d.st
    /\ d.st \in Reached => c.st \in Reached
    /\ d.st = "HANDOVER_PREPARATION" => c.st = "HANDOVER_PREPARATION" /\ c.target = d.target
CtxRemain(sown) ==
    /\ \A g \in Gnb : lastRnti'[g] >= lastRnti[g]
    /\ \A g \in Gnb, r \in Rnti :
          LET c == ctx[g][r]  d == ctx'[g][r] IN
          \/ d.st = "NONE" \/ Remains(c, d)
          \/ /\ r > lastRnti[g] /\ d.st \notin Serves
             /\ d.session # 0 => IsOf(sown, sessions', d.session, d.imsi)

\* TEIDs are forgotten with the context that they lead to.
TablesRemain ==
    /\ imsiRnti' = imsiRnti
    /\ \A g \in Gnb, r \in Rnti :
          \/ rntiSession'[g][r] = 0
          \/ rntiSession'[g][r] = rntiSession[g][r]
             /\ (ctx[g][r].st # "NONE" => ctx'[g][r].st # "NONE")
    /\ \A g \in Gnb, r \in Rnti :
          rntiSession'[g][r] # rntiSession[g][r] => ctx'[g][r].st = "NONE"
    /\ \A g \in Gnb, s \in Session :
          \/ sessionRnti'[g][s] = sessionRnti[g][s]
          \/ \E r \in Rnti : rntiSession[g][r] = s /\ ctx'[g][r].st = "NONE"

\* No UE is sent to a context, unless it is ready for it.
SentRemain ==
    \A v \in Ue, g \in Gnb, r \in Rnti :
       SentTo(v, g, r)' /\ ctx'[g][r].st = "HANDOVER_JOINING" =>
          SentTo(v, g, r) \/ (~Asked(v) => JoinReady(v, g, r)')

\* Contexts that remain know what they knew, and serve whom they served.
LEMMA RemainKnows ==
  ASSUME GInv, NEW sown, CtxRemain(sown)
  PROVE  CtxKnows(sown) /\ \A v \in Ue : ServesOn(v)
<1>1. CtxKnows(sown) BY DEF CtxKnows, CtxRemain, Knows, Remains
<1>2. ASSUME NEW v \in Ue, NEW g \in Gnb, NEW r \in Rnti, ctx'[g][r].imsi = v,
             ctx'[g][r].st \in Serves
      PROVE  Remains(ctx[g][r], ctx'[g][r]) /\ ctx[g][r].imsi = v /\ ctx[g][r].st \in Serves
  <2>1. Remains(ctx[g][r], ctx'[g][r]) BY <1>2 DEF CtxRemain, Serves
  <2>2. ctx[g][r].st \in Serves BY <1>2, <2>1 DEF Remains
  <2>3. ctx[g][r].imsi \in Ue
    <3>1. ctx[g][r] \in Good(g) BY ContextIsGood DEF GInv
    <3> QED BY <2>2, <3>1 DEF Good, Named, Serves
  <2> QED BY <1>2, <2>1, <2>2, <2>3, NodesAssumption DEF Remains
<1>3. \A v \in Ue : ServesOn(v) BY <1>2 DEF ServesOn, Remains
<1> QED BY <1>1, <1>3

\* TEIDs that remain lead where they led.
LEMMA TablesRemainTell ==
  ASSUME TablesTold, TablesRemain
  PROVE  /\ AppTells
         /\ \A s \in Session : endpoint'[s] = endpoint[s] => SessionGoesOn(s)
<1>1. AppTells BY DEF AppTells, TablesRemain, TablesTold
<1>2. \A s \in Session : s # 0 BY DEF Session
<1>3. ASSUME NEW s \in Session, endpoint'[s] = endpoint[s] PROVE SessionGoesOn(s)
  BY <1>2, <1>3 DEF SessionGoesOn, TablesRemain
<1> QED BY <1>1, <1>3

\* Where a UE was sent, and was awaited, it was before.
LEMMA SentRemainOn ==
  ASSUME GInv, NEW own, Owned(own), NEW sown, CtxRemain(sown), SentRemain, NEW v \in Ue
  PROVE  SentOn(v)
<1> SUFFICES ASSUME NEW g \in Gnb, NEW r \in Rnti, SentTo(v, g, r),
                    ctx'[g][r].st = "HANDOVER_JOINING"
             PROVE  Remains(ctx[g][r], ctx'[g][r])
  BY DEF SentOn, SentRemain, Remains
<1>1. Owns(own, lastRnti, g, r, v)
  <2>1. CASE Uses(ue[v], g, r) BY <2>1 DEF Owned, UesOwned
  <2>2. CASE /\ down[v] # <<>> /\ Head(down[v]).type = "HandoverCommand"
             /\ Head(down[v]).gnb = g /\ Head(down[v]).rnti = r
    BY <2>2 DEF Owned, DownOwned
  <2> QED BY <2>1, <2>2 DEF SentTo
<1>2. ~(r > lastRnti[g]) BY <1>1, StateTypes DEF Owns
<1> QED BY <1>2 DEF CtxRemain

\* The core network, and what gNBs told it.
LEMMA EpcRemains ==
  ASSUME GInv, NEW sown \in SessionOwners, UNCHANGED epcVars, imsiRnti' = imsiRnti
  PROVE  Spreads(sown, sown) /\ EpcTells(sown) /\ \A v \in Ue : RequestsGoOn(v)
<1>1. sessions' >= sessions BY EpcAssumption DEF GInv, EpcOK, EpcTypeOK, epcVars
<1>2. Spreads(sown, sown) BY <1>1 DEF Spreads
<1>3. EpcTells(sown) BY DEF EpcTells, epcVars
<1>4. \A v \in Ue : RequestsGoOn(v) BY DEF RequestsGoOn, Asked, Alone, epcVars
<1> QED BY <1>2, <1>3, <1>4

\* The path of the packets after a step without the core network.
LEMMA PathRemains ==
  ASSUME GInv, GInv', NEW own, Owned(own), NEW sown \in SessionOwners, PathOK(sown),
         CtxKnows(sown), \A v \in Ue : ServesOn(v) /\ SentOn(v),
         TablesRemain, X2Tells(sown), QueuesLast, UNCHANGED epcVars
  PROVE  PathOK(sown)'
<1>1. Spreads(sown, sown) /\ EpcTells(sown) /\ \A v \in Ue : RequestsGoOn(v)
  BY EpcRemains DEF TablesRemain
<1>2. AppTells /\ \A s \in Session : SessionGoesOn(s)
  BY TablesRemainTell DEF PathOK, epcVars
<1>3. SessionsKnown(sown)' /\ TablesTold' /\ MsgSessions'
  BY <1>1, <1>2, PathTold DEF PathTells
<1>4. ASSUME NEW v \in Ue PROVE Follows(v)'
  <2>1. \A s : Known(sown, s, v) => s \in Session
    BY EpcAssumption DEF Known, IsOf, Session, GInv, EpcOK, EpcTypeOK
  <2> QED BY <1>1, <1>2, <1>3, <2>1, FollowsOn DEF PathOK
<1> QED BY <1>3, <1>4 DEF PathOK

-----------------------------------------------------------------------------
(* Handlers that leave the path of the packets alone.                       *)

\* No handover command is sent.
NoCommand ==
    \/ down' = down
    \/ \E v \in Ue, m \in DownMessage : down' = To(down, v, m) /\ m.type # "HandoverCommand"
Plain(sown) ==
    /\ CtxRemain(sown) /\ TablesRemain /\ X2Tells(sown) /\ QueuesLast /\ NoCommand
    /\ UNCHANGED epcVars

\* Without a handover command no UE is sent anywhere.
LEMMA NoCommandSent ==
  ASSUME down = NoMessage, ue' = ue, NoCommand
  PROVE  SentRemain
<1> SUFFICES ASSUME NEW v \in Ue, NEW g \in Gnb, NEW r \in Rnti, SentTo(v, g, r)'
             PROVE  SentTo(v, g, r)
  BY DEF SentRemain
<1>1. CASE down' = down BY <1>1 DEF SentTo
<1>2. ASSUME NEW w \in Ue, NEW m \in DownMessage, down' = To(down, w, m), m.type # "HandoverCommand"
      PROVE  SentTo(v, g, r)
  <2>1. down' = Only(w, m) BY <1>2, OnlySent
  <2>2. down'[v] # <<>> => Head(down'[v]) = m BY <2>1, OnlySent
  <2> QED BY <1>2, <2>2 DEF SentTo
<1> QED BY <1>1, <1>2 DEF NoCommand

\* The path after such a handler.
LEMMA PlainKeeps ==
  ASSUME GInv, GInv', NEW own, Owned(own), NEW sown \in SessionOwners, PathOK(sown),
         down = NoMessage, ue' = ue, Plain(sown)
  PROVE  PathOK(sown)'
<1>1. SentRemain BY NoCommandSent DEF Plain
<1>2. CtxKnows(sown) /\ \A v \in Ue : ServesOn(v) BY RemainKnows DEF Plain
<1>3. \A v \in Ue : SentOn(v) BY <1>1, SentRemainOn DEF Plain
<1> QED BY <1>2, <1>3, PathRemains DEF Plain

\* A step that changes one context at most.
LEMMA OneContextRemains ==
  ASSUME GInv, NEW sown, NEW g \in Gnb, NEW r \in Rnti, NEW d, ctx' = [ctx EXCEPT ![g][r] = d],
         \/ d.st = "NONE" \/ Remains(ctx[g][r], d)
         \/ /\ r > lastRnti[g] /\ d.st \notin Serves
            /\ d.session # 0 => IsOf(sown, sessions', d.session, d.imsi),
         \A h \in Gnb : lastRnti'[h] >= lastRnti[h]
  PROVE  CtxRemain(sown)
<1>1. ctx \in Contexts BY StateTypes
<1>2. ASSUME NEW h \in Gnb, NEW q \in Rnti
      PROVE  \/ ctx'[h][q].st = "NONE" \/ Remains(ctx[h][q], ctx'[h][q])
             \/ /\ q > lastRnti[h] /\ ctx'[h][q].st \notin Serves
                /\ ctx'[h][q].session # 0 =>
                      IsOf(sown, sessions', ctx'[h][q].session, ctx'[h][q].imsi)
  <2>1. CASE h = g /\ q = r
    <3>1. ctx'[g][r] = d BY <1>1 DEF Contexts
    <3> QED BY <2>1, <3>1
  <2>2. CASE ~(h = g /\ q = r)
    <3>1. ctx'[h][q] = ctx[h][q] BY <1>1, <2>2 DEF Contexts
    <3> QED BY <3>1 DEF Remains
  <2> QED BY <2>1, <2>2
<1> QED BY <1>2 DEF CtxRemain

\* A step that leaves the contexts alone.
LEMMA ContextsRemain ==
  ASSUME GInv, NEW sown, ctx' = ctx, \A h \in Gnb : lastRnti'[h] >= lastRnti[h]
  PROVE  CtxRemain(sown)
BY DEF CtxRemain, Remains

\* Tables that stay as they are while no context is removed.
LEMMA SameTablesRemain ==
  ASSUME UNCHANGED appVars, \A g \in Gnb, r \in Rnti : ctx[g][r].st # "NONE" => ctx'[g][r].st # "NONE"
  PROVE  TablesRemain
BY DEF TablesRemain, appVars

\* A context is replaced by one that goes on, and its tables stay.
LEMMA SetRemains ==
  ASSUME GInv, NEW sown, NEW g \in Gnb, NEW r \in Rnti, NEW d, SetContext(g, r, d),
         Remains(ctx[g][r], d), d.st # "NONE"
  PROVE  CtxRemain(sown) /\ TablesRemain
<1>1. ctx' = [ctx EXCEPT ![g][r] = d] /\ lastRnti' = lastRnti /\ UNCHANGED appVars
  BY DEF SetContext
<1>2. \A h \in Gnb : lastRnti'[h] >= lastRnti[h] BY <1>1, StateTypes
<1>3. CtxRemain(sown) BY <1>1, <1>2, OneContextRemains
<1>4. \A h \in Gnb, q \in Rnti : ctx[h][q].st # "NONE" => ctx'[h][q].st # "NONE"
  BY <1>1, StateTypes DEF Contexts
<1> QED BY <1>1, <1>3, <1>4, SameTablesRemain

\* A context is removed with its TEIDs.
LEMMA RemovedRemains ==
  ASSUME GInv, NEW sown, NEW g \in Gnb, NEW r \in Rnti, RemoveUe(g, r)
  PROVE  CtxRemain(sown) /\ TablesRemain /\ rntiSession'[g][r] = 0
<1>1. /\ ctx' = [ctx EXCEPT ![g][r] = NoContext] /\ lastRnti' = lastRnti /\ imsiRnti' = imsiRnti
      /\ rntiSession' = [rntiSession EXCEPT ![g][r] = 0]
      /\ sessionRnti' = [sessionRnti EXCEPT ![g] =
                          [s \in Session |-> IF s = rntiSession[g][r] THEN 0 ELSE @[s]]]
  BY DEF RemoveUe, UeContextRelease
<1>2. \A h \in Gnb : lastRnti'[h] >= lastRnti[h] BY <1>1, StateTypes
<1>3. NoContext.st = "NONE" BY NoContextIsGood
<1>4. CtxRemain(sown) BY <1>1, <1>2, <1>3, OneContextRemains
<1>5. ctx'[g][r].st = "NONE" /\ \A h \in Gnb, q \in Rnti : ~(h = g /\ q = r) => ctx'[h][q] = ctx[h][q]
  <2> HIDE DEF NoContext
  <2> QED BY <1>1, <1>3, StateTypes DEF Contexts
<1>6. /\ rntiSession'[g][r] = 0
      /\ \A h \in Gnb, q \in Rnti : ~(h = g /\ q = r) => rntiSession'[h][q] = rntiSession[h][q]
      /\ \A h \in Gnb, s \in Session :
            sessionRnti'[h][s] = sessionRnti[h][s] \/ (h = g /\ rntiSession[g][r] = s)
  BY <1>1 DEF GInv, AppOK
<1>7. TablesRemain
  <2>1. ASSUME NEW h \in Gnb, NEW q \in Rnti
        PROVE  /\ \/ rntiSession'[h][q] = 0
                  \/ /\ rntiSession'[h][q] = rntiSession[h][q]
                     /\ ctx[h][q].st # "NONE" => ctx'[h][q].st # "NONE"
               /\ rntiSession'[h][q] # rntiSession[h][q] => ctx'[h][q].st = "NONE"
    <3>1. CASE h = g /\ q = r BY <1>5, <1>6, <3>1
    <3>2. CASE ~(h = g /\ q = r) BY <1>5, <1>6, <3>2
    <3> QED BY <3>1, <3>2
  <2>2. ASSUME NEW h \in Gnb, NEW s \in Session
        PROVE  \/ sessionRnti'[h][s] = sessionRnti[h][s]
               \/ \E q \in Rnti : rntiSession[h][q] = s /\ ctx'[h][q].st = "NONE"
    BY <1>5, <1>6
  <2> QED BY <1>1, <2>1, <2>2 DEF TablesRemain
<1> QED BY <1>4, <1>6, <1>7

\* A message that is neither a handover request nor an acknowledgement says nothing of
\* sessions.
LEMMA OtherTells ==
  ASSUME NEW sown, NEW a \in Gnb, NEW b, NEW m, Adds(x2', a, b, m),
         m.type \notin {"HandoverRequest", "HandoverRequestAck"}
  PROVE  X2Tells(sown)
<1> SUFFICES ASSUME NEW g \in Gnb, NEW h \in Gnb, NEW i \in 1 .. Len(x2'[h][g])
             PROVE  \/ \E j \in 1 .. Len(x2[h][g]) : x2'[h][g][i] = x2[h][g][j]
                    \/ x2'[h][g][i] = m
  BY DEF X2Tells, MsgSession
<1> QED BY DEF Adds

\* No message says nothing.
LEMMA NothingTells ==
  ASSUME NEW sown, AddsNothing(x2') \/ x2' = x2
  PROVE  X2Tells(sown)
BY DEF AddsNothing, X2Tells

\* Messages of these types are X2 messages.
LEMMA MessageType ==
  ASSUME NEW type \in {"HandoverPreparationFailure", "SnStatusTransfer", "UeContextRelease",
                       "HandoverCancel"},
         NEW old \in 0 .. MaxRnti, NEW new \in 0 .. MaxRnti, NEW session \in 0 .. MaxSession
  PROVE  LET m == Message(type, old, new, None, session) IN
         m \in X2Message /\ m.type \notin {"HandoverRequest", "HandoverRequestAck"}
BY DEF Message, X2Message

\* Queues that stay as they are.
LEMMA SameQueuesLast ==
  ASSUME UNCHANGED x2
  PROVE  QueuesLast
BY DEF QueuesLast, Lasts

\* A step that the gNBs do not take part in.
LEMMA PlainStutter ==
  ASSUME GInv, NEW sown, UNCHANGED <<gnbVars, x2, down, epcVars>>
  PROVE  Plain(sown)
<1>1. \A h \in Gnb : lastRnti'[h] >= lastRnti[h] BY StateTypes DEF gnbVars
<1>2. CtxRemain(sown) BY <1>1, ContextsRemain DEF gnbVars
<1>3. TablesRemain BY SameTablesRemain DEF gnbVars
<1> QED BY <1>2, <1>3, SameQueuesLast, NothingTells DEF Plain, NoCommand

\* A message to a UE other than a handover command.
LEMMA OtherNoCommand ==
  ASSUME NEW v \in Ue, NEW g \in Gnb, NEW r \in Rnti,
         NEW type \in {"ConnectionSetup", "ConnectionReject", "Reconfiguration",
                       "ConnectionRelease"},
         SendDown(v, type, g, r)
  PROVE  NoCommand
<1> DEFINE m == [type |-> type, gnb |-> g, rnti |-> r]
<1>1. m \in DownMessage /\ m.type # "HandoverCommand" BY RntiRange DEF DownMessage
<1>2. down' = To(down, v, m) BY DEF SendDown
<1> QED BY <1>1, <1>2 DEF NoCommand

\* The fields of a context in CONNECTED_NORMALLY again.
LEMMA NormalSource ==
  ASSUME NEW e \in Context
  PROVE  Normal(e).sourceId = e.sourceId
BY DEF Normal, Context

\* A context that serves a UE goes on in CONNECTED_NORMALLY.
LEMMA SwitchRemains ==
  ASSUME GInv, NEW sown, NEW g \in Gnb, NEW r \in Rnti, ctx[g][r].st \in Reached,
         NEW e \in Context, e.imsi = ctx[g][r].imsi, e.session = ctx[g][r].session,
         e.source = ctx[g][r].source, e.sourceId = ctx[g][r].sourceId, SwitchToNormal(g, r, e)
  PROVE  CtxRemain(sown) /\ TablesRemain /\ NoCommand
<1> DEFINE c == ctx[g][r]
<1>1. PICK d : d = Normal(e) OBVIOUS
<1>2. /\ d.st \in {"CONNECTED_NORMALLY", "CONNECTION_RECONFIGURATION"}
      /\ d.imsi = c.imsi /\ d.session = c.session /\ d.source = c.source /\ d.sourceId = c.sourceId
  BY <1>1, NormalFields, NormalSource
<1>3. Remains(c, d) BY <1>2 DEF Remains, Reached, Serves, Awaits
<1>4. SetContext(g, r, d) BY <1>1 DEF SwitchToNormal
<1>5. CtxRemain(sown) /\ TablesRemain BY <1>2, <1>3, <1>4, SetRemains
<1>6. e.imsi \in Ue
  <2>1. c \in Good(g) BY ContextIsGood DEF GInv
  <2> QED BY <2>1 DEF Good, Named, Reached, Serves
<1>7. NoCommand
  <2>1. CASE UNCHANGED down BY <2>1 DEF NoCommand
  <2>2. CASE SendDown(e.imsi, "Reconfiguration", g, r) BY <1>6, <2>2, OtherNoCommand
  <2> QED BY <2>1, <2>2 DEF SwitchToNormal
<1> QED BY <1>5, <1>7

\* A connection request of the UE that owns the RNTI.
LEMMA ConnectionRequestPlain ==
  ASSUME GInv, NEW own, Owned(own), NEW sown, abort' = "none", NEW g \in Gnb, NEW r,
         NEW u \in Ue, NEW admit \in BOOLEAN, r \in Rnti => Owns(own, lastRnti, g, r, u),
         RecvRrcConnectionRequest(g, r, u, admit)
  PROVE  Plain(sown)
<1> DEFINE c == ctx[g][r]
<1>0. HasUeManager(g, r) /\ UNCHANGED <<x2, epcVars>>
  BY DEF RecvRrcConnectionRequest, Abort, AbortInAnswer
<1>1. r \in Rnti /\ c \in Context /\ c.st # "NONE" BY <1>0, IsContext DEF HasUeManager
<1>2. QueuesLast /\ X2Tells(sown) BY <1>0, SameQueuesLast, NothingTells
<1>3. ASSUME NEW d, SetContext(g, r, d), d.imsi = u \/ d.imsi = c.imsi, d.session = c.session,
             d.source = c.source, d.sourceId = c.sourceId,
             d.st \in {"CONNECTION_SETUP", "CONNECTION_REJECTED", "INITIAL_RANDOM_ACCESS"},
             NoCommand
      PROVE  Plain(sown)
  <2>1. c.imsi \in {None, u} BY <1>1 DEF Owned, CtxOwned, Owns
  <2>2. Remains(c, d) /\ d.st # "NONE"
    BY <1>1, <1>3, <2>1 DEF Remains, Reached, Serves, Awaits
  <2>3. CtxRemain(sown) /\ TablesRemain BY <1>1, <1>3, <2>2, SetRemains
  <2> QED BY <1>0, <1>2, <1>3, <2>3 DEF Plain
<1>4. ASSUME SetContext(g, r, [c EXCEPT !.st = "CONNECTION_SETUP", !.imsi = u,
                    !.timers = (@ \ {"connectionRequest"}) \cup {"connectionSetup"}]),
             SendDown(u, "ConnectionSetup", g, r)
      PROVE  Plain(sown)
  <2>1. PICK d : d = [c EXCEPT !.st = "CONNECTION_SETUP", !.imsi = u,
                    !.timers = (@ \ {"connectionRequest"}) \cup {"connectionSetup"}] OBVIOUS
  <2>2. /\ d.st = "CONNECTION_SETUP" /\ d.imsi = u /\ d.session = c.session
        /\ d.source = c.source /\ d.sourceId = c.sourceId
    BY <1>1, <2>1 DEF Context
  <2>3. NoCommand BY <1>1, <1>4, OtherNoCommand
  <2> QED BY <1>3, <1>4, <2>1, <2>2, <2>3
<1>5. ASSUME SetContext(g, r, [c EXCEPT !.st = "CONNECTION_REJECTED",
                    !.timers = (@ \ {"connectionRequest"}) \cup {"connectionRejected"}]),
             SendDown(u, "ConnectionReject", g, r)
      PROVE  Plain(sown)
  <2>1. PICK d : d = [c EXCEPT !.st = "CONNECTION_REJECTED",
                    !.timers = (@ \ {"connectionRequest"}) \cup {"connectionRejected"}] OBVIOUS
  <2>2. /\ d.st = "CONNECTION_REJECTED" /\ d.imsi = c.imsi /\ d.session = c.session
        /\ d.source = c.source /\ d.sourceId = c.sourceId
    BY <1>1, <2>1 DEF Context
  <2>3. NoCommand BY <1>1, <1>5, OtherNoCommand
  <2> QED BY <1>3, <1>5, <2>1, <2>2, <2>3
<1>6. ASSUME SetContext(g, r, [c EXCEPT !.st = "INITIAL_RANDOM_ACCESS",
                                           !.timers = @ \ {"handoverLeaving"}]),
             UNCHANGED down
      PROVE  Plain(sown)
  <2>1. PICK d : d = [c EXCEPT !.st = "INITIAL_RANDOM_ACCESS", !.timers = @ \ {"handoverLeaving"}]
    OBVIOUS
  <2>2. /\ d.st = "INITIAL_RANDOM_ACCESS" /\ d.imsi = c.imsi /\ d.session = c.session
        /\ d.source = c.source /\ d.sourceId = c.sourceId
    BY <1>1, <2>1 DEF Context
  <2>3. NoCommand BY <1>6 DEF NoCommand
  <2> QED BY <1>3, <1>6, <2>1, <2>2, <2>3
<1>7. CASE UNCHANGED <<gnbVars, down>> BY <1>0, <1>7, PlainStutter
<1> QED BY <1>4, <1>5, <1>6, <1>7 DEF RecvRrcConnectionRequest, Abort, AbortInAnswer

\* A UE completed a reconfiguration.
LEMMA ReconfigurationPlain ==
  ASSUME GInv, NEW sown, abort' = "none", NEW g \in Gnb, NEW r,
         ~(HasUeManager(g, r) /\ ctx[g][r].st = "HANDOVER_JOINING"),
         RecvRrcConnectionReconfigurationCompleted(g, r)
  PROVE  Plain(sown)
<1> DEFINE c == ctx[g][r]
<1>1. CASE UNCHANGED <<gnbVars, x2, down, epcVars>> BY <1>1, PlainStutter
<1>2. ASSUME HasUeManager(g, r), c.st = "CONNECTION_RECONFIGURATION",
             SwitchToNormal(g, r, c), UNCHANGED <<x2, epcVars>>
      PROVE  Plain(sown)
  <2>1. r \in Rnti /\ c \in Context BY <1>2, IsContext
  <2>2. c.st \in Reached BY <1>2 DEF Reached, Serves, Awaits
  <2>3. CtxRemain(sown) /\ TablesRemain /\ NoCommand BY <1>2, <2>1, <2>2, SwitchRemains
  <2> QED BY <1>2, <2>3, SameQueuesLast, NothingTells DEF Plain
<1> QED BY <1>1, <1>2 DEF RecvRrcConnectionReconfigurationCompleted, Abort, AbortInAnswer

\* The radio parameters change.
LEMMA SchedulePlain ==
  ASSUME GInv, NEW sown, abort' = "none", NEW g \in Gnb, NEW r,
         ScheduleRrcConnectionReconfiguration(g, r)
  PROVE  Plain(sown)
<1> DEFINE c == ctx[g][r]
           e == [c EXCEPT !.pending = TRUE]
<1>2. HasUeManager(g, r) /\ UNCHANGED <<x2, epcVars>>
  BY DEF ScheduleRrcConnectionReconfiguration, Abort, AbortInAnswer
<1>3. r \in Rnti /\ c \in Context /\ c.st # "NONE" BY <1>2, IsContext DEF HasUeManager
<1>4. /\ e \in Context /\ e.imsi = c.imsi /\ e.st = c.st /\ e.source = c.source
      /\ e.sourceId = c.sourceId /\ e.session = c.session /\ e.target = c.target
  BY <1>3 DEF Context
<1> HIDE DEF e
<1>5. QueuesLast /\ X2Tells(sown) BY <1>2, SameQueuesLast, NothingTells
<1>6. ASSUME c.st = "CONNECTED_NORMALLY", SwitchToNormal(g, r, e)
      PROVE  Plain(sown)
  <2>1. c.st \in Reached BY <1>6 DEF Reached, Serves, Awaits
  <2>2. CtxRemain(sown) /\ TablesRemain /\ NoCommand BY <1>3, <1>4, <1>6, <2>1, SwitchRemains
  <2> QED BY <1>2, <1>5, <2>2 DEF Plain
<1>7. ASSUME SetContext(g, r, e), UNCHANGED down
      PROVE  Plain(sown)
  <2>1. Remains(c, e) BY <1>3, <1>4 DEF Remains
  <2>2. CtxRemain(sown) /\ TablesRemain BY <1>3, <1>4, <1>7, <2>1, SetRemains
  <2> QED BY <1>2, <1>5, <1>7, <2>2 DEF Plain, NoCommand
<1> QED BY <1>6, <1>7 DEF ScheduleRrcConnectionReconfiguration, Abort, AbortInAnswer, e

\* A message other than those of a preparation is sent.
LEMMA SentOther ==
  ASSUME GInv, NEW sown, NEW a \in Gnb, NEW b \in Gnb,
         NEW type \in {"HandoverPreparationFailure", "SnStatusTransfer", "UeContextRelease",
                       "HandoverCancel"},
         NEW old \in 0 .. MaxRnti, NEW new \in 0 .. MaxRnti, NEW session \in 0 .. MaxSession,
         x2' = Sent(a, b, Message(type, old, new, None, session))
  PROVE  X2Tells(sown) /\ QueuesLast
<1>1. PICK m : m = Message(type, old, new, None, session) OBVIOUS
<1>2. m \in X2Message /\ m.type \notin {"HandoverRequest", "HandoverRequestAck"}
  BY <1>1, MessageType
<1>3. Adds(x2', a, b, m) /\ QueuesLast BY <1>1, <1>2, StateTypes, SentAdds, SentLasts
<1> QED BY <1>2, <1>3, OtherTells

\* A message is taken, and may be answered so.
LEMMA TakenOther ==
  ASSUME GInv, NEW sown, NEW g \in Gnb, NEW h \in Gnb, x2[h][g] # <<>>,
         NEW type \in {"HandoverPreparationFailure", "SnStatusTransfer"},
         NEW old \in 0 .. MaxRnti, NEW new \in 0 .. MaxRnti, NEW session \in 0 .. MaxSession,
         x2' = Taken(h, g) \/ x2' = Answered(h, g, Message(type, old, new, None, session)),
         LET first == Head(x2[h][g]) IN
            first.type = "UeContextRelease" /\ first.old \in Rnti => rntiSession'[g][first.old] = 0
  PROVE  X2Tells(sown) /\ QueuesLast
<1>0. g # h /\ x2 \in Channels BY TakenFacts, StateTypes
<1>1. PICK m : m = Message(type, old, new, None, session) OBVIOUS
<1>2. m \in X2Message /\ m.type \notin {"HandoverRequest", "HandoverRequestAck"}
  BY <1>1, MessageType
<1>3. QueuesLast BY <1>0, <1>1, <1>2, TakenLasts
<1>4. X2Tells(sown)
  <2>1. CASE x2' = Taken(h, g) BY <1>0, <2>1, TakenAdds, NothingTells
  <2>2. CASE x2' = Answered(h, g, m)
    <3>1. Adds(x2', g, h, m) BY <1>0, <2>2, AnsweredAdds
    <3> QED BY <1>2, <3>1, OtherTells
  <2> QED BY <1>1, <2>1, <2>2
<1> QED BY <1>3, <1>4

\* A UE asks to forget its context.
LEMMA ContextRemovePlain ==
  ASSUME GInv, NEW sown, NEW g \in Gnb, NEW r, RecvIdealUeContextRemoveRequest(g, r)
  PROVE  Plain(sown)
<1> DEFINE c == ctx[g][r]
<1>0. UNCHANGED <<down, epcVars>> BY DEF RecvIdealUeContextRemoveRequest
<1>1. CASE UNCHANGED <<gnbVars, x2>> BY <1>0, <1>1, PlainStutter
<1>2. ASSUME HasUeManager(g, r), RemoveUe(g, r),
             \/ x2' = x2
             \/ /\ c.st = "HANDOVER_JOINING"
                /\ x2' = Sent(g, c.source,
                              Message("HandoverPreparationFailure", c.sourceId, 0, None, 0))
      PROVE  Plain(sown)
  <2>1. r \in Rnti /\ c \in Context /\ c \in Good(g) BY <1>2, IsContext
  <2>2. CtxRemain(sown) /\ TablesRemain BY <1>2, <2>1, RemovedRemains
  <2>3. X2Tells(sown) /\ QueuesLast
    <3>1. CASE x2' = x2 BY <3>1, SameQueuesLast, NothingTells
    <3>2. CASE /\ c.st = "HANDOVER_JOINING"
               /\ x2' = Sent(g, c.source,
                             Message("HandoverPreparationFailure", c.sourceId, 0, None, 0))
      <4>1. c.source \in Gnb /\ c.sourceId \in 0 .. MaxRnti BY <2>1, <3>2 DEF Good, Context
      <4>2. 0 \in 0 .. MaxRnti /\ 0 \in 0 .. MaxSession BY RanAssumption, EpcAssumption
      <4> QED BY <3>2, <4>1, <4>2, SentOther
    <3> QED BY <1>2, <3>1, <3>2
  <2> QED BY <1>0, <2>2, <2>3 DEF Plain, NoCommand
<1> QED BY <1>1, <1>2 DEF RecvIdealUeContextRemoveRequest

\* A timeout expires.
LEMMA TimeoutPlain ==
  ASSUME GInv, NEW sown, abort' = "none", NEW g \in Gnb, NEW r \in Rnti, NEW t \in Timer,
         Timeout(g, r, t)
  PROVE  Plain(sown)
<1> DEFINE c == ctx[g][r]
           fail == Message("HandoverPreparationFailure", c.sourceId, 0, None, 0)
           cancel == Message("HandoverCancel", r, c.targetId, None, 0)
<1>1. /\ RemoveUe(g, r) /\ c.st = TimerState[t] /\ UNCHANGED epcVars
      /\ \/ UNCHANGED <<x2, down>>
         \/ t = "handoverJoining" /\ x2' = Sent(g, c.source, fail) /\ UNCHANGED down
         \/ /\ t = "handoverLeaving" /\ x2' = Sent(g, c.target, cancel)
            /\ SendDown(c.imsi, "ConnectionRelease", g, r)
  BY DEF Timeout, Abort, AbortInAnswer
<1>2. CtxRemain(sown) /\ TablesRemain BY <1>1, RemovedRemains
<1>3. c \in Good(g) /\ c \in Context BY ContextIsGood DEF GInv
<1>4. /\ c.sourceId \in 0 .. MaxRnti /\ c.targetId \in 0 .. MaxRnti /\ r \in 0 .. MaxRnti
      /\ 0 \in 0 .. MaxRnti /\ 0 \in 0 .. MaxSession
  BY <1>3, RntiRange, RanAssumption, EpcAssumption DEF Context
<1>5. CASE UNCHANGED <<x2, down>>
  BY <1>1, <1>2, <1>5, SameQueuesLast, NothingTells DEF Plain, NoCommand
<1>6. CASE t = "handoverJoining" /\ x2' = Sent(g, c.source, fail) /\ UNCHANGED down
  <2>1. c.source \in Gnb BY <1>1, <1>3, <1>6 DEF Good, TimerState
  <2>2. X2Tells(sown) /\ QueuesLast BY <1>4, <1>6, <2>1, SentOther
  <2> QED BY <1>1, <1>2, <1>6, <2>2 DEF Plain, NoCommand
<1>7. CASE /\ t = "handoverLeaving" /\ x2' = Sent(g, c.target, cancel)
           /\ SendDown(c.imsi, "ConnectionRelease", g, r)
  <2>1. c.st = "HANDOVER_LEAVING" BY <1>1, <1>7 DEF TimerState
  <2>2. c.target \in Gnb /\ c.imsi \in Ue BY <1>3, <2>1 DEF Good, Named
  <2>3. X2Tells(sown) /\ QueuesLast BY <1>4, <1>7, <2>2, SentOther
  <2>4. NoCommand BY <1>7, <2>2, OtherNoCommand
  <2> QED BY <1>1, <1>2, <2>3, <2>4 DEF Plain
<1> QED BY <1>1, <1>5, <1>6, <1>7

\* A context is made that serves no UE, and tables stay.
LEMMA AddRemains ==
  ASSUME GInv, NEW sown, NEW g \in Gnb, NEW d, AddUe(g, d), d.st \notin Serves, d.st # "NONE",
         d.session # 0 => IsOf(sown, sessions', d.session, d.imsi)
  PROVE  CtxRemain(sown) /\ TablesRemain
<1> DEFINE n == NewRnti(g)
<1>1. /\ lastRnti[g] < MaxRnti /\ ctx' = [ctx EXCEPT ![g][n] = d]
      /\ lastRnti' = [lastRnti EXCEPT ![g] = n] /\ UNCHANGED appVars
  BY DEF AddUe
<1>2. lastRnti \in [Gnb -> 0 .. MaxRnti] /\ MaxRnti \in Nat BY StateTypes, RanAssumption
<1>3. n \in Rnti /\ n > lastRnti[g] BY <1>1, <1>2 DEF NewRnti, Rnti
<1>4. \A h \in Gnb : lastRnti'[h] >= lastRnti[h] BY <1>1, <1>2 DEF NewRnti
<1>5. CtxRemain(sown) BY <1>1, <1>3, <1>4, OneContextRemains
<1>6. \A h \in Gnb, q \in Rnti : ctx[h][q].st # "NONE" => ctx'[h][q].st # "NONE"
  BY <1>1, <1>3, StateTypes DEF Contexts
<1> QED BY <1>1, <1>5, <1>6, SameTablesRemain

\* A contention preamble.
LEMMA AllocatePlain ==
  ASSUME GInv, NEW sown, NEW g \in Gnb, AllocateTemporaryCellRnti(g)
  PROVE  Plain(sown)
<1>1. PICK d : d = NewContext("INITIAL_RANDOM_ACCESS", {"connectionRequest"}) OBVIOUS
<1>2. d.st = "INITIAL_RANDOM_ACCESS" /\ d.session = 0 BY <1>1 DEF NewContext
<1>3. AddUe(g, d) /\ UNCHANGED <<x2, down, epcVars>> BY <1>1 DEF AllocateTemporaryCellRnti
<1>4. CtxRemain(sown) /\ TablesRemain BY <1>2, <1>3, AddRemains DEF Serves
<1> QED BY <1>3, <1>4, SameQueuesLast, NothingTells DEF Plain, NoCommand

\* A handover request is refused.
LEMMA RefusePlain ==
  ASSUME GInv, NEW sown, NEW g \in Gnb, NEW h \in Gnb, x2[h][g] # <<>>, NEW answer,
         answer # "admit", Head(x2[h][g]).type = "HandoverRequest",
         RecvHandoverRequest(g, h, Head(x2[h][g]), answer)
  PROVE  Plain(sown)
<1> DEFINE m == Head(x2[h][g])
<1>1. /\ x2' = Answered(h, g, Message("HandoverPreparationFailure", m.old, 0, None, 0))
      /\ UNCHANGED <<ctx, appVars, down, epcVars>>
      /\ lastRnti' = lastRnti \/ lastRnti' = [lastRnti EXCEPT ![g] = lastRnti[g] + 1]
  BY DEF RecvHandoverRequest, gnbVars, NewRnti
<1>2. m \in X2Message BY TakenFacts
<1>3. m.old \in 0 .. MaxRnti /\ 0 \in 0 .. MaxRnti /\ 0 \in 0 .. MaxSession
  BY <1>2, RanAssumption, EpcAssumption DEF X2Message
<1>4. X2Tells(sown) /\ QueuesLast BY <1>1, <1>3, TakenOther
<1>5. \A k \in Gnb : lastRnti'[k] >= lastRnti[k] BY <1>1, StateTypes
<1>6. CtxRemain(sown) BY <1>1, <1>5, ContextsRemain
<1>7. TablesRemain BY <1>1, SameTablesRemain
<1> QED BY <1>1, <1>4, <1>6, <1>7 DEF Plain, NoCommand

\* The target refuses, or gave up waiting.
LEMMA FailurePlain ==
  ASSUME GInv, NEW sown, abort' = "none", NEW g \in Gnb, NEW h \in Gnb, x2[h][g] # <<>>,
         Head(x2[h][g]).type = "HandoverPreparationFailure",
         RecvHandoverPreparationFailure(g, h, Head(x2[h][g]))
  PROVE  Plain(sown)
<1> DEFINE r == Head(x2[h][g]).old
           c == ctx[g][r]
<1>1. x2' = Taken(h, g) /\ UNCHANGED epcVars
  BY DEF RecvHandoverPreparationFailure, Abort, AbortInAnswer
<1>2. X2Tells(sown) /\ QueuesLast
  <2>1. 0 \in 0 .. MaxRnti /\ 0 \in 0 .. MaxSession BY RanAssumption, EpcAssumption
  <2> QED BY <1>1, <2>1, TakenOther
<1>3. ASSUME UNCHANGED <<gnbVars, down>>
      PROVE  Plain(sown)
  <2>1. \A k \in Gnb : lastRnti'[k] >= lastRnti[k] BY <1>3, StateTypes DEF gnbVars
  <2>2. CtxRemain(sown) BY <1>3, <2>1, ContextsRemain DEF gnbVars
  <2>3. TablesRemain BY <1>3, SameTablesRemain DEF gnbVars
  <2> QED BY <1>1, <1>2, <1>3, <2>2, <2>3 DEF Plain, NoCommand
<1>4. ASSUME HasUeManager(g, r), c.st = "HANDOVER_PREPARATION", SwitchToNormal(g, r, c)
      PROVE  Plain(sown)
  <2>1. r \in Rnti /\ c \in Context BY <1>4, IsContext
  <2>2. c.st \in Reached BY <1>4 DEF Reached, Serves, Awaits
  <2>3. CtxRemain(sown) /\ TablesRemain /\ NoCommand BY <1>4, <2>1, <2>2, SwitchRemains
  <2> QED BY <1>1, <1>2, <2>3 DEF Plain
<1>5. ASSUME HasUeManager(g, r), SetContext(g, r, StopLeaving(c)), UNCHANGED down
      PROVE  Plain(sown)
  <2>1. r \in Rnti /\ c \in Context /\ c.st # "NONE" BY <1>5, IsContext DEF HasUeManager
  <2>2. PICK d : d = StopLeaving(c) OBVIOUS
  <2>3. /\ d.st = c.st /\ d.imsi = c.imsi /\ d.source = c.source /\ d.sourceId = c.sourceId
        /\ d.session = c.session /\ d.target = c.target
    BY <2>1, <2>2 DEF Context, StopLeaving
  <2>4. Remains(c, d) /\ d.st # "NONE" BY <2>1, <2>3 DEF Remains
  <2>5. CtxRemain(sown) /\ TablesRemain BY <1>5, <2>1, <2>2, <2>4, SetRemains
  <2> QED BY <1>1, <1>2, <1>5, <2>5 DEF Plain, NoCommand
<1> QED BY <1>3, <1>4, <1>5 DEF RecvHandoverPreparationFailure, Abort, AbortInAnswer

\* The sequence numbers of the bearers come, or the handover is over, or given up.
LEMMA LastMessagesPlain ==
  ASSUME GInv, TablesTold, NEW sown, abort' = "none", NEW g \in Gnb, NEW h \in Gnb, x2[h][g] # <<>>,
         LET m == Head(x2[h][g]) IN
         \/ m.type = "SnStatusTransfer" /\ RecvSnStatusTransfer(g, h, m)
         \/ m.type = "UeContextRelease" /\ RecvUeContextRelease(g, h, m)
         \/ m.type = "HandoverCancel" /\ RecvHandoverCancel(g, h, m)
  PROVE  Plain(sown)
<1> DEFINE m == Head(x2[h][g])
<1>1. x2' = Taken(h, g) /\ UNCHANGED <<down, epcVars>>
  BY DEF RecvSnStatusTransfer, RecvUeContextRelease, RecvHandoverCancel, Abort, AbortInAnswer
<1>2. ASSUME m.type = "UeContextRelease" /\ m.old \in Rnti => rntiSession'[g][m.old] = 0
      PROVE  X2Tells(sown) /\ QueuesLast
  <2>1. 0 \in 0 .. MaxRnti /\ 0 \in 0 .. MaxSession BY RanAssumption, EpcAssumption
  <2> QED BY <1>1, <1>2, <2>1, TakenOther
<1>3. ASSUME UNCHANGED gnbVars, m.type = "UeContextRelease" => ~HasUeManager(g, m.old)
      PROVE  Plain(sown)
  <2>1. \A k \in Gnb : lastRnti'[k] >= lastRnti[k] BY <1>3, StateTypes DEF gnbVars
  <2>2. CtxRemain(sown) BY <1>3, <2>1, ContextsRemain DEF gnbVars
  <2>3. TablesRemain BY <1>3, SameTablesRemain DEF gnbVars
  <2>4. m.type = "UeContextRelease" /\ m.old \in Rnti => rntiSession'[g][m.old] = 0
    BY <1>3 DEF TablesTold, HasUeManager, gnbVars, appVars
  <2> QED BY <1>1, <1>2, <2>2, <2>3, <2>4 DEF Plain, NoCommand
<1>4. ASSUME HasUeManager(g, m.old), RemoveUe(g, m.old)
      PROVE  Plain(sown)
  <2>1. m.old \in Rnti BY <1>4 DEF HasUeManager
  <2>2. CtxRemain(sown) /\ TablesRemain /\ rntiSession'[g][m.old] = 0
    BY <1>4, <2>1, RemovedRemains
  <2> QED BY <1>1, <1>2, <2>2 DEF Plain, NoCommand
<1>5. ASSUME NEW r, HasUeManager(g, r), m.type # "UeContextRelease",
             SetContext(g, r, [ctx[g][r] EXCEPT !.timers = @ \ {"handoverJoining"}])
      PROVE  Plain(sown)
  <2> DEFINE c == ctx[g][r]
  <2>1. r \in Rnti /\ c \in Context /\ c.st # "NONE" BY <1>5, IsContext DEF HasUeManager
  <2>2. PICK d : d = [c EXCEPT !.timers = @ \ {"handoverJoining"}] OBVIOUS
  <2>3. /\ d.st = c.st /\ d.imsi = c.imsi /\ d.source = c.source /\ d.sourceId = c.sourceId
        /\ d.session = c.session /\ d.target = c.target
    BY <2>1, <2>2 DEF Context
  <2>4. Remains(c, d) /\ d.st # "NONE" BY <2>1, <2>3 DEF Remains
  <2>5. CtxRemain(sown) /\ TablesRemain BY <1>5, <2>1, <2>2, <2>4, SetRemains
  <2> QED BY <1>1, <1>2, <1>5, <2>5 DEF Plain, NoCommand
<1>6. CASE m.type = "SnStatusTransfer" /\ RecvSnStatusTransfer(g, h, m)
  BY <1>3, <1>6 DEF RecvSnStatusTransfer, Abort, AbortInAnswer
<1>7. CASE m.type = "UeContextRelease" /\ RecvUeContextRelease(g, h, m)
  BY <1>3, <1>4, <1>7 DEF RecvUeContextRelease, Abort, AbortInAnswer
<1>8. CASE m.type = "HandoverCancel" /\ RecvHandoverCancel(g, h, m)
  BY <1>3, <1>5, <1>8 DEF RecvHandoverCancel, Abort, AbortInAnswer
<1> QED BY <1>6, <1>7, <1>8

\* A message that says of sessions what is true.
LEMMA OneTells ==
  ASSUME NEW sown, NEW a \in Gnb, NEW b \in Gnb, NEW m, Adds(x2', a, b, m),
         m.type = "HandoverRequest" => IsOf(sown, sessions', m.session, m.imsi),
         MsgSession(ctx', a, b, m)
  PROVE  X2Tells(sown)
BY DEF Adds, X2Tells

\* What the first message of a queue says of sessions.
LEMMA HeadSession ==
  ASSUME GInv, NEW sown, SessionsKnown(sown), MsgSessions, NEW g \in Gnb, NEW h \in Gnb,
         x2[h][g] # <<>>
  PROVE  LET m == Head(x2[h][g]) IN
         /\ MsgSession(ctx, h, g, m)
         /\ m.type = "HandoverRequest" => Known(sown, m.session, m.imsi)
<1>1. x2[h][g] \in Seq(X2Message) BY StateTypes DEF Channels
<1>2. 1 \in 1 .. Len(x2[h][g]) /\ Head(x2[h][g]) = x2[h][g][1] BY <1>1
<1>3. \A i \in 1 .. Len(x2[h][g]) :
         /\ MsgSession(ctx, h, g, x2[h][g][i])
         /\ x2[h][g][i].type = "HandoverRequest" => Known(sown, x2[h][g][i].session, x2[h][g][i].imsi)
  BY DEF MsgSessions, SessionsKnown
<1> QED BY <1>2, <1>3

\* A handover request is admitted: the new context has the session of the source.
LEMMA AdmitPlain ==
  ASSUME GInv, NEW sown, SessionsKnown(sown), MsgSessions, NEW g \in Gnb, NEW h \in Gnb,
         x2[h][g] # <<>>, Head(x2[h][g]).type = "HandoverRequest",
         RecvHandoverRequest(g, h, Head(x2[h][g]), "admit")
  PROVE  Plain(sown)
<1> DEFINE m == Head(x2[h][g])
           n == NewRnti(g)
<1>1. PICK d : d = [NewContext("HANDOVER_JOINING", {"handoverJoining"}) EXCEPT
                   !.imsi = m.imsi, !.source = h, !.sourceId = m.old,
                   !.session = m.session, !.pending = m.session # 0]
  OBVIOUS
<1>2. PICK ack : ack = Message("HandoverRequestAck", m.old, n, None, m.session) OBVIOUS
<1>3. /\ d.st = "HANDOVER_JOINING" /\ d.imsi = m.imsi /\ d.source = h /\ d.sourceId = m.old
      /\ d.session = m.session
  BY <1>1 DEF NewContext
<1>4. /\ ack.type = "HandoverRequestAck" /\ ack.old = m.old /\ ack.new = n BY <1>2 DEF Message
<1>5. AddUe(g, d) /\ x2' = Answered(h, g, ack) /\ UNCHANGED <<down, epcVars>>
  BY <1>1, <1>2 DEF RecvHandoverRequest
<1>6. g # h /\ m \in X2Message /\ x2 \in Channels BY TakenFacts, StateTypes
<1>7. MsgSession(ctx, h, g, m) /\ Known(sown, m.session, m.imsi) BY HeadSession
<1>8. CtxRemain(sown) /\ TablesRemain
  <2>1. IsOf(sown, sessions', d.session, d.imsi) BY <1>3, <1>5, <1>7 DEF Known, epcVars
  <2> QED BY <1>3, <1>5, <2>1, AddRemains DEF Serves
<1>9. /\ n \in Rnti /\ ctx' = [ctx EXCEPT ![g][n] = d]
  BY <1>5, StateTypes, RanAssumption DEF AddUe, NewRnti, Rnti
<1>10. ctx'[g][n] = d /\ ctx'[h] = ctx[h] BY <1>6, <1>9, StateTypes DEF Contexts
<1>11. MsgSession(ctx', g, h, ack)
  <2>1. ctx'[h][m.old].st # "NONE" => ctx'[h][m.old].session = m.session
    BY <1>7, <1>10 DEF MsgSession
  <2> QED BY <1>3, <1>4, <1>10, <2>1 DEF MsgSession
<1>12. X2Tells(sown)
  <2>1. Adds(x2', g, h, ack) BY <1>5, <1>6, AnsweredAdds
  <2> QED BY <1>4, <1>11, <2>1, OneTells
<1>13. QueuesLast
  <2>1. n \in 0 .. MaxRnti BY <1>9, RntiRange
  <2>2. ack \in X2Message BY <1>2, <1>6, <2>1 DEF Message, X2Message
  <2> QED BY <1>5, <1>6, <2>2, TakenLasts
<1> QED BY <1>5, <1>8, <1>12, <1>13 DEF Plain, NoCommand

\* A source that was fed is so ready for its UE to leave: packets reach no context of the
\* target until the UE is there.
LEMMA SourceReady ==
  ASSUME GInv, NEW g \in Gnb, NEW h \in Gnb, x2[h][g] # <<>>,
         Head(x2[h][g]).type = "HandoverRequestAck", HasUeManager(g, Head(x2[h][g]).old),
         NEW v, Fed(v, g, Head(x2[h][g]).old)
  PROVE  \A q \in Rnti : rntiSession[h][q] # downlink[v]
<1> DEFINE m == Head(x2[h][g])
           r == m.old
           c == ctx[g][r]
<1>1. c.st = "HANDOVER_PREPARATION" /\ c.target = h BY AckFindsPreparation
<1>2. x2[h][g] \in Seq(X2Message) BY StateTypes DEF Channels
<1>3. Has(x2[h][g], "HandoverRequestAck", r, 1) BY <1>2 DEF Has
<1>4. Acks(x2, g, h, r) BY <1>3 DEF Acks, Holds
<1>5. r \in Rnti BY DEF HasUeManager
<1>6. Talk(c, ctx, x2, g, h, r)
  BY <1>5, RntiRange DEF GInv, RanInv, X2Inv
<1>7. ~Asks(x2, g, h, r) BY <1>1, <1>4, <1>6 DEF Talk, Orderly
<1>8. TargetForgets(v, g, r) BY <1>1 DEF Fed
<1> QED BY <1>1, <1>7, <1>8 DEF TargetForgets, Before, Asks, Holds

\* The target is ready: the UE is sent there.
LEMMA AckKeepsPath ==
  ASSUME GInv, GInv', NEW own, Owned(own), NEW sown \in SessionOwners, PathOK(sown),
         down = NoMessage, ue' = ue, abort' = "none", NEW g \in Gnb, NEW h \in Gnb,
         x2[h][g] # <<>>, Head(x2[h][g]).type = "HandoverRequestAck",
         RecvHandoverRequestAck(g, h, Head(x2[h][g]))
  PROVE  PathOK(sown)'
<1> DEFINE m == Head(x2[h][g])
           r == m.old
           c == ctx[g][r]
           v == c.imsi
<1>1. PICK d : d = [c EXCEPT !.st = "HANDOVER_LEAVING", !.target = h,
                             !.targetId = m.new, !.timers = @ \cup {"handoverLeaving"}]
  OBVIOUS
<1>2. /\ HasUeManager(g, r) /\ SetContext(g, r, d) /\ UNCHANGED epcVars
      /\ SendDown(v, "HandoverCommand", h, m.new)
      /\ x2' = Answered(h, g, Message("SnStatusTransfer", r, m.new, None, c.session))
  BY <1>1 DEF RecvHandoverRequestAck, Abort, AbortInAnswer
<1>3. c.st = "HANDOVER_PREPARATION" /\ v \in Ue BY <1>2, AckFindsPreparation
<1>4. r \in Rnti /\ c \in Context BY <1>2, IsContext
<1>5. g # h /\ m \in X2Message BY TakenFacts
<1>6. /\ d.st = "HANDOVER_LEAVING" /\ d.imsi = v /\ d.session = c.session
      /\ d.source = c.source /\ d.sourceId = c.sourceId
  BY <1>1, <1>4 DEF Context
<1>7. CtxRemain(sown) /\ TablesRemain
  <2>1. Remains(c, d) BY <1>3, <1>6 DEF Remains, Serves, Reached, Awaits
  <2> QED BY <1>2, <1>4, <1>6, <2>1, SetRemains
<1>8. X2Tells(sown) /\ QueuesLast
  <2>1. r \in 0 .. MaxRnti /\ m.new \in 0 .. MaxRnti /\ c.session \in 0 .. MaxSession
    BY <1>4, <1>5 DEF X2Message, Context
  <2> QED BY <1>2, <2>1, TakenOther
<1>9. SentRemain
  <2> SUFFICES ASSUME NEW w \in Ue, NEW k \in Gnb, NEW q \in Rnti, SentTo(w, k, q)',
                      ctx'[k][q].st = "HANDOVER_JOINING", ~SentTo(w, k, q), ~Asked(w)
               PROVE  JoinReady(w, k, q)'
    BY DEF SentRemain
  <2>1. PICK command : command = [type |-> "HandoverCommand", gnb |-> h, rnti |-> m.new] OBVIOUS
  <2>2. command.gnb = h /\ command.rnti = m.new BY <2>1
  <2>3. down' = Only(v, command) BY <1>2, <1>3, <2>1, OnlySent DEF SendDown
  <2>4. ~Uses(ue'[w], k, q) BY DEF SentTo
  <2>5. down'[w] # <<>> /\ Head(down'[w]).gnb = k /\ Head(down'[w]).rnti = q BY <2>4 DEF SentTo
  <2>6. w = v
    <3>1. \A x \in Ue : Only(v, command)[x] # <<>> => x = v BY <1>3, OnlySent
    <3>2. Only(v, command)[w] # <<>> BY <2>3, <2>5
    <3> QED BY <3>1, <3>2
  <2>7. Head(down'[v]) = command BY <1>3, <2>3, OnlySent
  <2>8. k = h /\ q = m.new BY <2>2, <2>5, <2>6, <2>7
  <2>9. ctx'[h] = ctx[h] /\ rntiSession' = rntiSession /\ downlink' = downlink
    BY <1>2, <1>4, <1>5, StateTypes DEF SetContext, Contexts, appVars, epcVars
  <2>10. MsgSession(ctx, h, g, m) BY HeadSession DEF PathOK
  <2>11. ctx[h][q].source = g /\ ctx[h][q].sourceId = r /\ ctx[h][q].session = c.session
    BY <1>3, <2>8, <2>9, <2>10 DEF MsgSession
  <2>12. Fed(v, g, r)
    BY <1>3, <1>4, <2>6 DEF PathOK, Follows, ReachedFed, Reached, Serves, Awaits
  <2>13. c.session = downlink[v] /\ OnlyAt(rntiSession[g], r, c.session) BY <2>12 DEF Fed
  <2>14. \A n \in Rnti : rntiSession[h][n] # downlink[v] BY <1>2, <2>12, SourceReady
  <2> QED BY <2>6, <2>8, <2>9, <2>11, <2>13, <2>14 DEF JoinReady
<1>10. CtxKnows(sown) /\ \A w \in Ue : ServesOn(w) BY <1>7, RemainKnows
<1>11. \A w \in Ue : SentOn(w) BY <1>7, <1>9, SentRemainOn
<1> QED BY <1>2, <1>7, <1>8, <1>10, <1>11, PathRemains

\* A message comes over X2.
LEMMA X2KeepsPath ==
  ASSUME GInv, GInv', NEW own, Owned(own), NEW sown \in SessionOwners, PathOK(sown),
         down = NoMessage, ue' = ue, abort' = "none", NEW g \in Gnb, NEW h \in Gnb, NEW answer,
         RecvX2(g, h, answer)
  PROVE  PathOK(sown)'
<1> DEFINE m == Head(x2[h][g])
<1>1. x2[h][g] # <<>> /\ SessionsKnown(sown) /\ TablesTold /\ MsgSessions BY DEF RecvX2, PathOK
<1>2. CASE m.type = "HandoverRequest" /\ RecvHandoverRequest(g, h, m, answer)
  <2>1. Plain(sown) BY <1>1, <1>2, AdmitPlain, RefusePlain
  <2> QED BY <2>1, PlainKeeps
<1>3. CASE m.type = "HandoverRequestAck" /\ RecvHandoverRequestAck(g, h, m)
  BY <1>1, <1>3, AckKeepsPath
<1>4. CASE m.type = "HandoverPreparationFailure" /\ RecvHandoverPreparationFailure(g, h, m)
  <2>1. Plain(sown) BY <1>1, <1>4, FailurePlain
  <2> QED BY <2>1, PlainKeeps
<1>5. CASE \/ m.type = "SnStatusTransfer" /\ RecvSnStatusTransfer(g, h, m)
           \/ m.type = "UeContextRelease" /\ RecvUeContextRelease(g, h, m)
           \/ m.type = "HandoverCancel" /\ RecvHandoverCancel(g, h, m)
  <2>1. Plain(sown) BY <1>1, <1>5, LastMessagesPlain
  <2> QED BY <2>1, PlainKeeps
<1> QED BY <1>2, <1>3, <1>4, <1>5 DEF RecvX2

\* A handover is asked for: a target that still has TEIDs of the UE is its source, and was
\* told to forget them.
LEMMA PreparationForgets ==
  ASSUME GInv, NEW g \in Gnb, NEW r \in Rnti, NEW h \in Gnb, NEW v, Fed(v, g, r),
         ~Revisits(ctx[g][r], h), NEW m \in X2Message, m.type = "HandoverRequest", m.old = r,
         x2' = Sent(g, h, m), UNCHANGED <<rntiSession, downlink>>, ctx'[g][r].target = h
  PROVE  TargetForgets(v, g, r)'
<1> DEFINE s == downlink[v]
           c == ctx[g][r]
           queue == x2[g][h]
<1> SUFFICES ASSUME NEW q \in Rnti, rntiSession[h][q] = s
             PROVE  Before(x2'[g][h], q, r)
  BY DEF TargetForgets
<1>1. c.source = h BY DEF Revisits, Fed
<1>2. Holds(queue, "UeContextRelease", q) BY <1>1 DEF Fed
<1>3. PICK i \in Nat : Has(queue, "UeContextRelease", q, i) BY <1>2 DEF Holds
<1>4. queue \in Seq(X2Message) /\ x2'[g][h] = Append(queue, m)
  BY StateTypes DEF Channels, Sent
<1>5. Len(queue) \in Nat BY <1>4
<1>6. Has(x2'[g][h], "UeContextRelease", q, i) /\ i <= Len(queue)
  BY <1>3, <1>4, HasAppend DEF Has
<1>7. Has(x2'[g][h], "HandoverRequest", r, Len(queue) + 1) BY <1>4, <1>5 DEF Has
<1>8. Len(queue) + 1 \in Nat /\ i < Len(queue) + 1 BY <1>5, <1>6
<1> HIDE DEF queue
<1> QED BY <1>6, <1>7, <1>8 DEF Before

\* A handover is asked for.
LEMMA PrepareKeepsPath ==
  ASSUME GInv, GInv', NEW own, Owned(own), NEW sown \in SessionOwners, PathOK(sown),
         ue' = ue, NEW g \in Gnb, NEW r, NEW h \in Gnb,
         ctx[g][r].st = "CONNECTED_NORMALLY", PrepareHandover(g, r, h), ~Revisits(ctx[g][r], h)
  PROVE  PathOK(sown)'
<1> DEFINE c == ctx[g][r]
<1>1. PICK d : d = [c EXCEPT !.st = "HANDOVER_PREPARATION", !.target = h] OBVIOUS
<1>2. PICK m : m = Message("HandoverRequest", r, 0, c.imsi, c.session) OBVIOUS
<1>3. /\ HasUeManager(g, r) /\ h # g /\ SetContext(g, r, d) /\ x2' = Sent(g, h, m)
      /\ UNCHANGED <<down, epcVars>>
  BY <1>1, <1>2 DEF PrepareHandover
<1>4. r \in Rnti /\ c \in Context /\ c \in Good(g) BY <1>3, IsContext
<1>5. /\ d.st = "HANDOVER_PREPARATION" /\ d.imsi = c.imsi /\ d.session = c.session
      /\ d.source = c.source /\ d.sourceId = c.sourceId /\ d.target = h
  BY <1>1, <1>4 DEF Context
<1>6. /\ m.type = "HandoverRequest" /\ m.old = r /\ m.imsi = c.imsi /\ m.session = c.session
      /\ m \in X2Message
  BY <1>2, <1>4, RntiRange, RanAssumption DEF Message, X2Message, Context
<1>7. /\ ctx' = [ctx EXCEPT ![g][r] = d] /\ UNCHANGED <<lastRnti, appVars>>
      /\ ctx'[g][r] = d
      /\ \A k \in Gnb, q \in Rnti : ~(k = g /\ q = r) => ctx'[k][q] = ctx[k][q]
  BY <1>3, <1>4, StateTypes DEF SetContext, Contexts
<1>8. CtxKnows(sown)
  <2>1. \A k \in Gnb : lastRnti'[k] >= lastRnti[k] BY <1>7, StateTypes
  <2>2. ASSUME NEW k \in Gnb, NEW q \in Rnti, ctx'[k][q].st # "NONE"
        PROVE  Knows(ctx[k][q], ctx'[k][q]) /\ ctx[k][q].session = ctx'[k][q].session
    <3>1. CASE k = g /\ q = r BY <1>5, <1>7, <3>1 DEF Knows
    <3>2. CASE ~(k = g /\ q = r) BY <1>7, <2>2, <3>2 DEF Knows
    <3> QED BY <3>1, <3>2
  <2> QED BY <2>1, <2>2 DEF CtxKnows, Knows
<1>9. ASSUME NEW v \in Ue PROVE ServesOn(v)
  <2>1. Fed(v, g, r) => TargetForgets(v, g, r)'
    BY <1>3, <1>4, <1>5, <1>6, <1>7, PreparationForgets DEF appVars, epcVars
  <2>2. ASSUME NEW k \in Gnb, NEW q \in Rnti, ctx'[k][q].imsi = v, ctx'[k][q].st \in Serves
        PROVE  LET b == ctx[k][q]  e == ctx'[k][q] IN
               /\ b.st \in Serves /\ b.imsi = v /\ b.session = e.session
               /\ b.source = e.source /\ b.sourceId = e.sourceId
               /\ e.st \in Awaits => b.st = e.st
               /\ e.st \in Reached => b.st \in Reached
               /\ e.st = "HANDOVER_PREPARATION" =>
                     \/ b.st = "HANDOVER_PREPARATION" /\ b.target = e.target
                     \/ Fed(v, k, q) => TargetForgets(v, k, q)'
    <3>1. CASE k = g /\ q = r
      BY <1>5, <1>7, <2>1, <2>2, <3>1 DEF Serves, Awaits, Reached
    <3>2. CASE ~(k = g /\ q = r)
      <4>1. ctx'[k][q] = ctx[k][q] BY <1>7, <3>2
      <4> QED BY <2>2, <4>1
    <3> QED BY <3>1, <3>2
  <2> QED BY <2>2 DEF ServesOn
<1>10. ASSUME NEW v \in Ue PROVE SentOn(v)
  <2> SUFFICES ASSUME NEW k \in Gnb, NEW q \in Rnti, SentTo(v, k, q)',
                      ctx'[k][q].st = "HANDOVER_JOINING"
               PROVE  SentTo(v, k, q) /\ ctx[k][q] = ctx'[k][q]
    BY DEF SentOn
  <2>1. ~(k = g /\ q = r) BY <1>5, <1>7
  <2> QED BY <1>3, <1>7, <2>1 DEF SentTo
<1>11. TablesRemain
  <2>1. \A k \in Gnb, q \in Rnti : ctx[k][q].st # "NONE" => ctx'[k][q].st # "NONE"
    BY <1>5, <1>7
  <2> QED BY <1>7, <2>1, SameTablesRemain
<1>12. X2Tells(sown)
  <2>1. Adds(x2', g, h, m) BY <1>3, SentAdds, StateTypes
  <2>2. IsOf(sown, sessions', m.session, m.imsi)
    <3>1. Known(sown, c.session, c.imsi) BY <1>4, BearerSession DEF PathOK, Bearing, Named
    <3> QED BY <1>3, <1>6, <3>1 DEF Known, epcVars
  <2>3. MsgSession(ctx', g, h, m) BY <1>5, <1>6, <1>7 DEF MsgSession
  <2> QED BY <2>1, <2>2, <2>3, OneTells
<1>13. QueuesLast BY <1>3, <1>6, StateTypes, SentLasts
<1> QED BY <1>3, <1>8, <1>9, <1>10, <1>11, <1>12, <1>13, PathRemains

-----------------------------------------------------------------------------
(* Steps that the core network has a part in.                               *)

\* A context of UE u changes, and does not await a UE by handover: other UEs do not notice.
LEMMA OtherFollows ==
  ASSUME GInv, GInv', NEW sown, SessionsKnown(sown), NEW v \in Ue, Follows(v), TablesTold',
         NEW g \in Gnb, NEW r \in Rnti, NEW d, ctx' = [ctx EXCEPT ![g][r] = d], d.imsi # v,
         d.st # "HANDOVER_JOINING", RequestsGoOn(v), QueuesLast,
         \A s : Known(sown, s, v) => SessionGoesOn(s), ue' = ue, down = NoMessage, NoCommand
  PROVE  Follows(v)'
<1>1. /\ ctx'[g][r] = d
      /\ \A k \in Gnb, q \in Rnti : ~(k = g /\ q = r) => ctx'[k][q] = ctx[k][q]
  BY StateTypes DEF Contexts
<1>2. ServesOn(v)
  <2>1. ASSUME NEW k \in Gnb, NEW q \in Rnti, ctx'[k][q].imsi = v
        PROVE  ctx'[k][q] = ctx[k][q]
    BY <1>1, <2>1
  <2> QED BY <2>1 DEF ServesOn
<1>3. SentOn(v)
  <2> SUFFICES ASSUME NEW k \in Gnb, NEW q \in Rnti, SentTo(v, k, q)',
                      ctx'[k][q].st = "HANDOVER_JOINING"
               PROVE  SentTo(v, k, q) /\ ctx'[k][q] = ctx[k][q]
    BY DEF SentOn
  <2>1. ctx'[k][q] = ctx[k][q] BY <1>1
  <2>2. CASE down' = down BY <2>1, <2>2 DEF SentTo
  <2>3. ASSUME NEW w \in Ue, NEW m \in DownMessage, down' = To(down, w, m),
               m.type # "HandoverCommand"
        PROVE  SentTo(v, k, q)
    <3>1. down' = Only(w, m) BY <2>3, OnlySent
    <3>2. down'[v] # <<>> => Head(down'[v]) = m BY <3>1, OnlySent
    <3> QED BY <2>3, <3>2 DEF SentTo
  <2> QED BY <2>1, <2>2, <2>3 DEF NoCommand
<1> QED BY <1>2, <1>3, FollowsOn

\* A request of another UE is put behind the others.
LEMMA AskGoesOn ==
  ASSUME GInv, NEW type, NEW u \in Ue, NEW g \in Gnb, NEW s, Ask(type, u, g, s),
         NEW v \in Ue, v # u, \A h \in Gnb : imsiRnti'[h][v] = imsiRnti[h][v]
  PROVE  RequestsGoOn(v)
<1>1. /\ requests \in Seq(Request) /\ mmeCell \in [Ue -> Gnb \cup {None}]
      /\ served \in Nat
  BY DEF GInv, EpcOK, EpcTypeOK
<1>2. PICK q : q = [type |-> type, ue |-> u, gnb |-> g, session |-> s] OBVIOUS
<1>3. /\ requests' = Append(requests, q) /\ mmeCell' = [mmeCell EXCEPT ![u] = g]
      /\ downlink' = downlink /\ served' = served
  BY <1>2 DEF Ask
<1>4. q.ue = u BY <1>2
<1>5. /\ Len(requests) \in Nat /\ Len(requests') = Len(requests) + 1
      /\ requests'[Len(requests) + 1] = q
      /\ \A i \in 1 .. Len(requests) : requests'[i] = requests[i]
  BY <1>1, <1>3
<1>6. Asked(v)' <=> Asked(v) BY <1>4, <1>5 DEF Asked
<1>7. \A i : Alone(v, i)' => Alone(v, i) /\ requests'[i] = requests[i]
  BY <1>4, <1>5 DEF Alone
<1>8. mmeCell'[v] = mmeCell[v] BY <1>1, <1>3
<1> QED BY <1>3, <1>6, <1>7, <1>8 DEF RequestsGoOn

\* A request of UE u is put behind the others, for the only context that serves it.
LEMMA AskFollows ==
  ASSUME GInv, NEW type, NEW u \in Ue, NEW g \in Gnb, NEW r \in Rnti, NEW s, Ask(type, u, g, s),
         imsiRnti'[g][u] = r,
         \A k \in Gnb, q \in Rnti :
            ctx'[k][q].imsi = u /\ ctx'[k][q].st \in Awaits => k = g /\ q = r,
         type = "Create" \/
            (~Asked(u) =>
               LET d == ctx'[g][r] IN
               /\ s = d.session /\ d.session = downlink[u] /\ rntiSession'[g][r] = d.session
               /\ sessionRnti'[g][d.session] = r /\ OnlyAt(rntiSession'[g], r, d.session)
               /\ OnlyAt(rntiSession'[d.source], d.sourceId, d.session))
  PROVE  Follows(u)'
<1>1. /\ requests \in Seq(Request) /\ mmeCell \in [Ue -> Gnb \cup {None}]
      /\ served \in 0 .. Len(requests) /\ served' = served
  BY DEF GInv, EpcOK, EpcTypeOK, Ask
<1>2. PICK m : m = [type |-> type, ue |-> u, gnb |-> g, session |-> s] OBVIOUS
<1>3. m.type = type /\ m.ue = u /\ m.gnb = g /\ m.session = s BY <1>2
<1>4. PICK n : n = Len(requests) + 1 OBVIOUS
<1>5. /\ Len(requests) \in Nat /\ n \in Nat /\ Len(requests') = n /\ requests'[n] = m
      /\ \A i \in 1 .. Len(requests) : requests'[i] = requests[i] /\ i \in 1 .. n
      /\ n \in 1 .. n /\ ~(n <= served') /\ n \notin 1 .. Len(requests)
  BY <1>1, <1>2, <1>4 DEF Ask
<1>6. Asked(u)' BY <1>3, <1>5 DEF Asked
<1>7. \A i : Alone(u, i)' => i = n /\ ~Asked(u)
  <2>1. \A i : Alone(u, i)' => i = n BY <1>3, <1>5 DEF Alone
  <2>2. ASSUME NEW j \in 1 .. Len(requests), requests[j].ue = u, Alone(u, n)'
        PROVE  FALSE
    BY <1>5, <2>2 DEF Alone
  <2> QED BY <2>1, <2>2 DEF Asked
<1>8. mmeCell'[u] = g /\ downlink' = downlink BY <1>1 DEF Ask
<1>9. \A k \in Gnb, q \in Rnti : Latest(u, k, q)' <=> k = g /\ q = r BY <1>8 DEF Latest
<1>10. ASSUME NEW i, NEW k \in Gnb, NEW q \in Rnti, Alone(u, i)', Latest(u, k, q)'
       PROVE  CreateAwaited(u, i, k, q)' /\ SwitchAwaited(u, i, k, q)'
  <2>1. i = n /\ ~Asked(u) /\ k = g /\ q = r BY <1>7, <1>9, <1>10
  <2>2. CreateAwaited(u, n, g, r)' BY <1>3, <1>5 DEF CreateAwaited
  <2>3. SwitchAwaited(u, n, g, r)'
    BY <1>3, <1>5, <1>8, <2>1 DEF SwitchAwaited
  <2> QED BY <2>1, <2>2, <2>3
<1>11. Awaited(u)' BY <1>10 DEF Awaited
<1>12. AwaitsLatest(u)' BY <1>6, <1>9 DEF AwaitsLatest
<1> QED BY <1>6, <1>11, <1>12 DEF Follows, ReachedFed, JoinsReady

\* A session is asked of the core network for a UE that is connected now.
LEMMA SetupKeepsPath ==
  ASSUME GInv, GInv', NEW own, Owned(own), NEW sown \in SessionOwners, PathOK(sown),
         down = NoMessage, ue' = ue, abort' = "none", ServedOnce,
         NEW u \in Ue, \A k \in Gnb, q \in Rnti : ~Leaves(u, k, q),
         NEW g \in Gnb, NEW r, r \in Rnti => Owns(own, lastRnti, g, r, u), IsAt(ue[u], g, r),
         RecvRrcConnectionSetupCompleted(g, r)
  PROVE  PathOK(sown)'
<1> DEFINE c == ctx[g][r]
<1>1. PICK d : d = [c EXCEPT !.st = "ATTACH_REQUEST", !.timers = @ \ {"connectionSetup"}]
  OBVIOUS
<1>2. HasUeManager(g, r) /\ c.st = "CONNECTION_SETUP"
  BY DEF RecvRrcConnectionSetupCompleted, Abort, AbortInAnswer
<1>3. r \in Rnti /\ c \in Context /\ c \in Good(g) BY <1>2, IsContext
<1>4. c.imsi = u
  <2>1. own[g][r] = c.imsi BY <1>2, <1>3, OwnerOf DEF Named
  <2> QED BY <1>3, <2>1 DEF Owns
<1>5. /\ d.st = "ATTACH_REQUEST" /\ d.imsi = u /\ d.session = c.session
      /\ d.source = c.source /\ d.sourceId = c.sourceId
  BY <1>1, <1>3, <1>4 DEF Context
<1>6. /\ imsiRnti' = [imsiRnti EXCEPT ![g][u] = r] /\ AskSession(u, g)
      /\ UNCHANGED <<lastRnti, rntiSession, sessionRnti, x2, down>>
  BY <1>2, <1>4 DEF RecvRrcConnectionSetupCompleted, Abort, AbortInAnswer
<1>7. ctx' = [ctx EXCEPT ![g][r] = d]
  <2>1. ctx' = [ctx EXCEPT ![g][r].st = "ATTACH_REQUEST",
                           ![g][r].timers = @ \ {"connectionSetup"}]
    BY <1>2 DEF RecvRrcConnectionSetupCompleted, Abort, AbortInAnswer
  <2>2. ctx \in [Gnb -> [Rnti -> Context]] BY StateTypes DEF Contexts
  <2> QED BY <1>1, <1>3, <2>1, <2>2
<1>8. /\ ctx'[g][r] = d
      /\ \A k \in Gnb, q \in Rnti : ~(k = g /\ q = r) => ctx'[k][q] = ctx[k][q]
  BY <1>3, <1>7, StateTypes DEF Contexts
<1>9. /\ imsiRnti'[g][u] = r
      /\ \A h \in Gnb, v \in Ue : ~(h = g /\ v = u) => imsiRnti'[h][v] = imsiRnti[h][v]
  BY <1>6 DEF GInv, AppOK
<1>10. \A k \in Gnb : lastRnti'[k] >= lastRnti[k] BY <1>6, StateTypes
<1>11. CtxKnows(sown)
  <2>1. ASSUME NEW k \in Gnb, NEW q \in Rnti, ctx'[k][q].st # "NONE"
        PROVE  Knows(ctx[k][q], ctx'[k][q]) /\ ctx[k][q].session = ctx'[k][q].session
    <3>1. CASE k = g /\ q = r BY <1>2, <1>4, <1>5, <1>8, <3>1 DEF Knows
    <3>2. CASE ~(k = g /\ q = r) BY <1>8, <2>1, <3>2 DEF Knows
    <3> QED BY <3>1, <3>2
  <2> QED BY <1>10, <2>1 DEF CtxKnows, Knows
<1>12. Spreads(sown, sown) /\ EpcTells(sown)
  <2>1. PICK m : m = [type |-> "Create", ue |-> u, gnb |-> g, session |-> 0] OBVIOUS
  <2>2. /\ requests \in Seq(Request) /\ requests' = Append(requests, m) /\ m.session = 0
        /\ UNCHANGED <<downlink, sessions>> /\ sessions \in Nat
    BY <1>6, <2>1, EpcAssumption DEF AskSession, Ask, GInv, EpcOK, EpcTypeOK
  <2>3. \A i \in 1 .. Len(requests') :
           requests'[i] = m \/ \E j \in 1 .. Len(requests) : requests'[i] = requests[j]
    BY <2>2
  <2> QED BY <2>2, <2>3 DEF Spreads, EpcTells
<1>13. AppTells
  <2>1. ASSUME NEW h \in Gnb, NEW v \in Ue
        PROVE  LET q == imsiRnti'[h][v] IN
               \/ q = imsiRnti[h][v]
               \/ q \in 1 .. lastRnti'[h] /\ (ctx'[h][q].st # "NONE" => ctx'[h][q].imsi = v)
    <3>1. r \in 1 .. lastRnti'[g] BY <1>3, <1>6 DEF Owns
    <3> QED BY <1>5, <1>8, <1>9, <3>1
  <2>2. ASSUME NEW k \in Gnb, NEW q \in Rnti, rntiSession'[k][q] # 0
        PROVE  ctx'[k][q].st # "NONE" /\ rntiSession'[k][q] = rntiSession[k][q]
    BY <1>5, <1>6, <1>8, <2>2 DEF PathOK, TablesTold
  <2> QED BY <2>1, <2>2 DEF AppTells
<1>14. QueuesLast /\ X2Tells(sown) BY <1>6, SameQueuesLast, NothingTells
<1>15. SessionsKnown(sown)' /\ TablesTold' /\ MsgSessions'
  BY <1>11, <1>12, <1>13, <1>14, PathTold DEF PathTells
<1>16. Follows(u)'
  <2>1. ASSUME NEW k \in Gnb, NEW q \in Rnti, ctx'[k][q].imsi = u, ctx'[k][q].st \in Awaits,
               ~(k = g /\ q = r)
        PROVE  FALSE
    <3>1. ctx[k][q].imsi = u /\ ctx[k][q].st \in Serves BY <1>8, <2>1 DEF Awaits, Serves
    <3>2. IsAt(ue[u], k, q) BY <3>1 DEF ServedOnce
    <3> QED BY <2>1, <3>2 DEF IsAt
  <2>2. \A k \in Gnb, q \in Rnti :
           ctx'[k][q].imsi = u /\ ctx'[k][q].st \in Awaits => k = g /\ q = r
    BY <2>1
  <2>3. Ask("Create", u, g, 0) BY <1>6 DEF AskSession
  <2> HIDE DEF c
  <2> QED BY <1>3, <1>9, <2>2, <2>3, AskFollows
<1>17. ASSUME NEW v \in Ue, v # u PROVE Follows(v)'
  <2>1. RequestsGoOn(v) BY <1>6, <1>9, <1>17, AskGoesOn DEF AskSession
  <2>2. \A s : SessionGoesOn(s) BY <1>6 DEF SessionGoesOn, AskSession, Ask
  <2>3. NoCommand BY <1>6 DEF NoCommand
  <2>4. d.st # "HANDOVER_JOINING" /\ d.imsi # v BY <1>5, <1>17
  <2> QED BY <1>3, <1>7, <1>14, <1>15, <2>1, <2>2, <2>3, <2>4, OtherFollows DEF PathOK
<1> QED BY <1>15, <1>16, <1>17 DEF PathOK

\* A UE joins after a handover: the core network is asked to switch the path.
LEMMA JoinKeepsPath ==
  ASSUME GInv, GInv', NEW own, Owned(own), NEW sown \in SessionOwners, PathOK(sown),
         down = NoMessage, ue' = ue, ServedOnce,
         NEW u \in Ue, \A k \in Gnb, q \in Rnti : ~Leaves(u, k, q),
         NEW g \in Gnb, NEW r, r \in Rnti => Owns(own, lastRnti, g, r, u), IsAt(ue[u], g, r),
         HasUeManager(g, r), ctx[g][r].st = "HANDOVER_JOINING",
         RecvRrcConnectionReconfigurationCompleted(g, r)
  PROVE  PathOK(sown)'
<1> DEFINE c == ctx[g][r]
<1>1. PICK d : d = [c EXCEPT !.st = "HANDOVER_PATH_SWITCH", !.timers = @ \ {"handoverJoining"}]
  OBVIOUS
<1>2. PICK s : s = c.session OBVIOUS
<1>3. r \in Rnti /\ c \in Context /\ c \in Good(g) BY IsContext
<1>4. c.imsi = u
  <2>1. own[g][r] = c.imsi BY <1>3, OwnerOf DEF Named
  <2> QED BY <1>3, <2>1 DEF Owns
<1>5. /\ d.st = "HANDOVER_PATH_SWITCH" /\ d.imsi = u /\ d.session = s
      /\ d.source = c.source /\ d.sourceId = c.sourceId
  BY <1>1, <1>2, <1>3, <1>4 DEF Context
<1>6. s \in Session /\ s # 0 /\ Known(sown, s, u)
  BY <1>2, <1>3, <1>4, BearerSession DEF PathOK, Bearing, Named
<1>7. c.source \in Gnb /\ c.source # g BY <1>3 DEF Good
<1>8. /\ imsiRnti' = [imsiRnti EXCEPT ![g][u] = r] /\ AskSwitch(u, g, s)
      /\ rntiSession' = [rntiSession EXCEPT ![g][r] = s]
      /\ sessionRnti' = [k \in Gnb |->
            IF k = g THEN [n \in Session |-> IF n = s THEN r ELSE sessionRnti[g][n]]
                     ELSE sessionRnti[k]]
      /\ UNCHANGED <<lastRnti, x2, down>>
  BY <1>2, <1>4 DEF RecvRrcConnectionReconfigurationCompleted
<1>9. ctx' = [ctx EXCEPT ![g][r] = d]
  <2>1. ctx' = [ctx EXCEPT ![g][r].st = "HANDOVER_PATH_SWITCH",
                           ![g][r].timers = @ \ {"handoverJoining"}]
    BY DEF RecvRrcConnectionReconfigurationCompleted
  <2> QED BY <1>1, <1>3, <2>1, StateTypes DEF Contexts
<1>10. /\ ctx'[g][r] = d
       /\ \A k \in Gnb, q \in Rnti : ~(k = g /\ q = r) => ctx'[k][q] = ctx[k][q]
  BY <1>3, <1>9, StateTypes DEF Contexts
<1>11. /\ imsiRnti'[g][u] = r
       /\ \A h \in Gnb, v \in Ue : ~(h = g /\ v = u) => imsiRnti'[h][v] = imsiRnti[h][v]
  BY <1>8 DEF GInv, AppOK
<1>12. /\ rntiSession'[g][r] = s
       /\ \A k \in Gnb, q \in Rnti : ~(k = g /\ q = r) => rntiSession'[k][q] = rntiSession[k][q]
  BY <1>3, <1>8 DEF GInv, AppOK
<1>13. /\ sessionRnti'[g][s] = r
       /\ \A k \in Gnb, t \in Session : t # s => sessionRnti'[k][t] = sessionRnti[k][t]
  BY <1>6, <1>8
<1>14. \A k \in Gnb : lastRnti'[k] >= lastRnti[k] BY <1>8, StateTypes
<1>15. CtxKnows(sown)
  <2>1. ASSUME NEW k \in Gnb, NEW q \in Rnti, ctx'[k][q].st # "NONE"
        PROVE  Knows(ctx[k][q], ctx'[k][q]) /\ ctx[k][q].session = ctx'[k][q].session
    <3>1. CASE k = g /\ q = r BY <1>2, <1>4, <1>5, <1>10, <3>1 DEF Knows
    <3>2. CASE ~(k = g /\ q = r) BY <1>10, <2>1, <3>2 DEF Knows
    <3> QED BY <3>1, <3>2
  <2> QED BY <1>14, <2>1 DEF CtxKnows, Knows
<1>16. Spreads(sown, sown) /\ EpcTells(sown)
  <2>1. PICK m : m = [type |-> "Modify", ue |-> u, gnb |-> g, session |-> s] OBVIOUS
  <2>2. /\ requests \in Seq(Request) /\ requests' = Append(requests, m)
        /\ m.session = s /\ m.ue = u
        /\ UNCHANGED <<downlink, sessions>> /\ sessions \in Nat
    BY <1>8, <2>1, EpcAssumption DEF AskSwitch, Ask, GInv, EpcOK, EpcTypeOK
  <2>3. \A i \in 1 .. Len(requests') :
           requests'[i] = m \/ \E j \in 1 .. Len(requests) : requests'[i] = requests[j]
    BY <2>2
  <2>4. IsOf(sown, sessions', m.session, m.ue) BY <1>6, <2>2 DEF Known
  <2> QED BY <2>2, <2>3, <2>4 DEF Spreads, EpcTells
<1>17. AppTells
  <2>1. ASSUME NEW h \in Gnb, NEW v \in Ue
        PROVE  LET q == imsiRnti'[h][v] IN
               \/ q = imsiRnti[h][v]
               \/ q \in 1 .. lastRnti'[h] /\ (ctx'[h][q].st # "NONE" => ctx'[h][q].imsi = v)
    <3>1. r \in 1 .. lastRnti'[g] BY <1>3, <1>8 DEF Owns
    <3> QED BY <1>5, <1>10, <1>11, <3>1
  <2>2. ASSUME NEW k \in Gnb, NEW q \in Rnti, rntiSession'[k][q] # 0
        PROVE  /\ ctx'[k][q].st # "NONE"
               /\ rntiSession'[k][q] \in {rntiSession[k][q], ctx'[k][q].session}
    <3>1. CASE k = g /\ q = r BY <1>5, <1>10, <1>12, <3>1
    <3>2. CASE ~(k = g /\ q = r)
      BY <1>10, <1>12, <2>2, <3>2 DEF PathOK, TablesTold
    <3> QED BY <3>1, <3>2
  <2> QED BY <2>1, <2>2 DEF AppTells
<1>18. QueuesLast /\ X2Tells(sown) BY <1>8, SameQueuesLast, NothingTells
<1>19. SessionsKnown(sown)' /\ TablesTold' /\ MsgSessions'
  BY <1>15, <1>16, <1>17, <1>18, PathTold DEF PathTells
<1>20. Follows(u)'
  <2>1. ASSUME NEW k \in Gnb, NEW q \in Rnti, ctx'[k][q].imsi = u, ctx'[k][q].st \in Awaits,
               ~(k = g /\ q = r)
        PROVE  FALSE
    <3>1. ctx[k][q].imsi = u /\ ctx[k][q].st \in Serves BY <1>10, <2>1 DEF Awaits, Serves
    <3>2. IsAt(ue[u], k, q) BY <3>1 DEF ServedOnce
    <3> QED BY <2>1, <3>2 DEF IsAt
  <2>2. ASSUME ~Asked(u)
        PROVE  /\ s = downlink[u] /\ OnlyAt(rntiSession'[g], r, s)
               /\ OnlyAt(rntiSession'[d.source], d.sourceId, s)
    <3>1. SentTo(u, g, r) BY DEF SentTo, Uses, IsAt, Connected
    <3>2. JoinReady(u, g, r) BY <1>3, <2>2, <3>1 DEF PathOK, Follows, JoinsReady
    <3>3. /\ s = downlink[u] /\ \A q \in Rnti : rntiSession[g][q] # s
          /\ OnlyAt(rntiSession[c.source], c.sourceId, s)
      BY <1>2, <3>2 DEF JoinReady
    <3>4. OnlyAt(rntiSession'[g], r, s) BY <1>12, <3>3 DEF OnlyAt
    <3>5. OnlyAt(rntiSession'[d.source], d.sourceId, s)
      BY <1>5, <1>7, <1>12, <3>3 DEF OnlyAt
    <3> QED BY <3>3, <3>4, <3>5
  <2>3. /\ ctx'[g][r].session = s /\ ctx'[g][r].source = d.source
        /\ ctx'[g][r].sourceId = d.sourceId
    BY <1>5, <1>10
  <2>4. Ask("Modify", u, g, s) BY <1>8 DEF AskSwitch
  <2>5. ~Asked(u) =>
           LET e == ctx'[g][r] IN
           /\ s = e.session /\ e.session = downlink[u] /\ rntiSession'[g][r] = e.session
           /\ sessionRnti'[g][e.session] = r /\ OnlyAt(rntiSession'[g], r, e.session)
           /\ OnlyAt(rntiSession'[e.source], e.sourceId, e.session)
    BY <1>12, <1>13, <2>2, <2>3
  <2> QED BY <1>3, <1>11, <2>1, <2>4, <2>5, AskFollows
<1>21. ASSUME NEW v \in Ue, v # u PROVE Follows(v)'
  <2>1. RequestsGoOn(v) BY <1>8, <1>11, <1>21, AskGoesOn DEF AskSwitch
  <2>2. ASSUME NEW t, Known(sown, t, v) PROVE SessionGoesOn(t)
    <3>1. t # s BY <1>6, <1>21, <2>2 DEF Known, IsOf
    <3>2. t \in Session /\ t # 0
      BY <2>2, EpcAssumption DEF Known, IsOf, Session, GInv, EpcOK, EpcTypeOK
    <3>3. rntiSession[g][r] # t BY <1>2, <1>3, <3>1, <3>2 DEF PathOK, TablesTold
    <3>4. endpoint' = endpoint BY <1>8 DEF AskSwitch, Ask
    <3>5. \A k \in Gnb, q \in Rnti : rntiSession'[k][q] = t <=> rntiSession[k][q] = t
      BY <1>12, <3>1, <3>3
    <3>6. \A k \in Gnb : sessionRnti'[k][t] = sessionRnti[k][t] BY <1>13, <3>1, <3>2
    <3> QED BY <3>4, <3>5, <3>6 DEF SessionGoesOn
  <2>3. NoCommand BY <1>8 DEF NoCommand
  <2>4. d.st # "HANDOVER_JOINING" /\ d.imsi # v BY <1>5, <1>21
  <2> QED BY <1>3, <1>9, <1>18, <1>19, <2>1, <2>2, <2>3, <2>4, OtherFollows DEF PathOK
<1> QED BY <1>19, <1>20, <1>21 DEF PathOK

\* A context that goes on knows what it knew, and maybe its session.
LEMMA OneContextKnows ==
  ASSUME GInv, NEW new, NEW g \in Gnb, NEW r \in Rnti, NEW d, ctx' = [ctx EXCEPT ![g][r] = d],
         lastRnti' = lastRnti, Knows(ctx[g][r], d),
         d.session # ctx[g][r].session => IsOf(new, sessions', d.session, d.imsi)
  PROVE  CtxKnows(new)
<1>1. /\ ctx'[g][r] = d
      /\ \A k \in Gnb, q \in Rnti : ~(k = g /\ q = r) => ctx'[k][q] = ctx[k][q]
  BY StateTypes DEF Contexts
<1>2. \A k \in Gnb : lastRnti'[k] >= lastRnti[k] BY StateTypes
<1>3. ASSUME NEW k \in Gnb, NEW q \in Rnti, ctx'[k][q].st # "NONE"
      PROVE  LET c == ctx[k][q]  e == ctx'[k][q] IN
             Knows(c, e) /\ (c.session # e.session => IsOf(new, sessions', e.session, e.imsi))
  <2>1. CASE k = g /\ q = r BY <1>1, <2>1
  <2>2. CASE ~(k = g /\ q = r) BY <1>1, <1>3, <2>2 DEF Knows
  <2> QED BY <2>1, <2>2
<1> QED BY <1>2, <1>3 DEF CtxKnows, Knows

\* The first element of a sequence is taken.
LEMMA FirstTaken ==
  ASSUME NEW S, NEW q \in Seq(S), NEW n \in Nat, n = Len(q), n > 0
  PROVE  /\ Head(q) = q[1] /\ Len(Tail(q)) = n - 1
         /\ \A i \in 1 .. n - 1 : Tail(q)[i] = q[i + 1] /\ i + 1 \in 1 .. n /\ i + 1 # 1
         /\ \A i \in 1 .. n : i # 1 => i - 1 \in 1 .. n - 1 /\ Tail(q)[i - 1] = q[i]
<1>1. q # <<>> /\ Head(q) = q[1] /\ Len(Tail(q)) = n - 1 OBVIOUS
<1>2. \A i \in 1 .. n - 1 : Tail(q)[i] = q[i + 1] BY <1>1
<1>3. \A i \in 1 .. n - 1 : i + 1 \in 1 .. n /\ i + 1 # 1 OBVIOUS
<1>4. \A i \in 1 .. n : i # 1 => i - 1 \in 1 .. n - 1 /\ (i - 1) + 1 = i OBVIOUS
<1> QED BY <1>1, <1>2, <1>3, <1>4

\* A request was answered: those behind it move up.
LEMMA RequestTaken ==
  ASSUME GInv, NEW req, NEW g, Answer(req, g), NEW n \in Nat, n = Len(requests)
  PROVE  /\ n > 0 /\ Len(requests') = n - 1 /\ req = requests[1]
         /\ \A i \in 1 .. n - 1 : requests'[i] = requests[i + 1] /\ i + 1 \in 1 .. n /\ i + 1 # 1
         /\ \A i \in 1 .. n : i # 1 => i - 1 \in 1 .. n - 1 /\ requests'[i - 1] = requests[i]
<1>1. requests \in Seq(Request) /\ served \in 0 .. Len(requests) BY DEF GInv, EpcOK, EpcTypeOK
<1>2. req = Head(requests) /\ requests' = Tail(requests) /\ served > 0 BY DEF Answer
<1>3. n > 0 BY <1>1, <1>2
<1> QED BY <1>1, <1>2, <1>3, FirstTaken

\* An answer leaves the requests of other UEs, and what they know.
LEMMA AnswerGoesOn ==
  ASSUME GInv, NEW req, NEW g, Answer(req, g), NEW v \in Ue, v # req.ue,
         \A h \in Gnb : imsiRnti'[h][v] = imsiRnti[h][v]
  PROVE  RequestsGoOn(v)
<1>1. requests \in Seq(Request) /\ served \in 0 .. Len(requests) BY DEF GInv, EpcOK, EpcTypeOK
<1>2. /\ req = Head(requests) /\ requests' = Tail(requests) /\ served' = served - 1 /\ served > 0
      /\ UNCHANGED <<mmeCell, downlink>>
  BY DEF Answer
<1>3. PICK n \in Nat : n = Len(requests) BY <1>1
<1>4. /\ n > 0 /\ Len(requests') = n - 1 /\ requests[1].ue # v
      /\ \A i \in 1 .. n - 1 : requests'[i] = requests[i + 1] /\ i + 1 \in 1 .. n
      /\ \A i \in 1 .. n : i # 1 => i - 1 \in 1 .. n - 1 /\ requests'[i - 1] = requests[i]
  BY <1>3, RequestTaken
<1>5. Asked(v)' <=> Asked(v)
  <2>1. ASSUME NEW i \in 1 .. n - 1, requests'[i].ue = v PROVE Asked(v)
    BY <1>3, <1>4, <2>1 DEF Asked
  <2>2. ASSUME NEW i \in 1 .. n, requests[i].ue = v PROVE Asked(v)'
    <3>1. i - 1 \in 1 .. n - 1 /\ requests'[i - 1].ue = v BY <1>4, <2>2
    <3> QED BY <1>4, <3>1 DEF Asked
  <2> QED BY <1>3, <1>4, <2>1, <2>2 DEF Asked
<1>6. ASSUME NEW i, Alone(v, i)'
      PROVE  /\ Alone(v, i + 1) /\ requests'[i] = requests[i + 1]
             /\ i <= served' => i + 1 <= served
  <2>1. /\ i \in 1 .. n - 1 /\ requests'[i].ue = v
        /\ \A j \in 1 .. n - 1 : requests'[j].ue = v => j = i
    BY <1>4, <1>6 DEF Alone
  <2>2. i \in Nat /\ i + 1 \in 1 .. n /\ requests'[i] = requests[i + 1] BY <1>4, <2>1
  <2>3. ASSUME NEW j \in 1 .. n, requests[j].ue = v PROVE j = i + 1
    <3>1. j # 1 BY <1>4, <2>3
    <3>2. j - 1 \in 1 .. n - 1 /\ requests'[j - 1].ue = v BY <1>4, <2>3, <3>1
    <3>3. j - 1 = i BY <2>1, <3>2
    <3> QED BY <3>3, <2>2
  <2>4. i <= served' => i + 1 <= served BY <1>1, <1>2, <2>2
  <2> QED BY <1>3, <2>1, <2>2, <2>3, <2>4 DEF Alone
<1> QED BY <1>2, <1>5, <1>6 DEF RequestsGoOn

\* The context that awaits the answer gets it.  When no other request of the UE is left,
\* downlink packets reach it.
LEMMA AnswerFollows ==
  ASSUME GInv, NEW req, NEW g \in Gnb, Answer(req, g), NEW u \in Ue, u = req.ue,
         NEW r \in Rnti, r = imsiRnti[g][u], imsiRnti' = imsiRnti,
         ctx[g][r].st \in Awaits, ctx[g][r].imsi = u,
         NEW d, ctx' = [ctx EXCEPT ![g][r] = d],
         d.st \in {"CONNECTED_NORMALLY", "CONNECTION_RECONFIGURATION"},
         NoCommand, down = NoMessage, ue' = ue, ServedOnce, RntiKept,
         \A k \in Gnb, q \in Rnti : ~Leaves(u, k, q),
         Alone(u, 1) => Fed(u, g, r)'
  PROVE  Follows(u)'
<1>1. requests \in Seq(Request) /\ served \in 0 .. Len(requests) BY DEF GInv, EpcOK, EpcTypeOK
<1>2. /\ req = Head(requests) /\ requests' = Tail(requests) /\ served > 0
      /\ mmeCell' = mmeCell /\ g = mmeCell[u]
  BY DEF Answer
<1>3. PICK n \in Nat : n = Len(requests) BY <1>1
<1>4. /\ n > 0 /\ Len(requests') = n - 1 /\ requests[1].ue = u
      /\ \A i \in 1 .. n - 1 : requests'[i] = requests[i + 1] /\ i + 1 \in 1 .. n /\ i + 1 # 1
      /\ \A i \in 1 .. n : i # 1 => i - 1 \in 1 .. n - 1 /\ requests'[i - 1] = requests[i]
  BY <1>2, <1>3, RequestTaken
<1>5. Alone(u, 1) \/ Asked(u)'
  <2>1. ASSUME NEW i \in 1 .. n, requests[i].ue = u, i # 1 PROVE Asked(u)'
    <3>1. i - 1 \in 1 .. n - 1 /\ requests'[i - 1].ue = u BY <1>4, <2>1
    <3> QED BY <1>4, <3>1 DEF Asked
  <2>2. 1 \in 1 .. n BY <1>4
  <2> QED BY <1>3, <1>4, <2>1, <2>2 DEF Alone
<1>6. Alone(u, 1) => ~Asked(u)' BY <1>3, <1>4 DEF Alone, Asked
<1>7. /\ ctx'[g][r] = d
      /\ \A k \in Gnb, q \in Rnti : ~(k = g /\ q = r) => ctx'[k][q] = ctx[k][q]
  BY StateTypes DEF Contexts
<1>8. IsAt(ue[u], g, r) BY DEF ServedOnce, Awaits, Serves
<1>9. ASSUME NEW k \in Gnb, NEW q \in Rnti, ctx'[k][q].imsi = u, ctx'[k][q].st \in Serves
      PROVE  k = g /\ q = r
  <2>1. CASE ~(k = g /\ q = r)
    <3>1. ctx[k][q].imsi = u /\ ctx[k][q].st \in Serves BY <1>7, <1>9, <2>1
    <3>2. IsAt(ue[u], k, q) BY <3>1 DEF ServedOnce
    <3> QED BY <1>8, <2>1, <3>2 DEF IsAt
  <2> QED BY <2>1
<1>10. ReachedFed(u)' BY <1>5, <1>9 DEF ReachedFed, Reached
<1>11. Awaited(u)'
  <2> SUFFICES ASSUME NEW k \in Gnb, NEW q \in Rnti, Latest(u, k, q)'
               PROVE  ctx'[k][q].st \notin Awaits
    BY DEF Awaited, CreateAwaited, SwitchAwaited, Awaits
  <2>1. k = g /\ q = r BY <1>2 DEF Latest
  <2> QED BY <1>7, <2>1 DEF Awaits
<1>12. AwaitsLatest(u)'
  <2>1. ASSUME NEW k \in Gnb, NEW q \in Rnti, ctx'[k][q].imsi = u, ctx'[k][q].st \in Awaits
        PROVE  FALSE
    <3>1. k = g /\ q = r BY <1>9, <2>1 DEF Awaits, Serves
    <3> QED BY <1>7, <2>1, <3>1 DEF Awaits
  <2> QED BY <2>1 DEF AwaitsLatest
<1>13. JoinsReady(u)'
  <2> SUFFICES ASSUME NEW k \in Gnb, NEW q \in Rnti, SentTo(u, k, q)'
               PROVE  ctx'[k][q].st # "HANDOVER_JOINING"
    BY DEF JoinsReady
  <2>1. Uses(ue[u], k, q)
    <3>1. CASE down' = down BY <3>1, OnlySent DEF SentTo
    <3>2. ASSUME NEW w \in Ue, NEW m \in DownMessage, down' = To(down, w, m),
                 m.type # "HandoverCommand"
          PROVE  Uses(ue[u], k, q)
      <4>1. down' = Only(w, m) BY <3>2, OnlySent
      <4>2. down'[u] # <<>> => Head(down'[u]) = m BY <4>1, OnlySent
      <4> QED BY <3>2, <4>2 DEF SentTo
    <3> QED BY <3>1, <3>2 DEF NoCommand
  <2>2. k = g /\ q = r
    <3>1. 0 \notin Rnti /\ ue[u].rar = 0 BY <1>8 DEF Rnti, RntiKept, IsAt
    <3> QED BY <1>8, <2>1, <3>1 DEF IsAt, Uses
  <2> QED BY <1>7, <2>2
<1> QED BY <1>10, <1>11, <1>12, <1>13 DEF Follows

\* Another session than the one that the tables now have goes where it went.
LEMMA TablesGoOn ==
  ASSUME GInv, TablesTold, NEW g \in Gnb, NEW r \in Rnti, NEW s \in Session, NEW t \in Session,
         t # s, ctx[g][r].session # t, endpoint'[t] = endpoint[t],
         rntiSession' = [rntiSession EXCEPT ![g][r] = s],
         \A k \in Gnb : sessionRnti'[k][t] = sessionRnti[k][t]
  PROVE  SessionGoesOn(t)
<1>1. t # 0 BY DEF Session
<1>2. rntiSession[g][r] # t BY <1>1 DEF TablesTold
<1>3. /\ rntiSession'[g][r] = s
      /\ \A k \in Gnb, q \in Rnti : ~(k = g /\ q = r) => rntiSession'[k][q] = rntiSession[k][q]
  BY DEF GInv, AppOK
<1>4. \A k \in Gnb, q \in Rnti : rntiSession'[k][q] = t <=> rntiSession[k][q] = t
  BY <1>2, <1>3
<1> QED BY <1>4 DEF SessionGoesOn

\* What the application tells does not change but for the context it is told of.
LEMMA AnswerTells ==
  ASSUME GInv, NEW sown \in SessionOwners, NEW req, NEW g, Answer(req, g)
  PROVE  /\ Spreads(sown, sown) /\ EpcTells(sown) /\ UNCHANGED <<endpoint, downlink, sessions>>
         /\ requests[1] = req /\ 1 \in 1 .. Len(requests) /\ 1 <= served
<1>1. /\ requests \in Seq(Request) /\ served \in 0 .. Len(requests) /\ sessions \in Nat
  BY EpcAssumption DEF GInv, EpcOK, EpcTypeOK
<1>2. /\ requests' = Tail(requests) /\ served > 0 /\ req = Head(requests)
      /\ UNCHANGED <<downlink, sessions, endpoint>>
  BY DEF Answer
<1>3. PICK n \in Nat : n = Len(requests) BY <1>1
<1>4. n > 0 /\ requests[1] = req BY <1>1, <1>2, <1>3
<1>5. \A i \in 1 .. Len(requests') : i + 1 \in 1 .. n /\ requests'[i] = requests[i + 1]
  BY <1>1, <1>2, <1>3, <1>4
<1>6. Spreads(sown, sown) BY <1>1, <1>2 DEF Spreads
<1>7. EpcTells(sown) BY <1>2, <1>3, <1>5 DEF EpcTells
<1>8. 1 \in 1 .. Len(requests) /\ 1 <= served BY <1>1, <1>2, <1>3, <1>4
<1> QED BY <1>2, <1>4, <1>6, <1>7, <1>8

\* A session is there: its TEIDs lead to the context.
LEMMA ContextSetupKeepsPath ==
  ASSUME GInv, GInv', NEW own, Owned(own), NEW sown \in SessionOwners, PathOK(sown),
         down = NoMessage, ue' = ue, abort' = "none", ServedOnce, RntiKept,
         NEW u \in Ue, \A k \in Gnb, q \in Rnti : ~Leaves(u, k, q),
         NEW g \in Gnb, NEW req, Answer(req, g), u = req.ue, req.type = "Create",
         InitialContextSetupRequest(g, u, req.session)
  PROVE  PathOK(sown)'
<1>1. PICK r : r = imsiRnti[g][u] OBVIOUS
<1>2. PICK s : s = req.session OBVIOUS
<1> DEFINE c == ctx[g][r]
           e == [c EXCEPT !.session = s, !.pending = TRUE]
<1>3. PICK d : d = Normal(e) OBVIOUS
<1>4. /\ HasUeManager(g, r) /\ c.st = "ATTACH_REQUEST" /\ c.session = 0
      /\ ctx' = [ctx EXCEPT ![g][r] = d] /\ SendDown(c.imsi, "Reconfiguration", g, r)
      /\ rntiSession' = [rntiSession EXCEPT ![g][r] = s]
      /\ sessionRnti' = [sessionRnti EXCEPT ![g][s] = r]
      /\ UNCHANGED <<lastRnti, imsiRnti, x2>>
  BY <1>1, <1>2, <1>3 DEF InitialContextSetupRequest, AbortInAnswer
<1>5. r \in Rnti /\ c \in Context BY <1>4, IsContext
<1>6. c.imsi = u
  <2>1. r # 0 /\ c.st # "NONE" BY <1>4, <1>5 DEF Rnti
  <2> QED BY <1>1, <2>1 DEF PathOK, TablesTold
<1>7. /\ requests[1] = req /\ 1 \in 1 .. Len(requests) /\ 1 <= served
      /\ Spreads(sown, sown) /\ EpcTells(sown) /\ UNCHANGED <<endpoint, downlink, sessions>>
  BY AnswerTells
<1>8. s # 0 /\ Known(sown, s, u)
  <2>1. s # 0 BY <1>2, <1>7 DEF GInv, EpcOK
  <2> QED BY <1>2, <1>7, <2>1 DEF PathOK, SessionsKnown
<1>9. s \in Session
  BY <1>8, EpcAssumption DEF Known, IsOf, Session, GInv, EpcOK, EpcTypeOK
<1>10. /\ d.st = "CONNECTION_RECONFIGURATION" /\ d.imsi = u /\ d.session = s
       /\ d.source = c.source /\ d.sourceId = c.sourceId
  BY <1>3, <1>5, <1>6 DEF Normal, Context
<1> HIDE DEF e
<1>11. /\ ctx'[g][r] = d
       /\ \A k \in Gnb, q \in Rnti : ~(k = g /\ q = r) => ctx'[k][q] = ctx[k][q]
  BY <1>4, <1>5, StateTypes DEF Contexts
<1>12. /\ rntiSession'[g][r] = s
       /\ \A k \in Gnb, q \in Rnti : ~(k = g /\ q = r) => rntiSession'[k][q] = rntiSession[k][q]
  BY <1>4, <1>5 DEF GInv, AppOK
<1>13. /\ sessionRnti'[g][s] = r
       /\ \A k \in Gnb, t \in Session : t # s => sessionRnti'[k][t] = sessionRnti[k][t]
  BY <1>4, <1>9 DEF GInv, AppOK
<1>14. CtxKnows(sown)
  <2>1. Knows(c, d) BY <1>4, <1>6, <1>10 DEF Knows
  <2>2. IsOf(sown, sessions', d.session, d.imsi) BY <1>7, <1>8, <1>10 DEF Known
  <2> QED BY <1>4, <1>5, <2>1, <2>2, OneContextKnows
<1>15. AppTells
  <2>1. ASSUME NEW k \in Gnb, NEW q \in Rnti, rntiSession'[k][q] # 0
        PROVE  /\ ctx'[k][q].st # "NONE"
               /\ rntiSession'[k][q] \in {rntiSession[k][q], ctx'[k][q].session}
    <3>1. CASE k = g /\ q = r BY <1>10, <1>11, <1>12, <3>1
    <3>2. CASE ~(k = g /\ q = r)
      BY <1>11, <1>12, <2>1, <3>2 DEF PathOK, TablesTold
    <3> QED BY <3>1, <3>2
  <2> QED BY <1>4, <2>1 DEF AppTells
<1>16. QueuesLast /\ X2Tells(sown) BY <1>4, SameQueuesLast, NothingTells
<1>17. SessionsKnown(sown)' /\ TablesTold' /\ MsgSessions'
  BY <1>7, <1>14, <1>15, <1>16, PathTold DEF PathTells
<1>18. NoCommand BY <1>4, <1>5, <1>6, OtherNoCommand
<1>19. Follows(u)'
  <2>1. ASSUME Alone(u, 1) PROVE Fed(u, g, r)'
    <3>1. Latest(u, g, r) BY <1>1 DEF Latest, Answer
    <3>2. CreateAwaited(u, 1, g, r) BY <1>5, <1>7, <2>1, <3>1 DEF PathOK, Follows, Awaited
    <3>3. /\ s = downlink[u] /\ endpoint[s] = g
          /\ \A k \in Gnb, n \in Rnti : rntiSession[k][n] # s
      BY <1>2, <1>4, <1>7, <3>2 DEF CreateAwaited
    <3>4. \A k \in Gnb, q \in Rnti : rntiSession'[k][q] = s => k = g /\ q = r BY <1>12, <3>3
    <3>5. d.source # g
      <4>1. ctx'[g][r] \in Good(g) BY <1>5, ContextIsGood DEF GInv
      <4> QED BY <1>11, <4>1 DEF Good
    <3>6. OnlyAt(rntiSession'[g], r, s) BY <3>4 DEF OnlyAt
    <3>7. downlink'[u] = s /\ endpoint'[s] = g BY <1>7, <3>3
    <3>8. d.source \in Gnb => \A q \in Rnti : rntiSession'[d.source][q] # s BY <3>4, <3>5
    <3> QED BY <1>10, <1>11, <1>12, <1>13, <3>6, <3>7, <3>8 DEF Fed
  <2>2. c.st \in Awaits BY <1>4 DEF Awaits
  <2> HIDE DEF c
  <2> QED BY <1>1, <1>4, <1>5, <1>6, <1>10, <1>18, <2>1, <2>2, AnswerFollows DEF c
<1>20. ASSUME NEW v \in Ue, v # u PROVE Follows(v)'
  <2>1. RequestsGoOn(v) BY <1>4, <1>20, AnswerGoesOn
  <2>2. ASSUME NEW t, Known(sown, t, v) PROVE SessionGoesOn(t)
    <3>1. t # s BY <1>8, <1>20, <2>2 DEF Known, IsOf
    <3>2. t \in Session /\ t # 0
      BY <2>2, EpcAssumption DEF Known, IsOf, Session, GInv, EpcOK, EpcTypeOK
    <3>3. \A k \in Gnb : sessionRnti'[k][t] = sessionRnti[k][t] BY <1>13, <3>1, <3>2
    <3>4. endpoint'[t] = endpoint[t] BY <1>7
    <3>5. TablesTold BY DEF PathOK
    <3> QED BY <1>4, <1>5, <1>9, <3>1, <3>2, <3>3, <3>4, <3>5, TablesGoOn
  <2>3. d.st # "HANDOVER_JOINING" /\ d.imsi # v BY <1>10, <1>20
  <2> QED BY <1>4, <1>5, <1>16, <1>17, <1>18, <2>1, <2>2, <2>3, OtherFollows DEF PathOK
<1> QED BY <1>17, <1>19, <1>20 DEF PathOK

\* The path is switched: the context it is for is fed, and its source is told to forget the UE.
LEMMA PathSwitchKeepsPath ==
  ASSUME GInv, GInv', NEW own, Owned(own), NEW sown \in SessionOwners, PathOK(sown),
         down = NoMessage, ue' = ue, abort' = "none", ServedOnce, RntiKept,
         NEW u \in Ue, \A k \in Gnb, q \in Rnti : ~Leaves(u, k, q),
         NEW g \in Gnb, NEW req, Answer(req, g), u = req.ue, req.type = "Modify",
         PathSwitchRequestAcknowledge(g, u)
  PROVE  PathOK(sown)'
<1>1. PICK r : r = imsiRnti[g][u] OBVIOUS
<1> DEFINE c == ctx[g][r]
<1>2. PICK d : d = Normal(c) OBVIOUS
<1>3. PICK m : m = Message("UeContextRelease", c.sourceId, r, None, 0) OBVIOUS
<1>4. /\ HasUeManager(g, r) /\ c.st = "HANDOVER_PATH_SWITCH" /\ SwitchToNormal(g, r, c)
      /\ x2' = Sent(g, c.source, m)
  BY <1>1, <1>3 DEF PathSwitchRequestAcknowledge, AbortInAnswer
<1>5. r \in Rnti /\ c \in Context /\ c \in Good(g) BY <1>4, IsContext
<1>6. c.imsi = u
  <2>1. r # 0 /\ c.st # "NONE" BY <1>4, <1>5 DEF Rnti
  <2> QED BY <1>1, <2>1 DEF PathOK, TablesTold
<1>7. /\ d.st \in {"CONNECTED_NORMALLY", "CONNECTION_RECONFIGURATION"} /\ d.imsi = u
      /\ d.session = c.session /\ d.source = c.source /\ d.sourceId = c.sourceId
  BY <1>2, <1>5, <1>6, NormalFields, NormalSource
<1>8. /\ ctx' = [ctx EXCEPT ![g][r] = d] /\ UNCHANGED <<lastRnti, appVars>>
      /\ \/ SendDown(u, "Reconfiguration", g, r) \/ UNCHANGED down
  BY <1>2, <1>4, <1>6 DEF SwitchToNormal, SetContext
<1>9. /\ requests[1] = req /\ 1 \in 1 .. Len(requests) /\ 1 <= served
      /\ Spreads(sown, sown) /\ EpcTells(sown) /\ UNCHANGED <<endpoint, downlink, sessions>>
  BY AnswerTells
<1>10. c.source \in Gnb /\ c.sourceId \in 0 .. MaxRnti BY <1>4, <1>5 DEF Good, Context
<1>11. /\ ctx'[g][r] = d
       /\ \A k \in Gnb, q \in Rnti : ~(k = g /\ q = r) => ctx'[k][q] = ctx[k][q]
  BY <1>5, <1>8, StateTypes DEF Contexts
<1>12. CtxKnows(sown)
  <2>1. Knows(c, d) BY <1>4, <1>6, <1>7 DEF Knows
  <2> QED BY <1>5, <1>7, <1>8, <2>1, OneContextKnows
<1>13. AppTells
  <2>1. \A k \in Gnb, q \in Rnti : ctx[k][q].st # "NONE" => ctx'[k][q].st # "NONE"
    BY <1>7, <1>11
  <2> QED BY <1>8, <2>1, SameTablesRemain, TablesRemainTell DEF PathOK
<1>14. QueuesLast /\ X2Tells(sown)
  <2>1. 0 \in 0 .. MaxSession /\ r \in 0 .. MaxRnti BY <1>5, RntiRange, EpcAssumption
  <2> QED BY <1>3, <1>4, <1>10, <2>1, SentOther
<1>15. SessionsKnown(sown)' /\ TablesTold' /\ MsgSessions'
  BY <1>9, <1>12, <1>13, <1>14, PathTold DEF PathTells
<1>16. NoCommand
  <2>1. CASE SendDown(u, "Reconfiguration", g, r) BY <1>5, <2>1, OtherNoCommand
  <2> QED BY <1>8, <2>1 DEF NoCommand
<1>17. Holds(x2'[g][c.source], "UeContextRelease", c.sourceId)
  <2>1. m.type = "UeContextRelease" /\ m.old = c.sourceId BY <1>3 DEF Message
  <2>2. PICK queue \in Seq(X2Message) : queue = x2[g][c.source]
    BY <1>10, StateTypes DEF Channels
  <2>3. PICK y : y = x2'[g][c.source] OBVIOUS
  <2>4. y = Append(queue, m) BY <1>4, <1>10, <2>2, <2>3, StateTypes DEF Channels, Sent
  <2>5. Len(queue) + 1 \in Nat
    <3>1. Len(queue) \in Nat OBVIOUS
    <3> QED BY <3>1
  <2>6. Has(y, "UeContextRelease", c.sourceId, Len(queue) + 1)
    <3> HIDE DEF c
    <3> QED BY <2>1, <2>2, <2>4, <2>5 DEF Has
  <2> QED BY <2>3, <2>5, <2>6 DEF Holds
<1>18. Follows(u)'
  <2>1. ASSUME Alone(u, 1) PROVE Fed(u, g, r)'
    <3>1. Latest(u, g, r) BY <1>1 DEF Latest, Answer
    <3>2. SwitchAwaited(u, 1, g, r) BY <1>5, <1>9, <2>1, <3>1 DEF PathOK, Follows, Awaited
    <3>3. PICK s : s = c.session OBVIOUS
    <3>4. /\ s = downlink[u] /\ endpoint[s] = g /\ rntiSession[g][r] = s /\ sessionRnti[g][s] = r
          /\ OnlyAt(rntiSession[g], r, s) /\ OnlyAt(rntiSession[c.source], c.sourceId, s)
      BY <1>4, <1>9, <3>2, <3>3 DEF SwitchAwaited
    <3>5. UNCHANGED <<rntiSession, sessionRnti, endpoint, downlink>> BY <1>8, <1>9 DEF appVars
    <3>6. \A q \in Rnti : rntiSession[c.source][q] = s =>
             Holds(x2'[g][c.source], "UeContextRelease", q)
      BY <1>17, <3>4 DEF OnlyAt
    <3> QED BY <1>7, <1>11, <3>3, <3>4, <3>5, <3>6 DEF Fed
  <2>2. c.st \in Awaits BY <1>4 DEF Awaits
  <2>3. imsiRnti' = imsiRnti BY <1>8 DEF appVars
  <2> HIDE DEF c
  <2> QED BY <1>1, <1>5, <1>6, <1>7, <1>8, <1>16, <2>1, <2>2, <2>3, AnswerFollows DEF c
<1>19. ASSUME NEW v \in Ue, v # u PROVE Follows(v)'
  <2>1. RequestsGoOn(v) BY <1>8, <1>19, AnswerGoesOn DEF appVars
  <2>2. ASSUME NEW t PROVE SessionGoesOn(t)
    BY <1>8, <1>9 DEF SessionGoesOn, appVars
  <2>3. d.st # "HANDOVER_JOINING" /\ d.imsi # v BY <1>7, <1>19
  <2> QED BY <1>5, <1>8, <1>14, <1>15, <1>16, <2>1, <2>2, <2>3, OtherFollows DEF PathOK
<1> QED BY <1>15, <1>18, <1>19 DEF PathOK

\* A request is served: UEs that did not ask do not notice.
LEMMA ServedGoesOn ==
  ASSUME GInv, served < Len(requests), served' = served + 1, UNCHANGED <<mmeCell, imsiRnti>>,
         Len(requests') = Len(requests), requests'[served + 1].ue = requests[served + 1].ue,
         \A i \in 1 .. Len(requests) : i # served + 1 => requests'[i] = requests[i],
         NEW v \in Ue, v # requests[served + 1].ue, downlink'[v] = downlink[v]
  PROVE  RequestsGoOn(v)
<1>1. requests \in Seq(Request) /\ served \in 0 .. Len(requests) BY DEF GInv, EpcOK, EpcTypeOK
<1>2. PICK n \in Nat : n = Len(requests) BY <1>1
<1>3. PICK k \in Nat : k = served + 1 BY <1>1
<1>4. /\ Len(requests) = n /\ Len(requests') = n /\ served \in Nat /\ served' = k /\ k = served + 1
      /\ \A i \in 1 .. n : requests'[i].ue = requests[i].ue
      /\ \A i \in 1 .. n : requests[i].ue = v => requests'[i] = requests[i] /\ i # k
  BY <1>1, <1>2, <1>3
<1>5. Asked(v)' <=> Asked(v) BY <1>4 DEF Asked
<1>6. ASSUME NEW i, Alone(v, i)'
      PROVE  /\ Alone(v, i) /\ requests'[i] = requests[i]
             /\ i <= served' => i <= served
  <2>1. Alone(v, i) BY <1>4, <1>6 DEF Alone
  <2>2. i \in 1 .. n /\ requests[i].ue = v BY <1>4, <2>1 DEF Alone
  <2>3. i # k BY <1>4, <2>2
  <2>4. i <= served' => i <= served BY <1>4, <2>2, <2>3
  <2> QED BY <1>4, <2>1, <2>2, <2>4
<1> QED BY <1>5, <1>6 DEF RequestsGoOn

\* A request of UE u is served, and what awaited it awaits its answer.
LEMMA ServedFollows ==
  ASSUME GInv, NEW u \in Ue, served < Len(requests), NEW k, k = served + 1,
         UNCHANGED <<ctx, imsiRnti, mmeCell>>, Len(requests') = Len(requests),
         \A i \in 1 .. Len(requests) : requests'[i].ue = requests[i].ue,
         requests[k].ue = u, Follows(u),
         \A g \in Gnb, r \in Rnti : Alone(u, k) /\ Latest(u, g, r) =>
            CreateAwaited(u, k, g, r)' /\ SwitchAwaited(u, k, g, r)'
  PROVE  Follows(u)'
<1>1. k \in 1 .. Len(requests) BY DEF GInv, EpcOK, EpcTypeOK
<1>2. Asked(u)' BY <1>1 DEF Asked
<1>3. \A i : Alone(u, i)' => i = k /\ Alone(u, k) BY <1>1 DEF Alone
<1>4. \A g \in Gnb, r \in Rnti : Latest(u, g, r)' <=> Latest(u, g, r) BY DEF Latest
<1>5. Awaited(u)'
  <2> SUFFICES ASSUME NEW i, NEW g \in Gnb, NEW r \in Rnti, Alone(u, i)', Latest(u, g, r)'
               PROVE  CreateAwaited(u, i, g, r)' /\ SwitchAwaited(u, i, g, r)'
    BY DEF Awaited
  <2>1. i = k /\ Alone(u, k) /\ Latest(u, g, r) BY <1>3, <1>4
  <2>2. CreateAwaited(u, k, g, r)' /\ SwitchAwaited(u, k, g, r)' BY <2>1
  <2> QED BY <2>1, <2>2
<1>6. AwaitsLatest(u)' BY <1>2, <1>4 DEF Follows, AwaitsLatest
<1> QED BY <1>2, <1>5, <1>6 DEF Follows, ReachedFed, JoinsReady

\* Nothing changes but what the core network knows.
LEMMA CoreStep ==
  ASSUME GInv, UNCHANGED <<gnbVars, x2, ue, down>>
  PROVE  /\ \A sown : CtxKnows(sown) /\ X2Tells(sown)
         /\ \A v \in Ue : ServesOn(v) /\ SentOn(v)
         /\ QueuesLast /\ (TablesTold => AppTells)
<1>1. \A k \in Gnb : lastRnti'[k] >= lastRnti[k] BY StateTypes DEF gnbVars
<1>2. \A sown : CtxKnows(sown) BY <1>1 DEF CtxKnows, Knows, gnbVars
<1>3. \A sown : X2Tells(sown) BY NothingTells
<1>4. ASSUME NEW v \in Ue PROVE ServesOn(v) /\ SentOn(v)
  BY DEF ServesOn, SentOn, SentTo, gnbVars
<1>5. TablesTold => AppTells BY DEF AppTells, TablesTold, gnbVars, appVars
<1> QED BY <1>2, <1>3, <1>4, <1>5, SameQueuesLast

\* The core network creates a session, or switches the path of one.
LEMMA ServeKeepsPath ==
  ASSUME GInv, GInv', NEW own, Owned(own), NEW sown \in SessionOwners, PathOK(sown),
         Serve, UNCHANGED <<gnbVars, x2, ue, down>>
  PROVE  \E new \in SessionOwners : PathOK(new)'
<1>1. PICK k : k = served + 1 OBVIOUS
<1>2. PICK req : req = requests[k] OBVIOUS
<1>3. /\ requests \in Seq(Request) /\ served \in 0 .. Len(requests) /\ served < Len(requests)
      /\ sessions \in 0 .. MaxSession /\ MaxSession \in Nat
      /\ endpoint \in [Session -> Gnb \cup {None}] /\ downlink \in [Ue -> 0 .. MaxSession]
  BY EpcAssumption DEF GInv, EpcOK, EpcTypeOK, Serve
<1>4. k \in 1 .. Len(requests) /\ req \in Request BY <1>1, <1>2, <1>3
<1>5. PICK u \in Ue : u = req.ue BY <1>4 DEF Request
<1>6. served' = served + 1 /\ UNCHANGED <<mmeCell, imsiRnti, ctx, rntiSession, sessionRnti>>
  BY DEF Serve, gnbVars, appVars
<1>7. /\ \A any : CtxKnows(any) /\ X2Tells(any) /\ QueuesLast
      /\ AppTells /\ \A v \in Ue : ServesOn(v) /\ SentOn(v)
  BY CoreStep DEF PathOK
<1>8. ASSUME NEW v \in Ue, v # u, \A s : Known(sown, s, v) => endpoint'[s] = endpoint[s],
             downlink'[v] = downlink[v], Len(requests') = Len(requests), requests'[k].ue = u,
             \A i \in 1 .. Len(requests) : i # k => requests'[i] = requests[i], TablesTold'
      PROVE  Follows(v)'
  <2>1. RequestsGoOn(v) BY <1>1, <1>2, <1>3, <1>5, <1>6, <1>8, ServedGoesOn
  <2>2. \A s : Known(sown, s, v) => SessionGoesOn(s) BY <1>6, <1>8 DEF SessionGoesOn
  <2> QED BY <1>7, <1>8, <2>1, <2>2, FollowsOn DEF PathOK
<1>9. CASE req.type = "Create"
  <2>1. PICK n : n = sessions + 1 OBVIOUS
  <2>2. PICK q : q = [req EXCEPT !.session = n] OBVIOUS
  <2>3. /\ sessions < MaxSession /\ sessions' = n /\ downlink' = [downlink EXCEPT ![u] = n]
        /\ requests' = [requests EXCEPT ![k].session = n]
        /\ endpoint' = [endpoint EXCEPT ![n] = req.gnb]
    BY <1>1, <1>2, <1>5, <1>9, <2>1 DEF Serve
  <2>4. n \in Session /\ n # 0 /\ n \in 1 .. n /\ n >= sessions /\ n \notin 1 .. sessions
        /\ sessions \in Nat
    BY <1>3, <2>1, <2>3 DEF Session
  <2>5. /\ Len(requests') = Len(requests) /\ requests'[k] = q
        /\ \A i \in 1 .. Len(requests) : i # k => requests'[i] = requests[i]
    BY <1>2, <1>3, <1>4, <2>2, <2>3
  <2>6. q.ue = u /\ q.session = n /\ q.gnb = req.gnb /\ q.type = "Create"
    BY <1>4, <1>5, <1>9, <2>2 DEF Request
  <2>7. /\ downlink'[u] = n /\ \A v \in Ue : v # u => downlink'[v] = downlink[v]
        /\ endpoint'[n] = req.gnb /\ \A s \in Session : s # n => endpoint'[s] = endpoint[s]
    BY <1>3, <2>3, <2>4
  <2>8. PICK new \in SessionOwners : new = [sown EXCEPT ![n] = u] BY DEF SessionOwners
  <2>9. new[n] = u /\ \A s \in Session : s # n => new[s] = sown[s]
    BY <2>4, <2>8 DEF SessionOwners
  <2>10. ASSUME NEW s \in 1 .. sessions PROVE s \in Session /\ s # n
    BY <1>3, <2>4 DEF Session
  <2>11. Spreads(sown, new) BY <2>3, <2>4, <2>9, <2>10 DEF Spreads
  <2>12. IsOf(new, sessions', n, u) BY <2>3, <2>4, <2>9 DEF IsOf
  <2>13. EpcTells(new)
    <3>1. \A v \in Ue : downlink'[v] = downlink[v] \/ IsOf(new, sessions', downlink'[v], v)
      BY <2>7, <2>12
    <3>2. ASSUME NEW i \in 1 .. Len(requests')
          PROVE  \/ \E j \in 1 .. Len(requests) : requests'[i] = requests[j]
                 \/ IsOf(new, sessions', requests'[i].session, requests'[i].ue)
      BY <2>5, <2>6, <2>12
    <3> QED BY <3>1, <3>2 DEF EpcTells
  <2>14. SessionsKnown(new)' /\ TablesTold' /\ MsgSessions'
    BY <1>7, <2>11, <2>13, PathTold DEF PathTells
  <2>15. ASSUME NEW v \in Ue, v # u PROVE Follows(v)'
    <3>1. \A s : Known(sown, s, v) => endpoint'[s] = endpoint[s]
      BY <2>7, <2>10 DEF Known, IsOf
    <3> QED BY <1>8, <2>5, <2>6, <2>7, <2>14, <2>15, <3>1
  <2>16. Follows(u)'
    <3>1. ASSUME NEW g \in Gnb, NEW r \in Rnti, Alone(u, k), Latest(u, g, r)
          PROVE  CreateAwaited(u, k, g, r)' /\ SwitchAwaited(u, k, g, r)'
      <4>1. CreateAwaited(u, k, g, r) BY <1>4, <3>1 DEF PathOK, Follows, Awaited
      <4>2. ctx[g][r].st = "ATTACH_REQUEST" /\ ctx[g][r].session = 0 => req.gnb = g
        BY <1>2, <1>9, <4>1 DEF CreateAwaited
      <4>3. ASSUME NEW h \in Gnb, NEW p \in Rnti, rntiSession[h][p] = n PROVE FALSE
        <5>1. ctx[h][p].st # "NONE" /\ ctx[h][p].session = n BY <2>4, <4>3 DEF PathOK, TablesTold
        <5>2. n \in 1 .. sessions BY <2>4, <5>1 DEF PathOK, SessionsKnown, Known, IsOf
        <5> QED BY <2>4, <5>2
      <4>4. CreateAwaited(u, k, g, r)'
        BY <1>6, <2>5, <2>6, <2>7, <4>2, <4>3 DEF CreateAwaited
      <4>5. SwitchAwaited(u, k, g, r)' BY <2>5, <2>6 DEF SwitchAwaited
      <4> QED BY <4>4, <4>5
    <3>2. \A i \in 1 .. Len(requests) : requests'[i].ue = requests[i].ue
      BY <1>2, <1>5, <2>5, <2>6
    <3>3. Follows(u) BY DEF PathOK
    <3> QED BY <1>1, <1>2, <1>3, <1>5, <1>6, <2>5, <3>1, <3>2, <3>3, ServedFollows
  <2> QED BY <2>8, <2>14, <2>15, <2>16 DEF PathOK
<1>10. CASE req.type = "Modify"
  <2>1. PICK s : s = req.session OBVIOUS
  <2>2. endpoint' = [endpoint EXCEPT ![s] = req.gnb] /\ UNCHANGED <<requests, sessions, downlink>>
    BY <1>1, <1>2, <1>10, <2>1 DEF Serve
  <2>3. \A t \in Session : t # s => endpoint'[t] = endpoint[t] BY <1>3, <2>2
  <2>4. s # 0 => Known(sown, s, u)
    BY <1>2, <1>4, <1>5, <2>1 DEF PathOK, SessionsKnown
  <2>5. Spreads(sown, sown) /\ EpcTells(sown) BY <1>3, <2>2 DEF Spreads, EpcTells
  <2>6. SessionsKnown(sown)' /\ TablesTold' /\ MsgSessions'
    BY <1>7, <2>5, PathTold DEF PathTells
  <2>7. ASSUME NEW v \in Ue, v # u PROVE Follows(v)'
    <3>1. ASSUME NEW t, Known(sown, t, v) PROVE endpoint'[t] = endpoint[t]
      <4>1. t \in Session /\ t # 0 BY <1>3, <3>1 DEF Known, IsOf, Session
      <4>2. t # s BY <2>4, <2>7, <3>1, <4>1 DEF Known, IsOf
      <4> QED BY <2>3, <4>1, <4>2
    <3>2. requests'[k].ue = u BY <1>2, <1>5, <2>2
    <3> QED BY <1>8, <2>2, <2>6, <2>7, <3>1, <3>2
  <2>8. Follows(u)'
    <3>1. ASSUME NEW g \in Gnb, NEW r \in Rnti, Alone(u, k), Latest(u, g, r)
          PROVE  CreateAwaited(u, k, g, r)' /\ SwitchAwaited(u, k, g, r)'
      <4> DEFINE c == ctx[g][r]
      <4>1. SwitchAwaited(u, k, g, r) BY <1>4, <3>1 DEF PathOK, Follows, Awaited
      <4>2. requests'[k] = req BY <1>2, <2>2
      <4>3. CreateAwaited(u, k, g, r)' BY <1>10, <4>2 DEF CreateAwaited
      <4>4. ASSUME c.st = "HANDOVER_PATH_SWITCH"
            PROVE  /\ req.gnb = g /\ s = c.session /\ c.session = downlink[u]
                   /\ rntiSession[g][r] = c.session /\ sessionRnti[g][c.session] = r
                   /\ OnlyAt(rntiSession[g], r, c.session)
                   /\ OnlyAt(rntiSession[c.source], c.sourceId, c.session)
                   /\ c.session \in Session
        BY <1>2, <1>10, <2>1, <4>1, <4>4, BearerSession DEF SwitchAwaited, PathOK, Bearing, Named
      <4>5. c.st = "HANDOVER_PATH_SWITCH" => endpoint'[c.session] = g BY <1>3, <2>2, <4>4
      <4>6. SwitchAwaited(u, k, g, r)'
        BY <1>6, <2>1, <2>2, <4>2, <4>4, <4>5 DEF SwitchAwaited
      <4> QED BY <4>3, <4>6
    <3>2. Follows(u) BY DEF PathOK
    <3> QED BY <1>1, <1>2, <1>3, <1>5, <1>6, <2>2, <3>1, <3>2, ServedFollows
  <2> QED BY <2>6, <2>7, <2>8 DEF PathOK
<1> QED BY <1>4, <1>9, <1>10 DEF Request

-----------------------------------------------------------------------------
(* Steps of UEs.                                                            *)

\* The path after a step that the core network has no part in.
LEMMA RemainKeeps ==
  ASSUME GInv, GInv', NEW own, Owned(own), NEW sown \in SessionOwners, PathOK(sown),
         CtxRemain(sown), TablesRemain, X2Tells(sown), QueuesLast, SentRemain, UNCHANGED epcVars
  PROVE  PathOK(sown)'
<1>1. CtxKnows(sown) /\ \A v \in Ue : ServesOn(v) BY RemainKnows
<1>2. \A v \in Ue : SentOn(v) BY SentRemainOn
<1> QED BY <1>1, <1>2, PathRemains

\* A step in which no UE comes to use a context it was not sent to.
LEMMA UeKeepsPath ==
  ASSUME GInv, GInv', NEW own, Owned(own), NEW sown \in SessionOwners, PathOK(sown),
         UNCHANGED gnbSide, down' = NoMessage,
         \A v \in Ue, g \in Gnb, r \in Rnti : Uses(ue'[v], g, r) => SentTo(v, g, r)
  PROVE  PathOK(sown)'
<1>1. \A h \in Gnb : lastRnti'[h] >= lastRnti[h] BY StateTypes DEF gnbSide, gnbVars
<1>2. CtxRemain(sown) BY <1>1, ContextsRemain DEF gnbSide, gnbVars
<1>3. TablesRemain BY SameTablesRemain DEF gnbSide, gnbVars
<1>4. X2Tells(sown) /\ QueuesLast BY SameQueuesLast, NothingTells DEF gnbSide
<1>5. SentRemain BY OnlySent DEF SentRemain, SentTo
<1>6. UNCHANGED epcVars BY DEF gnbSide
<1> QED BY <1>2, <1>3, <1>4, <1>5, <1>6, RemainKeeps

\* A step of a UE that is not a handover.
LEMMA UeStepKeepsPath ==
  ASSUME GInv, GInv', NEW own, Owned(own), NEW sown \in SessionOwners, PathOK(sown),
         UNCHANGED gnbSide, down' = NoMessage, NEW u \in Ue, UeKeeps(u)
  PROVE  PathOK(sown)'
<1>1. \A v \in Ue, g \in Gnb, r \in Rnti : Uses(ue'[v], g, r) => SentTo(v, g, r)
  BY DEF UeKeeps, Shrinks, SentTo
<1> QED BY <1>1, UeKeepsPath

\* A UE turns to the target of a handover, to which it was sent.
LEMMA HandoverKeepsPath ==
  ASSUME GInv, GInv', NEW own, Owned(own), NEW sown \in SessionOwners, PathOK(sown), UeOK,
         UNCHANGED gnbSide, down' = NoMessage, NEW u \in Ue, down[u] # <<>>, NEW m,
         Head(down[u]) = m, m.type = "HandoverCommand", RecvHandoverCommand(u, m.gnb, m.rnti)
  PROVE  PathOK(sown)'
<1> DEFINE c == ue[u]
<1>1. PICK d : d = [c EXCEPT !.st = "CONNECTED_HANDOVER", !.cell = m.gnb, !.rnti = m.rnti, !.rar = 0]
  OBVIOUS
<1>2. d.st = "CONNECTED_HANDOVER" /\ d.cell = m.gnb /\ d.rnti = m.rnti /\ d.rar = 0
  BY <1>1, UeIsGood DEF UeRecord
<1>3. ue' = ue \/ ue' = [ue EXCEPT ![u] = d] BY <1>1 DEF RecvHandoverCommand, UeAbort, Become
<1>4. ASSUME NEW v \in Ue, NEW g \in Gnb, NEW r \in Rnti, Uses(ue'[v], g, r)
      PROVE  SentTo(v, g, r)
  <2>1. CASE Uses(ue[v], g, r) BY <2>1 DEF SentTo
  <2>2. CASE v = u /\ ue'[u] = d
    <3>1. 0 \notin Rnti BY DEF Rnti
    <3>2. g = m.gnb /\ r = m.rnti BY <1>2, <1>4, <2>2, <3>1 DEF Uses
    <3> QED BY <2>2, <3>2 DEF SentTo
  <2> QED BY <1>3, <1>4, <2>1, <2>2, UeReplaced
<1> QED BY <1>4, UeKeepsPath

\* A UE sends a preamble, and gets the RNTI it has or that of a new context.
LEMMA PreambleKeepsPath ==
  ASSUME GInv, GInv', NEW own, Owned(own), NEW sown \in SessionOwners, PathOK(sown), UeOK,
         down = NoMessage, NEW u \in Ue, NEW g \in Gnb, g = ue[u].cell, NEW r \in Rnti,
         AnswerRaPreamble(g, u, r), ~Spend("overlap"), ue' = [ue EXCEPT ![u].rar = r]
  PROVE  PathOK(sown)'
<1>1. /\ \A v \in Ue : v # u => ue'[v] = ue[v]
      /\ ue'[u].cell = g /\ ue'[u].st = ue[u].st /\ ue'[u].rnti = ue[u].rnti /\ ue'[u].rar = r
  BY UeIsGood DEF UeOK, UeRecord
<1>2. ASSUME NEW v \in Ue, NEW k \in Gnb, NEW q \in Rnti, Uses(ue'[v], k, q)
      PROVE  Uses(ue[v], k, q) \/ (v = u /\ k = g /\ q = r)
  BY <1>1, <1>2 DEF Uses
<1>3. CASE ue[u].st = "CONNECTED_HANDOVER" /\ r = ue[u].rnti /\ UNCHANGED <<gnbSide, down>>
  <2>1. Uses(ue[u], g, r) BY <1>3 DEF Uses, Connected
  <2>2. \A v \in Ue, k \in Gnb, q \in Rnti : Uses(ue'[v], k, q) => SentTo(v, k, q)
    BY <1>2, <2>1 DEF SentTo
  <2> QED BY <1>3, <2>2, UeKeepsPath
<1>4. CASE r = NewRnti(g) /\ AllocateTemporaryCellRnti(g)
  <2>1. Plain(sown) BY <1>4, AllocatePlain
  <2>2. ctx'[g][r].st = "INITIAL_RANDOM_ACCESS"
    <3>1. PICK d : d = NewContext("INITIAL_RANDOM_ACCESS", {"connectionRequest"}) OBVIOUS
    <3>2. ctx' = [ctx EXCEPT ![g][r] = d]
      BY <1>4, <3>1 DEF AllocateTemporaryCellRnti, AddUe
    <3>3. ctx'[g][r] = d BY <3>2, StateTypes DEF Contexts
    <3> QED BY <3>1, <3>3 DEF NewContext
  <2>3. SentRemain
    <3> SUFFICES ASSUME NEW v \in Ue, NEW k \in Gnb, NEW q \in Rnti, SentTo(v, k, q)',
                        ctx'[k][q].st = "HANDOVER_JOINING"
                 PROVE  SentTo(v, k, q)
      BY DEF SentRemain
    <3>1. down' = down BY <1>4 DEF AllocateTemporaryCellRnti
    <3>2. Uses(ue'[v], k, q) BY <3>1, OnlySent DEF SentTo
    <3>3. Uses(ue[v], k, q) BY <1>2, <2>2, <3>2
    <3> QED BY <3>3 DEF SentTo
  <2> QED BY <2>1, <2>3, RemainKeeps DEF Plain
<1> QED BY <1>3, <1>4 DEF AnswerRaPreamble

-----------------------------------------------------------------------------
(* The path in every step.                                                  *)

\* A message of a UE is delivered.
LEMMA DeliverUpKeepsPath ==
  ASSUME OwnInv, GInv', NEW own, Owned(own), Served, NEW sown \in SessionOwners, PathOK(sown),
         abort' = "none", NEW u \in Ue, DeliverUp(u)
  PROVE  PathOK(sown)'
<1> DEFINE m == Head(up[u])
<1>1. PICK g, r : g = m.gnb /\ r = m.rnti OBVIOUS
<1>2. m \in UpMessage /\ down = NoMessage /\ up[u] # <<>>
  BY TakeUp DEF OwnInv, Inv, DeliverUp
<1>3. g \in Gnb /\ ue' = ue BY <1>1, <1>2 DEF UpMessage, DeliverUp
<1>4. GInv /\ ServedOnce BY DEF OwnInv, Inv, Served
<1>5. r \in Rnti => Owns(own, lastRnti, g, r, u) BY <1>1, <1>2 DEF Owned, UpOwned
<1>6. \A v \in Ue : up[v] # <<>> => v = u
  <2>1. PICK w \in Ue, a \in UpMessage : up = Only(w, a) BY <1>2, OnlySent DEF OwnInv, Inv, AirInv
  <2> QED BY <1>2, <2>1, OnlySent
<1>7. m.type # "IdealUeContextRemove" => \A k \in Gnb, q \in Rnti : ~Leaves(u, k, q)
  BY DEF Leaves
<1>8. CASE \E admit \in BOOLEAN : RecvRrcConnectionRequest(g, r, u, admit)
  <2>1. Plain(sown) BY <1>3, <1>4, <1>5, <1>8, ConnectionRequestPlain
  <2> QED BY <1>2, <1>3, <1>4, <2>1, PlainKeeps
<1>9. CASE m.type = "SetupCompleted" /\ RecvRrcConnectionSetupCompleted(g, r)
  <2>1. IsAt(ue[u], g, r) BY <1>1, <1>2, <1>9 DEF OwnInv, CompletedAt
  <2>2. \A k \in Gnb, q \in Rnti : ~Leaves(u, k, q) BY <1>7, <1>9
  <2> QED BY <1>2, <1>3, <1>4, <1>5, <1>9, <2>1, <2>2, SetupKeepsPath
<1>10. CASE m.type = "ReconfigurationCompleted" /\ RecvRrcConnectionReconfigurationCompleted(g, r)
  <2>1. IsAt(ue[u], g, r) BY <1>1, <1>2, <1>10 DEF OwnInv, CompletedAt
  <2>2. \A k \in Gnb, q \in Rnti : ~Leaves(u, k, q) BY <1>7, <1>10
  <2>3. CASE HasUeManager(g, r) /\ ctx[g][r].st = "HANDOVER_JOINING"
    BY <1>2, <1>3, <1>4, <1>5, <1>10, <2>1, <2>2, <2>3, JoinKeepsPath
  <2>4. CASE ~(HasUeManager(g, r) /\ ctx[g][r].st = "HANDOVER_JOINING")
    <3>1. Plain(sown) BY <1>3, <1>4, <1>10, <2>4, ReconfigurationPlain
    <3> QED BY <1>2, <1>3, <1>4, <3>1, PlainKeeps
  <2> QED BY <2>3, <2>4
<1>11. CASE RecvIdealUeContextRemoveRequest(g, r)
  <2>1. Plain(sown) BY <1>3, <1>4, <1>11, ContextRemovePlain
  <2> QED BY <1>2, <1>3, <1>4, <2>1, PlainKeeps
<1> QED BY <1>1, <1>8, <1>9, <1>10, <1>11 DEF DeliverUp

\* A message to a UE is delivered.
LEMMA DeliverDownKeepsPath ==
  ASSUME OwnInv, GInv', NEW own, Owned(own), NEW sown \in SessionOwners, PathOK(sown),
         NEW u \in Ue, DeliverDown(u)
  PROVE  PathOK(sown)'
<1>1. PICK m : m = Head(down[u]) OBVIOUS
<1>2. GInv /\ UeOK BY DEF OwnInv, Inv
<1>3. m \in DownMessage /\ DownExpected(u, m) /\ down' = NoMessage
  BY <1>1, TakeDown DEF OwnInv, Inv, DeliverDown
<1>4. UNCHANGED gnbSide /\ down[u] # <<>> BY DEF DeliverDown
<1>5. CASE m.type = "HandoverCommand" /\ RecvDown(u, m)
  <2>1. RecvHandoverCommand(u, m.gnb, m.rnti) BY <1>5 DEF RecvDown
  <2> QED BY <1>1, <1>2, <1>3, <1>4, <1>5, <2>1, HandoverKeepsPath
<1>6. CASE m.type # "HandoverCommand" /\ RecvDown(u, m)
  <2>1. UeKeeps(u) BY <1>2, <1>3, <1>6, RecvDownUeKeeps
  <2> QED BY <1>2, <1>3, <1>4, <2>1, UeStepKeepsPath
<1>7. CASE RefuseHandoverCommand(u, m)
  <2>1. UeKeeps(u) BY <1>2, <1>7, FaultKeeps DEF RefuseHandoverCommand
  <2> QED BY <1>2, <1>3, <1>4, <2>1, UeStepKeepsPath
<1> QED BY <1>1, <1>5, <1>6, <1>7 DEF DeliverDown

\* A UE does something of its own.
LEMMA UeDoesKeepsPath ==
  ASSUME OwnInv, GInv', NEW own, Owned(own), NEW sown \in SessionOwners, PathOK(sown),
         InstantOver, NEW u \in Ue, UeStep(u) \/ UeFault(u)
  PROVE  PathOK(sown)'
<1>1. UNCHANGED <<gnbSide, down>> BY DEF UeStep, UeFault
<1>2. GInv /\ UeOK /\ up = NoMessage /\ down = NoMessage
  BY NothingInTheAir DEF OwnInv, Inv
<1>3. UeKeeps(u)
  <2>1. CASE \E g \in Gnb : \/ ForceCampedOnGnb(u, g)
                            \/ RecvSystemInformationBlockType1(u, g, TRUE)
                            \/ RecvSystemInformationBlockType1(u, g, FALSE)
    BY <1>2, <2>1, SelectionKeeps
  <2>2. CASE \/ StartCellSelection(u) \/ ReportUeMeasurements(u)
             \/ RecvMasterInformationBlock(u) \/ RecvSystemInformation(u)
    BY <1>2, <2>2, SelectionKeeps
  <2>3. CASE NotifyRandomAccessSuccessful(u) BY <1>2, <2>3, SuccessKeeps
  <2>4. CASE \/ NotifyRandomAccessFailed(u) \/ RaResponseTimeout(u)
             \/ RadioLinkFailureDetected(u) \/ ConnectionTimeout(u)
    BY <1>2, <2>4, FaultKeeps
  <2> QED BY <2>1, <2>2, <2>3, <2>4 DEF UeStep, UeFault
<1> QED BY <1>1, <1>2, <1>3, UeStepKeepsPath

\* A UE sends a preamble.
LEMMA RaPreambleKeepsPath ==
  ASSUME OwnInv, GInv', NEW own, Owned(own), NEW sown \in SessionOwners, PathOK(sown),
         InstantOver, NEW u \in Ue, RaPreamble(u), spent'["overlap"] = 0
  PROVE  PathOK(sown)'
<1>1. PICK g : g = ue[u].cell OBVIOUS
<1>2. PICK r \in Rnti : AnswerRaPreamble(g, u, r) /\ ue' = [ue EXCEPT ![u].rar = r]
  BY <1>1 DEF RaPreamble
<1>3. GInv /\ UeOK /\ SpentOK /\ down = NoMessage BY NothingInTheAir DEF OwnInv, Inv
<1>4. ue[u].st \in Accessing BY DEF RaPreamble, InRandomAccess, Accessing
<1>5. g \in Gnb BY <1>1, <1>3, <1>4, UeIsGood DEF UeGood, Accessing, Placed
<1>6. ~Spend("overlap") BY <1>3, SpentIsNot0 DEF Trouble, Handover
<1> QED BY <1>1, <1>2, <1>3, <1>5, <1>6, PreambleKeepsPath

\* The core network works, or answers.
LEMMA EpcKeepsPath ==
  ASSUME OwnInv, GInv', NEW own, Owned(own), Served, NEW sown \in SessionOwners, PathOK(sown),
         InstantOver, abort' = "none", EpcStep
  PROVE  \E new \in SessionOwners : PathOK(new)'
<1>1. GInv /\ ServedOnce /\ RntiKept BY DEF OwnInv, Inv, Served
<1>2. up = NoMessage /\ down = NoMessage BY NothingInTheAir DEF OwnInv, Inv
<1>3. CASE Serve /\ UNCHANGED <<gnbVars, x2, airVars, abort, ue, spent>>
  <2>1. UNCHANGED <<gnbVars, x2, ue, down>> BY <1>3 DEF airVars
  <2> QED BY <1>1, <1>3, <2>1, ServeKeepsPath
<1>4. ASSUME NEW g \in Gnb, NEW req, req = Head(requests), Answer(req, g),
             \/ req.type = "Create" /\ InitialContextSetupRequest(g, req.ue, req.session)
             \/ req.type = "Modify" /\ PathSwitchRequestAcknowledge(g, req.ue),
             UNCHANGED <<up, ue, spent>>
      PROVE  PathOK(sown)'
  <2>1. req \in Request BY <1>1, <1>4, AnswerKeeps DEF GInv
  <2>2. PICK u \in Ue : u = req.ue BY <2>1 DEF Request
  <2>3. \A k \in Gnb, q \in Rnti : ~Leaves(u, k, q) BY <1>2, OnlySent DEF Leaves
  <2>4. CASE req.type = "Create" /\ InitialContextSetupRequest(g, req.ue, req.session)
    BY <1>1, <1>2, <1>4, <2>2, <2>3, <2>4, ContextSetupKeepsPath
  <2>5. CASE req.type = "Modify" /\ PathSwitchRequestAcknowledge(g, req.ue)
    BY <1>1, <1>2, <1>4, <2>2, <2>3, <2>5, PathSwitchKeepsPath
  <2> QED BY <1>4, <2>4, <2>5
<1> QED BY <1>3, <1>4 DEF EpcStep

\* The path in a step that no trouble comes of.
LEMMA StepKeepsPath ==
  ASSUME OwnInv, OwnInv', NEW own, Owned(own), Served, NEW sown \in SessionOwners, PathOK(sown),
         [Next]_vars, Untroubled'
  PROVE  \E new \in SessionOwners : PathOK(new)'
<1>0. GInv /\ GInv' /\ SpentOK BY DEF OwnInv, Inv
<1>1. abort' = "none" /\ spent'["overlap"] = 0 /\ spent'["recovery"] = 0 /\ spent'["return"] = 0
  BY DEF Untroubled
<1>2. ASSUME InstantOver PROVE down = NoMessage BY <1>2, NothingInTheAir DEF OwnInv, Inv
<1>3. CASE UNCHANGED vars
  <2>1. UNCHANGED <<gnbVars, x2, epcVars, ue, down>> BY <1>3 DEF vars, airVars
  <2>2. Plain(sown) BY <1>0, <2>1, PlainStutter
  <2>3. CtxRemain(sown) /\ TablesRemain /\ X2Tells(sown) /\ QueuesLast BY <2>2 DEF Plain
  <2>4. SentRemain BY <2>1 DEF SentRemain, SentTo
  <2> QED BY <1>0, <2>1, <2>3, <2>4, RemainKeeps
<1>4. ASSUME NEW u \in Ue, DeliverUp(u) PROVE PathOK(sown)'
  BY <1>0, <1>1, <1>4, DeliverUpKeepsPath
<1>5. ASSUME NEW u \in Ue, DeliverDown(u) PROVE PathOK(sown)'
  BY <1>0, <1>5, DeliverDownKeepsPath
<1>6. ASSUME InstantOver, NEW u \in Ue, RaPreamble(u) PROVE PathOK(sown)'
  BY <1>0, <1>1, <1>6, RaPreambleKeepsPath
<1>7. ASSUME NEW u \in Ue PROVE ~RecoverUplink(u)
  BY <1>0, <1>1, SpentIsNot0 DEF RecoverUplink, Trouble, Handover
<1>8. ASSUME InstantOver, NEW u \in Ue, UeStep(u) \/ UeFault(u) PROVE PathOK(sown)'
  BY <1>0, <1>8, UeDoesKeepsPath
<1>9. ASSUME InstantOver, X2Step PROVE PathOK(sown)'
  <2>1. PICK g \in Gnb, h \in Gnb, answer \in {"admit", "reject", "noPreamble"} :
           RecvX2(g, h, answer)
    BY <1>9 DEF X2Step
  <2>2. ue' = ue BY <1>9 DEF X2Step
  <2> QED BY <1>0, <1>1, <1>2, <1>9, <2>1, <2>2, X2KeepsPath
<1>10. ASSUME InstantOver, EpcStep PROVE \E new \in SessionOwners : PathOK(new)'
  BY <1>0, <1>1, <1>10, EpcKeepsPath
<1>11. ASSUME InstantOver, NEW g \in Gnb, NEW r \in Rnti, GnbTimeout(g, r) PROVE PathOK(sown)'
  <2>1. PICK t \in Timer : Timeout(g, r, t) BY <1>11 DEF GnbTimeout
  <2>2. Plain(sown) BY <1>0, <1>1, <2>1, TimeoutPlain
  <2> QED BY <1>0, <1>2, <1>11, <2>2, PlainKeeps DEF GnbTimeout
<1>12. ASSUME InstantOver, NEW g \in Gnb, NEW r \in Rnti, Reconfigure(g, r) PROVE PathOK(sown)'
  <2>1. ScheduleRrcConnectionReconfiguration(g, r) /\ ue' = ue BY <1>12 DEF Reconfigure
  <2>2. Plain(sown) BY <1>0, <1>1, <2>1, SchedulePlain
  <2> QED BY <1>0, <1>2, <1>12, <2>1, <2>2, PlainKeeps
<1>13. ASSUME InstantOver, NEW g \in Gnb, NEW r \in Rnti, NEW h \in Gnb, DecideHandover(g, r, h)
       PROVE  PathOK(sown)'
  <2>1. ~Spend("return") BY <1>0, <1>1, SpentIsNot0 DEF Trouble, Handover
  <2>2. ~Revisits(ctx[g][r], h) BY <1>13, <2>1 DEF DecideHandover
  <2>3. PrepareHandover(g, r, h) /\ ue' = ue /\ ctx[g][r].st = "CONNECTED_NORMALLY"
    BY <1>13 DEF DecideHandover
  <2> QED BY <1>0, <2>2, <2>3, PrepareKeepsPath
<1> QED BY <1>3, <1>4, <1>5, <1>6, <1>7, <1>8, <1>9, <1>10, <1>11, <1>12, <1>13
        DEF Next, Progress, Disturbance

-----------------------------------------------------------------------------
\* Initially there are no sessions.
LEMMA InitPathInv == Init => PathInv
<1> SUFFICES ASSUME Init PROVE \E sown \in SessionOwners : PathOK(sown) BY DEF PathInv
<1>1. PICK sown \in SessionOwners : TRUE
  <2>1. [s \in Session |-> None] \in SessionOwners BY DEF SessionOwners
  <2> QED BY <2>1
<1>2. /\ \A g \in Gnb, r \in Rnti : ctx[g][r].st = "NONE" /\ rntiSession[g][r] = 0
      /\ \A g \in Gnb, u \in Ue : imsiRnti[g][u] = 0
      /\ \A g, h \in Gnb : x2[h][g] = <<>>
  BY DEF Init, GnbInit, NoContext, NewContext
<1>3. requests = <<>> /\ \A u \in Ue : downlink[u] = 0 BY DEF Init, EpcInit
<1>4. SessionsKnown(sown) BY <1>2, <1>3 DEF SessionsKnown
<1>5. TablesTold /\ MsgSessions BY <1>2 DEF TablesTold, MsgSessions
<1>6. ASSUME NEW v \in Ue PROVE Follows(v)
  <2>1. ReachedFed(v) /\ AwaitsLatest(v)
    BY <1>2 DEF ReachedFed, AwaitsLatest, Reached, Awaits, Serves
  <2>2. Awaited(v) BY <1>3 DEF Awaited
  <2>3. JoinsReady(v) BY <1>2 DEF JoinsReady
  <2> QED BY <2>1, <2>2, <2>3 DEF Follows
<1> QED BY <1>4, <1>5, <1>6 DEF PathOK

\* Troubles do not become fewer, and an assertion that failed remains so.
LEMMA TroubleLasts ==
  ASSUME SpentOK, [Next]_vars, Untroubled'
  PROVE  Untroubled
<1>1. CASE UNCHANGED vars BY <1>1 DEF vars, Untroubled
<1>2. CASE Next
  <2>1. abort = "none" BY <1>2 DEF Next, Progress, Disturbance
  <2>2. \/ UNCHANGED spent \/ Spend("fault") \/ Spend("recovery")
        \/ Spend("reconfig") \/ Spend("overlap") \/ Spend("handover") \/ Spend("return")
    BY <1>2 DEF Next, Progress, Disturbance, DeliverUp, DeliverDown, RaPreamble, AnswerRaPreamble,
                RecoverUplink, UeStep, UeFault, X2Step, EpcStep, GnbTimeout, Reconfigure,
                DecideHandover
  <2>3. \A kind \in Trouble : spent'[kind] = 0 => spent[kind] = 0 BY <2>2, SpentGrows
  <2> QED BY <2>1, <2>3 DEF Untroubled, Trouble, Handover
<1> QED BY <1>1, <1>2

\* Every step keeps the path.
LEMMA NextPathInv ==
  ASSUME OwnInv, PathInv, [Next]_vars
  PROVE  PathInv'
<1>1. OwnInv' BY NextOwnInv
<1> SUFFICES ASSUME Untroubled' PROVE \E new \in SessionOwners : PathOK(new)' BY DEF PathInv
<1>2. Untroubled BY TroubleLasts DEF OwnInv, Inv
<1>3. PICK own \in Owners : Owned(own) BY <1>2 DEF OwnInv, Untroubled
<1>4. Served BY <1>2 DEF OwnInv, Untroubled
<1>5. PICK sown \in SessionOwners : PathOK(sown) BY <1>2 DEF PathInv
<1> QED BY <1>1, <1>3, <1>4, <1>5, StepKeepsPath

\* PathInv is an invariant of the specification.
THEOREM PathInvHolds == Spec => []PathInv
BY InitPathInv, NextPathInv, OwnInvHolds, PTL DEF Spec

\* When nothing is under way, downlink packets of a connected UE reach the context it uses
\* (DownlinkReachesUe), as long as no UE is given the RNTI of another one.
THEOREM DownlinkReaches == Spec => [](spent["overlap"] = 0 => DownlinkReachesUe)
<1>1. OwnInv /\ PathInv => (spent["overlap"] = 0 => DownlinkReachesUe)
  <2> SUFFICES ASSUME OwnInv, PathInv, Untroubled, requests = <<>>,
                      NEW g \in Gnb, NEW r \in Serving(g), NEW u, u = ctx[g][r].imsi
               PROVE  /\ endpoint[downlink[u]] = g /\ sessionRnti[g][downlink[u]] = r
                      /\ rntiSession[g][r] = downlink[u]
    BY DEF DownlinkReachesUe, Quiet, Untroubled
  <2>1. r \in Rnti /\ ctx[g][r].st \in Serves BY DEF Serving, Serves
  <2>2. u \in Ue
    <3>1. ctx[g][r] \in Good(g) BY <2>1, ContextIsGood DEF OwnInv, Inv, GInv
    <3> QED BY <2>1, <3>1 DEF Good, Named, Serves
  <2>3. ReachedFed(u) /\ AwaitsLatest(u) BY <2>2 DEF PathInv, PathOK, Follows
  <2>4. ~Asked(u) BY DEF Asked
  <2>5. ctx[g][r].st \in Reached BY <2>1, <2>3, <2>4 DEF Reached, AwaitsLatest
  <2>6. Fed(u, g, r) BY <2>1, <2>3, <2>4, <2>5 DEF ReachedFed
  <2> QED BY <2>6 DEF Fed
<1> QED BY <1>1, OwnInvHolds, PathInvHolds, PTL
=============================================================================
