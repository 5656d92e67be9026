--------------------------- MODULE GnbRrc_proofs ---------------------------
(***************************************************************************)
(* What the gNBs and the core network keep invariant (GInv).               *)
(*                                                                         *)
(* First the messages of one handover between two gNBs.  A context that    *)
(* prepares a handover asks at one target, once; the target answers with   *)
(* an acknowledgement or a failure, or a context there awaits the UE; and  *)
(* the answer comes in the order in which it was given.  So the            *)
(* acknowledgement of a handover finds the context in the preparation, or  *)
(* gone.                                                                   *)
(*                                                                         *)
(* Then the contexts: a timeout is armed only in its state, a context that *)
(* is past the connection request belongs to a UE, one that was set up has *)
(* bearers, and the messages carry what their receivers assert.            *)
(*                                                                         *)
(* Then one lemma per handler of the gNB, of the X2 messages and of its    *)
(* timeouts, whoever calls it.                                             *)
(***************************************************************************)
EXTENDS GnbRrc, TLAPS

LOCAL INSTANCE SequenceTheorems


\* States of a context before its UE is connected.
Connecting == {"INITIAL_RANDOM_ACCESS", "CONNECTION_SETUP", "CONNECTION_REJECTED", "ATTACH_REQUEST"}
\* States of a connected UE with no handover of its own under way.
Engaged == {"CONNECTED_NORMALLY", "CONNECTION_RECONFIGURATION", "HANDOVER_JOINING",
            "HANDOVER_PATH_SWITCH"}
\* A context for which no handover was asked since it was made.
Free(c) == c.st \in Engaged \/ (c.st \in Connecting /\ c.session = 0)
\* A context whose handover was acknowledged: it is left, or its UE asks for a
\* connection in it again.
Done(c) == c.st = "HANDOVER_LEAVING" \/ (c.st \in Connecting /\ c.session # 0)

\* The queue has at i a message of the type for the context r of the source.
Has(q, type, r, i) == i \in 1 .. Len(q) /\ q[i].type = type /\ q[i].old = r
Holds(q, type, r) == \E i \in Nat : Has(q, type, r, i)
Once(q, type, r) == \A i, j \in Nat : Has(q, type, r, i) /\ Has(q, type, r, j) => i = j

\* For the context r of the source g: asked at h, acknowledged by h, refused by h,
\* and awaited at h in the context s.
Asks(x, g, h, r) == Holds(x[g][h], "HandoverRequest", r)
Acks(x, g, h, r) == Holds(x[h][g], "HandoverRequestAck", r)
Fails(x, g, h, r) == Holds(x[h][g], "HandoverPreparationFailure", r)
Joining(cx, g, h, r, s) ==
    cx[h][s].st = "HANDOVER_JOINING" /\ cx[h][s].source = g /\ cx[h][s].sourceId = r
Joins(cx, g, h, r) == \E s \in Rnti : Joining(cx, g, h, r, s)

\* Nothing speaks of a handover of the context from g to h.
Silent(cx, x, g, h, r) ==
    ~Asks(x, g, h, r) /\ ~Acks(x, g, h, r) /\ ~Fails(x, g, h, r) /\ ~Joins(cx, g, h, r)

\* One request, then one acknowledgement, and a failure last.
Orderly(cx, x, g, h, r) ==
    /\ Once(x[g][h], "HandoverRequest", r)
    /\ Once(x[h][g], "HandoverRequestAck", r)
    /\ Once(x[h][g], "HandoverPreparationFailure", r)
    /\ \A s, t \in Rnti : Joining(cx, g, h, r, s) /\ Joining(cx, g, h, r, t) => s = t
    /\ Asks(x, g, h, r) => ~Acks(x, g, h, r) /\ ~Fails(x, g, h, r) /\ ~Joins(cx, g, h, r)
    /\ Fails(x, g, h, r) => ~Joins(cx, g, h, r)
    /\ \A i, j \in Nat : /\ Has(x[h][g], "HandoverRequestAck", r, i)
                         /\ Has(x[h][g], "HandoverPreparationFailure", r, j)
                         => i < j

\* What may be said of a handover of the context c, which is context r of g, to h.
Talk(c, cx, x, g, h, r) ==
    /\ Free(c) => Silent(cx, x, g, h, r)
    /\ Done(c) => ~Asks(x, g, h, r) /\ ~Acks(x, g, h, r)
    /\ c.st = "HANDOVER_PREPARATION" /\ c.target # h => Silent(cx, x, g, h, r)
    /\ c.st = "HANDOVER_PREPARATION" => Orderly(cx, x, g, h, r)

\* RNTIs not allocated yet are not spoken of.
X2Inv(cx, last, x) ==
    \A g, h \in Gnb, r \in 0 .. MaxRnti :
       /\ ~Silent(cx, x, g, h, r) => r \in 1 .. last[g]
       /\ r \in Rnti => Talk(cx[g][r], cx, x, g, h, r)

\* Types of the channels and of the contexts.
Channels == [Gnb -> [Gnb -> Seq(X2Message)]]
Contexts == [Gnb -> [Rnti -> Context]]

\* A message at the end of a queue.
LEMMA HasAppend ==
  ASSUME NEW q \in Seq(X2Message), NEW m \in X2Message, NEW type, NEW r, NEW i \in Nat
  PROVE  Has(Append(q, m), type, r, i)
         <=> Has(q, type, r, i) \/ (i = Len(q) + 1 /\ m.type = type /\ m.old = r)
<1>1. Len(Append(q, m)) = Len(q) + 1 /\ Len(q) \in Nat OBVIOUS
<1>2. \A k \in 1 .. Len(q) : Append(q, m)[k] = q[k] OBVIOUS
<1>3. Append(q, m)[Len(q) + 1] = m OBVIOUS
<1> QED BY <1>1, <1>2, <1>3 DEF Has

\* A queue without its first message.
LEMMA HasTail ==
  ASSUME NEW q \in Seq(X2Message), q # <<>>, NEW type, NEW r, NEW i \in Nat
  PROVE  /\ Has(Tail(q), type, r, i) <=> i > 0 /\ Has(q, type, r, i + 1)
         /\ Has(q, type, r, 1) <=> Head(q).type = type /\ Head(q).old = r
<1>1. Len(Tail(q)) = Len(q) - 1 /\ Len(q) \in Nat \ {0} OBVIOUS
<1>2. \A k \in 1 .. Len(q) - 1 : Tail(q)[k] = q[k + 1] OBVIOUS
<1>3. Head(q) = q[1] OBVIOUS
<1> QED BY <1>1, <1>2, <1>3 DEF Has

\* Sending a message of another type, or the first of its kind, leaves one of it.
LEMMA Append1 ==
  ASSUME NEW q \in Seq(X2Message), NEW m \in X2Message, NEW type, NEW r
  PROVE  /\ Holds(Append(q, m), type, r) <=> Holds(q, type, r) \/ (m.type = type /\ m.old = r)
         /\ Once(q, type, r) /\ ~(m.type = type /\ m.old = r /\ Holds(q, type, r))
            => Once(Append(q, m), type, r)
<1>1. Len(q) + 1 \in Nat OBVIOUS
<1>2. \A i \in Nat : Has(Append(q, m), type, r, i)
                     <=> Has(q, type, r, i) \/ (i = Len(q) + 1 /\ m.type = type /\ m.old = r)
  BY HasAppend
<1>3. Holds(Append(q, m), type, r) <=> Holds(q, type, r) \/ (m.type = type /\ m.old = r)
  BY <1>1, <1>2 DEF Holds
<1>4. ASSUME Once(q, type, r), ~(m.type = type /\ m.old = r /\ Holds(q, type, r))
      PROVE  Once(Append(q, m), type, r)
  BY <1>2, <1>4 DEF Holds, Once
<1> QED BY <1>3, <1>4

\* After the only message of its kind is taken there is none.
LEMMA Tail1 ==
  ASSUME NEW q \in Seq(X2Message), q # <<>>, NEW type, NEW r
  PROVE  /\ Holds(Tail(q), type, r) => Holds(q, type, r)
         /\ Once(q, type, r) => Once(Tail(q), type, r)
         /\ Once(q, type, r) /\ Head(q).type = type /\ Head(q).old = r
            => ~Holds(Tail(q), type, r)
<1>1. \A i \in Nat : /\ Has(Tail(q), type, r, i) <=> i > 0 /\ Has(q, type, r, i + 1)
                     /\ Has(q, type, r, 1) <=> Head(q).type = type /\ Head(q).old = r
  BY HasTail
<1>2. \A i \in Nat : i + 1 \in Nat OBVIOUS
<1>3. Holds(Tail(q), type, r) => Holds(q, type, r)
  BY <1>1, <1>2 DEF Holds
<1>4. Once(q, type, r) => Once(Tail(q), type, r)
  <2> SUFFICES ASSUME Once(q, type, r), NEW i \in Nat, NEW j \in Nat,
                      Has(Tail(q), type, r, i), Has(Tail(q), type, r, j)
               PROVE  i = j
    BY DEF Once
  <2>1. Has(q, type, r, i + 1) /\ Has(q, type, r, j + 1) BY <1>1
  <2>2. i + 1 = j + 1 BY <2>1, <1>2 DEF Once
  <2> QED BY <2>2
<1>5. ASSUME Once(q, type, r), Head(q).type = type, Head(q).old = r
      PROVE  ~Holds(Tail(q), type, r)
  <2> SUFFICES ASSUME NEW i \in Nat, Has(Tail(q), type, r, i) PROVE FALSE BY DEF Holds
  <2>1. i > 0 /\ Has(q, type, r, i + 1) /\ Has(q, type, r, 1) BY <1>1, <1>5
  <2>2. i + 1 = 1 BY <2>1, <1>2, <1>5 DEF Once
  <2> QED BY <2>1, <2>2
<1> QED BY <1>3, <1>4, <1>5

\* A message may be sent when it fits what is said of the handover it belongs to.
LEMMA Appended ==
  ASSUME NEW cx \in Contexts, NEW last \in [Gnb -> 0 .. MaxRnti], NEW x \in Channels,
         X2Inv(cx, last, x), NEW a \in Gnb, NEW b \in Gnb, a # b, NEW m \in X2Message,
         m.type = "HandoverRequest" =>
            /\ m.old \in 1 .. last[a]
            /\ cx[a][m.old].st = "HANDOVER_PREPARATION" /\ cx[a][m.old].target = b
            /\ Silent(cx, x, a, b, m.old),
         m.type = "HandoverRequestAck" =>
            /\ m.old \in 1 .. last[b]
            /\ ~Free(cx[b][m.old]) /\ ~Done(cx[b][m.old])
            /\ cx[b][m.old].st = "HANDOVER_PREPARATION" =>
                  /\ cx[b][m.old].target = a
                  /\ ~Asks(x, b, a, m.old) /\ ~Acks(x, b, a, m.old) /\ ~Fails(x, b, a, m.old),
         m.type = "HandoverPreparationFailure" =>
            /\ m.old \in 1 .. last[b]
            /\ ~Free(cx[b][m.old])
            /\ cx[b][m.old].st = "HANDOVER_PREPARATION" =>
                  /\ cx[b][m.old].target = a
                  /\ ~Asks(x, b, a, m.old) /\ ~Fails(x, b, a, m.old) /\ ~Joins(cx, b, a, m.old)
  PROVE  X2Inv(cx, last, [x EXCEPT ![a][b] = Append(@, m)])
<1> DEFINE y == [x EXCEPT ![a][b] = Append(@, m)]
<1>1. y[a][b] = Append(x[a][b], m) /\ x[a][b] \in Seq(X2Message)
  BY DEF Channels
<1>2. \A g, h \in Gnb : <<g, h>> # <<a, b>> => y[g][h] = x[g][h]
  BY DEF Channels
<1>0. last[a] \in 0 .. MaxRnti /\ last[b] \in 0 .. MaxRnti /\ MaxRnti \in Nat
  BY RanAssumption
<1> HIDE DEF y
<1> SUFFICES ASSUME NEW g \in Gnb, NEW h \in Gnb, NEW r \in 0 .. MaxRnti
             PROVE  /\ ~Silent(cx, y, g, h, r) => r \in 1 .. last[g]
                    /\ r \in Rnti => Talk(cx[g][r], cx, y, g, h, r)
  BY DEF X2Inv, y
<1>3. /\ ~Silent(cx, x, g, h, r) => r \in 1 .. last[g]
      /\ r \in Rnti => Talk(cx[g][r], cx, x, g, h, r)
  BY DEF X2Inv
<1>4. CASE g = a /\ h = b
  <2>1. y[h][g] = x[h][g] /\ y[g][h] = Append(x[g][h], m) BY <1>1, <1>2, <1>4
  <2>2. CASE m.type = "HandoverRequest" /\ m.old = r
    <3>1. /\ Asks(y, g, h, r) /\ (Acks(y, g, h, r) <=> Acks(x, g, h, r))
          /\ (Fails(y, g, h, r) <=> Fails(x, g, h, r))
          /\ ~Asks(x, g, h, r) => Once(y[g][h], "HandoverRequest", r)
      <4>1. ~Asks(x, g, h, r) => Once(x[g][h], "HandoverRequest", r) BY DEF Asks, Holds, Once
      <4> QED BY <2>1, <2>2, <4>1, <1>1, <1>4, Append1 DEF Asks, Acks, Fails
    <3>2. Silent(cx, x, g, h, r) /\ cx[g][r].st = "HANDOVER_PREPARATION" /\ cx[g][r].target = h
      BY <2>2, <1>4
    <3>3. ~Free(cx[g][r]) /\ ~Done(cx[g][r]) BY <3>2 DEF Free, Done, Engaged, Connecting
    <3>4. Orderly(cx, y, g, h, r)
      BY <3>1, <3>2, <2>1 DEF Orderly, Silent, Acks, Fails, Holds, Once, Joins
    <3> QED BY <3>1, <3>2, <3>3, <3>4, <2>2, <1>4, <1>3 DEF Talk
  <2>3. CASE ~(m.type = "HandoverRequest" /\ m.old = r)
    <3>1. /\ Asks(y, g, h, r) <=> Asks(x, g, h, r)
          /\ Acks(y, g, h, r) <=> Acks(x, g, h, r)
          /\ Fails(y, g, h, r) <=> Fails(x, g, h, r)
          /\ Once(x[g][h], "HandoverRequest", r) => Once(y[g][h], "HandoverRequest", r)
      BY <2>1, <2>3, <1>1, <1>4, Append1 DEF Asks, Acks, Fails
    <3>2. Silent(cx, y, g, h, r) <=> Silent(cx, x, g, h, r) BY <3>1 DEF Silent
    <3>3. Orderly(cx, x, g, h, r) => Orderly(cx, y, g, h, r) BY <3>1, <2>1 DEF Orderly
    <3> QED BY <3>1, <3>2, <3>3, <1>3 DEF Talk
  <2> QED BY <2>2, <2>3
<1>5. CASE h = a /\ g = b
  <2>1. y[g][h] = x[g][h] /\ y[h][g] = Append(x[h][g], m) BY <1>1, <1>2, <1>5
  <2>0. Asks(y, g, h, r) <=> Asks(x, g, h, r) BY <2>1 DEF Asks
  <2>2. CASE m.type = "HandoverRequestAck" /\ m.old = r
    <3>1. /\ Acks(y, g, h, r) /\ (Fails(y, g, h, r) <=> Fails(x, g, h, r))
          /\ ~Acks(x, g, h, r) => Once(y[h][g], "HandoverRequestAck", r)
          /\ Once(x[h][g], "HandoverPreparationFailure", r)
             => Once(y[h][g], "HandoverPreparationFailure", r)
      <4>1. ~Acks(x, g, h, r) => Once(x[h][g], "HandoverRequestAck", r) BY DEF Acks, Holds, Once
      <4> QED BY <2>1, <2>2, <4>1, <1>1, <1>5, Append1 DEF Acks, Fails
    <3>2. /\ ~Free(cx[g][r]) /\ ~Done(cx[g][r]) /\ r \in 1 .. last[g]
          /\ cx[g][r].st = "HANDOVER_PREPARATION" =>
                cx[g][r].target = h /\ ~Asks(x, g, h, r) /\ ~Acks(x, g, h, r) /\ ~Fails(x, g, h, r)
      BY <2>2, <1>5
    <3>4. cx[g][r].st = "HANDOVER_PREPARATION" /\ Orderly(cx, x, g, h, r) => Orderly(cx, y, g, h, r)
      BY <3>1, <3>2, <2>0, <2>1 DEF Orderly, Fails, Holds
    <3> QED BY <3>1, <3>2, <3>4, <1>3 DEF Talk
  <2>3. CASE m.type = "HandoverPreparationFailure" /\ m.old = r
    <3>1. /\ Fails(y, g, h, r) /\ (Acks(y, g, h, r) <=> Acks(x, g, h, r))
          /\ ~Fails(x, g, h, r) => Once(y[h][g], "HandoverPreparationFailure", r)
          /\ Once(x[h][g], "HandoverRequestAck", r) => Once(y[h][g], "HandoverRequestAck", r)
      <4>1. ~Fails(x, g, h, r) => Once(x[h][g], "HandoverPreparationFailure", r)
        BY DEF Fails, Holds, Once
      <4> QED BY <2>1, <2>3, <4>1, <1>1, <1>5, Append1 DEF Acks, Fails
    <3>2. /\ ~Free(cx[g][r]) /\ r \in 1 .. last[g]
          /\ cx[g][r].st = "HANDOVER_PREPARATION" =>
                cx[g][r].target = h /\ ~Asks(x, g, h, r) /\ ~Fails(x, g, h, r) /\ ~Joins(cx, g, h, r)
      BY <2>3, <1>5
    <3>3. ~Fails(x, g, h, r) =>
             \A i, j \in Nat : Has(y[h][g], "HandoverRequestAck", r, i)
                               /\ Has(y[h][g], "HandoverPreparationFailure", r, j) => i < j
      <4> SUFFICES ASSUME ~Fails(x, g, h, r), NEW i \in Nat, NEW j \in Nat,
                          Has(y[h][g], "HandoverRequestAck", r, i),
                          Has(y[h][g], "HandoverPreparationFailure", r, j)
                   PROVE  i < j
        OBVIOUS
      <4>1. Has(x[h][g], "HandoverRequestAck", r, i) BY <2>1, <2>3, <1>1, <1>5, HasAppend
      <4>2. j = Len(x[h][g]) + 1
        BY <2>1, <2>3, <1>1, <1>5, HasAppend DEF Fails, Holds
      <4>3. i <= Len(x[h][g]) /\ Len(x[h][g]) \in Nat BY <4>1, <1>1, <1>5 DEF Has
      <4> QED BY <4>2, <4>3
    <3>4. cx[g][r].st = "HANDOVER_PREPARATION" /\ Orderly(cx, x, g, h, r) => Orderly(cx, y, g, h, r)
      BY <3>1, <3>2, <3>3, <2>0, <2>1 DEF Orderly
    <3>5. Talk(cx[g][r], cx, x, g, h, r) => Talk(cx[g][r], cx, y, g, h, r)
      BY <3>1, <3>2, <3>4, <2>0 DEF Talk
    <3> QED BY <3>2, <3>5, <1>3
  <2>4. CASE ~(m.type \in {"HandoverRequestAck", "HandoverPreparationFailure"} /\ m.old = r)
    <3>1. /\ Acks(y, g, h, r) <=> Acks(x, g, h, r)
          /\ Fails(y, g, h, r) <=> Fails(x, g, h, r)
          /\ Once(x[h][g], "HandoverRequestAck", r) => Once(y[h][g], "HandoverRequestAck", r)
          /\ Once(x[h][g], "HandoverPreparationFailure", r)
             => Once(y[h][g], "HandoverPreparationFailure", r)
      BY <2>1, <2>4, <1>1, <1>5, Append1 DEF Acks, Fails
    <3>2. Silent(cx, y, g, h, r) <=> Silent(cx, x, g, h, r) BY <3>1, <2>0 DEF Silent
    <3>3. \A i \in Nat : /\ Has(y[h][g], "HandoverRequestAck", r, i)
                            => Has(x[h][g], "HandoverRequestAck", r, i)
                         /\ Has(y[h][g], "HandoverPreparationFailure", r, i)
                            => Has(x[h][g], "HandoverPreparationFailure", r, i)
      BY <2>1, <2>4, <1>1, <1>5, HasAppend
    <3>4. Orderly(cx, x, g, h, r) => Orderly(cx, y, g, h, r)
      BY <3>1, <3>3, <2>0, <2>1 DEF Orderly
    <3> QED BY <3>1, <3>2, <3>4, <2>0, <1>3 DEF Talk
  <2> QED BY <2>2, <2>3, <2>4
<1>6. CASE <<g, h>> # <<a, b>> /\ <<h, g>> # <<a, b>>
  <2>1. y[g][h] = x[g][h] /\ y[h][g] = x[h][g] BY <1>2, <1>6
  <2> QED BY <2>1, <1>3 DEF Talk, Silent, Orderly, Asks, Acks, Fails
<1> QED BY <1>4, <1>5, <1>6

\* Taking a message keeps the order.
LEMMA TakenKeeps ==
  ASSUME NEW cx \in Contexts, NEW last \in [Gnb -> 0 .. MaxRnti], NEW x \in Channels,
         X2Inv(cx, last, x), NEW a \in Gnb, NEW b \in Gnb, a # b, x[a][b] # <<>>
  PROVE  LET y == [x EXCEPT ![a][b] = Tail(@)] IN
         /\ X2Inv(cx, last, y)
         /\ \A g, h \in Gnb, r \in 0 .. MaxRnti :
               Silent(cx, x, g, h, r) => Silent(cx, y, g, h, r)
<1> DEFINE y == [x EXCEPT ![a][b] = Tail(@)]
<1>1. y[a][b] = Tail(x[a][b]) /\ x[a][b] \in Seq(X2Message)
  BY DEF Channels
<1>2. \A g, h \in Gnb : <<g, h>> # <<a, b>> => y[g][h] = x[g][h]
  BY DEF Channels
<1> HIDE DEF y
<1> SUFFICES ASSUME NEW g \in Gnb, NEW h \in Gnb, NEW r \in 0 .. MaxRnti
             PROVE  /\ ~Silent(cx, y, g, h, r) => r \in 1 .. last[g]
                    /\ r \in Rnti => Talk(cx[g][r], cx, y, g, h, r)
                    /\ Silent(cx, x, g, h, r) => Silent(cx, y, g, h, r)
  BY DEF X2Inv, y
<1>3. /\ ~Silent(cx, x, g, h, r) => r \in 1 .. last[g]
      /\ r \in Rnti => Talk(cx[g][r], cx, x, g, h, r)
  BY DEF X2Inv
<1>4. /\ Asks(y, g, h, r) => Asks(x, g, h, r)
      /\ Acks(y, g, h, r) => Acks(x, g, h, r)
      /\ Fails(y, g, h, r) => Fails(x, g, h, r)
  <2>1. CASE <<g, h>> = <<a, b>>
    BY <2>1, <1>1, <1>2, Tail1 DEF Asks, Acks, Fails
  <2>2. CASE <<h, g>> = <<a, b>>
    BY <2>2, <1>1, <1>2, Tail1 DEF Asks, Acks, Fails
  <2>3. CASE <<g, h>> # <<a, b>> /\ <<h, g>> # <<a, b>>
    BY <2>3, <1>2 DEF Asks, Acks, Fails
  <2> QED BY <2>1, <2>2, <2>3
<1>5. Silent(cx, x, g, h, r) => Silent(cx, y, g, h, r) BY <1>4 DEF Silent
<1>6. Orderly(cx, x, g, h, r) => Orderly(cx, y, g, h, r)
  <2>1. CASE <<g, h>> = <<a, b>>
    <3>1. y[h][g] = x[h][g] /\ y[g][h] = Tail(x[g][h]) BY <1>1, <1>2, <2>1
    <3>2. Once(x[g][h], "HandoverRequest", r) => Once(y[g][h], "HandoverRequest", r)
      BY <3>1, <2>1, <1>1, Tail1
    <3> QED BY <3>1, <3>2, <1>4 DEF Orderly
  <2>2. CASE <<h, g>> = <<a, b>>
    <3>1. y[g][h] = x[g][h] /\ y[h][g] = Tail(x[h][g]) BY <1>1, <1>2, <2>2
    <3>2. /\ Once(x[h][g], "HandoverRequestAck", r) => Once(y[h][g], "HandoverRequestAck", r)
          /\ Once(x[h][g], "HandoverPreparationFailure", r)
             => Once(y[h][g], "HandoverPreparationFailure", r)
      BY <3>1, <2>2, <1>1, Tail1
    <3>3. \A i \in Nat : /\ i + 1 \in Nat
                         /\ Has(y[h][g], "HandoverRequestAck", r, i)
                            => Has(x[h][g], "HandoverRequestAck", r, i + 1)
                         /\ Has(y[h][g], "HandoverPreparationFailure", r, i)
                            => Has(x[h][g], "HandoverPreparationFailure", r, i + 1)
      BY <3>1, <2>2, <1>1, HasTail
    <3>4. ASSUME Orderly(cx, x, g, h, r), NEW i \in Nat, NEW j \in Nat,
                 Has(y[h][g], "HandoverRequestAck", r, i),
                 Has(y[h][g], "HandoverPreparationFailure", r, j)
          PROVE  i < j
      <4>1. i + 1 < j + 1 BY <3>3, <3>4 DEF Orderly
      <4> QED BY <4>1
    <3> QED BY <3>1, <3>2, <3>4, <1>4 DEF Orderly
  <2>3. CASE <<g, h>> # <<a, b>> /\ <<h, g>> # <<a, b>>
    BY <2>3, <1>2, <1>4 DEF Orderly
  <2> QED BY <2>1, <2>2, <2>3
<1> QED BY <1>3, <1>4, <1>5, <1>6 DEF Talk

\* What the context of a handover was doing when an answer to it is taken.
LEMMA TakenTells ==
  ASSUME NEW cx \in Contexts, NEW last \in [Gnb -> 0 .. MaxRnti], NEW x \in Channels,
         X2Inv(cx, last, x), NEW a \in Gnb, NEW b \in Gnb, a # b, x[a][b] # <<>>
  PROVE  LET y == [x EXCEPT ![a][b] = Tail(@)]
             m == Head(x[a][b])
         IN  /\ m.type = "HandoverRequest" =>
                   /\ m.old \in 1 .. last[a]
                   /\ ~Free(cx[a][m.old]) /\ ~Done(cx[a][m.old])
                   /\ cx[a][m.old].st = "HANDOVER_PREPARATION" =>
                        cx[a][m.old].target = b /\ Silent(cx, y, a, b, m.old)
             /\ m.type = "HandoverRequestAck" =>
                   /\ m.old \in 1 .. last[b]
                   /\ ~Free(cx[b][m.old]) /\ ~Done(cx[b][m.old])
                   /\ cx[b][m.old].st = "HANDOVER_PREPARATION" =>
                         /\ cx[b][m.old].target = a
                         /\ \A h \in Gnb : ~Asks(y, b, h, m.old) /\ ~Acks(y, b, h, m.old)
             /\ m.type = "HandoverPreparationFailure" =>
                   /\ m.old \in 1 .. last[b]
                   /\ ~Free(cx[b][m.old])
                   /\ cx[b][m.old].st = "HANDOVER_PREPARATION" =>
                         /\ cx[b][m.old].target = a
                         /\ \A h \in Gnb : Silent(cx, y, b, h, m.old)
<1> DEFINE y == [x EXCEPT ![a][b] = Tail(@)]
           m == Head(x[a][b])
<1>1. y[a][b] = Tail(x[a][b]) /\ x[a][b] \in Seq(X2Message) /\ m \in X2Message
  BY DEF Channels
<1>2. \A g, h \in Gnb : <<g, h>> # <<a, b>> => y[g][h] = x[g][h]
  BY DEF Channels
<1>0. m.old \in 0 .. MaxRnti /\ (\A g \in Gnb : last[g] \in 0 .. MaxRnti) /\ MaxRnti \in Nat
  BY <1>1, RanAssumption DEF X2Message
<1>3. \A g, h \in Gnb : Silent(cx, x, g, h, m.old) => Silent(cx, y, g, h, m.old)
  BY <1>0, TakenKeeps
<1> HIDE DEF y
<1>4. Has(x[a][b], m.type, m.old, 1) /\ Holds(x[a][b], m.type, m.old)
  <2>1. Has(x[a][b], m.type, m.old, 1)
    <3>1. m = x[a][b][1] /\ 1 \in 1 .. Len(x[a][b]) BY <1>1
    <3> QED BY <3>1 DEF Has
  <2> QED BY <2>1 DEF Holds
<1>5. \A g, h \in Gnb :
         /\ ~Silent(cx, x, g, h, m.old) => m.old \in 1 .. last[g] /\ m.old \in Rnti
         /\ m.old \in Rnti => Talk(cx[g][m.old], cx, x, g, h, m.old)
  BY <1>0 DEF X2Inv, Rnti
<1>6. ASSUME m.type = "HandoverRequest"
      PROVE  /\ m.old \in 1 .. last[a]
             /\ ~Free(cx[a][m.old]) /\ ~Done(cx[a][m.old])
             /\ cx[a][m.old].st = "HANDOVER_PREPARATION" =>
                   cx[a][m.old].target = b /\ Silent(cx, y, a, b, m.old)
  <2>1. Asks(x, a, b, m.old) BY <1>4, <1>6 DEF Asks
  <2>2. m.old \in 1 .. last[a] /\ Talk(cx[a][m.old], cx, x, a, b, m.old)
    BY <2>1, <1>5 DEF Silent
  <2>3. ~Free(cx[a][m.old]) /\ ~Done(cx[a][m.old]) BY <2>1, <2>2 DEF Talk, Silent
  <2>4. ASSUME cx[a][m.old].st = "HANDOVER_PREPARATION"
        PROVE  cx[a][m.old].target = b /\ Silent(cx, y, a, b, m.old)
    <3>1. cx[a][m.old].target = b /\ Orderly(cx, x, a, b, m.old)
      BY <2>1, <2>2, <2>4 DEF Talk, Silent
    <3>2. ~Asks(y, a, b, m.old) BY <3>1, <1>1, <1>6, Tail1 DEF Orderly, Asks
    <3>3. y[b][a] = x[b][a] BY <1>2
    <3> QED BY <3>1, <3>2, <3>3, <2>1 DEF Orderly, Silent, Acks, Fails
  <2> QED BY <2>2, <2>3, <2>4
<1>7. ASSUME m.type = "HandoverRequestAck"
      PROVE  /\ m.old \in 1 .. last[b]
             /\ ~Free(cx[b][m.old]) /\ ~Done(cx[b][m.old])
             /\ cx[b][m.old].st = "HANDOVER_PREPARATION" =>
                   /\ cx[b][m.old].target = a
                   /\ \A h \in Gnb : ~Asks(y, b, h, m.old) /\ ~Acks(y, b, h, m.old)
  <2>1. Acks(x, b, a, m.old) BY <1>4, <1>7 DEF Acks
  <2>2. m.old \in 1 .. last[b] /\ Talk(cx[b][m.old], cx, x, b, a, m.old)
    BY <2>1, <1>5 DEF Silent
  <2>3. ~Free(cx[b][m.old]) /\ ~Done(cx[b][m.old]) BY <2>1, <2>2 DEF Talk, Silent
  <2>4. ASSUME cx[b][m.old].st = "HANDOVER_PREPARATION", NEW h \in Gnb
        PROVE  cx[b][m.old].target = a /\ ~Asks(y, b, h, m.old) /\ ~Acks(y, b, h, m.old)
    <3>1. cx[b][m.old].target = a /\ Orderly(cx, x, b, a, m.old)
      BY <2>1, <2>2, <2>4 DEF Talk, Silent
    <3>2. CASE h = a
      <4>1. y[b][a] = x[b][a] BY <1>2
      <4>2. ~Acks(y, b, a, m.old) BY <3>1, <1>1, <1>7, Tail1 DEF Orderly, Acks
      <4> QED BY <3>1, <3>2, <4>1, <4>2, <2>1 DEF Orderly, Asks
    <3>3. CASE h # a
      <4>1. Silent(cx, x, b, h, m.old)
        BY <3>3, <3>1, <2>2, <2>4, <1>5 DEF Talk, Silent
      <4> QED BY <4>1, <3>1, <1>3 DEF Silent
    <3> QED BY <3>2, <3>3
  <2> QED BY <2>2, <2>3, <2>4
<1>8. ASSUME m.type = "HandoverPreparationFailure"
      PROVE  /\ m.old \in 1 .. last[b]
             /\ ~Free(cx[b][m.old])
             /\ cx[b][m.old].st = "HANDOVER_PREPARATION" =>
                   /\ cx[b][m.old].target = a
                   /\ \A h \in Gnb : Silent(cx, y, b, h, m.old)
  <2>1. Fails(x, b, a, m.old) BY <1>4, <1>8 DEF Fails
  <2>2. m.old \in 1 .. last[b] /\ m.old \in Rnti /\ Talk(cx[b][m.old], cx, x, b, a, m.old)
    BY <2>1, <1>5 DEF Silent
  <2>3. ~Free(cx[b][m.old]) BY <2>1, <2>2 DEF Talk, Silent
  <2>4. ASSUME cx[b][m.old].st = "HANDOVER_PREPARATION", NEW h \in Gnb
        PROVE  cx[b][m.old].target = a /\ Silent(cx, y, b, h, m.old)
    <3>1. cx[b][m.old].target = a /\ Orderly(cx, x, b, a, m.old)
      BY <2>1, <2>2, <2>4 DEF Talk, Silent
    <3>2. CASE h = a
      <4>1. y[b][a] = x[b][a] BY <1>2
      <4>2. ~Fails(y, b, a, m.old) BY <3>1, <1>1, <1>8, Tail1 DEF Orderly, Fails
      <4>3. ~Acks(y, b, a, m.old)
        <5>1. SUFFICES ASSUME Holds(x[a][b], "HandoverRequestAck", m.old) PROVE FALSE
          BY <1>1, Tail1 DEF Acks
        <5>2. PICK i \in Nat : Has(x[a][b], "HandoverRequestAck", m.old, i) BY <5>1 DEF Holds
        <5>3. i < 1 BY <5>2, <3>1, <1>4, <1>8 DEF Orderly
        <5>4. i >= 1 BY <5>2 DEF Has
        <5> QED BY <5>3, <5>4
      <4> QED BY <3>1, <3>2, <4>1, <4>2, <4>3, <2>1 DEF Orderly, Silent, Asks
    <3>3. CASE h # a
      <4>1. Silent(cx, x, b, h, m.old)
        BY <3>3, <3>1, <2>2, <2>4, <1>5 DEF Talk
      <4> QED BY <4>1, <3>1, <1>3
    <3> QED BY <3>1, <3>2, <3>3
  <2> QED BY <2>2, <2>3, <2>4
<1> QED BY <1>6, <1>7, <1>8 DEF y

\* A context may change when what is said of it still fits, unless it becomes one
\* that awaits a UE.
LEMMA ContextChanged ==
  ASSUME NEW cx \in Contexts, NEW last \in [Gnb -> 0 .. MaxRnti], NEW x \in Channels,
         X2Inv(cx, last, x), NEW a \in Gnb, NEW s \in Rnti, NEW c \in Context,
         NEW cx2 \in Contexts, cx2 = [cx EXCEPT ![a][s] = c],
         NEW last2 \in [Gnb -> 0 .. MaxRnti], \A g \in Gnb : last2[g] >= last[g],
         \A h \in Gnb : Talk(c, cx, x, a, h, s),
         c.st = "HANDOVER_JOINING" =>
            /\ cx[a][s].st = "HANDOVER_JOINING"
            /\ cx[a][s].source = c.source /\ cx[a][s].sourceId = c.sourceId
  PROVE  X2Inv(cx2, last2, x)
<1>0. cx2[a][s] = c /\ \A g \in Gnb, r \in Rnti : <<g, r>> # <<a, s>> => cx2[g][r] = cx[g][r]
  BY DEF Contexts
<1> SUFFICES ASSUME NEW g \in Gnb, NEW h \in Gnb, NEW r \in 0 .. MaxRnti
             PROVE  /\ ~Silent(cx2, x, g, h, r) => r \in 1 .. last2[g]
                    /\ r \in Rnti => Talk(cx2[g][r], cx2, x, g, h, r)
  BY DEF X2Inv
<1>1. /\ ~Silent(cx, x, g, h, r) => r \in 1 .. last[g]
      /\ r \in Rnti => Talk(cx[g][r], cx, x, g, h, r)
  BY DEF X2Inv
<1>2. \A t \in Rnti : Joining(cx2, g, h, r, t) => Joining(cx, g, h, r, t)
  BY <1>0 DEF Joining
<1>3. Silent(cx, x, g, h, r) => Silent(cx2, x, g, h, r) BY <1>2 DEF Silent, Joins
<1>4. Orderly(cx, x, g, h, r) => Orderly(cx2, x, g, h, r) BY <1>2 DEF Orderly, Joins
<1>5. last[g] \in Nat /\ last2[g] \in Nat /\ last[g] <= last2[g] BY RanAssumption
<1>6. ~Silent(cx2, x, g, h, r) => r \in 1 .. last2[g] BY <1>1, <1>3, <1>5
<1>7. ASSUME r \in Rnti PROVE Talk(cx2[g][r], cx2, x, g, h, r)
  <2>1. Talk(cx2[g][r], cx, x, g, h, r) BY <1>0, <1>1, <1>7
  <2> QED BY <2>1, <1>3, <1>4 DEF Talk
<1> QED BY <1>6, <1>7

\* A context may become one that awaits a UE when the source still expects an answer
\* of it.
LEMMA ContextJoins ==
  ASSUME NEW cx \in Contexts, NEW last \in [Gnb -> 0 .. MaxRnti], NEW x \in Channels,
         X2Inv(cx, last, x), NEW a \in Gnb, NEW s \in Rnti, NEW c \in Context,
         NEW cx2 \in Contexts, cx2 = [cx EXCEPT ![a][s] = c],
         NEW last2 \in [Gnb -> 0 .. MaxRnti], \A g \in Gnb : last2[g] >= last[g],
         \A h \in Gnb : Talk(c, cx, x, a, h, s),
         c.st = "HANDOVER_JOINING", c.source \in Gnb, c.source # a,
         c.sourceId \in 1 .. last[c.source],
         LET d == cx[c.source][c.sourceId] IN
            /\ ~Free(d)
            /\ d.st = "HANDOVER_PREPARATION" =>
                  /\ d.target = a
                  /\ ~Asks(x, c.source, a, c.sourceId) /\ ~Fails(x, c.source, a, c.sourceId)
                  /\ ~Joins(cx, c.source, a, c.sourceId)
  PROVE  X2Inv(cx2, last2, x)
<1>0. cx2[a][s] = c /\ \A g \in Gnb, r \in Rnti : <<g, r>> # <<a, s>> => cx2[g][r] = cx[g][r]
  BY DEF Contexts
<1> SUFFICES ASSUME NEW g \in Gnb, NEW h \in Gnb, NEW r \in 0 .. MaxRnti
             PROVE  /\ ~Silent(cx2, x, g, h, r) => r \in 1 .. last2[g]
                    /\ r \in Rnti => Talk(cx2[g][r], cx2, x, g, h, r)
  BY DEF X2Inv
<1>1. /\ ~Silent(cx, x, g, h, r) => r \in 1 .. last[g]
      /\ r \in Rnti => Talk(cx[g][r], cx, x, g, h, r)
  BY DEF X2Inv
<1>5. last[g] \in Nat /\ last2[g] \in Nat /\ last[g] <= last2[g] BY RanAssumption
<1>2. CASE <<g, h, r>> # <<c.source, a, c.sourceId>>
  <2>2. \A t \in Rnti : Joining(cx2, g, h, r, t) => Joining(cx, g, h, r, t)
    BY <1>0, <1>2 DEF Joining
  <2>3. Silent(cx, x, g, h, r) => Silent(cx2, x, g, h, r) BY <2>2 DEF Silent, Joins
  <2>4. Orderly(cx, x, g, h, r) => Orderly(cx2, x, g, h, r) BY <2>2 DEF Orderly, Joins
  <2>6. ~Silent(cx2, x, g, h, r) => r \in 1 .. last2[g] BY <1>1, <2>3, <1>5
  <2>7. ASSUME r \in Rnti PROVE Talk(cx2[g][r], cx2, x, g, h, r)
    <3>1. Talk(cx2[g][r], cx, x, g, h, r) BY <1>0, <1>1, <2>7
    <3> QED BY <3>1, <2>3, <2>4 DEF Talk
  <2> QED BY <2>6, <2>7
<1>3. CASE <<g, h, r>> = <<c.source, a, c.sourceId>>
  <2>1. r \in 1 .. last2[g] BY <1>3, <1>5
  <2>2. cx2[g][r] = cx[g][r] BY <1>0, <1>3
  <2>3. ASSUME r \in Rnti PROVE Talk(cx[g][r], cx2, x, g, h, r)
    <3>1. ~Free(cx[g][r]) BY <1>3
    <3>2. Done(cx[g][r]) => ~Asks(x, g, h, r) /\ ~Acks(x, g, h, r) BY <1>1, <2>3 DEF Talk
    <3>3. ASSUME cx[g][r].st = "HANDOVER_PREPARATION"
          PROVE  cx[g][r].target = h /\ Orderly(cx2, x, g, h, r)
      <4>1. /\ cx[g][r].target = h /\ ~Asks(x, g, h, r) /\ ~Fails(x, g, h, r)
            /\ ~Joins(cx, g, h, r)
        BY <1>3, <3>3
      <4>2. Orderly(cx, x, g, h, r) BY <1>1, <2>3, <3>3 DEF Talk
      <4>3. \A t \in Rnti : Joining(cx2, g, h, r, t) => t = s
        BY <4>1, <1>0, <1>3 DEF Joins, Joining
      <4> QED BY <4>1, <4>2, <4>3 DEF Orderly
    <3> QED BY <3>1, <3>2, <3>3 DEF Talk
  <2> QED BY <2>1, <2>2, <2>3
<1> QED BY <1>2, <1>3
-----------------------------------------------------------------------------
(* The contexts and the X2 messages together.                              *)

\* States in which a context belongs to a UE, and those in which it has bearers.
Named == {"CONNECTION_SETUP", "ATTACH_REQUEST", "CONNECTED_NORMALLY",
          "CONNECTION_RECONFIGURATION", "HANDOVER_PREPARATION", "HANDOVER_JOINING",
          "HANDOVER_PATH_SWITCH", "HANDOVER_LEAVING"}
Bearing == Named \ {"CONNECTION_SETUP", "ATTACH_REQUEST"}

\* What holds of a context of the gNB g in each of its states.
Good(g) ==
    {c \in Context :
        /\ \A t \in c.timers : c.st = TimerState[t]
        /\ c.st \in Named => c.imsi \in Ue
        /\ c.st \in Bearing => c.session # 0
        /\ c.source # g /\ c.target # g
        /\ c.st = "HANDOVER_JOINING" => c.source \in Gnb
        /\ c.st = "HANDOVER_PATH_SWITCH" => c.source \in Gnb
        /\ c.st = "HANDOVER_LEAVING" => c.target \in Gnb}

\* Contexts exist for allocated RNTIs only.
CtxInv(cx, last) ==
    \A g \in Gnb, r \in Rnti : cx[g][r] \in Good(g) /\ (cx[g][r].st # "NONE" => r <= last[g])

\* A context that, while it exists, has bearers.
Bears(cx, last, g, r) == r \in 1 .. last[g] /\ (cx[g][r].st # "NONE" => cx[g][r].session # 0)

\* What holds of a message from h to g.
MsgGood(cx, last, h, g, m) ==
    /\ m.type = "HandoverRequest" => m.imsi \in Ue /\ m.session # 0
    /\ m.type = "HandoverRequestAck" => m.session # 0 /\ Bears(cx, last, h, m.new)
    /\ m.type = "SnStatusTransfer" => Bears(cx, last, g, m.new)

\* No gNB has a channel to itself.
MsgInv(cx, last, x) ==
    /\ \A g, h \in Gnb : \A i \in 1 .. Len(x[h][g]) : MsgGood(cx, last, h, g, x[h][g][i])
    /\ \A g \in Gnb : x[g][g] = <<>>

\* The contexts cx, the RNTIs allocated so far and the channels x fit together.
RanInv(cx, last, x) ==
    /\ cx \in Contexts /\ last \in [Gnb -> 0 .. MaxRnti] /\ x \in Channels
    /\ CtxInv(cx, last) /\ MsgInv(cx, last, x) /\ X2Inv(cx, last, x)

\* Every context is good in its state.
LEMMA ContextIsGood ==
  ASSUME NEW cx, NEW last, NEW x, RanInv(cx, last, x), NEW g \in Gnb, NEW r \in Rnti
  PROVE  cx[g][r] \in Context /\ cx[g][r] \in Good(g)
BY DEF RanInv, CtxInv, Good

\* A message that fits its handover may be sent.
LEMMA MessageSent ==
  ASSUME NEW cx, NEW last, NEW x, RanInv(cx, last, x), NEW a \in Gnb, NEW b \in Gnb, a # b,
         NEW m \in X2Message, MsgGood(cx, last, a, b, m),
         m.type = "HandoverRequest" =>
            /\ m.old \in 1 .. last[a]
            /\ cx[a][m.old].st = "HANDOVER_PREPARATION" /\ cx[a][m.old].target = b
            /\ Silent(cx, x, a, b, m.old),
         m.type = "HandoverRequestAck" =>
            /\ m.old \in 1 .. last[b]
            /\ ~Free(cx[b][m.old]) /\ ~Done(cx[b][m.old])
            /\ cx[b][m.old].st = "HANDOVER_PREPARATION" =>
                  /\ cx[b][m.old].target = a
                  /\ ~Asks(x, b, a, m.old) /\ ~Acks(x, b, a, m.old) /\ ~Fails(x, b, a, m.old),
         m.type = "HandoverPreparationFailure" =>
            /\ m.old \in 1 .. last[b]
            /\ ~Free(cx[b][m.old])
            /\ cx[b][m.old].st = "HANDOVER_PREPARATION" =>
                  /\ cx[b][m.old].target = a
                  /\ ~Asks(x, b, a, m.old) /\ ~Fails(x, b, a, m.old) /\ ~Joins(cx, b, a, m.old)
  PROVE  RanInv(cx, last, [x EXCEPT ![a][b] = Append(@, m)])
<1> DEFINE y == [x EXCEPT ![a][b] = Append(@, m)]
<1>0. x \in Channels /\ cx \in Contexts /\ last \in [Gnb -> 0 .. MaxRnti] /\ X2Inv(cx, last, x)
      /\ CtxInv(cx, last) /\ MsgInv(cx, last, x)
  BY DEF RanInv
<1>1. /\ x[a][b] \in Seq(X2Message) /\ y[a][b] = Append(x[a][b], m) /\ y \in Channels
      /\ \A g, h \in Gnb : <<g, h>> # <<a, b>> => y[g][h] = x[g][h]
  BY <1>0 DEF Channels
<1>2. X2Inv(cx, last, y) BY <1>0, Appended
<1> HIDE DEF y
<1>3. MsgInv(cx, last, y)
  <2>1. \A g \in Gnb : y[g][g] = <<>> BY <1>1, <1>0 DEF MsgInv
  <2>2. ASSUME NEW g \in Gnb, NEW h \in Gnb, NEW i \in 1 .. Len(y[h][g])
        PROVE  MsgGood(cx, last, h, g, y[h][g][i])
    <3>1. CASE <<h, g>> = <<a, b>>
      <4>1. Len(y[a][b]) = Len(x[a][b]) + 1 /\ Len(x[a][b]) \in Nat BY <1>1
      <4>2. i \in 1 .. Len(x[a][b]) => y[a][b][i] = x[a][b][i] BY <1>1
      <4>3. y[a][b][Len(x[a][b]) + 1] = m BY <1>1
      <4> QED BY <3>1, <4>1, <4>2, <4>3, <1>0 DEF MsgInv
    <3>2. CASE <<h, g>> # <<a, b>> BY <3>2, <1>1, <1>0 DEF MsgInv
    <3> QED BY <3>1, <3>2
  <2> QED BY <2>1, <2>2 DEF MsgInv
<1> QED BY <1>0, <1>1, <1>2, <1>3 DEF RanInv, y

\* Taking a message keeps the invariant, and the message is good.
LEMMA MessageTaken ==
  ASSUME NEW cx, NEW last, NEW x, RanInv(cx, last, x), NEW a \in Gnb, NEW b \in Gnb,
         x[a][b] # <<>>
  PROVE  /\ a # b /\ Head(x[a][b]) \in X2Message
         /\ MsgGood(cx, last, a, b, Head(x[a][b]))
         /\ RanInv(cx, last, [x EXCEPT ![a][b] = Tail(@)])
<1> DEFINE y == [x EXCEPT ![a][b] = Tail(@)]
<1>0. x \in Channels /\ cx \in Contexts /\ last \in [Gnb -> 0 .. MaxRnti] /\ X2Inv(cx, last, x)
      /\ CtxInv(cx, last) /\ MsgInv(cx, last, x)
  BY DEF RanInv
<1>4. a # b BY <1>0 DEF MsgInv
<1>1. /\ x[a][b] \in Seq(X2Message) /\ y[a][b] = Tail(x[a][b]) /\ y \in Channels
      /\ \A g, h \in Gnb : <<g, h>> # <<a, b>> => y[g][h] = x[g][h]
  BY <1>0 DEF Channels
<1>2. X2Inv(cx, last, y) BY <1>0, <1>4, TakenKeeps
<1> HIDE DEF y
<1>3. MsgInv(cx, last, y)
  <2>1. \A g \in Gnb : y[g][g] = <<>> BY <1>1, <1>0, <1>4 DEF MsgInv
  <2>2. ASSUME NEW g \in Gnb, NEW h \in Gnb, NEW i \in 1 .. Len(y[h][g])
        PROVE  MsgGood(cx, last, h, g, y[h][g][i])
    <3>1. CASE <<h, g>> = <<a, b>>
      <4>1. Len(y[a][b]) = Len(x[a][b]) - 1 /\ Len(x[a][b]) \in Nat BY <1>1
      <4>3. \A k \in 1 .. Len(x[a][b]) - 1 : Tail(x[a][b])[k] = x[a][b][k + 1] BY <1>1
      <4>2. y[a][b][i] = x[a][b][i + 1] BY <1>1, <3>1, <4>1, <4>3
      <4> QED BY <3>1, <4>1, <4>2, <1>0 DEF MsgInv
    <3>2. CASE <<h, g>> # <<a, b>> BY <3>2, <1>1, <1>0 DEF MsgInv
    <3> QED BY <3>1, <3>2
  <2> QED BY <2>1, <2>2 DEF MsgInv
<1>5. Head(x[a][b]) \in X2Message BY <1>1
<1>6. MsgGood(cx, last, a, b, Head(x[a][b]))
  <2>1. Head(x[a][b]) = x[a][b][1] /\ 1 \in 1 .. Len(x[a][b]) BY <1>1
  <2> QED BY <2>1, <1>0 DEF MsgInv
<1> QED BY <1>0, <1>1, <1>2, <1>3, <1>4, <1>5, <1>6 DEF RanInv, y

\* What MsgInv says of the contexts survives when a context changes.
LEMMA MessagesStayGood ==
  ASSUME NEW cx \in Contexts, NEW last \in [Gnb -> 0 .. MaxRnti], NEW x \in Channels,
         MsgInv(cx, last, x), NEW a \in Gnb, NEW s \in Rnti, NEW c \in Context,
         NEW cx2 \in Contexts, cx2 = [cx EXCEPT ![a][s] = c],
         NEW last2 \in [Gnb -> 0 .. MaxRnti], \A g \in Gnb : last2[g] >= last[g],
         s <= last[a] /\ c.st # "NONE" => /\ cx[a][s].st # "NONE"
                                          /\ cx[a][s].session # 0 => c.session # 0
  PROVE  MsgInv(cx2, last2, x)
<1>0. cx2[a][s] = c /\ \A g \in Gnb, r \in Rnti : <<g, r>> # <<a, s>> => cx2[g][r] = cx[g][r]
  BY DEF Contexts
<1>1. ASSUME NEW g \in Gnb, NEW r, Bears(cx, last, g, r) PROVE Bears(cx2, last2, g, r)
  <2>1. MaxRnti \in Nat /\ last[g] \in 0 .. MaxRnti /\ last2[g] \in 0 .. MaxRnti
        /\ last2[g] >= last[g]
    BY RanAssumption
  <2>2. r \in Rnti /\ r \in 1 .. last2[g] /\ r <= last[g] BY <1>1, <2>1 DEF Bears, Rnti
  <2>3. CASE <<g, r>> = <<a, s>> BY <2>2, <2>3, <1>0, <1>1 DEF Bears
  <2>4. CASE <<g, r>> # <<a, s>> BY <2>2, <2>4, <1>0, <1>1 DEF Bears
  <2> QED BY <2>3, <2>4
<1> QED BY <1>1 DEF MsgInv, MsgGood

\* A context may be replaced by a good one that fits what is said of its handovers.
LEMMA ContextSet ==
  ASSUME NEW cx, NEW last, NEW x, RanInv(cx, last, x), NEW g \in Gnb, NEW r \in Rnti,
         NEW c \in Good(g), c.st # "NONE" => cx[g][r].st # "NONE",
         c.st # "NONE" /\ cx[g][r].session # 0 => c.session # 0,
         c.st = "HANDOVER_JOINING" =>
            /\ cx[g][r].st = "HANDOVER_JOINING"
            /\ cx[g][r].source = c.source /\ cx[g][r].sourceId = c.sourceId,
         \A h \in Gnb : Talk(c, cx, x, g, h, r)
  PROVE  RanInv([cx EXCEPT ![g][r] = c], last, x)
<1> DEFINE cx2 == [cx EXCEPT ![g][r] = c]
<1>0. x \in Channels /\ cx \in Contexts /\ last \in [Gnb -> 0 .. MaxRnti] /\ X2Inv(cx, last, x)
      /\ CtxInv(cx, last) /\ MsgInv(cx, last, x)
  BY DEF RanInv
<1>1. c \in Context BY DEF Good
<1>2. cx2 \in Contexts /\ cx2[g][r] = c
      /\ \A h \in Gnb, s \in Rnti : <<h, s>> # <<g, r>> => cx2[h][s] = cx[h][s]
  BY <1>0, <1>1 DEF Contexts
<1>3. \A h \in Gnb : last[h] >= last[h] BY <1>0, RanAssumption
<1> HIDE DEF cx2
<1>4. CtxInv(cx2, last) BY <1>0, <1>2 DEF CtxInv
<1>5. MsgInv(cx2, last, x) BY <1>0, <1>1, <1>2, <1>3, MessagesStayGood DEF cx2
<1>6. X2Inv(cx2, last, x) BY <1>0, <1>1, <1>2, <1>3, ContextChanged DEF cx2
<1> QED BY <1>0, <1>2, <1>4, <1>5, <1>6 DEF RanInv, cx2

\* The common case: nothing changes for the handovers that leave this context.
LEMMA ContextGoesOn ==
  ASSUME NEW cx, NEW last, NEW x, RanInv(cx, last, x), NEW g \in Gnb, NEW r \in Rnti,
         NEW c \in Good(g), c.st # "NONE" => cx[g][r].st # "NONE",
         c.st # "NONE" /\ cx[g][r].session # 0 => c.session # 0,
         c.st = "HANDOVER_JOINING" =>
            /\ cx[g][r].st = "HANDOVER_JOINING"
            /\ cx[g][r].source = c.source /\ cx[g][r].sourceId = c.sourceId,
         Free(c) => Free(cx[g][r]), Done(c) => Free(cx[g][r]) \/ Done(cx[g][r]),
         c.st = "HANDOVER_PREPARATION" =>
            cx[g][r].st = "HANDOVER_PREPARATION" /\ cx[g][r].target = c.target
  PROVE  RanInv([cx EXCEPT ![g][r] = c], last, x)
<1>1. \A h \in Gnb : Talk(cx[g][r], cx, x, g, h, r)
  BY DEF RanInv, X2Inv, Rnti
<1>2. \A h \in Gnb : Talk(c, cx, x, g, h, r)
  BY <1>1 DEF Talk, Silent
<1> QED BY <1>2, ContextSet

\* An unused RNTI is good.
LEMMA NoContextIsGood ==
  ASSUME NEW g \in Gnb
  PROVE  NoContext \in Good(g) /\ NoContext.st = "NONE"
BY NodesAssumption, RanAssumption, EpcAssumption
   DEF NoContext, NewContext, Good, Context, Timer, TimerState, Named, Bearing

\* A context may be removed at any time.
LEMMA ContextRemoved ==
  ASSUME NEW cx, NEW last, NEW x, RanInv(cx, last, x), NEW g \in Gnb, NEW r \in Rnti
  PROVE  RanInv([cx EXCEPT ![g][r] = NoContext], last, x)
BY NoContextIsGood, ContextGoesOn DEF Free, Done, Engaged, Connecting

\* A context that awaits a UE is removed, and the source is told.
LEMMA JoiningRemoved ==
  ASSUME NEW cx, NEW last, NEW x, RanInv(cx, last, x), NEW g \in Gnb, NEW r \in Rnti,
         cx[g][r].st = "HANDOVER_JOINING"
  PROVE  RanInv([cx EXCEPT ![g][r] = NoContext], last,
                [x EXCEPT ![g][cx[g][r].source] = Append(@,
                    Message("HandoverPreparationFailure", cx[g][r].sourceId, 0, None, 0))])
<1> DEFINE cx2 == [cx EXCEPT ![g][r] = NoContext]
           src == cx[g][r].source
           sid == cx[g][r].sourceId
           m == Message("HandoverPreparationFailure", sid, 0, None, 0)
<1>0. x \in Channels /\ cx \in Contexts /\ last \in [Gnb -> 0 .. MaxRnti] /\ X2Inv(cx, last, x)
  BY DEF RanInv
<1>1. RanInv(cx2, last, x) BY ContextRemoved
<1>2. src \in Gnb /\ src # g /\ sid \in 0 .. MaxRnti
  BY ContextIsGood DEF Good, Context
<1>3. Joins(cx, src, g, sid) BY DEF Joins, Joining
<1>4. /\ sid \in 1 .. last[src] /\ sid \in Rnti
      /\ Talk(cx[src][sid], cx, x, src, g, sid)
  BY <1>0, <1>2, <1>3, RanAssumption DEF X2Inv, Silent, Rnti
<1>5. cx2[src][sid] = cx[src][sid] BY <1>0, <1>2, <1>4 DEF Contexts
<1>6. ~Free(cx[src][sid]) BY <1>3, <1>4 DEF Talk, Silent
<1>7. ASSUME cx[src][sid].st = "HANDOVER_PREPARATION"
      PROVE  /\ cx[src][sid].target = g
             /\ ~Asks(x, src, g, sid) /\ ~Fails(x, src, g, sid) /\ ~Joins(cx2, src, g, sid)
  <2>1. cx[src][sid].target = g /\ Orderly(cx, x, src, g, sid)
    BY <1>7, <1>4, <1>3 DEF Talk, Silent
  <2>2. \A t \in Rnti : ~Joining(cx2, src, g, sid, t)
    <3>1. ASSUME NEW t \in Rnti, Joining(cx2, src, g, sid, t) PROVE FALSE
      <4>1. t # r BY <3>1, <1>0, NoContextIsGood DEF Joining, Contexts
      <4>2. Joining(cx, src, g, sid, t) BY <3>1, <4>1, <1>0 DEF Joining, Contexts
      <4>3. Joining(cx, src, g, sid, r) BY DEF Joining
      <4> QED BY <4>1, <4>2, <4>3, <2>1 DEF Orderly
    <3> QED BY <3>1
  <2> QED BY <2>1, <2>2, <1>3 DEF Orderly, Joins
<1>8. m \in X2Message /\ m.type = "HandoverPreparationFailure" /\ m.old = sid
  BY <1>2, RanAssumption, EpcAssumption DEF Message, X2Message
<1>9. MsgGood(cx2, last, g, src, m) BY <1>8 DEF MsgGood
<1> HIDE DEF cx2, m, src, sid
<1>10. RanInv(cx2, last, [x EXCEPT ![g][src] = Append(@, m)])
  BY <1>1, <1>2, <1>4, <1>5, <1>6, <1>7, <1>8, <1>9, MessageSent
<1> QED BY <1>10 DEF cx2, m, src, sid

\* The RNTI after the last one allocated is within the range and was not allocated
\* before.
LEMMA NewRntiIsFresh ==
  ASSUME NEW last \in [Gnb -> 0 .. MaxRnti], NEW g \in Gnb, last[g] < MaxRnti
  PROVE  /\ last[g] + 1 \in Rnti /\ last[g] + 1 \notin 1 .. last[g]
         /\ [last EXCEPT ![g] = last[g] + 1] \in [Gnb -> 0 .. MaxRnti]
         /\ \A h \in Gnb : [last EXCEPT ![g] = last[g] + 1][h] >= last[h]
         /\ [last EXCEPT ![g] = last[g] + 1][g] = last[g] + 1
BY RanAssumption DEF Rnti

\* Nothing speaks of an RNTI that was not allocated yet.
LEMMA RntiUnused ==
  ASSUME NEW cx, NEW last, NEW x, RanInv(cx, last, x), NEW g \in Gnb, last[g] < MaxRnti,
         NEW h \in Gnb
  PROVE  Silent(cx, x, g, h, last[g] + 1)
<1>1. last[g] + 1 \in Rnti /\ last[g] + 1 \notin 1 .. last[g] BY NewRntiIsFresh DEF RanInv
<1> QED BY <1>1, RanAssumption DEF RanInv, X2Inv, Rnti

\* A context may be made, also one that awaits a UE when its source expects an
\* answer.
LEMMA ContextAdded ==
  ASSUME NEW cx, NEW last, NEW x, RanInv(cx, last, x), NEW g \in Gnb, last[g] < MaxRnti,
         NEW c \in Good(g), c.st # "HANDOVER_PREPARATION",
         c.st = "HANDOVER_JOINING" =>
            /\ c.sourceId \in 1 .. last[c.source] /\ c.session # 0
            /\ ~Free(cx[c.source][c.sourceId])
            /\ cx[c.source][c.sourceId].st = "HANDOVER_PREPARATION" =>
                  /\ cx[c.source][c.sourceId].target = g
                  /\ ~Asks(x, c.source, g, c.sourceId) /\ ~Fails(x, c.source, g, c.sourceId)
                  /\ ~Joins(cx, c.source, g, c.sourceId)
  PROVE  RanInv([cx EXCEPT ![g][last[g] + 1] = c], [last EXCEPT ![g] = last[g] + 1], x)
<1> DEFINE r == last[g] + 1
           cx2 == [cx EXCEPT ![g][r] = c]
           last2 == [last EXCEPT ![g] = r]
<1>0. x \in Channels /\ cx \in Contexts /\ last \in [Gnb -> 0 .. MaxRnti] /\ X2Inv(cx, last, x)
      /\ CtxInv(cx, last) /\ MsgInv(cx, last, x)
  BY DEF RanInv
<1>1. /\ r \in Rnti /\ last2 \in [Gnb -> 0 .. MaxRnti]
      /\ \A h \in Gnb : last2[h] >= last[h] /\ last[h] \in Nat /\ last2[h] \in Nat
      /\ ~(r <= last[g]) /\ last2[g] = r
  BY <1>0, NewRntiIsFresh, RanAssumption DEF Rnti
<1>2. \A h \in Gnb : Silent(cx, x, g, h, r) BY RntiUnused
<1>3. c \in Context BY DEF Good
<1> HIDE DEF r
<1>4. cx2 \in Contexts /\ cx2[g][r] = c
      /\ \A h \in Gnb, s \in Rnti : <<h, s>> # <<g, r>> => cx2[h][s] = cx[h][s]
  BY <1>0, <1>1, <1>3 DEF Contexts
<1> HIDE DEF cx2, last2
<1>5. CtxInv(cx2, last2)
  <2> SUFFICES ASSUME NEW h \in Gnb, NEW s \in Rnti
               PROVE  cx2[h][s] \in Good(h) /\ (cx2[h][s].st # "NONE" => s <= last2[h])
    BY DEF CtxInv
  <2>1. CASE <<h, s>> = <<g, r>> BY <2>1, <1>1, <1>4, RanAssumption DEF Rnti
  <2>2. CASE <<h, s>> # <<g, r>>
    <3>1. cx[h][s] \in Good(h) /\ (cx[h][s].st # "NONE" => s <= last[h]) BY <1>0 DEF CtxInv
    <3> QED BY <2>2, <3>1, <1>1, <1>4, RanAssumption DEF Rnti
  <2> QED BY <2>1, <2>2
<1>6. MsgInv(cx2, last2, x) BY <1>0, <1>1, <1>3, <1>4, MessagesStayGood DEF cx2
<1>7. \A h \in Gnb : Talk(c, cx, x, g, h, r) BY <1>2 DEF Talk, Silent
<1>8. X2Inv(cx2, last2, x)
  <2>1. CASE c.st # "HANDOVER_JOINING"
    BY <2>1, <1>0, <1>1, <1>3, <1>4, <1>7, ContextChanged DEF cx2
  <2>2. CASE c.st = "HANDOVER_JOINING"
    <3>1. c.source \in Gnb /\ c.source # g BY <2>2 DEF Good
    <3> QED BY <2>2, <3>1, <1>0, <1>1, <1>3, <1>4, <1>7, ContextJoins DEF cx2
  <2> QED BY <2>1, <2>2
<1> QED BY <1>0, <1>1, <1>4, <1>5, <1>6, <1>8 DEF RanInv, cx2, last2, r

-----------------------------------------------------------------------------
\* The tables of the application have their types.
AppOK ==
    /\ imsiRnti \in [Gnb -> [Ue -> 0 .. MaxRnti]]
    /\ rntiSession \in [Gnb -> [Rnti -> 0 .. MaxSession]]
    /\ sessionRnti \in [Gnb -> [Session -> 0 .. MaxRnti]]

\* A session that was served has a TEID.
EpcOK ==
    /\ EpcTypeOK
    /\ \A i \in 1 .. Len(requests) :
          i <= served /\ requests[i].type = "Create" => requests[i].session # 0

\* The inductive invariant of the network side.
GInv == RanInv(ctx, lastRnti, x2) /\ AppOK /\ EpcOK

\* A step that changes nothing on the network side.
LEMMA GInvStutter ==
  ASSUME GInv, UNCHANGED <<gnbVars, x2, epcVars>>
  PROVE  GInv'
BY DEF GInv, AppOK, EpcOK, EpcTypeOK, gnbVars, appVars, epcVars

\* The invariant implies the types.
LEMMA GInvTypes ==
  ASSUME GInv
  PROVE  GnbTypeOK /\ EpcTypeOK
BY DEF GInv, AppOK, EpcOK, GnbTypeOK, RanInv, Contexts, Channels

-----------------------------------------------------------------------------
\* Asking the core network.
LEMMA AskKeeps ==
  ASSUME EpcOK, NEW type \in {"Create", "Modify"}, NEW u \in Ue, NEW g \in Gnb,
         NEW s \in 0 .. MaxSession, Ask(type, u, g, s)
  PROVE  EpcOK'
<1> DEFINE m == [type |-> type, ue |-> u, gnb |-> g, session |-> s]
<1>1. m \in Request BY DEF Request
<1> HIDE DEF m
<1>2. requests' = Append(requests, m) BY DEF Ask, m
<1>3. requests \in Seq(Request) /\ served \in 0 .. Len(requests) /\ served' = served
  BY DEF EpcOK, EpcTypeOK, Ask
<1>4. /\ requests' \in Seq(Request) /\ Len(requests') = Len(requests) + 1
      /\ Len(requests) \in Nat
      /\ \A i \in 1 .. Len(requests) : requests'[i] = requests[i]
  BY <1>1, <1>2, <1>3
<1>5. served' \in 0 .. Len(requests') BY <1>3, <1>4
<1>6. \A i \in 1 .. Len(requests') :
         i <= served' /\ requests'[i].type = "Create" => requests'[i].session # 0
  BY <1>3, <1>4 DEF EpcOK
<1>7. mmeCell' \in [Ue -> Gnb \cup {None}] BY DEF EpcOK, EpcTypeOK, Ask
<1> QED BY <1>4, <1>5, <1>6, <1>7 DEF EpcOK, EpcTypeOK, Ask

\* The gateway serves the next request.
LEMMA ServeKeeps ==
  ASSUME EpcOK, Serve
  PROVE  EpcOK'
<1> DEFINE k == served + 1
           req == requests[k]
<1>1. /\ requests \in Seq(Request) /\ served \in 0 .. Len(requests) /\ Len(requests) \in Nat
      /\ served < Len(requests) /\ served' = k /\ mmeCell' = mmeCell
  BY DEF EpcOK, EpcTypeOK, Serve
<1>2. k \in 1 .. Len(requests) /\ req \in Request BY <1>1
<1>3. CASE req.type = "Create"
  <2>1. /\ sessions' = sessions + 1 /\ sessions < MaxSession
        /\ requests' = [requests EXCEPT ![k].session = sessions + 1]
        /\ endpoint' = [endpoint EXCEPT ![sessions + 1] = req.gnb]
        /\ downlink' = [downlink EXCEPT ![req.ue] = sessions + 1]
    BY <1>3 DEF Serve
  <2>2. sessions' \in 1 .. MaxSession /\ sessions \in Nat
    BY <2>1, EpcAssumption DEF EpcOK, EpcTypeOK
  <2>3. requests' = [requests EXCEPT ![k] = [req EXCEPT !.session = sessions + 1]] BY <2>1
  <2>4. [req EXCEPT !.session = sessions + 1] \in Request BY <1>2, <2>1, <2>2 DEF Request
  <2>5. requests' \in Seq(Request) /\ Len(requests') = Len(requests)
    <3> DEFINE v == [req EXCEPT !.session = sessions + 1]
    <3>1. v \in Request /\ requests' = [requests EXCEPT ![k] = v] BY <2>3, <2>4
    <3> HIDE DEF v, k
    <3> QED BY <1>1, <1>2, <3>1, ExceptSeq
  <2>6. /\ \A i \in 1 .. Len(requests) : i # k => requests'[i] = requests[i]
        /\ requests'[k].session = sessions + 1
    BY <1>1, <1>2, <2>3 DEF Request
  <2>7. \A i \in 1 .. Len(requests') :
           i <= served' /\ requests'[i].type = "Create" => requests'[i].session # 0
    BY <1>1, <2>2, <2>5, <2>6 DEF EpcOK
  <2>8. endpoint' \in [Session -> Gnb \cup {None}] /\ downlink' \in [Ue -> 0 .. MaxSession]
    <3>1. req.gnb \in Gnb /\ req.ue \in Ue /\ sessions + 1 \in 0 .. MaxSession
      BY <1>2, <2>1, <2>2 DEF Request
    <3>2. endpoint' \in [Session -> Gnb \cup {None}] BY <2>1, <3>1 DEF EpcOK, EpcTypeOK
    <3>3. downlink' \in [Ue -> 0 .. MaxSession] BY <2>1, <3>1 DEF EpcOK, EpcTypeOK
    <3> QED BY <3>2, <3>3
  <2>9. served' \in 0 .. Len(requests') /\ sessions' \in 0 .. MaxSession
    BY <1>1, <1>2, <2>2, <2>5, EpcAssumption
  <2> QED BY <1>1, <2>5, <2>7, <2>8, <2>9 DEF EpcOK, EpcTypeOK
<1>4. CASE req.type # "Create"
  <2>1. /\ endpoint' = [endpoint EXCEPT ![req.session] = req.gnb] /\ req.type = "Modify"
        /\ UNCHANGED <<requests, sessions, downlink>>
    BY <1>4 DEF Serve
  <2>2. endpoint' \in [Session -> Gnb \cup {None}]
    BY <1>2, <2>1 DEF EpcOK, EpcTypeOK, Request
  <2>3. served' \in 0 .. Len(requests') BY <1>1, <1>2, <2>1
  <2>4. \A i \in 1 .. Len(requests') :
           i <= served' /\ requests'[i].type = "Create" => requests'[i].session # 0
    BY <1>1, <1>4, <2>1 DEF EpcOK
  <2> QED BY <1>1, <2>1, <2>2, <2>3, <2>4 DEF EpcOK, EpcTypeOK
<1> QED BY <1>3, <1>4

\* The MME answers the oldest request, which was served and has a TEID.
LEMMA AnswerKeeps ==
  ASSUME EpcOK, NEW req, NEW g, Answer(req, g)
  PROVE  /\ EpcOK' /\ req \in Request
         /\ req.type = "Create" => req.session # 0
<1>1. /\ requests \in Seq(Request) /\ served \in 0 .. Len(requests) /\ Len(requests) \in Nat
      /\ served > 0 /\ served' = served - 1 /\ requests' = Tail(requests)
      /\ req = Head(requests)
  BY DEF EpcOK, EpcTypeOK, Answer
<1>2. requests # <<>> /\ req = requests[1] /\ req \in Request BY <1>1
<1>3. /\ requests' \in Seq(Request) /\ Len(requests') = Len(requests) - 1
      /\ \A i \in 1 .. Len(requests) - 1 : requests'[i] = requests[i + 1]
  BY <1>1, <1>2
<1>4. served' \in 0 .. Len(requests') BY <1>1, <1>3
<1>5. \A i \in 1 .. Len(requests') :
         i <= served' /\ requests'[i].type = "Create" => requests'[i].session # 0
  BY <1>1, <1>3 DEF EpcOK
<1>6. req.type = "Create" => req.session # 0 BY <1>1, <1>2 DEF EpcOK
<1>7. mmeCell' = mmeCell /\ sessions' = sessions /\ endpoint' = endpoint /\ downlink' = downlink
  BY DEF Answer
<1> QED BY <1>2, <1>3, <1>4, <1>5, <1>6, <1>7 DEF EpcOK, EpcTypeOK

-----------------------------------------------------------------------------
\* A context may become d without disturbing a handover that leaves it.
GoesOn(c, d, g) ==
    /\ d \in Good(g)
    /\ d.st # "NONE" => c.st # "NONE" /\ (c.session # 0 => d.session # 0)
    /\ d.st = "HANDOVER_JOINING" =>
          c.st = "HANDOVER_JOINING" /\ c.source = d.source /\ c.sourceId = d.sourceId
    /\ (Free(d) => Free(c)) /\ (Done(d) => Free(c) \/ Done(c))
    /\ d.st = "HANDOVER_PREPARATION" => c.st = "HANDOVER_PREPARATION" /\ c.target = d.target

\* A context that goes on keeps the invariant.
LEMMA GoingOn ==
  ASSUME GInv, NEW g \in Gnb, NEW r \in Rnti, NEW d, GoesOn(ctx[g][r], d, g)
  PROVE  RanInv([ctx EXCEPT ![g][r] = d], lastRnti, x2)
BY ContextGoesOn DEF GInv, GoesOn

\* A handler that only changes a context keeps it when the context goes on.
LEMMA SetKeeps ==
  ASSUME GInv, NEW g \in Gnb, NEW r \in Rnti, NEW d, GoesOn(ctx[g][r], d, g),
         SetContext(g, r, d), UNCHANGED <<x2, epcVars>>
  PROVE  GInv'
<1>1. RanInv(ctx', lastRnti', x2') BY GoingOn DEF SetContext
<1>2. AppOK' BY DEF GInv, AppOK, SetContext, appVars
<1>3. EpcOK' BY DEF GInv, EpcOK, EpcTypeOK, epcVars
<1> QED BY <1>1, <1>2, <1>3 DEF GInv

\* A context that exists is good.
LEMMA IsContext ==
  ASSUME GInv, NEW g \in Gnb, NEW r, HasUeManager(g, r)
  PROVE  r \in Rnti /\ ctx[g][r] \in Context /\ ctx[g][r] \in Good(g) /\ ctx[g][r].st \in State
<1>1. r \in Rnti BY DEF HasUeManager
<1>2. ctx[g][r] \in Context /\ ctx[g][r] \in Good(g) BY <1>1, ContextIsGood DEF GInv
<1> QED BY <1>1, <1>2 DEF HasUeManager, Context

\* What SwitchToState(CONNECTED_NORMALLY) leaves of a context.
LEMMA NormalFields ==
  ASSUME NEW e \in Context
  PROVE  /\ Normal(e) \in Context
         /\ Normal(e).st \in {"CONNECTED_NORMALLY", "CONNECTION_RECONFIGURATION"}
         /\ Normal(e).imsi = e.imsi /\ Normal(e).session = e.session
         /\ Normal(e).source = e.source /\ Normal(e).target = e.target
         /\ Normal(e).timers = e.timers
<1>1. PICK x \in {"CONNECTED_NORMALLY", "CONNECTION_RECONFIGURATION"} :
         Normal(e) = [e EXCEPT !.st = x, !.pending = FALSE]
  BY DEF Normal
<1>2. Normal(e) \in Context BY <1>1 DEF Context, State
<1>3. /\ Normal(e).st = x /\ Normal(e).imsi = e.imsi /\ Normal(e).session = e.session
      /\ Normal(e).source = e.source /\ Normal(e).target = e.target
      /\ Normal(e).timers = e.timers
  BY <1>1 DEF Context
<1> QED BY <1>2, <1>3

\* A context may return to CONNECTED_NORMALLY, or be reconfigured, from every state
\* with bearers that does not await an answer to a handover.
LEMMA NormalGoesOn ==
  ASSUME NEW g \in Gnb, NEW c \in Good(g),
         c.st \in {"CONNECTED_NORMALLY", "CONNECTION_RECONFIGURATION", "HANDOVER_PATH_SWITCH",
                  "ATTACH_REQUEST", "HANDOVER_PREPARATION"},
         c.st = "ATTACH_REQUEST" => c.session = 0,
         NEW e \in Context, e.imsi = c.imsi, e.timers = c.timers, e.source = c.source,
         e.target = c.target, e.session # 0, c.session # 0 => e.session = c.session
  PROVE  Normal(e) \in Good(g) /\ (c.st # "HANDOVER_PREPARATION" => GoesOn(c, Normal(e), g))
<1>1. c.timers = {} BY DEF Good, TimerState, Context, Timer
<1>2. Normal(e) \in Good(g) BY <1>1, NormalFields DEF Good, Named, Bearing
<1>3. c.st # "HANDOVER_PREPARATION" => GoesOn(c, Normal(e), g)
  BY <1>2, NormalFields DEF GoesOn, Free, Done, Engaged, Connecting
<1> QED BY <1>2, <1>3

\* The connection request of a UE, in every state of the context.
LEMMA RecvRrcConnectionRequestKeeps ==
  ASSUME GInv, NEW g \in Gnb, NEW r, NEW u \in Ue, NEW admit \in BOOLEAN,
         RecvRrcConnectionRequest(g, r, u, admit)
  PROVE  GInv'
<1> DEFINE c == ctx[g][r]
<1>1. CASE UNCHANGED <<gnbVars, x2, epcVars>> BY <1>1, GInvStutter
<1>2. CASE HasUeManager(g, r) /\ UNCHANGED <<x2, epcVars>>
  <2>1. r \in Rnti /\ c \in Context /\ c \in Good(g) BY <1>2, IsContext
  <2>2. ASSUME c.st = "INITIAL_RANDOM_ACCESS",
               SetContext(g, r, [c EXCEPT !.st = "CONNECTION_SETUP", !.imsi = u,
                    !.timers = (@ \ {"connectionRequest"}) \cup {"connectionSetup"}])
        PROVE  GInv'
    <3> DEFINE d == [c EXCEPT !.st = "CONNECTION_SETUP", !.imsi = u,
                       !.timers = (@ \ {"connectionRequest"}) \cup {"connectionSetup"}]
    <3>1. d \in Context /\ d.st = "CONNECTION_SETUP" /\ d.imsi = u /\ d.session = c.session
          /\ d.source = c.source /\ d.target = c.target
          /\ d.timers = (c.timers \ {"connectionRequest"}) \cup {"connectionSetup"}
      BY <2>1 DEF Context, State, Timer, TimerState
    <3>2. \A t \in d.timers : t = "connectionSetup"
      BY <3>1, <2>1, <2>2 DEF Good, Context, Timer, TimerState
    <3> HIDE DEF d
    <3>3. d \in Good(g) BY <3>1, <3>2, <2>1 DEF Good, Named, Bearing, TimerState
    <3>4. GoesOn(c, d, g) BY <3>1, <3>3, <2>2 DEF GoesOn, Free, Done, Engaged, Connecting
    <3> QED BY <3>4, <2>1, <2>2, <1>2, SetKeeps DEF d
  <2>3. ASSUME c.st = "INITIAL_RANDOM_ACCESS",
               SetContext(g, r, [c EXCEPT !.st = "CONNECTION_REJECTED",
                    !.timers = (@ \ {"connectionRequest"}) \cup {"connectionRejected"}])
        PROVE  GInv'
    <3> DEFINE d == [c EXCEPT !.st = "CONNECTION_REJECTED",
                       !.timers = (@ \ {"connectionRequest"}) \cup {"connectionRejected"}]
    <3>1. d \in Context /\ d.st = "CONNECTION_REJECTED" /\ d.session = c.session
          /\ d.source = c.source /\ d.target = c.target
          /\ d.timers = (c.timers \ {"connectionRequest"}) \cup {"connectionRejected"}
      BY <2>1 DEF Context, State, Timer, TimerState
    <3>2. \A t \in d.timers : t = "connectionRejected"
      BY <3>1, <2>1, <2>3 DEF Good, Context, Timer, TimerState
    <3> HIDE DEF d
    <3>3. d \in Good(g) BY <3>1, <3>2, <2>1 DEF Good, Named, Bearing, TimerState
    <3>4. GoesOn(c, d, g) BY <3>1, <3>3, <2>3 DEF GoesOn, Free, Done, Engaged, Connecting
    <3> QED BY <3>4, <2>1, <2>3, <1>2, SetKeeps DEF d
  <2>4. ASSUME c.st \in {"CONNECTED_NORMALLY", "HANDOVER_LEAVING"},
               SetContext(g, r, [c EXCEPT !.st = "INITIAL_RANDOM_ACCESS",
                                          !.timers = @ \ {"handoverLeaving"}])
        PROVE  GInv'
    <3> DEFINE d == [c EXCEPT !.st = "INITIAL_RANDOM_ACCESS", !.timers = @ \ {"handoverLeaving"}]
    <3>1. d \in Context /\ d.st = "INITIAL_RANDOM_ACCESS" /\ d.session = c.session
          /\ d.source = c.source /\ d.target = c.target
          /\ d.timers = c.timers \ {"handoverLeaving"}
      BY <2>1 DEF Context, State, Timer, TimerState
    <3>2. d.timers = {}
      BY <3>1, <2>1, <2>4 DEF Good, Context, Timer, TimerState
    <3> HIDE DEF d
    <3>3. d \in Good(g) BY <3>1, <3>2, <2>1 DEF Good, Named, Bearing
    <3>4. c.session # 0 BY <2>1, <2>4 DEF Good, Bearing, Named
    <3>5. GoesOn(c, d, g)
      BY <3>1, <3>3, <3>4, <2>4 DEF GoesOn, Free, Done, Engaged, Connecting
    <3> QED BY <3>5, <2>1, <2>4, <1>2, SetKeeps DEF d
  <2> QED BY <1>1, <1>2, <2>2, <2>3, <2>4 DEF RecvRrcConnectionRequest
<1> QED BY <1>1, <1>2 DEF RecvRrcConnectionRequest, Abort, AbortInAnswer

\* A context made for a contention preamble.
LEMMA AllocateTemporaryCellRntiKeeps ==
  ASSUME GInv, NEW g \in Gnb, AllocateTemporaryCellRnti(g)
  PROVE  GInv'
<1> DEFINE c == NewContext("INITIAL_RANDOM_ACCESS", {"connectionRequest"})
<1>1. c \in Good(g) /\ c.st = "INITIAL_RANDOM_ACCESS"
  BY NodesAssumption, RanAssumption, EpcAssumption
     DEF NewContext, Good, Context, State, Timer, TimerState, Named, Bearing
<1>2. /\ lastRnti[g] < MaxRnti
      /\ ctx' = [ctx EXCEPT ![g][lastRnti[g] + 1] = c]
      /\ lastRnti' = [lastRnti EXCEPT ![g] = lastRnti[g] + 1]
      /\ UNCHANGED <<appVars, x2, epcVars>>
  BY DEF AllocateTemporaryCellRnti, AddUe, NewRnti
<1> HIDE DEF c
<1>3. RanInv(ctx', lastRnti', x2') BY <1>1, <1>2, ContextAdded DEF GInv
<1>4. AppOK' BY <1>2 DEF GInv, AppOK, appVars
<1>5. EpcOK' BY <1>2 DEF GInv, EpcOK, EpcTypeOK, epcVars
<1> QED BY <1>3, <1>4, <1>5 DEF GInv

\* The connection is set up.
LEMMA RecvRrcConnectionSetupCompletedKeeps ==
  ASSUME GInv, NEW g \in Gnb, NEW r, RecvRrcConnectionSetupCompleted(g, r)
  PROVE  GInv'
<1> DEFINE c == ctx[g][r]
           d == [c EXCEPT !.st = "ATTACH_REQUEST", !.timers = @ \ {"connectionSetup"}]
<1>1. CASE Abort("set-up completed in another state") BY <1>1, GInvStutter DEF Abort, AbortInAnswer
<1>2. ASSUME HasUeManager(g, r), c.st = "CONNECTION_SETUP",
             ctx' = [ctx EXCEPT ![g][r].st = "ATTACH_REQUEST",
                                ![g][r].timers = @ \ {"connectionSetup"}],
             imsiRnti' = [imsiRnti EXCEPT ![g][c.imsi] = r], AskSession(c.imsi, g),
             UNCHANGED <<lastRnti, rntiSession, sessionRnti, x2>>
      PROVE  GInv'
  <2>1. r \in Rnti /\ c \in Context /\ c \in Good(g) BY <1>2, IsContext
  <2>2. c.imsi \in Ue BY <2>1, <1>2 DEF Good, Named
  <2>3. ctx' = [ctx EXCEPT ![g][r] = d]
    <3>1. ctx \in Contexts BY DEF GInv, RanInv
    <3> QED BY <1>2, <2>1, <3>1 DEF Contexts, Context
  <2>4. d \in Context /\ d.st = "ATTACH_REQUEST" /\ d.imsi = c.imsi /\ d.session = c.session
        /\ d.source = c.source /\ d.target = c.target
        /\ d.timers = c.timers \ {"connectionSetup"}
    BY <2>1 DEF Context, State
  <2>5. d.timers = {} BY <2>4, <2>1, <1>2 DEF Good, Context, Timer, TimerState
  <2> HIDE DEF d
  <2>6. d \in Good(g) BY <2>2, <2>4, <2>5, <2>1 DEF Good, Named, Bearing
  <2>7. GoesOn(c, d, g) BY <2>4, <2>6, <1>2 DEF GoesOn, Free, Done, Engaged, Connecting
  <2>8. RanInv(ctx', lastRnti', x2')
    <3>1. RanInv([ctx EXCEPT ![g][r] = d], lastRnti, x2) BY <2>1, <2>7, GoingOn
    <3> QED BY <3>1, <2>3, <1>2
  <2>9. AppOK' BY <1>2, <2>1, <2>2 DEF GInv, AppOK, Rnti
  <2>10. EpcOK'
    <3>1. EpcOK /\ 0 \in 0 .. MaxSession BY EpcAssumption DEF GInv
    <3> QED BY <1>2, <2>2, <3>1, AskKeeps DEF AskSession
  <2> QED BY <2>8, <2>9, <2>10 DEF GInv
<1> QED BY <1>1, <1>2 DEF RecvRrcConnectionSetupCompleted

\* The answer of the core network to a session request: s is the session.
LEMMA InitialContextSetupRequestKeeps ==
  ASSUME GInv, NEW g \in Gnb, NEW u \in Ue, NEW s \in Session, InitialContextSetupRequest(g, u, s)
  PROVE  RanInv(ctx', lastRnti', x2') /\ AppOK'
<1> DEFINE r == imsiRnti[g][u]
           c == ctx[g][r]
           e == [c EXCEPT !.session = s, !.pending = TRUE]
<1>1. CASE UNCHANGED <<gnbVars, x2>>
  BY <1>1 DEF GInv, AppOK, gnbVars, appVars
<1>2. ASSUME HasUeManager(g, r), c.st = "ATTACH_REQUEST", c.session = 0,
             ctx' = [ctx EXCEPT ![g][r] = Normal(e)],
             rntiSession' = [rntiSession EXCEPT ![g][r] = s],
             sessionRnti' = [sessionRnti EXCEPT ![g][s] = r],
             UNCHANGED <<lastRnti, imsiRnti, x2>>
      PROVE  RanInv(ctx', lastRnti', x2') /\ AppOK'
  <2>1. r \in Rnti /\ c \in Context /\ c \in Good(g) BY <1>2, IsContext
  <2>2. s \in 0 .. MaxSession /\ s # 0 BY EpcAssumption DEF Session
  <2>3. e \in Context /\ e.imsi = c.imsi /\ e.session = s /\ e.source = c.source
        /\ e.target = c.target /\ e.timers = c.timers
    BY <2>1, <2>2 DEF Context
  <2> HIDE DEF e
  <2>4. GoesOn(c, Normal(e), g) BY <1>2, <2>1, <2>2, <2>3, NormalGoesOn
  <2>5. RanInv(ctx', lastRnti', x2')
    <3> DEFINE n == Normal(e)
    <3>1. GoesOn(ctx[g][r], n, g) /\ ctx' = [ctx EXCEPT ![g][r] = n] BY <2>4, <1>2
    <3> HIDE DEF n
    <3>2. RanInv([ctx EXCEPT ![g][r] = n], lastRnti, x2) BY <2>1, <3>1, GoingOn
    <3> QED BY <3>1, <3>2, <1>2
  <2>6. AppOK' BY <1>2, <2>1, <2>2 DEF GInv, AppOK, Rnti
  <2> QED BY <2>5, <2>6
<1> QED BY <1>1, <1>2 DEF InitialContextSetupRequest, AbortInAnswer

\* SwitchToState(CONNECTED_NORMALLY) of a context that serves a UE.
LEMMA SwitchToNormalKeeps ==
  ASSUME GInv, NEW g \in Gnb, NEW r \in Rnti,
         ctx[g][r].st \in {"CONNECTED_NORMALLY", "CONNECTION_RECONFIGURATION",
                           "HANDOVER_PATH_SWITCH"},
         NEW e \in Context, e.imsi = ctx[g][r].imsi, e.timers = ctx[g][r].timers,
         e.source = ctx[g][r].source, e.target = ctx[g][r].target,
         e.session = ctx[g][r].session, SwitchToNormal(g, r, e)
  PROVE  RanInv([ctx EXCEPT ![g][r] = Normal(e)], lastRnti, x2) /\ AppOK'
         /\ ctx' = [ctx EXCEPT ![g][r] = Normal(e)] /\ lastRnti' = lastRnti
<1>1. ctx[g][r] \in Good(g) BY ContextIsGood DEF GInv
<1>2. e.session # 0 BY <1>1 DEF Good, Bearing, Named
<1>3. GoesOn(ctx[g][r], Normal(e), g)
  <2>1. ASSUME NEW c \in Good(g), c.st # "HANDOVER_PREPARATION",
               c.st \in {"CONNECTED_NORMALLY", "CONNECTION_RECONFIGURATION",
                         "HANDOVER_PATH_SWITCH"},
               e.imsi = c.imsi, e.timers = c.timers, e.source = c.source, e.target = c.target,
               e.session = c.session
        PROVE  GoesOn(c, Normal(e), g)
    <3>1. /\ c.st \in {"CONNECTED_NORMALLY", "CONNECTION_RECONFIGURATION",
                      "HANDOVER_PATH_SWITCH", "ATTACH_REQUEST", "HANDOVER_PREPARATION"}
          /\ c.st = "ATTACH_REQUEST" => c.session = 0
      BY <2>1
    <3> QED BY <1>2, <2>1, <3>1, NormalGoesOn
  <2> QED BY <1>1, <2>1
<1> DEFINE n == Normal(e)
<1>4. SetContext(g, r, n) /\ GoesOn(ctx[g][r], n, g) BY <1>3 DEF SwitchToNormal
<1> HIDE DEF n
<1>5. RanInv([ctx EXCEPT ![g][r] = n], lastRnti, x2) BY <1>4, GoingOn
<1>6. ctx' = [ctx EXCEPT ![g][r] = n] /\ lastRnti' = lastRnti BY <1>4 DEF SetContext
<1>7. AppOK' BY <1>4 DEF GInv, AppOK, SetContext, appVars
<1> QED BY <1>5, <1>6, <1>7 DEF n

\* A step that changes nothing in the core network.
LEMMA EpcUnchanged ==
  ASSUME GInv, UNCHANGED epcVars
  PROVE  EpcOK'
BY DEF GInv, EpcOK, EpcTypeOK, epcVars

\* A step that changes nothing in the tables of the application.
LEMMA AppUnchanged ==
  ASSUME GInv, UNCHANGED appVars
  PROVE  AppOK'
BY DEF GInv, AppOK, appVars

\* The UE applied a reconfiguration or joined.
LEMMA RecvRrcConnectionReconfigurationCompletedKeeps ==
  ASSUME GInv, NEW g \in Gnb, NEW r, RecvRrcConnectionReconfigurationCompleted(g, r)
  PROVE  GInv'
<1> DEFINE c == ctx[g][r]
           d == [c EXCEPT !.st = "HANDOVER_PATH_SWITCH", !.timers = @ \ {"handoverJoining"}]
<1>1. CASE UNCHANGED <<gnbVars, x2, epcVars>> BY <1>1, GInvStutter
<1>2. ASSUME HasUeManager(g, r), c.st = "CONNECTION_RECONFIGURATION", SwitchToNormal(g, r, c),
             UNCHANGED <<x2, epcVars>>
      PROVE  GInv'
  <2>1. r \in Rnti /\ c \in Context BY <1>2, IsContext
  <2>2. /\ RanInv([ctx EXCEPT ![g][r] = Normal(c)], lastRnti, x2) /\ AppOK'
        /\ ctx' = [ctx EXCEPT ![g][r] = Normal(c)] /\ lastRnti' = lastRnti
    <3>1. c.st \in {"CONNECTED_NORMALLY", "CONNECTION_RECONFIGURATION", "HANDOVER_PATH_SWITCH"}
      BY <1>2
    <3> QED BY <1>2, <2>1, <3>1, SwitchToNormalKeeps
  <2> QED BY <1>2, <2>2, EpcUnchanged DEF GInv
<1>3. ASSUME HasUeManager(g, r), c.st = "HANDOVER_JOINING",
             ctx' = [ctx EXCEPT ![g][r].st = "HANDOVER_PATH_SWITCH",
                                ![g][r].timers = @ \ {"handoverJoining"}],
             imsiRnti' = [imsiRnti EXCEPT ![g][c.imsi] = r],
             rntiSession' = [rntiSession EXCEPT ![g][r] = c.session],
             sessionRnti' = [s \in Gnb |->
                IF s = g THEN [k \in Session |-> IF k = c.session THEN r ELSE sessionRnti[g][k]]
                         ELSE sessionRnti[s]],
             AskSwitch(c.imsi, g, c.session), UNCHANGED <<lastRnti, x2>>
      PROVE  GInv'
  <2>1. r \in Rnti /\ c \in Context /\ c \in Good(g) BY <1>3, IsContext
  <2>2. c.imsi \in Ue /\ c.session # 0 /\ c.session \in 0 .. MaxSession
    BY <2>1, <1>3 DEF Good, Named, Bearing, Context
  <2>3. ctx' = [ctx EXCEPT ![g][r] = d]
    <3>1. ctx \in Contexts BY DEF GInv, RanInv
    <3> QED BY <1>3, <2>1, <3>1 DEF Contexts, Context
  <2>4. d \in Context /\ d.st = "HANDOVER_PATH_SWITCH" /\ d.imsi = c.imsi
        /\ d.session = c.session /\ d.source = c.source /\ d.target = c.target
        /\ d.timers = c.timers \ {"handoverJoining"}
    BY <2>1 DEF Context, State
  <2>5. d.timers = {} BY <2>4, <2>1, <1>3 DEF Good, Context, Timer, TimerState
  <2> HIDE DEF d
  <2>6. d \in Good(g) BY <2>2, <2>4, <2>5, <2>1, <1>3 DEF Good, Named, Bearing
  <2>7. GoesOn(c, d, g) BY <2>4, <2>6, <1>3 DEF GoesOn, Free, Done, Engaged, Connecting
  <2>8. RanInv(ctx', lastRnti', x2')
    <3>1. RanInv([ctx EXCEPT ![g][r] = d], lastRnti, x2) BY <2>1, <2>7, GoingOn
    <3> QED BY <3>1, <2>3, <1>3
  <2>9. AppOK'
    <3>1. r \in 0 .. MaxRnti BY <2>1, RanAssumption DEF Rnti
    <3>2. imsiRnti' \in [Gnb -> [Ue -> 0 .. MaxRnti]] BY <1>3, <2>2, <3>1 DEF GInv, AppOK
    <3>3. rntiSession' \in [Gnb -> [Rnti -> 0 .. MaxSession]] BY <1>3, <2>2 DEF GInv, AppOK
    <3>4. sessionRnti' \in [Gnb -> [Session -> 0 .. MaxRnti]] BY <1>3, <3>1 DEF GInv, AppOK
    <3> QED BY <3>2, <3>3, <3>4 DEF AppOK
  <2>10. EpcOK' BY <1>3, <2>2, AskKeeps DEF AskSwitch, GInv
  <2> QED BY <2>8, <2>9, <2>10 DEF GInv
<1> QED BY <1>1, <1>2, <1>3
        DEF RecvRrcConnectionReconfigurationCompleted, Abort, AbortInAnswer

\* The answer of the core network to a path switch.
LEMMA PathSwitchRequestAcknowledgeKeeps ==
  ASSUME GInv, NEW g \in Gnb, NEW u \in Ue, PathSwitchRequestAcknowledge(g, u)
  PROVE  RanInv(ctx', lastRnti', x2') /\ AppOK'
<1> DEFINE r == imsiRnti[g][u]
           c == ctx[g][r]
           m == Message("UeContextRelease", c.sourceId, r, None, 0)
<1>1. CASE UNCHANGED <<gnbVars, x2>>
  BY <1>1 DEF GInv, AppOK, gnbVars, appVars
<1>2. ASSUME HasUeManager(g, r), c.st = "HANDOVER_PATH_SWITCH",
             x2' = [x2 EXCEPT ![g][c.source] = Append(@, m)], SwitchToNormal(g, r, c)
      PROVE  RanInv(ctx', lastRnti', x2') /\ AppOK'
  <2>1. r \in Rnti /\ c \in Context /\ c \in Good(g) BY <1>2, IsContext
  <2>2. /\ RanInv([ctx EXCEPT ![g][r] = Normal(c)], lastRnti, x2) /\ AppOK'
        /\ ctx' = [ctx EXCEPT ![g][r] = Normal(c)] /\ lastRnti' = lastRnti
    <3>1. c.st \in {"CONNECTED_NORMALLY", "CONNECTION_RECONFIGURATION", "HANDOVER_PATH_SWITCH"}
      BY <1>2
    <3> HIDE DEF r
    <3> QED BY <1>2, <2>1, <3>1, SwitchToNormalKeeps
  <2>3. c.source \in Gnb /\ c.source # g BY <1>2, <2>1 DEF Good
  <2>4. m \in X2Message /\ m.type = "UeContextRelease"
    BY <2>1, RanAssumption, EpcAssumption DEF Message, X2Message, Context, Rnti
  <2> DEFINE src == c.source
  <2>5. src \in Gnb /\ src # g /\ x2' = [x2 EXCEPT ![g][src] = Append(@, m)] BY <1>2, <2>3
  <2>6. RanInv(ctx', lastRnti, x2) BY <2>2
  <2>7. MsgGood(ctx', lastRnti, g, src, m) BY <2>4 DEF MsgGood
  <2> HIDE DEF m, src
  <2>8. RanInv(ctx', lastRnti, [x2 EXCEPT ![g][src] = Append(@, m)])
    BY <2>4, <2>5, <2>6, <2>7, MessageSent
  <2> QED BY <2>2, <2>5, <2>8
<1> QED BY <1>1, <1>2 DEF PathSwitchRequestAcknowledge, AbortInAnswer, Sent

\* A reconfiguration that is sent or put off.
LEMMA ScheduleRrcConnectionReconfigurationKeeps ==
  ASSUME GInv, NEW g \in Gnb, NEW r, ScheduleRrcConnectionReconfiguration(g, r)
  PROVE  GInv'
<1> DEFINE c == ctx[g][r]
           e == [c EXCEPT !.pending = TRUE]
<1>0. HasUeManager(g, r) BY DEF ScheduleRrcConnectionReconfiguration
<1>1. r \in Rnti /\ c \in Context /\ c \in Good(g) BY <1>0, IsContext
<1>2. e \in Context /\ e.imsi = c.imsi /\ e.session = c.session /\ e.source = c.source
      /\ e.target = c.target /\ e.timers = c.timers /\ e.st = c.st
      /\ e.sourceId = c.sourceId
  BY <1>1 DEF Context
<1>3. CASE UNCHANGED <<gnbVars, x2, epcVars>> BY <1>3, GInvStutter
<1>4. ASSUME c.st = "CONNECTED_NORMALLY", SwitchToNormal(g, r, e), UNCHANGED <<x2, epcVars>>
      PROVE  GInv'
  <2>1. c.st \in {"CONNECTED_NORMALLY", "CONNECTION_RECONFIGURATION", "HANDOVER_PATH_SWITCH"}
    BY <1>4
  <2> HIDE DEF e
  <2>2. /\ RanInv([ctx EXCEPT ![g][r] = Normal(e)], lastRnti, x2) /\ AppOK'
        /\ ctx' = [ctx EXCEPT ![g][r] = Normal(e)] /\ lastRnti' = lastRnti
    BY <1>1, <1>2, <1>4, <2>1, SwitchToNormalKeeps
  <2> QED BY <1>4, <2>2, EpcUnchanged DEF GInv
<1>5. ASSUME SetContext(g, r, e), UNCHANGED <<x2, epcVars>>
      PROVE  GInv'
  <2> HIDE DEF e
  <2>1. e \in Good(g) BY <1>1, <1>2 DEF Good
  <2>2. GoesOn(c, e, g) BY <1>2, <2>1 DEF GoesOn, Free, Done
  <2> QED BY <1>1, <1>5, <2>2, SetKeeps
<1> QED BY <1>3, <1>4, <1>5 DEF ScheduleRrcConnectionReconfiguration, Abort, AbortInAnswer

\* The application forgets an RNTI.
LEMMA UeContextReleaseKeeps ==
  ASSUME GInv, NEW g \in Gnb, NEW r \in Rnti, UeContextRelease(g, r)
  PROVE  AppOK'
<1>1. /\ sessionRnti' = [sessionRnti EXCEPT ![g] =
                           [s \in Session |-> IF s = rntiSession[g][r] THEN 0 ELSE @[s]]]
      /\ rntiSession' = [rntiSession EXCEPT ![g][r] = 0]
      /\ imsiRnti' = imsiRnti
  BY DEF UeContextRelease
<1>2. 0 \in 0 .. MaxRnti /\ 0 \in 0 .. MaxSession BY RanAssumption, EpcAssumption
<1>3. rntiSession' \in [Gnb -> [Rnti -> 0 .. MaxSession]] BY <1>1, <1>2 DEF GInv, AppOK
<1>4. sessionRnti' \in [Gnb -> [Session -> 0 .. MaxRnti]]
  <2>1. [s \in Session |-> IF s = rntiSession[g][r] THEN 0 ELSE sessionRnti[g][s]]
        \in [Session -> 0 .. MaxRnti]
    BY <1>2 DEF GInv, AppOK
  <2> QED BY <1>1, <2>1 DEF GInv, AppOK
<1> QED BY <1>1, <1>3, <1>4 DEF GInv, AppOK

\* A context is forgotten, and the source of its handover told.
LEMMA RecvIdealUeContextRemoveRequestKeeps ==
  ASSUME GInv, NEW g \in Gnb, NEW r, RecvIdealUeContextRemoveRequest(g, r)
  PROVE  GInv'
<1> DEFINE c == ctx[g][r]
<1>1. CASE ~HasUeManager(g, r)
  BY <1>1, GInvStutter DEF RecvIdealUeContextRemoveRequest
<1>2. CASE HasUeManager(g, r)
  <2>1. r \in Rnti /\ c \in Context /\ c \in Good(g) BY <1>2, IsContext
  <2>2. /\ ctx' = [ctx EXCEPT ![g][r] = NoContext] /\ lastRnti' = lastRnti
        /\ UeContextRelease(g, r) /\ UNCHANGED epcVars
        /\ x2' = IF c.st = "HANDOVER_JOINING"
                 THEN [x2 EXCEPT ![g][c.source] = Append(@,
                         Message("HandoverPreparationFailure", c.sourceId, 0, None, 0))]
                 ELSE x2
    BY <1>2 DEF RecvIdealUeContextRemoveRequest, RemoveUe, Sent
  <2>3. AppOK' BY <2>1, <2>2, UeContextReleaseKeeps
  <2>4. EpcOK' BY <2>2, EpcUnchanged
  <2>5. CASE c.st = "HANDOVER_JOINING"
    <3>1. RanInv([ctx EXCEPT ![g][r] = NoContext], lastRnti,
                 [x2 EXCEPT ![g][c.source] = Append(@,
                         Message("HandoverPreparationFailure", c.sourceId, 0, None, 0))])
      BY <2>1, <2>5, JoiningRemoved DEF GInv
    <3> QED BY <2>2, <2>3, <2>4, <2>5, <3>1 DEF GInv
  <2>6. CASE c.st # "HANDOVER_JOINING"
    <3>1. RanInv([ctx EXCEPT ![g][r] = NoContext], lastRnti, x2)
      BY <2>1, ContextRemoved DEF GInv
    <3> QED BY <2>2, <2>3, <2>4, <2>6, <3>1 DEF GInv
  <2> QED BY <2>5, <2>6
<1> QED BY <1>1, <1>2

-----------------------------------------------------------------------------
\* A step of a gNB that changes neither its tables nor the core network.
LEMMA RanStep ==
  ASSUME GInv, RanInv(ctx', lastRnti', x2'), UNCHANGED <<appVars, epcVars>>
  PROVE  GInv'
BY EpcUnchanged, AppUnchanged DEF GInv

\* A handover is asked for, or put off.
LEMMA PrepareHandoverKeeps ==
  ASSUME GInv, NEW g \in Gnb, NEW r, NEW h \in Gnb, PrepareHandover(g, r, h)
  PROVE  GInv'
<1> DEFINE c == ctx[g][r]
<1>0. HasUeManager(g, r) /\ h # g BY DEF PrepareHandover
<1>1. r \in Rnti /\ c \in Context /\ c \in Good(g) BY <1>0, IsContext
<1>2. CASE UNCHANGED <<gnbVars, x2, epcVars>> BY <1>2, GInvStutter
<1>3. ASSUME c.st = "CONNECTED_NORMALLY",
             SetContext(g, r, [c EXCEPT !.st = "HANDOVER_PREPARATION", !.target = h]),
             x2' = [x2 EXCEPT ![g][h] = Append(@,
                      Message("HandoverRequest", r, 0, c.imsi, c.session))],
             UNCHANGED epcVars
      PROVE  GInv'
  <2> DEFINE d == [c EXCEPT !.st = "HANDOVER_PREPARATION", !.target = h]
             m == Message("HandoverRequest", r, 0, c.imsi, c.session)
             cx2 == [ctx EXCEPT ![g][r] = d]
  <2>1. /\ d \in Context /\ d.st = "HANDOVER_PREPARATION" /\ d.imsi = c.imsi
        /\ d.session = c.session /\ d.source = c.source /\ d.target = h /\ d.timers = c.timers
    BY <1>1 DEF Context, State
  <2>2. c.timers = {} /\ c.imsi \in Ue /\ c.session # 0
    BY <1>1, <1>3 DEF Good, Context, Timer, TimerState, Named, Bearing
  <2>3. /\ m \in X2Message /\ m.type = "HandoverRequest" /\ m.old = r /\ m.imsi = c.imsi
        /\ m.session = c.session
    BY <1>1, RanAssumption DEF Message, X2Message, Context, Rnti
  <2>4. ctx' = cx2 /\ lastRnti' = lastRnti /\ UNCHANGED appVars BY <1>3 DEF SetContext
  <2>5. /\ cx2[g][r] = d /\ \A s \in Rnti : cx2[h][s] = ctx[h][s]
    BY <1>0, <1>1 DEF GInv, RanInv, Contexts
  <2>6. x2' = [x2 EXCEPT ![g][h] = Append(@, m)] BY <1>3
  <2> HIDE DEF d, m, cx2
  <2>7. d \in Good(g) BY <1>0, <1>1, <2>1, <2>2 DEF Good, Named, Bearing
  <2>8. r \in 1 .. lastRnti[g]
    BY <1>1, <1>3, RanAssumption DEF GInv, RanInv, CtxInv, Rnti
  <2>9. ASSUME NEW k \in Gnb
        PROVE  Silent(ctx, x2, g, k, r) /\ Talk(d, ctx, x2, g, k, r)
    <3>1. Talk(c, ctx, x2, g, k, r) BY <1>1, RanAssumption DEF GInv, RanInv, X2Inv, Rnti
    <3>2. Silent(ctx, x2, g, k, r) BY <3>1, <1>3 DEF Talk, Free, Engaged
    <3>3. Orderly(ctx, x2, g, k, r)
      BY <3>2 DEF Silent, Orderly, Asks, Acks, Fails, Joins, Holds, Once
    <3> QED BY <3>2, <3>3, <2>1 DEF Talk, Free, Done, Engaged, Connecting
  <2>10. RanInv(cx2, lastRnti, x2)
    <3>1. RanInv([ctx EXCEPT ![g][r] = d], lastRnti, x2)
      BY <1>1, <1>3, <2>1, <2>2, <2>7, <2>9, ContextSet DEF GInv
    <3> QED BY <3>1 DEF cx2
  <2>11. Silent(cx2, x2, g, h, r) BY <2>5, <2>9 DEF Silent, Joins, Joining
  <2>12. MsgGood(cx2, lastRnti, g, h, m) BY <2>2, <2>3 DEF MsgGood
  <2>13. RanInv(cx2, lastRnti, [x2 EXCEPT ![g][h] = Append(@, m)])
    <3>1. /\ m.old \in 1 .. lastRnti[g] /\ cx2[g][m.old].st = "HANDOVER_PREPARATION"
          /\ cx2[g][m.old].target = h /\ Silent(cx2, x2, g, h, m.old)
      BY <2>1, <2>3, <2>5, <2>8, <2>11
    <3>2. m.type = "HandoverRequest" /\ m \in X2Message BY <2>3
    <3> QED BY <1>0, <3>1, <3>2, <2>10, <2>12, MessageSent
  <2> QED BY <1>3, <2>4, <2>6, <2>13, RanStep
<1>4. ASSUME c.st = "CONNECTION_SETUP", SetContext(g, r, [c EXCEPT !.pendingHo = h]),
             UNCHANGED <<x2, epcVars>>
      PROVE  GInv'
  <2> DEFINE d == [c EXCEPT !.pendingHo = h]
  <2>1. d \in Context /\ d.st = c.st /\ d.imsi = c.imsi /\ d.session = c.session
        /\ d.source = c.source /\ d.target = c.target /\ d.timers = c.timers
        /\ d.sourceId = c.sourceId
    BY <1>1 DEF Context
  <2>2. SetContext(g, r, d) BY <1>4
  <2> HIDE DEF d
  <2>3. d \in Good(g) BY <1>1, <2>1 DEF Good
  <2>4. GoesOn(c, d, g) BY <2>1, <2>3 DEF GoesOn, Free, Done
  <2> QED BY <1>1, <1>4, <2>2, <2>4, SetKeeps
<1> QED BY <1>2, <1>3, <1>4 DEF PrepareHandover, Sent, Abort, AbortInAnswer

-----------------------------------------------------------------------------
\* An X2 message is taken, and answered.
LEMMA TakenAndAnswered ==
  ASSUME NEW x \in Channels, NEW g \in Gnb, NEW h \in Gnb, g # h, NEW m
  PROVE  [x EXCEPT ![h][g] = Tail(@), ![g][h] = Append(@, m)]
         = [[x EXCEPT ![h][g] = Tail(@)] EXCEPT ![g][h] = Append(@, m)]
BY DEF Channels

\* An RNTI is passed over.
LEMMA RntiSkipped ==
  ASSUME NEW cx, NEW last, NEW x, RanInv(cx, last, x), NEW g \in Gnb, last[g] < MaxRnti
  PROVE  RanInv(cx, [last EXCEPT ![g] = last[g] + 1], x)
<1> DEFINE last2 == [last EXCEPT ![g] = last[g] + 1]
<1>1. /\ cx \in Contexts /\ last \in [Gnb -> 0 .. MaxRnti] /\ x \in Channels
      /\ CtxInv(cx, last) /\ MsgInv(cx, last, x) /\ X2Inv(cx, last, x)
  BY DEF RanInv
<1>2. last2 \in [Gnb -> 0 .. MaxRnti] /\ \A h \in Gnb : last2[h] >= last[h]
  BY <1>1, NewRntiIsFresh
<1>3. \A h \in Gnb : last2[h] \in Nat /\ last[h] \in Nat BY <1>1, <1>2, RanAssumption
<1>4. Rnti \subseteq Nat BY DEF Rnti
<1>5. \A h \in Gnb, r \in Nat : r \in 1 .. last[h] => r \in 1 .. last2[h] BY <1>2, <1>3
<1> HIDE DEF last2
<1>6. CtxInv(cx, last2) BY <1>1, <1>2, <1>3, <1>4 DEF CtxInv
<1>7. \A h \in Gnb : \A r : Bears(cx, last, h, r) => Bears(cx, last2, h, r)
  BY <1>5, <1>3 DEF Bears
<1>8. MsgInv(cx, last2, x) BY <1>1, <1>7 DEF MsgInv, MsgGood
<1>9. X2Inv(cx, last2, x) BY <1>1, <1>5, RanAssumption DEF X2Inv
<1> QED BY <1>1, <1>2, <1>6, <1>8, <1>9 DEF RanInv, last2

\* What holds once a message of h is taken at g.
LEMMA TakenFacts ==
  ASSUME GInv, NEW g \in Gnb, NEW h \in Gnb, x2[h][g] # <<>>
  PROVE  /\ g # h /\ Head(x2[h][g]) \in X2Message
         /\ MsgGood(ctx, lastRnti, h, g, Head(x2[h][g]))
         /\ RanInv(ctx, lastRnti, [x2 EXCEPT ![h][g] = Tail(@)])
BY MessageTaken DEF GInv

\* A handover request is admitted, rejected, or fails for want of a preamble.
LEMMA RecvHandoverRequestKeeps ==
  ASSUME GInv, NEW g \in Gnb, NEW h \in Gnb, NEW answer, x2[h][g] # <<>>,
         Head(x2[h][g]).type = "HandoverRequest",
         RecvHandoverRequest(g, h, Head(x2[h][g]), answer)
  PROVE  GInv'
<1> DEFINE m == Head(x2[h][g])
           x == [x2 EXCEPT ![h][g] = Tail(@)]
           fail == Message("HandoverPreparationFailure", m.old, 0, None, 0)
<1>1. /\ g # h /\ m \in X2Message /\ MsgGood(ctx, lastRnti, h, g, m)
      /\ RanInv(ctx, lastRnti, x)
  BY TakenFacts
<1>2. /\ ctx \in Contexts /\ lastRnti \in [Gnb -> 0 .. MaxRnti] /\ x2 \in Channels
      /\ X2Inv(ctx, lastRnti, x2)
  BY DEF GInv, RanInv
<1>3. /\ m.old \in 1 .. lastRnti[h] /\ ~Free(ctx[h][m.old]) /\ ~Done(ctx[h][m.old])
      /\ ctx[h][m.old].st = "HANDOVER_PREPARATION" =>
            ctx[h][m.old].target = g /\ Silent(ctx, x, h, g, m.old)
  <2>1. m.type = "HandoverRequest" OBVIOUS
  <2> QED BY <1>1, <1>2, <2>1, TakenTells
<1>4. m.imsi \in Ue /\ m.session # 0 /\ m.session \in 0 .. MaxSession /\ m.old \in 0 .. MaxRnti
  BY <1>1 DEF MsgGood, X2Message
<1>5. /\ fail \in X2Message /\ fail.type = "HandoverPreparationFailure" /\ fail.old = m.old
  BY <1>4, RanAssumption, EpcAssumption DEF Message, X2Message
<1>6. ASSUME NEW a \in X2Message
      PROVE  [x2 EXCEPT ![h][g] = Tail(@), ![g][h] = Append(@, a)]
             = [x EXCEPT ![g][h] = Append(@, a)]
  BY <1>1, <1>2, TakenAndAnswered
<1>7. ASSUME answer = "admit" PROVE GInv'
  <2> DEFINE n == lastRnti[g] + 1
             c == [NewContext("HANDOVER_JOINING", {"handoverJoining"}) EXCEPT
                     !.imsi = m.imsi, !.source = h, !.sourceId = m.old,
                     !.session = m.session, !.pending = m.session # 0]
             ack == Message("HandoverRequestAck", m.old, n, None, m.session)
             cx2 == [ctx EXCEPT ![g][n] = c]
             last2 == [lastRnti EXCEPT ![g] = n]
  <2>1. /\ lastRnti[g] < MaxRnti /\ ctx' = cx2 /\ lastRnti' = last2
        /\ UNCHANGED <<appVars, epcVars>>
        /\ x2' = [x2 EXCEPT ![h][g] = Tail(@), ![g][h] = Append(@, ack)]
    BY <1>7 DEF RecvHandoverRequest, AddUe, NewRnti, Answered
  <2>2. n \in Rnti /\ n \in 0 .. MaxRnti /\ last2 \in [Gnb -> 0 .. MaxRnti] /\ last2[g] = n
        /\ last2[h] = lastRnti[h] /\ n \in 1 .. n
    BY <1>1, <1>2, <2>1, NewRntiIsFresh, RanAssumption DEF Rnti
  <2>3. /\ c \in Context /\ c.st = "HANDOVER_JOINING" /\ c.imsi = m.imsi /\ c.source = h
        /\ c.sourceId = m.old /\ c.session = m.session /\ c.target = None
        /\ c.timers = {"handoverJoining"}
    <3>1. PICK b \in BOOLEAN : b = (m.session # 0) OBVIOUS
    <3>2. c = [st |-> "HANDOVER_JOINING", imsi |-> m.imsi, timers |-> {"handoverJoining"},
               pending |-> b, pendingHo |-> None, source |-> h, sourceId |-> m.old,
               target |-> None, targetId |-> 0, session |-> m.session]
      <4>1. c = [NewContext("HANDOVER_JOINING", {"handoverJoining"}) EXCEPT
                   !.imsi = m.imsi, !.source = h, !.sourceId = m.old,
                   !.session = m.session, !.pending = b]
        BY <3>1, Zenon
      <4> HIDE DEF c
      <4> QED BY <4>1 DEF NewContext
    <3> HIDE DEF c
    <3>3. "HANDOVER_JOINING" \in State /\ {"handoverJoining"} \in SUBSET Timer
          /\ 0 \in 0 .. MaxRnti
      BY RanAssumption DEF State, Timer, TimerState
    <3>4. c \in Context BY <3>2, <3>3, <1>1, <1>4 DEF Context
    <3> QED BY <3>2, <3>4
  <2>4. /\ ack \in X2Message /\ ack.type = "HandoverRequestAck" /\ ack.old = m.old
        /\ ack.new = n /\ ack.session = m.session
    BY <1>4, <2>2 DEF Message, X2Message
  <2>5. cx2[g][n] = c /\ cx2[h] = ctx[h] BY <1>1, <1>2, <2>2 DEF Contexts
  <2>6. x2' = [x EXCEPT ![g][h] = Append(@, ack)] BY <1>6, <2>1, <2>4
  <2> HIDE DEF c, ack, cx2, n, last2, x, m
  <2>7. c \in Good(g)
    <3>1. /\ \A t \in c.timers : c.st = TimerState[t]
      BY <2>3 DEF TimerState
    <3>2. c.source # g /\ c.target # g BY <1>1, <2>3, NodesAssumption
    <3> QED BY <3>1, <3>2, <1>4, <2>3 DEF Good
  <2>8. RanInv(cx2, last2, x)
    <3>1. /\ c.sourceId \in 1 .. lastRnti[c.source] /\ c.session # 0
          /\ ~Free(ctx[c.source][c.sourceId])
          /\ ctx[c.source][c.sourceId].st = "HANDOVER_PREPARATION" =>
                /\ ctx[c.source][c.sourceId].target = g
                /\ ~Asks(x, c.source, g, c.sourceId) /\ ~Fails(x, c.source, g, c.sourceId)
                /\ ~Joins(ctx, c.source, g, c.sourceId)
      BY <1>3, <1>4, <2>3 DEF Silent
    <3>2. c.st # "HANDOVER_PREPARATION" BY <2>3
    <3> QED BY <1>1, <2>1, <2>7, <3>1, <3>2, ContextAdded DEF cx2, last2, n
  <2>9. MsgGood(cx2, last2, g, h, ack)
    <3>1. Bears(cx2, last2, g, n) BY <1>4, <2>2, <2>3, <2>5 DEF Bears
    <3> QED BY <1>4, <2>4, <3>1 DEF MsgGood
  <2>10. RanInv(cx2, last2, [x EXCEPT ![g][h] = Append(@, ack)])
    <3>0. ack.type # "HandoverRequest" /\ ack.type # "HandoverPreparationFailure" BY <2>4
    <3>1. /\ ack.old \in 1 .. last2[h] /\ ~Free(cx2[h][ack.old]) /\ ~Done(cx2[h][ack.old])
          /\ cx2[h][ack.old].st = "HANDOVER_PREPARATION" =>
                /\ cx2[h][ack.old].target = g
                /\ ~Asks(x, h, g, ack.old) /\ ~Acks(x, h, g, ack.old) /\ ~Fails(x, h, g, ack.old)
      BY <1>3, <2>2, <2>4, <2>5 DEF Silent
    <3>2. ack \in X2Message BY <2>4
    <3> QED BY <1>1, <2>8, <2>9, <3>0, <3>1, <3>2, MessageSent
  <2> QED BY <2>1, <2>6, <2>10, RanStep
<1>8. ASSUME NEW last2, RanInv(ctx, last2, x), last2[h] >= lastRnti[h],
             last2 \in [Gnb -> 0 .. MaxRnti]
      PROVE  RanInv(ctx, last2, [x EXCEPT ![g][h] = Append(@, fail)])
  <2>1. m.old \in 1 .. last2[h] BY <1>2, <1>3, <1>8, RanAssumption
  <2>2. /\ fail.old \in 1 .. last2[h] /\ ~Free(ctx[h][fail.old])
        /\ ctx[h][fail.old].st = "HANDOVER_PREPARATION" =>
              /\ ctx[h][fail.old].target = g
              /\ ~Asks(x, h, g, fail.old) /\ ~Fails(x, h, g, fail.old)
              /\ ~Joins(ctx, h, g, fail.old)
    BY <1>3, <1>5, <2>1 DEF Silent
  <2>3. MsgGood(ctx, last2, g, h, fail) BY <1>5 DEF MsgGood
  <2> HIDE DEF x, fail, m
  <2> QED BY <1>1, <1>5, <1>8, <2>2, <2>3, MessageSent
<1>9. x2' = [x2 EXCEPT ![h][g] = Tail(@), ![g][h] = Append(@, fail)]
      => x2' = [x EXCEPT ![g][h] = Append(@, fail)]
  BY <1>5, <1>6
<1>10. ASSUME answer = "reject" PROVE GInv'
  <2>1. /\ x2' = [x2 EXCEPT ![h][g] = Tail(@), ![g][h] = Append(@, fail)]
        /\ UNCHANGED <<ctx, lastRnti, appVars, epcVars>>
    BY <1>10 DEF RecvHandoverRequest, Answered, gnbVars
  <2>2. RanInv(ctx, lastRnti, [x EXCEPT ![g][h] = Append(@, fail)])
    <3>1. lastRnti[h] >= lastRnti[h] BY <1>2, RanAssumption
    <3> QED BY <1>1, <1>2, <1>8, <3>1
  <2> HIDE DEF x, fail
  <2> QED BY <1>9, <2>1, <2>2, RanStep
<1>11. ASSUME answer = "noPreamble" PROVE GInv'
  <2>1. /\ x2' = [x2 EXCEPT ![h][g] = Tail(@), ![g][h] = Append(@, fail)]
        /\ lastRnti[g] < MaxRnti
        /\ lastRnti' = [lastRnti EXCEPT ![g] = lastRnti[g] + 1]
        /\ UNCHANGED <<ctx, appVars, epcVars>>
    BY <1>11 DEF RecvHandoverRequest, Answered, NewRnti
  <2>2. RanInv(ctx, [lastRnti EXCEPT ![g] = lastRnti[g] + 1],
               [x EXCEPT ![g][h] = Append(@, fail)])
    <3>1. RanInv(ctx, [lastRnti EXCEPT ![g] = lastRnti[g] + 1], x)
      <4> HIDE DEF x
      <4> QED BY <1>1, <2>1, RntiSkipped
    <3>2. [lastRnti EXCEPT ![g] = lastRnti[g] + 1][h] >= lastRnti[h]
      BY <1>2, <2>1, NewRntiIsFresh
    <3>3. [lastRnti EXCEPT ![g] = lastRnti[g] + 1] \in [Gnb -> 0 .. MaxRnti]
      BY <1>2, <2>1, NewRntiIsFresh
    <3> QED BY <1>8, <3>1, <3>2, <3>3
  <2> HIDE DEF x, fail
  <2> QED BY <1>9, <2>1, <2>2, RanStep
<1> QED BY <1>7, <1>10, <1>11 DEF RecvHandoverRequest

\* An acknowledgement finds its context in HANDOVER_PREPARATION, if there is one: neither
\* its bearers nor those of the target can differ.
LEMMA AckFindsPreparation ==
  ASSUME GInv, NEW g \in Gnb, NEW h \in Gnb, x2[h][g] # <<>>,
         Head(x2[h][g]).type = "HandoverRequestAck", HasUeManager(g, Head(x2[h][g]).old)
  PROVE  LET m == Head(x2[h][g])
             c == ctx[g][m.old]
             x == [x2 EXCEPT ![h][g] = Tail(@)]
         IN  /\ c.st = "HANDOVER_PREPARATION" /\ c.target = h
             /\ m.session # 0 /\ c.session # 0 /\ c.imsi \in Ue /\ c.timers = {}
             /\ \A k \in Gnb : ~Asks(x, g, k, m.old) /\ ~Acks(x, g, k, m.old)
<1> DEFINE m == Head(x2[h][g])
           c == ctx[g][m.old]
           x == [x2 EXCEPT ![h][g] = Tail(@)]
<1>1. /\ g # h /\ m \in X2Message /\ MsgGood(ctx, lastRnti, h, g, m) BY TakenFacts
<1>2. /\ ctx \in Contexts /\ lastRnti \in [Gnb -> 0 .. MaxRnti] /\ x2 \in Channels
      /\ X2Inv(ctx, lastRnti, x2)
  BY DEF GInv, RanInv
<1>3. /\ ~Free(c) /\ ~Done(c)
      /\ c.st = "HANDOVER_PREPARATION" =>
            c.target = h /\ \A k \in Gnb : ~Asks(x, g, k, m.old) /\ ~Acks(x, g, k, m.old)
  <2>1. m.type = "HandoverRequestAck" OBVIOUS
  <2> QED BY <1>1, <1>2, <2>1, TakenTells
<1>4. c \in Context /\ c \in Good(g) /\ c.st \in State BY IsContext
<1>5. c.st = "HANDOVER_PREPARATION"
  <2> HIDE DEF c
  <2> QED BY <1>3, <1>4 DEF Free, Done, State, Engaged, Connecting
<1>6. c.session # 0 /\ c.imsi \in Ue /\ c.timers = {}
  <2> HIDE DEF c
  <2>1. c.session # 0 /\ c.imsi \in Ue BY <1>4, <1>5 DEF Good, Named, Bearing
  <2>2. c.timers = {} BY <1>4, <1>5 DEF Good, Context, Timer, TimerState
  <2> QED BY <2>1, <2>2
<1>7. m.session # 0 BY <1>1 DEF MsgGood
<1> QED BY <1>3, <1>5, <1>6, <1>7

\* The acknowledgement of a handover: the source leaves.
LEMMA RecvHandoverRequestAckKeeps ==
  ASSUME GInv, NEW g \in Gnb, NEW h \in Gnb, x2[h][g] # <<>>,
         Head(x2[h][g]).type = "HandoverRequestAck",
         RecvHandoverRequestAck(g, h, Head(x2[h][g]))
  PROVE  GInv'
<1> DEFINE m == Head(x2[h][g])
           r == m.old
           c == ctx[g][r]
           x == [x2 EXCEPT ![h][g] = Tail(@)]
<1>1. /\ g # h /\ m \in X2Message /\ MsgGood(ctx, lastRnti, h, g, m)
      /\ RanInv(ctx, lastRnti, x)
  BY TakenFacts
<1>2. CASE UNCHANGED <<gnbVars, x2, epcVars>> BY <1>2, GInvStutter
<1>3. ASSUME HasUeManager(g, r),
             SetContext(g, r, [c EXCEPT !.st = "HANDOVER_LEAVING", !.target = h,
                                     !.targetId = m.new, !.timers = @ \cup {"handoverLeaving"}]),
             x2' = [x2 EXCEPT ![h][g] = Tail(@), ![g][h] = Append(@,
                      Message("SnStatusTransfer", r, m.new, None, c.session))],
             UNCHANGED epcVars
      PROVE  GInv'
  <2> DEFINE d == [c EXCEPT !.st = "HANDOVER_LEAVING", !.target = h, !.targetId = m.new,
                            !.timers = @ \cup {"handoverLeaving"}]
             status == Message("SnStatusTransfer", r, m.new, None, c.session)
             cx2 == [ctx EXCEPT ![g][r] = d]
  <2>1. /\ c.st = "HANDOVER_PREPARATION" /\ c.session # 0 /\ c.imsi \in Ue /\ c.timers = {}
        /\ \A k \in Gnb : ~Asks(x, g, k, r) /\ ~Acks(x, g, k, r)
        /\ m.session # 0
    BY <1>3, AckFindsPreparation
  <2>2. r \in Rnti /\ c \in Context /\ c \in Good(g) BY <1>3, IsContext
  <2>3. m.new \in 0 .. MaxRnti /\ m.type = "HandoverRequestAck" BY <1>1 DEF X2Message
  <2>4. /\ d \in Context /\ d.st = "HANDOVER_LEAVING" /\ d.imsi = c.imsi
        /\ d.session = c.session /\ d.source = c.source /\ d.target = h
        /\ d.timers = {"handoverLeaving"}
    BY <2>1, <2>2, <2>3 DEF Context, State, Timer, TimerState
  <2>5. ctx' = cx2 /\ lastRnti' = lastRnti /\ UNCHANGED appVars BY <1>3 DEF SetContext
  <2>6. ctx \in Contexts /\ x2 \in Channels BY DEF GInv, RanInv
  <2>7. cx2[h] = ctx[h] BY <1>1, <2>2, <2>6 DEF Contexts
  <2>8. /\ status \in X2Message /\ status.type = "SnStatusTransfer" /\ status.new = m.new
    <3>1. r \in 0 .. MaxRnti BY <2>2, RanAssumption DEF Rnti
    <3>2. c.session \in 0 .. MaxSession BY <2>2 DEF Context
    <3> HIDE DEF m, c, r
    <3> QED BY <2>3, <3>1, <3>2 DEF Message, X2Message
  <2>9. x2' = [x EXCEPT ![g][h] = Append(@, status)]
    BY <1>1, <1>3, <2>6, <2>8, TakenAndAnswered
  <2> HIDE DEF d, status, cx2, x, m, r
  <2>10. d \in Good(g) BY <1>1, <2>1, <2>2, <2>4 DEF Good, Named, Bearing, TimerState
  <2>11. \A k \in Gnb : Talk(d, ctx, x, g, k, r)
    BY <2>1, <2>4 DEF Talk, Free, Done, Engaged, Connecting
  <2>12. RanInv(cx2, lastRnti, x)
    <3>1. RanInv([ctx EXCEPT ![g][r] = d], lastRnti, x)
      BY <1>1, <2>1, <2>2, <2>4, <2>10, <2>11, ContextSet
    <3> QED BY <3>1 DEF cx2
  <2>13. MsgGood(cx2, lastRnti, g, h, status)
    <3>1. Bears(ctx, lastRnti, h, m.new) BY <1>1, <2>3 DEF MsgGood
    <3>2. Bears(cx2, lastRnti, h, status.new) BY <3>1, <2>7, <2>8 DEF Bears
    <3> QED BY <3>2, <2>8 DEF MsgGood
  <2>14. RanInv(cx2, lastRnti, [x EXCEPT ![g][h] = Append(@, status)])
    BY <1>1, <2>8, <2>12, <2>13, MessageSent
  <2> QED BY <1>3, <2>5, <2>9, <2>14, RanStep
<1>4. CASE HasUeManager(g, r) /\ (m.session = 0) = (c.session = 0)
  <2>1. /\ SetContext(g, r, [c EXCEPT !.st = "HANDOVER_LEAVING", !.target = h,
                                !.targetId = m.new, !.timers = @ \cup {"handoverLeaving"}])
        /\ x2' = [x2 EXCEPT ![h][g] = Tail(@), ![g][h] = Append(@,
                     Message("SnStatusTransfer", r, m.new, None, c.session))]
        /\ UNCHANGED epcVars
    BY <1>4 DEF RecvHandoverRequestAck, Answered
  <2> QED BY <1>3, <1>4, <2>1
<1>5. CASE ~(HasUeManager(g, r) /\ (m.session = 0) = (c.session = 0))
  BY <1>2, <1>5 DEF RecvHandoverRequestAck, Abort, AbortInAnswer
<1> QED BY <1>4, <1>5

\* A handover failed: the source goes on as before, or stays in the leaving state.
LEMMA RecvHandoverPreparationFailureKeeps ==
  ASSUME GInv, NEW g \in Gnb, NEW h \in Gnb, x2[h][g] # <<>>,
         Head(x2[h][g]).type = "HandoverPreparationFailure",
         RecvHandoverPreparationFailure(g, h, Head(x2[h][g]))
  PROVE  GInv'
<1> DEFINE m == Head(x2[h][g])
           r == m.old
           c == ctx[g][r]
           x == [x2 EXCEPT ![h][g] = Tail(@)]
<1>1. /\ g # h /\ m \in X2Message /\ RanInv(ctx, lastRnti, x)
  BY TakenFacts
<1>2. CASE UNCHANGED <<gnbVars, x2, epcVars>> BY <1>2, GInvStutter
<1>3. ASSUME x2' = x, UNCHANGED <<gnbVars, epcVars>> PROVE GInv'
  <2> HIDE DEF x
  <2> QED BY <1>1, <1>3, RanStep DEF gnbVars
<1>4. ASSUME HasUeManager(g, r), c.st = "HANDOVER_PREPARATION", SwitchToNormal(g, r, c),
             x2' = x, UNCHANGED epcVars
      PROVE  GInv'
  <2> DEFINE d == Normal(c)
  <2>1. r \in Rnti /\ c \in Context /\ c \in Good(g) BY <1>4, IsContext
  <2>2. \A k \in Gnb : Silent(ctx, x, g, k, r)
    <3>1. /\ ctx \in Contexts /\ lastRnti \in [Gnb -> 0 .. MaxRnti] /\ x2 \in Channels
          /\ X2Inv(ctx, lastRnti, x2)
      BY DEF GInv, RanInv
    <3>2. m.type = "HandoverPreparationFailure" OBVIOUS
    <3> QED BY <1>1, <1>4, <3>1, <3>2, TakenTells
  <2>3. ctx' = [ctx EXCEPT ![g][r] = d] /\ lastRnti' = lastRnti /\ UNCHANGED appVars
    BY <1>4 DEF SwitchToNormal, SetContext
  <2>4. c.session # 0 BY <1>4, <2>1 DEF Good, Bearing, Named
  <2>5. d \in Good(g)
    <3> HIDE DEF r
    <3>1. /\ c.st \in {"CONNECTED_NORMALLY", "CONNECTION_RECONFIGURATION",
                      "HANDOVER_PATH_SWITCH", "ATTACH_REQUEST", "HANDOVER_PREPARATION"}
          /\ c.st = "ATTACH_REQUEST" => c.session = 0
      BY <1>4
    <3>2. ASSUME NEW e \in Good(g), e = c PROVE Normal(e) \in Good(g)
      <4>1. /\ e \in Context /\ e.session # 0
            /\ e.st \in {"CONNECTED_NORMALLY", "CONNECTION_RECONFIGURATION",
                         "HANDOVER_PATH_SWITCH", "ATTACH_REQUEST", "HANDOVER_PREPARATION"}
            /\ e.st = "ATTACH_REQUEST" => e.session = 0
        BY <3>1, <3>2, <2>1, <2>4
      <4> HIDE DEF c
      <4> QED BY <4>1, NormalGoesOn
    <3> QED BY <2>1, <3>2
  <2>6. /\ d.st \in {"CONNECTED_NORMALLY", "CONNECTION_RECONFIGURATION"}
        /\ d.session = c.session
    BY <2>1, NormalFields
  <2> HIDE DEF d, x, r
  <2>7. \A k \in Gnb : Talk(d, ctx, x, g, k, r) BY <2>2, <2>6 DEF Talk, Done, Connecting
  <2>8. RanInv([ctx EXCEPT ![g][r] = d], lastRnti, x)
    BY <1>1, <1>4, <2>1, <2>4, <2>5, <2>6, <2>7, ContextSet
  <2> QED BY <1>4, <2>3, <2>8, RanStep
<1>5. ASSUME HasUeManager(g, r), c.st = "HANDOVER_LEAVING", SetContext(g, r, StopLeaving(c)),
             x2' = x, UNCHANGED epcVars
      PROVE  GInv'
  <2> DEFINE d == StopLeaving(c)
  <2>1. r \in Rnti /\ c \in Context /\ c \in Good(g) BY <1>5, IsContext
  <2>2. ctx' = [ctx EXCEPT ![g][r] = d] /\ lastRnti' = lastRnti /\ UNCHANGED appVars
    BY <1>5 DEF SetContext
  <2>3. d \in Context /\ d.st = c.st /\ d.imsi = c.imsi /\ d.session = c.session
        /\ d.source = c.source /\ d.target = c.target
        /\ d.timers = c.timers \ {"handoverLeaving"}
    BY <2>1 DEF StopLeaving, Context
  <2> HIDE DEF d, x, r
  <2>4. d \in Good(g) BY <2>1, <2>3 DEF Good
  <2>5. RanInv([ctx EXCEPT ![g][r] = d], lastRnti, x)
    BY <1>1, <1>5, <2>1, <2>3, <2>4, ContextGoesOn DEF Free, Done, Engaged, Connecting
  <2> QED BY <1>5, <2>2, <2>5, RanStep
<1> QED BY <1>2, <1>3, <1>4, <1>5
        DEF RecvHandoverPreparationFailure, Abort, AbortInAnswer, Taken

\* A status transfer reaches a context that has bearers.
LEMMA RecvSnStatusTransferKeeps ==
  ASSUME GInv, NEW g \in Gnb, NEW h \in Gnb, x2[h][g] # <<>>,
         RecvSnStatusTransfer(g, h, Head(x2[h][g]))
  PROVE  GInv'
<1> DEFINE x == [x2 EXCEPT ![h][g] = Tail(@)]
<1>1. RanInv(ctx, lastRnti, x) BY TakenFacts
<1>2. CASE UNCHANGED <<gnbVars, x2, epcVars>> BY <1>2, GInvStutter
<1>3. ASSUME x2' = x, UNCHANGED <<gnbVars, epcVars>> PROVE GInv'
  <2> HIDE DEF x
  <2> QED BY <1>1, <1>3, RanStep DEF gnbVars
<1> QED BY <1>2, <1>3 DEF RecvSnStatusTransfer, Abort, AbortInAnswer, Taken

\* The source forgets the UE that left.
LEMMA RecvUeContextReleaseKeeps ==
  ASSUME GInv, NEW g \in Gnb, NEW h \in Gnb, x2[h][g] # <<>>,
         RecvUeContextRelease(g, h, Head(x2[h][g]))
  PROVE  GInv'
<1> DEFINE r == Head(x2[h][g]).old
           x == [x2 EXCEPT ![h][g] = Tail(@)]
<1>1. RanInv(ctx, lastRnti, x) BY TakenFacts
<1>2. CASE UNCHANGED <<gnbVars, x2, epcVars>> BY <1>2, GInvStutter
<1>3. ASSUME x2' = x, UNCHANGED <<gnbVars, epcVars>> PROVE GInv'
  <2> HIDE DEF x
  <2> QED BY <1>1, <1>3, RanStep DEF gnbVars
<1>4. ASSUME HasUeManager(g, r), RemoveUe(g, r), x2' = x, UNCHANGED epcVars PROVE GInv'
  <2> HIDE DEF x, r
  <2>1. r \in Rnti BY <1>4 DEF HasUeManager
  <2>2. /\ ctx' = [ctx EXCEPT ![g][r] = NoContext] /\ lastRnti' = lastRnti
        /\ UeContextRelease(g, r)
    BY <1>4 DEF RemoveUe
  <2>3. AppOK' BY <2>1, <2>2, UeContextReleaseKeeps
  <2>4. RanInv([ctx EXCEPT ![g][r] = NoContext], lastRnti, x) BY <1>1, <2>1, ContextRemoved
  <2> QED BY <1>4, <2>2, <2>3, <2>4, EpcUnchanged DEF GInv
<1> QED BY <1>2, <1>3, <1>4 DEF RecvUeContextRelease, Abort, AbortInAnswer, Taken

\* A cancel stops the timeout of a context that awaits a UE.
LEMMA RecvHandoverCancelKeeps ==
  ASSUME GInv, NEW g \in Gnb, NEW h \in Gnb, x2[h][g] # <<>>,
         RecvHandoverCancel(g, h, Head(x2[h][g]))
  PROVE  GInv'
<1> DEFINE r == Head(x2[h][g]).new
           c == ctx[g][r]
           x == [x2 EXCEPT ![h][g] = Tail(@)]
<1>1. RanInv(ctx, lastRnti, x) BY TakenFacts
<1>2. CASE UNCHANGED <<gnbVars, x2, epcVars>> BY <1>2, GInvStutter
<1>3. ASSUME x2' = x, UNCHANGED <<gnbVars, epcVars>> PROVE GInv'
  <2> HIDE DEF x
  <2> QED BY <1>1, <1>3, RanStep DEF gnbVars
<1>4. ASSUME HasUeManager(g, r), c.st = "HANDOVER_JOINING",
             SetContext(g, r, [c EXCEPT !.timers = @ \ {"handoverJoining"}]),
             x2' = x, UNCHANGED epcVars
      PROVE  GInv'
  <2> DEFINE d == [c EXCEPT !.timers = @ \ {"handoverJoining"}]
  <2>1. r \in Rnti /\ c \in Context /\ c \in Good(g) BY <1>4, IsContext
  <2>2. ctx' = [ctx EXCEPT ![g][r] = d] /\ lastRnti' = lastRnti /\ UNCHANGED appVars
    BY <1>4 DEF SetContext
  <2>3. d \in Context /\ d.st = c.st /\ d.imsi = c.imsi /\ d.session = c.session
        /\ d.source = c.source /\ d.target = c.target /\ d.sourceId = c.sourceId
        /\ d.timers = c.timers \ {"handoverJoining"}
    BY <2>1 DEF Context
  <2> HIDE DEF d, x, r
  <2>4. d \in Good(g) BY <2>1, <2>3 DEF Good
  <2>5. RanInv([ctx EXCEPT ![g][r] = d], lastRnti, x)
    BY <1>1, <1>4, <2>1, <2>3, <2>4, ContextGoesOn DEF Free, Done, Engaged, Connecting
  <2> QED BY <1>4, <2>2, <2>5, RanStep
<1> QED BY <1>2, <1>3, <1>4 DEF RecvHandoverCancel, Abort, AbortInAnswer, Taken

\* Every X2 message leaves the invariant of the gNBs.
LEMMA RecvX2Keeps ==
  ASSUME GInv, NEW g \in Gnb, NEW h \in Gnb, NEW answer, RecvX2(g, h, answer)
  PROVE  GInv'
<1> DEFINE m == Head(x2[h][g])
<1>0. x2[h][g] # <<>> BY DEF RecvX2
<1>1. CASE m.type = "HandoverRequest" /\ RecvHandoverRequest(g, h, m, answer)
  BY <1>0, <1>1, RecvHandoverRequestKeeps
<1>2. CASE m.type = "HandoverRequestAck" /\ RecvHandoverRequestAck(g, h, m)
  BY <1>0, <1>2, RecvHandoverRequestAckKeeps
<1>3. CASE m.type = "HandoverPreparationFailure" /\ RecvHandoverPreparationFailure(g, h, m)
  BY <1>0, <1>3, RecvHandoverPreparationFailureKeeps
<1>4. CASE RecvSnStatusTransfer(g, h, m) BY <1>0, <1>4, RecvSnStatusTransferKeeps
<1>5. CASE RecvUeContextRelease(g, h, m) BY <1>0, <1>5, RecvUeContextReleaseKeeps
<1>6. CASE RecvHandoverCancel(g, h, m) BY <1>0, <1>6, RecvHandoverCancelKeeps
<1> QED BY <1>1, <1>2, <1>3, <1>4, <1>5, <1>6 DEF RecvX2

-----------------------------------------------------------------------------
\* A timeout expires in the state it was armed in.
LEMMA TimeoutKeeps ==
  ASSUME GInv, NEW g \in Gnb, NEW r \in Rnti, NEW t \in Timer, Timeout(g, r, t)
  PROVE  GInv'
<1> DEFINE c == ctx[g][r]
           fail == Message("HandoverPreparationFailure", c.sourceId, 0, None, 0)
           cancel == Message("HandoverCancel", r, c.targetId, None, 0)
<1>1. c \in Context /\ c \in Good(g) BY ContextIsGood DEF GInv
<1>2. t \in c.timers /\ c.st = TimerState[t] BY <1>1 DEF Timeout, Good
<1>3. RemoveUe(g, r) /\ UNCHANGED epcVars BY <1>2 DEF Timeout
<1>4. /\ ctx' = [ctx EXCEPT ![g][r] = NoContext] /\ lastRnti' = lastRnti
      /\ UeContextRelease(g, r)
  BY <1>3 DEF RemoveUe
<1>5. AppOK' BY <1>4, UeContextReleaseKeeps
<1>6. ASSUME RanInv(ctx', lastRnti', x2') PROVE GInv'
  BY <1>3, <1>5, <1>6, EpcUnchanged DEF GInv
<1>7. CASE x2' = x2
  <2>1. RanInv([ctx EXCEPT ![g][r] = NoContext], lastRnti, x2) BY ContextRemoved DEF GInv
  <2> QED BY <1>4, <1>6, <1>7, <2>1
<1>8. ASSUME t = "handoverJoining", x2' = [x2 EXCEPT ![g][c.source] = Append(@, fail)]
      PROVE  GInv'
  <2>1. c.st = "HANDOVER_JOINING" BY <1>2, <1>8 DEF TimerState
  <2>2. RanInv([ctx EXCEPT ![g][r] = NoContext], lastRnti,
               [x2 EXCEPT ![g][c.source] = Append(@, fail)])
    BY <2>1, JoiningRemoved DEF GInv
  <2> QED BY <1>4, <1>6, <1>8, <2>2
<1>9. ASSUME t = "handoverLeaving", x2' = [x2 EXCEPT ![g][c.target] = Append(@, cancel)]
      PROVE  GInv'
  <2> DEFINE h == c.target
             x == [x2 EXCEPT ![g][h] = Append(@, cancel)]
  <2>1. c.st = "HANDOVER_LEAVING" BY <1>2, <1>9 DEF TimerState
  <2>2. h \in Gnb /\ h # g BY <1>1, <2>1 DEF Good
  <2>3. cancel \in X2Message /\ cancel.type = "HandoverCancel"
    BY <1>1, RanAssumption, EpcAssumption DEF Message, X2Message, Context, Rnti
  <2>4. MsgGood(ctx, lastRnti, g, h, cancel) BY <2>3 DEF MsgGood
  <2>5. x2' = x BY <1>9
  <2> HIDE DEF cancel, h
  <2>6. RanInv(ctx, lastRnti, x) BY <2>2, <2>3, <2>4, MessageSent DEF GInv
  <2> HIDE DEF x
  <2>7. RanInv([ctx EXCEPT ![g][r] = NoContext], lastRnti, x) BY <2>6, ContextRemoved
  <2> QED BY <1>4, <1>6, <2>5, <2>7
<1> QED BY <1>2, <1>7, <1>8, <1>9 DEF Timeout, Sent
=============================================================================
