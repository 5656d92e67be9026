---------------------------- MODULE Uplink_proofs ---------------------------
(***************************************************************************)
(* Proofs about Uplink, for every number of HARQ processes, every delay    *)
(* that is shorter than the life of a process, every number of redundancy  *)
(* versions and every amount of data and trouble.                          *)
(*                                                                         *)
(* The argument follows the processes.  What concerns a process is in one  *)
(* place at a time: a grant or a block under way, feedback at the gNB MAC, *)
(* or a NACK buffered by the scheduler; and whatever that is, it gets to   *)
(* the scheduler before the process is too old.                            *)
(***************************************************************************)
EXTENDS Uplink, FiniteSetTheorems, FunctionTheorems, SequenceTheorems, TLAPS

-----------------------------------------------------------------------------
(* Sequences of which each element is about another process                *)

Once(s) == \A i, j \in DOMAIN s : s[i].p = s[j].p => i = j
Alone(s) == \A i, j \in DOMAIN s : s[i] = s[j] => i = j
Names(s) == {x.p : x \in ToSet(s)}

(***************************************************************************)
(* Counting the members of a finite set of numbers up to each of them is   *)
(* one-to-one: it is how At numbers the positions it keeps.                *)
(***************************************************************************)
LEMMA Ranks ==
    ASSUME NEW n \in Nat, NEW I \in SUBSET (1 .. n)
    PROVE  /\ IsFiniteSet(I)
           /\ Cardinality(I) \in Nat
           /\ \A i \in I : Cardinality({j \in I : j <= i}) \in 1 .. Cardinality(I)
           /\ \A i, k \in I : Cardinality({j \in I : j <= i}) = Cardinality({j \in I : j <= k}) => i = k
           /\ \A m \in 1 .. Cardinality(I) : \E i \in I : Cardinality({j \in I : j <= i}) = m
<1> DEFINE Below(i) == {j \in I : j <= i}
           rank == [i \in I |-> Cardinality(Below(i))]
           c == Cardinality(I)
<1>1. IsFiniteSet(I) /\ c \in Nat
  <2>1. IsFiniteSet(1 .. n)
    BY FS_Interval
  <2> QED BY <2>1, FS_Subset, FS_CardinalityType
<1>2. ASSUME NEW i \in I PROVE IsFiniteSet(Below(i)) /\ Cardinality(Below(i)) \in 1 .. c
  <2>1. Below(i) \in SUBSET I /\ i \in Below(i)
    OBVIOUS
  <2>2. IsFiniteSet(Below(i)) /\ Cardinality(Below(i)) <= c
    BY <1>1, <2>1, FS_Subset
  <2>3. Cardinality(Below(i)) \in Nat /\ Cardinality(Below(i)) # 0
    BY <2>1, <2>2, FS_CardinalityType, FS_EmptySet
  <2> HIDE DEF Below, c
  <2> QED BY <1>1, <2>2, <2>3
<1>3. ASSUME NEW i \in I, NEW k \in I, i < k PROVE Cardinality(Below(i)) # Cardinality(Below(k))
  <2>1. Below(i) \in SUBSET Below(k) /\ k \in Below(k) /\ k \notin Below(i)
    <3>1. \A j \in I : j \in Nat
      OBVIOUS
    <3>2. \A j \in I : j <= i => j <= k
      BY <1>3, <3>1
    <3>3. k <= k /\ ~(k <= i)
      BY <1>3, <3>1
    <3> QED BY <3>2, <3>3
  <2>2. Cardinality(Below(k)) = Cardinality(Below(i)) => Below(k) = Below(i)
    BY <2>1, <1>2, FS_Subset
  <2> QED BY <2>1, <2>2
<1>4. \A i, k \in I : Cardinality(Below(i)) = Cardinality(Below(k)) => i = k
  <2> SUFFICES ASSUME NEW i \in I, NEW k \in I, Cardinality(Below(i)) = Cardinality(Below(k)), i # k
               PROVE  FALSE
    OBVIOUS
  <2>1. i < k \/ k < i
    OBVIOUS
  <2> HIDE DEF Below
  <2> QED BY <1>3, <2>1
<1>5. rank \in Injection(I, 1 .. c)
  <2> HIDE DEF Below, c
  <2>1. rank \in [I -> 1 .. c]
    BY <1>2
  <2> QED BY <2>1, <1>4 DEF Injection, IsInjective
<1>6. IsFiniteSet(1 .. c) /\ Cardinality(1 .. c) = c
  <2> HIDE DEF c
  <2>1. IsFiniteSet(1 .. c) /\ Cardinality(1 .. c) = IF 1 > c THEN 0 ELSE c - 1 + 1
    BY <1>1, FS_Interval
  <2> QED BY <2>1, <1>1
<1>7. rank \in Surjection(I, 1 .. c)
  BY <1>5, <1>6, FS_Injection
<1>8. \A m \in 1 .. c : \E i \in I : Cardinality(Below(i)) = m
  <2> HIDE DEF Below, c
  <2> QED BY <1>7 DEF Surjection
<1> QED BY <1>1, <1>2, <1>4, <1>8

(***************************************************************************)
(* At keeps the elements at the positions it is given and no other, and    *)
(* keeps them apart.                                                       *)
(***************************************************************************)
LEMMA AtKeeps ==
    ASSUME NEW S, NEW s \in Seq(S), NEW I \in SUBSET (DOMAIN s)
    PROVE  /\ At(s, I) \in Seq(S)
           /\ ToSet(At(s, I)) = {s[i] : i \in I}
           /\ Once(s) => Once(At(s, I))
<1> DEFINE rank(i) == Cardinality({j \in I : j <= i})
           c == Cardinality(I)
           nth(k) == CHOOSE i \in I : rank(i) = k
           t == [k \in 1 .. c |-> s[nth(k)]]
<1>1. At(s, I) = t
  BY DEF At
<1>2. DOMAIN s = 1 .. Len(s) /\ Len(s) \in Nat /\ \A i \in DOMAIN s : s[i] \in S
  OBVIOUS
<1>3. /\ c \in Nat
      /\ \A i \in I : rank(i) \in 1 .. c
      /\ \A i, k \in I : rank(i) = rank(k) => i = k
      /\ \A m \in 1 .. c : \E i \in I : rank(i) = m
  BY <1>2, Ranks
<1> HIDE DEF rank, c
<1>4. \A k \in 1 .. c : nth(k) \in I /\ rank(nth(k)) = k
  BY <1>3
<1>5. \A i \in I : nth(rank(i)) = i
  BY <1>3, <1>4
<1> HIDE DEF nth
<1>6. t \in Seq(S) /\ DOMAIN t = 1 .. c /\ \A k \in 1 .. c : t[k] = s[nth(k)]
  <2>1. \A k \in 1 .. c : s[nth(k)] \in S
    BY <1>2, <1>4
  <2>2. t \in [1 .. c -> S]
    BY <2>1
  <2>3. t \in Seq(S)
    BY <2>2, <1>3
  <2> QED BY <2>3
<1> HIDE DEF t
<1>7. ToSet(t) = {s[i] : i \in I}
  <2>1. ToSet(t) = {t[k] : k \in 1 .. c}
    BY <1>6 DEF ToSet
  <2>2. \A k \in 1 .. c : t[k] \in {s[i] : i \in I}
    BY <1>4, <1>6
  <2>3. \A i \in I : s[i] = t[rank(i)] /\ rank(i) \in 1 .. c
    BY <1>3, <1>5, <1>6
  <2> QED BY <2>1, <2>2, <2>3
<1>8. Once(s) => Once(t)
  <2> SUFFICES ASSUME Once(s), NEW k \in 1 .. c, NEW l \in 1 .. c, t[k].p = t[l].p
               PROVE  k = l
    BY <1>6 DEF Once
  <2>1. nth(k) \in DOMAIN s /\ nth(l) \in DOMAIN s
    BY <1>4
  <2>2. s[nth(k)].p = s[nth(l)].p
    BY <1>6
  <2>3. nth(k) = nth(l)
    BY <2>1, <2>2 DEF Once
  <2> QED BY <1>4, <2>3
<1> QED BY <1>1, <1>6, <1>7, <1>8
(***************************************************************************)
(* The first element leaves a sequence.                                    *)
(***************************************************************************)
LEMMA TailKeeps ==
    ASSUME NEW S, NEW s \in Seq(S), s # <<>>
    PROVE  /\ Head(s) \in S
           /\ Head(s) \in ToSet(s)
           /\ Tail(s) \in Seq(S)
           /\ ToSet(Tail(s)) \subseteq ToSet(s)
           /\ ToSet(s) \subseteq ToSet(Tail(s)) \cup {Head(s)}
           /\ Once(s) => Once(Tail(s)) /\ \A x \in ToSet(Tail(s)) : x.p # Head(s).p
<1>1. /\ Len(s) \in Nat \ {0}
      /\ DOMAIN s = 1 .. Len(s)
      /\ \A i \in 1 .. Len(s) : s[i] \in S
      /\ Head(s) = s[1]
  BY HeadTailProperties
<1>2. /\ Tail(s) \in Seq(S)
      /\ DOMAIN Tail(s) = 1 .. Len(s) - 1
      /\ \A i \in 1 .. Len(s) - 1 : Tail(s)[i] = s[i + 1]
  <2>1. Tail(s) \in Seq(S) /\ Len(Tail(s)) = Len(s) - 1 /\ \A i \in 1 .. Len(Tail(s)) : Tail(s)[i] = s[i + 1]
    BY HeadTailProperties
  <2> QED BY <2>1
<1> DEFINE t == Tail(s)
           n == Len(s)
<1> HIDE DEF t, n
<1>3. ToSet(s) = {s[i] : i \in 1 .. n} /\ ToSet(t) = {t[i] : i \in 1 .. n - 1}
  BY <1>1, <1>2 DEF ToSet, t, n
<1>4. ToSet(t) \subseteq ToSet(s) /\ Head(s) \in ToSet(s)
  <2>1. \A i \in 1 .. n - 1 : i + 1 \in 1 .. n
    BY <1>1 DEF n
  <2>2. 1 \in 1 .. n
    BY <1>1 DEF n
  <2> QED BY <1>1, <1>2, <1>3, <2>1, <2>2 DEF t, n
<1>5. ToSet(s) \subseteq ToSet(t) \cup {Head(s)}
  <2>1. \A i \in 1 .. n : i = 1 \/ (i - 1 \in 1 .. n - 1 /\ i - 1 + 1 = i)
    BY <1>1 DEF n
  <2>2. ASSUME NEW i \in 1 .. n PROVE s[i] \in ToSet(t) \cup {Head(s)}
    <3>1. CASE i = 1
      BY <3>1, <1>1
    <3>2. CASE i - 1 \in 1 .. n - 1 /\ i - 1 + 1 = i
      <4>1. t[i - 1] = s[i - 1 + 1]
        BY <3>2, <1>2 DEF t, n
      <4> QED BY <4>1, <3>2, <1>3
    <3> QED BY <2>1, <3>1, <3>2
  <2> QED BY <1>3, <2>2
<1>6. ASSUME Once(s) PROVE Once(t) /\ \A x \in ToSet(t) : x.p # Head(s).p
  <2>1. \A i, j \in 1 .. n : s[i].p = s[j].p => i = j
    BY <1>1, <1>6 DEF Once, n
  <2>2. ASSUME NEW i \in 1 .. n - 1, NEW j \in 1 .. n - 1, t[i].p = t[j].p PROVE i = j
    <3>1. i + 1 \in 1 .. n /\ j + 1 \in 1 .. n /\ (i + 1 = j + 1 => i = j)
      BY <1>1 DEF n
    <3>2. s[i + 1].p = s[j + 1].p
      BY <1>2, <2>2 DEF t, n
    <3> QED BY <2>1, <3>1, <3>2
  <2>3. ASSUME NEW i \in 1 .. n - 1 PROVE t[i].p # Head(s).p
    <3>1. i + 1 \in 1 .. n /\ 1 \in 1 .. n /\ i + 1 # 1
      BY <1>1 DEF n
    <3> QED BY <1>1, <1>2, <2>1, <3>1 DEF t, n
  <2>4. DOMAIN t = 1 .. n - 1
    BY <1>2 DEF t, n
  <2> QED BY <1>3, <2>2, <2>3, <2>4 DEF Once
<1> QED BY <1>1, <1>2, <1>4, <1>5, <1>6 DEF t, n

(***************************************************************************)
(* Two sequences, one after the other.                                     *)
(***************************************************************************)
LEMMA ConcatKeeps ==
    ASSUME NEW S, NEW s \in Seq(S), NEW t \in Seq(S)
    PROVE  /\ s \o t \in Seq(S)
           /\ ToSet(s \o t) = ToSet(s) \cup ToSet(t)
           /\ Once(s) /\ Once(t) /\ (\A x \in ToSet(s), y \in ToSet(t) : x.p # y.p)
              => Once(s \o t)
<1> DEFINE c == s \o t
           m == Len(s)
           n == Len(t)
<1>1. /\ m \in Nat /\ n \in Nat
      /\ DOMAIN s = 1 .. m /\ DOMAIN t = 1 .. n
  OBVIOUS
<1>2. /\ c \in Seq(S)
      /\ Len(c) = m + n
      /\ \A i \in 1 .. m + n : c[i] = IF i <= m THEN s[i] ELSE t[i - m]
  BY ConcatProperties
<1>3. DOMAIN c = 1 .. m + n
  BY <1>2
<1> HIDE DEF c, m, n
<1>4. ToSet(s) = {s[i] : i \in 1 .. m} /\ ToSet(t) = {t[i] : i \in 1 .. n}
      /\ ToSet(c) = {c[i] : i \in 1 .. m + n}
  BY <1>1, <1>3 DEF ToSet
<1>5. \A i \in 1 .. m : i \in 1 .. m + n /\ c[i] = s[i]
  BY <1>1, <1>2
<1>6. \A i \in 1 .. n : m + i \in 1 .. m + n /\ c[m + i] = t[i]
  <2> SUFFICES ASSUME NEW i \in 1 .. n PROVE m + i \in 1 .. m + n /\ c[m + i] = t[i]
    OBVIOUS
  <2>1. m + i \in 1 .. m + n /\ ~(m + i <= m) /\ m + i - m = i
    BY <1>1
  <2>2. PICK k \in 1 .. m + n : k = m + i
    BY <2>1
  <2>3. ~(k <= m) /\ k - m = i
    BY <1>1, <2>2
  <2>4. c[k] = t[k - m]
    BY <1>2, <2>3
  <2> QED BY <2>1, <2>2, <2>3, <2>4
<1>7. \A k \in 1 .. m + n : k \in 1 .. m \/ (k - m \in 1 .. n /\ k = m + (k - m))
  BY <1>1
<1>8. ToSet(c) = ToSet(s) \cup ToSet(t)
  BY <1>4, <1>5, <1>6, <1>7
<1>9. ASSUME Once(s), Once(t), \A x \in ToSet(s), y \in ToSet(t) : x.p # y.p
      PROVE  Once(c)
  <2> SUFFICES ASSUME NEW k \in 1 .. m + n, NEW l \in 1 .. m + n, c[k].p = c[l].p
               PROVE  k = l
    BY <1>3 DEF Once
  <2>1. CASE k \in 1 .. m /\ l \in 1 .. m
    BY <2>1, <1>1, <1>5, <1>9 DEF Once
  <2>2. CASE k - m \in 1 .. n /\ l - m \in 1 .. n /\ k = m + (k - m) /\ l = m + (l - m)
    <3>1. t[k - m].p = t[l - m].p
      BY <2>2, <1>6
    <3>2. k - m = l - m
      BY <3>1, <2>2, <1>1, <1>9 DEF Once
    <3> QED BY <3>2, <2>2
  <2>3. CASE k \in 1 .. m /\ l - m \in 1 .. n /\ l = m + (l - m)
    <3>1. c[k] \in ToSet(s) /\ c[l] \in ToSet(t)
      BY <2>3, <1>4, <1>5, <1>6
    <3> QED BY <3>1, <1>9
  <2>4. CASE l \in 1 .. m /\ k - m \in 1 .. n /\ k = m + (k - m)
    <3>1. c[l] \in ToSet(s) /\ c[k] \in ToSet(t)
      BY <2>4, <1>4, <1>5, <1>6
    <3> QED BY <3>1, <1>9
  <2> QED BY <1>7, <2>1, <2>2, <2>3, <2>4
<1> QED BY <1>2, <1>8, <1>9 DEF c

(***************************************************************************)
(* An element joins a sequence.                                            *)
(***************************************************************************)
LEMMA AppendKeeps ==
    ASSUME NEW S, NEW s \in Seq(S), NEW e \in S
    PROVE  /\ Append(s, e) \in Seq(S)
           /\ ToSet(Append(s, e)) = ToSet(s) \cup {e}
           /\ Once(s) /\ (\A x \in ToSet(s) : x.p # e.p) => Once(Append(s, e))
<1>1. <<e>> \in Seq(S) /\ DOMAIN <<e>> = {1} /\ <<e>>[1] = e
  OBVIOUS
<1>2. ToSet(<<e>>) = {e} /\ Once(<<e>>)
  BY <1>1 DEF ToSet, Once
<1>3. Append(s, e) = s \o <<e>>
  BY AppendIsConcat
<1>4. (\A x \in ToSet(s) : x.p # e.p) => \A x \in ToSet(s), y \in ToSet(<<e>>) : x.p # y.p
  BY <1>2
<1>5. /\ s \o <<e>> \in Seq(S)
      /\ ToSet(s \o <<e>>) = ToSet(s) \cup ToSet(<<e>>)
      /\ Once(s) /\ Once(<<e>>) /\ (\A x \in ToSet(s), y \in ToSet(<<e>>) : x.p # y.p)
         => Once(s \o <<e>>)
  BY <1>1, ConcatKeeps
<1> HIDE DEF ToSet
<1> QED BY <1>2, <1>3, <1>4, <1>5

-----------------------------------------------------------------------------
(* The inductive invariant                                                 *)

\* A grant, block or feedback of the sequence is about process p; it is a
\* retransmission; it is a NACK.
About(s, p) == \E x \in ToSet(s) : x.p = p
Again(s, p) == \E x \in ToSet(s) : x.p = p /\ x.ndi = 0
Refused(s, p) == \E x \in ToSet(s) : x.p = p /\ ~x.ok

Postponed(p) == p \in ToSet(ulHarqToRetransmit)

Process == [status : {"INACTIVE", "WAITING_FEEDBACK", "RECEIVED_FEEDBACK"},
            timer : 0 .. NumHarqProcess, rv : 0 .. MaxRv]

\* What concerns a process is in one place.
OnePlace ==
    /\ Once(dcis)
    /\ Once(tbs)
    /\ Once(ulHarqInfoReceived)
    /\ Alone(ulHarqToRetransmit)
    /\ \A p \in HarqId :
        /\ About(dcis, p) => ~About(tbs, p) /\ ~About(ulHarqInfoReceived, p) /\ ~Postponed(p)
        /\ About(tbs, p) => ~About(ulHarqInfoReceived, p) /\ ~Postponed(p)
        /\ About(ulHarqInfoReceived, p) => ~Postponed(p)

Concerned(p) ==
    \/ About(dcis, p)
    \/ About(tbs, p)
    \/ About(ulHarqInfoReceived, p)
    \/ Postponed(p)

\* The process waits for it, and is not too old; the redundancy version in it
\* is that of the process.
InTime ==
    /\ \A p \in HarqId : Concerned(p) => /\ ulHarq[p].status = "WAITING_FEEDBACK"
                                         /\ ulHarq[p].timer <= MaxDelay
    /\ \A p \in HarqId : Postponed(p) => ulHarq[p].timer = 0 /\ ~IsLastRv(ulHarq[p].rv)
    /\ \A p \in HarqId : ~enableHarqReTx => ulHarq[p].rv = 0
    /\ \A d \in ToSet(dcis) : d.rv = ulHarq[d.p].rv
    /\ \A tb \in ToSet(tbs) : tb.rv = ulHarq[tb.p].rv

\* Blocks carry the burst that the UE keeps for the process; the gNB combined
\* nothing else with it.
SameBurst ==
    /\ \A tb \in ToSet(tbs) : tb.data = harqPacket[tb.p]
    /\ \A p \in HarqId :
        \/ About(ulHarqInfoReceived, p)
        \/ Postponed(p)
        \/ Again(dcis, p)
        \/ Again(tbs, p)
        => harqPacket[p] # EmptyBurst /\ harqHistory[p] \subseteq {harqPacket[p]}
    /\ \A p \in HarqId : \A a, b \in harqHistory[p] : a = b

\* The data of a process; it was received or given up; it may still arrive.
Mine(p) == harqPacket[p] \cap Data
Settled(p) == Mine(p) \subseteq received \cup writtenOff
OnTheWay(p) ==
    \/ About(tbs, p)
    \/ Postponed(p)
    \/ Again(dcis, p)
    \/ Refused(ulHarqInfoReceived, p) /\ ~IsLastRv(ulHarq[p].rv)

\* Data that may still arrive has not arrived before; the bursts of two
\* processes differ; what was sent is in a burst or settled.
Accounted ==
    /\ \A p \in HarqId : OnTheWay(p) \/ Settled(p)
    /\ \A p \in HarqId :
        About(tbs, p) \/ Postponed(p) \/ Again(dcis, p) \/ Refused(ulHarqInfoReceived, p)
        => Mine(p) \cap received = {}
    /\ \A p, q \in HarqId : p # q => Mine(p) \cap Mine(q) = {}
    /\ received \subseteq 1 .. sent
    /\ \A p \in HarqId : Mine(p) \subseteq 1 .. sent
    /\ \A n \in 1 .. sent : n \in received \cup writtenOff \/ \E p \in HarqId : n \in Mine(p)

IInv == TypeOK /\ AssertionsHold /\ OnePlace /\ InTime /\ SameBurst /\ Accounted

-----------------------------------------------------------------------------
(* Consequences of the invariant                                           *)

(***************************************************************************)
(* The invariant implies the properties that the runs check.               *)
(***************************************************************************)
LEMMA InvImplies ==
    ASSUME IInv
    PROVE  NoMixedCombining /\ DataStaysUnderHarq /\ NothingTwice
<1>1. NoMixedCombining
  <2>1. ASSUME NEW i \in DOMAIN tbs, NEW a \in Combined(tbs[i]) PROVE a = tbs[i].data
    <3>1. tbs[i] \in Tb /\ tbs[i] \in ToSet(tbs)
      BY DEF IInv, TypeOK, ToSet
    <3>2. tbs[i].p \in HarqId /\ tbs[i].ndi \in 0 .. 1
      BY <3>1 DEF Tb
    <3>3. tbs[i].ndi = 0 /\ a \in harqHistory[tbs[i].p]
      BY <2>1, <3>2 DEF Combined
    <3>4. Again(tbs, tbs[i].p)
      BY <3>1, <3>3 DEF Again
    <3>5. harqHistory[tbs[i].p] \subseteq {harqPacket[tbs[i].p]}
      BY <3>2, <3>4 DEF IInv, SameBurst
    <3> QED BY <3>1, <3>3, <3>5 DEF IInv, SameBurst
  <2> QED BY <2>1 DEF NoMixedCombining, IInv, SameBurst
<1>2. DataStaysUnderHarq
  <2> SUFFICES ASSUME NEW n \in 1 .. sent,
                      n \notin received \cup writtenOff
               PROVE  n \in UNION {harqPacket[p] : p \in {q \in HarqId : Active(ulHarq, q)}}
    BY DEF DataStaysUnderHarq
  <2>1. PICK p \in HarqId : n \in Mine(p)
    BY DEF IInv, Accounted
  <2>2. OnTheWay(p)
    BY <2>1 DEF IInv, Accounted, Settled
  <2>3. Concerned(p)
    BY <2>2 DEF OnTheWay, Concerned, Again, Refused, About
  <2>4. Active(ulHarq, p)
    BY <2>3 DEF IInv, InTime, Active
  <2> QED BY <2>1, <2>4 DEF Mine
<1>3. NothingTwice
  <2> SUFFICES ASSUME NEW i \in DOMAIN tbs
               PROVE  tbs[i].data \cap received = {}
    BY DEF NothingTwice
  <2>1. tbs[i] \in Tb /\ tbs[i] \in ToSet(tbs)
    BY DEF IInv, TypeOK, ToSet
  <2>2. tbs[i].p \in HarqId /\ tbs[i].data \subseteq Data
    BY <2>1 DEF Tb
  <2>3. tbs[i].data = harqPacket[tbs[i].p]
    BY <2>1 DEF IInv, SameBurst
  <2>4. About(tbs, tbs[i].p)
    BY <2>1 DEF About
  <2>5. Mine(tbs[i].p) \cap received = {}
    BY <2>2, <2>4 DEF IInv, Accounted
  <2> QED BY <2>2, <2>3, <2>5 DEF Mine
<1> QED BY <1>1, <1>2, <1>3

(***************************************************************************)
(* The initial states satisfy the invariant.                               *)
(***************************************************************************)
LEMMA InitInv ==
    ASSUME Init
    PROVE  IInv
<1> USE UlAirAssumption, UeMacAssumption
<1>1. /\ dcis = <<>> /\ tbs = <<>> /\ ulHarqInfoReceived = <<>> /\ ulHarqToRetransmit = <<>>
      /\ ulHarq = [p \in HarqId |-> Erased] /\ harqPacket = [p \in HarqId |-> EmptyBurst]
      /\ harqHistory = [p \in HarqId |-> {}]
      /\ received = {} /\ writtenOff = {} /\ sent = 0 /\ abort = "none"
  BY DEF Init, GnbInit, UeInit
<1>2. TypeOK
  <2>1. UeTypeOK
    <3>1. accepted \in 0 .. MaxData /\ sent \in 0 .. accepted /\ srCounter \in 0 .. SrTransMax
      BY DEF Init, UeInit, UlAirAssumption, UeMacAssumption
    <3>2. ulBsr \in BOOLEAN /\ prohibit \in BOOLEAN /\ ra \in BOOLEAN
      BY DEF Init, UeInit
    <3>3. harqPacket \in [HarqId -> (SUBSET Data) \cup {EmptyBurst}]
      BY DEF Init, UeInit
    <3>4. srState \in {"INACTIVE", "TO_SEND", "ACTIVE"}
      BY DEF Init, UeInit
    <3> QED BY <3>1, <3>2, <3>3, <3>4 DEF UeTypeOK
  <2>2. Erased \in Process
    BY DEF Erased, Process, UlAirAssumption
  <2>3. GnbTypeOK
    <3>1. ulHarq \in [HarqId -> Process]
      BY <1>1, <2>2
    <3>2. srList \in BOOLEAN /\ srBytesPending \in BOOLEAN /\ lcg \in BOOLEAN
          /\ enableHarqReTx \in BOOLEAN
      BY DEF Init, GnbInit
    <3>3. ulCeReceived \in {"none", "empty", "backlog"}
      BY DEF Init, GnbInit
    <3>4. ulHarqInfoReceived \in Seq(Feedback) /\ ulHarqToRetransmit \in Seq(HarqId)
      BY <1>1
    <3> QED BY <3>1, <3>2, <3>3, <3>4 DEF GnbTypeOK, Process
  <2>4. dcis \in Seq(Dci) /\ tbs \in Seq(Tb)
    BY <1>1
  <2>5. harqHistory \in [HarqId -> SUBSET SUBSET Data]
    BY <1>1
  <2>6. sr \in BOOLEAN
    BY DEF Init
  <2>7. trouble \in 0 .. MaxTrouble
    BY DEF Init, UlAirAssumption
  <2> QED BY <1>1, <2>1, <2>3, <2>4, <2>5, <2>6, <2>7 DEF TypeOK
<1>3. ToSet(<<>>) = {}
  BY DEF ToSet
<1>4. \A p : ~About(<<>>, p) /\ ~Again(<<>>, p) /\ ~Refused(<<>>, p) /\ ~Postponed(p)
  BY <1>1, <1>3 DEF About, Again, Refused, Postponed
<1>5. OnePlace
  <2>1. Once(<<>>) /\ Alone(<<>>)
    BY DEF Once, Alone
  <2> QED BY <1>1, <1>4, <2>1 DEF OnePlace
<1>6. InTime
  BY <1>1, <1>3, <1>4 DEF InTime, Concerned, Erased
<1>7. SameBurst
  BY <1>1, <1>3, <1>4 DEF SameBurst
<1>8. \A p \in HarqId : Mine(p) = {}
  BY <1>1 DEF Mine, EmptyBurst, Data
<1>9. Accounted
  BY <1>1, <1>4, <1>8 DEF Accounted, Settled
<1> QED BY <1>1, <1>2, <1>5, <1>6, <1>7, <1>9 DEF IInv, AssertionsHold

(***************************************************************************)
(* Steps that touch no process.                                            *)
(***************************************************************************)
LEMMA QuietStep ==
    ASSUME IInv, TypeOK', abort' = abort,
           UNCHANGED <<dcis, tbs, ulHarqInfoReceived, ulHarqToRetransmit, ulHarq,
                       enableHarqReTx, harqPacket, harqHistory, received, writtenOff, sent>>
    PROVE  IInv'
<1>1. AssertionsHold'
  BY DEF IInv, AssertionsHold
<1>2. OnePlace'
  BY DEF IInv, OnePlace, Postponed
<1>3. InTime'
  BY DEF IInv, InTime, Concerned, Postponed, IsLastRv
<1>4. SameBurst'
  BY DEF IInv, SameBurst, Postponed
<1>5. Accounted'
  BY DEF IInv, Accounted, Settled, OnTheWay, Mine, Postponed, IsLastRv
<1> QED BY <1>1, <1>2, <1>3, <1>4, <1>5 DEF IInv

-----------------------------------------------------------------------------
(* The UE                                                                  *)

(***************************************************************************)
(* Steps of the UE leave the gNB alone.                                    *)
(***************************************************************************)
LEMMA GnbTypeKept ==
    ASSUME TypeOK, UNCHANGED gnbVars
    PROVE  GnbTypeOK'
BY DEF TypeOK, GnbTypeOK, gnbVars

(***************************************************************************)
(* Reports of RLC, requests and their timer touch no process.              *)
(***************************************************************************)
LEMMA RequestKeeps ==
    ASSUME IInv,
           \/ Ue(Submit)
           \/ Ue(ExpireBsrTimer)
           \/ Ue(ExpireSrProhibitTimer)
           \/ Ue(SlotIndication)
    PROVE  IInv'
<1> DEFINE Rest == UNCHANGED <<dcis, tbs, gnbVars, phyVars, harqPacket, sent, abort>>
           Own == /\ accepted' \in 0 .. MaxData /\ sent \in 0 .. accepted'
                  /\ ulBsr' \in BOOLEAN /\ prohibit' \in BOOLEAN /\ ra' \in BOOLEAN /\ sr' \in BOOLEAN
                  /\ srState' \in {"INACTIVE", "TO_SEND", "ACTIVE"}
                  /\ srCounter' \in 0 .. SrTransMax
                  /\ trouble' \in 0 .. MaxTrouble
<1>1. TypeOK
  BY DEF IInv
<1>2. /\ accepted \in 0 .. MaxData /\ sent \in 0 .. accepted
      /\ ulBsr \in BOOLEAN /\ prohibit \in BOOLEAN /\ ra \in BOOLEAN /\ sr \in BOOLEAN
      /\ srState \in {"INACTIVE", "TO_SEND", "ACTIVE"}
      /\ srCounter \in 0 .. SrTransMax
      /\ trouble \in 0 .. MaxTrouble
  BY <1>1 DEF TypeOK, UeTypeOK
<1>3. MaxData \in Nat /\ SrTransMax \in Nat /\ MaxTrouble \in Nat
  BY UlAirAssumption, UeMacAssumption
<1>4. ASSUME Ue(Submit) PROVE Rest /\ Own
  <2>1. Rest
    BY <1>4 DEF Ue, Submit, airVars
  <2>2. Own
    <3>1. accepted' = accepted + 1 /\ accepted < MaxData /\ ulBsr' = TRUE /\ srState' = "TO_SEND"
          /\ UNCHANGED <<prohibit, ra, sr, trouble>>
          /\ srCounter' = IF srState = "INACTIVE" THEN 0 ELSE srCounter
      BY <1>4 DEF Ue, Submit, TransmitBufferStatusReport, airVars
    <3>2. accepted' \in 0 .. MaxData /\ sent \in 0 .. accepted' /\ srCounter' \in 0 .. SrTransMax
      BY <1>2, <1>3, <3>1
    <3> QED BY <1>2, <3>1, <3>2
  <2> QED BY <2>1, <2>2
<1>5. ASSUME Ue(ExpireBsrTimer) PROVE Rest /\ Own
  <2>1. Rest
    BY <1>5 DEF Ue, ExpireBsrTimer
  <2>2. Own
    <3>1. /\ ulBsr' = TRUE /\ srState' = "TO_SEND"
          /\ UNCHANGED <<accepted, prohibit, ra, sr>>
          /\ srCounter' = IF srState = "INACTIVE" THEN 0 ELSE srCounter
      BY <1>5 DEF Ue, ExpireBsrTimer, TransmitBufferStatusReport
    <3>2. trouble' = trouble \/ (trouble < MaxTrouble /\ trouble' = trouble + 1)
      BY <1>5 DEF Ue, ExpireBsrTimer
    <3>3. srCounter' \in 0 .. SrTransMax
      BY <1>2, <1>3, <3>1
    <3>4. trouble' \in 0 .. MaxTrouble
      BY <1>2, <1>3, <3>2
    <3> QED BY <1>2, <3>1, <3>3, <3>4
  <2> QED BY <2>1, <2>2
<1>6. ASSUME Ue(ExpireSrProhibitTimer) PROVE Rest /\ Own
  <2>1. Rest
    BY <1>6 DEF Ue, ExpireSrProhibitTimer, airVars
  <2>2. Own
    <3>1. prohibit' = FALSE /\ UNCHANGED <<accepted, ulBsr, srState, srCounter, ra, sr, trouble>>
      BY <1>6 DEF Ue, ExpireSrProhibitTimer, airVars
    <3> QED BY <1>2, <3>1
  <2> QED BY <2>1, <2>2
<1>7. ASSUME Ue(SlotIndication) PROVE Rest /\ Own
  <2>1. Rest
    BY <1>7 DEF Ue, SlotIndication
  <2>2. Own
    <3>1. /\ UNCHANGED <<accepted, ulBsr, trouble>>
          /\ \/ /\ srCounter < SrTransMax /\ sr' = TRUE /\ srCounter' = srCounter + 1
                /\ prohibit' = TRUE /\ srState' = "ACTIVE" /\ ra' = ra
             \/ ra' = TRUE /\ srCounter' = 0 /\ prohibit' = FALSE /\ srState' = "INACTIVE" /\ sr' = sr
      BY <1>7 DEF Ue, SlotIndication
    <3>2. srCounter' \in 0 .. SrTransMax
      BY <1>2, <1>3, <3>1
    <3>3. sr' \in BOOLEAN /\ ra' \in BOOLEAN /\ prohibit' \in BOOLEAN
      BY <1>2, <3>1
    <3>4. srState' \in {"INACTIVE", "TO_SEND", "ACTIVE"}
      BY <3>1
    <3> QED BY <1>2, <3>1, <3>2, <3>3, <3>4
  <2> QED BY <2>1, <2>2
<1>8. Rest /\ Own
  BY <1>4, <1>5, <1>6, <1>7
<1>9. TypeOK'
  <2>1. UeTypeOK'
    BY <1>1, <1>8 DEF TypeOK, UeTypeOK
  <2>2. GnbTypeOK'
    BY <1>1, <1>8, GnbTypeKept
  <2> QED BY <1>1, <1>8, <2>1, <2>2 DEF TypeOK, phyVars
<1> QED BY <1>8, <1>9, QuietStep DEF gnbVars, phyVars

(***************************************************************************)
(* The first element leaves, and with it what concerns its process; an     *)
(* element joins.                                                          *)
(***************************************************************************)
LEMMA Leaving ==
    ASSUME NEW S, NEW s \in Seq(S), s # <<>>, Once(s)
    PROVE  /\ \A p : About(Tail(s), p) <=> About(s, p) /\ p # Head(s).p
           /\ \A p : Again(Tail(s), p) <=> Again(s, p) /\ p # Head(s).p
           /\ About(s, Head(s).p)
           /\ Again(s, Head(s).p) <=> Head(s).ndi = 0
<1>1. /\ Head(s) \in ToSet(s)
      /\ ToSet(Tail(s)) \subseteq ToSet(s)
      /\ ToSet(s) \subseteq ToSet(Tail(s)) \cup {Head(s)}
      /\ \A x \in ToSet(Tail(s)) : x.p # Head(s).p
  BY TailKeeps
<1> QED BY <1>1 DEF About, Again

LEMMA Joining ==
    ASSUME NEW S, NEW s \in Seq(S), NEW e \in S
    PROVE  /\ \A p : About(Append(s, e), p) <=> About(s, p) \/ p = e.p
           /\ \A p : Again(Append(s, e), p) <=> Again(s, p) \/ (p = e.p /\ e.ndi = 0)
           /\ \A p : Refused(Append(s, e), p) <=> Refused(s, p) \/ (p = e.p /\ ~e.ok)
<1>1. ToSet(Append(s, e)) = ToSet(s) \cup {e}
  BY AppendKeeps
<1> QED BY <1>1 DEF About, Again, Refused

\* The answer to grant d: the UE sends burst, and keeps it for the process.
Answers(d, burst, waiting) ==
    /\ tbs' = Append(tbs, [p |-> d.p, ndi |-> d.ndi, rv |-> d.rv, data |-> burst, bsr |-> waiting])
    /\ abort' = "none"
    /\ ulBsr' \in BOOLEAN
    /\ srState' \in {"INACTIVE", "TO_SEND", "ACTIVE"}
    /\ srCounter' = 0
    /\ prohibit' = FALSE
    /\ trouble' \in 0 .. MaxTrouble
    /\ sent' \in sent .. accepted
    /\ harqPacket' = [harqPacket EXCEPT ![d.p] = burst]
    /\ d.ndi = 1 => burst = sent + 1 .. sent'
    /\ d.ndi = 0 => burst = harqPacket[d.p] /\ sent' = sent

(***************************************************************************)
(* A grant for new data is answered with the next units, or none.          *)
(***************************************************************************)
LEMMA NewDataAnswers ==
    ASSUME TypeOK, AssertionsHold, NEW d \in Dci, NewTransmission(d)
    PROVE  \E burst \in SUBSET Data, waiting \in BOOLEAN : Answers(d, burst, waiting)
<1>1. /\ accepted \in 0 .. MaxData /\ sent \in 0 .. accepted
      /\ trouble \in 0 .. MaxTrouble /\ MaxData \in Nat /\ MaxTrouble \in Nat
      /\ harqPacket \in [HarqId -> (SUBSET Data) \cup {EmptyBurst}]
  BY UlAirAssumption DEF TypeOK, UeTypeOK
<1>2. srState \in {"INACTIVE", "TO_SEND", "ACTIVE"} /\ abort = "none"
  BY DEF TypeOK, UeTypeOK, AssertionsHold
<1>3. d.p \in HarqId /\ d.ndi \in 0 .. 1
  BY DEF Dci
<1>4. PICK k \in 0 .. MaxData, rest \in BOOLEAN :
          /\ SendNewData(k, rest)
          /\ harqPacket' = [harqPacket EXCEPT ![d.p] = sent + 1 .. sent + k]
          /\ SendBufferStatusReport(d, harqPacket'[d.p], rest)
          /\ srState' = IF rest THEN srState ELSE "INACTIVE"
  BY DEF NewTransmission
<1>5. d.ndi = 1 /\ abort' = abort
  BY DEF NewTransmission
<1>6. k \in 0 .. accepted - sent /\ sent' = sent + k
  BY <1>1, <1>4 DEF SendNewData
<1>7. trouble' \in 0 .. MaxTrouble
  <2>1. trouble' = trouble \/ (trouble < MaxTrouble /\ trouble' = trouble + 1)
    BY <1>4 DEF SendNewData
  <2> QED BY <1>1, <2>1
<1>8. ulBsr' = rest
  BY <1>4 DEF SendNewData
<1> DEFINE burst == sent + 1 .. sent + k
<1>9. burst \in SUBSET Data /\ sent' \in sent .. accepted
  BY <1>1, <1>6 DEF Data
<1> HIDE DEF burst
<1>10. harqPacket' = [harqPacket EXCEPT ![d.p] = burst]
  BY <1>4 DEF burst
<1>11. harqPacket'[d.p] = burst
  BY <1>1, <1>3, <1>10
<1>12. /\ tbs' = Append(tbs, [p |-> d.p, ndi |-> d.ndi, rv |-> d.rv, data |-> burst, bsr |-> rest])
       /\ srCounter' = 0
       /\ prohibit' = FALSE
  BY <1>4, <1>11 DEF SendBufferStatusReport
<1>13. srState' \in {"INACTIVE", "TO_SEND", "ACTIVE"}
  BY <1>2, <1>4
<1>14. d.ndi = 1 => burst = sent + 1 .. sent'
  BY <1>6 DEF burst
<1>15. ~(d.ndi = 0)
  BY <1>5
<1>16. Answers(d, burst, rest)
  BY <1>2, <1>5, <1>7, <1>8, <1>9, <1>10, <1>12, <1>13, <1>14, <1>15 DEF Answers
<1> QED BY <1>9, <1>16

(***************************************************************************)
(* A grant for a retransmission is answered with the burst of the process, *)
(* if there is one.                                                        *)
(***************************************************************************)
LEMMA RetxAnswers ==
    ASSUME TypeOK, AssertionsHold, NEW d \in Dci, TransmitRetx(d),
           harqPacket[d.p] # EmptyBurst, UNCHANGED accepted
    PROVE  \E burst \in SUBSET Data, waiting \in BOOLEAN : Answers(d, burst, waiting)
<1> DEFINE burst == harqPacket[d.p]
<1>1. /\ accepted \in 0 .. MaxData /\ sent \in 0 .. accepted /\ MaxData \in Nat
      /\ harqPacket \in [HarqId -> (SUBSET Data) \cup {EmptyBurst}]
      /\ d.p \in HarqId
  BY UlAirAssumption DEF TypeOK, UeTypeOK, Dci
<1>2. srState \in {"INACTIVE", "TO_SEND", "ACTIVE"} /\ abort = "none" /\ trouble \in 0 .. MaxTrouble
  BY DEF TypeOK, UeTypeOK, AssertionsHold
<1>3. ulBsr \in BOOLEAN
  BY DEF TypeOK, UeTypeOK
<1>4. burst \in SUBSET Data
  BY <1>1
<1>5. /\ d.ndi = 0
      /\ SendBufferStatusReport(d, burst, ulBsr)
      /\ UNCHANGED <<abort, sent, ulBsr, srState, harqPacket, trouble>>
  BY DEF TransmitRetx
<1>6. harqPacket' = [harqPacket EXCEPT ![d.p] = burst]
  BY <1>1, <1>5
<1> HIDE DEF burst
<1>7. sent' \in sent .. accepted /\ ~(d.ndi = 1)
  BY <1>1, <1>5
<1>8. burst = harqPacket[d.p]
  BY DEF burst
<1>9. /\ tbs' = Append(tbs, [p |-> d.p, ndi |-> d.ndi, rv |-> d.rv, data |-> burst, bsr |-> ulBsr])
      /\ srCounter' = 0
      /\ prohibit' = FALSE
  BY <1>5 DEF SendBufferStatusReport
<1>10. Answers(d, burst, ulBsr)
  BY <1>2, <1>3, <1>5, <1>6, <1>7, <1>8, <1>9 DEF Answers
<1> QED BY <1>3, <1>4, <1>10

(***************************************************************************)
(* A grant reaches the UE: for new data the process takes another burst,   *)
(* when nothing of the last one is on the way any more; a retransmission   *)
(* finds the burst it is meant for.                                        *)
(***************************************************************************)
LEMMA GrantKeeps ==
    ASSUME IInv, Ue(ProcessUlDci)
    PROVE  IInv'
<1>0. PICK d, p : d = Head(dcis) /\ p = d.p
  OBVIOUS
<1>1. TypeOK /\ OnePlace /\ InTime /\ SameBurst /\ Accounted /\ abort = "none"
  BY DEF IInv, AssertionsHold
<1>2. /\ dcis \in Seq(Dci) /\ tbs \in Seq(Tb) /\ ulHarqInfoReceived \in Seq(Feedback)
      /\ harqPacket \in [HarqId -> (SUBSET Data) \cup {EmptyBurst}]
      /\ accepted \in 0 .. MaxData /\ sent \in 0 .. accepted
      /\ trouble \in 0 .. MaxTrouble /\ MaxData \in Nat /\ MaxTrouble \in Nat
      /\ ulBsr \in BOOLEAN /\ prohibit \in BOOLEAN
      /\ srState \in {"INACTIVE", "TO_SEND", "ACTIVE"}
  BY <1>1, UlAirAssumption DEF TypeOK, UeTypeOK, GnbTypeOK
<1>3. /\ dcis # <<>> /\ dcis' = Tail(dcis)
      /\ NewTransmission(d) \/ TransmitRetx(d)
      /\ UNCHANGED <<accepted, ra, sr, gnbVars, phyVars>>
  BY <1>0 DEF Ue, ProcessUlDci
<1>4. /\ d \in Dci /\ p \in HarqId /\ d.ndi \in 0 .. 1 /\ d.rv \in 0 .. MaxRv
      /\ d \in ToSet(dcis)
      /\ Tail(dcis) \in Seq(Dci) /\ Once(Tail(dcis))
      /\ ToSet(Tail(dcis)) \subseteq ToSet(dcis)
  <2>1. d \in Dci /\ d \in ToSet(dcis) /\ Tail(dcis) \in Seq(Dci) /\ Once(Tail(dcis))
        /\ ToSet(Tail(dcis)) \subseteq ToSet(dcis)
    BY <1>0, <1>1, <1>2, <1>3, TailKeeps DEF OnePlace
  <2> QED BY <1>0, <2>1 DEF Dci
<1>5. /\ \A q : About(dcis', q) <=> About(dcis, q) /\ q # p
      /\ \A q : Again(dcis', q) <=> Again(dcis, q) /\ q # p
      /\ About(dcis, p)
      /\ Again(dcis, p) <=> d.ndi = 0
  BY <1>0, <1>1, <1>2, <1>3, Leaving DEF OnePlace
<1>6. ~About(tbs, p) /\ ~About(ulHarqInfoReceived, p) /\ ~Postponed(p)
  BY <1>1, <1>4, <1>5 DEF OnePlace
<1>7. ~Again(tbs, p) /\ ~Refused(ulHarqInfoReceived, p)
  BY <1>6 DEF About, Again, Refused
<1>8. /\ ulHarqInfoReceived' = ulHarqInfoReceived /\ ulHarqToRetransmit' = ulHarqToRetransmit
      /\ ulHarq' = ulHarq /\ enableHarqReTx' = enableHarqReTx
      /\ harqHistory' = harqHistory /\ received' = received /\ writtenOff' = writtenOff
  BY <1>3 DEF gnbVars, phyVars
<1>9. GnbTypeOK'
  BY <1>1, <1>3, GnbTypeKept
<1>10. PICK burst \in SUBSET Data, waiting \in BOOLEAN : Answers(d, burst, waiting)
  <2>1. CASE NewTransmission(d)
    BY <2>1, <1>1, <1>4, NewDataAnswers DEF AssertionsHold
  <2>2. CASE TransmitRetx(d)
    <3>1. d.ndi = 0
      BY <2>2 DEF TransmitRetx
    <3>2. harqPacket[p] # EmptyBurst
      BY <3>1, <1>1, <1>4, <1>5 DEF SameBurst
    <3> QED BY <2>2, <3>2, <1>0, <1>1, <1>3, <1>4, RetxAnswers DEF AssertionsHold
  <2> QED BY <1>3, <2>1, <2>2
<1> DEFINE tb == [p |-> p, ndi |-> d.ndi, rv |-> d.rv, data |-> burst, bsr |-> waiting]
<1>11. tb \in Tb /\ tb.p = p /\ tb.ndi = d.ndi /\ tb.rv = d.rv /\ tb.data = burst
  BY <1>4 DEF Tb
<1>12. tbs' = Append(tbs, tb)
  BY <1>0, <1>10 DEF Answers
<1> HIDE DEF tb
<1>13. /\ tbs' \in Seq(Tb) /\ ToSet(tbs') = ToSet(tbs) \cup {tb} /\ Once(tbs')
       /\ \A q : About(tbs', q) <=> About(tbs, q) \/ q = p
       /\ \A q : Again(tbs', q) <=> Again(tbs, q) \/ (q = p /\ d.ndi = 0)
  <2>1. \A x \in ToSet(tbs) : x.p # tb.p
    BY <1>6, <1>11 DEF About
  <2>2. tbs' \in Seq(Tb) /\ ToSet(tbs') = ToSet(tbs) \cup {tb} /\ Once(tbs')
    BY <2>1, <1>1, <1>2, <1>11, <1>12, AppendKeeps DEF OnePlace
  <2> QED BY <2>2, <1>2, <1>11, <1>12, Joining
<1>14. /\ harqPacket'[p] = burst
       /\ \A q \in HarqId : q # p => harqPacket'[q] = harqPacket[q]
       /\ harqPacket' \in [HarqId -> (SUBSET Data) \cup {EmptyBurst}]
  BY <1>0, <1>2, <1>4, <1>10 DEF Answers
<1>15. sent' \in 0 .. accepted' /\ sent <= sent' /\ sent \in Nat /\ sent' \in Nat
  BY <1>2, <1>3, <1>10 DEF Answers
<1>16. TypeOK'
  <2>1. UeTypeOK'
    <3>1. accepted' \in 0 .. MaxData /\ ra' \in BOOLEAN
      BY <1>1, <1>3 DEF TypeOK, UeTypeOK
    <3>2. srCounter' \in 0 .. SrTransMax
      BY <1>10, UeMacAssumption DEF Answers
    <3>3. ulBsr' \in BOOLEAN /\ prohibit' \in BOOLEAN /\ srState' \in {"INACTIVE", "TO_SEND", "ACTIVE"}
      BY <1>10 DEF Answers
    <3> QED BY <3>1, <3>2, <3>3, <1>14, <1>15 DEF UeTypeOK
  <2>2. trouble' \in 0 .. MaxTrouble /\ abort' \in {"none", "TransmitRetx", "UlHarqFeedback"}
    BY <1>10 DEF Answers
  <2>3. dcis' \in Seq(Dci)
    BY <1>0, <1>3, <1>4
  <2> QED BY <2>1, <2>2, <2>3, <1>1, <1>3, <1>8, <1>9, <1>13 DEF TypeOK
<1>17. AssertionsHold'
  BY <1>10 DEF Answers, AssertionsHold
<1>18. \A q : Postponed(q)' <=> Postponed(q)
  BY <1>8 DEF Postponed
<1>19. OnePlace'
  <2>1. Once(dcis')
    BY <1>0, <1>3, <1>4
  <2> QED BY <2>1, <1>1, <1>5, <1>6, <1>8, <1>13, <1>18 DEF OnePlace
<1>20. InTime'
  <2>1. \A q : Concerned(q)' => Concerned(q)
    BY <1>5, <1>8, <1>13, <1>18 DEF Concerned
  <2>2. ToSet(dcis') \subseteq ToSet(dcis)
    BY <1>0, <1>3, <1>4
  <2>3. tb.rv = ulHarq[tb.p].rv
    BY <1>0, <1>1, <1>4, <1>11 DEF InTime
  <2> QED BY <2>1, <2>2, <2>3, <1>1, <1>8, <1>13, <1>18 DEF InTime, IsLastRv
<1>21. \A x \in ToSet(tbs) : x.p \in HarqId /\ x.p # p
  <2>1. \A x \in ToSet(tbs) : x \in Tb
    BY <1>2 DEF ToSet
  <2> QED BY <2>1, <1>6 DEF Tb, About
<1>22. d.ndi = 0 => burst = harqPacket[p] /\ sent' = sent
  BY <1>0, <1>10 DEF Answers
<1>23. d.ndi = 1 => burst = sent + 1 .. sent'
  BY <1>10 DEF Answers
<1>24. SameBurst'
  <2>1. \A x \in ToSet(tbs') : x.data = harqPacket'[x.p]
    BY <1>1, <1>11, <1>13, <1>14, <1>21 DEF SameBurst
  <2>2. ASSUME NEW q \in HarqId,
               About(ulHarqInfoReceived', q) \/ Postponed(q)' \/ Again(dcis', q) \/ Again(tbs', q)
        PROVE  harqPacket'[q] # EmptyBurst /\ harqHistory'[q] \subseteq {harqPacket'[q]}
    <3>1. CASE q # p
      BY <2>2, <3>1, <1>1, <1>5, <1>8, <1>13, <1>14, <1>18 DEF SameBurst
    <3>2. CASE q = p
      <4>1. d.ndi = 0
        BY <2>2, <3>2, <1>5, <1>6, <1>7, <1>8, <1>13, <1>18
      <4>2. harqPacket[p] # EmptyBurst /\ harqHistory[p] \subseteq {harqPacket[p]}
        BY <4>1, <1>1, <1>4, <1>5 DEF SameBurst
      <4> QED BY <3>2, <4>1, <4>2, <1>8, <1>14, <1>22
    <3> QED BY <3>1, <3>2
  <2>3. \A q \in HarqId : \A a, b \in harqHistory'[q] : a = b
    BY <1>1, <1>8 DEF SameBurst
  <2> QED BY <2>1, <2>2, <2>3 DEF SameBurst
<1>a. \A q \in HarqId : q # p => Mine(q)' = Mine(q)
  BY <1>14 DEF Mine
<1>26. Mine(p)' = burst
  BY <1>14 DEF Mine
<1>27. d.ndi = 0 => Mine(p)' = Mine(p) /\ sent' = sent
  BY <1>14, <1>22 DEF Mine
<1>28. d.ndi = 1 => Mine(p) \subseteq received \cup writtenOff
  <2>1. d.ndi = 1 => ~OnTheWay(p)
    BY <1>4, <1>5, <1>6, <1>7 DEF OnTheWay
  <2> QED BY <2>1, <1>1, <1>4 DEF Accounted, Settled
<1>29. d.ndi = 0 \/ d.ndi = 1
  BY <1>4
<1>30. Accounted'
  <2>1. \A q \in HarqId : OnTheWay(q)' \/ Settled(q)'
    <3> SUFFICES ASSUME NEW q \in HarqId, q # p PROVE OnTheWay(q)' \/ Settled(q)'
      BY <1>13 DEF OnTheWay
    <3>1. OnTheWay(q) \/ Settled(q)
      BY <1>1 DEF Accounted
    <3> QED BY <3>1, <1>5, <1>8, <1>13, <1>18, <1>a DEF OnTheWay, Settled, IsLastRv
  <2>2. ASSUME NEW q \in HarqId,
               About(tbs', q) \/ Postponed(q)' \/ Again(dcis', q) \/ Refused(ulHarqInfoReceived', q)
        PROVE  Mine(q)' \cap received' = {}
    <3>1. CASE q # p
      BY <2>2, <3>1, <1>1, <1>5, <1>8, <1>13, <1>18, <1>a DEF Accounted
    <3>2. CASE q = p /\ d.ndi = 0
      BY <3>2, <1>1, <1>4, <1>5, <1>8, <1>27 DEF Accounted
    <3>3. CASE q = p /\ d.ndi = 1
      <4>1. \A n \in received : n \in 1 .. sent
        BY <1>1 DEF Accounted
      <4>2. \A n \in 1 .. sent : n \notin sent + 1 .. sent'
        BY <1>15
      <4> QED BY <3>3, <4>1, <4>2, <1>8, <1>23, <1>26
    <3> QED BY <1>29, <3>1, <3>2, <3>3
  <2>3. ASSUME NEW q \in HarqId, q # p PROVE Mine(q)' \cap Mine(p)' = {}
    <3>1. CASE d.ndi = 0
      BY <2>3, <3>1, <1>1, <1>4, <1>a, <1>27 DEF Accounted
    <3>2. CASE d.ndi = 1
      <4>1. \A n \in Mine(q) : n \in 1 .. sent
        BY <1>1 DEF Accounted
      <4>2. \A n \in 1 .. sent : n \notin sent + 1 .. sent'
        BY <1>15
      <4> QED BY <2>3, <3>2, <4>1, <4>2, <1>23, <1>a, <1>26
    <3> QED BY <1>29, <3>1, <3>2
  <2>4. \A q, r \in HarqId : q # r => Mine(q)' \cap Mine(r)' = {}
    <3> SUFFICES ASSUME NEW q \in HarqId, NEW r \in HarqId, q # r
                 PROVE  Mine(q)' \cap Mine(r)' = {}
      OBVIOUS
    <3>1. CASE q # p /\ r # p
      BY <3>1, <1>1, <1>a DEF Accounted
    <3>2. CASE q = p
      BY <3>2, <2>3
    <3>3. CASE r = p
      BY <3>3, <2>3
    <3> QED BY <3>1, <3>2, <3>3
  <2>5. \A n \in 1 .. sent : n \in 1 .. sent'
    BY <1>15
  <2>6. received' \subseteq 1 .. sent'
    BY <2>5, <1>1, <1>8 DEF Accounted
  <2>7. \A q \in HarqId : Mine(q)' \subseteq 1 .. sent'
    <3>1. \A q \in HarqId : q # p => Mine(q)' \subseteq 1 .. sent'
      BY <2>5, <1>1, <1>a DEF Accounted
    <3>2. CASE d.ndi = 0
      BY <3>1, <3>2, <1>1, <1>4, <1>27 DEF Accounted
    <3>3. CASE d.ndi = 1
      <4>1. \A n \in sent + 1 .. sent' : n \in 1 .. sent'
        BY <1>15
      <4> QED BY <3>1, <3>3, <4>1, <1>23, <1>26
    <3> QED BY <1>29, <3>2, <3>3
  <2>8. ASSUME NEW n \in 1 .. sent'
        PROVE  n \in received' \cup writtenOff' \/ \E q \in HarqId : n \in Mine(q)'
    <3>1. CASE n \in sent + 1 .. sent' /\ d.ndi = 1
      BY <3>1, <1>4, <1>23, <1>26
    <3>2. CASE n \in 1 .. sent
      <4>1. n \in received \cup writtenOff \/ \E q \in HarqId : n \in Mine(q)
        BY <3>2, <1>1 DEF Accounted
      <4>2. CASE n \in received \cup writtenOff
        BY <4>2, <1>8
      <4>3. CASE \E q \in HarqId : n \in Mine(q)
        <5>1. PICK q \in HarqId : n \in Mine(q)
          BY <4>3
        <5>2. CASE q # p
          BY <5>1, <5>2, <1>a
        <5>3. CASE q = p
          BY <5>1, <5>3, <1>8, <1>27, <1>28, <1>29
        <5> QED BY <5>2, <5>3
      <4> QED BY <4>1, <4>2, <4>3
    <3>3. n \in 1 .. sent \/ (n \in sent + 1 .. sent' /\ sent' # sent)
      BY <1>15
    <3> QED BY <1>22, <1>29, <3>1, <3>2, <3>3
  <2> QED BY <2>1, <2>2, <2>4, <2>6, <2>7, <2>8 DEF Accounted
<1> QED BY <1>16, <1>17, <1>19, <1>20, <1>24, <1>30 DEF IInv
-----------------------------------------------------------------------------
(* Blocks at the gNB                                                       *)

(***************************************************************************)
(* The retransmission limit does not change.                               *)
(***************************************************************************)
LEMMA LastRvKept ==
    ASSUME enableHarqReTx' = enableHarqReTx
    PROVE  \A rv : IsLastRv(rv)' <=> IsLastRv(rv)
BY DEF IsLastRv

(***************************************************************************)
(* A block reaches the gNB: what it carries is received, is given up, or   *)
(* is on the way as a NACK.                                                *)
(***************************************************************************)
LEMMA BlockKeeps ==
    ASSUME IInv, NEW decoded \in BOOLEAN, ReceiveTb(decoded)
    PROVE  IInv'
<1>0. PICK tb, p, f : tb = Head(tbs) /\ p = tb.p /\ f = [p |-> p, ok |-> decoded]
  OBVIOUS
<1>1. TypeOK /\ OnePlace /\ InTime /\ SameBurst /\ Accounted /\ abort = "none"
  BY DEF IInv, AssertionsHold
<1>2. /\ tbs \in Seq(Tb) /\ ulHarqInfoReceived \in Seq(Feedback)
      /\ harqHistory \in [HarqId -> SUBSET SUBSET Data]
      /\ received \subseteq Data /\ writtenOff \subseteq Data
  BY <1>1 DEF TypeOK, GnbTypeOK
<1>3. /\ tbs # <<>> /\ tbs' = Tail(tbs)
      /\ ulHarqInfoReceived' = Append(ulHarqInfoReceived, f)
      /\ harqHistory' = [harqHistory EXCEPT ![p] =
              IF decoded \/ tb.rv = MaxRv THEN {} ELSE Combined(tb) \cup {tb.data}]
  BY <1>0 DEF ReceiveTb
<1>4. /\ decoded => /\ received' = received \cup tb.data
                    /\ ulCeReceived' \in {"empty", "backlog"}
                    /\ writtenOff' = writtenOff
      /\ ~decoded => /\ received' = received
                     /\ ulCeReceived' = ulCeReceived
                     /\ writtenOff' = IF IsLastRv(tb.rv) THEN writtenOff \cup tb.data ELSE writtenOff
  BY <1>0 DEF ReceiveTb
<1>5. UNCHANGED <<ueVars, sr, dcis, abort, srList, srBytesPending, lcg, ulHarq,
                  ulHarqToRetransmit, enableHarqReTx, trouble>>
  BY DEF ReceiveTb
<1>6. /\ tb \in Tb /\ tb \in ToSet(tbs)
      /\ tbs' \in Seq(Tb) /\ Once(tbs')
      /\ ToSet(tbs') \subseteq ToSet(tbs)
  BY <1>0, <1>1, <1>2, <1>3, TailKeeps DEF OnePlace
<1>7. p \in HarqId /\ tb.data \subseteq Data /\ tb.ndi \in 0 .. 1
  BY <1>0, <1>6 DEF Tb
<1>8. f \in Feedback /\ f.p = p /\ f.ok = decoded
  BY <1>0, <1>7 DEF Feedback
<1>9. /\ \A q : About(tbs', q) <=> About(tbs, q) /\ q # p
      /\ \A q : Again(tbs', q) <=> Again(tbs, q) /\ q # p
      /\ About(tbs, p)
      /\ Again(tbs, p) <=> tb.ndi = 0
  BY <1>0, <1>1, <1>2, <1>3, Leaving DEF OnePlace
<1>10. ~About(dcis, p) /\ ~About(ulHarqInfoReceived, p) /\ ~Postponed(p)
  BY <1>1, <1>7, <1>9 DEF OnePlace
<1>11. ~Again(dcis, p) /\ ~Refused(ulHarqInfoReceived, p)
  BY <1>10 DEF About, Again, Refused
<1>12. /\ ulHarqInfoReceived' \in Seq(Feedback)
       /\ Once(ulHarqInfoReceived')
       /\ \A q : About(ulHarqInfoReceived', q) <=> About(ulHarqInfoReceived, q) \/ q = p
       /\ \A q : Refused(ulHarqInfoReceived', q) <=> Refused(ulHarqInfoReceived, q) \/ (q = p /\ ~decoded)
  <2>1. \A x \in ToSet(ulHarqInfoReceived) : x.p # f.p
    BY <1>8, <1>10 DEF About
  <2>2. ulHarqInfoReceived' \in Seq(Feedback) /\ Once(ulHarqInfoReceived')
    BY <2>1, <1>1, <1>2, <1>3, <1>8, AppendKeeps DEF OnePlace
  <2>3. \A q : About(ulHarqInfoReceived', q) <=> About(ulHarqInfoReceived, q) \/ q = p
    BY <1>2, <1>3, <1>8, Joining
  <2>4. \A q : Refused(ulHarqInfoReceived', q) <=> Refused(ulHarqInfoReceived, q) \/ (q = f.p /\ ~f.ok)
    BY <1>2, <1>3, <1>8, Joining
  <2> QED BY <2>2, <2>3, <2>4, <1>8
<1>13. /\ dcis' = dcis /\ ulHarqToRetransmit' = ulHarqToRetransmit /\ ulHarq' = ulHarq
       /\ enableHarqReTx' = enableHarqReTx /\ harqPacket' = harqPacket /\ sent' = sent
       /\ abort' = abort
  BY <1>5 DEF ueVars
<1>14. (\A q : Postponed(q)' <=> Postponed(q)) /\ (\A rv : IsLastRv(rv)' <=> IsLastRv(rv))
  BY <1>13, LastRvKept DEF Postponed
<1>15. tb.data = harqPacket[p] /\ tb.rv = ulHarq[p].rv
  BY <1>0, <1>1, <1>6 DEF SameBurst, InTime
<1>16. \A a \in Combined(tb) : a = harqPacket[p]
  <2>1. CASE tb.ndi = 1
    BY <2>1 DEF Combined
  <2>2. CASE tb.ndi = 0
    BY <2>2, <1>0, <1>1, <1>7, <1>9 DEF SameBurst, Combined
  <2> QED BY <1>7, <2>1, <2>2
<1>17. /\ harqHistory'[p] \subseteq {harqPacket[p]}
       /\ \A q \in HarqId : q # p => harqHistory'[q] = harqHistory[q]
  BY <1>2, <1>3, <1>7, <1>15, <1>16
<1>18. harqHistory' \in [HarqId -> SUBSET SUBSET Data]
  <2>1. Combined(tb) \cup {tb.data} \in SUBSET SUBSET Data
    BY <1>7, <1>15, <1>16
  <2> QED BY <2>1, <1>2, <1>3, <1>7
<1>19. TypeOK'
  <2>1. UeTypeOK'
    BY <1>1, <1>5 DEF TypeOK, UeTypeOK, ueVars
  <2>2. GnbTypeOK'
    <3>1. ulCeReceived' \in {"none", "empty", "backlog"}
      BY <1>1, <1>4 DEF TypeOK, GnbTypeOK
    <3>2. /\ srList' = srList /\ srBytesPending' = srBytesPending /\ lcg' = lcg
      BY <1>5
    <3> QED BY <3>1, <3>2, <1>1, <1>12, <1>13 DEF TypeOK, GnbTypeOK
  <2>3. received' \subseteq Data /\ writtenOff' \subseteq Data
    BY <1>2, <1>4, <1>7
  <2>4. sr' = sr /\ trouble' = trouble
    BY <1>5
  <2> QED BY <2>1, <2>2, <2>3, <2>4, <1>1, <1>6, <1>13, <1>18 DEF TypeOK
<1>20. OnePlace'
  BY <1>1, <1>6, <1>9, <1>10, <1>12, <1>13, <1>14 DEF OnePlace
<1>21. InTime'
  <2>1. \A q \in HarqId : Concerned(q)' => Concerned(q)
    BY <1>9, <1>12, <1>13, <1>14 DEF Concerned
  <2> QED BY <2>1, <1>1, <1>6, <1>13, <1>14 DEF InTime
<1>22. SameBurst'
  <2>1. \A x \in ToSet(tbs') : x.data = harqPacket'[x.p]
    BY <1>1, <1>6, <1>13 DEF SameBurst
  <2>2. ASSUME NEW q \in HarqId,
               About(ulHarqInfoReceived', q) \/ Postponed(q)' \/ Again(dcis', q) \/ Again(tbs', q)
        PROVE  harqPacket'[q] # EmptyBurst /\ harqHistory'[q] \subseteq {harqPacket'[q]}
    <3>1. CASE q # p
      BY <2>2, <3>1, <1>1, <1>9, <1>12, <1>13, <1>14, <1>17 DEF SameBurst
    <3>2. CASE q = p
      <4>1. harqPacket[p] # EmptyBurst
        BY <1>7, <1>15, UlAirAssumption DEF EmptyBurst, Data
      <4> QED BY <3>2, <4>1, <1>13, <1>17
    <3> QED BY <3>1, <3>2
  <2>3. \A q \in HarqId : \A a, b \in harqHistory'[q] : a = b
    BY <1>1, <1>17 DEF SameBurst
  <2> QED BY <2>1, <2>2, <2>3 DEF SameBurst
<1>23. Mine(p) = tb.data
  BY <1>7, <1>15 DEF Mine
<1>24. \A q : Mine(q)' = Mine(q)
  BY <1>13 DEF Mine
<1>a. received \subseteq received' /\ writtenOff \subseteq writtenOff'
       /\ received' \subseteq received \cup Mine(p)
       /\ (~decoded => received' = received)
  BY <1>4, <1>23
<1>26. Accounted'
  <2>1. ASSUME NEW q \in HarqId PROVE OnTheWay(q)' \/ Settled(q)'
    <3>1. CASE q # p
      <4>1. OnTheWay(q) => OnTheWay(q)'
        BY <3>1, <1>9, <1>12, <1>13, <1>14 DEF OnTheWay
      <4>2. Settled(q) => Settled(q)'
        BY <1>24, <1>a DEF Settled
      <4> QED BY <4>1, <4>2, <1>1 DEF Accounted
    <3>2. CASE q = p /\ decoded
      BY <3>2, <1>4, <1>23, <1>24 DEF Settled
    <3>3. CASE q = p /\ ~decoded /\ IsLastRv(tb.rv)
      BY <3>3, <1>4, <1>23, <1>24 DEF Settled
    <3>4. CASE q = p /\ ~decoded /\ ~IsLastRv(tb.rv)
      <4>1. ~IsLastRv(ulHarq[q].rv)'
        BY <3>4, <1>13, <1>14, <1>15
      <4> QED BY <3>4, <4>1, <1>12 DEF OnTheWay
    <3> QED BY <3>1, <3>2, <3>3, <3>4
  <2>2. ASSUME NEW q \in HarqId,
               About(tbs', q) \/ Postponed(q)' \/ Again(dcis', q) \/ Refused(ulHarqInfoReceived', q)
        PROVE  Mine(q)' \cap received' = {}
    <3>1. CASE q # p
      <4>1. Mine(q) \cap received = {}
        BY <2>2, <3>1, <1>1, <1>9, <1>12, <1>13, <1>14 DEF Accounted
      <4>2. Mine(q) \cap Mine(p) = {}
        BY <3>1, <1>1, <1>7 DEF Accounted
      <4> QED BY <4>1, <4>2, <1>24, <1>a
    <3>2. CASE q = p
      <4>1. ~decoded
        BY <2>2, <3>2, <1>9, <1>10, <1>11, <1>12, <1>13, <1>14
      <4>2. Mine(p) \cap received = {}
        BY <1>1, <1>7, <1>9 DEF Accounted
      <4> QED BY <3>2, <4>1, <4>2, <1>24, <1>a
    <3> QED BY <3>1, <3>2
  <2>3. \A q, r \in HarqId : q # r => Mine(q)' \cap Mine(r)' = {}
    BY <1>1, <1>24 DEF Accounted
  <2>4. received' \subseteq 1 .. sent'
    BY <1>1, <1>7, <1>13, <1>a DEF Accounted
  <2>5. \A q \in HarqId : Mine(q)' \subseteq 1 .. sent'
    BY <1>1, <1>13, <1>24 DEF Accounted
  <2>6. \A n \in 1 .. sent' : n \in received' \cup writtenOff' \/ \E q \in HarqId : n \in Mine(q)'
    BY <1>1, <1>13, <1>24, <1>a DEF Accounted
  <2> QED BY <2>1, <2>2, <2>3, <2>4, <2>5, <2>6 DEF Accounted
<1> QED BY <1>1, <1>13, <1>19, <1>20, <1>21, <1>22, <1>26 DEF IInv, AssertionsHold

-----------------------------------------------------------------------------
(* What vanishes                                                           *)

(***************************************************************************)
(* A grant vanishes: the data that only it would have brought is given up. *)
(***************************************************************************)
LEMMA LostGrantKeeps ==
    ASSUME IInv, TypeOK', dcis # <<>>,
           dcis' = Tail(dcis),
           writtenOff' = IF Head(dcis).ndi = 1 THEN writtenOff
                         ELSE writtenOff \cup (harqPacket[Head(dcis).p] \cap Data),
           UNCHANGED <<ueVars, gnbVars, tbs, abort, harqHistory, received>>
    PROVE  IInv'
<1>0. PICK d, p : d = Head(dcis) /\ p = d.p
  OBVIOUS
<1>1. TypeOK /\ OnePlace /\ InTime /\ SameBurst /\ Accounted /\ abort = "none"
  BY DEF IInv, AssertionsHold
<1>2. dcis \in Seq(Dci)
  BY <1>1 DEF TypeOK
<1>3. /\ ulHarqInfoReceived' = ulHarqInfoReceived /\ ulHarqToRetransmit' = ulHarqToRetransmit
      /\ ulHarq' = ulHarq /\ enableHarqReTx' = enableHarqReTx /\ tbs' = tbs
      /\ harqPacket' = harqPacket /\ sent' = sent /\ received' = received
      /\ harqHistory' = harqHistory /\ abort' = abort
  BY DEF ueVars, gnbVars
<1>4. d \in Dci /\ Once(dcis') /\ ToSet(dcis') \subseteq ToSet(dcis)
  BY <1>0, <1>1, <1>2, TailKeeps DEF OnePlace
<1>5. p \in HarqId /\ d.ndi \in 0 .. 1
  BY <1>0, <1>4 DEF Dci
<1>6. /\ \A q : About(dcis', q) <=> About(dcis, q) /\ q # p
      /\ \A q : Again(dcis', q) <=> Again(dcis, q) /\ q # p
      /\ About(dcis, p)
      /\ Again(dcis, p) <=> d.ndi = 0
  BY <1>0, <1>1, <1>2, Leaving DEF OnePlace
<1>7. (\A q : Postponed(q)' <=> Postponed(q)) /\ (\A rv : IsLastRv(rv)' <=> IsLastRv(rv))
  BY <1>3, LastRvKept DEF Postponed
<1>8. OnePlace'
  BY <1>1, <1>3, <1>4, <1>6, <1>7 DEF OnePlace
<1>9. InTime'
  <2>1. \A q \in HarqId : Concerned(q)' => Concerned(q)
    BY <1>3, <1>6, <1>7 DEF Concerned
  <2> QED BY <2>1, <1>1, <1>3, <1>4, <1>7 DEF InTime
<1>10. SameBurst'
  BY <1>1, <1>3, <1>6, <1>7 DEF SameBurst
<1>11. \A q : Mine(q)' = Mine(q)
  BY <1>3 DEF Mine
<1>12. writtenOff \subseteq writtenOff' /\ (d.ndi = 0 => Mine(p) \subseteq writtenOff')
  BY <1>0 DEF Mine
<1>13. Accounted'
  <2>1. ASSUME NEW q \in HarqId PROVE OnTheWay(q)' \/ Settled(q)'
    <3>1. Settled(q) => Settled(q)'
      BY <1>3, <1>11, <1>12 DEF Settled
    <3>2. CASE OnTheWay(q) /\ q # p
      BY <3>2, <1>3, <1>6, <1>7 DEF OnTheWay
    <3>3. CASE q = p /\ d.ndi = 0
      BY <3>3, <1>11, <1>12 DEF Settled
    <3>4. CASE OnTheWay(q) /\ q = p /\ d.ndi # 0
      BY <3>4, <1>3, <1>6, <1>7 DEF OnTheWay
    <3> QED BY <3>1, <3>2, <3>3, <3>4, <1>1 DEF Accounted
  <2>2. \A q \in HarqId :
          About(tbs', q) \/ Postponed(q)' \/ Again(dcis', q) \/ Refused(ulHarqInfoReceived', q)
          => Mine(q)' \cap received' = {}
    BY <1>1, <1>3, <1>6, <1>7, <1>11 DEF Accounted
  <2>3. \A n \in 1 .. sent' : n \in received' \cup writtenOff' \/ \E q \in HarqId : n \in Mine(q)'
    BY <1>1, <1>3, <1>11, <1>12 DEF Accounted
  <2> QED BY <2>1, <2>2, <2>3, <1>1, <1>3, <1>11 DEF Accounted
<1> QED BY <1>1, <1>3, <1>8, <1>9, <1>10, <1>13 DEF IInv, AssertionsHold

(***************************************************************************)
(* A block vanishes: its data is given up.                                 *)
(***************************************************************************)
LEMMA LostBlockKeeps ==
    ASSUME IInv, TypeOK', tbs # <<>>,
           tbs' = Tail(tbs),
           writtenOff' = writtenOff \cup Head(tbs).data,
           UNCHANGED <<ueVars, gnbVars, dcis, abort, harqHistory, received>>
    PROVE  IInv'
<1>0. PICK tb, p : tb = Head(tbs) /\ p = tb.p
  OBVIOUS
<1>1. TypeOK /\ OnePlace /\ InTime /\ SameBurst /\ Accounted /\ abort = "none"
  BY DEF IInv, AssertionsHold
<1>2. tbs \in Seq(Tb)
  BY <1>1 DEF TypeOK
<1>3. /\ ulHarqInfoReceived' = ulHarqInfoReceived /\ ulHarqToRetransmit' = ulHarqToRetransmit
      /\ ulHarq' = ulHarq /\ enableHarqReTx' = enableHarqReTx /\ dcis' = dcis
      /\ harqPacket' = harqPacket /\ sent' = sent /\ received' = received
      /\ harqHistory' = harqHistory /\ abort' = abort
  BY DEF ueVars, gnbVars
<1>4. tb \in Tb /\ tb \in ToSet(tbs) /\ Once(tbs') /\ ToSet(tbs') \subseteq ToSet(tbs)
  BY <1>0, <1>1, <1>2, TailKeeps DEF OnePlace
<1>5. p \in HarqId /\ tb.data \subseteq Data
  BY <1>0, <1>4 DEF Tb
<1>6. /\ \A q : About(tbs', q) <=> About(tbs, q) /\ q # p
      /\ \A q : Again(tbs', q) <=> Again(tbs, q) /\ q # p
  BY <1>0, <1>1, <1>2, Leaving DEF OnePlace
<1>7. (\A q : Postponed(q)' <=> Postponed(q)) /\ (\A rv : IsLastRv(rv)' <=> IsLastRv(rv))
  BY <1>3, LastRvKept DEF Postponed
<1>8. OnePlace'
  BY <1>1, <1>3, <1>4, <1>6, <1>7 DEF OnePlace
<1>9. InTime'
  <2>1. \A q \in HarqId : Concerned(q)' => Concerned(q)
    BY <1>3, <1>6, <1>7 DEF Concerned
  <2> QED BY <2>1, <1>1, <1>3, <1>4, <1>7 DEF InTime
<1>10. SameBurst'
  BY <1>1, <1>3, <1>4, <1>6, <1>7 DEF SameBurst
<1>11. \A q : Mine(q)' = Mine(q)
  BY <1>3 DEF Mine
<1>12. writtenOff \subseteq writtenOff' /\ Mine(p) \subseteq writtenOff'
  <2>1. Mine(p) \subseteq tb.data
    BY <1>0, <1>1, <1>4 DEF Mine, SameBurst
  <2> QED BY <2>1, <1>0
<1>13. Accounted'
  <2>1. ASSUME NEW q \in HarqId PROVE OnTheWay(q)' \/ Settled(q)'
    <3>1. Settled(q) => Settled(q)'
      BY <1>3, <1>11, <1>12 DEF Settled
    <3>2. CASE OnTheWay(q) /\ q # p
      BY <3>2, <1>3, <1>6, <1>7 DEF OnTheWay
    <3>3. CASE q = p
      BY <3>3, <1>11, <1>12 DEF Settled
    <3> QED BY <3>1, <3>2, <3>3, <1>1 DEF Accounted
  <2>2. \A q \in HarqId :
          About(tbs', q) \/ Postponed(q)' \/ Again(dcis', q) \/ Refused(ulHarqInfoReceived', q)
          => Mine(q)' \cap received' = {}
    BY <1>1, <1>3, <1>6, <1>7, <1>11 DEF Accounted
  <2>3. \A n \in 1 .. sent' : n \in received' \cup writtenOff' \/ \E q \in HarqId : n \in Mine(q)'
    BY <1>1, <1>3, <1>11, <1>12 DEF Accounted
  <2> QED BY <2>1, <2>2, <2>3, <1>1, <1>3, <1>11 DEF Accounted
<1> QED BY <1>1, <1>3, <1>8, <1>9, <1>10, <1>13 DEF IInv, AssertionsHold

(***************************************************************************)
(* Whatever vanishes, the invariant holds.                                 *)
(***************************************************************************)
LEMMA VanishKeeps ==
    ASSUME IInv, Vanish
    PROVE  IInv'
<1>1. TypeOK /\ trouble < MaxTrouble /\ trouble' = trouble + 1
      /\ UNCHANGED <<ueVars, gnbVars, abort, harqHistory, received>>
  BY DEF IInv, Vanish
<1>2. dcis \in Seq(Dci) /\ tbs \in Seq(Tb) /\ sr \in BOOLEAN /\ trouble \in 0 .. MaxTrouble
      /\ writtenOff \subseteq Data /\ MaxTrouble \in Nat
  BY <1>1, UlAirAssumption DEF TypeOK
<1>3. ASSUME dcis' \in Seq(Dci), tbs' \in Seq(Tb), sr' \in BOOLEAN, writtenOff' \subseteq Data
      PROVE  TypeOK'
  <2>1. trouble' \in 0 .. MaxTrouble
    BY <1>1, <1>2
  <2>2. UeTypeOK'
    BY <1>1 DEF TypeOK, UeTypeOK, ueVars
  <2>3. GnbTypeOK'
    BY <1>1, GnbTypeKept
  <2> QED BY <1>1, <1>3, <2>1, <2>2, <2>3 DEF TypeOK
<1>4. CASE sr /\ sr' = FALSE /\ UNCHANGED <<dcis, tbs, writtenOff>>
  <2>1. TypeOK'
    BY <1>2, <1>3, <1>4
  <2> QED BY <2>1, <1>1, <1>4, QuietStep DEF ueVars, gnbVars
<1>5. CASE /\ dcis # <<>> /\ dcis' = Tail(dcis)
           /\ writtenOff' = IF Head(dcis).ndi = 1 THEN writtenOff
                            ELSE writtenOff \cup (harqPacket[Head(dcis).p] \cap Data)
           /\ UNCHANGED <<sr, tbs>>
  <2>1. dcis' \in Seq(Dci)
    BY <1>2, <1>5, TailKeeps
  <2>2. writtenOff' \subseteq Data
    BY <1>2, <1>5
  <2>3. TypeOK'
    BY <1>2, <1>3, <1>5, <2>1, <2>2
  <2> QED BY <2>3, <1>1, <1>5, LostGrantKeeps
<1>6. CASE /\ tbs # <<>> /\ tbs' = Tail(tbs)
           /\ writtenOff' = writtenOff \cup Head(tbs).data
           /\ UNCHANGED <<sr, dcis>>
  <2>1. Head(tbs) \in Tb /\ tbs' \in Seq(Tb)
    BY <1>2, <1>6, TailKeeps
  <2>2. writtenOff' \subseteq Data
    BY <1>2, <1>6, <2>1 DEF Tb
  <2>3. TypeOK'
    BY <1>2, <1>3, <1>6, <2>1, <2>2
  <2> QED BY <2>3, <1>1, <1>6, LostBlockKeeps
<1> QED BY <1>4, <1>5, <1>6 DEF Vanish

-----------------------------------------------------------------------------
(* A slot of the scheduler                                                 *)

(***************************************************************************)
(* Ageing frees no process that something is on the way for.               *)
(***************************************************************************)
LEMMA Aged ==
    ASSUME IInv, NEW h, h = ResetExpiredHARQ(ulHarq)
    PROVE  /\ h \in [HarqId -> Process]
           /\ \A p \in HarqId : h[p].rv = ulHarq[p].rv \/ h[p].rv = 0
           /\ \A p \in HarqId : Concerned(p) => /\ Active(h, p)
                                                /\ h[p].status = "WAITING_FEEDBACK"
                                                /\ h[p].timer = ulHarq[p].timer + 1
                                                /\ h[p].rv = ulHarq[p].rv
<1>1. ulHarq \in [HarqId -> Process] /\ InTime
  BY DEF IInv, TypeOK, GnbTypeOK, Process
<1>2. NumHarqProcess \in Nat \ {0} /\ MaxRv \in Nat /\ MaxDelay \in 0 .. NumHarqProcess - 1
  BY UlAirAssumption, UplinkAssumption
<1>3. \A p \in HarqId : h[p] = IF Active(ulHarq, p) /\ ulHarq[p].timer < NumHarqProcess
                               THEN [ulHarq[p] EXCEPT !.timer = @ + 1] ELSE Erased
  BY DEF ResetExpiredHARQ
<1>4. Erased \in Process /\ Erased.rv = 0
  BY <1>2 DEF Erased, Process
<1>5. ASSUME NEW p \in HarqId, ulHarq[p].timer < NumHarqProcess
      PROVE  /\ [ulHarq[p] EXCEPT !.timer = @ + 1] \in Process
             /\ [ulHarq[p] EXCEPT !.timer = @ + 1].rv = ulHarq[p].rv
             /\ [ulHarq[p] EXCEPT !.timer = @ + 1].status = ulHarq[p].status
             /\ [ulHarq[p] EXCEPT !.timer = @ + 1].timer = ulHarq[p].timer + 1
  <2>1. ulHarq[p] \in Process
    BY <1>1
  <2>2. ulHarq[p].timer + 1 \in 0 .. NumHarqProcess
    BY <1>2, <1>5, <2>1 DEF Process
  <2> QED BY <2>1, <2>2 DEF Process
<1>6. h \in [HarqId -> Process]
  <2>1. h = [p \in HarqId |-> h[p]]
    BY DEF ResetExpiredHARQ
  <2>2. \A p \in HarqId : h[p] \in Process
    BY <1>3, <1>4, <1>5
  <2> QED BY <2>1, <2>2
<1>7. \A p \in HarqId : h[p].rv = ulHarq[p].rv \/ h[p].rv = 0
  BY <1>3, <1>4, <1>5
<1>8. ASSUME NEW p \in HarqId, Concerned(p)
      PROVE  /\ Active(h, p)
             /\ h[p].status = "WAITING_FEEDBACK"
             /\ h[p].timer = ulHarq[p].timer + 1
             /\ h[p].rv = ulHarq[p].rv
  <2>1. ulHarq[p].status = "WAITING_FEEDBACK" /\ ulHarq[p].timer <= MaxDelay
        /\ ulHarq[p].timer \in 0 .. NumHarqProcess
    BY <1>1, <1>8 DEF InTime, Process
  <2>2. ulHarq[p].timer < NumHarqProcess
    BY <1>2, <2>1
  <2>3. Active(ulHarq, p)
    BY <2>1 DEF Active
  <2>4. h[p] = [ulHarq[p] EXCEPT !.timer = @ + 1]
    BY <1>3, <2>2, <2>3
  <2> QED BY <1>5, <2>1, <2>2, <2>4 DEF Active
<1> QED BY <1>6, <1>7, <1>8

(***************************************************************************)
(* The feedback of a slot: all that was received or buffered, and no       *)
(* process twice.                                                          *)
(***************************************************************************)
LEMMA FeedbackIs ==
    ASSUME IInv, NEW h, h = ResetExpiredHARQ(ulHarq), NEW fb, fb = MergeHARQ(h)
    PROVE  /\ fb \in Seq(Feedback)
           /\ Once(fb)
           /\ \A p : About(fb, p) <=> About(ulHarqInfoReceived, p) \/ Postponed(p)
           /\ \A p : Refused(fb, p) <=> Refused(ulHarqInfoReceived, p) \/ Postponed(p)
<1> DEFINE buffered == [i \in DOMAIN ulHarqToRetransmit |->
                           [p |-> ulHarqToRetransmit[i], ok |-> FALSE]]
           all == buffered \o ulHarqInfoReceived
<1>1. ulHarqInfoReceived \in Seq(Feedback) /\ ulHarqToRetransmit \in Seq(HarqId) /\ OnePlace
  BY DEF IInv, TypeOK, GnbTypeOK
<1>2. /\ buffered \in Seq(Feedback)
      /\ DOMAIN buffered = DOMAIN ulHarqToRetransmit
      /\ \A i \in DOMAIN ulHarqToRetransmit :
            buffered[i] = [p |-> ulHarqToRetransmit[i], ok |-> FALSE]
  <2>1. \A i \in DOMAIN ulHarqToRetransmit : ulHarqToRetransmit[i] \in HarqId
    BY <1>1
  <2>2. \A q \in HarqId : [p |-> q, ok |-> FALSE] \in Feedback
    BY DEF Feedback
  <2>3. \A i \in DOMAIN ulHarqToRetransmit : [p |-> ulHarqToRetransmit[i], ok |-> FALSE] \in Feedback
    BY <2>1, <2>2
  <2>4. DOMAIN ulHarqToRetransmit = 1 .. Len(ulHarqToRetransmit) /\ Len(ulHarqToRetransmit) \in Nat
    BY <1>1
  <2> QED BY <2>3, <2>4
<1>3. \A q : [p |-> q, ok |-> FALSE].p = q /\ ~[p |-> q, ok |-> FALSE].ok
  OBVIOUS
<1> HIDE DEF buffered
<1>4. ToSet(buffered) = {[p |-> q, ok |-> FALSE] : q \in ToSet(ulHarqToRetransmit)}
  BY <1>2 DEF ToSet
<1>5. Once(buffered)
  <2>1. \A i, j \in DOMAIN ulHarqToRetransmit : ulHarqToRetransmit[i] = ulHarqToRetransmit[j] => i = j
    BY <1>1 DEF OnePlace, Alone
  <2> QED BY <2>1, <1>2, <1>3 DEF Once
<1>6. \A x \in ToSet(buffered) : Postponed(x.p) /\ ~x.ok
  BY <1>3, <1>4 DEF Postponed
<1>7. \A p : Postponed(p) => \E x \in ToSet(buffered) : x.p = p /\ ~x.ok
  BY <1>3, <1>4 DEF Postponed
<1>8. \A y \in ToSet(ulHarqInfoReceived) : y \in Feedback
  BY <1>1 DEF ToSet
<1>9. \A x \in ToSet(buffered), y \in ToSet(ulHarqInfoReceived) : x.p # y.p
  BY <1>1, <1>6, <1>8 DEF OnePlace, About, Feedback
<1>10. /\ all \in Seq(Feedback)
       /\ ToSet(all) = ToSet(buffered) \cup ToSet(ulHarqInfoReceived)
       /\ Once(all)
  BY <1>1, <1>2, <1>5, <1>9, ConcatKeeps DEF OnePlace
<1>11. fb = At(all, {i \in DOMAIN all : Active(h, all[i].p)})
  BY DEF MergeHARQ, buffered
<1> HIDE DEF all
<1>12. \A x \in ToSet(all) : x.p \in HarqId /\ Concerned(x.p)
  <2>1. \A x \in ToSet(all) : x \in Feedback
    BY <1>10 DEF ToSet
  <2> QED BY <2>1, <1>6, <1>10 DEF Feedback, Concerned, About
<1>13. {i \in DOMAIN all : Active(h, all[i].p)} = DOMAIN all
  <2>1. \A i \in DOMAIN all : all[i] \in ToSet(all)
    BY DEF ToSet
  <2> QED BY <2>1, <1>12, Aged
<1>14. fb \in Seq(Feedback) /\ Once(fb) /\ ToSet(fb) = ToSet(all)
  <2>1. fb = At(all, DOMAIN all)
    BY <1>11, <1>13
  <2>2. ToSet(all) = {all[i] : i \in DOMAIN all}
    BY DEF ToSet
  <2> QED BY <2>1, <2>2, <1>10, AtKeeps
<1>15. \A p : About(fb, p) <=> About(ulHarqInfoReceived, p) \/ Postponed(p)
  BY <1>6, <1>7, <1>10, <1>14 DEF About
<1>16. \A p : Refused(fb, p) <=> Refused(ulHarqInfoReceived, p) \/ Postponed(p)
  BY <1>6, <1>7, <1>10, <1>14 DEF Refused
<1> QED BY <1>14, <1>15, <1>16

(***************************************************************************)
(* No feedback is twofold, so that the checks of the scheduler pass.       *)
(***************************************************************************)
LEMMA NotTwofold ==
    ASSUME NEW fb, Once(fb)
    PROVE  ~IsTwofold(fb)
BY DEF Once, IsTwofold

(***************************************************************************)
(* The NACKs among the feedback that do not end their process; what the    *)
(* feedback makes of the processes.                                        *)
(***************************************************************************)
LEMMA NacksAre ==
    ASSUME NEW h \in [HarqId -> Process], NEW fb \in Seq(Feedback), Once(fb),
           NEW n, n = Nacks(h, fb), NEW told, told = ProcessHARQFeedbacks(h, fb)
    PROVE  /\ n \in Seq(Feedback)
           /\ Once(n)
           /\ \A p : About(n, p) <=> Refused(fb, p) /\ ~IsLastRv(h[p].rv)
           /\ told \in [HarqId -> Process]
           /\ \A p \in HarqId :
                /\ ~About(fb, p) => told[p] = h[p]
                /\ About(n, p) => told[p] = [h[p] EXCEPT !.status = "RECEIVED_FEEDBACK"]
                /\ About(fb, p) /\ ~About(n, p) => told[p] = Erased
<1> DEFINE I == {i \in DOMAIN fb : ~Ends(h, fb[i])}
<1>1. n = At(fb, I)
  BY DEF Nacks
<1>2. n \in Seq(Feedback) /\ Once(n) /\ ToSet(n) = {fb[i] : i \in I}
  BY <1>1, AtKeeps
<1>3. \A x : x \in ToSet(n) <=> x \in ToSet(fb) /\ ~Ends(h, x)
  BY <1>2 DEF ToSet
<1>4. \A x, y \in ToSet(fb) : x.p = y.p => x = y
  BY DEF ToSet, Once
<1>5. \A p : About(n, p) <=> Refused(fb, p) /\ ~IsLastRv(h[p].rv)
  BY <1>3 DEF About, Refused, Ends
<1>6. ASSUME NEW p \in HarqId
      PROVE  /\ ~About(fb, p) => told[p] = h[p]
             /\ About(n, p) => told[p] = [h[p] EXCEPT !.status = "RECEIVED_FEEDBACK"]
             /\ About(fb, p) /\ ~About(n, p) => told[p] = Erased
  <2>1. told[p] = IF \E f \in ToSet(fb) : f.p = p /\ Ends(h, f) THEN Erased
                  ELSE IF p \in Named(fb) THEN [h[p] EXCEPT !.status = "RECEIVED_FEEDBACK"]
                  ELSE h[p]
    BY DEF ProcessHARQFeedbacks
  <2>2. p \in Named(fb) <=> About(fb, p)
    BY DEF Named, About, ToSet
  <2>3. About(n, p) => About(fb, p) /\ ~\E f \in ToSet(fb) : f.p = p /\ Ends(h, f)
    BY <1>3, <1>4 DEF About
  <2>4. About(fb, p) /\ ~About(n, p) => \E f \in ToSet(fb) : f.p = p /\ Ends(h, f)
    BY <1>3 DEF About
  <2>5. ~About(fb, p) => ~\E f \in ToSet(fb) : f.p = p /\ Ends(h, f)
    BY DEF About
  <2> QED BY <2>1, <2>2, <2>3, <2>4, <2>5
<1>7. told \in [HarqId -> Process]
  <2>1. told = [p \in HarqId |-> told[p]]
    BY DEF ProcessHARQFeedbacks
  <2>2. ASSUME NEW p \in HarqId PROVE told[p] \in Process
    <3>1. Erased \in Process
      BY UlAirAssumption DEF Erased, Process
    <3>2. [h[p] EXCEPT !.status = "RECEIVED_FEEDBACK"] \in Process
      BY DEF Process
    <3>3. About(n, p) => About(fb, p)
      BY <1>3 DEF About
    <3> QED BY <3>1, <3>2, <3>3, <1>6
  <2> QED BY <2>1, <2>2
<1> QED BY <1>2, <1>5, <1>6, <1>7

\* One of the positions J of n is about process p.
Holds(n, J, p) == \E i \in J : n[i].p = p

\* retxDcis of SlotUlWith, and the NACKs of the positions J as they are buffered.
RetxGrants(n, again, retx) ==
    At([i \in DOMAIN n |-> [p |-> n[i].p, ndi |-> 0, rv |-> again[n[i].p].rv]], retx)
Kept(n, J) == [i \in DOMAIN At(n, J) |-> At(n, J)[i].p]

(***************************************************************************)
(* The grants for the NACKs that are retransmitted, one for each process.  *)
(***************************************************************************)
LEMMA RetxGrantsAre ==
    ASSUME NEW n \in Seq(Feedback), Once(n), NEW retx \in SUBSET (DOMAIN n), NEW again,
           \A i \in retx : again[n[i].p].rv \in 0 .. MaxRv
    PROVE  /\ RetxGrants(n, again, retx) \in Seq(Dci)
           /\ Once(RetxGrants(n, again, retx))
           /\ \A p : About(RetxGrants(n, again, retx), p) <=> Holds(n, retx, p)
           /\ \A p : Again(RetxGrants(n, again, retx), p) <=> Holds(n, retx, p)
           /\ \A x \in ToSet(RetxGrants(n, again, retx)) : x.rv = again[x.p].rv /\ Holds(n, retx, x.p)
<1>0. PICK X : X = RetxGrants(n, again, retx)
  OBVIOUS
<1> DEFINE g(i) == [p |-> n[i].p, ndi |-> 0, rv |-> again[n[i].p].rv]
           G == {g(i) : i \in DOMAIN n}
           s == [i \in DOMAIN n |-> g(i)]
<1>1. DOMAIN n = 1 .. Len(n) /\ Len(n) \in Nat /\ \A i \in DOMAIN n : n[i] \in Feedback
  OBVIOUS
<1>2. \A i \in DOMAIN n : n[i].p \in HarqId
  BY <1>1 DEF Feedback
<1>3. \A i : g(i).p = n[i].p /\ g(i).ndi = 0 /\ g(i).rv = again[n[i].p].rv
  OBVIOUS
<1>4. \A i \in retx : g(i) \in Dci
  BY <1>2 DEF Dci
<1> HIDE DEF g
<1>5. s \in Seq(G) /\ DOMAIN s = DOMAIN n /\ \A i \in DOMAIN n : s[i] = g(i)
  BY <1>1
<1>6. X = At(s, retx)
  BY <1>0 DEF g, RetxGrants
<1> HIDE DEF s, G
<1>7. X \in Seq(G) /\ ToSet(X) = {g(i) : i \in retx} /\ (Once(s) => Once(X))
  <2>1. retx \in SUBSET (DOMAIN s)
    BY <1>5
  <2>2. X \in Seq(G) /\ ToSet(X) = {s[i] : i \in retx} /\ (Once(s) => Once(X))
    BY <2>1, <1>5, <1>6, AtKeeps
  <2>3. {s[i] : i \in retx} = {g(i) : i \in retx}
    BY <1>5
  <2> QED BY <2>2, <2>3
<1>8. Once(X)
  <2>1. Once(s)
    BY <1>3, <1>5 DEF Once
  <2> QED BY <2>1, <1>7
<1>9. X \in Seq(Dci)
  <2>1. \A k \in DOMAIN X : X[k] \in ToSet(X)
    BY DEF ToSet
  <2>2. \A x \in ToSet(X) : x \in Dci
    BY <1>4, <1>7
  <2>3. X \in Seq(G)
    BY <1>7
  <2>4. Len(X) \in Nat /\ X \in [1 .. Len(X) -> G]
    BY <2>3, LenProperties
  <2>5. X \in [1 .. Len(X) -> Dci]
    BY <2>1, <2>2, <2>4
  <2> QED BY <2>4, <2>5
<1>10. (\A p : About(X, p) <=> Holds(n, retx, p)) /\ (\A p : Again(X, p) <=> Holds(n, retx, p))
  BY <1>3, <1>7 DEF About, Again, Holds
<1>11. \A x \in ToSet(X) : x.rv = again[x.p].rv /\ Holds(n, retx, x.p)
  BY <1>3, <1>7 DEF Holds
<1> QED BY <1>0, <1>8, <1>9, <1>10, <1>11

(***************************************************************************)
(* The NACKs that are buffered, one for each process.                      *)
(***************************************************************************)
LEMMA BufferedAre ==
    ASSUME NEW n \in Seq(Feedback), Once(n), NEW J \in SUBSET (DOMAIN n),
           NEW R, R = Kept(n, J)
    PROVE  R \in Seq(HarqId) /\ Alone(R) /\ ToSet(R) = {n[i].p : i \in J}
<1>0. PICK s : s = At(n, J)
  OBVIOUS
<1>1. s \in Seq(Feedback) /\ ToSet(s) = {n[i] : i \in J} /\ Once(s)
  BY <1>0, AtKeeps
<1>2. R = [i \in DOMAIN s |-> s[i].p]
  BY <1>0 DEF Kept
<1>3. DOMAIN s = 1 .. Len(s) /\ Len(s) \in Nat /\ \A i \in DOMAIN s : s[i].p \in HarqId
  <2>1. s \in Seq(Feedback)
    BY <1>1
  <2>2. DOMAIN s = 1 .. Len(s) /\ Len(s) \in Nat /\ \A i \in DOMAIN s : s[i] \in Feedback
    BY <2>1
  <2> QED BY <2>2 DEF Feedback
<1>4. R \in Seq(HarqId) /\ DOMAIN R = DOMAIN s /\ \A i \in DOMAIN s : R[i] = s[i].p
  BY <1>2, <1>3
<1>5. Alone(R)
  BY <1>1, <1>4 DEF Alone, Once
<1>6. ToSet(R) = {x.p : x \in ToSet(s)}
  BY <1>4 DEF ToSet
<1> QED BY <1>1, <1>4, <1>5, <1>6

(***************************************************************************)
(* The fields of a process that is retransmitted, or buffered.             *)
(***************************************************************************)
LEMMA RetransmittedIs ==
    ASSUME NEW told, NEW p, told[p] \in Process
    PROVE  /\ Buffered(told, p) \in Process
           /\ Buffered(told, p).status = "WAITING_FEEDBACK"
           /\ Buffered(told, p).timer = 0
           /\ Buffered(told, p).rv = told[p].rv
           /\ Retransmitted(told, p).status = "WAITING_FEEDBACK"
           /\ Retransmitted(told, p).timer = 0
           /\ Retransmitted(told, p).rv = told[p].rv + 1
           /\ told[p].rv # MaxRv => Retransmitted(told, p) \in Process
<1> DEFINE r == told[p]
           s == [r EXCEPT !.status = "WAITING_FEEDBACK"]
           b == [s EXCEPT !.timer = 0]
           t == [b EXCEPT !.rv = @ + 1]
<1>1. r \in Process
  OBVIOUS
<1>2. Buffered(told, p) = b /\ Retransmitted(told, p) = t
  BY DEF Buffered, Retransmitted
<1>3. 0 \in 0 .. NumHarqProcess /\ MaxRv \in Nat
  BY UlAirAssumption
<1> HIDE DEF r
<1>4. s \in Process /\ s.status = "WAITING_FEEDBACK" /\ s.rv = r.rv
  BY <1>1 DEF Process
<1> HIDE DEF s
<1>5. b \in Process /\ b.status = "WAITING_FEEDBACK" /\ b.timer = 0 /\ b.rv = r.rv
  BY <1>3, <1>4 DEF Process
<1> HIDE DEF b
<1>6. t.status = "WAITING_FEEDBACK" /\ t.timer = 0 /\ t.rv = r.rv + 1
  BY <1>5 DEF Process
<1>7. r.rv # MaxRv => t \in Process
  <2>1. r.rv # MaxRv => r.rv + 1 \in 0 .. MaxRv
    BY <1>1, <1>3 DEF Process
  <2> QED BY <2>1, <1>5 DEF Process
<1> QED BY <1>2, <1>5, <1>6, <1>7 DEF r

\* A NACK that does not end its process.
Nacked(p) ==
    /\ Refused(ulHarqInfoReceived, p) \/ Postponed(p)
    /\ ~IsLastRv(ulHarq[p].rv)

\* The values that a slot computes, see SlotUlWith: processes after ageing, the
\* feedback, the NACKs, the processes after the feedback, and in the end; the
\* processes that are retransmitted, and those whose NACK is buffered.
AgedHarq == ResetExpiredHARQ(ulHarq)
SlotFeedback == MergeHARQ(AgedHarq)
SlotNacks == Nacks(AgedHarq, SlotFeedback)
ToldHarq == ProcessHARQFeedbacks(AgedHarq, SlotFeedback)
SlotHarq(cut, retx) == ScheduleUlHarq(ToldHarq, SlotNacks, cut, retx)
Resumed(retx) == {SlotNacks[i].p : i \in retx}
Deferred(cut, retx) == {SlotNacks[i].p : i \in (1 .. cut) \ retx}

(***************************************************************************)
(* What a slot makes of the processes: those in A are retransmitted, those *)
(* in B wait for the next slot, other NACKs find no symbol; a process that *)
(* has a grant or a block under way gets older; one whose feedback is the  *)
(* last ends.                                                              *)
(***************************************************************************)
LEMMA ProcessesAre ==
    ASSUME IInv, NEW cut, NEW retx, Served(SlotNacks, cut, retx),
           NEW n, n = SlotNacks,
           NEW again, again = SlotHarq(cut, retx),
           NEW A, A = Resumed(retx),
           NEW B, B = Deferred(cut, retx)
    PROVE  /\ n \in Seq(Feedback) /\ Once(n)
           /\ retx \subseteq DOMAIN n /\ (1 .. cut) \ retx \subseteq DOMAIN n
           /\ again \in [HarqId -> Process]
           /\ A \subseteq HarqId /\ B \subseteq HarqId /\ A \cap B = {}
           /\ \A p \in A : /\ Nacked(p)
                           /\ again[p].status = "WAITING_FEEDBACK"
                           /\ again[p].timer = 0
           /\ \A p \in B : /\ Nacked(p)
                           /\ again[p].status = "WAITING_FEEDBACK"
                           /\ again[p].timer = 0
                           /\ again[p].rv = ulHarq[p].rv
           /\ \A p \in HarqId : Nacked(p) /\ p \notin A \cup B => again[p].status = "RECEIVED_FEEDBACK"
           /\ \A p \in HarqId : About(dcis, p) \/ About(tbs, p) =>
                /\ again[p].status = "WAITING_FEEDBACK"
                /\ again[p].timer = ulHarq[p].timer + 1
                /\ again[p].rv = ulHarq[p].rv
           /\ \A p \in HarqId : ~enableHarqReTx => again[p].rv = 0
<1>0. PICK h, fb, told : h = AgedHarq /\ fb = SlotFeedback /\ told = ToldHarq
  OBVIOUS
<1>a. /\ h = ResetExpiredHARQ(ulHarq)
      /\ fb = MergeHARQ(h)
      /\ n = Nacks(h, fb)
      /\ told = ProcessHARQFeedbacks(h, fb)
      /\ again = ScheduleUlHarq(told, n, cut, retx)
      /\ A = {n[i].p : i \in retx}
      /\ B = {n[i].p : i \in (1 .. cut) \ retx}
      /\ Served(n, cut, retx)
  BY <1>0 DEF AgedHarq, SlotFeedback, SlotNacks, ToldHarq, SlotHarq, Resumed, Deferred
<1>1. OnePlace /\ InTime
  BY DEF IInv
<1>2. /\ h \in [HarqId -> Process]
      /\ \A p \in HarqId : h[p].rv = ulHarq[p].rv \/ h[p].rv = 0
      /\ \A p \in HarqId : Concerned(p) => /\ h[p].status = "WAITING_FEEDBACK"
                                           /\ h[p].timer = ulHarq[p].timer + 1
                                           /\ h[p].rv = ulHarq[p].rv
  BY <1>a, Aged
<1>3. /\ fb \in Seq(Feedback)
      /\ Once(fb)
      /\ \A p : About(fb, p) <=> About(ulHarqInfoReceived, p) \/ Postponed(p)
      /\ \A p : Refused(fb, p) <=> Refused(ulHarqInfoReceived, p) \/ Postponed(p)
  BY <1>a, FeedbackIs
<1>4. /\ n \in Seq(Feedback)
      /\ Once(n)
      /\ \A p : About(n, p) <=> Refused(fb, p) /\ ~IsLastRv(h[p].rv)
      /\ told \in [HarqId -> Process]
      /\ \A p \in HarqId :
            /\ ~About(fb, p) => told[p] = h[p]
            /\ About(n, p) => told[p] = [h[p] EXCEPT !.status = "RECEIVED_FEEDBACK"]
            /\ About(fb, p) /\ ~About(n, p) => told[p] = Erased
  BY <1>2, <1>3, <1>a, NacksAre
<1>5. /\ retx \subseteq DOMAIN n /\ (1 .. cut) \ retx \subseteq DOMAIN n
      /\ A \subseteq HarqId /\ B \subseteq HarqId /\ A \cap B = {}
      /\ \A p \in A \cup B : About(n, p)
      /\ \A P : (\A p \in HarqId : again[p] \in P) => again \in [HarqId -> P]
      /\ \A p \in HarqId :
            /\ p \in A => again[p] = Retransmitted(told, p)
            /\ p \in B => again[p] = Buffered(told, p)
            /\ p \notin A \cup B => again[p] = told[p]
  <2>1. DOMAIN n = 1 .. Len(n) /\ Len(n) \in Nat /\ \A i \in DOMAIN n : n[i] \in Feedback
    BY <1>4
  <2>2. cut \in 0 .. Len(n) /\ retx \subseteq 1 .. cut
    BY <1>a DEF Served
  <2>3. \A i \in 1 .. cut : i \in DOMAIN n
    BY <2>1, <2>2
  <2>4. retx \subseteq DOMAIN n /\ (1 .. cut) \ retx \subseteq DOMAIN n
    BY <2>2, <2>3
  <2>5. \A i \in DOMAIN n : n[i].p \in HarqId /\ About(n, n[i].p)
    BY <2>1 DEF Feedback, About, ToSet
  <2>6. A \subseteq HarqId /\ B \subseteq HarqId /\ \A p \in A \cup B : About(n, p)
    BY <1>a, <2>4, <2>5
  <2>7. A \cap B = {}
    BY <1>4, <1>a, <2>4 DEF Once
  <2>8. ASSUME NEW p \in HarqId
        PROVE  /\ p \in A => again[p] = Retransmitted(told, p)
               /\ p \in B => again[p] = Buffered(told, p)
               /\ p \notin A \cup B => again[p] = told[p]
    <3>1. again[p] = IF \E i \in retx : n[i].p = p THEN Retransmitted(told, p)
                     ELSE IF \E i \in 1 .. cut : n[i].p = p THEN Buffered(told, p)
                     ELSE told[p]
      BY <1>a DEF ScheduleUlHarq
    <3>2. (\E i \in retx : n[i].p = p) <=> p \in A
      BY <1>a
    <3>3. (\E i \in 1 .. cut : n[i].p = p) <=> p \in A \cup B
      BY <1>a, <2>2
    <3> QED BY <3>1, <3>2, <3>3, <2>7
  <2>9. \A P : (\A p \in HarqId : again[p] \in P) => again \in [HarqId -> P]
    <3>1. again = [p \in HarqId |-> again[p]]
      BY <1>a DEF ScheduleUlHarq
    <3> QED BY <3>1
  <2> QED BY <2>4, <2>6, <2>7, <2>8, <2>9
<1>6. \A p \in HarqId : About(n, p) <=> Nacked(p)
  <2> SUFFICES ASSUME NEW p \in HarqId PROVE About(n, p) <=> Nacked(p)
    OBVIOUS
  <2>1. Refused(fb, p) => h[p].rv = ulHarq[p].rv
    BY <1>2, <1>3 DEF Concerned, Refused, About
  <2> QED BY <2>1, <1>3, <1>4 DEF Nacked
<1>7. ASSUME NEW p \in HarqId, Nacked(p)
      PROVE  /\ told[p] \in Process
             /\ told[p].status = "RECEIVED_FEEDBACK"
             /\ told[p].rv = ulHarq[p].rv
  <2>1. Concerned(p)
    BY <1>7 DEF Nacked, Concerned, Refused, About
  <2>2. h[p].rv = ulHarq[p].rv /\ h[p] \in Process
    BY <2>1, <1>2
  <2>3. told[p] = [h[p] EXCEPT !.status = "RECEIVED_FEEDBACK"]
    BY <1>4, <1>6, <1>7
  <2> QED BY <2>2, <2>3, <1>4 DEF Process
<1>9. ASSUME NEW p \in A
      PROVE  /\ Nacked(p)
             /\ again[p].status = "WAITING_FEEDBACK"
             /\ again[p].timer = 0
             /\ again[p] \in Process
             /\ enableHarqReTx
  <2>1. p \in HarqId /\ Nacked(p)
    BY <1>5, <1>6
  <2>2. again[p] = Retransmitted(told, p)
    BY <2>1, <1>5
  <2>3. told[p] \in Process /\ told[p].rv = ulHarq[p].rv
    BY <2>1, <1>7
  <2>4. enableHarqReTx
    BY <2>1, <1>1 DEF Nacked, IsLastRv, InTime
  <2>5. ulHarq[p].rv # MaxRv
    BY <2>1, <2>4 DEF Nacked, IsLastRv
  <2>6. again[p] \in Process /\ again[p].status = "WAITING_FEEDBACK" /\ again[p].timer = 0
    BY <2>2, <2>3, <2>5, RetransmittedIs
  <2> QED BY <2>1, <2>4, <2>6
<1>10. ASSUME NEW p \in B
       PROVE  /\ Nacked(p)
              /\ again[p].status = "WAITING_FEEDBACK"
              /\ again[p].timer = 0
              /\ again[p].rv = ulHarq[p].rv
              /\ again[p] \in Process
  <2>1. p \in HarqId /\ Nacked(p)
    BY <1>5, <1>6
  <2>2. again[p] = Buffered(told, p)
    BY <2>1, <1>5
  <2>3. told[p] \in Process /\ told[p].rv = ulHarq[p].rv
    BY <2>1, <1>7
  <2>4. again[p] \in Process /\ again[p].status = "WAITING_FEEDBACK" /\ again[p].timer = 0
        /\ again[p].rv = told[p].rv
    BY <2>2, <2>3, RetransmittedIs
  <2> QED BY <2>1, <2>3, <2>4
<1>11. again \in [HarqId -> Process]
  <2>1. \A p \in HarqId : again[p] \in Process
    BY <1>4, <1>5, <1>9, <1>10
  <2> QED BY <2>1, <1>5
<1>12. \A p \in HarqId : Nacked(p) /\ p \notin A \cup B => again[p].status = "RECEIVED_FEEDBACK"
  BY <1>5, <1>7
<1>13. ASSUME NEW p \in HarqId, About(dcis, p) \/ About(tbs, p)
       PROVE  /\ again[p].status = "WAITING_FEEDBACK"
              /\ again[p].timer = ulHarq[p].timer + 1
              /\ again[p].rv = ulHarq[p].rv
  <2>1. ~About(ulHarqInfoReceived, p) /\ ~Postponed(p) /\ Concerned(p)
    BY <1>1, <1>13 DEF OnePlace, Concerned
  <2>2. ~About(fb, p) /\ ~Nacked(p)
    BY <2>1, <1>3 DEF Nacked, Refused, About
  <2>3. again[p] = h[p]
    BY <2>2, <1>4, <1>5, <1>6
  <2> QED BY <2>1, <2>3, <1>2
<1>14. ASSUME NEW p \in HarqId, ~enableHarqReTx PROVE again[p].rv = 0
  <2>1. ulHarq[p].rv = 0 /\ h[p].rv = 0
    BY <1>1, <1>2, <1>14 DEF InTime
  <2>2. CASE p \in A
    BY <2>2, <1>9, <1>14
  <2>3. CASE p \in B
    BY <2>1, <2>3, <1>10
  <2>4. CASE p \notin A \cup B
    <3>1. again[p] = told[p]
      BY <2>4, <1>5
    <3>2. CASE ~About(fb, p)
      BY <2>1, <3>1, <3>2, <1>4
    <3>3. CASE About(n, p)
      BY <2>1, <3>1, <3>3, <1>6, <1>7
    <3>4. CASE About(fb, p) /\ ~About(n, p)
      BY <3>1, <3>4, <1>4 DEF Erased
    <3> QED BY <3>2, <3>3, <3>4
  <2> QED BY <2>2, <2>3, <2>4
<1>15. /\ n \in Seq(Feedback) /\ Once(n)
       /\ retx \subseteq DOMAIN n /\ (1 .. cut) \ retx \subseteq DOMAIN n
  BY <1>4, <1>5
<1>18. A \subseteq HarqId /\ B \subseteq HarqId /\ A \cap B = {}
  BY <1>5
<1>16. \A p \in A : /\ Nacked(p)
                    /\ again[p].status = "WAITING_FEEDBACK"
                    /\ again[p].timer = 0
  BY <1>9
<1>17. \A p \in B : /\ Nacked(p)
                    /\ again[p].status = "WAITING_FEEDBACK"
                    /\ again[p].timer = 0
                    /\ again[p].rv = ulHarq[p].rv
  BY <1>10
<1> QED BY <1>11, <1>12, <1>13, <1>14, <1>15, <1>16, <1>17, <1>18

\* With the grants of a slot, the processes in A are retransmitted, and those in
\* N, which were free, get new data.
Grants(again, A, N) ==
    /\ \A p \in N : again[p].status = "INACTIVE"
    /\ ulHarq' \in [HarqId -> Process]
    /\ \A p \in N : /\ ulHarq'[p].status = "WAITING_FEEDBACK"
                    /\ ulHarq'[p].timer = 0
                    /\ ulHarq'[p].rv = 0
    /\ \A p \in HarqId : p \notin N => ulHarq'[p] = again[p]
    /\ dcis' \in Seq(Dci)
    /\ Once(dcis')
    /\ \A p : About(dcis', p) <=> About(dcis, p) \/ p \in A \/ p \in N
    /\ \A p : Again(dcis', p) <=> Again(dcis, p) \/ p \in A
    /\ \A d \in ToSet(dcis') : d.rv = ulHarq'[d.p].rv

(***************************************************************************)
(* The grants of a slot: one for each process that is retransmitted, or    *)
(* one for new data, to a process that was free.                           *)
(***************************************************************************)
LEMMA GrantsAre ==
    ASSUME IInv, NEW cut, NEW retx, NEW room \in BOOLEAN, NEW grant \in BOOLEAN,
           SlotUlWith(cut, retx, room, grant)
    PROVE  \E N \in SUBSET HarqId : Grants(SlotHarq(cut, retx), Resumed(retx), N)
<1>a. PICK again, A : again = SlotHarq(cut, retx) /\ A = Resumed(retx)
  OBVIOUS
<1>0. PICK n, B, p0 : n = SlotNacks /\ B = Deferred(cut, retx) /\ p0 = FirstAvailableId(again)
  OBVIOUS
<1>1. Served(SlotNacks, cut, retx)
  BY DEF SlotUlWith, AgedHarq, SlotFeedback, SlotNacks
<1>2. /\ n \in Seq(Feedback) /\ Once(n)
      /\ retx \subseteq DOMAIN n
      /\ again \in [HarqId -> Process]
      /\ A \subseteq HarqId
      /\ \A p \in A : Nacked(p) /\ again[p].status = "WAITING_FEEDBACK"
      /\ \A p \in HarqId : About(dcis, p) \/ About(tbs, p) =>
            /\ again[p].status = "WAITING_FEEDBACK"
            /\ again[p].rv = ulHarq[p].rv
  BY <1>0, <1>a, <1>1, ProcessesAre
<1>3. dcis \in Seq(Dci) /\ Once(dcis) /\ (\A d \in ToSet(dcis) : d.rv = ulHarq[d.p].rv)
  BY DEF IInv, TypeOK, OnePlace, InTime
<1>4. \A d \in ToSet(dcis) : d.p \in HarqId /\ About(dcis, d.p) /\ d.rv = again[d.p].rv
  <2>1. \A d \in ToSet(dcis) : d \in Dci
    BY <1>3 DEF ToSet
  <2>2. \A d \in ToSet(dcis) : d.p \in HarqId /\ About(dcis, d.p)
    BY <2>1 DEF Dci, About
  <2> QED BY <2>2, <1>2, <1>3
<1>5. CASE grant
  <2>1. /\ retx = {}
        /\ CanInsert(again)
        /\ ulHarq' = [again EXCEPT ![p0] = [status |-> "WAITING_FEEDBACK", timer |-> 0, rv |-> 0]]
        /\ dcis' = Append(dcis, [p |-> p0, ndi |-> 1, rv |-> 0])
    BY <1>0, <1>a, <1>5 DEF SlotUlWith, ScheduleUlData, SlotHarq, ToldHarq, AgedHarq, SlotFeedback, SlotNacks
  <2>2. p0 \in HarqId /\ again[p0].status = "INACTIVE"
    <3>1. \E p \in HarqId : ~Active(again, p)
      BY <2>1 DEF CanInsert
    <3>2. p0 \in HarqId /\ ~Active(again, p0)
      BY <1>0, <3>1 DEF FirstAvailableId
    <3> QED BY <3>2 DEF Active
  <2>3. A = {}
    BY <1>a, <2>1 DEF Resumed
  <2> DEFINE e == [p |-> p0, ndi |-> 1, rv |-> 0]
             fresh == [status |-> "WAITING_FEEDBACK", timer |-> 0, rv |-> 0]
  <2>4. e \in Dci /\ e.p = p0 /\ e.ndi # 0 /\ e.rv = 0
    BY <2>2, UlAirAssumption DEF Dci
  <2>5. fresh \in Process /\ fresh.status = "WAITING_FEEDBACK" /\ fresh.timer = 0 /\ fresh.rv = 0
    BY UlAirAssumption DEF Process
  <2>6. dcis' = Append(dcis, e) /\ ulHarq' = [again EXCEPT ![p0] = fresh]
    BY <2>1
  <2> HIDE DEF e, fresh
  <2>7. /\ ulHarq' \in [HarqId -> Process]
        /\ ulHarq'[p0] = fresh
        /\ \A p \in HarqId : p # p0 => ulHarq'[p] = again[p]
    BY <1>2, <2>2, <2>5, <2>6
  <2>8. ~About(dcis, p0)
    BY <1>2, <2>2
  <2>9. /\ dcis' \in Seq(Dci)
        /\ Once(dcis')
        /\ ToSet(dcis') = ToSet(dcis) \cup {e}
    <3>1. \A d \in ToSet(dcis) : d.p # e.p
      BY <2>4, <2>8 DEF About
    <3> QED BY <3>1, <1>3, <2>4, <2>6, AppendKeeps
  <2>10. /\ \A p : About(dcis', p) <=> About(dcis, p) \/ p = p0
         /\ \A p : Again(dcis', p) <=> Again(dcis, p)
    BY <2>4, <2>9 DEF About, Again
  <2>11. \A d \in ToSet(dcis') : d.rv = ulHarq'[d.p].rv
    <3>1. \A d \in ToSet(dcis) : d.p # p0
      BY <2>8 DEF About
    <3> QED BY <3>1, <1>4, <2>4, <2>5, <2>7, <2>9
  <2>12. {p0} \in SUBSET HarqId
    BY <2>2
  <2>13. Grants(again, A, {p0})
    BY <2>2, <2>3, <2>5, <2>7, <2>9, <2>10, <2>11 DEF Grants
  <2> QED BY <1>a, <2>12, <2>13
<1>6. CASE ~grant
  <2>0. PICK X : X = RetxGrants(n, again, retx)
    OBVIOUS
  <2>1. ulHarq' = again /\ dcis' = dcis \o X
    <3>1. /\ ulHarq' = SlotHarq(cut, retx)
          /\ dcis' = dcis \o RetxGrants(SlotNacks, SlotHarq(cut, retx), retx)
      BY <1>6 DEF RetxGrants, SlotUlWith, SlotHarq, ToldHarq, AgedHarq, SlotFeedback, SlotNacks
    <3> QED BY <3>1, <1>0, <1>a, <2>0
  <2>2. A = {n[i].p : i \in retx}
    BY <1>0, <1>a DEF Resumed
  <2>3. /\ X \in Seq(Dci)
        /\ Once(X)
        /\ \A p : About(X, p) <=> p \in A
        /\ \A p : Again(X, p) <=> p \in A
        /\ \A x \in ToSet(X) : x.rv = again[x.p].rv /\ x.p \in A
    <3>1. \A i \in retx : n[i].p \in A
      BY <2>2
    <3>2. \A i \in retx : again[n[i].p].rv \in 0 .. MaxRv
      BY <3>1, <1>2 DEF Process
    <3>3. retx \in SUBSET (DOMAIN n) /\ n \in Seq(Feedback) /\ Once(n)
      BY <1>2
    <3>4. /\ X \in Seq(Dci)
          /\ Once(X)
          /\ \A p : About(X, p) <=> Holds(n, retx, p)
          /\ \A p : Again(X, p) <=> Holds(n, retx, p)
          /\ \A x \in ToSet(X) : x.rv = again[x.p].rv /\ Holds(n, retx, x.p)
      <4>1. /\ RetxGrants(n, again, retx) \in Seq(Dci)
            /\ Once(RetxGrants(n, again, retx))
            /\ \A p : About(RetxGrants(n, again, retx), p) <=> Holds(n, retx, p)
            /\ \A p : Again(RetxGrants(n, again, retx), p) <=> Holds(n, retx, p)
            /\ \A x \in ToSet(RetxGrants(n, again, retx)) :
                  x.rv = again[x.p].rv /\ Holds(n, retx, x.p)
        BY <3>2, <3>3, RetxGrantsAre
      <4> QED BY <2>0, <4>1
    <3>5. \A p : p \in A <=> Holds(n, retx, p)
      BY <2>2 DEF Holds
    <3> QED BY <3>4, <3>5
  <2>4. \A p \in A : ~About(dcis, p)
    <3>1. \A p \in A : About(ulHarqInfoReceived, p) \/ Postponed(p)
      BY <1>2 DEF Nacked, About, Refused
    <3> QED BY <3>1, <1>2 DEF IInv, OnePlace
  <2>5. \A x \in ToSet(dcis), y \in ToSet(X) : x.p # y.p
    BY <2>3, <2>4 DEF About
  <2>6. dcis' \in Seq(Dci) /\ Once(dcis') /\ ToSet(dcis') = ToSet(dcis) \cup ToSet(X)
    BY <1>3, <2>1, <2>3, <2>5, ConcatKeeps
  <2>7. /\ \A p : About(dcis', p) <=> About(dcis, p) \/ p \in A
        /\ \A p : Again(dcis', p) <=> Again(dcis, p) \/ p \in A
    BY <2>3, <2>6 DEF About, Again
  <2>8. \A d \in ToSet(dcis') : d.rv = ulHarq'[d.p].rv
    BY <1>4, <2>1, <2>3, <2>6
  <2>9. {} \in SUBSET HarqId
    OBVIOUS
  <2>10. Grants(again, A, {})
    BY <1>2, <2>1, <2>6, <2>7, <2>8 DEF Grants
  <2> QED BY <1>a, <2>9, <2>10
<1> QED BY <1>5, <1>6

(***************************************************************************)
(* The reports and requests after a slot have their types.                 *)
(***************************************************************************)
LEMMA SlotReports ==
    ASSUME IInv, NEW cut, NEW retx, NEW room \in BOOLEAN, NEW grant \in BOOLEAN,
           SlotUlWith(cut, retx, room, grant)
    PROVE  /\ sr' \in BOOLEAN /\ srList' \in BOOLEAN /\ srBytesPending' \in BOOLEAN /\ lcg' \in BOOLEAN
           /\ ulCeReceived' \in {"none", "empty", "backlog"}
           /\ ulHarqInfoReceived' = <<>>
           /\ UNCHANGED <<enableHarqReTx, tbs, trouble>>
<1> DEFINE owed == SrAfterReport \/ (room /\ (srList \/ sr))
<1>1. lcg \in BOOLEAN
  BY DEF IInv, TypeOK, GnbTypeOK
<1>2. LcgAfterReport \in BOOLEAN
  BY <1>1 DEF LcgAfterReport
<1>3. owed \in BOOLEAN
  OBVIOUS
<1>4. /\ sr' = FALSE
      /\ srList' = ((srList \/ sr) /\ ~room)
      /\ ulCeReceived' = "none"
      /\ ulHarqInfoReceived' = <<>>
      /\ UNCHANGED <<enableHarqReTx, tbs, trouble>>
  BY DEF SlotUlWith
<1>5. srBytesPending' \in BOOLEAN /\ lcg' \in BOOLEAN
  <2>1. CASE grant
    <3>1. srBytesPending' = FALSE /\ lcg' \in {FALSE, LcgAfterReport}
      BY <2>1, ZenonT(30) DEF SlotUlWith, ScheduleUlData
    <3> QED BY <3>1, <1>2
  <2>2. CASE ~grant
    <3>1. srBytesPending' = owed /\ lcg' = LcgAfterReport
      BY <2>2 DEF SlotUlWith
    <3> HIDE DEF owed
    <3> QED BY <3>1, <1>2, <1>3
  <2> QED BY <2>1, <2>2
<1>6. srList' \in BOOLEAN
  BY <1>4
<1> QED BY <1>4, <1>5, <1>6

(***************************************************************************)
(* A slot: every NACK is retransmitted, buffered, or left to the timer and *)
(* written off; no feedback meets a process that does not wait for it.     *)
(***************************************************************************)
LEMMA SlotKeeps ==
    ASSUME IInv, NEW cut, NEW retx, NEW room \in BOOLEAN, NEW grant \in BOOLEAN,
           SlotUl(cut, retx, room, grant)
    PROVE  IInv'
<1>0. PICK n, again, A, B : /\ n = SlotNacks /\ again = SlotHarq(cut, retx)
                            /\ A = Resumed(retx) /\ B = Deferred(cut, retx)
  OBVIOUS
<1>1. TypeOK /\ OnePlace /\ InTime /\ SameBurst /\ Accounted /\ abort = "none"
  BY DEF IInv, AssertionsHold
<1>2. /\ SlotUlWith(cut, retx, room, grant)
      /\ \A p \in Pending : ulHarq[p].timer < MaxDelay
      /\ writtenOff' = writtenOff \cup UNION {harqPacket[p] \cap Data : p \in LeftOut}
      /\ UNCHANGED <<ueVars, harqHistory, received>>
  BY DEF SlotUl
<1>3. Served(SlotNacks, cut, retx)
  BY <1>2 DEF SlotUlWith, AgedHarq, SlotFeedback, SlotNacks
<1>4. /\ n \in Seq(Feedback) /\ Once(n)
      /\ (1 .. cut) \ retx \subseteq DOMAIN n
      /\ A \subseteq HarqId /\ B \subseteq HarqId /\ A \cap B = {}
      /\ \A p \in A : /\ Nacked(p)
                      /\ again[p].status = "WAITING_FEEDBACK"
                      /\ again[p].timer = 0
      /\ \A p \in B : /\ Nacked(p)
                      /\ again[p].status = "WAITING_FEEDBACK"
                      /\ again[p].timer = 0
                      /\ again[p].rv = ulHarq[p].rv
      /\ \A p \in HarqId : Nacked(p) /\ p \notin A \cup B => again[p].status = "RECEIVED_FEEDBACK"
      /\ \A p \in HarqId : About(dcis, p) \/ About(tbs, p) =>
            /\ again[p].status = "WAITING_FEEDBACK"
            /\ again[p].timer = ulHarq[p].timer + 1
            /\ again[p].rv = ulHarq[p].rv
      /\ \A p \in HarqId : ~enableHarqReTx => again[p].rv = 0
  BY <1>0, <1>3, ProcessesAre
<1>a. PICK N \in SUBSET HarqId : Grants(again, A, N)
  BY <1>0, <1>2, GrantsAre
<1>5. /\ N \in SUBSET HarqId
      /\ \A p \in N : again[p].status = "INACTIVE"
      /\ ulHarq' \in [HarqId -> Process]
      /\ \A p \in N : /\ ulHarq'[p].status = "WAITING_FEEDBACK"
                      /\ ulHarq'[p].timer = 0
                      /\ ulHarq'[p].rv = 0
      /\ \A p \in HarqId : p \notin N => ulHarq'[p] = again[p]
      /\ dcis' \in Seq(Dci)
      /\ Once(dcis')
      /\ \A p : About(dcis', p) <=> About(dcis, p) \/ p \in A \/ p \in N
      /\ \A p : Again(dcis', p) <=> Again(dcis, p) \/ p \in A
      /\ \A d \in ToSet(dcis') : d.rv = ulHarq'[d.p].rv
  BY <1>a DEF Grants
<1>6. /\ ulHarqToRetransmit' \in Seq(HarqId)
      /\ Alone(ulHarqToRetransmit')
      /\ \A p : Postponed(p)' <=> p \in B
  <2>1. ulHarqToRetransmit' = Kept(n, (1 .. cut) \ retx)
    BY <1>0, <1>2 DEF Kept, SlotUlWith, AgedHarq, SlotFeedback, SlotNacks
  <2>2. /\ ulHarqToRetransmit' \in Seq(HarqId)
        /\ Alone(ulHarqToRetransmit')
        /\ ToSet(ulHarqToRetransmit') = {n[i].p : i \in (1 .. cut) \ retx}
    BY <2>1, <1>4, BufferedAre
  <2>3. ToSet(ulHarqToRetransmit') = B
    BY <2>2, <1>0 DEF Deferred
  <2> QED BY <2>2, <2>3 DEF Postponed
<1>7. /\ sr' \in BOOLEAN /\ srList' \in BOOLEAN /\ srBytesPending' \in BOOLEAN /\ lcg' \in BOOLEAN
      /\ ulCeReceived' \in {"none", "empty", "backlog"}
      /\ ulHarqInfoReceived' = <<>>
      /\ enableHarqReTx' = enableHarqReTx /\ tbs' = tbs /\ trouble' = trouble
  BY <1>2, SlotReports
<1>8. harqPacket' = harqPacket /\ sent' = sent /\ received' = received /\ harqHistory' = harqHistory
  BY <1>2 DEF ueVars
<1>9. abort' = "none"
  <2>1. abort' = IF IsTwofold(SlotFeedback) THEN "UlHarqFeedback" ELSE abort
    BY <1>2 DEF SlotUlWith, AgedHarq, SlotFeedback
  <2>2. Once(SlotFeedback)
    BY FeedbackIs DEF AgedHarq, SlotFeedback
  <2> QED BY <2>1, <2>2, <1>1, NotTwofold
<1>10. \A p : ~About(ulHarqInfoReceived', p) /\ ~Refused(ulHarqInfoReceived', p)
  <2>1. ToSet(<<>>) = {}
    BY DEF ToSet
  <2> QED BY <2>1, <1>7 DEF About, Refused
<1>11. \A rv : IsLastRv(rv)' <=> IsLastRv(rv)
  BY <1>7, LastRvKept
<1>12. TypeOK'
  <2>1. UeTypeOK'
    BY <1>1, <1>2 DEF TypeOK, UeTypeOK, ueVars
  <2>2. ulHarqInfoReceived' \in Seq(Feedback)
    BY <1>7
  <2>3. enableHarqReTx' \in BOOLEAN
    BY <1>1, <1>7 DEF TypeOK, GnbTypeOK
  <2>4. GnbTypeOK'
    BY <2>2, <2>3, <1>5, <1>6, <1>7 DEF GnbTypeOK, Process
  <2>5. writtenOff' \subseteq Data
    BY <1>1, <1>2 DEF TypeOK
  <2> QED BY <2>1, <2>4, <2>5, <1>1, <1>5, <1>7, <1>8, <1>9 DEF TypeOK
<1>13. \A p \in A \cup B : About(ulHarqInfoReceived, p) \/ Postponed(p)
  BY <1>4 DEF Nacked, About, Refused
<1>14. \A p \in A \cup B : ~About(dcis, p) /\ ~About(tbs, p)
  BY <1>1, <1>4, <1>13 DEF OnePlace
<1>15. \A p \in N : p \notin A \cup B /\ ~About(dcis, p) /\ ~About(tbs, p)
  BY <1>4, <1>5
<1>16. OnePlace'
  <2>1. Once(ulHarqInfoReceived')
    BY <1>7 DEF Once
  <2>2. \A p \in HarqId : About(dcis', p) => ~About(tbs', p) /\ ~Postponed(p)'
    <3>1. \A p \in HarqId : About(dcis, p) => ~About(tbs, p)
      BY <1>1 DEF OnePlace
    <3> QED BY <3>1, <1>4, <1>5, <1>6, <1>7, <1>14, <1>15
  <2>3. \A p \in HarqId : About(tbs', p) => ~Postponed(p)'
    BY <1>6, <1>7, <1>14
  <2> QED BY <2>1, <2>2, <2>3, <1>1, <1>5, <1>6, <1>7, <1>10 DEF OnePlace
<1>17. ASSUME NEW p \in HarqId, About(dcis, p) \/ About(tbs, p)
       PROVE  /\ ulHarq'[p].status = "WAITING_FEEDBACK"
              /\ ulHarq'[p].timer <= MaxDelay
              /\ ulHarq'[p].rv = ulHarq[p].rv
  <2>1. ulHarq'[p] = again[p]
    BY <1>5, <1>15, <1>17
  <2>2. p \in Pending
    BY <1>17 DEF Pending, About
  <2>3. ulHarq[p].timer < MaxDelay /\ ulHarq[p].timer \in 0 .. NumHarqProcess
    BY <2>2, <1>1, <1>2 DEF TypeOK, GnbTypeOK
  <2>4. ulHarq[p].timer + 1 <= MaxDelay
    BY <2>3, UlAirAssumption, UplinkAssumption
  <2>5. again[p].status = "WAITING_FEEDBACK" /\ again[p].timer = ulHarq[p].timer + 1
        /\ again[p].rv = ulHarq[p].rv
    BY <1>4, <1>17
  <2> QED BY <2>1, <2>4, <2>5
<1>18. 0 <= MaxDelay
  BY UlAirAssumption, UplinkAssumption
<1>19. ASSUME NEW p \in A \cup B
       PROVE  p \in HarqId /\ ulHarq'[p].status = "WAITING_FEEDBACK" /\ ulHarq'[p].timer = 0
  BY <1>4, <1>5, <1>15
<1>20. InTime'
  <2>1. ASSUME NEW p \in HarqId, Concerned(p)'
        PROVE  ulHarq'[p].status = "WAITING_FEEDBACK" /\ ulHarq'[p].timer <= MaxDelay
    <3>1. About(dcis, p) \/ About(tbs, p) \/ p \in A \cup B \/ p \in N
      BY <2>1, <1>5, <1>6, <1>7, <1>10 DEF Concerned
    <3>2. CASE p \in N
      BY <3>2, <1>5, <1>18
    <3>3. CASE p \in A \cup B
      BY <3>3, <1>18, <1>19
    <3> QED BY <3>1, <3>2, <3>3, <1>17
  <2>2. ASSUME NEW p \in HarqId, Postponed(p)' PROVE ulHarq'[p].timer = 0 /\ ~IsLastRv(ulHarq[p].rv)'
    <3>1. p \in B
      BY <2>2, <1>6
    <3>2. ulHarq'[p] = again[p] /\ ulHarq'[p].timer = 0
      BY <3>1, <1>5, <1>15, <1>19
    <3>3. ulHarq'[p].rv = ulHarq[p].rv /\ ~IsLastRv(ulHarq[p].rv)
      BY <3>1, <3>2, <1>4 DEF Nacked
    <3> QED BY <3>2, <3>3, <1>11
  <2>3. \A p \in HarqId : ~enableHarqReTx' => ulHarq'[p].rv = 0
    BY <1>4, <1>5, <1>7
  <2>4. \A tb \in ToSet(tbs') : tb.rv = ulHarq'[tb.p].rv
    <3>1. \A tb \in ToSet(tbs) : tb \in Tb
      BY <1>1 DEF TypeOK, ToSet
    <3>2. \A tb \in ToSet(tbs) : tb.p \in HarqId /\ About(tbs, tb.p)
      BY <3>1 DEF Tb, About
    <3> QED BY <3>2, <1>1, <1>7, <1>17 DEF InTime
  <2> QED BY <2>1, <2>2, <2>3, <2>4, <1>5 DEF InTime
<1>21. SameBurst'
  <2>1. ASSUME NEW q \in HarqId,
               About(ulHarqInfoReceived', q) \/ Postponed(q)' \/ Again(dcis', q) \/ Again(tbs', q)
        PROVE  harqPacket'[q] # EmptyBurst /\ harqHistory'[q] \subseteq {harqPacket'[q]}
    <3>1. About(ulHarqInfoReceived, q) \/ Postponed(q) \/ Again(dcis, q) \/ Again(tbs, q)
      BY <2>1, <1>5, <1>6, <1>7, <1>10, <1>13
    <3> QED BY <3>1, <1>1, <1>8 DEF SameBurst
  <2> QED BY <2>1, <1>1, <1>7, <1>8 DEF SameBurst
<1>22. \A q : Mine(q)' = Mine(q)
  BY <1>8 DEF Mine
<1>23. writtenOff \subseteq writtenOff' /\ \A q \in LeftOut : Mine(q) \subseteq writtenOff'
  BY <1>2 DEF Mine
<1>24. Accounted'
  <2>1. ASSUME NEW q \in HarqId PROVE OnTheWay(q)' \/ Settled(q)'
    <3>1. Settled(q) => Settled(q)'
      BY <1>8, <1>22, <1>23 DEF Settled
    <3>2. CASE About(tbs, q) \/ Again(dcis, q)
      BY <3>2, <1>5, <1>7 DEF OnTheWay
    <3>3. CASE Nacked(q) /\ q \in A
      BY <3>3, <1>5 DEF OnTheWay
    <3>4. CASE Nacked(q) /\ q \in B
      BY <3>4, <1>6 DEF OnTheWay
    <3>5. CASE Nacked(q) /\ q \notin A \cup B
      <4>1. again[q].status = "RECEIVED_FEEDBACK"
        BY <3>5, <1>4
      <4>2. ulHarq'[q].status = "RECEIVED_FEEDBACK"
        BY <4>1, <1>5
      <4>3. q \in LeftOut
        BY <4>2 DEF LeftOut
      <4> QED BY <4>3, <1>22, <1>23 DEF Settled
    <3>6. OnTheWay(q) => About(tbs, q) \/ Again(dcis, q) \/ Nacked(q)
      BY <1>1 DEF OnTheWay, Nacked, InTime
    <3> QED BY <3>1, <3>2, <3>3, <3>4, <3>5, <3>6, <1>1 DEF Accounted
  <2>2. ASSUME NEW q \in HarqId,
               About(tbs', q) \/ Postponed(q)' \/ Again(dcis', q) \/ Refused(ulHarqInfoReceived', q)
        PROVE  Mine(q)' \cap received' = {}
    <3>1. About(tbs, q) \/ Again(dcis, q) \/ q \in A \cup B
      BY <2>2, <1>5, <1>6, <1>7, <1>10
    <3>2. q \in A \cup B => Refused(ulHarqInfoReceived, q) \/ Postponed(q)
      BY <1>4 DEF Nacked
    <3> QED BY <3>1, <3>2, <1>1, <1>8, <1>22 DEF Accounted
  <2>3. \A m \in 1 .. sent' : m \in received' \cup writtenOff' \/ \E q \in HarqId : m \in Mine(q)'
    BY <1>1, <1>8, <1>22, <1>23 DEF Accounted
  <2> QED BY <2>1, <2>2, <2>3, <1>1, <1>8, <1>22 DEF Accounted
<1> QED BY <1>9, <1>12, <1>16, <1>20, <1>21, <1>24 DEF IInv, AssertionsHold

-----------------------------------------------------------------------------
(* The theorems                                                            *)

(***************************************************************************)
(* Every step preserves the invariant.                                     *)
(***************************************************************************)
LEMMA StepInv ==
    ASSUME IInv, [Next]_vars
    PROVE  IInv'
<1>1. CASE Ue(Submit) \/ Ue(ExpireBsrTimer) \/ Ue(ExpireSrProhibitTimer) \/ Ue(SlotIndication)
  BY <1>1, RequestKeeps
<1>2. CASE Ue(ProcessUlDci)
  BY <1>2, GrantKeeps
<1>3. CASE \E decoded \in BOOLEAN : ReceiveTb(decoded)
  BY <1>3, BlockKeeps
<1>4. CASE SomeSlotUl
  BY <1>4, SlotKeeps DEF SomeSlotUl
<1>5. CASE Vanish
  BY <1>5, VanishKeeps
<1>6. CASE UNCHANGED vars
  <2>1. UNCHANGED <<ueVars, gnbVars, airVars, phyVars, abort>>
    BY <1>6 DEF vars
  <2>2. UNCHANGED <<sr, dcis, tbs, trouble, harqHistory, received, writtenOff>>
    BY <2>1 DEF airVars, phyVars
  <2>3. TypeOK'
    <3>1. UeTypeOK'
      BY <2>1 DEF IInv, TypeOK, UeTypeOK, ueVars
    <3>2. GnbTypeOK'
      BY <2>1, GnbTypeKept DEF IInv
    <3> QED BY <2>1, <2>2, <3>1, <3>2 DEF IInv, TypeOK
  <2> QED BY <2>1, <2>2, <2>3, QuietStep DEF ueVars, gnbVars
<1> QED BY <1>1, <1>2, <1>3, <1>4, <1>5, <1>6 DEF Next

(***************************************************************************)
(* The invariant holds in every reachable state.                           *)
(***************************************************************************)
THEOREM InvariantHolds == Spec => []IInv
<1>1. Init => IInv
  BY InitInv
<1>2. IInv /\ [Next]_vars => IInv'
  BY StepInv
<1> QED BY <1>1, <1>2, PTL DEF Spec

(***************************************************************************)
(* Every variable of the UE MAC, of the air and of the gNB keeps its type: *)
(* the timer and the redundancy version of a process stay in their ranges. *)
(***************************************************************************)
THEOREM UplinkTypes == Spec => []TypeOK
<1>1. IInv => TypeOK
  BY DEF IInv
<1> QED BY <1>1, InvariantHolds, PTL

(***************************************************************************)
(* Feedback never meets a process that does not wait for it, and the UE is *)
(* never asked to repeat what it did not send: the errors and assertions   *)
(* of ProcessHARQFeedbacks, ComputeActiveHarq, ScheduleUlHarq and          *)
(* TransmitRetx are out of reach.                                          *)
(***************************************************************************)
THEOREM FeedbackMeetsItsProcess == Spec => []AssertionsHold
<1>1. IInv => AssertionsHold
  BY DEF IInv
<1> QED BY <1>1, InvariantHolds, PTL

(***************************************************************************)
(* The PHY of the gNB combines copies of one block only.                   *)
(***************************************************************************)
THEOREM CombinesOneBlock == Spec => []NoMixedCombining
<1>1. IInv => NoMixedCombining
  BY InvImplies
<1> QED BY <1>1, InvariantHolds, PTL

(***************************************************************************)
(* What the UE MAC took from RLC was received, is in the burst of a        *)
(* process that is kept, or was given up for a reason.                     *)
(***************************************************************************)
THEOREM DataIsAccountedFor == Spec => []DataStaysUnderHarq
<1>1. IInv => DataStaysUnderHarq
  BY InvImplies
<1> QED BY <1>1, InvariantHolds, PTL

(***************************************************************************)
(* No block that is under way carries data that was received.              *)
(***************************************************************************)
THEOREM NothingArrivesTwice == Spec => []NothingTwice
<1>1. IInv => NothingTwice
  BY InvImplies
<1> QED BY <1>1, InvariantHolds, PTL

=============================================================================
