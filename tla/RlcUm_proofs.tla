---------------------------- MODULE RlcUm_proofs ----------------------------
(***************************************************************************)
(* Proofs about the unacknowledged mode of RLC, for every size of the      *)
(* number space and of the window, every sequence of SDUs, any number of   *)
(* PDUs lost or delivered twice, and any number of new transmitters and    *)
(* receivers.  First the window: it is placed on the line of PDU numbers,  *)
(* where the comparisons of the code mean what they should.  Then the      *)
(* data: the PDUs of a transmitter cut one stream of bytes into pieces,    *)
(* and reassembly puts SDUs together again, never two of them.             *)
(***************************************************************************)
EXTENDS RlcUm, RlcSdu_proofs, FunctionTheorems

\* The sizes of the window and of the number space.
LEMMA UmSizes ==
    /\ SNMod \in Nat /\ WindowSize \in Nat /\ MaxLag \in Nat /\ MaxPerInstant \in Nat
    /\ 1 <= WindowSize /\ WindowSize + WindowSize <= SNMod /\ WindowSize < SNMod
    /\ 1 <= MaxLag /\ MaxLag <= SNMod /\ 1 <= MaxPerInstant /\ MaxPerInstant <= WindowSize
  BY SnAssumption, UmAssumption

-----------------------------------------------------------------------------
(* The window on the line of PDU numbers: it ends before number N.         *)

\* The lower edge, one turn ahead, where it is a number whatever N is.
LEMMA LowIs ==
    ASSUME NEW N \in Nat
    PROVE  /\ N + SNMod - WindowSize \in Nat
           /\ Low(SnOf(N)) = SnOf(N + SNMod - WindowSize)
           /\ Low(SnOf(N)) \in Sn
<1> DEFINE b == N + SNMod - WindowSize
<1>1. b \in Nat /\ WindowSize \in Sn /\ b + WindowSize = N + SNMod
  BY UmSizes DEF Sn
<1>2. SnOf(b) \in Sn
  BY <1>1, DivMod
<1>3. Plus(SnOf(b), WindowSize) = SnOf(N)
  <2>1. Plus(SnOf(b), WindowSize) = SnOf(b + WindowSize)
    BY <1>1, UmSizes, PlusSn
  <2>2. QED
    BY <1>1, <2>1, SnRound
<1>4. Minus(Plus(SnOf(b), WindowSize), WindowSize) = SnOf(b)
  BY <1>1, <1>2, MinusUndoes
<1>5. QED
  BY <1>1, <1>2, <1>3, <1>4 DEF Low

\* The distance from the lower edge, for the numbers of the turn that begins there.
LEMMA OffLow ==
    ASSUME NEW N \in Nat, NEW x \in Nat, N <= x + WindowSize, x + WindowSize < N + SNMod
    PROVE  Off(SnOf(x), Low(SnOf(N))) = x + WindowSize - N
<1> DEFINE b == N + SNMod - WindowSize
           y == x + SNMod
<1>1. b \in Nat /\ Low(SnOf(N)) = SnOf(b)
  BY LowIs
<1>2. y \in Nat /\ b <= y /\ y < b + SNMod /\ y - b = x + WindowSize - N
  BY UmSizes
<1>3. SnOf(y) = SnOf(x)
  BY SnRound
<1> HIDE DEF b, y
<1>4. Off(SnOf(y), SnOf(b)) = y - b
  BY <1>1, <1>2, OffAhead
<1>5. QED
  BY <1>1, <1>2, <1>3, <1>4

\* The distance from the lower edge, for the numbers of the turn below it.
LEMMA OffLowBelow ==
    ASSUME NEW N \in Nat, NEW x \in Nat, x + WindowSize < N, N <= x + WindowSize + SNMod
    PROVE  Off(SnOf(x), Low(SnOf(N))) = x + SNMod + WindowSize - N
<1>1. /\ x + SNMod \in Nat /\ N <= (x + SNMod) + WindowSize
      /\ (x + SNMod) + WindowSize < N + SNMod
  BY UmSizes
<1>2. Off(SnOf(x + SNMod), Low(SnOf(N))) = (x + SNMod) + WindowSize - N
  BY <1>1, OffLow
<1>3. QED
  BY <1>2, SnRound

\* Numbers of that turn are compared as they are.
LEMMA CompareLow ==
    ASSUME NEW N \in Nat, NEW x \in Nat, NEW y \in Nat,
           N <= x + WindowSize, x + WindowSize < N + SNMod,
           N <= y + WindowSize, y + WindowSize < N + SNMod
    PROVE  /\ Le(SnOf(x), SnOf(y), Low(SnOf(N))) <=> x <= y
           /\ Lt(SnOf(x), SnOf(y), Low(SnOf(N))) <=> x < y
           /\ Gt(SnOf(x), SnOf(y), Low(SnOf(N))) <=> x > y
<1>1. SnOf(x) \in Sn /\ SnOf(y) \in Sn /\ Low(SnOf(N)) \in Sn
  BY DivMod, LowIs
<1>2. /\ Off(SnOf(x), Low(SnOf(N))) = x + WindowSize - N
      /\ Off(SnOf(y), Low(SnOf(N))) = y + WindowSize - N
  BY OffLow
<1>3. /\ x + WindowSize - N <= y + WindowSize - N <=> x <= y
      /\ x + WindowSize - N < y + WindowSize - N <=> x < y
      /\ x + WindowSize - N > y + WindowSize - N <=> x > y
  BY UmSizes
<1>4. QED
  BY <1>1, <1>2, <1>3, ComparisonsFollowTheWindow

\* A number is inside when its distance from the lower edge is below the size.
LEMMA InsideIsNear ==
    ASSUME NEW N \in Nat, NEW s \in Sn
    PROVE  IsInsideReorderingWindow(s, SnOf(N)) <=> Off(s, Low(SnOf(N))) < WindowSize
<1> DEFINE low == Low(SnOf(N))
<1>1. low \in Sn /\ SnOf(N) \in Sn
  BY LowIs, DivMod
<1>2. Off(SnOf(N), low) = WindowSize
  <2>1. Off(SnOf(N), low) = N + WindowSize - N
    BY UmSizes, OffLow
  <2>2. QED
    BY <2>1, UmSizes
<1>3. Off(low, low) = 0 /\ Off(s, low) \in 0 .. SNMod - 1
  <2>1. Off(s, low) \in 0 .. SNMod - 1
    BY <1>1, OffType
  <2>2. low - low = 0 /\ 0 % SNMod = 0
    BY <1>1, UmSizes DEF Sn
  <2>3. QED
    BY <2>1, <2>2 DEF Off
<1>4. Le(low, s, low)
  BY <1>1, <1>3, UmSizes, ComparisonsFollowTheWindow
<1>5. Lt(s, SnOf(N), low) <=> Off(s, low) < Off(SnOf(N), low)
  BY <1>1, ComparisonsFollowTheWindow
<1>6. QED
  BY <1>2, <1>4, <1>5 DEF IsInsideReorderingWindow

\* Of the numbers from the lower edge on, those below N are inside the window.
LEMMA InsideIs ==
    ASSUME NEW N \in Nat, NEW x \in Nat, N <= x + WindowSize, x + WindowSize < N + SNMod
    PROVE  IsInsideReorderingWindow(SnOf(x), SnOf(N)) <=> x < N
<1>1. SnOf(x) \in Sn /\ Off(SnOf(x), Low(SnOf(N))) = x + WindowSize - N
  BY DivMod, OffLow
<1>2. x + WindowSize - N < WindowSize <=> x < N
  BY UmSizes
<1>3. QED
  BY <1>1, <1>2, InsideIsNear

\* Those below the lower edge, less than a turn behind N, are not.
LEMMA BelowIsOutside ==
    ASSUME NEW N \in Nat, NEW x \in Nat, x + WindowSize < N, N <= x + SNMod
    PROVE  ~ IsInsideReorderingWindow(SnOf(x), SnOf(N))
<1>1. SnOf(x) \in Sn /\ Off(SnOf(x), Low(SnOf(N))) = x + SNMod + WindowSize - N
  BY DivMod, OffLowBelow, UmSizes
<1>2. ~ (x + SNMod + WindowSize - N < WindowSize)
  BY UmSizes
<1>3. QED
  BY <1>1, <1>2, InsideIsNear

-----------------------------------------------------------------------------
(* Buffers: sets of PDUs, each in its place on the line, each once.        *)

\* The PDUs of a set have numbers from lo on and below hi.
Between(S, lo, hi) ==
    /\ \A p \in S : p.n \in Nat /\ p.sn = SnOf(p.n) /\ lo <= p.n /\ p.n < hi
    /\ \A p, q \in S : p.n = q.n => p = q

\* The PDUs that ReassembleOutsideWindow meets are those below the window.
LEMMA OutsideIs ==
    ASSUME NEW S, NEW u \in Nat, NEW N \in Nat, Between(S, u, N), N <= u + SNMod
    PROVE  OutsideWindow(S, SnOf(u), SnOf(N)) = {p \in S : p.n + WindowSize < N}
<1>1. ASSUME NEW p \in S
      PROVE  /\ p.n \in Nat /\ p.sn = SnOf(p.n) /\ u <= p.n /\ p.n < N
             /\ Off(p.sn, SnOf(u)) = p.n - u
             /\ IsInsideReorderingWindow(p.sn, SnOf(N)) <=> N <= p.n + WindowSize
  <2>1. p.n \in Nat /\ p.sn = SnOf(p.n) /\ u <= p.n /\ p.n < N
    BY DEF Between
  <2>2. p.n < u + SNMod
    BY <2>1, UmSizes
  <2>3. Off(SnOf(p.n), SnOf(u)) = p.n - u
    BY <2>1, <2>2, OffAhead
  <2>4. CASE N <= p.n + WindowSize
    <3>1. p.n + WindowSize < N + SNMod
      BY <2>1, UmSizes
    <3>2. QED
      BY <2>1, <2>3, <2>4, <3>1, InsideIs
  <2>5. CASE p.n + WindowSize < N
    <3>1. N <= p.n + SNMod
      BY <2>1, UmSizes
    <3>2. ~ (N <= p.n + WindowSize)
      BY <2>1, <2>5, UmSizes
    <3>3. QED
      BY <2>1, <2>3, <2>5, <3>1, <3>2, BelowIsOutside
  <2>6. QED
    BY <2>1, <2>4, <2>5, UmSizes
<1>2. ASSUME NEW p \in S
      PROVE  (\A q \in S : Off(q.sn, SnOf(u)) <= Off(p.sn, SnOf(u))
                              => ~ IsInsideReorderingWindow(q.sn, SnOf(N)))
             <=> p.n + WindowSize < N
  <2>1. ASSUME p.n + WindowSize < N, NEW q \in S, Off(q.sn, SnOf(u)) <= Off(p.sn, SnOf(u))
        PROVE  ~ IsInsideReorderingWindow(q.sn, SnOf(N))
    <3>1. q.n - u <= p.n - u
      BY <1>1, <2>1
    <3>2. p.n \in Nat /\ q.n \in Nat
      BY <1>1
    <3>3. ~ (N <= q.n + WindowSize)
      BY <2>1, <3>1, <3>2, UmSizes
    <3>4. QED
      BY <1>1, <3>3
  <2>2. ASSUME ~ (p.n + WindowSize < N) PROVE IsInsideReorderingWindow(p.sn, SnOf(N))
    <3>1. p.n \in Nat
      BY <1>1
    <3>2. N <= p.n + WindowSize
      BY <2>2, <3>1, UmSizes
    <3>3. QED
      BY <1>1, <3>2
  <2>3. Off(p.sn, SnOf(u)) <= Off(p.sn, SnOf(u))
    <3>1. p.n - u \in Int
      BY <1>1
    <3>2. QED
      BY <1>1, <3>1
  <2>4. QED
    BY <2>1, <2>2, <2>3
<1>3. QED
  BY <1>2 DEF OutsideWindow

\* The PDUs from u on that follow each other without a gap end at some number e.
LEMMA RunIs ==
    ASSUME NEW S, NEW u \in Nat, NEW N \in Nat, Between(S, u, N), u <= N, N < u + SNMod
    PROVE  LET run == {p \in S : \A j \in 0 .. Off(p.sn, SnOf(u)) : Has(S, Plus(SnOf(u), j))}
           IN \E e \in Nat :
                 /\ u <= e /\ e <= N
                 /\ run = {p \in S : p.n < e}
                 /\ Plus(SnOf(u), Cardinality(run)) = SnOf(e)
                 /\ \A p \in S : p.n # e
                 /\ \A x \in u .. e - 1 : \E p \in S : p.n = x
<1> DEFINE run == {p \in S : \A j \in 0 .. Off(p.sn, SnOf(u)) : Has(S, Plus(SnOf(u), j))}
           T == {x \in u .. N : \A p \in S : p.n # x}
<1>1. N \in T
  <2>1. \A p \in S : p.n \in Nat /\ p.n < N
    BY DEF Between
  <2>2. QED
    BY <2>1
<1>2. PICK e \in T : \A x \in T : e <= x
  <2>1. T \in SUBSET Nat
    OBVIOUS
  <2> HIDE DEF T
  <2>2. QED
    BY <1>1, <2>1, LeastElement
<1>3. e \in Nat /\ u <= e /\ e <= N /\ \A p \in S : p.n # e
  OBVIOUS
<1>4. ASSUME NEW x \in u .. e - 1 PROVE \E p \in S : p.n = x
  <2>1. x \in u .. N /\ x < e /\ x \in Nat
    BY <1>3
  <2>2. x \notin T
    BY <1>2, <1>3, <2>1
  <2>3. QED
    BY <2>1, <2>2
<1> HIDE DEF T
<1>5. ASSUME NEW p \in S
      PROVE  /\ p.n \in Nat /\ u <= p.n /\ p.n < N /\ Off(p.sn, SnOf(u)) = p.n - u
  <2>1. p.n \in Nat /\ p.sn = SnOf(p.n) /\ u <= p.n /\ p.n < N
    BY DEF Between
  <2>2. p.n < u + SNMod
    BY <2>1, UmSizes
  <2>3. QED
    BY <2>1, <2>2, OffAhead
<1>6. ASSUME NEW j \in Nat, u + j < N
      PROVE  Has(S, Plus(SnOf(u), j)) <=> \E q \in S : q.n = u + j
  <2>1. Plus(SnOf(u), j) = SnOf(u + j) /\ u + j \in Nat
    BY PlusSn
  <2>2. \A q \in S : q.n \in Nat /\ q.sn = SnOf(q.n) /\ u <= q.n /\ q.n < u + SNMod
    BY UmSizes DEF Between
  <2>3. u <= u + j /\ u + j < u + SNMod
    BY <1>6, UmSizes
  <2>4. Has(S, SnOf(u + j)) <=> \E q \in S : q.n = u + j
    BY <2>1, <2>2, <2>3, HasIs
  <2>5. QED
    BY <2>1, <2>4
<1>7. ASSUME NEW p \in S
      PROVE  (\A j \in 0 .. Off(p.sn, SnOf(u)) : Has(S, Plus(SnOf(u), j))) <=> p.n < e
  <2>1. ASSUME p.n < e, NEW j \in 0 .. p.n - u PROVE Has(S, Plus(SnOf(u), j))
    <3>1. j \in Nat /\ u + j < N /\ u + j \in u .. e - 1
      BY <1>3, <1>5, <2>1
    <3>2. QED
      BY <1>4, <1>6, <3>1
  <2>2. ASSUME ~ (p.n < e)
        PROVE  e - u \in 0 .. p.n - u /\ ~ Has(S, Plus(SnOf(u), e - u))
    <3>1. e - u \in Nat /\ u + (e - u) = e /\ e < N /\ e - u \in 0 .. p.n - u
      BY <1>3, <1>5, <2>2
    <3>2. QED
      BY <1>3, <1>6, <3>1
  <2>3. QED
    BY <1>5, <2>1, <2>2
<1>8. run = {p \in S : p.n < e}
  BY <1>7
<1>9. Plus(SnOf(u), Cardinality(run)) = SnOf(e)
  <2> HIDE DEF run
  <2> DEFINE f == [p \in run |-> p.n]
             U == u .. e - 1
  <2>1. f \in [run -> U]
    <3>1. \A p \in run : p.n \in U
      BY <1>3, <1>5, <1>8
    <3>2. QED
      BY <3>1
  <2>2. \A p, q \in run : f[p] = f[q] => p = q
    BY <1>8 DEF Between
  <2>3. \A x \in U : \E p \in run : f[p] = x
    <3>1. SUFFICES ASSUME NEW x \in U PROVE \E p \in run : f[p] = x
      OBVIOUS
    <3>2. PICK p \in S : p.n = x
      BY <1>4
    <3>3. p \in run
      BY <1>3, <1>8, <3>2
    <3>4. QED
      BY <3>2, <3>3
  <2>4. f \in Bijection(run, U)
    BY <2>1, <2>2, <2>3 DEF Bijection, Injection, Surjection, IsInjective
  <2>5. IsFiniteSet(U) /\ Cardinality(U) = e - u
    <3>1. /\ IsFiniteSet(U)
          /\ Cardinality(U) = IF u > e - 1 THEN 0 ELSE (e - 1) - u + 1
      BY <1>3, FS_Interval
    <3>2. QED
      BY <1>3, <3>1
  <2> HIDE DEF f, U
  <2>6. ExistsBijection(run, U)
    BY <2>4 DEF ExistsBijection
  <2>7. Cardinality(run) = e - u
    <3>1. ExistsBijection(U, run)
      BY <2>6, Fun_ExistsBijSymmetric
    <3>2. QED
      BY <2>5, <3>1, FS_Bijection
  <2>8. Plus(SnOf(u), e - u) = SnOf(u + (e - u))
    BY <1>3, PlusSn
  <2>9. u + (e - u) = e
    BY <1>3
  <2>10. QED
    BY <2>7, <2>8, <2>9
<1>10. QED
  BY <1>3, <1>4, <1>8, <1>9

-----------------------------------------------------------------------------
(* What PlacePdu does, part by part.                                       *)

\* The PDU in the buffer, and the buffer with it.
Arrival(m) == [id |-> m.id, n |-> m.n, sn |-> m.sn, data |-> m.data, tombstone |-> FALSE]
Placed(r, m) == r.rxBuffer \cup {Arrival(m)}
\* The PDUs delivered out of order, and the buffer with their tombstones.
Early(r, m) == {p \in OutsideWindow(Placed(r, m), r.vrUr, r.vrUh) : outOfOrderDelivery}
Marked(r, m) == (Placed(r, m) \ Early(r, m)) \cup Tombstones(Early(r, m))
\* The upper edge, the PDUs that fall out, and VR(UR) when they did.
Slides(r, m) == ~ IsInsideReorderingWindow(m.sn, r.vrUh)
UpperEdge(r, m) == IF Slides(r, m) THEN Plus(m.sn, 1) ELSE r.vrUh
Passed(r, m) == {p \in OutsideWindow(Marked(r, m), r.vrUr, UpperEdge(r, m)) : Slides(r, m)}
Base(r, m) ==
    IF Slides(r, m) /\ ~ IsInsideReorderingWindow(r.vrUr, UpperEdge(r, m))
    THEN Low(UpperEdge(r, m)) ELSE r.vrUr
\* The run from VR(UR) on, and where it ends.
Rest(r, m) == Marked(r, m) \ Passed(r, m)
RunOf(r, m) ==
    {p \in Rest(r, m) : \A j \in 0 .. Off(p.sn, Base(r, m)) : Has(Rest(r, m), Plus(Base(r, m), j))}
RunEnd(r, m) == Plus(Base(r, m), Cardinality(RunOf(r, m)))
\* The state of reassembly after the three deliveries.
Given(r, m) ==
    Deliver(Deliver(Deliver(Held(r), Early(r, m), r.vrUr), Passed(r, m), r.vrUr),
            RunOf(r, m), Base(r, m))
\* The receiver before t-Reordering is looked at.
PlacedRx(r, m) ==
    [r EXCEPT !.rxBuffer = Rest(r, m) \ RunOf(r, m),
              !.keepS0 = Given(r, m).keep, !.expectedSeqNumber = Given(r, m).expected,
              !.vrUh = UpperEdge(r, m), !.vrUr = RunEnd(r, m),
              !.newest = Later(@, m.n + 1),
              !.arrived = @ \cup Whole(m.data)]

\* The handler is these parts.
LEMMA PlacePduIs ==
    ASSUME NEW r, NEW m, PlacePdu(r, m)
    PROVE  /\ rx' = UpdateReorderingTimer(PlacedRx(r, m))
           /\ delivered' = Given(r, m).out
<1>1. \E st \in {Given(r, m)} :
         /\ rx' = UpdateReorderingTimer(
                     [r EXCEPT !.rxBuffer = Rest(r, m) \ RunOf(r, m),
                               !.keepS0 = st.keep, !.expectedSeqNumber = st.expected,
                               !.vrUh = UpperEdge(r, m), !.vrUr = RunEnd(r, m),
                               !.newest = Later(@, m.n + 1),
                               !.arrived = @ \cup Whole(m.data)])
         /\ delivered' = st.out
  BY Zenon DEF PlacePdu, Given, RunEnd, RunOf, Rest, Base, Passed, UpperEdge, Slides, Marked,
     Early, Placed, Arrival
<1>2. QED
  BY <1>1 DEF PlacedRx

\* The receiver has its state variables, and a buffered PDU its fields.
RxFields ==
    {"rxBuffer", "vrUr", "vrUx", "vrUh", "reorderingTimer", "maxRxSenderTimestamp", "keepS0",
     "expectedSeqNumber", "newest", "arrived"}
RxPduFields == {"id", "n", "sn", "data", "tombstone"}
IsReceiver(r) == r = [x \in RxFields |-> r[x]]
IsRxPdu(p) == p = [x \in RxPduFields |-> p[x]]

\* The window of the receiver r ends before number N and VR(UR) is number u: what
\* is buffered lies between them, and t-Reordering runs for a gap.
RxWindow(r, N, u) ==
    /\ IsReceiver(r)
    /\ N \in Nat /\ u \in Nat /\ u <= N /\ N <= u + WindowSize
    /\ r.vrUh = SnOf(N) /\ r.vrUr = SnOf(u) /\ r.vrUx \in Sn
    /\ Between(r.rxBuffer, u + 1, N)
    /\ \A p \in r.rxBuffer : IsRxPdu(p)
    /\ r.reorderingTimer \in BOOLEAN
    /\ u < N => r.reorderingTimer
    /\ r.reorderingTimer => \E x \in Nat : u < x /\ x <= N /\ r.vrUx = SnOf(x)

\* A larger interval.
LEMMA BetweenWider ==
    ASSUME NEW S, NEW lo \in Nat, NEW hi \in Nat, Between(S, lo, hi),
           NEW lo2 \in Nat, NEW hi2 \in Nat, lo2 <= lo, hi <= hi2
    PROVE  Between(S, lo2, hi2)
  BY DEF Between

\* t-Reordering runs when VR(UR), number e, is behind the upper edge, number N, and
\* VR(UX) lies between them, wherever it was left, number x.
LEMMA TimerIs ==
    ASSUME NEW r, IsReceiver(r), NEW N \in Nat, NEW e \in Nat, e <= N, N <= e + WindowSize,
           r.vrUh = SnOf(N), r.vrUr = SnOf(e), r.vrUx \in Sn, r.reorderingTimer \in BOOLEAN,
           r.reorderingTimer => \E x \in Nat : x <= N /\ N < x + SNMod /\ r.vrUx = SnOf(x)
    PROVE  LET s == UpdateReorderingTimer(r)
           IN /\ s = [r EXCEPT !.reorderingTimer = s.reorderingTimer, !.vrUx = s.vrUx]
              /\ IsReceiver(s)
              /\ s.vrUx \in Sn /\ s.reorderingTimer \in BOOLEAN
              /\ e < N => s.reorderingTimer
              /\ s.reorderingTimer => \E x \in Nat : e < x /\ x <= N /\ s.vrUx = SnOf(x)
<1> DEFINE low == Low(r.vrUh)
           stops == \/ Le(r.vrUx, r.vrUr, low)
                    \/ ~ IsInsideReorderingWindow(r.vrUx, r.vrUh) /\ r.vrUx # r.vrUh
           s == UpdateReorderingTimer(r)
<1>1. e + WindowSize < N + SNMod /\ N + WindowSize < N + SNMod /\ N <= N + WindowSize
  BY UmSizes
<1>2. Gt(r.vrUh, r.vrUr, low) <=> e < N
  <2>1. Gt(SnOf(N), SnOf(e), Low(SnOf(N))) <=> N > e
    BY <1>1, CompareLow
  <2>2. QED
    BY <2>1
<1>3. ASSUME r.reorderingTimer, ~ stops
      PROVE  \E x \in Nat : e < x /\ x <= N /\ r.vrUx = SnOf(x)
  <2>1. PICK x \in Nat : x <= N /\ N < x + SNMod /\ r.vrUx = SnOf(x)
    BY <1>3
  <2>2. CASE N <= x + WindowSize
    <3>1. x + WindowSize < N + SNMod
      BY <2>1, UmSizes
    <3>2. Le(SnOf(x), SnOf(e), Low(SnOf(N))) <=> x <= e
      BY <1>1, <2>2, <3>1, CompareLow
    <3>3. ~ (x <= e)
      BY <1>3, <2>1, <3>2
    <3>4. QED
      BY <2>1, <3>3
  <2>3. CASE x + WindowSize < N
    <3>0. N <= x + SNMod
      BY <2>1, UmSizes
    <3>1. ~ IsInsideReorderingWindow(SnOf(x), SnOf(N))
      BY <2>3, <3>0, BelowIsOutside
    <3>2. SnOf(x) # SnOf(N)
      <4>1. SUFFICES ASSUME SnOf(x) = SnOf(N) PROVE FALSE
        OBVIOUS
      <4>2. N < x + SNMod /\ x < N + SNMod
        BY <2>1, UmSizes
      <4>3. x = N
        BY <4>1, <4>2, SnUnique
      <4>4. QED
        BY <2>3, <4>3, UmSizes
    <3>3. QED
      BY <1>3, <2>1, <3>1, <3>2
  <2>4. QED
    BY <2>2, <2>3, UmSizes
<1>4. CASE r.reorderingTimer /\ ~ stops
  <2>1. s = r
    BY <1>4 DEF UpdateReorderingTimer
  <2>2. r = [r EXCEPT !.reorderingTimer = r.reorderingTimer, !.vrUx = r.vrUx]
    BY DEF IsReceiver, RxFields
  <2> HIDE DEF s, stops
  <2>3. QED
    BY <1>3, <1>4, <2>1, <2>2 DEF s
<1>5. CASE ~ (r.reorderingTimer /\ ~ stops) /\ e < N
  <2>1. s = [r EXCEPT !.reorderingTimer = TRUE, !.vrUx = r.vrUh]
    BY <1>2, <1>5 DEF UpdateReorderingTimer
  <2> HIDE DEF s, stops
  <2>2. s.reorderingTimer = TRUE /\ s.vrUx = r.vrUh /\ IsReceiver(s)
    BY <2>1 DEF IsReceiver, RxFields
  <2>3. r.vrUh \in Sn
    BY DivMod
  <2>4. e < N /\ N <= N /\ s.vrUx = SnOf(N)
    BY <1>5, <2>2
  <2>5. QED
    BY <2>1, <2>2, <2>3, <2>4 DEF s
<1>6. CASE ~ (r.reorderingTimer /\ ~ stops) /\ ~ (e < N)
  <2>1. s = [r EXCEPT !.reorderingTimer = FALSE]
    BY <1>2, <1>6 DEF UpdateReorderingTimer
  <2> HIDE DEF s, stops
  <2>2. s.reorderingTimer = FALSE /\ s.vrUx = r.vrUx /\ IsReceiver(s)
    BY <2>1 DEF IsReceiver, RxFields
  <2>3. s = [r EXCEPT !.reorderingTimer = FALSE, !.vrUx = r.vrUx]
    BY <2>1 DEF IsReceiver, RxFields
  <2>4. QED
    BY <1>6, <2>2, <2>3 DEF s
<1>7. QED
  BY <1>4, <1>5, <1>6

\* A PDU that may be placed in the buffer of the receiver r.
Placeable(r, N, u, m) ==
    /\ m.n \in Nat /\ m.sn = SnOf(m.n) /\ u <= m.n /\ m.n + WindowSize < N + SNMod
    /\ \A p \in r.rxBuffer : p.n # m.n

\* Where the window ends after the PDU was placed, and what VR(UR) is at least.
NewN(N, m) == IF m.n < N THEN N ELSE m.n + 1
NewU(N, u, m) == IF u + WindowSize < NewN(N, m) THEN NewN(N, m) - WindowSize ELSE u

\* The PDU keeps its place when its tombstone takes it.
LEMMA TombstoneIs ==
    ASSUME NEW p, IsRxPdu(p)
    PROVE  LET t == [p EXCEPT !.tombstone = TRUE]
           IN /\ IsRxPdu(t) /\ t.tombstone = TRUE
              /\ t.n = p.n /\ t.sn = p.sn /\ t.id = p.id /\ t.data = p.data
<1> DEFINE t == [p EXCEPT !.tombstone = TRUE]
<1>1. t = [x \in RxPduFields |-> IF x = "tombstone" THEN TRUE ELSE p[x]]
  BY Zenon DEF IsRxPdu
<1>2. IsRxPdu(t)
  BY <1>1 DEF IsRxPdu
<1>3. t.tombstone = TRUE /\ t.n = p.n /\ t.sn = p.sn /\ t.id = p.id /\ t.data = p.data
  BY DEF IsRxPdu, RxPduFields
<1>4. QED
  BY <1>2, <1>3

\* The numbers after the placement.
LEMMA NewNumbers ==
    ASSUME NEW r, NEW N, NEW u, NEW m, RxWindow(r, N, u), Placeable(r, N, u, m)
    PROVE  /\ NewN(N, m) \in Nat /\ N <= NewN(N, m) /\ m.n < NewN(N, m)
           /\ NewN(N, m) + WindowSize <= N + SNMod
           /\ NewN(N, m) <= u + SNMod
           /\ NewU(N, u, m) \in Nat /\ u <= NewU(N, u, m) /\ NewU(N, u, m) <= NewN(N, m)
           /\ NewN(N, m) <= NewU(N, u, m) + WindowSize
           /\ N \in Nat /\ u \in Nat /\ m.n \in Nat /\ u <= N /\ N <= u + WindowSize
<1>1. N \in Nat /\ u \in Nat /\ u <= N /\ N <= u + WindowSize
  BY DEF RxWindow
<1>2. m.n \in Nat /\ u <= m.n /\ m.n + WindowSize < N + SNMod
  BY DEF Placeable
<1>3. NewN(N, m) \in {N, m.n + 1} /\ N <= NewN(N, m) /\ m.n < NewN(N, m)
  BY <1>1, <1>2 DEF NewN
<1>4. NewN(N, m) \in Nat /\ NewN(N, m) + WindowSize <= N + SNMod
  BY <1>1, <1>2, <1>3, UmSizes
<1>5. NewN(N, m) <= u + SNMod
  BY <1>1, <1>4, UmSizes
<1>6. /\ NewU(N, u, m) \in Nat /\ u <= NewU(N, u, m) /\ NewU(N, u, m) <= NewN(N, m)
      /\ NewN(N, m) <= NewU(N, u, m) + WindowSize
  BY <1>1, <1>3, <1>4, UmSizes DEF NewU
<1>7. QED
  BY <1>1, <1>2, <1>3, <1>4, <1>5, <1>6

\* The PDU slides the window when it does not lie below its upper edge.
LEMMA SlidesIs ==
    ASSUME NEW r, NEW N, NEW u, NEW m, RxWindow(r, N, u), Placeable(r, N, u, m)
    PROVE  /\ Slides(r, m) <=> N <= m.n
           /\ UpperEdge(r, m) = SnOf(NewN(N, m))
<1>1. /\ N \in Nat /\ u \in Nat /\ N <= u + WindowSize /\ r.vrUh = SnOf(N)
      /\ m.n \in Nat /\ m.sn = SnOf(m.n) /\ u <= m.n /\ m.n + WindowSize < N + SNMod
  BY DEF RxWindow, Placeable
<1>2. N <= m.n + WindowSize
  BY <1>1, UmSizes
<1>3. IsInsideReorderingWindow(SnOf(m.n), SnOf(N)) <=> m.n < N
  BY <1>1, <1>2, InsideIs
<1>4. Slides(r, m) <=> N <= m.n
  BY <1>1, <1>3 DEF Slides
<1>5. Plus(SnOf(m.n), 1) = SnOf(m.n + 1)
  BY <1>1, PlusSn
<1>6. QED
  BY <1>1, <1>4, <1>5 DEF UpperEdge, NewN

\* The buffer with the PDU in it.
LEMMA PlacedIs ==
    ASSUME NEW r, NEW N, NEW u, NEW m, RxWindow(r, N, u), Placeable(r, N, u, m)
    PROVE  /\ Between(Placed(r, m), u, NewN(N, m))
           /\ \A p \in Placed(r, m) : IsRxPdu(p)
           /\ Arrival(m).n = m.n
<1>1. N \in Nat /\ u \in Nat /\ NewN(N, m) \in Nat /\ N <= NewN(N, m) /\ m.n < NewN(N, m)
  BY NewNumbers
<1>2. m.n \in Nat /\ m.sn = SnOf(m.n) /\ u <= m.n /\ \A p \in r.rxBuffer : p.n # m.n
  BY DEF Placeable
<1>3. /\ Arrival(m).n = m.n /\ Arrival(m).sn = m.sn /\ IsRxPdu(Arrival(m))
  BY DEF Arrival, IsRxPdu, RxPduFields
<1>4. Between(r.rxBuffer, u + 1, N) /\ \A p \in r.rxBuffer : IsRxPdu(p)
  BY DEF RxWindow
<1>5. Between(r.rxBuffer, u, NewN(N, m))
  <2>1. u + 1 \in Nat /\ u <= u + 1
    BY <1>1
  <2>2. QED
    BY <1>1, <1>4, <2>1, BetweenWider
<1>6. QED
  BY <1>1, <1>2, <1>3, <1>4, <1>5 DEF Between, Placed

\* Out of order is delivered the PDU itself, when nothing else is buffered and it
\* slides the window.
LEMMA EarlyIs ==
    ASSUME NEW r, NEW N, NEW u, NEW m, RxWindow(r, N, u), Placeable(r, N, u, m)
    PROVE  \/ Early(r, m) = {}
           \/ /\ Early(r, m) = {Arrival(m)} /\ r.rxBuffer = {}
              /\ N <= m.n /\ outOfOrderDelivery
<1>1. /\ Between(Placed(r, m), u, NewN(N, m)) /\ Arrival(m).n = m.n
      /\ NewN(N, m) \in Nat /\ NewN(N, m) <= u + SNMod
      /\ NewN(N, m) + WindowSize <= N + SNMod
      /\ N \in Nat /\ u \in Nat /\ m.n \in Nat /\ N <= u + WindowSize
      /\ r.vrUh = SnOf(N) /\ r.vrUr = SnOf(u)
  BY PlacedIs, NewNumbers DEF RxWindow
<1>2. ASSUME NEW p \in Placed(r, m)
      PROVE  /\ p.n \in Nat /\ u <= p.n /\ Off(p.sn, r.vrUr) = p.n - u
             /\ IsInsideReorderingWindow(p.sn, r.vrUh) <=> p.n < N
  <2>1. p.n \in Nat /\ p.sn = SnOf(p.n) /\ u <= p.n /\ p.n < NewN(N, m)
    BY <1>1 DEF Between
  <2>2. p.n < u + SNMod /\ N <= p.n + WindowSize /\ p.n + WindowSize < N + SNMod
    BY <1>1, <2>1, UmSizes
  <2>3. Off(SnOf(p.n), SnOf(u)) = p.n - u
    BY <1>1, <2>1, <2>2, OffAhead
  <2>4. IsInsideReorderingWindow(SnOf(p.n), SnOf(N)) <=> p.n < N
    BY <1>1, <2>1, <2>2, InsideIs
  <2>5. QED
    BY <1>1, <2>1, <2>3, <2>4
<1>3. ASSUME NEW p \in r.rxBuffer PROVE p.n < N /\ p \in Placed(r, m)
  BY DEF RxWindow, Between, Placed
<1>4. \A p \in Early(r, m) : /\ p \in Placed(r, m) /\ outOfOrderDelivery
                             /\ \A q \in Placed(r, m) : q.n <= p.n => N <= q.n
  <2>1. ASSUME NEW p \in Early(r, m), NEW q \in Placed(r, m), q.n <= p.n PROVE N <= q.n
    <3>1. p \in Placed(r, m)
      BY DEF Early, OutsideWindow
    <3>2. Off(q.sn, r.vrUr) <= Off(p.sn, r.vrUr)
      BY <1>1, <1>2, <2>1, <3>1
    <3>3. ~ IsInsideReorderingWindow(q.sn, r.vrUh)
      BY <3>2 DEF Early, OutsideWindow
    <3>4. QED
      BY <1>1, <1>2, <3>3
  <2>2. QED
    BY <2>1 DEF Early, OutsideWindow
<1>5. CASE Early(r, m) # {}
  <2>1. PICK p \in Early(r, m) : TRUE
    BY <1>5
  <2>2. \A q \in Placed(r, m) : q.n <= p.n => N <= q.n
    BY <1>4, <2>1
  <2>3. p \in Placed(r, m) /\ p.n \in Nat /\ N <= p.n
    BY <1>2, <1>4, <2>1, <2>2
  <2>4. r.rxBuffer = {}
    <3>1. SUFFICES ASSUME NEW q \in r.rxBuffer PROVE FALSE
      OBVIOUS
    <3>2. q.n \in Nat /\ q.n < N /\ q \in Placed(r, m)
      BY <1>2, <1>3
    <3>3. QED
      BY <1>1, <2>2, <2>3, <3>2
  <2>5. Placed(r, m) = {Arrival(m)}
    BY <2>4 DEF Placed
  <2>6. Early(r, m) = {Arrival(m)}
    BY <1>4, <2>1, <2>5
  <2>7. N <= m.n /\ outOfOrderDelivery
    BY <1>1, <1>4, <2>1, <2>3, <2>5
  <2>8. QED
    BY <2>4, <2>6, <2>7
<1>6. QED
  BY <1>5

\* The buffer with the tombstones in it has the same numbers.
LEMMA MarkedIs ==
    ASSUME NEW r, NEW N, NEW u, NEW m, RxWindow(r, N, u), Placeable(r, N, u, m)
    PROVE  /\ Between(Marked(r, m), u, NewN(N, m))
           /\ \A p \in Marked(r, m) : IsRxPdu(p)
           /\ \A p \in Marked(r, m) : p.n = m.n \/ p \in r.rxBuffer
           /\ r.rxBuffer \subseteq Marked(r, m)
           /\ Early(r, m) = {} => Marked(r, m) = Placed(r, m)
           /\ Early(r, m) # {} => /\ r.rxBuffer = {}
                                  /\ Marked(r, m) = {[Arrival(m) EXCEPT !.tombstone = TRUE]}
<1>1. /\ Between(Placed(r, m), u, NewN(N, m)) /\ \A p \in Placed(r, m) : IsRxPdu(p)
      /\ Arrival(m).n = m.n
  BY PlacedIs
<1>2. CASE Early(r, m) = {}
  <2>1. Marked(r, m) = Placed(r, m)
    BY <1>2 DEF Marked, Tombstones
  <2>2. QED
    BY <1>1, <1>2, <2>1 DEF Placed
<1>3. CASE Early(r, m) # {}
  <2>1. Early(r, m) = {Arrival(m)} /\ r.rxBuffer = {}
    BY <1>3, EarlyIs
  <2> DEFINE t == [Arrival(m) EXCEPT !.tombstone = TRUE]
  <2>2. Marked(r, m) = {t}
    BY <2>1 DEF Marked, Tombstones, Placed
  <2>3. Arrival(m) \in Placed(r, m)
    BY DEF Placed
  <2>4. IsRxPdu(t) /\ t.n = m.n /\ t.sn = Arrival(m).sn
    BY <1>1, <2>3, TombstoneIs
  <2> HIDE DEF t
  <2>5. Between({t}, u, NewN(N, m))
    BY <1>1, <2>3, <2>4 DEF Between
  <2>6. QED
    BY <1>3, <2>1, <2>2, <2>4, <2>5 DEF t
<1>4. QED
  BY <1>2, <1>3

\* The fields of the receiver after a placement.
LEMMA PlacedRxIs ==
    ASSUME NEW r, NEW m, IsReceiver(r)
    PROVE  LET s == PlacedRx(r, m)
           IN /\ IsReceiver(s)
              /\ s.rxBuffer = Rest(r, m) \ RunOf(r, m)
              /\ s.keepS0 = Given(r, m).keep /\ s.expectedSeqNumber = Given(r, m).expected
              /\ s.vrUh = UpperEdge(r, m) /\ s.vrUr = RunEnd(r, m)
              /\ s.newest = Later(r.newest, m.n + 1) /\ s.arrived = r.arrived \cup Whole(m.data)
              /\ s.vrUx = r.vrUx /\ s.reorderingTimer = r.reorderingTimer
              /\ s.maxRxSenderTimestamp = r.maxRxSenderTimestamp
<1> DEFINE s == PlacedRx(r, m)
<1>1. IsReceiver(s)
  BY DEF IsReceiver, PlacedRx
<1>2. /\ s.rxBuffer = Rest(r, m) \ RunOf(r, m)
      /\ s.keepS0 = Given(r, m).keep /\ s.expectedSeqNumber = Given(r, m).expected
      /\ s.vrUh = UpperEdge(r, m) /\ s.vrUr = RunEnd(r, m)
      /\ s.newest = Later(r.newest, m.n + 1) /\ s.arrived = r.arrived \cup Whole(m.data)
      /\ s.vrUx = r.vrUx /\ s.reorderingTimer = r.reorderingTimer
      /\ s.maxRxSenderTimestamp = r.maxRxSenderTimestamp
  BY DEF IsReceiver, PlacedRx, RxFields
<1>3. QED
  BY <1>1, <1>2

\* What falls out at the lower edge, and where VR(UR) is then.
LEMMA PassedIs ==
    ASSUME NEW r, NEW N, NEW u, NEW m, RxWindow(r, N, u), Placeable(r, N, u, m)
    PROVE  /\ Passed(r, m) = {p \in Marked(r, m) : p.n + WindowSize < NewN(N, m)}
           /\ Base(r, m) = SnOf(NewU(N, u, m))
           /\ Rest(r, m) = {p \in Marked(r, m) : NewN(N, m) <= p.n + WindowSize}
           /\ Between(Rest(r, m), NewU(N, u, m), NewN(N, m))
<1> DEFINE M == NewN(N, m)
           v == NewU(N, u, m)
<1>1. /\ M \in Nat /\ N <= M /\ m.n < M /\ M <= u + SNMod /\ M + WindowSize <= N + SNMod
      /\ v \in Nat /\ u <= v /\ v <= M
      /\ N \in Nat /\ u \in Nat /\ m.n \in Nat /\ u <= N /\ N <= u + WindowSize
      /\ r.vrUh = SnOf(N) /\ r.vrUr = SnOf(u)
      /\ v = IF u + WindowSize < M THEN M - WindowSize ELSE u
      /\ m.n < N => M = N
  BY NewNumbers DEF RxWindow, NewU, NewN
<1>2. UpperEdge(r, m) = SnOf(M) /\ (Slides(r, m) <=> N <= m.n)
  BY SlidesIs
<1>3. Between(Marked(r, m), u, M)
  BY MarkedIs
<1>4. \A p \in Marked(r, m) : p.n \in Nat /\ u <= p.n /\ p.n < M
  BY <1>3 DEF Between
<1> HIDE DEF M, v
<1>5. OutsideWindow(Marked(r, m), r.vrUr, UpperEdge(r, m))
        = {p \in Marked(r, m) : p.n + WindowSize < M}
  BY <1>1, <1>2, <1>3, OutsideIs
<1>6. Passed(r, m) = {p \in Marked(r, m) : p.n + WindowSize < M}
  <2>1. CASE Slides(r, m)
    BY <1>5, <2>1 DEF Passed
  <2>2. CASE ~ Slides(r, m)
    <3>1. M = N
      BY <1>1, <1>2, <2>2
    <3>2. \A p \in Marked(r, m) : ~ (p.n + WindowSize < M)
      BY <1>1, <1>4, <3>1, UmSizes
    <3>3. QED
      BY <2>2, <3>2 DEF Passed
  <2>3. QED
    BY <2>1, <2>2
<1>7. Base(r, m) = SnOf(v)
  <2>1. CASE u + WindowSize < M
    <3>1. N <= m.n /\ v = M - WindowSize /\ v + SNMod = M + SNMod - WindowSize
      BY <1>1, <2>1, UmSizes
    <3>2. ~ IsInsideReorderingWindow(r.vrUr, UpperEdge(r, m))
      BY <1>1, <1>2, <2>1, BelowIsOutside
    <3>3. Low(UpperEdge(r, m)) = SnOf(M + SNMod - WindowSize)
      BY <1>1, <1>2, LowIs
    <3>4. SnOf(v + SNMod) = SnOf(v)
      BY <1>1, SnRound
    <3>5. QED
      BY <1>2, <3>1, <3>2, <3>3, <3>4 DEF Base
  <2>2. CASE ~ (u + WindowSize < M) /\ u < M
    <3>1. M <= u + WindowSize /\ u + WindowSize < M + SNMod /\ v = u
      BY <1>1, <2>2, UmSizes
    <3>2. IsInsideReorderingWindow(r.vrUr, UpperEdge(r, m))
      BY <1>1, <1>2, <2>2, <3>1, InsideIs
    <3>3. QED
      BY <1>1, <3>1, <3>2 DEF Base
  <2>3. CASE ~ (u + WindowSize < M) /\ ~ (u < M)
    <3>1. ~ Slides(r, m) /\ v = u
      BY <1>1, <1>2, <2>3
    <3>2. QED
      BY <1>1, <3>1 DEF Base
  <2>4. QED
    BY <2>1, <2>2, <2>3
<1>8. Rest(r, m) = {p \in Marked(r, m) : M <= p.n + WindowSize}
  <2>1. \A p \in Marked(r, m) : ~ (p.n + WindowSize < M) <=> M <= p.n + WindowSize
    BY <1>1, <1>4, UmSizes
  <2>2. QED
    BY <1>6, <2>1 DEF Rest
<1>9. Between(Rest(r, m), v, M)
  <2>1. \A p \in Rest(r, m) : p \in Marked(r, m) /\ v <= p.n
    BY <1>1, <1>4, <1>8, UmSizes
  <2>2. QED
    BY <1>3, <2>1 DEF Between
<1>10. QED
  BY <1>6, <1>7, <1>8, <1>9 DEF M, v

\* The placement keeps the window in order.
LEMMA PlaceWindow ==
    ASSUME NEW r, NEW N, NEW u, NEW m, RxWindow(r, N, u), Placeable(r, N, u, m)
    PROVE  \E e \in Nat :
              /\ NewU(N, u, m) <= e /\ e <= NewN(N, m)
              /\ RunOf(r, m) = {p \in Rest(r, m) : p.n < e}
              /\ RunEnd(r, m) = SnOf(e)
              /\ PlacedRx(r, m).rxBuffer = {p \in Rest(r, m) : e < p.n}
              /\ RxWindow(UpdateReorderingTimer(PlacedRx(r, m)), NewN(N, m), e)
              /\ \A x \in NewU(N, u, m) .. e - 1 : \E p \in Rest(r, m) : p.n = x
<1> DEFINE M == NewN(N, m)
           v == NewU(N, u, m)
           S == Rest(r, m)
           t == PlacedRx(r, m)
           s == UpdateReorderingTimer(t)
<1>1. /\ M \in Nat /\ N <= M /\ M + WindowSize <= N + SNMod
      /\ v \in Nat /\ u <= v /\ v <= M /\ M <= v + WindowSize
      /\ N \in Nat /\ u \in Nat /\ u <= N /\ N <= u + WindowSize
  BY NewNumbers
<1>2. Base(r, m) = SnOf(v) /\ Between(S, v, M) /\ S \subseteq Marked(r, m)
  BY PassedIs
<1>3. UpperEdge(r, m) = SnOf(M)
  BY SlidesIs
<1>4. \A p \in S : IsRxPdu(p)
  BY <1>2, MarkedIs
<1>5. M < v + SNMod
  BY <1>1, UmSizes
<1> HIDE DEF M, v
<1>6. PICK e \in Nat :
         /\ v <= e /\ e <= M
         /\ RunOf(r, m) = {p \in S : p.n < e}
         /\ RunEnd(r, m) = SnOf(e)
         /\ \A p \in S : p.n # e
         /\ \A x \in v .. e - 1 : \E p \in S : p.n = x
  <2> HIDE DEF S
  <2>1. \E e \in Nat :
           /\ v <= e /\ e <= M
           /\ {p \in S : \A j \in 0 .. Off(p.sn, SnOf(v)) : Has(S, Plus(SnOf(v), j))}
                = {p \in S : p.n < e}
           /\ Plus(SnOf(v), Cardinality({p \in S : \A j \in 0 .. Off(p.sn, SnOf(v)) :
                                                      Has(S, Plus(SnOf(v), j))})) = SnOf(e)
           /\ \A p \in S : p.n # e
           /\ \A x \in v .. e - 1 : \E p \in S : p.n = x
    BY <1>1, <1>2, <1>5, RunIs
  <2>2. RunOf(r, m) = {p \in S : \A j \in 0 .. Off(p.sn, SnOf(v)) : Has(S, Plus(SnOf(v), j))}
    BY <1>2 DEF RunOf, S
  <2>3. RunEnd(r, m) = Plus(SnOf(v), Cardinality(RunOf(r, m)))
    BY <1>2 DEF RunEnd
  <2>4. QED
    BY <2>1, <2>2, <2>3
<1>7. /\ IsReceiver(t) /\ t.rxBuffer = S \ RunOf(r, m) /\ t.vrUh = SnOf(M) /\ t.vrUr = SnOf(e)
      /\ t.vrUx = r.vrUx /\ t.reorderingTimer = r.reorderingTimer
  <2>1. IsReceiver(r)
    BY DEF RxWindow
  <2>2. QED
    BY <1>3, <1>6, <2>1, PlacedRxIs
<1>8. t.rxBuffer = {p \in S : e < p.n}
  <2>1. \A p \in S : p.n \in Nat /\ p.n # e
    BY <1>2, <1>6 DEF Between
  <2>2. \A p \in S : ~ (p.n < e) <=> e < p.n
    BY <2>1
  <2>3. QED
    BY <1>6, <1>7, <2>2
<1>9. /\ r.vrUx \in Sn /\ r.reorderingTimer \in BOOLEAN
      /\ r.reorderingTimer => \E x \in Nat : u < x /\ x <= N /\ r.vrUx = SnOf(x)
  BY DEF RxWindow
<1>10. r.reorderingTimer => \E x \in Nat : x <= M /\ M < x + SNMod /\ r.vrUx = SnOf(x)
  <2>1. SUFFICES ASSUME NEW x \in Nat, u < x, x <= N, r.vrUx = SnOf(x)
                 PROVE  x <= M /\ M < x + SNMod
    BY <1>9
  <2>2. QED
    BY <1>1, <2>1, UmSizes
<1>11. M <= e + WindowSize
  BY <1>1, <1>6, UmSizes
<1>a. /\ IsReceiver(t) /\ t.vrUh = SnOf(M) /\ t.vrUr = SnOf(e)
      /\ t.vrUx \in Sn /\ t.reorderingTimer \in BOOLEAN
      /\ t.reorderingTimer => \E x \in Nat : x <= M /\ M < x + SNMod /\ t.vrUx = SnOf(x)
  BY <1>7, <1>9, <1>10, Zenon
<1> HIDE DEF t, S
<1>12. /\ s = [t EXCEPT !.reorderingTimer = s.reorderingTimer, !.vrUx = s.vrUx]
       /\ IsReceiver(s)
       /\ s.vrUx \in Sn /\ s.reorderingTimer \in BOOLEAN
       /\ e < M => s.reorderingTimer
       /\ s.reorderingTimer => \E x \in Nat : e < x /\ x <= M /\ s.vrUx = SnOf(x)
  BY <1>1, <1>6, <1>11, <1>a, TimerIs
<1> HIDE DEF s
<1>13. s.vrUh = SnOf(M) /\ s.vrUr = SnOf(e) /\ s.rxBuffer = {p \in S : e < p.n}
  BY <1>7, <1>8, <1>12 DEF IsReceiver, RxFields
<1>14. Between(s.rxBuffer, e + 1, M)
  <2>1. \A p \in S : p.n \in Nat /\ (e < p.n => e + 1 <= p.n)
    BY <1>2 DEF Between
  <2>2. QED
    BY <1>2, <1>13, <2>1 DEF Between
<1>15. RxWindow(s, M, e)
  BY <1>1, <1>4, <1>6, <1>11, <1>12, <1>13, <1>14 DEF RxWindow
<1>16. QED
  BY <1>6, <1>8, <1>15 DEF M, v, S, t, s

-----------------------------------------------------------------------------
(* Which PDUs are placed.                                                  *)

\* The window tells the numbers of the turn from its lower edge on apart.
LEMMA DiscardedIs ==
    ASSUME NEW r, NEW N, NEW u, RxWindow(r, N, u), NEW m,
           m.n \in Nat, m.sn = SnOf(m.n), N <= m.n + WindowSize, m.n + WindowSize < N + SNMod
    PROVE  /\ IsInsideReorderingWindow(m.sn, r.vrUh) <=> m.n < N
           /\ IsDiscarded(r, m) <=> \/ m.n < u
                                    \/ u < m.n /\ \E p \in r.rxBuffer : p.n = m.n
<1>1. /\ N \in Nat /\ u \in Nat /\ u <= N /\ N <= u + WindowSize
      /\ r.vrUh = SnOf(N) /\ r.vrUr = SnOf(u)
      /\ \A p \in r.rxBuffer : p.n \in Nat /\ p.sn = SnOf(p.n) /\ u + 1 <= p.n /\ p.n < N
  BY DEF RxWindow, Between
<1>2. /\ N + SNMod - WindowSize \in Nat /\ Low(r.vrUh) = SnOf(N + SNMod - WindowSize)
      /\ u + WindowSize < N + SNMod /\ N + WindowSize < N + SNMod /\ N <= N + WindowSize
  BY <1>1, LowIs, UmSizes
<1>3. IsInsideReorderingWindow(m.sn, r.vrUh) <=> m.n < N
  BY <1>1, InsideIs
<1>4. Lt(r.vrUr, m.sn, Low(r.vrUh)) <=> u < m.n
  BY <1>1, <1>2, CompareLow
<1>5. Lt(m.sn, r.vrUh, Low(r.vrUh)) <=> m.n < N
  BY <1>1, <1>2, CompareLow
<1>6. Lt(m.sn, r.vrUr, Low(r.vrUh)) <=> m.n < u
  BY <1>1, <1>2, CompareLow
<1>7. Le(Low(r.vrUh), m.sn, Low(r.vrUh))
  <2> DEFINE low == Low(r.vrUh)
  <2>1. low \in Sn /\ m.sn \in Sn
    BY <1>1, LowIs, DivMod
  <2>2. Off(low, low) = 0
    <3>1. low - low = 0 /\ 0 % SNMod = 0
      BY <2>1, UmSizes DEF Sn
    <3>2. QED
      BY <3>1 DEF Off
  <2>3. Off(m.sn, low) \in 0 .. SNMod - 1
    BY <2>1, OffType
  <2>4. QED
    BY <2>1, <2>2, <2>3, UmSizes, ComparisonsFollowTheWindow
<1>8. ASSUME u < m.n PROVE Has(r.rxBuffer, m.sn) <=> \E p \in r.rxBuffer : p.n = m.n
  <2>1. u <= m.n /\ m.n < u + SNMod
    BY <1>1, <1>8, UmSizes
  <2>2. \A p \in r.rxBuffer : /\ p.n \in Nat /\ p.sn = SnOf(p.n)
                              /\ u <= p.n /\ p.n < u + SNMod
    BY <1>1, UmSizes
  <2>3. QED
    BY <1>1, <2>1, <2>2, HasIs
<1>9. (\E p \in r.rxBuffer : p.n = m.n) => m.n < N
  BY <1>1
<1>10. IsDiscarded(r, m) <=> \/ u < m.n /\ m.n < N /\ Has(r.rxBuffer, m.sn)
                             \/ m.n < u
  BY <1>4, <1>5, <1>6, <1>7 DEF IsDiscarded
<1>11. QED
  BY <1>3, <1>8, <1>9, <1>10

\* What is known of the transmitter and of the PDUs in flight: those of one
\* transmitter are less than a turn apart, and their times go with their numbers.
TxInv ==
    /\ rlcEntityId \in Nat \ {0} /\ sent \in Nat /\ clock \in Nat
    /\ clock <= sent /\ sequenceNumber = SnOf(sent)
    /\ \A m \in pdus : /\ m.id \in Nat \ {0} /\ m.id <= rlcEntityId
                       /\ m.n \in Nat /\ m.time \in Nat /\ m.sn = SnOf(m.n)
                       /\ m.time <= m.n /\ m.n < m.time + MaxPerInstant
                       /\ m.id = rlcEntityId =>
                             m.n < sent /\ m.time <= clock /\ sent <= m.n + MaxLag
    /\ \A p, q \in pdus : p.id = q.id =>
          p.n < q.n + MaxLag /\ (p.n <= q.n => p.time <= q.time)

\* The receiver listens to the transmitter id: the window, and the newest PDU
\* placed against the PDUs in flight.
RxInv(r, id) ==
    /\ r.newest \in Nat /\ r.maxRxSenderTimestamp \in Nat
    /\ \E u \in Nat : RxWindow(r, r.newest, u)
    /\ \A p \in r.rxBuffer : p.id = id

AgeInv(r, id) ==
    /\ id = rlcEntityId => r.newest <= sent /\ r.maxRxSenderTimestamp <= clock
    /\ r.newest # 0 =>
          /\ r.newest <= r.maxRxSenderTimestamp + MaxPerInstant
          /\ \A m \in pdus : m.id = id =>
                /\ r.newest <= m.n + MaxLag
                /\ r.newest <= m.n => r.maxRxSenderTimestamp <= m.time

WindowInv ==
    /\ TxInv
    /\ peerRlcEntityId \in Nat /\ peerRlcEntityId <= rlcEntityId
    /\ peerRlcEntityId = 0 => rx = InitialRx
    /\ RxInv(rx, peerRlcEntityId) /\ AgeInv(rx, peerRlcEntityId)

\* The new receiver, whatever transmitter it will listen to.
LEMMA InitialRxIs ==
    ASSUME TxInv, NEW id
    PROVE  RxInv(InitialRx, id) /\ AgeInv(InitialRx, id)
<1>1. /\ InitialRx.rxBuffer = {} /\ InitialRx.vrUr = 0 /\ InitialRx.vrUh = 0
      /\ InitialRx.vrUx = 0 /\ InitialRx.reorderingTimer = FALSE
      /\ InitialRx.newest = 0 /\ InitialRx.maxRxSenderTimestamp = 0
  BY DEF InitialRx
<1>2. IsReceiver(InitialRx)
  BY DEF InitialRx, IsReceiver, RxFields
<1>3. SnOf(0) = 0 /\ 0 \in Sn
  BY UmSizes DEF SnOf, Sn
<1>4. RxWindow(InitialRx, 0, 0)
  <2>1. Between(InitialRx.rxBuffer, 0 + 1, 0) /\ \A p \in InitialRx.rxBuffer : IsRxPdu(p)
    BY <1>1 DEF Between
  <2>2. InitialRx.reorderingTimer \in BOOLEAN /\ ~ InitialRx.reorderingTimer
    BY <1>1, Zenon
  <2>3. 0 \in Nat /\ 0 <= 0 /\ 0 <= 0 + WindowSize /\ ~ (0 < 0)
    BY UmSizes
  <2>4. QED
    BY <1>1, <1>2, <1>3, <2>1, <2>2, <2>3, Zenon DEF RxWindow
<1>5. 0 <= sent /\ 0 <= clock
  BY DEF TxInv
<1>6. QED
  BY <1>1, <1>4, <1>5 DEF RxInv, AgeInv

\* A new receiver has nothing placed and nothing buffered, and its window may be
\* taken to end before any turn of the numbers.
LEMMA FreshAnywhere ==
    ASSUME NEW r, NEW u0, RxWindow(r, 0, u0), NEW N \in Nat, SnOf(N) = 0
    PROVE  r.rxBuffer = {} /\ RxWindow(r, N, N)
<1>1. /\ u0 = 0 /\ r.vrUh = SnOf(0) /\ r.vrUr = SnOf(0) /\ r.vrUx \in Sn /\ IsReceiver(r)
      /\ r.reorderingTimer \in BOOLEAN
  BY DEF RxWindow
<1>2. SnOf(0) = 0
  BY UmSizes DEF SnOf
<1>3. r.rxBuffer = {}
  <2>1. SUFFICES ASSUME NEW p \in r.rxBuffer PROVE FALSE
    OBVIOUS
  <2>2. p.n \in Nat /\ p.n < 0
    BY DEF RxWindow, Between
  <2>3. QED
    BY <2>2
<1>4. ~ r.reorderingTimer
  <2>1. SUFFICES ASSUME r.reorderingTimer PROVE FALSE
    OBVIOUS
  <2>2. PICK x \in Nat : u0 < x /\ x <= 0
    BY <2>1 DEF RxWindow
  <2>3. QED
    BY <1>1, <2>2
<1>5. Between(r.rxBuffer, N + 1, N)
  BY <1>3 DEF Between
<1>6. QED
  BY <1>1, <1>2, <1>3, <1>4, <1>5, UmSizes DEF RxWindow

\* With a PDU placed already: of the PDUs in flight those are placed that lie at or
\* above VR(UR) and are not buffered; what lies below the window is late.
LEMMA WindowTells ==
    ASSUME TxInv, NEW r, NEW m \in pdus, AgeInv(r, m.id), r.maxRxSenderTimestamp \in Nat,
           NEW u, RxWindow(r, r.newest, u),
           r.newest # 0, m.n < r.newest + SNMod - WindowSize
    PROVE  ~ IsDelayed(r, m) /\ ~ IsDiscarded(r, m) <=> Placeable(r, r.newest, u, m)
<1> DEFINE N == r.newest
           T == r.maxRxSenderTimestamp
<1>1. /\ N \in Nat /\ u \in Nat /\ u <= N /\ N <= u + WindowSize /\ r.vrUh = SnOf(N)
      /\ Between(r.rxBuffer, u + 1, N)
  BY DEF RxWindow
<1>2. /\ m.n \in Nat /\ m.time \in Nat /\ m.sn = SnOf(m.n) /\ m.time <= m.n
      /\ T \in Nat /\ N <= T + MaxPerInstant /\ N <= m.n + MaxLag /\ (N <= m.n => T <= m.time)
  BY DEF TxInv, AgeInv
<1>3. N # 0 /\ m.n + WindowSize < N + SNMod
  BY <1>1, <1>2, UmSizes
<1>d. IsDelayed(r, m) <=> ~ IsInsideReorderingWindow(m.sn, r.vrUh) /\ m.time < T
  BY DEF IsDelayed
<1>p. Placeable(r, N, u, m) <=> u <= m.n /\ \A p \in r.rxBuffer : p.n # m.n
  BY <1>2, <1>3 DEF Placeable
<1>w. RxWindow(r, N, u)
  OBVIOUS
<1> HIDE DEF N, T
<1>4. CASE N <= m.n + WindowSize
  <2>1. /\ IsInsideReorderingWindow(m.sn, r.vrUh) <=> m.n < N
        /\ IsDiscarded(r, m) <=> \/ m.n < u
                                 \/ u < m.n /\ \E p \in r.rxBuffer : p.n = m.n
    BY <1>1, <1>2, <1>3, <1>4, <1>w, DiscardedIs
  <2>2. ~ IsDelayed(r, m)
    BY <1>1, <1>2, <1>d, <2>1
  <2>3. \A p \in r.rxBuffer : p.n \in Nat /\ u < p.n
    BY <1>1 DEF Between
  <2>4. ~ IsDiscarded(r, m) <=> u <= m.n /\ \A p \in r.rxBuffer : p.n # m.n
    BY <1>1, <1>2, <2>1, <2>3
  <2>5. QED
    BY <1>p, <2>2, <2>4 DEF N
<1>5. CASE m.n + WindowSize < N
  <2>1. N <= m.n + SNMod
    BY <1>1, <1>2, UmSizes
  <2>2. ~ IsInsideReorderingWindow(m.sn, r.vrUh)
    BY <1>1, <1>2, <1>5, <2>1, BelowIsOutside
  <2>3. m.time < T
    BY <1>1, <1>2, <1>5, UmSizes
  <2>4. ~ (u <= m.n)
    BY <1>1, <1>2, <1>5, UmSizes
  <2>5. QED
    BY <1>d, <1>p, <2>2, <2>3, <2>4 DEF N
<1>6. QED
  BY <1>1, <1>2, <1>4, <1>5, UmSizes

\* Without: the PDU begins the window, unless its SN is one of those below zero.
LEMMA FreshTells ==
    ASSUME TxInv, NEW r, NEW m \in pdus, NEW u0, RxWindow(r, 0, u0),
           ~ IsDelayed(r, m), ~ IsDiscarded(r, m)
    PROVE  \E N \in Nat : /\ RxWindow(r, N, N) /\ Placeable(r, N, N, m)
                          /\ N <= m.n /\ r.rxBuffer = {}
                          /\ ~ IsInsideReorderingWindow(m.sn, r.vrUh)
<1> DEFINE s == SnOf(m.n)
           k == m.n \div SNMod
           q == SNMod * k
<1>1. m.n \in Nat /\ m.sn = s
  BY DEF TxInv
<1>2. s \in Nat /\ s < SNMod /\ k \in Nat /\ m.n = q + s
  <2>1. s \in Sn /\ k \in Nat /\ m.n = SNMod * k + s
    BY <1>1, DivMod
  <2> HIDE DEF s, k
  <2>2. QED
    BY <2>1, UmSizes DEF Sn
<1>3. q \in Nat /\ q + SNMod = SNMod * (k + 1)
  <2>1. q \in Nat
    BY <1>2, UmSizes
  <2>2. SNMod * (k + 1) = SNMod * k + SNMod
    BY <1>2, UmSizes
  <2>3. QED
    BY <2>1, <2>2
<1> HIDE DEF s
<1>4. SnOf(q) = 0 /\ SnOf(q + SNMod) = 0
  <2>1. 0 \in Sn
    BY ZeroIsSn
  <2>2. q = SNMod * k + 0
    BY <1>3
  <2>3. SnOf(q) = 0
    BY <1>2, <1>3, <2>1, <2>2, RemainderIs
  <2>4. QED
    BY <1>3, <2>3, SnRound
<1> HIDE DEF k, q
<1>5. CASE s + WindowSize < SNMod
  <2>1. r.rxBuffer = {} /\ RxWindow(r, q, q)
    BY <1>3, <1>4, FreshAnywhere
  <2>2. /\ q <= m.n /\ m.n + WindowSize < q + SNMod
        /\ q <= m.n + WindowSize
    BY <1>1, <1>2, <1>3, <1>5, UmSizes
  <2>3. Placeable(r, q, q, m)
    BY <1>1, <2>1, <2>2 DEF Placeable, s
  <2>4. IsInsideReorderingWindow(m.sn, r.vrUh) <=> m.n < q
    BY <1>1, <1>3, <2>1, <2>2, DiscardedIs DEF s
  <2>5. ~ IsInsideReorderingWindow(m.sn, r.vrUh)
    BY <1>1, <1>3, <2>2, <2>4
  <2>6. QED
    BY <1>3, <2>1, <2>2, <2>3, <2>5
<1>6. CASE SNMod <= s + WindowSize
  <2> DEFINE N == q + SNMod
  <2>1. N \in Nat /\ SnOf(N) = 0
    BY <1>3, <1>4, UmSizes
  <2>2. m.n < N /\ N <= m.n + WindowSize /\ m.n + WindowSize < N + SNMod
    BY <1>1, <1>2, <1>3, <1>6, UmSizes
  <2> HIDE DEF N
  <2>3. RxWindow(r, N, N)
    BY <2>1, FreshAnywhere
  <2>4. IsDiscarded(r, m)
    BY <1>1, <2>1, <2>2, <2>3, DiscardedIs DEF s
  <2>5. QED
    BY <2>4
<1>7. QED
  BY <1>2, <1>5, <1>6, UmSizes

\* What is placed belongs into the window or above it.
LEMMA PlacedOnly ==
    ASSUME TxInv, NEW r, NEW m \in pdus, RxInv(r, m.id), AgeInv(r, m.id),
           r.newest # 0 => m.n < r.newest + SNMod - WindowSize,
           ~ IsDelayed(r, m), ~ IsDiscarded(r, m)
    PROVE  \E N, u \in Nat :
              /\ RxWindow(r, N, u) /\ Placeable(r, N, u, m)
              /\ NewN(N, m) = Later(r.newest, m.n + 1)
              /\ r.newest # 0 => N = r.newest
              /\ r.newest = 0 => /\ r.rxBuffer = {} /\ N <= m.n
                                 /\ r.maxRxSenderTimestamp <= m.time
<1>1. PICK u \in Nat : RxWindow(r, r.newest, u)
  BY DEF RxInv
<1>2. r.newest \in Nat /\ r.maxRxSenderTimestamp \in Nat /\ m.n \in Nat /\ m.time \in Nat
  BY DEF RxInv, TxInv
<1>3. CASE r.newest # 0
  <2>1. Placeable(r, r.newest, u, m)
    BY <1>1, <1>2, <1>3, WindowTells
  <2>2. NewN(r.newest, m) = Later(r.newest, m.n + 1)
    BY <1>2 DEF NewN, Later
  <2>3. QED
    BY <1>1, <1>2, <1>3, <2>1, <2>2
<1>4. CASE r.newest = 0
  <2>1. RxWindow(r, 0, u)
    BY <1>1, <1>4
  <2>2. PICK N \in Nat : /\ RxWindow(r, N, N) /\ Placeable(r, N, N, m)
                         /\ N <= m.n /\ r.rxBuffer = {}
                         /\ ~ IsInsideReorderingWindow(m.sn, r.vrUh)
    BY <2>1, FreshTells
  <2>3. ~ (m.time < r.maxRxSenderTimestamp)
    BY <2>2 DEF IsDelayed
  <2>4. NewN(N, m) = Later(r.newest, m.n + 1)
    BY <1>2, <1>4, <2>2 DEF NewN, Later
  <2>5. r.maxRxSenderTimestamp <= m.time
    BY <1>2, <2>3
  <2>6. QED
    BY <1>4, <2>2, <2>4, <2>5
<1>5. QED
  BY <1>3, <1>4

\* The receiver as the PDU meets it listens to the transmitter of the PDU.
LEMMA MetIs ==
    ASSUME WindowInv, NEW m \in pdus, AcceptPduFromPeerEntity(m)
    PROVE  /\ RxInv(Met(m), m.id) /\ AgeInv(Met(m), m.id)
           /\ Later(peerRlcEntityId, m.id) = m.id
           /\ (m.id = peerRlcEntityId /\ Met(m) = rx) \/ Met(m) = InitialRx
<1>1. m.id \in Nat \ {0} /\ peerRlcEntityId \in Nat /\ peerRlcEntityId <= m.id
  BY DEF WindowInv, TxInv, AcceptPduFromPeerEntity
<1>2. Later(peerRlcEntityId, m.id) = m.id
  BY <1>1 DEF Later
<1>3. CASE m.id = peerRlcEntityId
  BY <1>1, <1>2, <1>3 DEF Met, WindowInv
<1>4. CASE m.id # peerRlcEntityId
  <2>1. Met(m) = InitialRx
    BY <1>1, <1>4 DEF Met, ReestablishRxSide, WindowInv
  <2>2. TxInv
    BY DEF WindowInv
  <2>3. QED
    BY <1>2, <2>1, <2>2, InitialRxIs
<1>5. QED
  BY <1>3, <1>4

-----------------------------------------------------------------------------
(* Every step keeps the window.                                            *)

\* The initial state.
LEMMA WindowInit == Init => WindowInv
<1> SUFFICES ASSUME Init PROVE WindowInv
  OBVIOUS
<1>1. SnOf(0) = 0
  BY UmSizes DEF SnOf
<1>2. TxInv
  BY <1>1 DEF Init, TxInv
<1>3. RxInv(InitialRx, 0) /\ AgeInv(InitialRx, 0)
  BY <1>2, InitialRxIs
<1>4. QED
  BY <1>2, <1>3 DEF Init, WindowInv

\* PDUs may leave the flow.
LEMMA FewerPdus ==
    ASSUME pdus' \subseteq pdus, UNCHANGED <<rlcEntityId, sent, clock, sequenceNumber>>
    PROVE  /\ TxInv => TxInv'
           /\ \A r, id : AgeInv(r, id) => AgeInv(r, id)'
<1>1. TxInv => TxInv'
  BY DEF TxInv
<1>2. ASSUME NEW r, NEW id, AgeInv(r, id) PROVE AgeInv(r, id)'
  BY <1>2 DEF AgeInv
<1>3. QED
  BY <1>1, <1>2

\* The steps that leave the receiver alone and build no PDU.
LEMMA WindowOtherSteps ==
    ASSUME WindowInv,
           UNCHANGED <<rlcEntityId, sequenceNumber, clock, sent, peerRlcEntityId, rx>>,
           pdus' \subseteq pdus
    PROVE  WindowInv'
<1>1. TxInv' /\ AgeInv(rx, peerRlcEntityId)'
  BY FewerPdus DEF WindowInv
<1>2. QED
  BY <1>1 DEF WindowInv

\* A new PDU is the newest one of its transmitter.
LEMMA WindowTransmitPdu ==
    ASSUME WindowInv, NEW bytes, TransmitPdu(bytes)
    PROVE  WindowInv'
<1>1. /\ rlcEntityId \in Nat \ {0} /\ sent \in Nat /\ clock \in Nat /\ clock <= sent
      /\ sequenceNumber = SnOf(sent)
  BY DEF WindowInv, TxInv
<1>2. clock' \in Nat /\ clock <= clock' /\ clock' <= sent /\ sent < clock' + MaxPerInstant
  <2>1. CASE clock' = sent
    BY <1>1, <2>1, UmSizes
  <2>2. CASE sent - clock < MaxPerInstant /\ clock' = clock
    BY <1>1, <2>2, UmSizes
  <2>3. QED
    BY <2>1, <2>2 DEF TransmitPdu
<1>3. PICK m : /\ m.id = rlcEntityId /\ m.n = sent /\ m.sn = sequenceNumber /\ m.time = clock'
               /\ pdus' = pdus \cup {m}
  <2>1. PICK k : pdus' = pdus \cup {[id |-> rlcEntityId, n |-> sent, sn |-> sequenceNumber,
                                     data |-> SubSeq(txBuffer, 1, k), time |-> clock']}
    BY DEF TransmitPdu
  <2>2. QED
    BY <2>1
<1>4. /\ sequenceNumber' = Plus(sequenceNumber, 1) /\ sent' = sent + 1
      /\ UNCHANGED <<rlcEntityId, peerRlcEntityId, rx>>
      /\ \A p \in pdus : p.id = rlcEntityId => p.n + MaxLag > sent
  BY DEF TransmitPdu, rxVars
<1>5. sequenceNumber' = SnOf(sent')
  BY <1>1, <1>4, PlusSn
<1>6. \A p \in pdus : /\ p.id \in Nat \ {0} /\ p.id <= rlcEntityId
                      /\ p.n \in Nat /\ p.time \in Nat /\ p.sn = SnOf(p.n)
                      /\ p.time <= p.n /\ p.n < p.time + MaxPerInstant
                      /\ p.id = rlcEntityId =>
                            p.n < sent /\ p.time <= clock /\ sent <= p.n + MaxLag
  BY DEF WindowInv, TxInv
<1>7. \A p \in pdus' : /\ p.id \in Nat \ {0} /\ p.id <= rlcEntityId'
                       /\ p.n \in Nat /\ p.time \in Nat /\ p.sn = SnOf(p.n)
                       /\ p.time <= p.n /\ p.n < p.time + MaxPerInstant
                       /\ p.id = rlcEntityId' =>
                             p.n < sent' /\ p.time <= clock' /\ sent' <= p.n + MaxLag
  <2>1. SUFFICES ASSUME NEW p \in pdus'
                 PROVE  /\ p.id \in Nat \ {0} /\ p.id <= rlcEntityId'
                        /\ p.n \in Nat /\ p.time \in Nat /\ p.sn = SnOf(p.n)
                        /\ p.time <= p.n /\ p.n < p.time + MaxPerInstant
                        /\ p.id = rlcEntityId' =>
                              p.n < sent' /\ p.time <= clock' /\ sent' <= p.n + MaxLag
    OBVIOUS
  <2>2. CASE p = m
    <3>1. /\ m.id \in Nat \ {0} /\ m.id <= rlcEntityId /\ m.n \in Nat /\ m.time \in Nat
          /\ m.sn = SnOf(m.n)
      BY <1>1, <1>2, <1>3
    <3>2. m.time <= m.n /\ m.n < m.time + MaxPerInstant
      BY <1>1, <1>2, <1>3
    <3>3. m.n < sent' /\ sent' <= m.n + MaxLag
      <4>1. sent < sent + 1 /\ sent + 1 <= sent + MaxLag
        BY <1>1, UmSizes
      <4>2. m.n = sent /\ sent' = sent + 1
        BY <1>3, <1>4
      <4>3. QED
        BY <4>1, <4>2
    <3>4. m.time <= clock'
      BY <1>2, <1>3
    <3>5. QED
      BY <1>4, <2>2, <3>1, <3>2, <3>3, <3>4
  <2>3. CASE p \in pdus
    <3>1. p.id = rlcEntityId => p.n + MaxLag > sent
      BY <1>4, <2>3
    <3>2. QED
      BY <1>1, <1>2, <1>4, <1>6, <2>3, <3>1, UmSizes
  <2>4. QED
    BY <1>3, <2>2, <2>3
<1>8. \A p, q \in pdus' : p.id = q.id =>
         p.n < q.n + MaxLag /\ (p.n <= q.n => p.time <= q.time)
  <2>1. SUFFICES ASSUME NEW p \in pdus', NEW q \in pdus', p.id = q.id
                 PROVE  p.n < q.n + MaxLag /\ (p.n <= q.n => p.time <= q.time)
    OBVIOUS
  <2>2. CASE p \in pdus /\ q \in pdus
    BY <2>1, <2>2 DEF WindowInv, TxInv
  <2>3. CASE p = m /\ q = m
    BY <1>1, <1>2, <1>3, <2>3, UmSizes
  <2>4. CASE p = m /\ q \in pdus
    <3>1. q.id = rlcEntityId /\ q.n \in Nat /\ q.n < sent /\ q.n + MaxLag > sent
      BY <1>3, <1>4, <1>6, <2>1, <2>4
    <3>2. QED
      BY <1>1, <1>3, <2>4, <3>1, UmSizes
  <2>5. CASE p \in pdus /\ q = m
    <3>1. /\ p.id = rlcEntityId /\ p.n \in Nat /\ p.time \in Nat
          /\ p.n < sent /\ p.time <= clock
      BY <1>3, <1>6, <2>1, <2>5
    <3>2. QED
      BY <1>1, <1>2, <1>3, <2>5, <3>1, UmSizes
  <2>6. QED
    BY <1>3, <2>2, <2>3, <2>4, <2>5
<1>9. TxInv'
  BY <1>1, <1>2, <1>4, <1>5, <1>7, <1>8 DEF TxInv
<1>10. AgeInv(rx, peerRlcEntityId)'
  <2>1. /\ AgeInv(rx, peerRlcEntityId) /\ rx.newest \in Nat /\ rx.maxRxSenderTimestamp \in Nat
    BY DEF WindowInv, RxInv
  <2>2. peerRlcEntityId = rlcEntityId =>
           rx.newest <= sent' /\ rx.maxRxSenderTimestamp <= clock'
    BY <1>1, <1>2, <1>4, <2>1 DEF AgeInv
  <2>3. ASSUME rx.newest # 0, NEW p \in pdus', p.id = peerRlcEntityId
        PROVE  /\ rx.newest <= p.n + MaxLag
               /\ rx.newest <= p.n => rx.maxRxSenderTimestamp <= p.time
    <3>1. CASE p = m
      <4>1. rx.newest <= sent /\ rx.maxRxSenderTimestamp <= clock
        BY <1>3, <2>1, <2>3, <3>1 DEF AgeInv
      <4>2. QED
        BY <1>1, <1>2, <1>3, <2>1, <3>1, <4>1, UmSizes
    <3>2. CASE p \in pdus
      BY <2>1, <2>3, <3>2 DEF AgeInv
    <3>3. QED
      BY <1>3, <3>1, <3>2
  <2>4. QED
    BY <1>4, <2>1, <2>2, <2>3 DEF AgeInv
<1>11. QED
  BY <1>4, <1>9, <1>10 DEF WindowInv

\* The PDUs in flight are those of transmitters before the new one.
LEMMA WindowRecreateTransmitter ==
    ASSUME WindowInv, RecreateTransmitter
    PROVE  WindowInv'
<1>1. /\ rlcEntityId' = rlcEntityId + 1 /\ sequenceNumber' = 0 /\ clock' = 0 /\ sent' = 0
      /\ UNCHANGED <<peerRlcEntityId, rx, pdus>>
  BY DEF RecreateTransmitter, rxVars, netVars
<1>2. SnOf(0) = 0
  BY UmSizes DEF SnOf
<1>3. rlcEntityId \in Nat \ {0} /\ peerRlcEntityId \in Nat /\ peerRlcEntityId <= rlcEntityId
  BY DEF WindowInv, TxInv
<1>4. \A m \in pdus : m.id \in Nat \ {0} /\ m.id <= rlcEntityId' /\ m.id # rlcEntityId'
  BY <1>1, <1>3 DEF WindowInv, TxInv
<1>5. TxInv'
  BY <1>1, <1>2, <1>3, <1>4 DEF WindowInv, TxInv
<1>6. AgeInv(rx, peerRlcEntityId)'
  BY <1>1, <1>3 DEF WindowInv, AgeInv
<1>7. QED
  BY <1>1, <1>3, <1>5, <1>6 DEF WindowInv

\* The new receiver has heard nothing.
LEMMA WindowRecreateReceiver ==
    ASSUME WindowInv, RecreateReceiver
    PROVE  WindowInv'
<1>1. /\ rx' = InitialRx /\ peerRlcEntityId' = 0
      /\ UNCHANGED <<rlcEntityId, sequenceNumber, clock, sent, pdus>>
  BY DEF RecreateReceiver, txVars, netVars
<1>2. TxInv' /\ \A r, id : AgeInv(r, id) => AgeInv(r, id)'
  BY <1>1, FewerPdus DEF WindowInv
<1>3. RxInv(InitialRx, 0) /\ AgeInv(InitialRx, 0)
  BY InitialRxIs DEF WindowInv
<1>4. AgeInv(rx, peerRlcEntityId)'
  BY <1>1, <1>2, <1>3 DEF AgeInv
<1>5. QED
  BY <1>1, <1>2, <1>3, <1>4 DEF WindowInv, TxInv

\* What t-Reordering leaves: VR(UR) becomes some number e, and what lies below it is
\* delivered.
LEMMA ExpiryIs ==
    ASSUME NEW N, NEW u, RxWindow(rx, N, u), rx.reorderingTimer,
           NEW k \in 0 .. SNMod - 1, IsRun(rx.rxBuffer, rx.vrUx, k)
    PROVE  \E e \in Nat :
              /\ u < e /\ e <= N
              /\ AtExpiry(k).ur = SnOf(e)
              /\ AtExpiry(k).buffer = {p \in rx.rxBuffer : e < p.n}
              /\ AtExpiry(k).st = Deliver(Held(rx), {p \in rx.rxBuffer : p.n < e}, rx.vrUr)
              /\ Gt(rx.vrUh, AtExpiry(k).ur, Low(rx.vrUh)) <=> e < N
              /\ \A p \in rx.rxBuffer : p.n # e
<1>1. /\ N \in Nat /\ u \in Nat /\ u <= N /\ N <= u + WindowSize
      /\ rx.vrUh = SnOf(N) /\ rx.vrUr = SnOf(u)
      /\ \A p \in rx.rxBuffer : p.n \in Nat /\ p.sn = SnOf(p.n) /\ u + 1 <= p.n /\ p.n < N
  BY DEF RxWindow, Between
<1>2. PICK x \in Nat : u < x /\ x <= N /\ rx.vrUx = SnOf(x)
  BY DEF RxWindow
<1> DEFINE e == x + k
<1>3. /\ e \in Nat /\ e <= N /\ Plus(SnOf(x), k) = SnOf(e)
      /\ \A p \in rx.rxBuffer : p.n # e
  <2>1. /\ N < u + SNMod /\ u <= x
        /\ \A p \in rx.rxBuffer : p.n \in Nat /\ p.sn = SnOf(p.n) /\ u <= p.n /\ p.n < N
    BY <1>1, <1>2, UmSizes
  <2>2. IsRun(rx.rxBuffer, SnOf(x), k)
    BY <1>2
  <2>3. QED
    BY <1>1, <1>2, <2>1, <2>2, RunEnds
<1>4. u < e
  BY <1>1, <1>2, UmSizes
<1> HIDE DEF e
<1>5. N + WindowSize < N + SNMod /\ N <= N + WindowSize
  BY <1>1, UmSizes
<1>6. ASSUME NEW y \in Nat, u <= y, y <= N, NEW z \in Nat, u <= z, z <= N
      PROVE  /\ Le(SnOf(y), SnOf(z), Low(rx.vrUh)) <=> y <= z
             /\ Lt(SnOf(y), SnOf(z), Low(rx.vrUh)) <=> y < z
             /\ Gt(SnOf(y), SnOf(z), Low(rx.vrUh)) <=> y > z
  <2>1. /\ N <= y + WindowSize /\ y + WindowSize < N + SNMod
        /\ N <= z + WindowSize /\ z + WindowSize < N + SNMod
    BY <1>1, <1>6, UmSizes
  <2>2. QED
    BY <1>1, <2>1, CompareLow
<1> DEFINE low == Low(rx.vrUh)
           passed == {p \in rx.rxBuffer : /\ Le(rx.vrUr, p.sn, low)
                                          /\ Lt(p.sn, Plus(rx.vrUx, k), low)}
<1>7. passed = {p \in rx.rxBuffer : p.n < e}
  <2>1. ASSUME NEW p \in rx.rxBuffer
        PROVE  /\ Le(rx.vrUr, p.sn, low)
               /\ Lt(p.sn, Plus(rx.vrUx, k), low) <=> p.n < e
    <3>1. p.n \in Nat /\ p.sn = SnOf(p.n) /\ u <= p.n /\ p.n <= N /\ u <= e
      BY <1>1, <1>3, <1>4
    <3>2. Le(SnOf(u), SnOf(p.n), low) <=> u <= p.n
      BY <1>1, <1>6, <3>1
    <3>3. Lt(SnOf(p.n), SnOf(e), low) <=> p.n < e
      BY <1>3, <1>6, <3>1
    <3>4. QED
      BY <1>1, <1>2, <1>3, <3>1, <3>2, <3>3
  <2>2. QED
    BY <2>1
<1>8. rx.rxBuffer \ passed = {p \in rx.rxBuffer : e < p.n}
  <2>1. \A p \in rx.rxBuffer : ~ (p.n < e) <=> e < p.n
    BY <1>1, <1>3
  <2>2. QED
    BY <1>7, <2>1
<1>9. /\ AtExpiry(k).ur = Plus(rx.vrUx, k)
      /\ AtExpiry(k).buffer = rx.rxBuffer \ passed
      /\ AtExpiry(k).st = Deliver(Held(rx), passed, rx.vrUr)
  BY DEF AtExpiry
<1> HIDE DEF passed
<1>10. Gt(SnOf(N), SnOf(e), Low(rx.vrUh)) <=> e < N
  BY <1>1, <1>3, <1>4, <1>6
<1>11. QED
  BY <1>1, <1>2, <1>3, <1>4, <1>7, <1>8, <1>9, <1>10

\* The state of the receiver after t-Reordering expired.
ExpiredRx(at, open) ==
    [rx EXCEPT !.rxBuffer = at.buffer, !.vrUr = at.ur,
               !.keepS0 = <<>>, !.expectedSeqNumber = at.st.expected,
               !.reorderingTimer = open, !.vrUx = IF open THEN rx.vrUh ELSE @]

\* t-Reordering gives up gaps.
LEMMA WindowExpireReorderingTimer ==
    ASSUME WindowInv, ExpireReorderingTimer
    PROVE  WindowInv'
<1>1. /\ rx.reorderingTimer
      /\ UNCHANGED <<rlcEntityId, sequenceNumber, clock, sent, peerRlcEntityId, pdus>>
  BY DEF ExpireReorderingTimer, txVars, netVars
<1>2. PICK k \in 0 .. SNMod - 1 :
         /\ IsRun(rx.rxBuffer, rx.vrUx, k)
         /\ rx' = ExpiredRx(AtExpiry(k), Gt(rx.vrUh, AtExpiry(k).ur, Low(rx.vrUh)))
  BY Zenon DEF ExpireReorderingTimer, ExpiredRx
<1>3. PICK at : at = AtExpiry(k)
  OBVIOUS
<1>4. PICK u \in Nat : RxWindow(rx, rx.newest, u)
  BY DEF WindowInv, RxInv
<1>5. PICK N : N = rx.newest
  OBVIOUS
<1>6. PICK e \in Nat :
         /\ u < e /\ e <= N
         /\ at.ur = SnOf(e) /\ at.buffer = {p \in rx.rxBuffer : e < p.n}
         /\ Gt(rx.vrUh, at.ur, Low(rx.vrUh)) <=> e < N
  BY <1>1, <1>2, <1>3, <1>4, <1>5, ExpiryIs
<1>7. PICK open : open = Gt(rx.vrUh, at.ur, Low(rx.vrUh))
  OBVIOUS
<1>8. open <=> e < N
  BY <1>6, <1>7
<1>9. /\ IsReceiver(rx) /\ N \in Nat /\ u \in Nat /\ N <= u + WindowSize
      /\ rx.vrUh = SnOf(N) /\ rx.vrUx \in Sn
      /\ Between(rx.rxBuffer, u + 1, N) /\ \A p \in rx.rxBuffer : IsRxPdu(p)
  BY <1>4, <1>5 DEF RxWindow
<1> DEFINE s == ExpiredRx(at, open)
<1>10. /\ IsReceiver(s) /\ s.rxBuffer = at.buffer /\ s.vrUr = at.ur /\ s.vrUh = rx.vrUh
       /\ s.reorderingTimer = open /\ s.vrUx = (IF open THEN rx.vrUh ELSE rx.vrUx)
       /\ s.newest = rx.newest /\ s.maxRxSenderTimestamp = rx.maxRxSenderTimestamp
  <2>1. IsReceiver(rx)
    BY <1>9
  <2>2. IsReceiver(s)
    BY <2>1 DEF IsReceiver, ExpiredRx
  <2>3. /\ s.rxBuffer = at.buffer /\ s.vrUr = at.ur /\ s.vrUh = rx.vrUh
        /\ s.reorderingTimer = open /\ s.vrUx = (IF open THEN rx.vrUh ELSE rx.vrUx)
        /\ s.newest = rx.newest /\ s.maxRxSenderTimestamp = rx.maxRxSenderTimestamp
    BY <2>1 DEF IsReceiver, ExpiredRx, RxFields
  <2>4. QED
    BY <2>2, <2>3
<1> HIDE DEF s
<1>11. open \in BOOLEAN
  BY <1>7 DEF Gt
<1>12. Between(s.rxBuffer, e + 1, N) /\ \A p \in s.rxBuffer : IsRxPdu(p)
  <2>1. \A p \in rx.rxBuffer : p.n \in Nat
    BY <1>9 DEF Between
  <2>2. \A p \in s.rxBuffer : p \in rx.rxBuffer /\ e + 1 <= p.n
    BY <1>6, <1>10, <2>1
  <2>3. QED
    BY <1>9, <2>2 DEF Between
<1>13. SnOf(N) \in Sn
  BY <1>9, DivMod
<1>14. s.vrUx \in Sn /\ (open => e < N /\ N <= N /\ s.vrUx = SnOf(N))
  BY <1>8, <1>9, <1>10, <1>13
<1>15. N <= e + WindowSize
  BY <1>6, <1>9, UmSizes
<1>16. RxWindow(s, N, e)
  <2>1. /\ IsReceiver(s) /\ N \in Nat /\ e \in Nat /\ e <= N /\ N <= e + WindowSize
        /\ s.vrUh = SnOf(N) /\ s.vrUr = SnOf(e) /\ s.vrUx \in Sn
        /\ Between(s.rxBuffer, e + 1, N) /\ \A p \in s.rxBuffer : IsRxPdu(p)
    BY <1>6, <1>9, <1>10, <1>12, <1>14, <1>15
  <2>2. s.reorderingTimer \in BOOLEAN
    BY <1>10, <1>11, Zenon
  <2>3. e < N => s.reorderingTimer
    BY <1>8, <1>10, Zenon
  <2>4. s.reorderingTimer => \E x \in Nat : e < x /\ x <= N /\ s.vrUx = SnOf(x)
    BY <1>9, <1>10, <1>14
  <2>5. QED
    BY <2>1, <2>2, <2>3, <2>4, Zenon DEF RxWindow
<1>17. RxInv(s, peerRlcEntityId) /\ AgeInv(s, peerRlcEntityId)
  <2>1. \A p \in s.rxBuffer : p \in rx.rxBuffer
    BY <1>6, <1>10
  <2>2. QED
    BY <1>5, <1>6, <1>10, <1>16, <2>1 DEF WindowInv, RxInv, AgeInv
<1>18. PICK c : c = s
  OBVIOUS
<1>a. rx' = c
  BY <1>2, <1>3, <1>7, <1>18 DEF s
<1>19. peerRlcEntityId # 0
  <2>1. SUFFICES ASSUME peerRlcEntityId = 0 PROVE FALSE
    OBVIOUS
  <2>2. rx = InitialRx
    BY <2>1 DEF WindowInv
  <2>3. rx.newest = 0
    BY <2>2 DEF InitialRx
  <2>4. QED
    BY <1>5, <1>6, <2>3
<1>20. TxInv' /\ AgeInv(c, peerRlcEntityId)'
  <2>1. pdus' \subseteq pdus
    BY <1>1
  <2>2. TxInv'
    BY <1>1, <2>1, FewerPdus DEF WindowInv
  <2>3. AgeInv(c, peerRlcEntityId)
    BY <1>17, <1>18
  <2>4. AgeInv(c, peerRlcEntityId)'
    BY <1>1, <2>3 DEF AgeInv
  <2>5. QED
    BY <2>2, <2>4
<1>21. RxInv(rx, peerRlcEntityId)'
  <2>1. RxInv(c, peerRlcEntityId)
    BY <1>17, <1>18
  <2>2. QED
    BY <1>1, <1>a, <2>1 DEF RxInv, RxWindow, IsReceiver
<1>22. AgeInv(rx, peerRlcEntityId)'
  BY <1>a, <1>20 DEF AgeInv
<1>23. peerRlcEntityId' \in Nat /\ peerRlcEntityId' <= rlcEntityId' /\ peerRlcEntityId' # 0
  BY <1>1, <1>19 DEF WindowInv
<1>24. QED
  BY <1>20, <1>21, <1>22, <1>23 DEF WindowInv

\* Looking at t-Reordering changes nothing but the timer and VR(UX).
LEMMA TimerKeeps ==
    ASSUME NEW r, IsReceiver(r)
    PROVE  LET s == UpdateReorderingTimer(r)
           IN /\ s.rxBuffer = r.rxBuffer /\ s.vrUr = r.vrUr /\ s.vrUh = r.vrUh
              /\ s.maxRxSenderTimestamp = r.maxRxSenderTimestamp /\ s.keepS0 = r.keepS0
              /\ s.expectedSeqNumber = r.expectedSeqNumber
              /\ s.newest = r.newest /\ s.arrived = r.arrived
<1> DEFINE s == UpdateReorderingTimer(r)
<1>1. CASE s = r
  BY <1>1, Zenon
<1>2. CASE s = [r EXCEPT !.reorderingTimer = TRUE, !.vrUx = r.vrUh]
  BY <1>2 DEF IsReceiver, RxFields
<1>3. CASE s = [r EXCEPT !.reorderingTimer = FALSE]
  BY <1>3 DEF IsReceiver, RxFields
<1>4. QED
  BY <1>1, <1>2, <1>3, Zenon DEF UpdateReorderingTimer

\* The receiver once it noted the time of the PDU.
Heard(r, m) == [r EXCEPT !.maxRxSenderTimestamp = Later(@, m.time)]

LEMMA HeardIs ==
    ASSUME NEW r, NEW m, IsReceiver(r)
    PROVE  LET s == Heard(r, m)
           IN /\ IsReceiver(s)
              /\ s.maxRxSenderTimestamp = Later(r.maxRxSenderTimestamp, m.time)
              /\ s.rxBuffer = r.rxBuffer /\ s.vrUr = r.vrUr /\ s.vrUh = r.vrUh
              /\ s.vrUx = r.vrUx /\ s.reorderingTimer = r.reorderingTimer
              /\ s.keepS0 = r.keepS0 /\ s.expectedSeqNumber = r.expectedSeqNumber
              /\ s.newest = r.newest /\ s.arrived = r.arrived
<1> DEFINE s == Heard(r, m)
<1>1. IsReceiver(s)
  BY DEF IsReceiver, Heard
<1>2. /\ s.maxRxSenderTimestamp = Later(r.maxRxSenderTimestamp, m.time)
      /\ s.rxBuffer = r.rxBuffer /\ s.vrUr = r.vrUr /\ s.vrUh = r.vrUh
      /\ s.vrUx = r.vrUx /\ s.reorderingTimer = r.reorderingTimer
      /\ s.keepS0 = r.keepS0 /\ s.expectedSeqNumber = r.expectedSeqNumber
      /\ s.newest = r.newest /\ s.arrived = r.arrived
  BY DEF IsReceiver, Heard, RxFields
<1>3. QED
  BY <1>1, <1>2

\* The window is where it was.
LEMMA HeardWindow ==
    ASSUME NEW r, NEW m, NEW N, NEW u, RxWindow(r, N, u)
    PROVE  RxWindow(Heard(r, m), N, u)
<1> DEFINE s == Heard(r, m)
<1>1. IsReceiver(r)
  BY DEF RxWindow
<1>2. /\ IsReceiver(s)
      /\ s.rxBuffer = r.rxBuffer /\ s.vrUr = r.vrUr /\ s.vrUh = r.vrUh
      /\ s.vrUx = r.vrUx /\ s.reorderingTimer = r.reorderingTimer
  BY <1>1, HeardIs
<1> HIDE DEF s
<1>3. RxWindow(s, N, u)
  BY <1>2, Zenon DEF RxWindow
<1>4. QED
  BY <1>3 DEF s

\* What a PDU of the buffer was before the placement.
LEMMA MarkedOrigin ==
    ASSUME NEW r, NEW N, NEW u, NEW m, RxWindow(r, N, u), Placeable(r, N, u, m)
    PROVE  \A p \in Marked(r, m) :
              \/ p \in r.rxBuffer
              \/ p.id = m.id /\ p.n = m.n /\ p.data = m.data
<1>1. CASE Early(r, m) = {}
  <2>1. Marked(r, m) = r.rxBuffer \cup {Arrival(m)}
    BY <1>1, MarkedIs DEF Placed
  <2>2. Arrival(m).id = m.id /\ Arrival(m).n = m.n /\ Arrival(m).data = m.data
    BY DEF Arrival
  <2>3. QED
    BY <2>1, <2>2
<1>2. CASE Early(r, m) # {}
  <2> DEFINE t == [Arrival(m) EXCEPT !.tombstone = TRUE]
  <2>1. Marked(r, m) = {t}
    BY <1>2, MarkedIs
  <2>2. t.id = m.id /\ t.n = m.n /\ t.data = m.data
    BY DEF Arrival
  <2> HIDE DEF t
  <2>3. QED
    BY <2>1, <2>2
<1>3. QED
  BY <1>1, <1>2

\* The receiver that has noted the time of a PDU it discards.
LEMMA HeardInv ==
    ASSUME TxInv, NEW r, NEW m \in pdus, RxInv(r, m.id), AgeInv(r, m.id),
           r.newest # 0 => m.n < r.newest
    PROVE  RxInv(Heard(r, m), m.id) /\ AgeInv(Heard(r, m), m.id)
<1>1. PICK u \in Nat : RxWindow(r, r.newest, u)
  BY DEF RxInv
<1>2. IsReceiver(r)
  BY <1>1 DEF RxWindow
<1> DEFINE s == Heard(r, m)
<1>3. /\ s.newest = r.newest /\ s.rxBuffer = r.rxBuffer
      /\ s.maxRxSenderTimestamp = Later(r.maxRxSenderTimestamp, m.time)
  BY <1>2, HeardIs
<1>4. RxWindow(s, r.newest, u)
  BY <1>1, HeardWindow
<1> HIDE DEF s
<1>5. /\ r.newest \in Nat /\ r.maxRxSenderTimestamp \in Nat /\ m.time \in Nat /\ m.n \in Nat
      /\ \A p \in r.rxBuffer : p.id = m.id
  BY DEF RxInv, TxInv
<1>6. /\ Later(r.maxRxSenderTimestamp, m.time) \in Nat
      /\ r.maxRxSenderTimestamp <= Later(r.maxRxSenderTimestamp, m.time)
      /\ Later(r.maxRxSenderTimestamp, m.time) \in {r.maxRxSenderTimestamp, m.time}
  BY <1>5 DEF Later
<1>7. RxInv(s, m.id)
  BY <1>1, <1>3, <1>4, <1>5, <1>6 DEF RxInv
<1>8. AgeInv(s, m.id)
  <2> DEFINE T == Later(r.maxRxSenderTimestamp, m.time)
  <2>1. m.id = rlcEntityId => r.newest <= sent /\ r.maxRxSenderTimestamp <= clock /\ m.time <= clock
    BY DEF AgeInv, TxInv
  <2>2. ASSUME r.newest # 0
        PROVE  r.newest <= T + MaxPerInstant
    <3>1. r.newest <= r.maxRxSenderTimestamp + MaxPerInstant
      BY <2>2 DEF AgeInv
    <3>2. QED
      BY <1>5, <1>6, <3>1, UmSizes
  <2>3. ASSUME r.newest # 0, NEW q \in pdus, q.id = m.id
        PROVE  r.newest <= q.n + MaxLag /\ (r.newest <= q.n => T <= q.time)
    <3>1. /\ r.newest <= q.n + MaxLag /\ (r.newest <= q.n => r.maxRxSenderTimestamp <= q.time)
      BY <2>3 DEF AgeInv
    <3>2. q.n \in Nat /\ q.time \in Nat /\ (m.n <= q.n => m.time <= q.time)
      BY <2>3 DEF TxInv
    <3>3. r.newest <= q.n => m.n <= q.n
      BY <1>5, <2>3, <3>2
    <3>4. QED
      BY <1>6, <3>1, <3>2, <3>3
  <2> HIDE DEF T
  <2>4. m.id = rlcEntityId => r.newest <= sent /\ T <= clock
    BY <1>6, <2>1 DEF T
  <2>5. s.newest = r.newest /\ s.maxRxSenderTimestamp = T
    BY <1>3 DEF T
  <2>6. QED
    BY <2>2, <2>3, <2>4, <2>5 DEF AgeInv
<1>9. QED
  BY <1>7, <1>8 DEF s

\* The receiver that has placed the PDU.
LEMMA PlacedInv ==
    ASSUME TxInv, NEW r, NEW m \in pdus, RxInv(r, m.id), AgeInv(r, m.id),
           r.newest # 0 => m.n < r.newest + SNMod - WindowSize,
           ~ IsDelayed(r, m), ~ IsDiscarded(r, m)
    PROVE  LET s == UpdateReorderingTimer(PlacedRx(Heard(r, m), m))
           IN RxInv(s, m.id) /\ AgeInv(s, m.id)
<1>1. PICK N \in Nat, u \in Nat :
         /\ RxWindow(r, N, u) /\ Placeable(r, N, u, m)
         /\ NewN(N, m) = Later(r.newest, m.n + 1)
         /\ r.newest # 0 => N = r.newest
         /\ r.newest = 0 => /\ r.rxBuffer = {} /\ N <= m.n
                            /\ r.maxRxSenderTimestamp <= m.time
  BY PlacedOnly
<1> DEFINE h == Heard(r, m)
           t == PlacedRx(h, m)
           s == UpdateReorderingTimer(t)
           T == Later(r.maxRxSenderTimestamp, m.time)
           M == Later(r.newest, m.n + 1)
<1>2. IsReceiver(r)
  BY <1>1 DEF RxWindow
<1>3. /\ IsReceiver(h) /\ h.newest = r.newest /\ h.rxBuffer = r.rxBuffer
      /\ h.maxRxSenderTimestamp = T
  BY <1>2, HeardIs
<1>4. RxWindow(h, N, u) /\ Placeable(h, N, u, m)
  BY <1>1, <1>3, HeardWindow DEF Placeable
<1> HIDE DEF h
<1>5. IsReceiver(t) /\ t.newest = M /\ t.maxRxSenderTimestamp = T
  BY <1>3, PlacedRxIs
<1>6. PICK e \in Nat : /\ t.rxBuffer = {p \in Rest(h, m) : e < p.n}
                       /\ RxWindow(s, NewN(N, m), e)
  BY <1>4, PlaceWindow
<1> HIDE DEF t
<1>7. s.newest = M /\ s.maxRxSenderTimestamp = T /\ s.rxBuffer = t.rxBuffer
  BY <1>5, TimerKeeps
<1>8. \A p \in t.rxBuffer : p.id = m.id
  <2>1. \A p \in t.rxBuffer : p \in Marked(h, m)
    BY <1>6 DEF Rest
  <2>2. \A p \in r.rxBuffer : p.id = m.id
    BY DEF RxInv
  <2>3. QED
    BY <1>3, <1>4, <2>1, <2>2, MarkedOrigin
<1> HIDE DEF s
<1>9. /\ r.newest \in Nat /\ r.maxRxSenderTimestamp \in Nat /\ m.time \in Nat /\ m.n \in Nat
      /\ m.n < m.time + MaxPerInstant
  BY DEF RxInv, TxInv
<1>10. /\ T \in Nat /\ r.maxRxSenderTimestamp <= T /\ m.time <= T
       /\ T \in {r.maxRxSenderTimestamp, m.time}
       /\ M \in Nat /\ r.newest <= M /\ m.n < M /\ M \in {r.newest, m.n + 1}
       /\ (r.newest = 0 => M = m.n + 1 /\ T = m.time)
  BY <1>1, <1>9 DEF Later
<1> HIDE DEF T, M
<1>11. RxInv(s, m.id)
  <2>1. RxWindow(s, M, e)
    BY <1>1, <1>6 DEF M
  <2>2. QED
    BY <1>7, <1>8, <1>10, <2>1 DEF RxInv
<1>12. AgeInv(s, m.id)
  <2>1. ASSUME m.id = rlcEntityId PROVE M <= sent /\ T <= clock
    <3>1. /\ r.newest <= sent /\ r.maxRxSenderTimestamp <= clock
          /\ m.time <= clock /\ m.n < sent /\ sent \in Nat
      BY <2>1 DEF AgeInv, TxInv
    <3>2. QED
      BY <1>9, <1>10, <3>1
  <2>2. M <= T + MaxPerInstant
    <3>1. r.newest # 0 => r.newest <= r.maxRxSenderTimestamp + MaxPerInstant
      BY DEF AgeInv
    <3>2. QED
      BY <1>9, <1>10, <3>1, UmSizes
  <2>3. ASSUME NEW q \in pdus, q.id = m.id
        PROVE  M <= q.n + MaxLag /\ (M <= q.n => T <= q.time)
    <3>1. r.newest # 0 => /\ r.newest <= q.n + MaxLag
                          /\ r.newest <= q.n => r.maxRxSenderTimestamp <= q.time
      BY <2>3 DEF AgeInv
    <3>2. /\ q.n \in Nat /\ q.time \in Nat /\ m.n < q.n + MaxLag
          /\ (m.n <= q.n => m.time <= q.time)
      BY <2>3 DEF TxInv
    <3>3. M <= q.n + MaxLag
      BY <1>9, <1>10, <3>1, <3>2, UmSizes
    <3>4. ASSUME M <= q.n PROVE T <= q.time
      <4>1. m.time <= q.time /\ (r.newest # 0 => r.maxRxSenderTimestamp <= q.time)
        BY <1>9, <1>10, <3>1, <3>2, <3>4
      <4>2. QED
        BY <1>9, <1>10, <4>1
    <3>5. QED
      BY <3>3, <3>4
  <2>4. QED
    BY <1>7, <2>1, <2>2, <2>3 DEF AgeInv
<1>13. QED
  BY <1>11, <1>12 DEF s, t, h

\* What a PDU does to the receiver.
LEMMA ReceivePduIs ==
    ASSUME NEW m, ReceivePdu(m)
    PROVE  \/ UNCHANGED rxVars
           \/ /\ AcceptPduFromPeerEntity(m) /\ receivers' = receivers
              /\ peerRlcEntityId' = Later(peerRlcEntityId, m.id)
              /\ \/ rx' = Met(m) /\ delivered' = delivered
                 \/ /\ ~ IsDelayed(Met(m), m) /\ IsDiscarded(Met(m), m)
                    /\ rx' = Heard(Met(m), m) /\ delivered' = delivered
                 \/ /\ ~ IsDelayed(Met(m), m) /\ ~ IsDiscarded(Met(m), m)
                    /\ rx' = UpdateReorderingTimer(PlacedRx(Heard(Met(m), m), m))
                    /\ delivered' = Given(Heard(Met(m), m), m).out
<1>1. CASE ~ AcceptPduFromPeerEntity(m)
  BY <1>1 DEF ReceivePdu
<1>2. CASE AcceptPduFromPeerEntity(m)
  <2>1. /\ receivers' = receivers /\ peerRlcEntityId' = Later(peerRlcEntityId, m.id)
        /\ IF IsDelayed(Met(m), m) THEN rx' = Met(m) /\ UNCHANGED delivered
           ELSE IF IsDiscarded(Met(m), m) THEN rx' = Heard(Met(m), m) /\ UNCHANGED delivered
           ELSE PlacePdu(Heard(Met(m), m), m)
    BY <1>2, Zenon DEF ReceivePdu, Heard
  <2>2. CASE IsDelayed(Met(m), m)
    BY <1>2, <2>1, <2>2, Zenon
  <2>3. CASE ~ IsDelayed(Met(m), m) /\ IsDiscarded(Met(m), m)
    BY <1>2, <2>1, <2>3, Zenon
  <2>4. CASE ~ IsDelayed(Met(m), m) /\ ~ IsDiscarded(Met(m), m)
    <3>1. PlacePdu(Heard(Met(m), m), m)
      BY <2>1, <2>4, Zenon
    <3>2. /\ rx' = UpdateReorderingTimer(PlacedRx(Heard(Met(m), m), m))
          /\ delivered' = Given(Heard(Met(m), m), m).out
      BY <3>1, PlacePduIs
    <3>3. QED
      BY <1>2, <2>1, <2>4, <3>2, Zenon
  <2>5. QED
    BY <2>2, <2>3, <2>4
<1>3. QED
  BY <1>1, <1>2

\* The receiver after a PDU of the transmitter it listens to.
LEMMA ReceivedInv ==
    ASSUME WindowInv, NEW m \in pdus, DeliverPdu(m)
    PROVE  \/ UNCHANGED rxVars
           \/ /\ AcceptPduFromPeerEntity(m)
              /\ peerRlcEntityId' = m.id
              /\ \E c : rx' = c /\ RxInv(c, m.id) /\ AgeInv(c, m.id)
<1>1. ReceivePdu(m) /\ (Met(m).newest # 0 => m.n < Met(m).newest + SNMod - WindowSize)
  BY DEF DeliverPdu
<1>2. CASE UNCHANGED rxVars
  BY <1>2
<1>3. CASE ~ UNCHANGED rxVars
  <2>1. AcceptPduFromPeerEntity(m) /\ peerRlcEntityId' = Later(peerRlcEntityId, m.id)
    BY <1>1, <1>3, ReceivePduIs
  <2>2. /\ RxInv(Met(m), m.id) /\ AgeInv(Met(m), m.id)
        /\ Later(peerRlcEntityId, m.id) = m.id
    BY <2>1, MetIs
  <2>3. PICK r : r = Met(m)
    OBVIOUS
  <2>4. TxInv /\ r.newest \in Nat /\ m.n \in Nat
    BY <2>2, <2>3 DEF WindowInv, RxInv, TxInv
  <2>5. CASE rx' = r
    BY <2>1, <2>2, <2>3, <2>5
  <2>6. CASE ~ IsDelayed(r, m) /\ IsDiscarded(r, m) /\ rx' = Heard(r, m)
    <3>1. PICK u \in Nat : RxWindow(r, r.newest, u)
      BY <2>2, <2>3 DEF RxInv
    <3>2. r.newest # 0 => m.n < r.newest
      <4>1. SUFFICES ASSUME r.newest # 0 PROVE m.n < r.newest
        OBVIOUS
      <4>2. r.maxRxSenderTimestamp \in Nat /\ m.n < r.newest + SNMod - WindowSize
        BY <1>1, <2>2, <2>3, <4>1 DEF RxInv
      <4>3. ~ Placeable(r, r.newest, u, m)
        BY <2>2, <2>3, <2>4, <2>6, <3>1, <4>1, <4>2, WindowTells
      <4>4. /\ m.sn = SnOf(m.n) /\ m.n + WindowSize < r.newest + SNMod
            /\ \A p \in r.rxBuffer : p.n < r.newest
        BY <2>4, <3>1, <4>2, UmSizes DEF TxInv, RxWindow, Between
      <4>5. ~ (u <= m.n) \/ \E p \in r.rxBuffer : p.n = m.n
        BY <2>4, <4>3, <4>4 DEF Placeable
      <4>6. u <= r.newest
        BY <3>1 DEF RxWindow
      <4>7. QED
        BY <2>4, <4>4, <4>5, <4>6
    <3>3. RxInv(Heard(r, m), m.id) /\ AgeInv(Heard(r, m), m.id)
      BY <2>2, <2>3, <2>4, <3>2, HeardInv
    <3>4. QED
      BY <2>1, <2>2, <2>6, <3>3
  <2>7. CASE /\ ~ IsDelayed(r, m) /\ ~ IsDiscarded(r, m)
             /\ rx' = UpdateReorderingTimer(PlacedRx(Heard(r, m), m))
    <3> DEFINE s == UpdateReorderingTimer(PlacedRx(Heard(r, m), m))
    <3>1. RxInv(s, m.id) /\ AgeInv(s, m.id)
      BY <1>1, <2>2, <2>3, <2>4, <2>7, PlacedInv
    <3>2. rx' = s
      BY <2>7
    <3> HIDE DEF s
    <3>3. QED
      BY <2>1, <2>2, <3>1, <3>2
  <2>8. QED
    BY <1>1, <1>3, <2>3, <2>5, <2>6, <2>7, ReceivePduIs
<1>4. QED
  BY <1>2, <1>3

\* A PDU arrives.
LEMMA WindowDeliverPdu ==
    ASSUME WindowInv, NEW m \in pdus, DeliverPdu(m)
    PROVE  WindowInv'
<1>1. /\ UNCHANGED <<rlcEntityId, sequenceNumber, clock, sent>>
      /\ pdus' \subseteq pdus
  BY DEF DeliverPdu, txVars
<1>2. TxInv' /\ \A r, id : AgeInv(r, id) => AgeInv(r, id)'
  BY <1>1, FewerPdus DEF WindowInv
<1>3. CASE UNCHANGED rxVars
  BY <1>1, <1>3, WindowOtherSteps DEF rxVars
<1>4. CASE ~ UNCHANGED rxVars
  <2>1. /\ peerRlcEntityId' = m.id
        /\ \E c : rx' = c /\ RxInv(c, m.id) /\ AgeInv(c, m.id)
    BY <1>4, ReceivedInv
  <2>2. PICK c : rx' = c /\ RxInv(c, m.id) /\ AgeInv(c, m.id)
    BY <2>1
  <2>3. m.id \in Nat \ {0} /\ m.id <= rlcEntityId
    BY DEF WindowInv, TxInv
  <2>4. AgeInv(rx, peerRlcEntityId)'
    <3>1. AgeInv(c, m.id)'
      BY <1>2, <2>2
    <3>2. QED
      BY <2>1, <2>2, <3>1 DEF AgeInv
  <2>5. RxInv(rx, peerRlcEntityId)'
    BY <2>1, <2>2 DEF RxInv, RxWindow, IsReceiver
  <2>6. QED
    BY <1>1, <1>2, <2>1, <2>3, <2>4, <2>5 DEF WindowInv
<1>5. QED
  BY <1>3, <1>4

\* Every step.
LEMMA WindowStep ==
    ASSUME WindowInv, [Next]_vars
    PROVE  WindowInv'
<1>1. CASE TransmitPdcpPdu
  BY <1>1, WindowOtherSteps DEF TransmitPdcpPdu, rxVars, netVars
<1>2. CASE \E bytes \in 1 .. MaxDataField : TransmitPdu(bytes)
  BY <1>2, WindowTransmitPdu
<1>3. CASE \E m \in pdus : DeliverPdu(m)
  BY <1>3, WindowDeliverPdu
<1>4. CASE Lose
  <2>1. PICK m \in pdus : pdus' = pdus \ {m}
    BY <1>4 DEF Lose
  <2>2. pdus' \subseteq pdus
    BY <2>1
  <2>3. QED
    BY <1>4, <2>2, WindowOtherSteps DEF Lose, txVars, rxVars
<1>5. CASE ExpireBsrTimer
  BY <1>5, WindowOtherSteps DEF ExpireBsrTimer, rxVars, netVars
<1>6. CASE ExpireReorderingTimer
  BY <1>6, WindowExpireReorderingTimer
<1>7. CASE RecreateTransmitter
  BY <1>7, WindowRecreateTransmitter
<1>8. CASE RecreateReceiver
  BY <1>8, WindowRecreateReceiver
<1>9. CASE UNCHANGED vars
  BY <1>9, WindowOtherSteps DEF vars, txVars, rxVars, netVars
<1>10. QED
  BY <1>1, <1>2, <1>3, <1>4, <1>5, <1>6, <1>7, <1>8, <1>9 DEF Next

\* The numbers of the transmitter, the window of the receiver, the PDUs in its
\* buffer and t-Reordering agree in every reachable state.
THEOREM WindowHolds == Spec => []WindowInv
<1>1. Init => WindowInv
  BY WindowInit
<1>2. WindowInv /\ [Next]_vars => WindowInv'
  BY WindowStep
<1>3. QED
  BY <1>1, <1>2, PTL DEF Spec

-----------------------------------------------------------------------------
(* What the window shows.                                                  *)

\* The window follows the newest PDU placed and the numbers mean what they
\* should: of the PDUs in flight that may arrive, those are placed that lie at or
\* above VR(UR) and are not buffered yet, whatever turn of the numbers they are of
\* (the tests of NrRlcUm::ReceivePdu).
THEOREM NewPdusArePlaced == Spec => []ExactlyNewPdusArePlaced
<1>1. WindowInv => ExactlyNewPdusArePlaced
  <2> SUFFICES ASSUME WindowInv PROVE ExactlyNewPdusArePlaced
    OBVIOUS
  <2>1. PICK u \in Nat : RxWindow(rx, rx.newest, u)
    BY DEF WindowInv, RxInv
  <2>2. PICK N : N = rx.newest
    OBVIOUS
  <2>3. /\ N \in Nat /\ u <= N /\ N <= u + WindowSize
        /\ rx.vrUh = SnOf(N) /\ rx.vrUr = SnOf(u)
        /\ \A p \in rx.rxBuffer : p.n \in Nat /\ p.sn = SnOf(p.n) /\ u + 1 <= p.n /\ p.n < N
    BY <2>1, <2>2 DEF RxWindow, Between
  <2>4. UrN = u
    <3>1. N < u + SNMod
      BY <2>3, UmSizes
    <3>2. Off(SnOf(N), SnOf(u)) = N - u
      BY <2>3, <3>1, OffAhead
    <3>3. N - (N - u) = u
      BY <2>3
    <3>4. QED
      BY <2>2, <2>3, <3>2, <3>3 DEF UrN
  <2>5. ASSUME NEW p \in rx.rxBuffer
        PROVE  p.id = peerRlcEntityId /\ p.sn = SnOf(p.n) /\ UrN < p.n /\ p.n < rx.newest
    <3>1. p.id = peerRlcEntityId
      BY DEF WindowInv, RxInv
    <3>2. u < p.n
      BY <2>3
    <3>3. QED
      BY <2>2, <2>3, <2>4, <3>1, <3>2
  <2>6. ASSUME NEW m \in pdus, m.id = peerRlcEntityId, rx.newest # 0,
               m.n < rx.newest + SNMod - WindowSize
        PROVE  ~ IsDelayed(rx, m) /\ ~ IsDiscarded(rx, m)
                  <=> UrN <= m.n /\ \A p \in rx.rxBuffer : p.n # m.n
    <3>1. TxInv /\ AgeInv(rx, m.id) /\ rx.maxRxSenderTimestamp \in Nat
      BY <2>6 DEF WindowInv, RxInv
    <3>2. ~ IsDelayed(rx, m) /\ ~ IsDiscarded(rx, m) <=> Placeable(rx, rx.newest, u, m)
      BY <2>1, <2>6, <3>1, WindowTells
    <3>3. m.n \in Nat /\ m.sn = SnOf(m.n) /\ m.n + WindowSize < rx.newest + SNMod
      BY <2>2, <2>3, <2>6, <3>1, UmSizes DEF TxInv
    <3>4. QED
      BY <2>4, <3>2, <3>3 DEF Placeable
  <2>7. QED
    BY <2>2, <2>3, <2>5, <2>6 DEF ExactlyNewPdusArePlaced
<1>2. QED
  BY <1>1, WindowHolds, PTL

\* While a gap is open t-Reordering runs, so that it does not stay open: after
\* a placement, an expiry and a re-establishment (nr-rlc-um.cc).
THEOREM GapsAreTimed == Spec => []GapKeepsReorderingTimer
<1>1. WindowInv => GapKeepsReorderingTimer
  <2> SUFFICES ASSUME WindowInv, rx.vrUr # rx.vrUh PROVE rx.reorderingTimer
    BY DEF GapKeepsReorderingTimer
  <2>1. PICK u \in Nat : RxWindow(rx, rx.newest, u)
    BY DEF WindowInv, RxInv
  <2>2. /\ rx.newest \in Nat /\ u <= rx.newest
        /\ rx.vrUh = SnOf(rx.newest) /\ rx.vrUr = SnOf(u)
        /\ u < rx.newest => rx.reorderingTimer
    BY <2>1 DEF RxWindow
  <2>3. u # rx.newest
    BY <2>2
  <2>4. u < rx.newest
    BY <2>2, <2>3
  <2>5. QED
    BY <2>2, <2>4
<1>2. QED
  BY <1>1, WindowHolds, PTL

\* New data never stops the periodic report of the buffer (the comment in
\* NrRlcUm::DoTransmitPdcpPdu), and neither does anything else while data waits.
THEOREM NewDataKeepsBsrTimer == Spec => ReportGoesOn
<1>1. ASSUME [Next]_vars, bsrTimer, txBuffer' # <<>>
      PROVE  bsrTimer'
  <2>1. CASE TransmitPdcpPdu
    BY <1>1, <2>1 DEF TransmitPdcpPdu
  <2>2. ASSUME NEW bytes \in 1 .. MaxDataField, TransmitPdu(bytes) PROVE bsrTimer'
    <3>1. bsrTimer' = (txBuffer' # <<>>)
      BY <2>2 DEF TransmitPdu
    <3>2. QED
      BY <1>1, <3>1
  <2>3. CASE \E m \in pdus : DeliverPdu(m)
    BY <1>1, <2>3 DEF DeliverPdu, txVars
  <2>4. CASE Lose
    BY <1>1, <2>4 DEF Lose, txVars
  <2>5. CASE ExpireBsrTimer
    <3>1. bsrTimer' = (txBuffer # <<>>) /\ txBuffer' = txBuffer
      BY <2>5 DEF ExpireBsrTimer
    <3>2. QED
      BY <1>1, <3>1
  <2>6. CASE ExpireReorderingTimer
    BY <1>1, <2>6 DEF ExpireReorderingTimer, txVars
  <2>7. CASE RecreateTransmitter
    BY <1>1, <2>7 DEF RecreateTransmitter
  <2>8. CASE RecreateReceiver
    BY <1>1, <2>8 DEF RecreateReceiver, txVars
  <2>9. CASE UNCHANGED vars
    BY <1>1, <2>9 DEF vars, txVars
  <2>10. QED
    BY <1>1, <2>1, <2>2, <2>3, <2>4, <2>5, <2>6, <2>7, <2>8, <2>9 DEF Next
<1>2. QED
  BY <1>1, PTL DEF Spec, ReportGoesOn

-----------------------------------------------------------------------------
(* The data.  What the n-th PDU of transmitter a carried when it was built *)
(* is pl[a][n], and every copy of the PDU carries it.                      *)

\* SDUs are not empty.
LEMMA UmSdus == SduLens
  BY UmAssumption DEF SduLens

\* The byte b comes before the byte c in the order of submission.
Before(b, c) == b[1] < c[1] \/ (b[1] = c[1] /\ b[2] < c[2])

\* The PDUs of each transmitter carry one stream, cut into pieces; a later
\* transmitter carries later SDUs.
Line(pl) ==
    /\ \A a, n \in Nat : IsStream(pl[a][n])
    /\ \A a, n \in Nat : pl[a][n] # <<>> /\ pl[a][n + 1] # <<>> =>
          pl[a][n + 1][1] = After(pl[a][n][Len(pl[a][n])])
    /\ \A a, n, k \in Nat : n < k =>
          \A b \in ToSet(pl[a][n]), c \in ToSet(pl[a][k]) : Before(b, c)
    /\ \A a, c, n, k \in Nat : a < c =>
          \A b \in ToSet(pl[a][n]), d \in ToSet(pl[c][k]) : b[1] < d[1]

\* The last byte of an SDU.
SduEnd(i) == <<i, SduLen[i]>>

\* The end of SDU i came with one of the PDUs D of transmitter id, or from a
\* transmitter before it.
Ended(pl, id, D, i) ==
    \/ \E a, n \in Nat : a < id /\ SduEnd(i) \in ToSet(pl[a][n])
    \/ \E n \in D : n \in Nat /\ SduEnd(i) \in ToSet(pl[id][n])

\* The SDUs of out are whole, each is there once, in order of submission unless
\* delivery is out of order, and their ends are among the PDUs D of transmitter id.
Correct(pl, id, D, out) ==
    /\ out \in Seq(Seq(Byte))
    /\ \E sdu \in [1 .. Len(out) -> 1 .. Len(SduLen)] :
          /\ \A j \in 1 .. Len(out) : out[j] = Sdu(sdu[j]) /\ Ended(pl, id, D, sdu[j])
          /\ \A j, k \in 1 .. Len(out) :
                j < k => (sdu[j] # sdu[k] /\ (outOfOrderDelivery \/ sdu[j] < sdu[k]))

\* The segment held is the beginning of an SDU, from PDU e - 1 on back, and the SN
\* expected is that of PDU e.
HoldsPiece(pl, id, keep, expected, e) ==
    /\ e \in Nat \ {0} /\ expected = SnOf(e)
    /\ pl[id][e - 1] # <<>>
    /\ LET b == pl[id][e - 1][Len(pl[id][e - 1])]
       IN b[2] < SduLen[b[1]] /\ keep = Piece(b[1], 1, b[2])

\* The SDU i is among those delivered.
Out(out, i) == \E j \in 1 .. Len(out) : out[j] = Sdu(i)

\* More PDUs end more SDUs.
LEMMA CorrectMore ==
    ASSUME NEW pl, NEW id \in Nat, NEW D, NEW E, D \subseteq E, NEW out, Correct(pl, id, D, out)
    PROVE  Correct(pl, id, E, out)
<1>1. \A i : Ended(pl, id, D, i) => Ended(pl, id, E, i)
  BY DEF Ended
<1>2. QED
  BY <1>1 DEF Correct

\* A later transmitter begins with what was delivered before.
LEMMA CorrectLater ==
    ASSUME NEW pl, NEW id \in Nat, NEW D, NEW id2 \in Nat, id < id2, NEW out,
           Correct(pl, id, D, out)
    PROVE  Correct(pl, id2, {}, out)
<1>1. ASSUME NEW i, Ended(pl, id, D, i) PROVE Ended(pl, id2, {}, i)
  <2>1. CASE \E a, n \in Nat : a < id /\ SduEnd(i) \in ToSet(pl[a][n])
    <3>1. PICK a \in Nat, n \in Nat : a < id /\ SduEnd(i) \in ToSet(pl[a][n])
      BY <2>1
    <3>2. a < id2
      BY <3>1
    <3>3. QED
      BY <3>1, <3>2 DEF Ended
  <2>2. CASE \E n \in D : n \in Nat /\ SduEnd(i) \in ToSet(pl[id][n])
    BY <2>2 DEF Ended
  <2>3. QED
    BY <1>1, <2>1, <2>2 DEF Ended
<1>2. QED
  BY <1>1 DEF Correct

\* The SDUs that come out of a PDU end in it.
LEMMA OutEnds ==
    ASSUME NEW st, NEW p, IsStream(p.data), p.data # <<>>,
           NEW i \in FirstOut(st, p) .. LastOut(p)
    PROVE  i \in 1 .. Len(SduLen) /\ SduEnd(i) \in ToSet(p.data)
<1> DEFINE d == p.data
<1>1. /\ First(d) \in 1 .. Len(SduLen) /\ Final(d) \in 1 .. Len(SduLen) /\ First(d) <= Final(d)
  <2>1. Len(d) \in Nat /\ Len(d) # 0
    BY UmSdus, StreamBytes, EmptySeq
  <2>2. 1 \in 1 .. Len(d) /\ Len(d) \in 1 .. Len(d)
    BY <2>1
  <2>3. d[1][1] \in 1 .. Len(SduLen) /\ d[Len(d)][1] \in 1 .. Len(SduLen)
    BY <2>2, UmSdus, StreamBytes
  <2>4. d[1][1] <= d[Len(d)][1]
    <3>1. d[1][1] < d[Len(d)][1] \/ d[1][1] = d[Len(d)][1]
      BY <2>2, UmSdus, StreamOrder
    <3>2. QED
      BY <2>3, <3>1
  <2>5. QED
    BY <2>3, <2>4 DEF First, Final
<1>2. i \in First(d) .. Final(d)
  <2>1. First(d) <= FirstOut(st, p) /\ LastOut(p) <= Final(d) /\ FirstOut(st, p) \in Int
        /\ LastOut(p) \in Int
    BY <1>1 DEF FirstOut, LastOut
  <2>2. QED
    BY <1>1, <2>1
<1>3. ToByte(d, i) = SduLen[i]
  <2>1. CASE i = Final(d)
    <3>1. Complete(d)
      BY <1>1, <2>1 DEF LastOut
    <3>2. QED
      BY <2>1, <3>1 DEF ToByte, Complete
  <2>2. CASE i # Final(d)
    BY <2>2 DEF ToByte
  <2>3. QED
    BY <2>1, <2>2
<1>4. PICK lo \in 1 .. Len(d), hi \in 1 .. Len(d) : d[hi] = <<i, ToByte(d, i)>>
  BY <1>2, UmSdus, StreamPlaces
<1>5. SduEnd(i) \in ToSet(d)
  <2>1. DOMAIN d = 1 .. Len(d)
    BY UmSdus, StreamBytes
  <2>2. QED
    BY <1>3, <1>4, <2>1 DEF SduEnd, ToSet
<1>6. QED
  BY <1>1, <1>2, <1>5

\* An SDU that lies whole in a PDU comes out of it.
LEMMA WholeComesOut ==
    ASSUME NEW st, NEW p, IsStream(p.data), p.data # <<>>, NEW i \in Whole(p.data)
    PROVE  i \in FirstOut(st, p) .. LastOut(p)
<1> DEFINE d == p.data
<1>1. i \in 1 .. Len(SduLen) /\ SduLen[i] \in Nat \ {0}
  <2>1. i \in DOMAIN SduLen
    BY DEF Whole
  <2>2. DOMAIN SduLen = 1 .. Len(SduLen)
    BY UmAssumption, LenProperties
  <2>3. QED
    BY <2>1, <2>2, UmAssumption, ElementOfSeq
<1>2. /\ DOMAIN d = 1 .. Len(d) /\ Len(d) \in Nat
  BY UmSdus, StreamBytes
<1>3. \A k \in 1 .. SduLen[i] : \E l \in 1 .. Len(d) : d[l] = <<i, k>>
  <2>1. SUFFICES ASSUME NEW k \in 1 .. SduLen[i] PROVE <<i, k>> \in ToSet(d)
    BY <1>2 DEF ToSet
  <2>2. DOMAIN Sdu(i) = 1 .. SduLen[i] /\ Sdu(i)[k] = <<i, k>>
    BY DEF Sdu
  <2>3. <<i, k>> \in ToSet(Sdu(i))
    BY <2>2 DEF ToSet
  <2>4. QED
    BY <2>3 DEF Whole
<1>a. 1 \in 1 .. SduLen[i] /\ SduLen[i] \in 1 .. SduLen[i]
  BY <1>1
<1>4. PICK x \in 1 .. Len(d) : d[x] = <<i, 1>>
  BY <1>3, <1>a
<1>5. PICK y \in 1 .. Len(d) : d[y] = <<i, SduLen[i]>>
  BY <1>3, <1>a
<1>6. 1 \in 1 .. Len(d) /\ Len(d) \in 1 .. Len(d)
  BY <1>2, <1>4
<1>7. /\ d[1][1] \in 1 .. Len(SduLen) /\ d[Len(d)][1] \in 1 .. Len(SduLen)
      /\ d[1][2] \in 1 .. SduLen[d[1][1]] /\ d[1][2] \in Nat
      /\ d[Len(d)][2] \in 1 .. SduLen[d[Len(d)][1]] /\ SduLen[d[Len(d)][1]] \in Nat
      /\ d[Len(d)][2] \in Nat
  BY <1>6, UmSdus, StreamBytes
<1>8. First(d) < i \/ (First(d) = i /\ d[1][2] = 1)
  <2>1. \/ d[1][1] < d[x][1]
        \/ d[1][1] = d[x][1] /\ d[x][2] = d[1][2] + (x - 1)
    BY <1>6, UmSdus, StreamOrder
  <2>2. d[x][1] = i /\ d[x][2] = 1
    BY <1>4
  <2>3. QED
    BY <1>7, <2>1, <2>2 DEF First
<1>9. i < Final(d) \/ (i = Final(d) /\ d[Len(d)][2] = SduLen[i])
  <2>1. \/ d[y][1] < d[Len(d)][1]
        \/ d[y][1] = d[Len(d)][1] /\ d[Len(d)][2] = d[y][2] + (Len(d) - y)
    BY <1>2, UmSdus, StreamOrder
  <2>2. d[y][1] = i /\ d[y][2] = SduLen[i]
    BY <1>5
  <2>3. QED
    BY <1>1, <1>2, <1>7, <2>1, <2>2, SMTT(30) DEF Final
<1>10. FirstOut(st, p) <= i /\ FirstOut(st, p) \in Int
  BY <1>1, <1>7, <1>8, SMTT(30) DEF FirstOut, First
<1>11. i <= LastOut(p) /\ LastOut(p) \in Int
  <2>1. Final(d) \in Nat
    BY <1>7 DEF Final
  <2>2. CASE i < Final(d)
    BY <1>1, <2>1, <2>2 DEF LastOut
  <2>3. CASE i = Final(d) /\ d[Len(d)][2] = SduLen[i]
    BY <1>1, <2>1, <2>3 DEF LastOut, Complete
  <2>4. QED
    BY <1>9, <2>2, <2>3
<1>12. QED
  BY <1>1, <1>10, <1>11

\* An SDU that ends in a PDU is another one than those that ended before, and a
\* later one when the PDUs went before.
LEMMA EndsOnce ==
    ASSUME NEW pl, Line(pl), NEW id \in Nat, NEW D \in SUBSET Nat, NEW n \in Nat, n \notin D,
           outOfOrderDelivery \/ \A x \in D : x < n,
           NEW i \in 1 .. Len(SduLen), Ended(pl, id, D, i),
           NEW k \in 1 .. Len(SduLen), SduEnd(k) \in ToSet(pl[id][n])
    PROVE  i # k /\ (outOfOrderDelivery \/ i < k)
<1>1. SduEnd(i)[1] = i /\ SduEnd(i)[2] = SduLen[i] /\ SduEnd(k)[1] = k /\ SduEnd(k)[2] = SduLen[k]
  BY DEF SduEnd
<1>2. i \in Nat /\ k \in Nat /\ SduLen[i] \in Nat /\ SduLen[k] \in Nat
  BY UmAssumption, ElementOfSeq, LenProperties
<1>3. ASSUME NEW a \in Nat, NEW x \in Nat, a < id, SduEnd(i) \in ToSet(pl[a][x])
      PROVE  i < k
  <2>1. \A b \in ToSet(pl[a][x]), d \in ToSet(pl[id][n]) : b[1] < d[1]
    BY <1>3 DEF Line
  <2>2. SduEnd(i)[1] < SduEnd(k)[1]
    BY <1>3, <2>1
  <2>3. QED
    BY <1>1, <2>2
<1>4. ASSUME NEW x \in D, SduEnd(i) \in ToSet(pl[id][x]), x < n
      PROVE  i < k
  <2>1. \A b \in ToSet(pl[id][x]), c \in ToSet(pl[id][n]) : Before(b, c)
    BY <1>4 DEF Line
  <2>2. Before(SduEnd(i), SduEnd(k))
    BY <1>4, <2>1
  <2>3. QED
    BY <1>1, <1>2, <2>2 DEF Before
<1>5. ASSUME NEW x \in D, SduEnd(i) \in ToSet(pl[id][x]), n < x
      PROVE  k < i
  <2>1. \A b \in ToSet(pl[id][n]), c \in ToSet(pl[id][x]) : Before(b, c)
    BY <1>5 DEF Line
  <2>2. Before(SduEnd(k), SduEnd(i))
    BY <1>5, <2>1
  <2>3. QED
    BY <1>1, <1>2, <2>2 DEF Before
<1>6. CASE \E a, x \in Nat : a < id /\ SduEnd(i) \in ToSet(pl[a][x])
  BY <1>2, <1>3, <1>6
<1>7. CASE \E x \in D : x \in Nat /\ SduEnd(i) \in ToSet(pl[id][x])
  <2>1. PICK x \in D : x \in Nat /\ SduEnd(i) \in ToSet(pl[id][x])
    BY <1>7
  <2>2. x # n
    OBVIOUS
  <2>3. CASE x < n
    BY <1>2, <1>4, <2>1, <2>3
  <2>4. CASE n < x
    <3>1. k < i
      BY <1>5, <2>1, <2>4
    <3>2. ~ (x < n)
      BY <2>1, <2>4
    <3>3. QED
      BY <1>2, <3>1, <3>2
  <2>5. QED
    BY <2>1, <2>2, <2>3, <2>4
<1>8. QED
  BY <1>6, <1>7 DEF Ended

\* The SDUs that one more PDU completes are appended.
LEMMA CorrectGrows ==
    ASSUME NEW pl, Line(pl), NEW id \in Nat, NEW D \in SUBSET Nat, NEW n \in Nat, n \notin D,
           outOfOrderDelivery \/ \A x \in D : x < n,
           NEW out, Correct(pl, id, D, out),
           NEW s \in 1 .. Len(SduLen), NEW e \in 1 .. Len(SduLen), s <= e,
           \A i \in s .. e : SduEnd(i) \in ToSet(pl[id][n])
    PROVE  /\ Correct(pl, id, D \cup {n}, out \o Sdus(s, e))
           /\ \A i : Out(out, i) => Out(out \o Sdus(s, e), i)
           /\ \A i \in s .. e : Out(out \o Sdus(s, e), i)
<1> DEFINE o == Len(out)
           c == e - s + 1
           w == out \o Sdus(s, e)
<1>1. out \in Seq(Seq(Byte)) /\ o \in Nat
  BY LenProperties DEF Correct
<1>2. /\ Len(SduLen) \in Nat /\ s \in Nat /\ e \in Nat /\ c \in Nat /\ s <= e + 1
      /\ Sdus(s, e) \in Seq(Seq(Byte)) /\ Len(Sdus(s, e)) = c
      /\ \A j \in 1 .. c : Sdus(s, e)[j] = Sdu(s + j - 1)
  <2>1. Len(SduLen) \in Nat /\ s <= e + 1 /\ s \in Nat /\ e \in Nat
    BY UmAssumption, LenProperties
  <2>2. QED
    BY <2>1, UmSdus, SdusAre
<1>3. /\ w \in Seq(Seq(Byte)) /\ Len(w) = o + c
      /\ \A j \in 1 .. o : w[j] = out[j]
      /\ \A j \in 1 .. c : w[o + j] = Sdus(s, e)[j]
  <2>1. PICK t : t = Sdus(s, e)
    OBVIOUS
  <2>2. t \in Seq(Seq(Byte)) /\ Len(t) = c /\ out \in Seq(Seq(Byte)) /\ Len(out) = o
    BY <1>1, <1>2, <2>1
  <2> HIDE DEF o, c
  <2>3. /\ out \o t \in Seq(Seq(Byte)) /\ Len(out \o t) = Len(out) + Len(t)
        /\ \A j \in 1 .. Len(out) : (out \o t)[j] = out[j]
        /\ \A j \in 1 .. Len(t) : (out \o t)[Len(out) + j] = t[j]
    <3>1. \A j \in 1 .. Len(out) + Len(t) :
             (out \o t)[j] = IF j <= Len(out) THEN out[j] ELSE t[j - Len(out)]
      BY <2>2, ConcatProperties
    <3>2. Len(out) \in Nat /\ Len(t) \in Nat
      BY <1>1, <1>2, <2>2
    <3>3. \A j \in 1 .. Len(out) : j \in 1 .. Len(out) + Len(t) /\ j <= Len(out)
      BY <3>2
    <3>4. \A j \in 1 .. Len(t) : /\ Len(out) + j \in 1 .. Len(out) + Len(t)
                                 /\ ~ (Len(out) + j <= Len(out)) /\ Len(out) + j - Len(out) = j
      BY <3>2
    <3>5. out \o t \in Seq(Seq(Byte)) /\ Len(out \o t) = Len(out) + Len(t)
      BY <2>2, ConcatProperties
    <3>6. QED
      BY <3>1, <3>3, <3>4, <3>5
  <2>4. QED
    BY <2>1, <2>2, <2>3
<1>4. PICK sdu \in [1 .. o -> 1 .. Len(SduLen)] :
         /\ \A j \in 1 .. o : out[j] = Sdu(sdu[j]) /\ Ended(pl, id, D, sdu[j])
         /\ \A j, k \in 1 .. o :
               j < k => (sdu[j] # sdu[k] /\ (outOfOrderDelivery \/ sdu[j] < sdu[k]))
  BY DEF Correct
<1> DEFINE new == [j \in 1 .. o + c |-> IF j <= o THEN sdu[j] ELSE s + (j - o) - 1]
<1>a. c = e - s + 1 /\ 1 <= s /\ e <= Len(SduLen)
  BY <1>2
<1> HIDE DEF w, o, c
<1>5. ASSUME NEW j \in 1 .. o + c, ~ (j <= o)
      PROVE  /\ j - o \in 1 .. c /\ s + (j - o) - 1 \in s .. e
             /\ s + (j - o) - 1 \in 1 .. Len(SduLen)
  BY <1>1, <1>2, <1>5, <1>a
<1>6. new \in [1 .. o + c -> 1 .. Len(SduLen)]
  <2>1. \A j \in 1 .. o + c : j <= o => j \in 1 .. o
    BY <1>1, <1>2
  <2>2. QED
    BY <1>4, <1>5, <2>1
<1>7. ASSUME NEW j \in 1 .. o + c
      PROVE  /\ j <= o => /\ j \in 1 .. o /\ new[j] = sdu[j] /\ new[j] \in 1 .. Len(SduLen)
                          /\ Ended(pl, id, D, new[j]) /\ w[j] = Sdu(new[j])
             /\ ~ (j <= o) => /\ new[j] = s + (j - o) - 1
                              /\ new[j] \in s .. e /\ new[j] \in 1 .. Len(SduLen)
                              /\ w[j] = Sdu(new[j])
  <2>1. CASE j <= o
    <3>1. j \in 1 .. o
      BY <1>1, <2>1
    <3>2. QED
      BY <1>3, <1>4, <2>1, <3>1
  <2>2. CASE ~ (j <= o)
    <3>1. o + (j - o) = j /\ j - o \in 1 .. c
      BY <1>1, <1>5, <2>2
    <3>2. w[j] = Sdus(s, e)[j - o]
      BY <1>3, <3>1
    <3>3. QED
      BY <1>2, <1>5, <2>2, <3>1, <3>2
  <2>3. QED
    BY <2>1, <2>2
<1> HIDE DEF new
<1>8. ASSUME NEW j \in 1 .. o + c PROVE w[j] = Sdu(new[j]) /\ Ended(pl, id, D \cup {n}, new[j])
  <2>1. CASE j <= o
    BY <1>7, <2>1 DEF Ended
  <2>2. CASE ~ (j <= o)
    BY <1>7, <2>2 DEF Ended
  <2>3. QED
    BY <2>1, <2>2
<1>9. ASSUME NEW j \in 1 .. o + c, NEW k \in 1 .. o + c, j < k
      PROVE  new[j] # new[k] /\ (outOfOrderDelivery \/ new[j] < new[k])
  <2>1. CASE k <= o
    <3>1. j <= o
      BY <1>1, <1>9, <2>1
    <3>2. QED
      BY <1>4, <1>7, <1>9, <2>1, <3>1
  <2>2. CASE j <= o /\ ~ (k <= o)
    <3>1. new[j] \in 1 .. Len(SduLen) /\ Ended(pl, id, D, new[j])
      BY <1>7, <2>2
    <3>2. new[k] \in 1 .. Len(SduLen) /\ SduEnd(new[k]) \in ToSet(pl[id][n])
      BY <1>7, <2>2
    <3>3. QED
      BY <3>1, <3>2, EndsOnce
  <2>3. CASE ~ (j <= o) /\ ~ (k <= o)
    <3>1. new[j] = s + (j - o) - 1 /\ new[k] = s + (k - o) - 1
      BY <1>7, <2>3
    <3>2. QED
      BY <1>1, <1>2, <1>9, <3>1
  <2>4. QED
    BY <1>1, <1>9, <2>1, <2>2, <2>3
<1>10. Correct(pl, id, D \cup {n}, w)
  BY <1>3, <1>6, <1>8, <1>9 DEF Correct
<1>11. ASSUME NEW i, Out(out, i) PROVE Out(w, i)
  <2>1. PICK j \in 1 .. o : out[j] = Sdu(i)
    BY <1>11 DEF Out, o
  <2>2. j \in 1 .. Len(w)
    BY <1>1, <1>2, <1>3
  <2>3. QED
    BY <1>3, <2>1, <2>2 DEF Out
<1>12. ASSUME NEW i \in s .. e PROVE Out(w, i)
  <2>1. i - s + 1 \in 1 .. c /\ s + (i - s + 1) - 1 = i
    BY <1>2, <1>a
  <2>2. w[o + (i - s + 1)] = Sdu(i)
    BY <1>2, <1>3, <2>1
  <2>3. o + (i - s + 1) \in 1 .. Len(w)
    <3>1. \A x \in 1 .. c : o + x \in 1 .. o + c
      BY <1>1, <1>2, SMTT(30)
    <3>2. QED
      BY <1>3, <2>1, <3>1
  <2>4. QED
    BY <2>2, <2>3 DEF Out
<1>13. QED
  BY <1>10, <1>11, <1>12 DEF w

\* A segment that a PDU takes up is the beginning of the SDU that the PDU continues.
LEMMA PieceFits ==
    ASSUME NEW pl, Line(pl), NEW id \in Nat, NEW st, NEW p, p.n \in Nat,
           p.data = pl[id][p.n], p.data # <<>>,
           st.keep \in Seq(Byte), st.out \in Seq(Seq(Byte)),
           Usable(st, p) => HoldsPiece(pl, id, st.keep, st.expected, p.n)
    PROVE  Fits(st, p)
<1> SUFFICES ASSUME Usable(st, p)
             PROVE  st.keep = Piece(First(p.data), 1, p.data[1][2] - 1)
  BY DEF Fits
<1>1. PICK x : x = p.n - 1
  OBVIOUS
<1>2. HoldsPiece(pl, id, st.keep, st.expected, p.n)
  OBVIOUS
<1>3. x \in Nat /\ x + 1 = p.n
  BY <1>1, <1>2 DEF HoldsPiece
<1> DEFINE d == pl[id][x]
           b == d[Len(d)]
<1>4. d # <<>> /\ b[2] < SduLen[b[1]] /\ st.keep = Piece(b[1], 1, b[2])
  BY <1>1, <1>2 DEF HoldsPiece
<1>5. p.data[1] = After(b)
  BY <1>3, <1>4, ZenonT(30) DEF Line
<1>6. p.data[1] = <<b[1], b[2] + 1>>
  BY <1>4, <1>5 DEF After
<1>7. b[2] \in Nat
  <2>1. IsStream(d)
    BY <1>3 DEF Line
  <2>2. Len(d) \in Nat /\ Len(d) # 0
    BY <1>4, <2>1, UmSdus, StreamBytes, EmptySeq
  <2>3. Len(d) \in 1 .. Len(d)
    BY <2>2
  <2>4. QED
    BY <2>1, <2>3, UmSdus, StreamBytes
<1>8. First(p.data) = b[1] /\ p.data[1][2] - 1 = b[2]
  BY <1>6, <1>7 DEF First
<1>9. QED
  BY <1>4, <1>8

\* One PDU that was not delivered before is reassembled.
LEMMA ReassembleKeeps ==
    ASSUME NEW pl, Line(pl), NEW id \in Nat, NEW D \in SUBSET Nat, NEW st, NEW p,
           p.n \in Nat, p.n \notin D, p.sn = SnOf(p.n), p.data = pl[id][p.n], p.data # <<>>,
           outOfOrderDelivery \/ \A x \in D : x < p.n,
           st.keep \in Seq(Byte), Correct(pl, id, D, st.out),
           Usable(st, p) => HoldsPiece(pl, id, st.keep, st.expected, p.n)
    PROVE  LET r == Reassemble(st, p)
           IN /\ r.keep \in Seq(Byte) /\ r.expected = SnOf(p.n + 1)
              /\ r.keep # <<>> => HoldsPiece(pl, id, r.keep, r.expected, p.n + 1)
              /\ Correct(pl, id, D \cup {p.n}, r.out)
              /\ \A i \in Whole(p.data) : Out(r.out, i)
              /\ \A i : Out(st.out, i) => Out(r.out, i)
<1> DEFINE r == Reassemble(st, p)
           d == p.data
           s == FirstOut(st, p)
           e == LastOut(p)
<1>1. IsStream(d) /\ d # <<>>
  BY DEF Line
<1>2. Fits(st, p)
  <2>1. st.out \in Seq(Seq(Byte))
    BY DEF Correct
  <2>2. QED
    BY <2>1, PieceFits
<1>3. /\ r.expected = Plus(p.sn, 1)
      /\ \/ s > e /\ r.out = st.out
         \/ s <= e /\ r.out = st.out \o Sdus(s, e)
      /\ \/ (s > Final(d) \/ Complete(d)) /\ r.keep = <<>>
         \/ /\ s <= Final(d) /\ ~ Complete(d)
            /\ r.keep = Piece(Final(d), 1, d[Len(d)][2])
  BY <1>1, <1>2, UmSdus, ReassembleIs
<1>4. /\ Len(d) \in 1 .. Len(d) /\ Final(d) = d[Len(d)][1]
      /\ Final(d) \in 1 .. Len(SduLen) /\ SduLen[Final(d)] \in Nat
      /\ d[Len(d)][2] \in 1 .. SduLen[Final(d)] /\ d[Len(d)][2] \in Nat
  <2>1. Len(d) \in Nat /\ Len(d) # 0
    BY <1>1, UmSdus, StreamBytes, EmptySeq
  <2>2. Len(d) \in 1 .. Len(d)
    BY <2>1
  <2>3. QED
    BY <1>1, <2>2, UmSdus, StreamBytes DEF Final
<1>5. ASSUME NEW i \in s .. e PROVE i \in 1 .. Len(SduLen) /\ SduEnd(i) \in ToSet(d)
  BY <1>1, OutEnds
<1>6. ASSUME NEW i \in Whole(d) PROVE i \in s .. e
  BY <1>1, WholeComesOut
<1>7. s \in Int /\ e \in Int
  <2>1. 1 \in 1 .. Len(d)
    BY <1>4
  <2>2. First(d) \in Nat
    BY <1>1, <2>1, UmSdus, StreamBytes DEF First
  <2>3. Final(d) \in Nat
    BY <1>4
  <2>4. QED
    BY <2>2, <2>3 DEF FirstOut, LastOut
<1> HIDE DEF r, s, e
<1>8. r.keep \in Seq(Byte) /\ r.expected = SnOf(p.n + 1)
  <2>1. r.expected = SnOf(p.n + 1)
    BY <1>3, PlusSn
  <2>2. <<>> \in Seq(Byte)
    BY EmptySeq
  <2>3. d[Len(d)][2] <= SduLen[Final(d)]
    BY <1>4
  <2>4. Piece(Final(d), 1, d[Len(d)][2]) \in Seq(Byte)
    BY <1>4, <2>3, UmSdus, FirstPiece
  <2>5. QED
    BY <1>3, <2>1, <2>2, <2>4
<1>9. ASSUME r.keep # <<>> PROVE HoldsPiece(pl, id, r.keep, r.expected, p.n + 1)
  <2>1. ~ Complete(d) /\ r.keep = Piece(Final(d), 1, d[Len(d)][2])
    BY <1>3, <1>9
  <2>2. d[Len(d)][2] < SduLen[Final(d)]
    BY <1>4, <2>1 DEF Complete
  <2>3. (p.n + 1) - 1 = p.n /\ p.n + 1 \in Nat \ {0}
    OBVIOUS
  <2>4. QED
    BY <1>1, <1>4, <1>8, <2>1, <2>2, <2>3 DEF HoldsPiece
<1>10. CASE s > e /\ r.out = st.out
  <2>1. Correct(pl, id, D \cup {p.n}, r.out)
    BY <1>10, CorrectMore
  <2>2. \A i \in Whole(d) : FALSE
    BY <1>6, <1>7, <1>10
  <2>3. QED
    BY <1>8, <1>9, <1>10, <2>1, <2>2 DEF r
<1>11. CASE s <= e /\ r.out = st.out \o Sdus(s, e)
  <2>1. s \in s .. e /\ e \in s .. e
    BY <1>7, <1>11
  <2>2. s \in 1 .. Len(SduLen) /\ e \in 1 .. Len(SduLen)
    BY <1>5, <2>1
  <2>3. \A i \in s .. e : SduEnd(i) \in ToSet(pl[id][p.n])
    BY <1>5
  <2>4. PICK n : n = p.n
    OBVIOUS
  <2>5. PICK out : out = st.out
    OBVIOUS
  <2>6. /\ Correct(pl, id, D \cup {n}, out \o Sdus(s, e))
        /\ \A i : Out(out, i) => Out(out \o Sdus(s, e), i)
        /\ \A i \in s .. e : Out(out \o Sdus(s, e), i)
    <3>1. /\ n \in Nat /\ n \notin D /\ (outOfOrderDelivery \/ \A x \in D : x < n)
          /\ Correct(pl, id, D, out) /\ \A i \in s .. e : SduEnd(i) \in ToSet(pl[id][n])
      BY <2>3, <2>4, <2>5
    <3>2. QED
      BY <1>11, <2>2, <3>1, CorrectGrows
  <2>7. QED
    BY <1>6, <1>8, <1>9, <1>11, <2>4, <2>5, <2>6 DEF r
<1>12. QED
  BY <1>3, <1>10, <1>11

\* The PDUs of a buffer that are not tombstones, and the numbers of PDUs.
Real(S) == {p \in S : ~ p.tombstone}
Nums(S) == {p.n : p \in S}

\* The state z of reassembly when the PDUs T were delivered from the state st on,
\* after the PDUs D: what is held is the end of the last of T.
Delivers(z, st, pl, id, D, T) ==
    /\ z.keep \in Seq(Byte) /\ z.expected \in Sn /\ Correct(pl, id, D \cup Nums(T), z.out)
    /\ T = {} => z = st
    /\ T # {} /\ z.keep # <<>> =>
          \E p \in T : HoldsPiece(pl, id, z.keep, z.expected, p.n + 1) /\ \A q \in T : q.n <= p.n
    /\ \A p \in T : \A i \in Whole(p.data) : Out(z.out, i)
    /\ \A i : Out(st.out, i) => Out(z.out, i)

\* The next PDU takes the segment up exactly when it continues it.
LEMMA DeliversOneMore ==
    ASSUME NEW pl, Line(pl), NEW id \in Nat, NEW D \in SUBSET Nat, NEW T, NEW st, NEW z, NEW p,
           Delivers(z, st, pl, id, D, T),
           p.n \in Nat, p.n \notin D, p.sn = SnOf(p.n), p.data = pl[id][p.n], p.data # <<>>,
           outOfOrderDelivery \/ \A x \in D : x < p.n,
           \A q \in T : q.n \in Nat /\ q.n < p.n /\ p.n < q.n + SNMod,
           T = {} /\ Usable(st, p) => HoldsPiece(pl, id, st.keep, st.expected, p.n)
    PROVE  Delivers(Reassemble(z, p), st, pl, id, D, T \cup {p})
<1>1. Usable(z, p) => HoldsPiece(pl, id, z.keep, z.expected, p.n)
  <2>1. CASE T = {}
    BY <2>1 DEF Delivers
  <2>2. CASE T # {}
    <3>1. SUFFICES ASSUME Usable(z, p) PROVE HoldsPiece(pl, id, z.keep, z.expected, p.n)
      OBVIOUS
    <3>2. p.sn = z.expected /\ z.keep # <<>>
      BY <3>1 DEF Usable
    <3>3. PICK q \in T : HoldsPiece(pl, id, z.keep, z.expected, q.n + 1)
      BY <2>2, <3>2 DEF Delivers
    <3>4. PICK x : x = q.n + 1
      OBVIOUS
    <3>5. PICK n : n = p.n
      OBVIOUS
    <3>6. x \in Nat /\ n \in Nat /\ x < n + SNMod /\ n < x + SNMod /\ SnOf(n) = SnOf(x)
      <4>1. PICK y : y = q.n
        OBVIOUS
      <4>2. y \in Nat /\ y < n /\ n < y + SNMod /\ n \in Nat /\ x = y + 1
        BY <3>4, <3>5, <4>1
      <4>3. SnOf(n) = SnOf(x)
        BY <3>2, <3>3, <3>4, <3>5 DEF HoldsPiece
      <4>4. QED
        BY <4>2, <4>3, UmSizes
    <3>7. n = x
      BY <3>6, SnUnique
    <3>8. QED
      BY <3>3, <3>4, <3>5, <3>7
  <2>3. QED
    BY <2>1, <2>2
<1> DEFINE E == D \cup Nums(T)
           r == Reassemble(z, p)
<1>2. E \in SUBSET Nat /\ p.n \notin E /\ (outOfOrderDelivery \/ \A x \in E : x < p.n)
  <2>1. \A x \in Nums(T) : x \in Nat /\ x < p.n
    BY DEF Nums
  <2>2. E \in SUBSET Nat /\ p.n \notin E
    <3>1. \A x \in Nums(T) : x \in Nat /\ x # p.n
      BY <2>1
    <3>2. QED
      BY <3>1
  <2>3. (\A x \in D : x < p.n) => \A x \in E : x < p.n
    BY <2>1
  <2>4. outOfOrderDelivery \/ \A x \in E : x < p.n
    BY <2>3, Zenon
  <2>5. QED
    BY <2>2, <2>4
<1>3. z.keep \in Seq(Byte) /\ Correct(pl, id, E, z.out)
  BY DEF Delivers
<1> HIDE DEF E
<1>4. /\ r.keep \in Seq(Byte) /\ r.expected = SnOf(p.n + 1)
      /\ r.keep # <<>> => HoldsPiece(pl, id, r.keep, r.expected, p.n + 1)
      /\ Correct(pl, id, E \cup {p.n}, r.out)
      /\ \A i \in Whole(p.data) : Out(r.out, i)
      /\ \A i : Out(z.out, i) => Out(r.out, i)
  BY <1>1, <1>2, <1>3, ReassembleKeeps
<1> HIDE DEF r
<1>5. r.expected \in Sn
  BY <1>4, DivMod
<1>6. E \cup {p.n} = D \cup Nums(T \cup {p})
  BY DEF E, Nums
<1>7. \A q \in T \cup {p} : q.n <= p.n
  OBVIOUS
<1>8. \A q \in T \cup {p} : \A i \in Whole(q.data) : Out(r.out, i)
  BY <1>4 DEF Delivers
<1>9. \A i : Out(st.out, i) => Out(r.out, i)
  BY <1>4 DEF Delivers
<1>10. QED
  BY <1>4, <1>5, <1>6, <1>7, <1>8, <1>9 DEF Delivers, r

\* The PDU that continues a segment cannot be mistaken for one of R a whole turn
\* away: the first of them is not that far from number e.
Near(e, R) ==
    /\ \A p \in R : e < p.n + SNMod
    /\ R = {} \/ \E q \in R : q.n < e + SNMod

\* The PDUs of a buffer are delivered in the order of their numbers.
LEMMA DeliverKeeps ==
    ASSUME NEW pl, Line(pl), NEW id \in Nat, NEW D \in SUBSET Nat, NEW st, NEW S,
           NEW u \in Nat, Between(S, u, u + SNMod),
           \A p \in S : p.data = pl[id][p.n] /\ p.data # <<>>,
           \A p \in Real(S) : p.n \notin D /\ (outOfOrderDelivery \/ \A x \in D : x < p.n),
           st.keep \in Seq(Byte), st.expected \in Sn, Correct(pl, id, D, st.out),
           st.keep # <<>> =>
              \E e : HoldsPiece(pl, id, st.keep, st.expected, e) /\ Near(e, Real(S))
    PROVE  Delivers(Deliver(st, S, SnOf(u)), st, pl, id, D, Real(S))
<1> DEFINE R == Real(S)
           T(j) == {p \in R : p.n < u + j}
<1>1. ASSUME NEW p \in R
      PROVE  /\ p \in S /\ p.n \in Nat /\ p.sn = SnOf(p.n) /\ u <= p.n /\ p.n < u + SNMod
             /\ \A q \in R : p.n = q.n => p = q
  BY DEF Between, Real
<1>2. Deliver(st, S, SnOf(u)) = ReassembleFrom(st, R, SnOf(u), SNMod)
  BY DEF Deliver, Real
<1> HIDE DEF R
<1>3. PICK f : /\ f[0] = st /\ ReassembleFrom(st, R, SnOf(u), SNMod) = f[SNMod]
               /\ \A j \in 0 .. SNMod - 1 :
                     f[j + 1] = IF Has(R, Plus(SnOf(u), j))
                                THEN Reassemble(f[j], At(R, Plus(SnOf(u), j))) ELSE f[j]
  BY UmSizes, ReassembleFromIs
<1> DEFINE Q == {j \in Nat : j <= SNMod => Delivers(f[j], st, pl, id, D, T(j))}
<1>4. 0 \in Q
  <2>1. T(0) = {}
    BY <1>1
  <2> HIDE DEF T
  <2>2. D \cup Nums(T(0)) = D
    BY <2>1 DEF Nums
  <2>3. Delivers(f[0], st, pl, id, D, T(0))
    BY <1>3, <2>1, <2>2 DEF Delivers
  <2>4. QED
    BY <2>3
<1>5. ASSUME NEW j \in Nat, j \in Q PROVE j + 1 \in Q
  <2>1. SUFFICES ASSUME j + 1 <= SNMod PROVE Delivers(f[j + 1], st, pl, id, D, T(j + 1))
    OBVIOUS
  <2>2. j \in 0 .. SNMod - 1 /\ j <= SNMod /\ u + j \in Nat /\ u <= u + j /\ u + j < u + SNMod
    BY <2>1, UmSizes
  <2>3. Delivers(f[j], st, pl, id, D, T(j))
    BY <1>5, <2>2
  <2>4. Plus(SnOf(u), j) = SnOf(u + j)
    BY PlusSn
  <2>5. Has(R, SnOf(u + j)) <=> \E p \in R : p.n = u + j
    BY <1>1, <2>2, HasIs
  <2>6. f[j + 1] = IF Has(R, SnOf(u + j)) THEN Reassemble(f[j], At(R, SnOf(u + j))) ELSE f[j]
    BY <1>3, <2>2, <2>4
  <2>7. CASE ~ Has(R, SnOf(u + j))
    <3>1. \A p \in R : p.n # u + j
      BY <2>5, <2>7
    <3>2. T(j + 1) = T(j)
      BY <1>1, <3>1
    <3>3. QED
      BY <2>3, <2>6, <2>7, <3>2
  <2>8. CASE Has(R, SnOf(u + j))
    <3> DEFINE p == At(R, SnOf(u + j))
    <3>1. p \in R /\ p.sn = SnOf(u + j)
      BY <2>8 DEF Has, At
    <3>2. f[j + 1] = Reassemble(f[j], p)
      BY <2>6, <2>8
    <3> HIDE DEF p
    <3>3. p.n = u + j
      <4>1. PICK x : x = p.n
        OBVIOUS
      <4>2. x \in Nat /\ SnOf(x) = SnOf(u + j) /\ u <= x /\ x < u + SNMod
        BY <1>1, <3>1, <4>1
      <4>3. x < (u + j) + SNMod /\ u + j < x + SNMod
        BY <2>2, <4>2, UmSizes
      <4>4. QED
        BY <2>2, <4>1, <4>2, <4>3, SnUnique
    <3>4. T(j + 1) = T(j) \cup {p}
      <4>1. \A q \in R : q.n = u + j => q = p
        BY <1>1, <3>1, <3>3
      <4>2. \A q \in R : q.n < u + (j + 1) <=> q.n < u + j \/ q.n = u + j
        BY <1>1
      <4>3. QED
        BY <3>1, <3>3, <4>1, <4>2
    <3>5. \A q \in T(j) : q.n \in Nat /\ q.n < p.n /\ p.n < q.n + SNMod
      <4>1. SUFFICES ASSUME NEW q \in T(j)
                     PROVE  q.n \in Nat /\ q.n < p.n /\ p.n < q.n + SNMod
        OBVIOUS
      <4>2. q.n \in Nat /\ u <= q.n /\ q.n < u + j
        BY <1>1
      <4>3. QED
        BY <2>2, <3>3, <4>2, UmSizes
    <3>6. ASSUME T(j) = {}, Usable(st, p)
          PROVE  HoldsPiece(pl, id, st.keep, st.expected, p.n)
      <4>1. PICK e : HoldsPiece(pl, id, st.keep, st.expected, e) /\ Near(e, R)
        BY <3>6 DEF Usable, R
      <4>2. PICK q \in R : q.n < e + SNMod
        BY <3>1, <4>1 DEF Near
      <4>3. q.n \in Nat /\ p.n <= q.n
        <5>1. q \notin T(j)
          BY <3>6
        <5>2. QED
          BY <1>1, <2>2, <3>3, <5>1
      <4>4. PICK x : x = p.n
        OBVIOUS
      <4>5. e \in Nat /\ x \in Nat /\ x < e + SNMod /\ e < x + SNMod
        <5>1. e \in Nat /\ x \in Nat /\ e < x + SNMod
          BY <1>1, <3>1, <4>1, <4>4 DEF Near, HoldsPiece
        <5>2. PICK y : y = q.n
          OBVIOUS
        <5>3. y \in Nat /\ x <= y /\ y < e + SNMod
          BY <4>2, <4>3, <4>4, <5>2
        <5>4. QED
          BY <5>1, <5>3, UmSizes
      <4>s. SnOf(x) = SnOf(e)
        <5>1. p.sn = SnOf(x) /\ p.sn = st.expected /\ st.expected = SnOf(e)
          BY <1>1, <3>1, <3>6, <4>1, <4>4 DEF HoldsPiece, Usable
        <5>2. QED
          BY <5>1
      <4>6. x = e
        BY <4>5, <4>s, SnUnique
      <4>7. QED
        BY <4>1, <4>4, <4>6
    <3>7. /\ p.n \in Nat /\ p.n \notin D /\ p.sn = SnOf(p.n)
          /\ p.data = pl[id][p.n] /\ p.data # <<>>
          /\ outOfOrderDelivery \/ \A x \in D : x < p.n
      BY <1>1, <3>1 DEF R
    <3> HIDE DEF T
    <3>8. Delivers(Reassemble(f[j], p), st, pl, id, D, T(j) \cup {p})
      BY <2>3, <3>5, <3>6, <3>7, DeliversOneMore
    <3>9. QED
      BY <3>2, <3>4, <3>8
  <2>9. QED
    BY <2>7, <2>8
<1>6. \A j \in Nat : j \in Q
  <2> HIDE DEF Q
  <2>1. QED
    BY <1>4, <1>5, Counting
<1>7. Delivers(f[SNMod], st, pl, id, D, T(SNMod))
  <2>1. SNMod \in Q /\ SNMod <= SNMod
    <3> HIDE DEF Q
    <3>1. QED
      BY <1>6, UmSizes
  <2> HIDE DEF T
  <2>2. QED
    BY <2>1
<1>8. T(SNMod) = R
  BY <1>1
<1>9. QED
  BY <1>2, <1>3, <1>7, <1>8 DEF R

\* Tombstones are passed over.
LEMMA DeliverNone ==
    ASSUME NEW st, NEW S, NEW sn, Real(S) = {}
    PROVE  Deliver(st, S, sn) = st
<1>1. Deliver(st, S, sn) = ReassembleFrom(st, Real(S), sn, SNMod)
  BY DEF Deliver, Real
<1>2. PICK f : /\ f[0] = st /\ ReassembleFrom(st, Real(S), sn, SNMod) = f[SNMod]
               /\ \A j \in 0 .. SNMod - 1 :
                     f[j + 1] = IF Has(Real(S), Plus(sn, j))
                                THEN Reassemble(f[j], At(Real(S), Plus(sn, j))) ELSE f[j]
  BY UmSizes, ReassembleFromIs
<1> DEFINE Q == {j \in Nat : j <= SNMod => f[j] = st}
<1>3. 0 \in Q
  BY <1>2
<1>4. ASSUME NEW j \in Nat, j \in Q PROVE j + 1 \in Q
  <2>1. SUFFICES ASSUME j + 1 <= SNMod PROVE f[j + 1] = st
    OBVIOUS
  <2>2. j \in 0 .. SNMod - 1 /\ j <= SNMod
    BY <2>1, UmSizes
  <2>3. ~ Has(Real(S), Plus(sn, j))
    BY DEF Has
  <2>4. QED
    BY <1>2, <1>4, <2>2, <2>3
<1>5. SNMod \in Q /\ SNMod <= SNMod
  <2> HIDE DEF Q
  <2>1. QED
    BY <1>3, <1>4, Counting, UmSizes
<1>6. QED
  BY <1>1, <1>2, <1>5

\* The buffer by the numbers of its PDUs when PDU m is placed: those below v fall
\* out, those from v up to e are the run, and the others stay.
PlacedAt(r, N, u, m, v, e) ==
    /\ u <= v /\ v <= e /\ e <= NewN(N, m) /\ NewN(N, m) <= v + WindowSize
    /\ Base(r, m) = SnOf(v)
    /\ Passed(r, m) = {p \in Marked(r, m) : p.n < v}
    /\ RunOf(r, m) = {p \in Marked(r, m) : v <= p.n /\ p.n < e}
    /\ \A p \in Marked(r, m) : p.n # e
    /\ UpdateReorderingTimer(PlacedRx(r, m)).rxBuffer = {p \in Marked(r, m) : e < p.n}
    /\ RxWindow(UpdateReorderingTimer(PlacedRx(r, m)), NewN(N, m), e)

LEMMA PlaceParts ==
    ASSUME NEW r, NEW N, NEW u, NEW m, RxWindow(r, N, u), Placeable(r, N, u, m)
    PROVE  \E v, e \in Nat : PlacedAt(r, N, u, m, v, e)
<1> DEFINE M == NewN(N, m)
           v == NewU(N, u, m)
           t == PlacedRx(r, m)
<1>1. PICK e \in Nat :
         /\ v <= e /\ e <= M
         /\ RunOf(r, m) = {p \in Rest(r, m) : p.n < e}
         /\ t.rxBuffer = {p \in Rest(r, m) : e < p.n}
         /\ RxWindow(UpdateReorderingTimer(t), M, e)
  BY PlaceWindow
<1>2. /\ M \in Nat /\ v \in Nat /\ u \in Nat /\ u <= v /\ v <= M /\ M <= v + WindowSize
      /\ v = IF u + WindowSize < M THEN M - WindowSize ELSE u
  BY NewNumbers DEF NewU
<1>3. /\ Passed(r, m) = {p \in Marked(r, m) : p.n + WindowSize < M}
      /\ Base(r, m) = SnOf(v)
      /\ Rest(r, m) = {p \in Marked(r, m) : M <= p.n + WindowSize}
  BY PassedIs
<1>4. IsReceiver(t) /\ t.rxBuffer = Rest(r, m) \ RunOf(r, m)
  BY PlacedRxIs DEF RxWindow
<1>5. UpdateReorderingTimer(t).rxBuffer = t.rxBuffer
  BY <1>4, TimerKeeps
<1>6. \A p \in Marked(r, m) : p.n \in Nat /\ u <= p.n /\ p.n < M
  BY MarkedIs DEF Between
<1> HIDE DEF M, v, t
<1>7. \A p \in Marked(r, m) : /\ p.n + WindowSize < M <=> p.n < v
                              /\ M <= p.n + WindowSize <=> v <= p.n
  <2>1. SUFFICES ASSUME NEW p \in Marked(r, m)
                 PROVE  /\ p.n + WindowSize < M <=> p.n < v
                        /\ M <= p.n + WindowSize <=> v <= p.n
    OBVIOUS
  <2>2. p.n \in Nat /\ u <= p.n /\ p.n < M
    BY <1>6
  <2>3. QED
    BY <1>2, <2>2, UmSizes
<1>8. Passed(r, m) = {p \in Marked(r, m) : p.n < v}
  BY <1>3, <1>7
<1>9. RunOf(r, m) = {p \in Marked(r, m) : v <= p.n /\ p.n < e}
  BY <1>1, <1>3, <1>7
<1>10. t.rxBuffer = {p \in Marked(r, m) : e < p.n}
  <2>1. \A p \in Marked(r, m) : e < p.n => v <= p.n
    BY <1>1, <1>2, <1>6
  <2>2. QED
    BY <1>1, <1>3, <1>7, <2>1
<1>11. ASSUME NEW p \in Marked(r, m) PROVE p.n # e
  <2>1. SUFFICES ASSUME p.n = e PROVE FALSE
    OBVIOUS
  <2>2. p \in Rest(r, m) /\ p \notin RunOf(r, m)
    BY <1>1, <1>2, <1>3, <1>6, <1>7, <2>1
  <2>3. p \in t.rxBuffer
    BY <1>4, <2>2
  <2>4. QED
    BY <1>10, <2>1, <2>3
<1>12. QED
  BY <1>1, <1>2, <1>3, <1>5, <1>8, <1>9, <1>10, <1>11 DEF M, v, t, PlacedAt

-----------------------------------------------------------------------------
(* The data of the receiver.                                               *)

\* The buffered PDUs are copies, and there are tombstones only with out-of-order
\* delivery.
BufferData(pl, id, S) ==
    \A p \in S : /\ p.data = pl[id][p.n] /\ p.data # <<>>
                 /\ p.tombstone \in BOOLEAN /\ (p.tombstone => outOfOrderDelivery)

\* The PDUs that VR(UR) has passed, and those delivered out of order.
Settled(S, u) == {n \in Nat : n < u} \cup Nums({p \in S : p.tombstone})

\* A held segment continues in PDU e, one of those below number M, and the next PDU
\* to be delivered is less than a turn away from e.
KeepData(pl, id, keep, expected, S, M) ==
    /\ keep \in Seq(Byte) /\ expected \in Sn
    /\ keep # <<>> =>
          \E e \in 1 .. M : /\ HoldsPiece(pl, id, keep, expected, e)
                            /\ M <= e + WindowSize \/ \E p \in Real(S) : p.n < e + SNMod

\* An SDU that arrived within one PDU is delivered, or waits in the buffer.
Waits(S, out, i) == Out(out, i) \/ \E p \in Real(S) : i \in Whole(p.data)

\* What the receiver r, whose VR(UR) is number u, makes of the PDUs of transmitter id.
RxData(pl, id, r, u, out) ==
    /\ BufferData(pl, id, r.rxBuffer)
    /\ Correct(pl, id, Settled(r.rxBuffer, u), out)
    /\ KeepData(pl, id, r.keepS0, r.expectedSeqNumber, r.rxBuffer, r.newest)
    /\ \A i \in r.arrived : Waits(r.rxBuffer, out, i)

\* A PDU in the buffer is not settled, and in order comes after those that are.
LEMMA NotSettled ==
    ASSUME NEW S, NEW u \in Nat, NEW hi \in Nat, Between(S, u, hi),
           NEW buffer, buffer \subseteq S,
           \A q \in buffer : q.tombstone => outOfOrderDelivery,
           NEW p \in Real(S)
    PROVE  /\ Settled(buffer, u) \in SUBSET Nat
           /\ p.n \notin Settled(buffer, u)
           /\ outOfOrderDelivery \/ \A x \in Settled(buffer, u) : x < p.n
<1>1. p \in S /\ ~ p.tombstone /\ p.n \in Nat /\ u <= p.n
  BY DEF Real, Between
<1>2. \A q \in buffer : q.n \in Nat /\ (q.tombstone => q.n # p.n)
  <2>1. SUFFICES ASSUME NEW q \in buffer PROVE q.n \in Nat /\ (q.tombstone => q.n # p.n)
    OBVIOUS
  <2>2. q \in S /\ q.n \in Nat
    BY DEF Between
  <2>3. q.n = p.n => q = p
    BY <1>1, <2>2 DEF Between
  <2>4. QED
    BY <1>1, <2>2, <2>3, Zenon
<1> DEFINE T == {q \in buffer : q.tombstone}
<1>3. \A x \in Nums(T) : x \in Nat /\ x # p.n
  BY <1>2 DEF Nums
<1>4. Settled(buffer, u) = {n \in Nat : n < u} \cup Nums(T)
  BY DEF Settled
<1>5. ~ outOfOrderDelivery => Nums(T) = {}
  <2>1. ~ outOfOrderDelivery => T = {}
    BY Zenon
  <2>2. T = {} => Nums(T) = {}
    BY DEF Nums
  <2>3. QED
    BY <2>1, <2>2
<1> HIDE DEF T
<1>6. Settled(buffer, u) \in SUBSET Nat /\ p.n \notin Settled(buffer, u)
  <2>1. ~ (p.n < u)
    BY <1>1
  <2>2. p.n \notin {n \in Nat : n < u}
    BY <2>1
  <2>3. p.n \notin Nums(T)
    BY <1>3
  <2>4. Nums(T) \subseteq Nat
    BY <1>3
  <2>5. QED
    BY <1>4, <2>2, <2>3, <2>4
<1>7. Nums(T) = {} => \A x \in Settled(buffer, u) : x < p.n
  BY <1>1, <1>4
<1>8. outOfOrderDelivery \/ \A x \in Settled(buffer, u) : x < p.n
  BY <1>5, <1>7, Zenon
<1>9. QED
  BY <1>6, <1>8

\* The first PDUs of the buffer are near the one that continues the held segment.
LEMMA NearKept ==
    ASSUME NEW pl, NEW id, NEW keep, NEW expected, NEW buffer, NEW M \in Nat,
           KeepData(pl, id, keep, expected, buffer, M), keep # <<>>,
           NEW u \in Nat, M <= u + WindowSize,
           NEW S, buffer \subseteq S,
           \A p \in S : p.n \in Nat /\ u <= p.n /\ p.n + WindowSize < M + SNMod,
           NEW T \in SUBSET Real(S), \A p \in T : \A q \in Real(S) : q \in T \/ p.n <= q.n
    PROVE  \E e \in 1 .. M : /\ HoldsPiece(pl, id, keep, expected, e) /\ Near(e, T)
                             /\ M <= e + WindowSize \/ \E p \in Real(buffer) : p.n < e + SNMod
<1>1. PICK e \in 1 .. M :
         /\ HoldsPiece(pl, id, keep, expected, e)
         /\ M <= e + WindowSize \/ \E p \in Real(buffer) : p.n < e + SNMod
  BY DEF KeepData
<1>2. \A p \in T : p \in S /\ p.n \in Nat /\ u <= p.n /\ p.n + WindowSize < M + SNMod
  BY DEF Real
<1>3. \A p \in T : e < p.n + SNMod
  <2>1. SUFFICES ASSUME NEW p \in T PROVE e < p.n + SNMod
    OBVIOUS
  <2>2. p.n \in Nat /\ u <= p.n
    BY <1>2
  <2>3. QED
    BY <2>2, UmSizes
<1>4. T = {} \/ \E q \in T : q.n < e + SNMod
  <2>1. SUFFICES ASSUME NEW p \in T PROVE \E q \in T : q.n < e + SNMod
    OBVIOUS
  <2>2. p.n \in Nat /\ p.n + WindowSize < M + SNMod
    BY <1>2
  <2>3. CASE M <= e + WindowSize
    <3>1. p.n < e + SNMod
      BY <2>2, <2>3, UmSizes
    <3>2. QED
      BY <3>1
  <2>4. CASE \E q \in Real(buffer) : q.n < e + SNMod
    <3>1. PICK q \in Real(buffer) : q.n < e + SNMod
      BY <2>4
    <3>2. q \in Real(S) /\ q.n \in Nat
      BY DEF Real
    <3>3. CASE q \in T
      BY <3>1, <3>3
    <3>4. CASE p.n <= q.n
      <4>1. p.n < e + SNMod
        BY <2>2, <3>1, <3>2, <3>4, UmSizes
      <4>2. QED
        BY <4>1
    <3>5. QED
      BY <3>2, <3>3, <3>4
  <2>5. QED
    BY <1>1, <2>3, <2>4
<1>5. QED
  BY <1>1, <1>3, <1>4 DEF Near

\* What the PDUs from number lo on and below number hi are.
From(B, lo, hi) == {p \in B : lo <= p.n /\ p.n < hi}

\* What lies above number e.
Above(B, e) == {p \in B : e < p.n}

\* The buffer B, with the PDU that arrived, in its place: VR(UR) was number u, the
\* window ended before the number N and ends before M now; the PDUs below v fall
\* out, and those from v up to e are the run.
Runs(pl, id, B, old, u, v, e, N, M) ==
    /\ u <= v /\ v <= e /\ e <= M /\ M <= v + WindowSize
    /\ N <= M /\ N <= u + WindowSize /\ M <= u + SNMod
    /\ Between(B, u, M) /\ BufferData(pl, id, B)
    /\ old \subseteq B /\ \A p \in B : p.tombstone => p \in old
    /\ N # 0 => \A p \in B : p.n + WindowSize < N + SNMod
    /\ M = N \/ \E q \in Real(B) : q.n + 1 = M

\* The PDUs below v are delivered first.
LEMMA FirstRun ==
    ASSUME NEW pl, Line(pl), NEW id \in Nat, NEW B, NEW old,
           NEW u \in Nat, NEW v \in Nat, NEW e \in Nat, NEW N \in Nat, NEW M \in Nat,
           Runs(pl, id, B, old, u, v, e, N, M),
           NEW st, KeepData(pl, id, st.keep, st.expected, old, N),
           Correct(pl, id, Settled(old, u), st.out)
    PROVE  Delivers(Deliver(st, From(B, u, v), SnOf(u)), st, pl, id, Settled(old, u),
                    Real(From(B, u, v)))
<1> DEFINE S == From(B, u, v)
           D == Settled(old, u)
<1>1. /\ Between(B, u, M) /\ M <= u + SNMod /\ u <= v /\ BufferData(pl, id, B)
      /\ old \subseteq B
  BY DEF Runs
<1>2. Between(S, u, u + SNMod)
  BY <1>1, UmSizes DEF Between, From
<1>3. \A p \in S : p.data = pl[id][p.n] /\ p.data # <<>>
  BY <1>1 DEF BufferData, From
<1>4. \A p \in Real(B) : /\ D \in SUBSET Nat /\ p.n \notin D
                         /\ outOfOrderDelivery \/ \A x \in D : x < p.n
  <2>1. \A q \in old : q.tombstone => outOfOrderDelivery
    BY <1>1 DEF BufferData
  <2>2. QED
    BY <1>1, <2>1, NotSettled
<1>5. \A p \in Real(S) : p \in Real(B)
  BY DEF Real, From
<1>6. D \in SUBSET Nat
  <2>1. \A p \in old : p.n \in Nat
    BY <1>1 DEF Between
  <2>2. QED
    BY <2>1 DEF Settled, Nums
<1>7. st.keep \in Seq(Byte) /\ st.expected \in Sn
  BY DEF KeepData
<1>8. ASSUME st.keep # <<>>
      PROVE  \E x : HoldsPiece(pl, id, st.keep, st.expected, x) /\ Near(x, Real(S))
  <2>1. N # 0
    <3>1. PICK x \in 1 .. N : TRUE
      BY <1>8 DEF KeepData
    <3>2. QED
      BY <3>1
  <2>2. /\ N <= u + WindowSize /\ \A p \in B : p.n + WindowSize < N + SNMod
    BY <2>1 DEF Runs
  <2>3. \A p \in B : p.n \in Nat /\ u <= p.n /\ p.n + WindowSize < N + SNMod
    BY <1>1, <2>2 DEF Between
  <2>4. \A p \in Real(S) : \A q \in Real(B) : q \in Real(S) \/ p.n <= q.n
    <3>1. SUFFICES ASSUME NEW p \in Real(S), NEW q \in Real(B), q \notin Real(S)
                   PROVE  p.n <= q.n
      OBVIOUS
    <3>2. p \in B /\ p.n < v /\ q \in B /\ ~ q.tombstone
      BY DEF Real, From
    <3>3. ~ (u <= q.n /\ q.n < v)
      BY <3>1, <3>2 DEF Real, From
    <3>4. QED
      BY <2>3, <3>2, <3>3
  <2>5. Real(S) \in SUBSET Real(B)
    BY <1>5
  <2>6. QED
    BY <1>1, <1>8, <2>2, <2>3, <2>4, <2>5, NearKept
<1> HIDE DEF S, D
<1>9. Delivers(Deliver(st, S, SnOf(u)), st, pl, id, D, Real(S))
  <2>1. Correct(pl, id, D, st.out)
    BY DEF D
  <2>2. QED
    BY <1>2, <1>3, <1>4, <1>5, <1>6, <1>7, <1>8, <2>1, DeliverKeeps
<1>10. QED
  BY <1>9 DEF S, D

\* The run is delivered after them.
LEMMA SecondRun ==
    ASSUME NEW pl, Line(pl), NEW id \in Nat, NEW B, NEW old,
           NEW u \in Nat, NEW v \in Nat, NEW e \in Nat, NEW N \in Nat, NEW M \in Nat,
           Runs(pl, id, B, old, u, v, e, N, M),
           NEW st, KeepData(pl, id, st.keep, st.expected, old, N),
           Correct(pl, id, Settled(old, u), st.out),
           NEW z, Delivers(z, st, pl, id, Settled(old, u), Real(From(B, u, v)))
    PROVE  Delivers(Deliver(z, From(B, v, e), SnOf(v)), z, pl, id,
                    Settled(old, u) \cup Nums(Real(From(B, u, v))), Real(From(B, v, e)))
<1> DEFINE S == From(B, v, e)
           P == Real(From(B, u, v))
           D == Settled(old, u)
<1>1. /\ Between(B, u, M) /\ M <= u + SNMod /\ u <= v /\ v <= e /\ e <= M
      /\ BufferData(pl, id, B) /\ old \subseteq B
  BY DEF Runs
<1>b. \A p \in B : p.n \in Nat /\ u <= p.n /\ p.n < M
  BY <1>1 DEF Between
<1>2. Between(S, v, v + SNMod)
  <2>1. \A p \in S : p \in B /\ v <= p.n /\ p.n < e
    BY DEF From
  <2>2. \A p \in S : p.n < v + SNMod
    BY <1>1, <1>b, <2>1, UmSizes
  <2>3. QED
    BY <1>1, <2>1, <2>2 DEF Between
<1>3. \A p \in S : p.data = pl[id][p.n] /\ p.data # <<>>
  BY <1>1 DEF BufferData, From
<1>4. \A p \in Real(B) : /\ D \in SUBSET Nat /\ p.n \notin D
                         /\ outOfOrderDelivery \/ \A x \in D : x < p.n
  <2>1. \A q \in old : q.tombstone => outOfOrderDelivery
    BY <1>1 DEF BufferData
  <2>2. QED
    BY <1>1, <2>1, NotSettled
<1>5. \A p \in Real(S) : p \in Real(B) /\ v <= p.n /\ p.n < e
  BY DEF Real, From
<1>q. \A p \in P : p \in Real(B) /\ p.n < v /\ p.n \in Nat /\ u <= p.n
  BY <1>b DEF Real, From
<1>6. D \cup Nums(P) \in SUBSET Nat
  <2>1. \A p \in old : p.n \in Nat
    BY <1>1 DEF Between
  <2>2. QED
    BY <1>q, <2>1 DEF Settled, Nums
<1>7. z.keep \in Seq(Byte) /\ z.expected \in Sn /\ Correct(pl, id, D \cup Nums(P), z.out)
  BY DEF Delivers
<1>8. ASSUME z.keep # <<>>
      PROVE  \E x : HoldsPiece(pl, id, z.keep, z.expected, x) /\ Near(x, Real(S))
  <2>1. CASE P = {}
    <3>1. z = st
      BY <2>1 DEF Delivers
    <3>2. N # 0
      <4>1. PICK x \in 1 .. N : TRUE
        BY <1>8, <3>1 DEF KeepData
      <4>2. QED
        BY <4>1
    <3>3. /\ N <= u + WindowSize /\ \A p \in B : p.n + WindowSize < N + SNMod
      BY <3>2 DEF Runs
    <3>4. \A p \in B : p.n \in Nat /\ u <= p.n /\ p.n + WindowSize < N + SNMod
      BY <1>b, <3>3
    <3>5. \A p \in Real(S) : \A q \in Real(B) : q \in Real(S) \/ p.n <= q.n
      <4>1. SUFFICES ASSUME NEW p \in Real(S), NEW q \in Real(B), q \notin Real(S)
                     PROVE  p.n <= q.n
        OBVIOUS
      <4>2. p \in B /\ p.n < e /\ q \in B /\ ~ q.tombstone
        BY DEF Real, From
      <4>3. ~ (v <= q.n /\ q.n < e)
        BY <4>1, <4>2 DEF Real, From
      <4>4. ~ (q.n < v)
        BY <1>b, <2>1, <4>2 DEF Real, From
      <4>5. QED
        BY <1>b, <4>2, <4>3, <4>4
    <3>6. Real(S) \in SUBSET Real(B)
      BY <1>5
    <3>7. KeepData(pl, id, z.keep, z.expected, old, N)
      BY <3>1
    <3>8. QED
      BY <1>1, <1>8, <3>3, <3>4, <3>5, <3>6, <3>7, NearKept
  <2>2. CASE P # {}
    <3>1. PICK p \in P : HoldsPiece(pl, id, z.keep, z.expected, p.n + 1)
      BY <1>8, <2>2 DEF Delivers
    <3>2. PICK x : x = p.n
      OBVIOUS
    <3>3. x \in Nat /\ u <= x /\ x < v
      BY <1>q, <3>2
    <3>4. \A q \in Real(S) : x + 1 < q.n + SNMod /\ q.n < x + 1 + SNMod
      <4>1. \A q \in Real(S) : q.n \in Nat /\ v <= q.n /\ q.n < M
        BY <1>b, <1>5 DEF Real
      <4>2. QED
        BY <1>1, <3>3, <4>1, UmSizes
    <3>5. Near(x + 1, Real(S))
      BY <3>4 DEF Near
    <3>6. QED
      BY <3>1, <3>2, <3>5
  <2>3. QED
    BY <2>1, <2>2
<1>9. \A p \in Real(S) : /\ p.n \notin D \cup Nums(P)
                         /\ outOfOrderDelivery \/ \A x \in D \cup Nums(P) : x < p.n
  <2>1. SUFFICES ASSUME NEW p \in Real(S)
                 PROVE  /\ p.n \notin D \cup Nums(P)
                        /\ outOfOrderDelivery \/ \A x \in D \cup Nums(P) : x < p.n
    OBVIOUS
  <2>2. p \in Real(B) /\ p.n \in Nat /\ v <= p.n
    BY <1>b, <1>5 DEF Real
  <2>3. \A x \in Nums(P) : x < p.n
    <3>1. \A q \in P : q.n < p.n
      BY <1>q, <2>2
    <3>2. QED
      BY <3>1 DEF Nums
  <2>4. p.n \notin D /\ (outOfOrderDelivery \/ \A x \in D : x < p.n)
    BY <1>4, <2>2
  <2>5. p.n \notin Nums(P)
    BY <2>2, <2>3
  <2>6. (\A x \in D : x < p.n) => \A x \in D \cup Nums(P) : x < p.n
    BY <2>3
  <2>7. QED
    BY <2>4, <2>5, <2>6, Zenon
<1> HIDE DEF S, D, P
<1>10. Delivers(Deliver(z, S, SnOf(v)), z, pl, id, D \cup Nums(P), Real(S))
  BY <1>2, <1>3, <1>6, <1>7, <1>8, <1>9, DeliverKeeps
<1>11. QED
  BY <1>10 DEF S, D, P

\* What the two deliveries leave in the buffer: what is settled, what is held and
\* what waits.
LEMMA RunsSettle ==
    ASSUME NEW pl, Line(pl), NEW id \in Nat, NEW B, NEW old,
           NEW u \in Nat, NEW v \in Nat, NEW e \in Nat, NEW N \in Nat, NEW M \in Nat,
           Runs(pl, id, B, old, u, v, e, N, M), \A p \in B : p.n # e,
           NEW st, KeepData(pl, id, st.keep, st.expected, old, N),
           Correct(pl, id, Settled(old, u), st.out)
    PROVE  LET z == Deliver(Deliver(st, From(B, u, v), SnOf(u)), From(B, v, e), SnOf(v))
               rest == Above(B, e)
           IN /\ Correct(pl, id, Settled(rest, e), z.out)
              /\ KeepData(pl, id, z.keep, z.expected, rest, M)
              /\ \A i : Out(st.out, i) => Out(z.out, i)
              /\ \A p \in Real(B) : \A i \in Whole(p.data) : Waits(rest, z.out, i)
<1> DEFINE P == Real(From(B, u, v))
           Q == Real(From(B, v, e))
           D == Settled(old, u)
           rest == Above(B, e)
<1>1. PICK y : y = Deliver(st, From(B, u, v), SnOf(u))
  OBVIOUS
<1>2. PICK z : z = Deliver(y, From(B, v, e), SnOf(v))
  OBVIOUS
<1>3. Delivers(y, st, pl, id, D, P)
  BY <1>1, FirstRun
<1>4. Delivers(z, y, pl, id, D \cup Nums(P), Q)
  BY <1>2, <1>3, SecondRun
<1>5. /\ u <= v /\ v <= e /\ e <= M /\ M <= v + WindowSize
      /\ N <= M /\ N <= u + WindowSize /\ M <= u + SNMod
      /\ Between(B, u, M) /\ BufferData(pl, id, B)
      /\ old \subseteq B /\ \A p \in B : p.tombstone => p \in old
      /\ N # 0 => \A p \in B : p.n + WindowSize < N + SNMod
      /\ M = N \/ \E q \in Real(B) : q.n + 1 = M
  BY DEF Runs
<1>6. \A p \in B : p.n \in Nat /\ u <= p.n /\ p.n < M /\ p.n # e
  BY <1>5 DEF Between
<1>7. \A p \in P : p \in Real(B) /\ p \in B /\ p.n < v
  BY DEF Real, From
<1>8. \A p \in Q : p \in Real(B) /\ p \in B /\ v <= p.n /\ p.n < e
  BY DEF Real, From
<1>9. \A p \in Real(B) : p \in P \/ p \in Q \/ p \in Real(rest)
  <2>1. SUFFICES ASSUME NEW p \in Real(B) PROVE p \in P \/ p \in Q \/ p \in Real(rest)
    OBVIOUS
  <2>2. p \in B /\ ~ p.tombstone
    BY DEF Real
  <2>3. p.n < v \/ (v <= p.n /\ p.n < e) \/ e < p.n
    BY <1>6, <2>2
  <2>4. QED
    BY <1>6, <2>2, <2>3 DEF Real, From, Above
<1> HIDE DEF P, Q
<1>10. Correct(pl, id, Settled(rest, e), z.out)
  <2>1. \A x \in D : x \in Settled(rest, e)
    <3>1. SUFFICES ASSUME NEW x \in D PROVE x \in Settled(rest, e)
      OBVIOUS
    <3>2. CASE x \in Nat /\ x < u
      BY <1>5, <3>2 DEF Settled
    <3>3. CASE x \in Nums({p \in old : p.tombstone})
      <4>1. PICK p \in old : p.tombstone /\ x = p.n
        BY <3>3 DEF Nums
      <4>2. p \in B
        BY <1>5
      <4>3. x \in Nat /\ (x < e \/ e < x)
        BY <1>6, <4>1, <4>2
      <4>4. CASE x < e
        BY <4>3, <4>4 DEF Settled
      <4>5. CASE e < x
        BY <4>1, <4>2, <4>5 DEF Settled, Nums, Above
      <4>6. QED
        BY <4>3, <4>4, <4>5
    <3>4. QED
      BY <3>2, <3>3 DEF Settled
  <2>2. \A p \in P \cup Q : p.n \in Nat /\ p.n < e
    BY <1>5, <1>6, <1>7, <1>8
  <2>3. (D \cup Nums(P)) \cup Nums(Q) \subseteq Settled(rest, e)
    BY <2>1, <2>2 DEF Settled, Nums
  <2>4. Correct(pl, id, (D \cup Nums(P)) \cup Nums(Q), z.out)
    BY <1>4 DEF Delivers
  <2>5. QED
    BY <2>3, <2>4, CorrectMore
<1>11. \A i : Out(st.out, i) => Out(z.out, i)
  BY <1>3, <1>4 DEF Delivers
<1>12. ASSUME NEW p \in Real(B), NEW i \in Whole(p.data) PROVE Waits(rest, z.out, i)
  <2>1. CASE p \in P
    BY <1>3, <1>4, <2>1 DEF Delivers, Waits
  <2>2. CASE p \in Q
    BY <1>4, <2>2 DEF Delivers, Waits
  <2>3. CASE p \in Real(rest)
    BY <2>3 DEF Waits
  <2>4. QED
    BY <1>9, <2>1, <2>2, <2>3
<1>13. KeepData(pl, id, z.keep, z.expected, rest, M)
  <2>1. z.keep \in Seq(Byte) /\ z.expected \in Sn
    BY <1>4 DEF Delivers
  <2>2. SUFFICES ASSUME z.keep # <<>>
                 PROVE  \E x \in 1 .. M :
                           /\ HoldsPiece(pl, id, z.keep, z.expected, x)
                           /\ M <= x + WindowSize \/ \E p \in Real(rest) : p.n < x + SNMod
    BY <2>1 DEF KeepData
  <2>3. CASE Q # {}
    <3>1. PICK p \in Q : HoldsPiece(pl, id, z.keep, z.expected, p.n + 1)
      BY <1>4, <2>2, <2>3 DEF Delivers
    <3>2. PICK x : x = p.n
      OBVIOUS
    <3>3. x \in Nat /\ v <= x /\ x < M
      BY <1>6, <1>8, <3>2
    <3>4. x + 1 \in 1 .. M /\ M <= (x + 1) + WindowSize
      BY <1>5, <3>3, UmSizes
    <3>5. QED
      BY <3>1, <3>2, <3>4
  <2>4. CASE Q = {} /\ P # {}
    <3>1. z = y
      BY <1>4, <2>4 DEF Delivers
    <3>2. PICK p \in P : HoldsPiece(pl, id, z.keep, z.expected, p.n + 1)
                         /\ \A q \in P : q.n <= p.n
      BY <1>3, <2>2, <2>4, <3>1 DEF Delivers
    <3>3. PICK x : x = p.n
      OBVIOUS
    <3>4. x \in Nat /\ u <= x /\ x < M /\ x + 1 \in 1 .. M
      <4>1. x \in Nat /\ u <= x /\ x < M
        BY <1>6, <1>7, <3>3
      <4>2. QED
        BY <4>1
    <3>5. CASE M = N
      <4>1. M <= (x + 1) + WindowSize
        BY <1>5, <3>4, <3>5, UmSizes
      <4>2. QED
        BY <3>2, <3>3, <3>4, <4>1
    <3>6. CASE \E q \in Real(B) : q.n + 1 = M
      <4>1. PICK q \in Real(B) : q.n + 1 = M
        BY <3>6
      <4>2. q.n \in Nat
        BY <1>6 DEF Real
      <4>3. CASE q \in P
        <5>1. q.n <= x
          BY <3>2, <3>3, <4>3
        <5>2. M <= (x + 1) + WindowSize
          BY <3>4, <4>1, <4>2, <5>1, UmSizes
        <5>3. QED
          BY <3>2, <3>3, <3>4, <5>2
      <4>4. CASE q \in Real(rest)
        <5>1. q.n < (x + 1) + SNMod
          BY <1>5, <3>4, <4>1, <4>2, UmSizes
        <5>2. QED
          BY <3>2, <3>3, <3>4, <4>4, <5>1
      <4>5. QED
        BY <1>9, <2>4, <4>3, <4>4
    <3>7. QED
      BY <1>5, <3>5, <3>6
  <2>5. CASE Q = {} /\ P = {}
    <3>1. z = st
      BY <1>3, <1>4, <2>5 DEF Delivers
    <3>2. PICK x \in 1 .. N :
             /\ HoldsPiece(pl, id, z.keep, z.expected, x)
             /\ N <= x + WindowSize \/ \E p \in Real(old) : p.n < x + SNMod
      BY <2>2, <3>1 DEF KeepData
    <3>3. x \in 1 .. M /\ x \in Nat /\ N # 0
      BY <1>5
    <3>4. CASE \E p \in Real(old) : p.n < x + SNMod
      <4>1. PICK p \in Real(old) : p.n < x + SNMod
        BY <3>4
      <4>2. p \in Real(B)
        BY <1>5 DEF Real
      <4>3. p \in Real(rest)
        BY <1>9, <2>5, <4>2
      <4>4. QED
        BY <3>2, <3>3, <4>1, <4>3
    <3>5. CASE N <= x + WindowSize /\ M = N
      BY <3>2, <3>3, <3>5
    <3>6. CASE N <= x + WindowSize /\ \E q \in Real(B) : q.n + 1 = M
      <4>1. PICK q \in Real(B) : q.n + 1 = M
        BY <3>6
      <4>2. q \in Real(rest) /\ q \in B
        BY <1>9, <2>5 DEF Real
      <4>3. q.n \in Nat /\ q.n + WindowSize < N + SNMod
        BY <1>5, <1>6, <3>3, <4>2
      <4>4. q.n < x + SNMod
        BY <3>3, <3>6, <4>3, UmSizes
      <4>5. QED
        BY <3>2, <3>3, <4>2, <4>4
    <3>7. QED
      BY <1>5, <3>2, <3>4, <3>5, <3>6
  <2>6. QED
    BY <2>3, <2>4, <2>5
<1>14. QED
  BY <1>1, <1>2, <1>10, <1>11, <1>12, <1>13

\* The receiver after it placed a PDU.
LEMMA PlaceData ==
    ASSUME NEW pl, Line(pl), NEW id \in Nat, NEW r, NEW N, NEW u, NEW m,
           RxWindow(r, N, u), Placeable(r, N, u, m),
           m.data = pl[id][m.n], m.data # <<>>, RxData(pl, id, r, u, delivered),
           r.newest \in Nat, NewN(N, m) = Later(r.newest, m.n + 1),
           r.newest # 0 => N = r.newest, r.newest = 0 => N <= m.n
    PROVE  LET s == UpdateReorderingTimer(PlacedRx(r, m))
           IN \E e \in Nat : /\ RxWindow(s, NewN(N, m), e)
                             /\ RxData(pl, id, s, e, Given(r, m).out)
<1> DEFINE s == UpdateReorderingTimer(PlacedRx(r, m))
           B == Marked(r, m)
<1>1. PICK v \in Nat, e \in Nat : PlacedAt(r, N, u, m, v, e)
  BY PlaceParts
<1>2. PICK M : M = NewN(N, m)
  OBVIOUS
<1>3. PICK h : h = Held(r)
  OBVIOUS
<1>4. h.keep = r.keepS0 /\ h.expected = r.expectedSeqNumber /\ h.out = delivered
  BY <1>3 DEF Held
<1>5. /\ KeepData(pl, id, h.keep, h.expected, r.rxBuffer, r.newest)
      /\ Correct(pl, id, Settled(r.rxBuffer, u), h.out)
      /\ BufferData(pl, id, r.rxBuffer)
      /\ \A i \in r.arrived : Waits(r.rxBuffer, h.out, i)
  BY <1>4 DEF RxData
<1>6. /\ M \in Nat /\ N \in Nat /\ u \in Nat /\ m.n \in Nat /\ N <= M /\ m.n < M
      /\ M + WindowSize <= N + SNMod /\ M <= u + SNMod /\ N <= u + WindowSize
      /\ M = Later(r.newest, m.n + 1)
  BY <1>2, NewNumbers
<1>7. /\ u <= v /\ v <= e /\ e <= M /\ M <= v + WindowSize
      /\ Base(r, m) = SnOf(v) /\ r.vrUr = SnOf(u)
      /\ Passed(r, m) = {p \in B : p.n < v}
      /\ RunOf(r, m) = {p \in B : v <= p.n /\ p.n < e}
      /\ \A p \in B : p.n # e
      /\ s.rxBuffer = {p \in B : e < p.n}
      /\ RxWindow(s, M, e)
  BY <1>1, <1>2 DEF PlacedAt, RxWindow
<1>8. /\ Between(B, u, M) /\ r.rxBuffer \subseteq B
  BY <1>2, MarkedIs
<1>9. Given(r, m) = Deliver(Deliver(Deliver(h, Early(r, m), SnOf(u)), From(B, u, v), SnOf(u)),
                            From(B, v, e), SnOf(v))
  <2>1. {p \in B : p.n < v} = From(B, u, v)
    BY <1>8 DEF Between, From
  <2>2. QED
    BY <1>3, <1>7, <2>1 DEF Given, From
<1>10. PICK g : g = Given(r, m)
  OBVIOUS
<1>11. /\ s.keepS0 = g.keep /\ s.expectedSeqNumber = g.expected /\ s.newest = M
       /\ s.arrived = r.arrived \cup Whole(m.data)
  <2>1. IsReceiver(r)
    BY DEF RxWindow
  <2> DEFINE t == PlacedRx(r, m)
  <2>2. /\ IsReceiver(t) /\ t.keepS0 = g.keep /\ t.expectedSeqNumber = g.expected
        /\ t.newest = M /\ t.arrived = r.arrived \cup Whole(m.data)
    BY <1>6, <1>10, <2>1, PlacedRxIs
  <2> HIDE DEF t
  <2>3. QED
    BY <2>2, TimerKeeps DEF t
<1> HIDE DEF s, B
<1> DEFINE rest == Above(B, e)
<1>12. SUFFICES /\ BufferData(pl, id, rest)
                /\ Correct(pl, id, Settled(rest, e), g.out)
                /\ KeepData(pl, id, g.keep, g.expected, rest, M)
                /\ \A i \in r.arrived \cup Whole(m.data) : Waits(rest, g.out, i)
  <2>1. RxData(pl, id, s, e, g.out)
    BY <1>7, <1>11, <1>12 DEF RxData, Above
  <2>2. QED
    BY <1>2, <1>7, <1>10, <2>1 DEF s
<1>13. CASE Early(r, m) = {}
  <2>1. B = r.rxBuffer \cup {Arrival(m)}
    BY <1>13, MarkedIs DEF Placed, B
  <2>2. /\ Arrival(m).n = m.n /\ Arrival(m).data = m.data /\ Arrival(m).tombstone = FALSE
    BY DEF Arrival
  <2>3. Arrival(m) \in Real(B) /\ \A p \in B : p.tombstone => p \in r.rxBuffer
    BY <2>1, <2>2 DEF Real
  <2>4. BufferData(pl, id, B)
    BY <1>5, <2>1, <2>2 DEF BufferData
  <2>5. r.newest <= M /\ r.newest <= u + WindowSize
    <3>1. PICK x \in Nat : x = r.newest
      OBVIOUS
    <3>2. x <= M
      BY <1>6, <3>1 DEF Later
    <3>3. x = 0 \/ x = N
      BY <3>1
    <3>4. x <= u + WindowSize
      BY <1>6, <3>3, UmSizes
    <3>5. QED
      BY <3>1, <3>2, <3>4
  <2>6. ASSUME r.newest # 0 PROVE \A p \in B : p.n + WindowSize < r.newest + SNMod
    <3>1. \A p \in B : p.n \in Nat /\ p.n < M
      BY <1>8 DEF Between
    <3>2. N = r.newest
      BY <2>6
    <3>3. QED
      BY <1>6, <3>1, <3>2, UmSizes, SMTT(30)
  <2>7. M = r.newest \/ \E q \in Real(B) : q.n + 1 = M
    <3>1. M = r.newest \/ m.n + 1 = M
      BY <1>6 DEF Later
    <3>2. QED
      BY <2>2, <2>3, <3>1
  <2>8. Runs(pl, id, B, r.rxBuffer, u, v, e, r.newest, M)
    BY <1>6, <1>7, <1>8, <2>3, <2>4, <2>5, <2>6, <2>7 DEF Runs
  <2>9. Deliver(h, Early(r, m), SnOf(u)) = h
    <3>1. Real(Early(r, m)) = {}
      BY <1>13 DEF Real
    <3>2. QED
      BY <3>1, DeliverNone
  <2>10. g = Deliver(Deliver(h, From(B, u, v), SnOf(u)), From(B, v, e), SnOf(v))
    BY <1>9, <1>10, <2>9
  <2>11. /\ Correct(pl, id, Settled(rest, e), g.out)
         /\ KeepData(pl, id, g.keep, g.expected, rest, M)
         /\ \A i : Out(h.out, i) => Out(g.out, i)
         /\ \A p \in Real(B) : \A i \in Whole(p.data) : Waits(rest, g.out, i)
    <3> HIDE DEF rest
    <3> DEFINE z == Deliver(Deliver(h, From(B, u, v), SnOf(u)), From(B, v, e), SnOf(v))
    <3>1. M \in Nat /\ u \in Nat /\ \A p \in B : p.n # e
      BY <1>6, <1>7
    <3>2. /\ KeepData(pl, id, h.keep, h.expected, r.rxBuffer, r.newest)
          /\ Correct(pl, id, Settled(r.rxBuffer, u), h.out)
      BY <1>5
    <3>3. /\ Correct(pl, id, Settled(rest, e), z.out)
          /\ KeepData(pl, id, z.keep, z.expected, rest, M)
          /\ \A i : Out(h.out, i) => Out(z.out, i)
          /\ \A p \in Real(B) : \A i \in Whole(p.data) : Waits(rest, z.out, i)
      BY <2>8, <3>1, <3>2, RunsSettle DEF rest
    <3> HIDE DEF z
    <3>4. g = z
      BY <2>10 DEF z
    <3>5. QED
      BY <3>3, <3>4
  <2>12. BufferData(pl, id, rest)
    BY <2>4 DEF BufferData, Above
  <2>13. ASSUME NEW i \in r.arrived PROVE Waits(rest, g.out, i)
    <3>1. CASE Out(h.out, i)
      BY <2>11, <3>1 DEF Waits
    <3>2. CASE \E p \in Real(r.rxBuffer) : i \in Whole(p.data)
      <4>1. PICK p \in Real(r.rxBuffer) : i \in Whole(p.data)
        BY <3>2
      <4>2. p \in Real(B)
        BY <1>8 DEF Real
      <4>3. QED
        BY <2>11, <4>1, <4>2
    <3>3. QED
      BY <1>5, <3>1, <3>2 DEF Waits
  <2>14. ASSUME NEW i \in Whole(m.data) PROVE Waits(rest, g.out, i)
    BY <2>2, <2>3, <2>11
  <2>15. QED
    BY <2>11, <2>12, <2>13, <2>14
<1>14. CASE Early(r, m) # {}
  <2> DEFINE a == Arrival(m)
             t == [Arrival(m) EXCEPT !.tombstone = TRUE]
  <2>1. /\ Early(r, m) = {a} /\ r.rxBuffer = {} /\ N <= m.n /\ outOfOrderDelivery
        /\ B = {t}
    BY <1>14, EarlyIs, MarkedIs DEF B
  <2>2. /\ a.n = m.n /\ a.data = m.data /\ a.tombstone = FALSE /\ a.sn = m.sn
        /\ t.n = m.n /\ t.data = m.data /\ t.tombstone = TRUE
    BY DEF Arrival
  <2>3. m.sn = SnOf(m.n) /\ u <= m.n /\ m.n < u + SNMod /\ m.n + WindowSize < N + SNMod
    <3>1. m.sn = SnOf(m.n) /\ u <= m.n /\ m.n + WindowSize < N + SNMod
      BY DEF Placeable
    <3>2. PICK x : x = m.n
      OBVIOUS
    <3>3. x < u + SNMod
      BY <1>6, <3>2, UmSizes
    <3>4. QED
      BY <3>1, <3>2, <3>3
  <2> HIDE DEF a, t
  <2>4. Between({a}, u, u + SNMod)
    BY <1>6, <2>2, <2>3 DEF Between
  <2>5. Real({a}) = {a}
    BY <2>2 DEF Real
  <2>6. M = m.n + 1
    BY <1>2, <1>6, <2>1 DEF NewN
  <2>7. Settled(r.rxBuffer, u) = {n \in Nat : n < u}
    BY <2>1 DEF Settled, Nums
  <2>8. ASSUME h.keep # <<>>
        PROVE  \E x : HoldsPiece(pl, id, h.keep, h.expected, x) /\ Near(x, {a})
    <3>1. PICK x \in 1 .. r.newest :
             /\ HoldsPiece(pl, id, h.keep, h.expected, x)
             /\ r.newest <= x + WindowSize \/ \E p \in Real(r.rxBuffer) : p.n < x + SNMod
      BY <1>5, <2>8 DEF KeepData
    <3>2. r.newest # 0 /\ N = r.newest /\ N <= x + WindowSize
      <4>1. Real(r.rxBuffer) = {}
        BY <2>1 DEF Real
      <4>2. QED
        BY <3>1, <4>1
    <3>3. x \in Nat /\ x <= N
      BY <3>2
    <3>4. x < m.n + SNMod /\ m.n < x + SNMod
      <4>1. PICK n : n = m.n
        OBVIOUS
      <4>2. /\ n \in Nat /\ N \in Nat /\ N <= n /\ x <= N /\ N <= x + WindowSize
            /\ n + WindowSize < N + SNMod
        BY <1>6, <2>1, <2>3, <3>2, <3>3, <4>1
      <4>3. x < n + SNMod /\ n < x + SNMod
        BY <3>3, <4>2, UmSizes
      <4>4. QED
        BY <4>1, <4>3
    <3>5. QED
      BY <2>2, <3>1, <3>4 DEF Near
  <2>9. PICK y : y = Deliver(h, {a}, SnOf(u))
    OBVIOUS
  <2>10. Delivers(y, h, pl, id, Settled(r.rxBuffer, u), {a})
    <3>1. h.keep \in Seq(Byte) /\ h.expected \in Sn
      BY <1>5 DEF KeepData
    <3>2. Settled(r.rxBuffer, u) \in SUBSET Nat /\ m.n \notin Settled(r.rxBuffer, u)
      BY <1>6, <2>3, <2>7
    <3>3. /\ \A p \in {a} : p.data = pl[id][p.n] /\ p.data # <<>>
          /\ \A p \in Real({a}) :
                /\ p.n \notin Settled(r.rxBuffer, u)
                /\ outOfOrderDelivery \/ \A x \in Settled(r.rxBuffer, u) : x < p.n
      BY <2>1, <2>2, <2>5, <3>2
    <3>4. /\ u \in Nat /\ Correct(pl, id, Settled(r.rxBuffer, u), h.out)
          /\ h.keep # <<>> =>
                \E x : HoldsPiece(pl, id, h.keep, h.expected, x) /\ Near(x, Real({a}))
      BY <1>5, <1>6, <2>5, <2>8
    <3>5. Delivers(Deliver(h, {a}, SnOf(u)), h, pl, id, Settled(r.rxBuffer, u), Real({a}))
      BY <2>4, <3>1, <3>2, <3>3, <3>4, DeliverKeeps
    <3>6. QED
      BY <2>5, <2>9, <3>5
  <2>11. g = y
    <3>1. Real(From(B, u, v)) = {} /\ Real(From(B, v, e)) = {}
      BY <2>1, <2>2 DEF Real, From
    <3>2. Deliver(y, From(B, u, v), SnOf(u)) = y
      BY <3>1, DeliverNone
    <3>3. Deliver(y, From(B, v, e), SnOf(v)) = y
      BY <3>1, DeliverNone
    <3>4. g = Deliver(Deliver(y, From(B, u, v), SnOf(u)), From(B, v, e), SnOf(v))
      BY <1>9, <1>10, <2>1, <2>9
    <3>5. QED
      BY <3>2, <3>3, <3>4
  <2>12. Correct(pl, id, Settled(rest, e), g.out)
    <3>1. m.n \in Settled(rest, e)
      <4>1. m.n # e
        BY <1>7, <2>1, <2>2
      <4>2. m.n < e \/ e < m.n
        BY <1>6, <4>1
      <4>3. CASE m.n < e
        BY <1>6, <4>3 DEF Settled
      <4>4. CASE e < m.n
        <5>1. t \in rest
          BY <2>1, <2>2, <4>4 DEF Above
        <5>2. QED
          BY <2>2, <5>1 DEF Settled, Nums
      <4>5. QED
        BY <4>2, <4>3, <4>4
    <3>2. \A n \in Nat : n < u => n < e
      BY <1>6, <1>7
    <3>3. Settled(r.rxBuffer, u) \cup Nums({a}) \subseteq Settled(rest, e)
      BY <2>2, <2>7, <3>1, <3>2 DEF Settled, Nums
    <3>4. Correct(pl, id, Settled(r.rxBuffer, u) \cup Nums({a}), g.out)
      BY <2>10, <2>11 DEF Delivers
    <3>5. QED
      BY <3>3, <3>4, CorrectMore
  <2>13. KeepData(pl, id, g.keep, g.expected, rest, M)
    <3>1. g.keep \in Seq(Byte) /\ g.expected \in Sn
      BY <2>10, <2>11 DEF Delivers
    <3>2. ASSUME g.keep # <<>> PROVE HoldsPiece(pl, id, g.keep, g.expected, M)
      BY <2>2, <2>6, <2>10, <2>11, <3>2 DEF Delivers
    <3>3. M \in 1 .. M /\ M <= M + WindowSize
      BY <1>6, UmSizes, SMTT(30)
    <3>4. QED
      BY <3>1, <3>2, <3>3 DEF KeepData
  <2>14. BufferData(pl, id, rest)
    BY <2>1, <2>2 DEF BufferData, Above
  <2>15. ASSUME NEW i \in r.arrived PROVE Waits(rest, g.out, i)
    <3>1. Out(h.out, i)
      BY <1>5, <2>1 DEF Waits, Real
    <3>2. QED
      BY <2>10, <2>11, <3>1 DEF Delivers, Waits
  <2>16. ASSUME NEW i \in Whole(m.data) PROVE Waits(rest, g.out, i)
    BY <2>2, <2>10, <2>11 DEF Delivers, Waits
  <2>17. QED
    BY <2>12, <2>13, <2>14, <2>15, <2>16
<1>15. QED
  BY <1>13, <1>14

\* The window tells which number VR(UR) is.
LEMMA SameBase ==
    ASSUME NEW r, NEW N, NEW u, RxWindow(r, N, u),
           NEW e \in Nat, e <= N, N <= e + WindowSize, r.vrUr = SnOf(e)
    PROVE  u = e
<1>1. N \in Nat /\ u \in Nat /\ u <= N /\ N <= u + WindowSize /\ r.vrUr = SnOf(u)
  BY DEF RxWindow
<1>2. u < e + SNMod /\ e < u + SNMod
  BY <1>1, UmSizes
<1>3. QED
  BY <1>1, <1>2, SnUnique

\* The receiver after t-Reordering expired.
LEMMA ExpiryData ==
    ASSUME NEW pl, Line(pl), NEW id \in Nat, NEW u, RxWindow(rx, rx.newest, u),
           rx.reorderingTimer, RxData(pl, id, rx, u, delivered),
           NEW k \in 0 .. SNMod - 1, IsRun(rx.rxBuffer, rx.vrUx, k), NEW open
    PROVE  \E e \in Nat :
              /\ e <= rx.newest /\ rx.newest <= e + WindowSize
              /\ ExpiredRx(AtExpiry(k), open).vrUr = SnOf(e)
              /\ RxData(pl, id, ExpiredRx(AtExpiry(k), open), e, AtExpiry(k).st.out)
<1>1. PICK N : N = rx.newest
  OBVIOUS
<1>2. PICK at : at = AtExpiry(k)
  OBVIOUS
<1>3. PICK e \in Nat :
         /\ u < e /\ e <= N
         /\ at.ur = SnOf(e) /\ at.buffer = {p \in rx.rxBuffer : e < p.n}
         /\ at.st = Deliver(Held(rx), {p \in rx.rxBuffer : p.n < e}, rx.vrUr)
         /\ \A p \in rx.rxBuffer : p.n # e
  BY <1>1, <1>2, ExpiryIs
<1>4. /\ IsReceiver(rx) /\ N \in Nat /\ u \in Nat /\ u <= N /\ N <= u + WindowSize
      /\ rx.vrUr = SnOf(u) /\ Between(rx.rxBuffer, u + 1, N)
  BY <1>1 DEF RxWindow
<1> DEFINE s == ExpiredRx(at, open)
<1>5. /\ s.rxBuffer = at.buffer /\ s.vrUr = at.ur /\ s.newest = N /\ s.keepS0 = <<>>
      /\ s.expectedSeqNumber = at.st.expected /\ s.arrived = rx.arrived
  BY <1>1, <1>4 DEF IsReceiver, ExpiredRx, RxFields
<1> HIDE DEF s
<1>6. PICK h : h = Held(rx)
  OBVIOUS
<1>7. h.keep = rx.keepS0 /\ h.expected = rx.expectedSeqNumber /\ h.out = delivered
  BY <1>6 DEF Held
<1> DEFINE B == rx.rxBuffer
           rest == Above(B, e)
<1>8. /\ KeepData(pl, id, h.keep, h.expected, B, N)
      /\ Correct(pl, id, Settled(B, u), h.out)
      /\ BufferData(pl, id, B)
      /\ \A i \in rx.arrived : Waits(B, h.out, i)
  BY <1>1, <1>7 DEF RxData
<1> HIDE DEF B, rest
<1>9. Between(B, u, N)
  <2>1. u + 1 \in Nat /\ u <= u + 1 /\ N <= N
    BY <1>4
  <2>2. QED
    BY <1>4, <2>1, BetweenWider DEF B
<1>10. Runs(pl, id, B, B, u, e, e, N, N)
  <2>1. \A p \in B : p.n + WindowSize < N + SNMod
    BY <1>4, <1>9, UmSizes DEF Between
  <2>2. /\ u <= e /\ e <= e /\ e <= N /\ N <= e + WindowSize /\ N <= N /\ N <= u + SNMod
    BY <1>3, <1>4, UmSizes
  <2>3. QED
    BY <1>4, <1>8, <1>9, <2>1, <2>2 DEF Runs
<1>11. PICK z : z = Deliver(Deliver(h, From(B, u, e), SnOf(u)), From(B, e, e), SnOf(e))
  OBVIOUS
<1>12. /\ Correct(pl, id, Settled(rest, e), z.out)
       /\ KeepData(pl, id, z.keep, z.expected, rest, N)
       /\ \A i : Out(h.out, i) => Out(z.out, i)
       /\ \A p \in Real(B) : \A i \in Whole(p.data) : Waits(rest, z.out, i)
  <2>1. \A p \in B : p.n # e
    BY <1>3 DEF B
  <2>2. QED
    BY <1>4, <1>8, <1>10, <1>11, <2>1, RunsSettle DEF rest
<1>13. z = at.st
  <2>1. Real(From(B, e, e)) = {}
    <3>1. \A p \in B : p.n \in Nat
      BY <1>9 DEF Between
    <3>2. QED
      BY <3>1 DEF Real, From
  <2>2. z = Deliver(h, From(B, u, e), SnOf(u))
    BY <1>11, <2>1, DeliverNone
  <2>3. From(B, u, e) = {p \in rx.rxBuffer : p.n < e}
    BY <1>9 DEF Between, From, B
  <2>4. QED
    BY <1>3, <1>4, <1>6, <2>2, <2>3
<1>14. s.rxBuffer = rest
  BY <1>3, <1>5 DEF rest, Above, B
<1>15. BufferData(pl, id, rest)
  BY <1>8 DEF BufferData, Above, rest
<1>16. KeepData(pl, id, <<>>, z.expected, rest, N)
  <2>1. <<>> \in Seq(Byte) /\ z.expected \in Sn
    BY <1>12, EmptySeq DEF KeepData
  <2>2. QED
    BY <2>1 DEF KeepData
<1>17. ASSUME NEW i \in rx.arrived PROVE Waits(rest, z.out, i)
  <2>1. CASE Out(h.out, i)
    BY <1>12, <2>1 DEF Waits
  <2>2. CASE \E p \in Real(B) : i \in Whole(p.data)
    BY <1>12, <2>2
  <2>3. QED
    BY <1>8, <2>1, <2>2 DEF Waits
<1>18. RxData(pl, id, s, e, at.st.out)
  BY <1>5, <1>12, <1>13, <1>14, <1>15, <1>16, <1>17 DEF RxData
<1>19. e <= N /\ N <= e + WindowSize /\ s.vrUr = SnOf(e)
  BY <1>3, <1>4, <1>5, UmSizes
<1>20. QED
  BY <1>1, <1>2, <1>18, <1>19 DEF s

\* A new receiver of a later transmitter goes on where the old one ended.
LEMMA FreshData ==
    ASSUME NEW pl, NEW id, NEW out, Correct(pl, id, {}, out)
    PROVE  RxData(pl, id, InitialRx, 0, out)
<1>1. /\ InitialRx.rxBuffer = {} /\ InitialRx.keepS0 = <<>> /\ InitialRx.arrived = {}
      /\ InitialRx.expectedSeqNumber = 0 /\ InitialRx.newest = 0
  BY DEF InitialRx
<1>2. 0 \in Sn /\ <<>> \in Seq(Byte)
  BY EmptySeq, ZeroIsSn
<1>3. Settled({}, 0) = {}
  BY DEF Settled, Nums
<1>4. BufferData(pl, id, {}) /\ KeepData(pl, id, <<>>, 0, {}, 0)
  BY <1>2 DEF BufferData, KeepData
<1>5. QED
  BY <1>1, <1>3, <1>4 DEF RxData

\* Nothing was delivered.
LEMMA NothingCorrect ==
    ASSUME NEW pl, NEW id, NEW D
    PROVE  Correct(pl, id, D, <<>>)
<1>1. <<>> \in Seq(Seq(Byte)) /\ Len(<<>>) = 0
  BY EmptySeq
<1>2. PICK f : f = [j \in 1 .. 0 |-> 1]
  OBVIOUS
<1>3. f \in [1 .. 0 -> 1 .. Len(SduLen)]
  BY <1>2
<1>4. PICK out : out = <<>>
  OBVIOUS
<1>5. out \in Seq(Seq(Byte)) /\ f \in [1 .. Len(out) -> 1 .. Len(SduLen)]
      /\ \A j \in 1 .. Len(out) : FALSE
  BY <1>1, <1>3, <1>4
<1>6. Correct(pl, id, D, out)
  BY <1>5 DEF Correct
<1>7. QED
  BY <1>4, <1>6

\* What is known of a receiver that placed nothing is known wherever its window is.
LEMMA DataAhead ==
    ASSUME NEW pl, NEW id \in Nat, NEW r, NEW u \in Nat, NEW v \in Nat, u <= v, NEW out,
           RxData(pl, id, r, u, out)
    PROVE  RxData(pl, id, r, v, out)
<1>1. Settled(r.rxBuffer, u) \subseteq Settled(r.rxBuffer, v)
  <2>1. \A n \in Nat : n < u => n < v
    OBVIOUS
  <2>2. QED
    BY <2>1 DEF Settled
<1>2. Correct(pl, id, Settled(r.rxBuffer, v), out)
  BY <1>1, CorrectMore DEF RxData
<1>3. QED
  BY <1>2 DEF RxData

-----------------------------------------------------------------------------
(* The data of the transmitter and of the flow.                            *)

\* What the transmitters built: the present one its first PDUs, the later ones none.
Built(pl) ==
    /\ pl \in [Nat -> [Nat -> Seq(Byte)]] /\ Line(pl)
    /\ \A n \in Nat : pl[rlcEntityId][n] # <<>> <=> n < sent
    /\ \A a, n \in Nat : a > rlcEntityId => pl[a][n] = <<>>

\* What waits continues the last PDU, and comes after all that was built.
Coming(pl) ==
    /\ IsStream(txBuffer)
    /\ txBuffer # <<>> => After(txBuffer[Len(txBuffer)]) = <<accepted + 1, 1>>
    /\ \A n \in Nat : n + 1 = sent =>
          After(pl[rlcEntityId][n][Len(pl[rlcEntityId][n])])
             = IF txBuffer = <<>> THEN <<accepted + 1, 1>> ELSE txBuffer[1]
    /\ \A b \in ToSet(txBuffer) : b[1] <= accepted
    /\ \A a, n \in Nat : \A b \in ToSet(pl[a][n]) : b[1] <= accepted
    /\ \A n \in Nat : \A b \in ToSet(pl[rlcEntityId][n]), c \in ToSet(txBuffer) : Before(b, c)
    /\ \A a, n \in Nat : a < rlcEntityId =>
          \A b \in ToSet(pl[a][n]), c \in ToSet(txBuffer) : b[1] < c[1]

\* The PDUs in flight are copies of what was built.
Flight(pl) ==
    \A m \in pdus : m \in UmdPdu /\ m.data = pl[m.id][m.n] /\ m.data # <<>>

\* What the receiver has made of them.
Reception(pl) ==
    \E u \in Nat : RxWindow(rx, rx.newest, u) /\ RxData(pl, peerRlcEntityId, rx, u, delivered)

\* The variables of which nothing else is to be known.
Ranges ==
    /\ outOfOrderDelivery \in BOOLEAN /\ bsrTimer \in BOOLEAN
    /\ accepted \in 0 .. Len(SduLen)
    /\ troubles \in 0 .. MaxTrouble /\ receivers \in 0 .. MaxRestart

Data(pl) == Built(pl) /\ Coming(pl) /\ Flight(pl) /\ Reception(pl)

DataInv == Ranges /\ \E pl : Data(pl)

\* The empty sequence is a stream without bytes.
LEMMA NoBytes == IsStream(<<>>) /\ ToSet(<<>>) = {}
<1>1. <<>> \in Seq(Byte) /\ Len(<<>>) = 0 /\ DOMAIN <<>> = {}
  BY EmptySeq
<1>2. ToSet(<<>>) = {}
  BY <1>1 DEF ToSet
<1>3. IsStream(<<>>)
  <2>1. PICK d : d = <<>>
    OBVIOUS
  <2>2. d \in Seq(Byte) /\ Len(d) = 0
    BY <1>1, <2>1
  <2>3. IsStream(d)
    BY <2>2 DEF IsStream
  <2>4. QED
    BY <2>1, <2>3
<1>4. QED
  BY <1>2, <1>3

\* What the receiver has is known by the same data in the next state.
LEMMA SameReception ==
    ASSUME NEW pl, NEW id, NEW r, NEW u \in Nat, NEW out,
           RxWindow(r, r.newest, u), RxData(pl, id, r, u, out),
           outOfOrderDelivery' = outOfOrderDelivery,
           peerRlcEntityId' = id, rx' = r, delivered' = out
    PROVE  Reception(pl)'
<1>1. RxWindow(rx', rx'.newest, u) /\ RxData(pl, peerRlcEntityId', rx', u, delivered')
  OBVIOUS
<1>2. RxData(pl, peerRlcEntityId, rx, u, delivered)'
  BY <1>1, SMTT(30) DEF RxData, Correct, BufferData
<1>3. RxWindow(rx, rx.newest, u)'
  BY <1>1 DEF RxWindow, IsReceiver
<1>4. QED
  BY <1>2, <1>3 DEF Reception

\* What was built stays: the receiver does not mind what is built later.
LEMMA DataGrows ==
    ASSUME NEW pl, NEW new, \A a, n \in Nat : pl[a][n] # <<>> => new[a][n] = pl[a][n],
           NEW id \in Nat, NEW r, \A p \in r.rxBuffer : p.n \in Nat, NEW u, NEW out,
           RxData(pl, id, r, u, out)
    PROVE  RxData(new, id, r, u, out)
<1>1. BufferData(new, id, r.rxBuffer)
  BY DEF RxData, BufferData
<1>2. \A a, n \in Nat : \A b \in ToSet(pl[a][n]) : b \in ToSet(new[a][n])
  BY NoBytes
<1>3. \A D, i : Ended(pl, id, D, i) => Ended(new, id, D, i)
  BY <1>2 DEF Ended
<1>4. Correct(new, id, Settled(r.rxBuffer, u), out)
  BY <1>3 DEF RxData, Correct
<1>5. ASSUME NEW keep, NEW expected, NEW e, HoldsPiece(pl, id, keep, expected, e)
      PROVE  HoldsPiece(new, id, keep, expected, e)
  <2>1. PICK x : x = e - 1
    OBVIOUS
  <2>2. x \in Nat /\ pl[id][x] # <<>>
    BY <1>5, <2>1 DEF HoldsPiece
  <2>3. new[id][x] = pl[id][x]
    BY <2>2
  <2>4. QED
    BY <1>5, <2>1, <2>3 DEF HoldsPiece
<1>6. KeepData(new, id, r.keepS0, r.expectedSeqNumber, r.rxBuffer, r.newest)
  BY <1>5 DEF RxData, KeepData
<1>7. QED
  BY <1>1, <1>4, <1>6 DEF RxData

\* At the start nothing was built.
LEMMA DataInit == Init => DataInv
<1> SUFFICES ASSUME Init PROVE DataInv
  OBVIOUS
<1>1. PICK pl : pl = [a \in Nat |-> [n \in Nat |-> <<>>]]
  OBVIOUS
<1>2. /\ pl \in [Nat -> [Nat -> Seq(Byte)]] /\ \A a, n \in Nat : pl[a][n] = <<>>
  BY <1>1, EmptySeq
<1>3. IsStream(<<>>) /\ ToSet(<<>>) = {}
  BY NoBytes
<1>4. Built(pl)
  <2>1. Line(pl)
    BY <1>2, <1>3 DEF Line
  <2>2. sent = 0 /\ rlcEntityId \in Nat /\ \A n \in Nat : ~ (n < 0)
    BY DEF Init
  <2>3. QED
    BY <1>2, <2>1, <2>2 DEF Built
<1>5. Coming(pl)
  <2>1. \A n \in Nat : n + 1 # sent
    BY DEF Init
  <2>2. txBuffer = <<>> /\ rlcEntityId \in Nat
    BY DEF Init
  <2>3. QED
    BY <1>2, <1>3, <2>1, <2>2 DEF Coming
<1>6. Flight(pl)
  BY DEF Init, Flight
<1>7. Reception(pl)
  <2>1. RxWindow(InitialRx, 0, 0)
    <3>1. TxInv
      BY WindowInit DEF WindowInv
    <3>2. PICK u \in Nat : RxWindow(InitialRx, InitialRx.newest, u)
      BY <3>1, InitialRxIs DEF RxInv
    <3>3. InitialRx.newest = 0
      BY DEF InitialRx
    <3>4. u = 0
      BY <3>2, <3>3 DEF RxWindow
    <3>5. QED
      BY <3>2, <3>3, <3>4
  <2>2. RxData(pl, 0, InitialRx, 0, <<>>)
    BY NothingCorrect, FreshData
  <2>3. rx = InitialRx /\ InitialRx.newest = 0 /\ delivered = <<>> /\ peerRlcEntityId = 0
    BY DEF Init, InitialRx
  <2>4. QED
    BY <2>1, <2>2, <2>3 DEF Reception
<1>8. Ranges
  <2>1. Len(SduLen) \in Nat
    BY UmAssumption, LenProperties
  <2>2. outOfOrderDelivery \in BOOLEAN /\ bsrTimer \in BOOLEAN
    BY Zenon DEF Init
  <2>3. /\ accepted \in 0 .. Len(SduLen)
        /\ troubles \in 0 .. MaxTrouble /\ receivers \in 0 .. MaxRestart
    BY <2>1, UmAssumption DEF Init
  <2>4. QED
    BY <2>2, <2>3 DEF Ranges
<1>9. QED
  BY <1>4, <1>5, <1>6, <1>7, <1>8 DEF DataInv, Data

\* The steps that leave the transmitter alone, and build no PDU.
LEMMA SameSender ==
    ASSUME NEW pl, Built(pl), Coming(pl), Flight(pl),
           UNCHANGED <<rlcEntityId, txBuffer, accepted, sent>>, pdus' \subseteq pdus
    PROVE  Built(pl)' /\ Coming(pl)' /\ Flight(pl)'
<1>1. Built(pl)'
  BY DEF Built
<1>2. Coming(pl)'
  BY DEF Coming
<1>3. Flight(pl)'
  BY DEF Flight
<1>4. QED
  BY <1>1, <1>2, <1>3

\* The receiver is left alone.
LEMMA ReceptionStays ==
    ASSUME NEW pl, Reception(pl), UNCHANGED <<outOfOrderDelivery, rxVars>>
    PROVE  Reception(pl)'
<1>1. PICK u \in Nat : RxWindow(rx, rx.newest, u) /\ RxData(pl, peerRlcEntityId, rx, u, delivered)
  BY DEF Reception
<1>2. PICK r : r = rx
  OBVIOUS
<1>3. PICK id : id = peerRlcEntityId
  OBVIOUS
<1>4. PICK out : out = delivered
  OBVIOUS
<1>5. QED
  BY <1>1, <1>2, <1>3, <1>4, SameReception DEF rxVars

\* An SDU is accepted and follows what waits.
LEMMA DataTransmitPdcpPdu ==
    ASSUME WindowInv, Ranges, NEW pl, Data(pl), TransmitPdcpPdu
    PROVE  Data(pl)'
<1> DEFINE i == accepted + 1
<1>1. /\ UNCHANGED <<rlcEntityId, sent, outOfOrderDelivery, rxVars, pdus>>
      /\ accepted < Len(SduLen)
      /\ \/ UNCHANGED <<txBuffer, accepted>>
         \/ txBuffer' = txBuffer \o Sdu(i) /\ accepted' = i
  BY DEF TransmitPdcpPdu, netVars
<1>2. Reception(pl)'
  BY <1>1, ReceptionStays DEF Data
<1>3. CASE UNCHANGED <<txBuffer, accepted>>
  BY <1>1, <1>2, <1>3, SameSender DEF Data
<1>4. CASE txBuffer' = txBuffer \o Sdu(i) /\ accepted' = i
  <2>1. accepted \in Nat /\ i \in 1 .. Len(SduLen) /\ Len(SduLen) \in Nat
    <3>1. Len(SduLen) \in Nat
      BY LenProperties, UmAssumption
    <3>2. QED
      BY <1>1, <3>1 DEF Ranges
  <2> DEFINE w == txBuffer \o Sdu(i)
  <2>2. IsStream(txBuffer) /\ (txBuffer # <<>> => After(txBuffer[Len(txBuffer)]) = <<i, 1>>)
    BY DEF Data, Coming
  <2>3. /\ IsStream(w) /\ w # <<>>
        /\ w[1] = IF txBuffer = <<>> THEN <<i, 1>> ELSE txBuffer[1]
        /\ After(w[Len(w)]) = <<i + 1, 1>>
        /\ \A k \in 1 .. Len(w) : w[k] \in ToSet(txBuffer) \/ w[k][1] = i
    BY <2>1, <2>2, UmSdus, StreamGoesOn
  <2>4. DOMAIN w = 1 .. Len(w)
    BY <2>3, UmSdus, StreamBytes
  <2> HIDE DEF w
  <2>5. \A b \in ToSet(w) : b \in ToSet(txBuffer) \/ b[1] = i
    BY <2>3, <2>4 DEF ToSet
  <2>6. \A d : IsStream(d) => \A b \in ToSet(d) : b[1] \in Nat
    BY UmSdus, StreamBytes DEF ToSet
  <2>7. \A a, n \in Nat : \A b \in ToSet(pl[a][n]) : b[1] \in Nat /\ b[1] <= accepted
    BY <2>6 DEF Data, Built, Line, Coming
  <2>8. \A b \in ToSet(txBuffer) : b[1] \in Nat /\ b[1] <= accepted
    BY <2>2, <2>6 DEF Data, Coming
  <2>9. rlcEntityId \in Nat
    BY DEF WindowInv, TxInv
  <2>10. Coming(pl)'
    <3>1. \A n \in Nat : n + 1 = sent =>
             After(pl[rlcEntityId][n][Len(pl[rlcEntityId][n])]) = w[1]
      BY <2>3 DEF Data, Coming
    <3>2. \A b \in ToSet(w) : b[1] <= i
      <4>1. \A x \in Nat : x <= accepted => x <= i
        BY <2>1
      <4>2. i <= i
        BY <2>1
      <4>3. QED
        BY <2>5, <2>8, <4>1, <4>2
    <3>3. \A a, n \in Nat : \A b \in ToSet(pl[a][n]) : b[1] <= i
      BY <2>1, <2>7
    <3>4. \A n \in Nat : \A b \in ToSet(pl[rlcEntityId][n]), c \in ToSet(w) : Before(b, c)
      <4>1. SUFFICES ASSUME NEW n \in Nat, NEW b \in ToSet(pl[rlcEntityId][n]), NEW c \in ToSet(w)
                     PROVE  Before(b, c)
        OBVIOUS
      <4>2. CASE c \in ToSet(txBuffer)
        BY <4>2 DEF Data, Coming
      <4>3. CASE c[1] = i
        <5>1. b[1] < c[1]
          BY <2>1, <2>7, <2>9, <4>3
        <5>2. QED
          BY <5>1 DEF Before
      <4>4. QED
        BY <2>5, <4>2, <4>3
    <3>5. ASSUME NEW a \in Nat, NEW n \in Nat, a < rlcEntityId,
                 NEW b \in ToSet(pl[a][n]), NEW c \in ToSet(w)
          PROVE  b[1] < c[1]
      <4>1. CASE c \in ToSet(txBuffer)
        BY <3>5, <4>1 DEF Data, Coming
      <4>2. CASE c[1] = i
        BY <2>1, <2>7, <4>2
      <4>3. QED
        BY <2>5, <4>1, <4>2
    <3>6. txBuffer' = w /\ accepted' = i /\ rlcEntityId' = rlcEntityId /\ sent' = sent
      BY <1>1, <1>4 DEF w
    <3>7. QED
      BY <2>3, <3>1, <3>2, <3>3, <3>4, <3>5, <3>6 DEF Coming
  <2>11. Built(pl)' /\ Flight(pl)'
    BY <1>1 DEF Data, Built, Flight
  <2>12. QED
    BY <1>2, <2>10, <2>11 DEF Data
<1>5. QED
  BY <1>1, <1>3, <1>4

\* The front of a stream comes before what is left.
LEMMA CutOrder ==
    ASSUME NEW d, IsStream(d), NEW k \in 1 .. Len(d)
    PROVE  \A x \in ToSet(SubSeq(d, 1, k)), y \in ToSet(SubSeq(d, k + 1, Len(d))) : Before(x, y)
<1> DEFINE a == SubSeq(d, 1, k)
           b == SubSeq(d, k + 1, Len(d))
           n == Len(d)
<1>1. n \in Nat /\ k \in Nat /\ 1 <= k /\ k <= n /\ d \in Seq(Byte) /\ DOMAIN d = 1 .. n
  BY UmSdus, StreamBytes
<1>2. /\ DOMAIN a = 1 .. k /\ \A i \in 1 .. k : a[i] = d[i]
      /\ DOMAIN b = 1 .. n - k /\ \A i \in 1 .. n - k : b[i] = d[k + i]
  <2>1. \A i \in 1 .. n : d[i] \in Byte
    BY UmSdus, StreamBytes
  <2>2. /\ Len(a) = k /\ DOMAIN a = 1 .. Len(a) /\ \A i \in 1 .. Len(a) : a[i] = d[1 + i - 1]
    BY <1>1, <2>1, SubSeqProperties
  <2>3. /\ Len(b) = n - k /\ DOMAIN b = 1 .. Len(b)
        /\ \A i \in 1 .. Len(b) : b[i] = d[(k + 1) + i - 1]
    <3>1. CASE k = n
      <4>1. b = <<>>
        BY <1>1, <3>1, SubSeqProperties
      <4>2. Len(<<>>) = 0 /\ DOMAIN <<>> = {} /\ n - k = 0
        BY <1>1, <3>1, EmptySeq
      <4>3. 1 .. 0 = {}
        OBVIOUS
      <4>4. QED
        BY <4>1, <4>2, <4>3
    <3>2. CASE k < n
      <4>1. k + 1 \in 1 .. n /\ n \in 1 .. n /\ n - (k + 1) + 1 = n - k /\ k + 1 <= n + 1
        BY <1>1, <3>2
      <4>2. QED
        BY <1>1, <2>1, <4>1, SubSeqProperties
    <3>3. QED
      BY <1>1, <3>1, <3>2
  <2>4. \A i \in Nat : 1 + i - 1 = i /\ (k + 1) + i - 1 = k + i
    BY <1>1
  <2>5. \A i \in 1 .. k : i \in Nat
    BY <1>1
  <2>6. \A i \in 1 .. n - k : i \in Nat
    BY <1>1
  <2> HIDE DEF a, b
  <2>7. QED
    BY <2>2, <2>3, <2>4, <2>5, <2>6
<1>3. ASSUME NEW i \in 1 .. k, NEW j \in 1 .. n - k PROVE Before(d[i], d[k + j])
  <2>1. /\ i \in 1 .. n /\ k + j \in 1 .. n /\ k + j \in i .. n /\ (k + j) - i \in Nat \ {0}
    BY <1>1
  <2>2. d[i][1] < d[k + j][1] \/ (d[i][1] = d[k + j][1] /\ d[k + j][2] = d[i][2] + ((k + j) - i))
    BY <2>1, UmSdus, StreamOrder
  <2>3. d[i][2] \in Nat
    BY <2>1, UmSdus, StreamBytes
  <2>4. PICK x : x = d[i]
    OBVIOUS
  <2>5. PICK y : y = d[k + j]
    OBVIOUS
  <2>6. PICK t \in Nat \ {0} : t = (k + j) - i
    BY <2>1
  <2>7. x[1] = y[1] => x[2] < y[2] \/ x[1] < y[1]
    <3>1. x[1] < y[1] \/ y[2] = x[2] + t
      BY <2>2, <2>4, <2>5, <2>6
    <3>2. x[2] < x[2] + t
      BY <2>3, <2>4
    <3>3. QED
      BY <3>1, <3>2
  <2>8. QED
    BY <2>2, <2>4, <2>5, <2>7 DEF Before
<1>4. \A x \in ToSet(a) : \E i \in 1 .. k : x = d[i]
  BY <1>2 DEF ToSet
<1>5. \A y \in ToSet(b) : \E j \in 1 .. n - k : y = d[k + j]
  BY <1>2 DEF ToSet
<1> HIDE DEF a, b
<1>6. \A x \in ToSet(a), y \in ToSet(b) : Before(x, y)
  BY <1>3, <1>4, <1>5
<1>7. QED
  BY <1>6 DEF a, b

\* A PDU takes the front of the transmission buffer, and is the next one built.
LEMMA DataTransmitPdu ==
    ASSUME WindowInv, NEW pl, Data(pl), NEW bytes \in 1 .. MaxDataField, TransmitPdu(bytes)
    PROVE  \E new : Data(new)'
<1>1. PICK k \in 1 .. Len(txBuffer) :
         /\ txBuffer' = SubSeq(txBuffer, k + 1, Len(txBuffer))
         /\ pdus' = pdus \cup {[id |-> rlcEntityId, n |-> sent, sn |-> sequenceNumber,
                                data |-> SubSeq(txBuffer, 1, k), time |-> clock']}
  BY DEF TransmitPdu
<1>2. /\ sent' = sent + 1 /\ txBuffer # <<>> /\ UNCHANGED <<rlcEntityId, accepted>>
      /\ UNCHANGED <<outOfOrderDelivery, rxVars>>
      /\ clock' \in {sent, clock}
  BY DEF TransmitPdu
<1>3. PICK d : d = txBuffer
  OBVIOUS
<1>4. PICK id : id = rlcEntityId
  OBVIOUS
<1>5. PICK S : S = sent
  OBVIOUS
<1>6. id \in Nat /\ S \in Nat /\ S + 1 \in Nat /\ sequenceNumber \in Sn /\ clock' \in Nat
  <2>1. rlcEntityId \in Nat /\ sent \in Nat /\ clock \in Nat /\ sequenceNumber = SnOf(sent)
    BY DEF WindowInv, TxInv
  <2>2. clock' \in Nat
    BY <1>2, <2>1
  <2>3. sequenceNumber \in Sn
    BY <2>1, DivMod
  <2>4. S \in Nat /\ S + 1 \in Nat
    BY <1>5, <2>1
  <2>5. QED
    BY <1>4, <2>1, <2>2, <2>3, <2>4
<1> DEFINE a == SubSeq(d, 1, k)
           b == SubSeq(d, k + 1, Len(d))
<1>7. /\ IsStream(d) /\ After(d[Len(d)]) = <<accepted + 1, 1>> /\ d # <<>>
      /\ \A n \in Nat : n + 1 = S => After(pl[id][n][Len(pl[id][n])]) = d[1]
      /\ \A c \in ToSet(d) : c[1] <= accepted
      /\ \A x, n \in Nat : \A c \in ToSet(pl[x][n]) : c[1] <= accepted
      /\ \A n \in Nat : \A x \in ToSet(pl[id][n]), y \in ToSet(d) : Before(x, y)
      /\ \A x, n \in Nat : x < id => \A y \in ToSet(pl[x][n]), z \in ToSet(d) : y[1] < z[1]
  BY <1>2, <1>3, <1>4, <1>5 DEF Data, Coming
<1>8. /\ pl \in [Nat -> [Nat -> Seq(Byte)]] /\ Line(pl)
      /\ \A n \in Nat : pl[id][n] # <<>> <=> n < S
      /\ \A x, n \in Nat : x > id => pl[x][n] = <<>>
  BY <1>4, <1>5 DEF Data, Built
<1>9. /\ IsStream(a) /\ a # <<>> /\ a[1] = d[1] /\ a[Len(a)] = d[k]
      /\ IsStream(b)
      /\ b # <<>> => b[1] = After(a[Len(a)]) /\ b[Len(b)] = d[Len(d)]
      /\ b = <<>> => k = Len(d)
      /\ ToSet(d) = ToSet(a) \cup ToSet(b)
  BY <1>3, <1>7, UmSdus, StreamCut
<1>10. \A x \in ToSet(a), y \in ToSet(b) : Before(x, y)
  BY <1>3, <1>7, CutOrder
<1>11. a \in Seq(Byte)
  BY <1>9 DEF IsStream
<1> HIDE DEF a, b
<1>12. PICK new : new = [pl EXCEPT ![id][S] = a]
  OBVIOUS
<1>13. /\ new \in [Nat -> [Nat -> Seq(Byte)]] /\ new[id][S] = a
       /\ \A x, n \in Nat : x # id \/ n # S => new[x][n] = pl[x][n]
  BY <1>6, <1>8, <1>11, <1>12
<1>14. \A x, n \in Nat : pl[x][n] # <<>> => new[x][n] = pl[x][n]
  <2>1. ~ (S < S)
    BY <1>6
  <2>2. pl[id][S] = <<>>
    BY <1>6, <1>8, <2>1
  <2>3. QED
    BY <1>13, <2>2
<1>15. Built(new)'
  <2>1. \A n \in Nat : new[id][n] # <<>> <=> n < S + 1
    <3>1. ASSUME NEW n \in Nat PROVE new[id][n] # <<>> <=> n < S + 1
      <4>1. CASE n = S
        <5>1. S < S + 1
          BY <1>6
        <5>2. new[id][n] # <<>>
          BY <1>9, <1>13, <4>1
        <5>3. QED
          BY <4>1, <5>1, <5>2
      <4>2. CASE n # S
        <5>1. n < S <=> n < S + 1
          BY <1>6, <4>2
        <5>2. QED
          BY <1>6, <1>8, <1>13, <4>2, <5>1
      <4>3. QED
        BY <4>1, <4>2
    <3>2. QED
      BY <3>1
  <2>2. \A x, n \in Nat : x > id => new[x][n] = <<>>
    <3>1. \A x \in Nat : x > id => x # id
      BY <1>6
    <3>2. QED
      BY <1>8, <1>13, <3>1
  <2>3. \A x, n \in Nat : IsStream(new[x][n])
    BY <1>6, <1>8, <1>9, <1>13, ZenonT(30) DEF Line
  <2>4. ASSUME NEW x \in Nat, NEW n \in Nat, new[x][n] # <<>>, new[x][n + 1] # <<>>
        PROVE  new[x][n + 1][1] = After(new[x][n][Len(new[x][n])])
    <3>1. n + 1 \in Nat /\ n # n + 1
      OBVIOUS
    <3>2. CASE x # id \/ (n # S /\ n + 1 # S)
      <4>1. new[x][n] = pl[x][n] /\ new[x][n + 1] = pl[x][n + 1]
        BY <1>13, <3>1, <3>2
      <4>2. QED
        BY <1>8, <2>4, <4>1 DEF Line
    <3>3. CASE x = id /\ n = S
      <4>1. ~ (n + 1 < S + 1)
        BY <1>6, <3>3
      <4>2. QED
        BY <2>1, <2>4, <3>1, <3>3, <4>1
    <3>4. CASE x = id /\ n + 1 = S
      <4>1. new[x][n + 1] = a /\ new[x][n] = pl[x][n]
        BY <1>13, <3>1, <3>4
      <4>2. QED
        BY <1>7, <1>9, <3>4, <4>1
    <3>5. QED
      BY <3>2, <3>3, <3>4
  <2>5. ASSUME NEW x \in Nat, NEW n \in Nat, NEW l \in Nat, n < l,
               NEW y \in ToSet(new[x][n]), NEW z \in ToSet(new[x][l])
        PROVE  Before(y, z)
    <3>1. CASE x # id \/ (n # S /\ l # S)
      <4>1. new[x][n] = pl[x][n] /\ new[x][l] = pl[x][l]
        BY <1>13, <3>1
      <4>2. QED
        BY <1>8, <2>5, <4>1 DEF Line
    <3>2. CASE x = id /\ n = S
      <4>1. ~ (l < S + 1)
        BY <1>6, <2>5, <3>2
      <4>2. new[x][l] = <<>>
        BY <2>1, <3>2, <4>1
      <4>3. QED
        BY <2>5, <4>2, NoBytes
    <3>3. CASE x = id /\ l = S
      <4>1. n # S
        BY <1>6, <2>5, <3>3
      <4>2. new[x][n] = pl[x][n] /\ new[x][l] = a
        BY <1>13, <3>3, <4>1
      <4>3. QED
        BY <1>7, <1>9, <2>5, <3>3, <4>2
    <3>4. QED
      BY <3>1, <3>2, <3>3
  <2>6. ASSUME NEW x \in Nat, NEW c \in Nat, NEW n \in Nat, NEW l \in Nat, x < c,
               NEW y \in ToSet(new[x][n]), NEW z \in ToSet(new[c][l])
        PROVE  y[1] < z[1]
    <3>1. CASE (x # id \/ n # S) /\ (c # id \/ l # S)
      <4>1. new[x][n] = pl[x][n] /\ new[c][l] = pl[c][l]
        BY <1>13, <3>1
      <4>2. QED
        BY <1>8, <2>6, <4>1 DEF Line
    <3>2. CASE x = id /\ n = S
      <4>1. c > id
        BY <1>6, <2>6, <3>2
      <4>2. new[c][l] = <<>>
        BY <2>2, <4>1
      <4>3. QED
        BY <2>6, <4>2, NoBytes
    <3>3. CASE c = id /\ l = S
      <4>1. x < id /\ x # id
        BY <1>6, <2>6, <3>3
      <4>2. new[x][n] = pl[x][n] /\ new[c][l] = a
        BY <1>13, <3>3, <4>1
      <4>3. QED
        BY <1>7, <1>9, <2>6, <4>1, <4>2
    <3>4. QED
      BY <3>1, <3>2, <3>3
  <2>7. Line(new)
    BY <2>3, <2>4, <2>5, <2>6 DEF Line
  <2>8. rlcEntityId' = id /\ sent' = S + 1
    BY <1>2, <1>4, <1>5
  <2>9. QED
    BY <1>13, <2>1, <2>2, <2>7, <2>8 DEF Built
<1>16. Coming(new)'
  <2>1. b # <<>> => After(b[Len(b)]) = <<accepted + 1, 1>>
    BY <1>7, <1>9
  <2>2. ASSUME NEW n \in Nat, n + 1 = S + 1
        PROVE  After(new[id][n][Len(new[id][n])]) = IF b = <<>> THEN <<accepted + 1, 1>> ELSE b[1]
    <3>1. n = S
      BY <1>6, <2>2
    <3>2. new[id][n] = a
      BY <1>13, <3>1
    <3>3. QED
      BY <1>7, <1>9, <3>2
  <2>3. \A c \in ToSet(b) : c[1] <= accepted
    BY <1>7, <1>9
  <2>4. \A x, n \in Nat : \A c \in ToSet(new[x][n]) : c[1] <= accepted
    BY <1>7, <1>9, <1>13
  <2>5. \A n \in Nat : \A x \in ToSet(new[id][n]), y \in ToSet(b) : Before(x, y)
    <3>1. ASSUME NEW n \in Nat, NEW x \in ToSet(new[id][n]), NEW y \in ToSet(b)
          PROVE  Before(x, y)
      <4>1. CASE n = S
        BY <1>10, <1>13, <3>1, <4>1
      <4>2. CASE n # S
        BY <1>6, <1>7, <1>9, <1>13, <3>1, <4>2
      <4>3. QED
        BY <4>1, <4>2
    <3>2. QED
      BY <3>1
  <2>6. \A x, n \in Nat : x < id => \A y \in ToSet(new[x][n]), z \in ToSet(b) : y[1] < z[1]
    <3>1. \A x \in Nat : x < id => x # id
      BY <1>6
    <3>2. QED
      BY <1>7, <1>9, <1>13, <3>1
  <2>7. rlcEntityId' = id /\ sent' = S + 1 /\ txBuffer' = b /\ accepted' = accepted
    BY <1>1, <1>2, <1>3, <1>4, <1>5 DEF b
  <2>8. QED
    BY <1>9, <2>1, <2>2, <2>3, <2>4, <2>5, <2>6, <2>7 DEF Coming
<1>17. Flight(new)'
  <2>1. ASSUME NEW m \in pdus'
        PROVE  m \in UmdPdu /\ m.data = new[m.id][m.n] /\ m.data # <<>>
    <3>1. CASE m \in pdus
      <4>1. m \in UmdPdu /\ m.data = pl[m.id][m.n] /\ m.data # <<>>
        BY <3>1 DEF Data, Flight
      <4>2. m.id \in Nat /\ m.n \in Nat
        BY <4>1 DEF UmdPdu
      <4>3. QED
        BY <1>14, <4>1, <4>2
    <3>2. CASE m = [id |-> id, n |-> S, sn |-> sequenceNumber, data |-> a, time |-> clock']
      <4>1. m.id = id /\ m.n = S /\ m.data = a
        BY <3>2
      <4>2. m \in UmdPdu
        BY <1>6, <1>11, <3>2 DEF UmdPdu
      <4>3. QED
        BY <1>9, <1>13, <4>1, <4>2
    <3>3. QED
      BY <1>1, <1>3, <1>4, <1>5, <3>1, <3>2 DEF a
  <2>2. QED
    BY <2>1 DEF Flight
<1>18. Reception(new)'
  <2>1. PICK u \in Nat :
          RxWindow(rx, rx.newest, u) /\ RxData(pl, peerRlcEntityId, rx, u, delivered)
    BY DEF Data, Reception
  <2>2. peerRlcEntityId \in Nat
    BY DEF WindowInv
  <2>3. \A p \in rx.rxBuffer : p.n \in Nat
    BY <2>1 DEF RxWindow, Between
  <2>4. RxData(new, peerRlcEntityId, rx, u, delivered)
    BY <1>14, <2>1, <2>2, <2>3, DataGrows
  <2>5. Reception(new)
    BY <2>1, <2>4 DEF Reception
  <2>6. QED
    BY <1>2, <2>5, ReceptionStays
<1>19. QED
  BY <1>15, <1>16, <1>17, <1>18 DEF Data

\* A new transmitter has built nothing, and its SDUs are later ones.
LEMMA DataRecreateTransmitter ==
    ASSUME WindowInv, NEW pl, Data(pl), RecreateTransmitter
    PROVE  Data(pl)'
<1>1. /\ rlcEntityId' = rlcEntityId + 1 /\ txBuffer' = <<>> /\ sent' = 0
      /\ UNCHANGED <<accepted, pdus, outOfOrderDelivery, rxVars>>
  BY DEF RecreateTransmitter, netVars
<1>2. rlcEntityId \in Nat
  BY DEF WindowInv, TxInv
<1>3. Built(pl)'
  <2>1. \A a \in Nat : a > rlcEntityId + 1 => a > rlcEntityId
    BY <1>2
  <2>2. rlcEntityId + 1 \in Nat /\ rlcEntityId + 1 > rlcEntityId
    BY <1>2
  <2>3. \A n \in Nat : pl[rlcEntityId + 1][n] = <<>> /\ ~ (n < 0)
    <3>1. \A n \in Nat : pl[rlcEntityId + 1][n] = <<>>
      <4>1. PICK a \in Nat : a = rlcEntityId + 1 /\ a > rlcEntityId
        BY <2>2
      <4>2. \A n \in Nat : pl[a][n] = <<>>
        BY <4>1 DEF Data, Built
      <4>3. QED
        BY <4>1, <4>2
    <3>2. \A n \in Nat : ~ (n < 0)
      OBVIOUS
    <3>3. QED
      BY <3>1, <3>2
  <2>4. /\ pl \in [Nat -> [Nat -> Seq(Byte)]] /\ Line(pl)
        /\ \A a, n \in Nat : a > rlcEntityId + 1 => pl[a][n] = <<>>
    BY <2>1 DEF Data, Built
  <2>5. QED
    BY <1>1, <2>3, <2>4 DEF Built
<1>4. Coming(pl)'
  <2>1. \A n \in Nat : n + 1 # 0
    OBVIOUS
  <2>2. \A a, n \in Nat : \A b \in ToSet(pl[a][n]) : b[1] <= accepted
    BY DEF Data, Coming
  <2>3. QED
    BY <1>1, <2>1, <2>2, NoBytes DEF Coming
<1>5. Flight(pl)'
  BY <1>1 DEF Data, Flight
<1>6. Reception(pl)'
  BY <1>1, ReceptionStays DEF Data
<1>7. QED
  BY <1>3, <1>4, <1>5, <1>6 DEF Data

\* A new receiver knows nothing.
LEMMA DataRecreateReceiver ==
    ASSUME WindowInv, NEW pl, Data(pl), RecreateReceiver
    PROVE  Data(pl)'
<1>1. /\ rx' = InitialRx /\ peerRlcEntityId' = 0 /\ delivered' = <<>>
      /\ UNCHANGED <<rlcEntityId, txBuffer, accepted, sent, pdus, outOfOrderDelivery>>
  BY DEF RecreateReceiver, txVars, netVars
<1>2. PICK u \in Nat : RxWindow(InitialRx, InitialRx.newest, u)
  BY InitialRxIs DEF WindowInv, RxInv
<1>3. u = 0
  <2>1. InitialRx.newest = 0
    BY DEF InitialRx
  <2>2. QED
    BY <1>2, <2>1 DEF RxWindow
<1>4. RxData(pl, 0, InitialRx, 0, <<>>)
  BY NothingCorrect, FreshData
<1>5. Reception(pl)'
  BY <1>1, <1>2, <1>3, <1>4, SameReception
<1>6. Built(pl)' /\ Coming(pl)' /\ Flight(pl)'
  BY <1>1, SameSender DEF Data
<1>7. QED
  BY <1>5, <1>6 DEF Data

\* t-Reordering expires.
LEMMA DataExpireReorderingTimer ==
    ASSUME WindowInv, WindowInv', NEW pl, Data(pl), ExpireReorderingTimer
    PROVE  Data(pl)'
<1>1. /\ rx.reorderingTimer /\ peerRlcEntityId' = peerRlcEntityId
      /\ UNCHANGED <<rlcEntityId, txBuffer, accepted, sent, pdus, outOfOrderDelivery>>
  BY DEF ExpireReorderingTimer, txVars, netVars
<1>2. PICK k \in 0 .. SNMod - 1 :
         /\ IsRun(rx.rxBuffer, rx.vrUx, k)
         /\ rx' = ExpiredRx(AtExpiry(k), Gt(rx.vrUh, AtExpiry(k).ur, Low(rx.vrUh)))
         /\ delivered' = AtExpiry(k).st.out
  BY Zenon DEF ExpireReorderingTimer, ExpiredRx
<1>3. PICK open : open = Gt(rx.vrUh, AtExpiry(k).ur, Low(rx.vrUh))
  OBVIOUS
<1>4. PICK u \in Nat : RxWindow(rx, rx.newest, u) /\ RxData(pl, peerRlcEntityId, rx, u, delivered)
  BY DEF Data, Reception
<1>5. peerRlcEntityId \in Nat /\ Line(pl)
  BY DEF WindowInv, Data, Built
<1>6. PICK s : s = ExpiredRx(AtExpiry(k), open)
  OBVIOUS
<1>7. PICK out : out = AtExpiry(k).st.out
  OBVIOUS
<1>8. PICK e \in Nat :
         /\ e <= rx.newest /\ rx.newest <= e + WindowSize /\ s.vrUr = SnOf(e)
         /\ RxData(pl, peerRlcEntityId, s, e, out)
  BY <1>1, <1>2, <1>4, <1>5, <1>6, <1>7, ExpiryData
<1>9. rx' = s /\ delivered' = out
  BY <1>2, <1>3, <1>6, <1>7
<1>10. s.newest = rx.newest
  <2>1. IsReceiver(rx)
    BY <1>4 DEF RxWindow
  <2>2. QED
    BY <1>6, <2>1 DEF IsReceiver, ExpiredRx, RxFields
<1>11. PICK v \in Nat : RxWindow(s, s.newest, v)
  <2>1. PICK v \in Nat : RxWindow(rx, rx.newest, v)'
    BY DEF WindowInv, RxInv
  <2>2. RxWindow(s, s.newest, v)
    BY <1>9, <2>1 DEF RxWindow, IsReceiver
  <2>3. QED
    BY <2>2
<1>12. v = e
  BY <1>8, <1>10, <1>11, SameBase
<1>13. Reception(pl)'
  BY <1>1, <1>8, <1>9, <1>11, <1>12, SameReception
<1>14. Built(pl)' /\ Coming(pl)' /\ Flight(pl)'
  BY <1>1, SameSender DEF Data
<1>15. QED
  BY <1>13, <1>14 DEF Data

\* What is known of the receiver as a PDU meets it.
LEMMA MetData ==
    ASSUME WindowInv, NEW pl, Data(pl), NEW m \in pdus, AcceptPduFromPeerEntity(m)
    PROVE  \E u \in Nat : /\ RxWindow(Met(m), Met(m).newest, u)
                          /\ RxData(pl, m.id, Met(m), u, delivered)
<1>1. PICK u \in Nat : RxWindow(rx, rx.newest, u) /\ RxData(pl, peerRlcEntityId, rx, u, delivered)
  BY DEF Data, Reception
<1>2. m.id \in Nat /\ peerRlcEntityId \in Nat /\ peerRlcEntityId <= m.id
  BY DEF WindowInv, TxInv, AcceptPduFromPeerEntity
<1>3. CASE m.id = peerRlcEntityId /\ Met(m) = rx
  BY <1>1, <1>3
<1>4. CASE m.id = peerRlcEntityId /\ Met(m) # rx
  BY <1>2, <1>4 DEF Met
<1>5. CASE m.id # peerRlcEntityId
  <2>1. Met(m) = InitialRx
    BY <1>2, <1>5 DEF Met, ReestablishRxSide, WindowInv
  <2>2. PICK v \in Nat : RxWindow(InitialRx, InitialRx.newest, v)
    BY InitialRxIs DEF WindowInv, RxInv
  <2>3. InitialRx.newest = 0
    BY DEF InitialRx
  <2>4. v = 0
    BY <2>2, <2>3 DEF RxWindow
  <2>5. peerRlcEntityId < m.id
    BY <1>2, <1>5
  <2>6. Correct(pl, m.id, {}, delivered)
    BY <1>1, <1>2, <2>5, CorrectLater DEF RxData
  <2>7. RxData(pl, m.id, InitialRx, 0, delivered)
    BY <2>6, FreshData
  <2>8. QED
    BY <2>1, <2>2, <2>4, <2>7
<1>6. QED
  BY <1>3, <1>4, <1>5

\* The time a receiver noted says nothing about the data.
LEMMA HeardData ==
    ASSUME NEW pl, NEW id, NEW r, NEW m, IsReceiver(r), NEW u, NEW out, RxData(pl, id, r, u, out)
    PROVE  RxData(pl, id, Heard(r, m), u, out)
<1>1. PICK h : h = Heard(r, m)
  OBVIOUS
<1>2. /\ h.rxBuffer = r.rxBuffer /\ h.keepS0 = r.keepS0 /\ h.newest = r.newest
      /\ h.expectedSeqNumber = r.expectedSeqNumber /\ h.arrived = r.arrived
  BY <1>1, HeardIs
<1>3. RxData(pl, id, h, u, out)
  BY <1>2 DEF RxData
<1>4. QED
  BY <1>1, <1>3

\* What the receiver knows once it placed the PDU.
LEMMA PlacedData ==
    ASSUME WindowInv, NEW pl, Data(pl), NEW m \in pdus, NEW r, NEW u \in Nat,
           RxInv(r, m.id), AgeInv(r, m.id),
           RxWindow(r, r.newest, u), RxData(pl, m.id, r, u, delivered),
           r.newest # 0 => m.n < r.newest + SNMod - WindowSize,
           ~ IsDelayed(r, m), ~ IsDiscarded(r, m)
    PROVE  LET s == UpdateReorderingTimer(PlacedRx(Heard(r, m), m))
           IN \E e \in Nat : /\ RxWindow(s, s.newest, e)
                             /\ RxData(pl, m.id, s, e, Given(Heard(r, m), m).out)
<1>1. TxInv
  BY DEF WindowInv
<1>2. PICK N \in Nat, v \in Nat :
         /\ RxWindow(r, N, v) /\ Placeable(r, N, v, m)
         /\ NewN(N, m) = Later(r.newest, m.n + 1)
         /\ r.newest # 0 => N = r.newest
         /\ r.newest = 0 => r.rxBuffer = {} /\ N <= m.n
  BY <1>1, PlacedOnly
<1>3. r.newest \in Nat /\ m.id \in Nat
  BY <1>1 DEF RxInv, TxInv
<1>4. RxData(pl, m.id, r, v, delivered)
  <2>1. u <= v
    <3>1. CASE r.newest # 0
      <4>1. RxWindow(r, r.newest, v) /\ v <= r.newest /\ r.newest <= v + WindowSize
            /\ r.vrUr = SnOf(v)
        BY <1>2, <3>1 DEF RxWindow
      <4>2. u = v
        BY <4>1, SameBase
      <4>3. QED
        BY <4>2
    <3>2. CASE r.newest = 0
      <4>1. u = 0
        BY <3>2 DEF RxWindow
      <4>2. QED
        BY <4>1
    <3>3. QED
      BY <3>1, <3>2
  <2>2. QED
    BY <1>3, <2>1, DataAhead
<1>5. IsReceiver(r)
  BY <1>2 DEF RxWindow
<1>6. PICK h : h = Heard(r, m)
  OBVIOUS
<1>7. IsReceiver(h) /\ h.newest = r.newest /\ h.rxBuffer = r.rxBuffer
  BY <1>5, <1>6, HeardIs
<1>8. RxWindow(h, N, v)
  BY <1>2, <1>6, HeardWindow
<1>9. Placeable(h, N, v, m)
  BY <1>2, <1>7 DEF Placeable
<1>10. RxData(pl, m.id, h, v, delivered)
  BY <1>4, <1>5, <1>6, HeardData
<1>11. m.data = pl[m.id][m.n] /\ m.data # <<>> /\ Line(pl)
  BY DEF Data, Flight, Built
<1>12. PICK s : s = UpdateReorderingTimer(PlacedRx(h, m))
  OBVIOUS
<1>13. PICK e \in Nat : RxWindow(s, NewN(N, m), e) /\ RxData(pl, m.id, s, e, Given(h, m).out)
  BY <1>2, <1>3, <1>7, <1>8, <1>9, <1>10, <1>11, <1>12, PlaceData
<1>14. s.newest = NewN(N, m)
  <2>1. IsReceiver(PlacedRx(h, m)) /\ PlacedRx(h, m).newest = Later(h.newest, m.n + 1)
    BY <1>7, PlacedRxIs
  <2>2. s.newest = PlacedRx(h, m).newest
    BY <1>12, <2>1, TimerKeeps
  <2>3. QED
    BY <1>2, <1>7, <2>1, <2>2
<1>15. QED
  BY <1>6, <1>12, <1>13, <1>14

\* A PDU arrives.
LEMMA DataDeliverPdu ==
    ASSUME WindowInv, NEW pl, Data(pl), NEW m \in pdus, DeliverPdu(m)
    PROVE  Data(pl)'
<1>1. /\ UNCHANGED <<rlcEntityId, txBuffer, accepted, sent, outOfOrderDelivery>>
      /\ pdus' \subseteq pdus
  BY DEF DeliverPdu, txVars
<1>2. Built(pl)' /\ Coming(pl)' /\ Flight(pl)'
  BY <1>1, SameSender DEF Data
<1>3. CASE UNCHANGED rxVars
  <2>1. Reception(pl)'
    BY <1>1, <1>3, ReceptionStays DEF Data
  <2>2. QED
    BY <1>2, <2>1 DEF Data
<1>4. CASE ~ UNCHANGED rxVars
  <2>1. ReceivePdu(m) /\ (Met(m).newest # 0 => m.n < Met(m).newest + SNMod - WindowSize)
    BY DEF DeliverPdu
  <2>2. PICK r : r = Met(m)
    OBVIOUS
  <2>3. AcceptPduFromPeerEntity(m) /\ peerRlcEntityId' = Later(peerRlcEntityId, m.id)
    BY <1>4, <2>1, ReceivePduIs
  <2>4. /\ RxInv(r, m.id) /\ AgeInv(r, m.id) /\ Later(peerRlcEntityId, m.id) = m.id
    BY <2>2, <2>3, MetIs
  <2>5. PICK u \in Nat : RxWindow(r, r.newest, u) /\ RxData(pl, m.id, r, u, delivered)
    BY <2>2, <2>3, MetData
  <2>6. peerRlcEntityId' = m.id
    BY <2>3, <2>4
  <2>7. CASE rx' = r /\ delivered' = delivered
    <3>1. PICK out : out = delivered
      OBVIOUS
    <3>2. Reception(pl)'
      BY <1>1, <2>5, <2>6, <2>7, <3>1, SameReception
    <3>3. QED
      BY <1>2, <3>2 DEF Data
  <2>8. CASE rx' = Heard(r, m) /\ delivered' = delivered
    <3>1. PICK out : out = delivered
      OBVIOUS
    <3>2. PICK h : h = Heard(r, m)
      OBVIOUS
    <3>3. IsReceiver(r)
      BY <2>5 DEF RxWindow
    <3>4. RxWindow(h, r.newest, u) /\ h.newest = r.newest
      BY <2>5, <3>2, <3>3, HeardWindow, HeardIs
    <3>5. RxData(pl, m.id, h, u, out)
      BY <2>5, <3>1, <3>2, <3>3, HeardData
    <3>6. RxWindow(h, h.newest, u)
      BY <3>4
    <3>7. Reception(pl)'
      BY <1>1, <2>6, <2>8, <3>1, <3>2, <3>5, <3>6, SameReception
    <3>8. QED
      BY <1>2, <3>7 DEF Data
  <2>9. CASE /\ ~ IsDelayed(r, m) /\ ~ IsDiscarded(r, m)
             /\ rx' = UpdateReorderingTimer(PlacedRx(Heard(r, m), m))
             /\ delivered' = Given(Heard(r, m), m).out
    <3>1. PICK s : s = UpdateReorderingTimer(PlacedRx(Heard(r, m), m))
      OBVIOUS
    <3>2. PICK out : out = Given(Heard(r, m), m).out
      OBVIOUS
    <3>3. PICK e \in Nat : RxWindow(s, s.newest, e) /\ RxData(pl, m.id, s, e, out)
      BY <2>1, <2>2, <2>4, <2>5, <2>9, <3>1, <3>2, PlacedData
    <3>4. Reception(pl)'
      BY <1>1, <2>6, <2>9, <3>1, <3>2, <3>3, SameReception
    <3>5. QED
      BY <1>2, <3>4 DEF Data
  <2>10. QED
    BY <1>4, <2>1, <2>2, <2>7, <2>8, <2>9, ReceivePduIs
<1>5. QED
  BY <1>3, <1>4

-----------------------------------------------------------------------------
(* Every step keeps the data.                                              *)

\* The other variables stay in their ranges.
LEMMA RangesStep ==
    ASSUME Ranges, [Next]_vars
    PROVE  Ranges'
<1>1. /\ Len(SduLen) \in Nat /\ MaxTrouble \in Nat /\ MaxRestart \in Nat
      /\ accepted \in Nat /\ troubles \in Nat /\ receivers \in Nat
  <2>1. Len(SduLen) \in Nat
    BY UmAssumption, LenProperties
  <2>2. QED
    BY <2>1, UmAssumption DEF Ranges
<1>2. outOfOrderDelivery' = outOfOrderDelivery
  BY DEF Next, vars, TransmitPdcpPdu, TransmitPdu, DeliverPdu, Lose, ExpireBsrTimer,
         ExpireReorderingTimer, RecreateTransmitter, RecreateReceiver
<1>3. bsrTimer' \in BOOLEAN
  <2>1. \/ bsrTimer' = bsrTimer
        \/ bsrTimer' = (txBuffer' # <<>>)
        \/ bsrTimer' = (txBuffer # <<>>)
        \/ bsrTimer' = FALSE
    <3>1. CASE TransmitPdcpPdu
      BY <3>1, Zenon DEF TransmitPdcpPdu
    <3>2. CASE \E bytes \in 1 .. MaxDataField : TransmitPdu(bytes)
      BY <3>2, Zenon DEF TransmitPdu
    <3>3. CASE \E m \in pdus : DeliverPdu(m)
      BY <3>3 DEF DeliverPdu, txVars
    <3>4. CASE Lose
      BY <3>4 DEF Lose, txVars
    <3>5. CASE ExpireBsrTimer
      BY <3>5, Zenon DEF ExpireBsrTimer
    <3>6. CASE ExpireReorderingTimer
      BY <3>6 DEF ExpireReorderingTimer, txVars
    <3>7. CASE RecreateTransmitter
      BY <3>7, Zenon DEF RecreateTransmitter
    <3>8. CASE RecreateReceiver
      BY <3>8 DEF RecreateReceiver, txVars
    <3>9. CASE UNCHANGED vars
      BY <3>9 DEF vars, txVars
    <3>10. QED
      BY <3>1, <3>2, <3>3, <3>4, <3>5, <3>6, <3>7, <3>8, <3>9, Zenon DEF Next
  <2>2. bsrTimer \in BOOLEAN
    BY DEF Ranges
  <2>3. QED
    BY <2>1, <2>2, Zenon
<1>4. accepted' = accepted \/ (accepted < Len(SduLen) /\ accepted' = accepted + 1)
  BY DEF Next, vars, txVars, TransmitPdcpPdu, TransmitPdu, DeliverPdu, Lose, ExpireBsrTimer,
         ExpireReorderingTimer, RecreateTransmitter, RecreateReceiver
<1>5. troubles' = troubles \/ (troubles < MaxTrouble /\ troubles' = troubles + 1)
  BY DEF Next, vars, netVars, TransmitPdcpPdu, TransmitPdu, DeliverPdu, Lose, ExpireBsrTimer,
         ExpireReorderingTimer, RecreateTransmitter, RecreateReceiver
<1>6. receivers' = receivers \/ (receivers < MaxRestart /\ receivers' = receivers + 1)
  <2>1. ASSUME NEW m \in pdus, DeliverPdu(m) PROVE receivers' = receivers
    <3>1. ReceivePdu(m)
      BY <2>1 DEF DeliverPdu
    <3>2. QED
      BY <3>1, ReceivePduIs DEF rxVars
  <2>2. QED
    BY <2>1 DEF Next, vars, rxVars, TransmitPdcpPdu, TransmitPdu, Lose, ExpireBsrTimer,
                ExpireReorderingTimer, RecreateTransmitter, RecreateReceiver
<1>7. accepted' \in 0 .. Len(SduLen) /\ troubles' \in 0 .. MaxTrouble
      /\ receivers' \in 0 .. MaxRestart
  BY <1>1, <1>4, <1>5, <1>6 DEF Ranges
<1>8. outOfOrderDelivery' \in BOOLEAN
  BY <1>2 DEF Ranges
<1>9. QED
  BY <1>3, <1>7, <1>8 DEF Ranges

\* Every step.
LEMMA DataStep ==
    ASSUME WindowInv, DataInv, [Next]_vars
    PROVE  DataInv'
<1>1. PICK pl : Data(pl)
  BY DEF DataInv
<1>2. Ranges /\ Ranges'
  BY RangesStep DEF DataInv
<1>3. CASE TransmitPdcpPdu
  BY <1>1, <1>2, <1>3, DataTransmitPdcpPdu DEF DataInv
<1>4. CASE \E bytes \in 1 .. MaxDataField : TransmitPdu(bytes)
  <2>1. PICK new : Data(new)'
    BY <1>1, <1>4, DataTransmitPdu
  <2>2. QED
    BY <1>2, <2>1 DEF DataInv
<1>5. CASE \E m \in pdus : DeliverPdu(m)
  BY <1>1, <1>2, <1>5, DataDeliverPdu DEF DataInv
<1>6. CASE Lose
  <2>1. PICK m \in pdus : pdus' = pdus \ {m}
    BY <1>6 DEF Lose
  <2>2. pdus' \subseteq pdus
    BY <2>1
  <2>3. UNCHANGED <<rlcEntityId, txBuffer, accepted, sent, outOfOrderDelivery, rxVars>>
    BY <1>6 DEF Lose, txVars
  <2>4. Data(pl)'
    BY <1>1, <2>2, <2>3, SameSender, ReceptionStays DEF Data
  <2>5. QED
    BY <1>2, <2>4 DEF DataInv
<1>7. CASE ExpireBsrTimer
  <2>1. /\ UNCHANGED <<rlcEntityId, txBuffer, accepted, sent, outOfOrderDelivery, rxVars>>
        /\ pdus' \subseteq pdus
    BY <1>7 DEF ExpireBsrTimer, netVars
  <2>2. Data(pl)'
    BY <1>1, <2>1, SameSender, ReceptionStays DEF Data
  <2>3. QED
    BY <1>2, <2>2 DEF DataInv
<1>8. CASE ExpireReorderingTimer
  <2>1. WindowInv'
    BY WindowStep
  <2>2. QED
    BY <1>1, <1>2, <1>8, <2>1, DataExpireReorderingTimer DEF DataInv
<1>9. CASE RecreateTransmitter
  BY <1>1, <1>2, <1>9, DataRecreateTransmitter DEF DataInv
<1>10. CASE RecreateReceiver
  BY <1>1, <1>2, <1>10, DataRecreateReceiver DEF DataInv
<1>11. CASE UNCHANGED vars
  <2>1. /\ UNCHANGED <<rlcEntityId, txBuffer, accepted, sent, outOfOrderDelivery, rxVars>>
        /\ pdus' \subseteq pdus
    BY <1>11 DEF vars, txVars, netVars
  <2>2. Data(pl)'
    BY <1>1, <2>1, SameSender, ReceptionStays DEF Data
  <2>3. QED
    BY <1>2, <2>2 DEF DataInv
<1>12. QED
  BY <1>3, <1>4, <1>5, <1>6, <1>7, <1>8, <1>9, <1>10, <1>11 DEF Next

\* The buffers, the PDUs in flight, the segment held and the SDUs delivered are
\* those of one stream of bytes for each transmitter, in every reachable state.
THEOREM DataHolds == Spec => [](WindowInv /\ DataInv)
<1>1. Init => WindowInv /\ DataInv
  BY WindowInit, DataInit
<1>2. WindowInv /\ DataInv /\ [Next]_vars => (WindowInv /\ DataInv)'
  BY WindowStep, DataStep
<1>3. QED
  BY <1>1, <1>2, PTL DEF Spec

-----------------------------------------------------------------------------
(* What the data shows.                                                    *)

\* Each variable of the two entities and of the flow between them keeps its type:
\* the numbers and the held segment of NrRlcUm stay what they are declared to be.
THEOREM TypesHold == Spec => []TypeOK
<1>1. WindowInv /\ DataInv => TypeOK
  <2> SUFFICES ASSUME WindowInv, DataInv PROVE TypeOK
    OBVIOUS
  <2>1. PICK pl : Data(pl)
    BY DEF DataInv
  <2>2. PICK u \in Nat :
          RxWindow(rx, rx.newest, u) /\ RxData(pl, peerRlcEntityId, rx, u, delivered)
    BY <2>1 DEF Data, Reception
  <2>3. /\ rlcEntityId \in Nat \ {0} /\ clock \in Nat /\ sent \in Nat /\ sequenceNumber \in Sn
        /\ peerRlcEntityId \in Nat /\ peerRlcEntityId <= rlcEntityId
    <3>1. sequenceNumber = SnOf(sent) /\ sent \in Nat
      BY DEF WindowInv, TxInv
    <3>2. sequenceNumber \in Sn
      BY <3>1, DivMod
    <3>3. QED
      BY <3>2 DEF WindowInv, TxInv
  <2>4. peerRlcEntityId \in 0 .. rlcEntityId
    BY <2>3
  <2>5. txBuffer \in Seq(Byte) /\ pdus \subseteq UmdPdu
    BY <2>1 DEF Data, Coming, IsStream, Flight
  <2>6. rx.rxBuffer \subseteq RxPdu
    <3>1. SUFFICES ASSUME NEW p \in rx.rxBuffer PROVE p \in RxPdu
      OBVIOUS
    <3>2. IsRxPdu(p) /\ p.n \in Nat /\ p.sn = SnOf(p.n)
      BY <2>2 DEF RxWindow, Between
    <3>3. p.sn \in Sn
      BY <3>2, DivMod
    <3>4. p.id = peerRlcEntityId
      BY DEF WindowInv, RxInv
    <3>5. p.data = pl[peerRlcEntityId][p.n] /\ p.tombstone \in BOOLEAN
      BY <2>2 DEF RxData, BufferData
    <3>6. p.data \in Seq(Byte)
      <4>1. pl \in [Nat -> [Nat -> Seq(Byte)]]
        BY <2>1 DEF Data, Built
      <4>2. PICK x \in Nat : x = p.n
        BY <3>2
      <4>3. PICK id \in Nat : id = peerRlcEntityId
        BY <2>3
      <4>4. pl[id][x] \in Seq(Byte)
        BY <4>1
      <4>5. QED
        BY <3>5, <4>2, <4>3, <4>4
    <3>7. QED
      BY <2>3, <3>2, <3>3, <3>4, <3>5, <3>6 DEF IsRxPdu, RxPduFields, RxPdu
  <2>7. rx.vrUr \in Sn /\ rx.vrUh \in Sn /\ rx.vrUx \in Sn /\ rx.reorderingTimer \in BOOLEAN
    <3>1. rx.newest \in Nat /\ rx.vrUr = SnOf(u) /\ rx.vrUh = SnOf(rx.newest)
      BY <2>2 DEF RxWindow
    <3>2. SnOf(u) \in Sn /\ SnOf(rx.newest) \in Sn
      BY <3>1, DivMod
    <3>3. rx.vrUx \in Sn /\ rx.reorderingTimer \in BOOLEAN
      BY <2>2, Zenon DEF RxWindow
    <3>4. QED
      BY <3>1, <3>2, <3>3
  <2>8. rx.keepS0 \in Seq(Byte) /\ rx.expectedSeqNumber \in Sn
    BY <2>2 DEF RxData, KeepData
  <2>9. rx.maxRxSenderTimestamp \in Nat
    BY DEF WindowInv, RxInv
  <2>10. Ranges
    BY DEF DataInv
  <2>11. QED
    BY <2>3, <2>4, <2>5, <2>6, <2>7, <2>8, <2>9, <2>10 DEF TypeOK, Ranges
<1>2. QED
  BY <1>1, DataHolds, PTL

\* A receiver gives PDCP SDUs that were accepted, each whole and at most once, and
\* without out-of-order delivery in the order they were submitted: reassembly
\* (NrRlcUm::ReassembleAndDeliver) never glues segments of two SDUs, and neither
\* tombstones nor a re-establishment let an SDU out twice.
THEOREM SdusAreDelivered == Spec => []SdusDelivered
<1>1. WindowInv /\ DataInv => SdusDelivered
  <2> SUFFICES ASSUME WindowInv, DataInv PROVE SdusDelivered
    OBVIOUS
  <2>1. PICK pl : Data(pl)
    BY DEF DataInv
  <2>2. PICK u \in Nat : RxData(pl, peerRlcEntityId, rx, u, delivered)
    BY <2>1 DEF Data, Reception
  <2>3. PICK D : Correct(pl, peerRlcEntityId, D, delivered)
    BY <2>2 DEF RxData
  <2>4. delivered \in Seq(Seq(Byte))
    BY <2>3 DEF Correct
  <2>5. DOMAIN delivered = 1 .. Len(delivered)
    BY <2>4, LenProperties
  <2>6. PICK sdu \in [1 .. Len(delivered) -> 1 .. Len(SduLen)] :
          /\ \A j \in 1 .. Len(delivered) :
                delivered[j] = Sdu(sdu[j]) /\ Ended(pl, peerRlcEntityId, D, sdu[j])
          /\ \A j, k \in 1 .. Len(delivered) :
                j < k => (sdu[j] # sdu[k] /\ (outOfOrderDelivery \/ sdu[j] < sdu[k]))
    BY <2>3 DEF Correct
  <2>7. ASSUME NEW i \in 1 .. Len(SduLen), Ended(pl, peerRlcEntityId, D, i)
        PROVE  i \in 1 .. accepted
    <3>1. peerRlcEntityId \in Nat
      BY DEF WindowInv
    <3>2. PICK a \in Nat, n \in Nat : SduEnd(i) \in ToSet(pl[a][n])
      BY <2>7, <3>1 DEF Ended
    <3>3. SduEnd(i)[1] <= accepted
      BY <2>1, <3>2 DEF Data, Coming
    <3>4. SduEnd(i)[1] = i
      BY DEF SduEnd
    <3>5. accepted \in Int
      BY DEF DataInv, Ranges
    <3>6. QED
      BY <3>3, <3>4, <3>5
  <2>8. sdu \in [DOMAIN delivered -> 1 .. accepted]
    <3>1. \A j \in 1 .. Len(delivered) : sdu[j] \in 1 .. accepted
      BY <2>6, <2>7
    <3>2. QED
      BY <2>5, <3>1
  <2>9. QED
    BY <2>5, <2>6, <2>8 DEF SdusDelivered
<1>2. QED
  BY <1>1, DataHolds, PTL

\* An SDU that arrived whole in one PDU placed in the buffer is delivered or still
\* waits there until the transmitter changes: neither the window that moves
\* (NrRlcUm::ReassembleOutsideWindow) nor t-Reordering strands it.
THEOREM WholeSdusStay == Spec => []WholeSdusAreKept
<1>1. WindowInv /\ DataInv => WholeSdusAreKept
  <2> SUFFICES ASSUME WindowInv, DataInv PROVE WholeSdusAreKept
    OBVIOUS
  <2>1. PICK pl : Data(pl)
    BY DEF DataInv
  <2>2. PICK u \in Nat : RxData(pl, peerRlcEntityId, rx, u, delivered)
    BY <2>1 DEF Data, Reception
  <2>3. delivered \in Seq(Seq(Byte))
    BY <2>2 DEF RxData, Correct
  <2>4. DOMAIN delivered = 1 .. Len(delivered)
    BY <2>3, LenProperties
  <2>5. \A i \in rx.arrived : Waits(rx.rxBuffer, delivered, i)
    BY <2>2 DEF RxData
  <2>6. QED
    BY <2>4, <2>5 DEF WholeSdusAreKept, Waits, Out, Real
<1>2. QED
  BY <1>1, DataHolds, PTL

=============================================================================
