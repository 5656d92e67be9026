# A TLA+ model of the nr module

The nr module simulates 5G NR networks in ns-3: the radio protocol stack of base
stations (gNB) and user equipment (UE), and the core network (EPC) behind them. The
simulator runs events one at a time, so nothing in the code is preempted; what makes
it hard is that every timer, grant, PDU and control message is an event of its own,
which may come in any order relative to the others, be repeated by HARQ, or never come.

This directory holds TLA+ modules translated from `src/model`, TLC configurations that
check them on small instances, and TLAPS proofs of the most important results for every
instance. `PROJECT.json` is the index: components, runs, the source lines of each
definition, hazards, findings, theorems, and for each property a mutated definition that
TLC must find to violate it.

    tlc -config MCRlcAm.cfg MCRlcAm          # one run
    tlapm RlcAm_proofs.tla                   # the proofs of one component

## 1. Inventory

| Component | State | Operations | Interacts with |
|---|---|---|---|
| RLC sequence numbers (`nr-rlc-sequence-number.h`) | value, modulus base | comparison, `+`, `-`, `++` | RLC AM, RLC UM |
| RLC AM (`nr-rlc-am.cc`, `nr-rlc.cc`) | three transmit buffers, reception buffer, VT/VR variables, five timers, held segment | SDU from PDCP, transmission opportunity, PDU from MAC, timer expiries, buffer status report | PDCP above, MAC below, RRC (radio link failure, re-establishment) |
| RLC UM (`nr-rlc-um.cc`) | transmit buffer, reception buffer, VR(UR/UX/UH), t-Reordering | as AM, without STATUS PDUs and retransmission | as AM |
| RLC TM (`nr-rlc-tm.cc`) | FIFO of PDUs, report timer | forward whole PDUs | RRC, MAC |
| RLC epochs (`nr-rlc.cc`) | own and peer entity id | accept or drop a PDU, re-establish the receiver | RLC AM/UM, handover |
| PDCP (`nr-pdcp.cc`) | transmit and receive numbers | add or strip a header | RRC, RLC |
| gNB RRC (`nr-gnb-rrc.cc`) | one UE manager per RNTI: eleven states, four timeouts, bearers, deferred handover | connection, reconfiguration, handover, re-establishment, release, RNTI allocation | UE RRC, X2, S1, MAC, RLC |
| UE RRC (`nr-ue-rrc.cc`) | idle and connected states, T300, T310, N310/N311, measurement reports | cell selection, connection, handover, radio link failure | gNB RRC, NAS, MAC, PHY |
| Measurements, handover decision (`nr-ue-rrc.cc`, `nr-a3-rsrp-handover-algorithm.cc`) | triggered cells, time-to-trigger queues | enter and leave events, decide | RRC |
| RRC messages (`nr-rrc-protocol-ideal.cc`, `-real-*.cc`) | none, or SRBs | carry RRC messages without delay, or encoded | UE RRC, gNB RRC |
| X2 (`nr-epc-x2.cc`) | sockets, TEIDs | handover messages, forwarding of user data | two gNB RRCs |
| EPC (`nr-epc-*-application.cc`, `nr-epc-ue-nas.cc`) | sessions, bearers, TEIDs, NAS state | bearer set-up, path switch, release | gNB, UE |
| UE MAC, gNB MAC (`nr-ue-mac.cc`, `nr-gnb-mac.cc`) | random access, SR machine, copies of buffer reports | preambles, grants, multiplexing | RLC, RRC, PHY, scheduler |
| Scheduler, LCG, HARQ (`nr-mac-scheduler-*.cc`) | view of the RLC queues, HARQ processes | reports, assignment, feedback, expiry | gNB MAC |
| Slot numbers (`sfnsf.cc`) | frame, subframe, slot | add, compare | MAC, PHY |
| PHY, channel, error models, beamforming, power control, CSI | signals, powers | floating-point computation | MAC |
| Codecs, helpers, examples | none, or configuration | serialise, build | all |

What is hard, and what makes each part correct:

- **RLC AM.** PDUs and STATUS PDUs are lost, repeated and reordered, sequence numbers are
  used again every 1024 PDUs, five timers race with the PDUs that would make them
  unnecessary. Correct means: an SDU that entered comes out whole, once, in order and in
  the end; the sender releases nothing the peer lacks; both windows agree on which PDU a
  number stands for; no gap is forgotten; the assertions in the code do not fire.
- **RLC UM.** The same numbers without acknowledgement: never a wrong or repeated SDU,
  every SDU whose PDUs arrived within the window is delivered.
- **Epochs, re-establishment.** PDUs of an entity destroyed by a handover arrive at its
  successor; the receiver must not mix the two, and both must agree on what is initial.
- **RRC.** Connection, reconfiguration, release, radio link failure and handover cross
  each other; every state that waits for the UE needs a timeout that meets only that state,
  contexts must not leak, a gNB must not serve a UE that is elsewhere, a UE must be connected
  in the end, a deferred handover must be dispatched.
- **Handover over X2, EPC.** Three machines (source, target, UE) and the path switch: the
  ends of a handover belong to one UE however late a message is, exactly one gNB serves the UE
  when all is done, and downlink packets go there.
- **MAC.** Random access with contention, back-off and late responses; the scheduler's
  view of a queue is stale when used and must be refreshed in the end; HARQ feedback
  comes after the process expired.
- **Slot numbers.** Addition across subframes and frames equals counting slots.

`PROJECT.json` lists the hazards at the lines where they bite; those of parts that are not
modelled yet carry a note.

## 2. Modules

| Module | Models |
|---|---|
| `RlcSn` | `SequenceNumber10`: `int` to `uint16_t` conversions, the truncating `%`, comparisons relative to a base |
| `RlcSnWindow` | two numbers compared in a window that slides over the number space |
| `RlcSdu` | SDUs, segments and their reassembly, which AM and UM share (`nr-rlc.cc`) |
| `RlcAm` | RLC AM, one direction of a bearer: transmitter, receiver of the peer, the flows between them |
| `RlcUm` | RLC UM, one direction of a bearer: transmitter, receiver, the flow between them |
| `RlcService` | abstract: what a bearer promises PDCP |
| `NrNodes` | the UEs and gNBs |
| `NrRan` | the RRC messages in the air, and the failed assertion that ends a simulation |
| `EpcService` | abstract: what the core network promises the gNBs |
| `GnbRrc` | RRC of the gNBs: UE managers, X2, the maps of the gNB application |
| `UeRrc` | RRC of the UEs, with NAS and the outcome of random access |
| `Rrc` | composes `UeRrc`, `GnbRrc` and `EpcService`: delivery, random access, timeouts, faults |
| `UlAir` | what the ends of the uplink share: scheduling requests, grants, transport blocks |
| `UeMac` | the uplink of the UE MAC: reports of RLC, scheduling requests, blocks and their repetition |
| `UlScheduler` | the uplink of the gNB MAC and of the scheduler for one UE: HARQ processes, requests, reports, grants |
| `Uplink` | composes the two with RLC above, soft combining in the gNB's PHY, and the air |
| `MCRlcSn`, `MCRlcAm`, `MCRlcUm`, `MCUplink`, `MCRrc` | instances for TLC |
| `RlcSdu_proofs` | arithmetic of sequence numbers, for every size; streams of bytes cut into PDUs, and what reassembly makes of them |
| `RlcSnWindow_proofs` | comparisons and arithmetic in every window |
| `RlcAm_proofs` | RLC AM: types, windows, payload, the safety part of the refinement of `RlcService` |
| `RlcUm_proofs` | RLC UM: types, the windows, t-Reordering and the data over new transmitters and receivers |
| `GnbRrc_proofs` | the parts of the invariant of RRC about one UE context; what may be on the X2 links: types, and the order of the messages of a handover; every handler of the gNBs keeps the invariant, sends what it may, fails where it may |
| `Rrc_proofs` | the UEs, the steps of the composition, the theorems; then whom an RNTI belongs to |
| `RrcPath_proofs` | where downlink packets of a UE go: sessions, the TEID tables of the gNBs, the requests to the core network |
| `Uplink_proofs` | the HARQ processes of the uplink, seen from UE, PHY, MAC and scheduler at once |

### How `RlcAm` corresponds to the code

A variable carries the name of its member (`vtA` is `m_vtA`); VT(MS) and VR(MR) are
operators because the code keeps them at VT(A) and VR(R) plus the window. A timer is a
Boolean, pending or not, that may expire at any time: the values of the timers are
configuration, and a correct protocol does not rest on them.

| Action | Handler |
|---|---|
| `TransmitPdcpPdu` | `DoTransmitPdcpPdu` with the drop when the buffer is full |
| `TransmitStatusPdu`, `RetransmitPdu`, `TransmitNewPdu` | the three branches of `DoNotifyTxOpportunity`, in its priority per entity (see below) |
| `DeliverData` | `DoReceivePdu` for a data PDU: STATUS request, window, buffer, VR(H), VR(MS), reassembly, VR(R), t-Reordering, all in one step as in the code |
| `DeliverStatus` | `DoReceivePdu` for a STATUS PDU |
| `ExpirePollRetransmitTimer`, `ExpireReorderingTimer`, `ExpireStatusProhibitTimer`, `ExpireBsrTimer` | the timer handlers |
| `Lose`, and the choice to keep a delivered copy in flight | PHY and HARQ: loss, duplication; a set of copies gives every order |

Abstractions, all of data:

- A byte is a pair (SDU, position), so content shows loss, repetition, order and mixture.
  Length indicators and framing bits are what they say: where SDUs begin and end in a PDU.
- A new PDU takes any number of bytes the opportunity has room for, since the overhead of
  headers and length indicators depends on the SDU boundaries; this contains the code's
  choice. For a retransmission the whole PDU must fit, as with the default
  `TxOpportunityForRetxAlwaysBigEnough = false`.
- A STATUS PDU reports as many missing numbers as fit: any prefix.
- `m_pollPdu` is 1 in the constructor and never set, so every new PDU polls; the counters
  are zero between calls. Re-segmentation is not implemented in the code.
- A real entity is both a sender and a receiver, and its STATUS PDUs go before its data.
  The two directions share nothing but the transmission opportunity, so each is modelled
  alone; which one an opportunity serves is open, which only adds behaviours.
- `accepted`, `delivered`, `sent`, `acked`, `rcvd` and the fields `n` and `ackN` are
  history: they count PDUs on the unbounded line behind the sequence numbers. No guard of
  the entities reads them. The exception is `MaxLag`: a copy `MaxLag` numbers behind
  VT(S) is no longer in flight. Without it no protocol with reused numbers is correct: a
  copy held back for a whole turn of 1024 numbers is indistinguishable from a new PDU. The
  lower layers keep a copy for a few HARQ rounds, a turn takes 1024 new PDUs.

### How `RlcUm` corresponds to the code

The conventions are those of `RlcAm`; `RlcSdu` holds what both modes call in `nr-rlc.cc`.

| Action | Handler |
|---|---|
| `TransmitPdcpPdu` | `DoTransmitPdcpPdu`, with the drop when the buffer is full or, under PDCP discarding, when the head of the queue has waited too long |
| `TransmitPdu` | `DoNotifyTxOpportunity` |
| `DeliverPdu` | `DoReceivePdu`: `AcceptPduFromPeerEntity`, `ReestablishRxSide`, `IsDelayed`, `IsDiscarded`, then `PlacePdu` with `ReassembleOutsideWindow` in both its modes, VR(UH), VR(UR), reassembly and t-Reordering |
| `ExpireReorderingTimer`, `ExpireBsrTimer` | the timer handlers |
| `Lose`, and the choice to keep a delivered copy in flight | PHY and HARQ |
| `RecreateTransmitter`, `RecreateReceiver` | `DoDispose` of an entity and the constructor of its successor |

A handover destroys the RLC entities of a bearer and makes new ones at both ends, which
restart their numbers while PDUs of the old transmitter are in flight. `RecreateTransmitter` and
`RecreateReceiver` do it in either order, each at most `MaxRestart` times; the id of a transmitter,
which `NrRlcTag` carries, is larger than that of those before it (`g_rlcEntityIdCounter`). A PDU of
a transmitter before the one the receiver listens to is dropped, one of a later transmitter
re-establishes the receiver first (`Met`), and a receiver that has heard nobody takes what comes,
PDUs of an old transmitter too. `delivered` is the history of the present receiver: what an old
one gave to PDCP is not held against it. The receiver's state variables are one record `rx`, so
that re-establishment and the placing of the PDU are one step, as in `DoReceivePdu`. A new
receiver may join in the middle of a transmitter's numbers and discards those below its window.

`OutOfOrderDelivery` is a variable that `Init` chooses, so that one run covers both values;
`EnablePdcpDiscarding` is on, since without it only fewer SDUs are dropped. The receiver compares
the sender's time stamp of a PDU with the latest one received; `clock` is the number of the first
PDU built in the instant, which orders instants as time does and lets PDUs share one. Times grow, and more
PDUs than the window holds are not built in one instant (`MaxPerInstant`): a grant makes one
PDU per slot and layer. `MaxLag` limits how long a PDU is in flight, to a whole turn of the
numbers. At the other end, `DeliverPdu` takes no PDU that is `SNMod - WindowSize` or more
ahead of the newest one placed, if any: after that many losses in a row a number inside the window
means a PDU a turn later, which no receiver could tell; the comment at nr-rlc-um.cc:740
speaks of this aliasing.

### How the RRC modules correspond to the code

`ctx[g][r]` is the UE manager of RNTI `r` at gNB `g` (`m_ueMap`), with its state, the IMSI, the
timeouts that are pending, the deferred reconfiguration and handover, the other end of a
handover and the session of its bearers. `ue[u]` is the RRC of a UE.

| Operator | Handler |
|---|---|
| `RecvRrcConnectionRequest`, `RecvRrcConnectionSetupCompleted`, `RecvRrcConnectionReconfigurationCompleted`, `RecvIdealUeContextRemoveRequest` | the handlers of the same name; the three last return branches included |
| `InitialContextSetupRequest`, `PathSwitchRequestAcknowledge` | the answers of the core network: the gNB application finds the RNTI of the IMSI, the UE manager sets up bearers or releases the source |
| `ScheduleRrcConnectionReconfiguration`, `SwitchToNormal` | a reconfiguration now, or when the state is CONNECTED_NORMALLY again |
| `PrepareHandover`, `RecvHandoverRequest`, `RecvHandoverRequestAck`, `RecvHandoverPreparationFailure`, `RecvSnStatusTransfer`, `RecvUeContextRelease`, `RecvHandoverCancel` | the handover, at source and target |
| `Timeout` | the five timeouts |
| operators of `UeRrc` | the handlers of `NrUeRrc` by name; `NotifyRandomAccess*` are called by the MAC |
| `AnswerRaPreamble`, `RaPreamble`, `RecoverUplink` | `ProcessRaPreambles` of the gNB MAC; the UE MAC's random access, started by RRC or by itself |
| `Serve`, `Answer` | what MME, SGW and PGW do with a session or a path switch request |

An `NS_ASSERT`, `NS_ABORT` or `NS_FATAL_ERROR` is a step that sets `abort` to its site, after
which nothing happens. Sites that events of a simulation reach are part of the behaviour; the
property `ExcludedAbort` names those that no order of events reaches.

Abstractions:

- RRC messages are those of the ideal protocol, events with no delay. They are delivered
  before anything else happens (`InstantOver`). X2 messages keep their order between two gNBs
  and take any time, as do the core network's answers, the timers and the UE's measurements.
- The random access response and the connection request are faster than
  ConnectionRequestTimeout: the attribute's description (nr-gnb-rrc.cc:2169) demands it. All
  other timeouts may expire while the event that would stop them is under way. The set-up
  timeout cannot, since the UE's answer has no delay.
- A UE always wants a connection, as the helpers set it up (`Connect` with the attachment), so
  IDLE_CAMPED_NORMALLY is left in the call that enters it; the NAS acts at once. T300 runs
  exactly in IDLE_CONNECTING, T310 and the counters before it are one event. With
  `Tr36839HandoverFailure` a UE whose T310 has run long enough refuses a handover command, a
  radio link failure at the source (`RefuseHandoverCommand`); the attribute and the time T310 ran
  are a choice, counted as a fault.
- LeaveConnectedMode resets MAC and PHY, so a response under way is dropped.
- Handovers are decided by the measurements of a connected UE (`DecideHandover`); a script may
  ask for one at any time, which aborts in half of the states.
- RNTIs are not used again within a run, as in the code until 65535 contexts were made. A
  random preamble gets the number of one kept for a handover only as a counted fault: the
  counter of contention preambles runs past 52, where the kept ones begin.
- A handover back to a gNB that still has TEIDs of the session, by a third gNB, is counted apart
  (`Revisits`): the request and the release of the first context then come over different links.
- gNBs have one cell; handovers inside a gNB and secondary carriers are left out.
- A session stands for the TEIDs of its flows. `EpcService` answers each request once, in
  order, to the cell the UE was last reported in (the MME keeps one cell per UE, so an answer
  may go to another gNB than the request came from).

### How the uplink modules correspond to the code

A UE with data in RLC asks for a grant, gets one that a buffer status report fits in, and from
then on reports with each block. Three parties hold a copy of the queue: RLC the queue itself,
the UE MAC what RLC last reported less what it took (`ulBsr`), the scheduler what the UE last
reported less what it granted (`lcg`).

| Operator | Handler |
|---|---|
| `TransmitBufferStatusReport`; `Submit`, `ExpireBsrTimer` | `NrUeMac::DoTransmitBufferStatusReport`; the two places where RLC AM calls it |
| `SlotIndication`, `ExpireSrProhibitTimer` | `DoSlotIndication` of the UE MAC with sr-TransMax and sr-ProhibitTimer |
| `ProcessUlDci`, `NewTransmission`, `SendNewData`, `TransmitRetx`, `SendBufferStatusReport` | the handlers of a grant |
| `ReceiveTb`, `Combined` | decoding with soft combining, HARQ feedback, the report on its way to the scheduler |
| `SlotUl`, `SlotUlWith` | `DoSlotUlIndication` of the gNB MAC and `DoScheduleUl`, in its order: `ResetExpiredHARQ`, `MergeHARQ`, `ProcessHARQFeedbacks`, `ScheduleUlHarq`, then new data (`ScheduleUlData`) |
| `Vanish` | a request, a grant or a block that the PHY does not receive |

Abstractions:

- Data comes in units, not bytes. The sizes in reports are estimates and quantised, so that
  `ulBsr` and `lcg` may be used up before or after the data is: a choice at each grant.
- One logical channel, of RLC AM: its report timer runs from the first SDU on. It also reports
  what is only unacknowledged, so that the UE asks for grants it cannot use; such reports, and
  grants of 12 to 14 bytes, which hold the report alone, are counted as `trouble`, as what
  vanishes is.
- The symbols of a slot are what other UEs, SRS and msg3 leave. A slot chooses which
  retransmissions fit and whether there is room for new data.
- The loop of `ScheduleUlHarq` ends when the symbols are used up exactly (`cut`). NACKs it did not
  come to are neither retransmitted nor buffered: their processes wait for the timer.
- Feedback for a grant is there before the process expires (`MaxDelay`): the way is `N2Delay` and
  decoding, a few slots; the timer is 16 or 20. Otherwise a grant could be under way twice for
  one process, which the code does not meet.
- `ra` ends the model: the UE has turned to random access, which `Rrc` has.

The definitions marked *Deviation* are not part of the model: each is a plausible bug
(a dropped guard, an off-by-one, a missing restart) that replaces the definition below it
to see that a property notices.

## 3. Runs

| Run | Instance | Shows |
|---|---|---|
| `sn_arithmetic` | 1024 numbers, 16-bit integers, bases at both ends and in the middle, as the code has them | the order is the distance from the base; `-` undoes `+` |
| `am_safety` | 4 numbers, window 2, SDUs of 2, 1, 2 bytes in PDUs of 1 or 2 (up to five), one loss and one duplicate, buffer of 2 bytes, 1 retransmission counted | types; SDUs whole, once, in order; nothing lost by both ends; retransmission counts survive; the report timer runs; late STATUS and data PDUs when a number is used again: no false acknowledgement, windows agree, no assertion fires |
| `am_reorder` | 8 numbers, window 4, four PDUs, one duplicate, first transmissions only | a gap is reported or watched; VR(MS) only advances |
| `am_live` | 4 numbers, window 2, SDUs of 1 and 2 bytes, one loss, fairness | refinement of `RlcService`; the sender drains |
| `am_status_report` | 4 numbers, window 2, no loss | violated: a STATUS PDU requested under t-StatusProhibit is not announced when the timer ends |
| `um_safety` | 4 numbers, window 2, SDUs of 1, 2, 2 bytes: up to five PDUs, one lost or repeated, with and without out-of-order delivery, each end made anew once | types; SDUs whole, at most once, in order; a PDU is taken exactly when it is new; the report timer runs |
| `um_window` | 6 numbers, window 3, SDUs of 1, 2, 1 bytes, one lost or repeated, each end made anew once, fairness | no SDU that arrived is stranded; a gap has its timer; no PDU waits for good |
| `um_stranded` | 4 numbers, window 2, SDUs of 1, 1, 2 bytes | violated: t-Reordering discards a segment whose rest is not lost |
| `uplink` | two HARQ processes, one retransmission, one unit of data, two scheduling requests, one trouble, fairness | no assertion of the two MACs fails; HARQ loses, mixes or repeats no data; data is served, processes and useless grants end |
| `rrc` | two UEs, two gNBs, one handover, and one fault, reconfiguration, preamble collision or uplink recovery | types; no timeout meets a foreign state; assertions that hold; the ends of a handover belong to one UE; a gNB serves a UE through the context it uses; downlink packets reach it |
| `rrc_live` | one UE, two gNBs, two handovers, one fault, two random accesses per cell, fairness | UEs are connected in the end; contexts that serve nobody end |
| `rrc_recovery` | one UE, one uplink recovery | violated: a connected UE is left without context |

The ratio that matters is window to number space, 1 to 2 as in the code (512 of 1024):
both windows can then be a whole window apart, and aliasing is one step away. A window of
2 has a gap with a PDU above it and a full window; VR(X) strictly between VR(R) and VR(H)
needs a window of 4 (`am_reorder`, cut to first transmissions by a constraint because the
sender's repetitions multiply its states without touching the receiver's variables more
than a duplicate does). Five PDUs over four numbers reuse a number with the other end
still holding its first use. PDUs of two bytes join the end of one SDU to the start of
the next. In UM a window of 2 never has a PDU at or above VR(UX) when t-Reordering
expires, since a PDU there moves the window past the gap: hence the window of 3 in
`um_window`, which in turn is too large for numbers to be used again; `um_safety` has that,
and the late PDUs of the last turn. `am_live` has one loss, of a data or a STATUS PDU: each further one adds
another round of the same timers.

In `uplink` two processes are needed for one to be retransmitted while the other is granted, and for
NACKs to compete for the symbols of a slot. With one trouble each of request, grant, block and
report may be lost once, at any time; the second request is then the last before random access.
One retransmission is enough for a first and a last redundancy version. One unit never has reports
used up while other units wait, which two units had in runs without the liveness properties.

In `rrc` two UEs are needed for a message of one to meet the context of the other, two gNBs
for a handover. A handover with one fault already crosses all pairs of a timeout, an X2
message, an answer of the core network and a message of the UE; five RNTIs and four sessions
are never used up. A `return` needs a third gNB, which no run has: with two, the release of the old
context is on the link ahead of any request. One UE that goes there and back (`rrc_live`) returns to a gNB that may still
hold its old context. The counters are spent for good, so that each trouble ends, as the
liveness properties need. Deadlock is not checked: when the submitted SDUs have
been delivered and acknowledged the model may stop.

### Properties that look further than one step

- `NoFalseAck`, `WindowsAgree`: relate both ends and every copy in flight; violated by a
  STATUS PDU applied outside the live window, or a transmit window one too large.
- `NoGapIsForgotten`, `VrMsNeverMovesBack`: t-Reordering against VR(X), VR(MS), VR(H).
- `InOrderDelivery`, `NothingLost`: bytes from PDCP to PDCP through all buffers.
- `RetxCountKept`: the count that leads to radio link failure survives every move between
  the two buffers of the sender.
- `AssertionsHold`: the `NS_ASSERT` and `NS_ABORT` of the handlers, and the termination of
  the loops over the reception buffer.
- `ImplementsService`, `SenderDrains`: under fairness.
- `ExactlyNewPdusArePlaced`: of all PDUs that may still arrive at the UM receiver, of
  whatever turn of the numbers, exactly those are placed that lie at or above VR(UR) and are
  not there yet; without the comparison of time stamps a late PDU moves the window back, and
  without `AcceptPduFromPeerEntity` PDUs of two transmitters share the buffer.
- `SdusDelivered`, `WholeSdusAreKept`: the two halves of reassembly in UM: nothing twice,
  foreign or cut, and nothing that arrived whole in one PDU lost on the way to PDCP. With a
  segment that survives `ReestablishRxSide` an SDU of the old transmitter gets the end of one
  of the new.
- `GapKeepsReorderingTimer`, `BufferedPdusLeave`: t-Reordering watches every gap, and what
  waits behind a gap leaves the buffer in the end.
- `DataStaysUnderHarq`, `NothingTwice`, `NoMixedCombining`: the UE's process, the scheduler's process
  and the PHY's history of it are three pieces of state with one number; they agree on the block
  they hold, however a process ends and is taken again.
- `BacklogServed`, `WastedGrantsEnd`: the three copies of a queue agree in the end, in both
  directions; `HarqProcessesEnd`: no process is blocked for good.
- `TimersMatchState`, `HandoverJoinsOneUe`: the timeouts and the other end of each context
  against its state, over all orders of X2 messages, timeouts and UE messages.
- `OneContextServes`, `DownlinkReachesUe`: while no UE took a new RNTI by an uplink recovery, the UE's view, the gNB's contexts, the maps of the
  gNB application and the core network's sessions agree, after whatever crossed on the way.
- `UesConnect`, `ContextsEnd`: no path through faults and handovers leaves a UE idle for good,
  or a context behind.

### Fairness

`FairSpec` assumes what the simulator and the MAC do: a pending timer expires; the MAC in
the end serves a queue it has been told of, with its largest grant. For the sender that is
the periodic report (`bsrTimer`), for the receiver only an announced STATUS PDU
(`statusReported`), so a missing report counts as not served. The lower layers deliver
what they do not lose: per PDU number for data, and some STATUS PDU when any is in
flight. All are weak: each step stays enabled until it is taken or no longer needed.
PDCP is free to submit nothing. Losses are finite (`MaxLoss`), as the code gives no
guarantee on a link that loses everything: it reports radio link failure.

`RlcUm` has only the timer in `FairSpec`: t-Reordering expires. Nothing in the liveness
property needs traffic, deliveries or grants.

`Uplink` assumes that the periodic report of RLC and sr-ProhibitTimer expire, that slots come at both
ends and grants that do not vanish arrive (all weak), and of the radio, as strong fairness, that
blocks are decoded again and again and slots again and again have room for a grant and for a
retransmission: a scheduler that other UEs keep busy for good promises nothing.

`Rrc` has weak fairness of `Progress`, all steps but troubles: the simulator executes every
event that is scheduled. A step of `Progress` is an event in the queue of the simulator: a
message, the next step of a procedure, a timer.

### Findings

`ExpireStatusProhibitTimer` (nr-rlc-am.cc:1493) is empty. A STATUS PDU requested while
t-StatusProhibit runs is kept from the buffer status report (lines 900, 1376 and 1442) and
nothing announces it when the timer ends, though the comment at line 1437 explains that
without the report a bearer that only receives waits for an unrelated opportunity. `am_live`
shows the consequence is delay only: the sender's next poll requests it again.

`NrRlcUm::ExpireReorderingTimer` (nr-rlc-um.cc:942) discards the segment that is held after
its delivery, because its continuation "was among the lost SNs and will never arrive"
(line 937). When the last PDU delivered is the one before the new VR(UR), the continuation
is PDU VR(UR), which is in flight or not built yet. `um_stranded` shows it with a PDU that is
late below one that ends in the first segment of an SDU: the SDU is lost although none of its
PDUs is. The discard is needed only when the held segment is followed by a number given up.

The random access a connected UE starts when its scheduling requests get no answer
(nr-ue-mac.cc:680) "only restores the uplink grant path, so the connection carries on with
nothing to signal" (nr-ue-rrc.cc:949). But the answer carries a new RNTI, which MAC and RRC of
the UE take (nr-ue-mac.cc:780, nr-ue-rrc.cc:889), and the gNB has made a context for it that
waits for a connection request and is removed by its timeout. `rrc_recovery` ends with a UE in
CONNECTED_NORMALLY whose RNTI no context has. The properties of `rrc` and `rrc_live` about a
UE and its context therefore leave recoveries out.

A gNB keeps one TEID-to-RNTI map for all contexts of a session, and forgets an RNTI by erasing the
TEIDs its own map names (nr-epc-gnb-application.cc:184). When a UE goes from A to B, from there to C
and from C back to A, while the release that B sends to A is still on the way, the TEIDs lead to the new
context when the release comes, are erased, and downlink packets of the UE are dropped at A for good:
the two maps, which nr-epc-gnb-application.h describes as kept together, no longer agree. Between two
gNBs the link's order excludes it. `DownlinkReachesUe` leaves it out (`spent["return"]`); it was found
by the attempt to prove that property, and with three gNBs and three handovers TLC shows it.

Seen while modelling and left in the properties as exceptions: a handover preparation failure
in HANDOVER_LEAVING stops the timeout and the context stays for good (nr-gnb-rrc.cc:1104), and
a connection request that meets CONNECTED_NORMALLY or HANDOVER_LEAVING leaves the context in
INITIAL_RANDOM_ACCESS without timeout (nr-gnb-rrc.cc:1197).

In the uplink, seen and part of the model: NACKs for which the symbols run out exactly are left
without retransmission until their timers free them (nr-mac-scheduler-harq-rr.cc:431), though line
408 says that the feedback is then buffered; and for a process whose block had no data the UE sends
a new report when asked to repeat it, though nr-ue-mac.cc:936 says that nothing is sent. Outside
of it: the branch for a grant of which no byte was used (nr-ue-mac.cc:908) is dead, since the
report is counted as used; the report timer of UM is armed by transmission opportunities only, so
that after the loss of its first request a UM bearer is silent until new data comes; the STATUS
PDUs of two AM bearers may not fit a small grant together (nr-ue-mac.cc:1266).

## 4. Proofs

Every assumption is checked by TLC on each instance. A component's theorems hold for every
value of its constants; its safety properties in the table of runs are theorems unless listed
at the end of this section.

### RLC

`SnAssumption`: the number space is not empty and its size divides that of the `uint16_t`.
`AmAssumption`: the parameters have their types and `MaxLag \in WindowSize .. SNMod - WindowSize`,
which implies that the window is at most half the number space (512 of 1024: exactly half).
`UmAssumption`: the same of the window, at most a window of PDUs in one instant, and no PDU in
flight for more than a turn of the numbers.

- `RlcSdu_proofs`, numbers: remainders are unique (`DivisionIsUnique`), the comparison operators
  follow the distance from the base (`ComparisonsFollowTheWindow`) although the C++
  remainder of a value below the base is negative and wraps, and `-` undoes `+` (`MinusUndoes`).
  `RlcSnWindow_proofs` adds that `+` undoes `-` and states both of a sliding window: `Ordered`, `Undone`.
- `RlcSdu_proofs`, data: the bytes of SDUs 1, 2, ... in order are a line; a *stream* is a piece of it
  (`IsStream`). A stream is cut into the beginning and the end of SDUs and whole ones in between
  (`PiecesAre`, `StreamCut`); `Reassemble`, given the next piece of the line and the part of an SDU
  that is held, returns the SDUs that are complete and holds the rest (`ReassembleInOrder`), and so
  does the fold over a run of PDUs (`RunInOrder`). The induction over the data goes through the
  least counterexample: a non-empty set of numbers has a least element (`LeastElement`), which the
  well-foundedness of inclusion on finite sets gives without a theorem that takes an operator.
- `RlcAm_proofs`, windows: `TypeCorrect` is inductive by itself. `NoFalseAck` is not: what a
  STATUS PDU makes the sender release depends on the truth of copies in flight, on which PDU each
  number means, and so on all window variables. `IInv` places everything on the line of PDU numbers
  and says: `WindowInv`, VT(A) <= VR(R) <= VR(MS) <= VR(H) <= VT(S) <= VT(A) + window;
  `ReorderingInv`, t-Reordering runs while VR(MS) < VR(H), and nothing is missing from
  VR(X) to VR(MS); `TxBufferInv`, `RxBufferInv`, buffers hold PDUs of their windows, each
  once; `DataInv`, `StatusInv`, copies are not older than `MaxLag`, and what a STATUS PDU
  does not report missing below ACK_SN stays received; `ReleaseInv`, what is not held was
  received. One lemma per action shows that `IInv` is preserved; the comparisons of the
  code are first turned into comparisons on the line (`CompareAhead`, `InsideIsAhead`,
  `Positions`), valid because all numbers in question lie within `SNMod` of the base.
  From `IInv` follow `StatusNeverReleasesTooMuch`, `WindowsAlwaysAgree`,
  `GapsAreWatched`, `AssertionsNeverFire` and `VrMsOnlyAdvances`; `ReportGoesOn` has an
  invariant of its own. `RetransmissionsAreCounted` adds `HeldOnce` to `IInv`, the sender holds each
  PDU once, so that a PDU after a step is compared with the one PDU it was before.
- `RlcAm_proofs`, payload: `PayloadInv` says that there is an assignment `pl` of bytes to PDU
  numbers that explains all copies. The payloads of PDUs 0, 1, ... and the sender's queue are one
  stream that ends with the last byte accepted; a copy, wherever it is, carries the payload of its
  number; and what was delivered and is held for reassembly is the beginning of the stream, up to
  the PDU before VR(R). No variable of the code holds `pl`: it exists in each state, and a step
  that builds a PDU extends it. From it follow `DeliveredInOrder`, `NoByteIsLost` and
  `ImplementsServiceSafely`, the safety part of the refinement of `RlcService`: `Init` maps to its
  initial state and each step to one of its steps or to none.
- `RlcUm_proofs`, windows: which PDUs the receiver places depends on what may still arrive, of this
  transmitter and those before it. `WindowInv` places all of it on the line of PDU numbers of each
  transmitter: `TxInv`, PDUs in flight lie less than a turn apart and their times go with their
  numbers; `RxInv`, the receiver's window ends after the newest PDU placed, VR(UR) < VR(UX) <=
  VR(UH) while t-Reordering runs, the buffer is above VR(UR) and of one transmitter; `AgeInv`, no PDU in flight is so
  old that the time stamps would not tell it. From it follow `NewPdusArePlaced`, for any number of
  new transmitters and receivers, `GapsAreTimed`, and the action property `NewDataKeepsBsrTimer`.
- `RlcUm_proofs`, data: here PDUs are missing, and each transmitter begins its numbers again, so the
  line of bytes of RLC AM becomes an assignment `pl[a][n]` of bytes to the n-th PDU of transmitter a.
  `DataInv` says that there is one such that: each transmitter cut one stream (`Line`), those after it
  carry later SDUs, and what waits goes on from there (`Built`, `Coming`); a PDU in flight or in the
  buffer carries the piece of its number (`Flight`, `BufferData`); what was delivered are whole SDUs
  whose last bytes came with *settled* PDUs, those VR(UR) has passed and those that left a tombstone
  (`Correct`, `Settled`), and a byte lies in one PDU only (`EndsOnce`), so that no SDU comes out
  twice; a held segment is the beginning of the SDU that PDU e continues, where e has the SN
  expected (`KeepData`). The last part is the delicate one. `Reassemble` recognises the continuation by its
  SN alone, and a segment is kept over gaps that are given up. No PDU of a later turn is taken for its
  continuation because the newest PDU placed is at most a window after e, or else a PDU less than a
  turn after e waits in the buffer and is reassembled first (`PlaceData` for a placement with its three deliveries, `ExpiryData` for t-Reordering,
  `FreshData` for a re-establishment). From `DataInv`, together with `WindowInv`, follow `TypesHold`,
  `SdusAreDelivered` and `WholeSdusStay`.

### RRC

The proofs hold for every number of UEs, gNBs, RNTIs, sessions, handovers and faults.
Their assumptions are that the constants have their types and that the values that stand for
"none" are no node (`NodesAssumption`, `RanAssumption`, `EpcAssumption`, `UeAssumption`,
`RrcAssumption`). `TypeCorrect` and `TimersMatch` come from one inductive invariant, `Inv`.
That each timeout runs in the states it is meant for is not inductive: a handover answer that
meets a context in a foreign state would restart or stop the wrong timeout or fail an assert, and
what may still arrive depends on both gNBs and on the link between them. `Inv` says:

- `CtxInv`: state, timeouts, deferred work and handover fields of each context fit together;
- `MsgInv`, `X2Inv`: of each handover a link holds the request, then one answer, then what follows,
  each at most once and in order, addressed to a context that is waiting for exactly it;
- `AppOK`, `EpcOK`: the gNB application and the core network name sessions and RNTIs that exist;
- `UeOK`, `AirInv`: at most one RRC message is in the air, and it tells what its sender and the
  context it is addressed to are doing;
- `AbortOK`, `SpentOK`: an abort is at a site that can be reached; the counters are in bounds.

Changes of a context or a link that keep a part are lemmas of the first part of `GnbRrc_proofs`. Each handler has a
lemma that it keeps the invariant (`...Keeps`), one that says what it sends into the air and where
it may fail (`...Calm`), and for the UE one that says where it goes (`...Moves`).
`ExcludedAbortsExcluded` is the theorem about the assertions: the sites of `ReachedAborts` are the
only ones at which a simulation can end.

The second part of `Rrc_proofs` is about whom an RNTI belongs to. Messages and contexts name each
other by RNTIs, and nothing in a message says which UE is meant; that the two contexts a handover
joins are of one UE is true because an RNTI of a gNB is given to one UE and never again. `OwnInv`
says so without a variable for it: there is an `own \in Owners`, an owner of each RNTI, such that
the contexts (`CtxOwned`), the other ends they remember (`SourcesOwned`), the requests and
acknowledgements on the links (`X2Owned`), the UEs with the RNTIs they use or are about to use
(`UesOwned`) and the RRC messages (`UpOwned`, `DownOwned`) agree with it; a step that makes a
context extends it. `Served` adds that a context serves a UE only while the UE is in it or its
removal is under way. `HandoverJoins` and `OneContext` follow.

Both hold as long as no preambles overlapped, and `OneContext` as long as no uplink was recovered:
then a UE uses an RNTI that was given to another, or a new one that no context has. The condition on
overlaps in `OneContextServes` is needed only with two handovers: a UE in CONNECTED_HANDOVER whose
target context has timed out takes, by the overlap, the response meant for another UE, and completes
its handover in the other one's context. The proof led to it; one handover, as in `rrc`, does not show it.

`RrcPath_proofs` is about where downlink packets go. The way has three parts kept by three owners: the
UE's session (`downlink`), the gNB its tunnel ends at (`endpoint`), and at each gNB one table from
sessions to RNTIs and one back. A connection set-up, a handover, a path switch and a release write them
one after the other, through a queue of requests, a queue of answers and the X2 links, and no message
names a UE and a session and a context together. `PathInv` says, again without a variable for it, that
there is a `sown \in SessionOwners`, the UE each session was created for, with which contexts, requests and
handover requests agree (`SessionsKnown`), and for each UE:

- `ReachedFed`: if nothing is asked of the core network, packets reach each context that serves the UE
  (`Fed`), and its handover's source keeps TEIDs of the session only while a release is under way;
- `Awaited`, `AwaitsLatest`: a context that waits for the core network is the one the answer goes to, of a
  request that names its session; the last request decides, since each one overwrites `mmeCell`;
- `JoinsReady`: the context a handover sent the UE to has the UE's session, and nothing else at its gNB has;
- `TargetForgets`, in `Fed`: if the target of a handover that is being prepared still has TEIDs of the session,
  their release is on the link to it before the handover request. That is where `spent["return"]` comes from:
  with a third gNB the release comes over another link.

`...Plain` are the handlers that leave all of this alone, `...KeepsPath` those that do not. `DownlinkReaches`
follows. It has the condition that no preambles overlapped, which `DownlinkReachesUe` has not: with an
overlap there is no owner of each RNTI to argue from. TLC checks that case, with one handover.

### Uplink

`UlAirAssumption`, `UeMacAssumption` give the constants their types; `UplinkAssumption` says that the
feedback for a grant is there before the process expires (`MaxDelay < NumHarqProcess`, section 2). The
number of processes, redundancy versions, units of data and troubles is arbitrary.

The HARQ process at the scheduler, the burst at the UE and the history at the PHY are joined by a
process number only, and the scheduler gives a number to new data as soon as it thinks that the old is
settled. `IInv` follows the process:

- `OnePlace`: what concerns a process is in one place, and there once: a grant or a block under way,
  feedback at the gNB MAC, or a NACK the scheduler has buffered;
- `InTime`: the process waits for it, and is not too old; the redundancy version in it is that of the
  process, and one that is buffered was not the last;
- `SameBurst`: a block carries the burst that the UE keeps, and the PHY combined nothing else with it;
- `Accounted`: data of a burst is on its way or settled; what is on its way has not been received;
  bursts of two processes have no data in common; what was sent is in a burst, received or given up.

`SlotKeeps` is the step that matters: the scheduler ages, merges, sorts and retransmits in one call.
`ProcessesAre`, `GrantsAre` and `BufferedAre` say what that makes of each process, of the grants and of
the buffered NACKs; `AtKeeps` says what `At` does, a selection of positions written with cardinalities
since a recursive one could not be reasoned about. From `IInv` follow `FeedbackMeetsItsProcess`,
`CombinesOneBlock`, `DataIsAccountedFor` and `NothingArrivesTwice`.

### Only model-checked

- `Rrc`: `DownlinkReachesUe` after preambles overlapped.
- All liveness: the fairness part of `ImplementsService`, `SenderDrains`, `BufferedPdusLeave`,
  `UesConnect`, `ContextsEnd`, `BacklogServed`, `HarqProcessesEnd`, `WastedGrantsEnd`: fairness and
  ENABLED are out of the prover's reach.

## 5. Not modelled

- In RLC AM: `ReestablishRxSide` and the epochs of `AcceptPduFromPeerEntity`, modelled for UM. In
  both: the assertion that compared numbers share a modulus base, the byte sizes in buffer
  status reports.
- In RRC: re-establishment (`RecvRrcReestablishment*`: with either value of `UseRrcReestablishment` a
  UE ends its connection at a radio link failure), the transport of RRC messages over SRBs (`nr-rrc-protocol-real.cc`), handovers inside a gNB,
  secondary carriers, the measurements that lead to a handover, forwarding of user data over X2,
  the messages inside the core network (`EpcService` stands for MME, SGW and PGW).
- In the uplink: sizes in bytes and the division of a grant among logical channels, the scheduling of
  several UEs, msg3 and SRS, back-off and the response window of random access. Of the downlink of the MAC
  nothing: its HARQ (several streams, feedback by control message) and the scheduler's copy of the queues.
- Scheduling metrics, PHY, channel, error models, AMC, beamforming, CSI, power control:
  floating-point computation without protocol state; seen as loss, delay and repetition.
- ASN.1, GTP and X2 headers, QoS rules: codecs and filters of one packet.
- Component carrier managers, fronthaul control, devices, helpers: routing and wiring.

## 6. Plan

In order of importance; each module gets an MC module, a type invariant, properties at the
hazards of its part, and proofs of the safety ones.

1. The epochs of `RlcUm` for `RlcAm`, whose STATUS PDUs and held PDUs of an old window add to
   what may arrive; base agreement.
2. The downlink of the MAC on the pattern of `UlScheduler`, and grants in bytes.
3. `RandomAccess`: preambles, responses, back-off; two UEs in contention.
4. `SfnSf`, `MeasReport`, `EpcSession`: slot arithmetic against a counter for every
   numerology; time-to-trigger; bearer set-up and path switch.

Theorems worth having next: `DownlinkReachesUe` also when preambles overlap, from an invariant without an
owner of each RNTI, and the order of `SfnSf` for every number of slots.
