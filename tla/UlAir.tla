------------------------------- MODULE UlAir -------------------------------
(***************************************************************************)
(* What the two ends of the uplink of one UE share: scheduling requests,   *)
(* uplink grants (DCIs) and transport blocks under way, and the failed     *)
(* assertion that ends a simulation.                                       *)
(*                                                                         *)
(* The data of the UE's logical channel comes in units 1, 2, ...; the      *)
(* sizes of grants and blocks are numbers of units.                        *)
(***************************************************************************)
EXTENDS Naturals, Sequences, FiniteSets

CONSTANTS
    NumHarqProcess,  \* uplink HARQ processes of a UE (16 or 20 in the code)
    MaxRv,           \* retransmissions of a transport block (3)
    MaxData,         \* bound: units the UE gets to send
    MaxTrouble       \* bound of trouble

ASSUME UlAirAssumption ==
    /\ NumHarqProcess \in Nat \ {0}
    /\ MaxRv \in Nat
    /\ MaxData \in Nat
    /\ MaxTrouble \in Nat

VARIABLES
    sr,      \* a scheduling request is under way, or in m_srRntiList of the gNB
             \* MAC, which keeps one per UE
    dcis,    \* DCIs on their way to the UE, oldest first
    tbs,     \* transport blocks on their way to the gNB, oldest first
    trouble, \* how much vanished, how many grants were too small for data, and
             \* how often RLC reported data that it only had to keep
    abort    \* the assertion that failed; "none" while the simulation runs

airVars == <<sr, dcis, tbs, trouble>>

HarqId == 0 .. NumHarqProcess - 1
Data == 1 .. MaxData

\* ndi = 1 asks for new data, ndi = 0 for what process p sent before.
Dci == [p : HarqId, ndi : 0 .. 1, rv : 0 .. MaxRv]

\* bsr is what the buffer status report in the block says: data is waiting.
Tb == [p : HarqId, ndi : 0 .. 1, rv : 0 .. MaxRv, data : SUBSET Data, bsr : BOOLEAN]
=============================================================================
