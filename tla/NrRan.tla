------------------------------- MODULE NrRan -------------------------------
(***************************************************************************)
(* What the RRC modules share: the RRC messages between the UEs and the    *)
(* gNBs, and the failed assertion that ends a simulation.                  *)
(*                                                                         *)
(* The RRC messages are those of the ideal protocol, the default of the    *)
(* helper (nr-rrc-protocol-ideal.cc): an event scheduled with no delay.    *)
(* Nothing else happens before such an event, so all that a module leaves  *)
(* to do later waits until both queues are empty (see Rrc).                *)
(***************************************************************************)
EXTENDS NrNodes, Naturals, Sequences

CONSTANT MaxRnti  \* bound: RNTIs one gNB allocates (65534 in the code)

ASSUME RanAssumption == MaxRnti \in Nat

VARIABLES
    up, down,  \* RRC messages from and to each UE
    abort      \* the assertion that failed; "none" while the simulation runs

airVars == <<up, down>>

Rnti == 1 .. MaxRnti

\* [gnb, rnti] is the context at the gNB; a handover command also names the
\* target and the RNTI there.
UpMessage ==
    [type : {"ConnectionRequest", "SetupCompleted", "ReconfigurationCompleted",
             "IdealUeContextRemove"},
     gnb : Gnb, rnti : 0 .. MaxRnti]
DownMessage ==
    [type : {"ConnectionSetup", "ConnectionReject", "Reconfiguration",
             "HandoverCommand", "ConnectionRelease"},
     gnb : Gnb, rnti : 0 .. MaxRnti]

\* The queues after m is put at the end of that of u.
To(queues, u, m) == [queues EXCEPT ![u] = Append(@, m)]

InstantOver == \A u \in Ue : up[u] = <<>> /\ down[u] = <<>>
=============================================================================
