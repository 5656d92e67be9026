----------------------------- MODULE EpcService -----------------------------
(***************************************************************************)
(* What the core network promises the gNBs (abstract specification of Epc).*)
(* A session request is served with TEIDs that were never used, a path     *)
(* switch re-points the TEIDs of a session; requests are served in order,  *)
(* and each is answered once, in order, to the cell the UE was last        *)
(* reported in.                                                            *)
(*                                                                         *)
(* Session k stands for the TEIDs of its flows, (k - 1) * n + 1 .. k * n   *)
(* with n flows per UE: SGW allocates them one after the other.            *)
(***************************************************************************)
EXTENDS NrNodes, Naturals, Sequences

CONSTANT MaxSession  \* bound: sessions the SGW creates

ASSUME EpcAssumption == MaxSession \in Nat

VARIABLES
    mmeCell,     \* the cell the MME believes each UE in: m_ueInfoMap cellId
    requests,    \* requests of the gNBs that are not answered yet
    served,      \* the first `served` of them are served
    sessions,    \* sessions created so far: m_teidCount of the SGW
    endpoint,    \* gNB that downlink packets of a session are sent to: m_gnbByTeidMap
    downlink     \* session the downlink packets of a UE are sent through

epcVars == <<mmeCell, requests, served, sessions, endpoint, downlink>>

Session == 1 .. MaxSession
Request == [type : {"Create", "Modify"}, ue : Ue, gnb : Gnb, session : 0 .. MaxSession]

EpcTypeOK ==
    /\ mmeCell \in [Ue -> Gnb \cup {None}]
    /\ requests \in Seq(Request)
    /\ served \in 0 .. Len(requests)
    /\ sessions \in 0 .. MaxSession
    /\ endpoint \in [Session -> Gnb \cup {None}]
    /\ downlink \in [Ue -> 0 .. MaxSession]

EpcInit ==
    /\ mmeCell = [u \in Ue |-> None]
    /\ requests = <<>> /\ served = 0 /\ sessions = 0
    /\ endpoint = [s \in Session |-> None]
    /\ downlink = [u \in Ue |-> 0]

Ask(type, u, g, s) ==
    /\ mmeCell' = [mmeCell EXCEPT ![u] = g]
    /\ requests' = Append(requests, [type |-> type, ue |-> u, gnb |-> g, session |-> s])
    /\ UNCHANGED <<served, sessions, endpoint, downlink>>

\* A UE is connected at a new gNB: it asks for a session.
AskSession(u, g) == Ask("Create", u, g, 0)

\* A UE was handed over to g with session s.
AskSwitch(u, g, s) == Ask("Modify", u, g, s)

\* The first request not served yet takes effect.
Serve ==
    /\ served < Len(requests)
    /\ served' = served + 1
    /\ LET req == requests[served + 1] IN
       \/ /\ req.type = "Create" /\ sessions < MaxSession
          /\ sessions' = sessions + 1
          /\ requests' = [requests EXCEPT ![served + 1].session = sessions + 1]
          /\ endpoint' = [endpoint EXCEPT ![sessions + 1] = req.gnb]
          /\ downlink' = [downlink EXCEPT ![req.ue] = sessions + 1]
       \/ /\ req.type = "Modify"
          /\ endpoint' = [endpoint EXCEPT ![req.session] = req.gnb]
          /\ UNCHANGED <<requests, sessions, downlink>>
    /\ UNCHANGED mmeCell

\* The oldest request is answered: req is the request, g where the answer goes.
Answer(req, g) ==
    /\ served > 0
    /\ req = Head(requests) /\ g = mmeCell[req.ue]
    /\ requests' = Tail(requests) /\ served' = served - 1
    /\ UNCHANGED <<mmeCell, sessions, endpoint, downlink>>
=============================================================================
