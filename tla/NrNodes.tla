------------------------------ MODULE NrNodes ------------------------------
(***************************************************************************)
(* The nodes of a simulation.                                              *)
(***************************************************************************)
CONSTANTS
    Ue,        \* the UEs, by IMSI
    Gnb,       \* the gNBs: one cell each
    None       \* no cell, no UE

ASSUME NodesAssumption == None \notin Ue /\ None \notin Gnb
=============================================================================
