------------------------------ MODULE MCUplink -----------------------------
(***************************************************************************)
(* The instance of Uplink for TLC: MCUplink.cfg gives every constant a     *)
(* number.                                                                 *)
(***************************************************************************)
EXTENDS Uplink
=============================================================================
