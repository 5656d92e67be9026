------------------------------ MODULE MCRlcAm ------------------------------
(***************************************************************************)
(* The SDUs of the runs of RlcAm, by their lengths in bytes.  With at most *)
(* one or two bytes in a PDU an SDU is cut into several PDUs, and a PDU    *)
(* glues the end of one SDU to the start of the next.                      *)
(***************************************************************************)
EXTENDS RlcAm

WrapSduLen == <<2, 1, 2>>   \* up to five PDUs: the first SN is used again
ShortSduLen == <<1, 2>>     \* for liveness
OneSduLen == <<4>>          \* four PDUs that arrive in any order

\* Bound of the run about reordering: only first transmissions are explored.
OnlyFirstTransmissions == retxBuffer = {}
=============================================================================
