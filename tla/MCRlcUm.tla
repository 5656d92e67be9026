------------------------------ MODULE MCRlcUm ------------------------------
(***************************************************************************)
(* The SDUs of the runs of RlcUm, by their lengths in bytes.               *)
(***************************************************************************)
EXTENDS RlcUm

MixedSduLen == <<1, 2, 2>>   \* up to five PDUs: the first SN is used again
ShortSduLen == <<1, 1, 2>>
SplitSduLen == <<1, 2, 1>>   \* an SDU may be split between two that are not
=============================================================================
