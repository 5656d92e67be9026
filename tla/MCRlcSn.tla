------------------------------ MODULE MCRlcSn ------------------------------
(***************************************************************************)
(* The comparisons and the arithmetic of nr::SequenceNumber10 with the     *)
(* sizes of the code (1024 numbers, 16-bit values), on the numbers around  *)
(* the ends and the middle of the number space, against their reference.   *)
(***************************************************************************)
EXTENDS RlcSnWindow

Edges == {0, 1, 2, 511, 512, 513, 1022, 1023}
=============================================================================
