------------------------------ MODULE MCSdmMailbox ------------------------------
(***************************************************************************)
(* SdmMailbox for TLC: two chunks, so that a call has one retry in front   *)
(* of another command of its own.                                          *)
(***************************************************************************)
EXTENDS SdmMailbox

MCAddrs == {0, 1}
EveryCall == FlashOps \cup RsuOps
================================================================================
