--------------------------------- MODULE MCCpb ---------------------------------
(***************************************************************************)
(* Cpb for TLC: the board's two application partitions P1 (0x0800000, bit  *)
(* 23) and P2 (0x0C00000, bits 23 and 22). Bit 24 stands for every other   *)
(* bit of a pointer, so P1 is what is left when P1 is programmed over P2.  *)
(***************************************************************************)
EXTENDS Cpb

MCBits == {22, 23, 24}
MCParts == {{23}, {22, 23}}

\* One partition: for the runs whose question needs no second one.
OneBits == {23, 24}
OnePart == {{23}}
================================================================================
