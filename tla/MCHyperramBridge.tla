---------------------------- MODULE MCHyperramBridge ----------------------------
(***************************************************************************)
(* HyperramBridge for TLC: one beat of two words is enough for a wrong     *)
(* half and a wrong order, and one read fills the FIFO.                    *)
(***************************************************************************)
EXTENDS HyperramBridge

MCBeats == {0}
================================================================================
