----------------------------- MODULE MCPllReconfig -----------------------------
(* PllReconfig for TLC: three phases, so that a sampled mixture can be neither the    *)
(* old nor the new one.                                                               *)
EXTENDS PllReconfig

MCPhases == 0..2
================================================================================
