------------------------------- MODULE MCRsuMgmt -------------------------------
EXTENDS RsuMgmt, TLC

CONSTANTS app, app2, P1, P2

MCImages == {app, app2}
MCBlocks == [i \in Images |-> 2]
MCSlots == {P1, P2}
Symmetry == Permutations(MCImages) \cup Permutations(MCSlots)
================================================================================
