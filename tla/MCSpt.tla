--------------------------------- MODULE MCSpt ---------------------------------
(***************************************************************************)
(* Spt for TLC: the board's two slots P1 and P2; the application may put *)
(* P1 back where it was or in a place that overlaps P2 and that the        *)
(* platform does not let the library write.                                *)
(***************************************************************************)
EXTENDS Spt

MCNames == {"P1", "P2"}
MCNewNames == {"SPT0", "P1"}
Reserved == {"SPT0"}
At(o, l) == [offset |-> o, length |-> l]
Slot(n, e) == [name |-> n, offset |-> e.offset, length |-> e.length]
MCExtents == {At(8, 2), At(11, 2)}
MCWritable == {At(8, 2), At(12, 2)}
MCTables == {<<Slot("P1", At(8, 2)), Slot("P2", At(12, 2))>>}
================================================================================
