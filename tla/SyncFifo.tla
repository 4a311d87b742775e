-------------------------------- MODULE SyncFifo --------------------------------
(***************************************************************************)
(* hw/uart/sync_fifo.vhd: a single-clock FIFO in block RAM, as a record of *)
(* its registers and the function a rising clock edge is. A word that has  *)
(* been popped, or was never pushed, is Junk.                              *)
(***************************************************************************)
EXTENDS Integers, Sequences

CONSTANTS
    Byte,    \* the words
    Junk,    \* the content of a cell that nothing should be read from
    Depth    \* 2**g_depth_log2

ASSUME FifoAssumption == Depth \in Nat \ {0} /\ Junk \notin Byte

Cell == 0..(Depth - 1)
Fifo == [ram : [Cell -> Byte \cup {Junk}], head : Cell, tail : Cell,
         n : 0..Depth, rdata : Byte \cup {Junk}]

Cleared == [ram |-> [a \in Cell |-> Junk], head |-> 0, tail |-> 0, n |-> 0, rdata |-> Junk]

\* A pointer one further: an unsigned of g_depth_log2 bits wraps.
Wrap(p) == IF p = Depth - 1 THEN 0 ELSE p + 1

\* The cell i places after p.
Place(p, i) == IF p + i < Depth THEN p + i ELSE p + i - Depth

do_push(f, push) == push /\ f.n # Depth
do_pop(f, pop) == pop /\ f.n # 0

\* rdata holds the popped word for the clock after the pop.
Edge(f, push, wdata, pop) ==
    [ram   |-> [a \in Cell |-> IF do_push(f, push) /\ a = f.tail THEN wdata
                               ELSE IF do_pop(f, pop) /\ a = f.head THEN Junk
                               ELSE f.ram[a]],
     tail  |-> IF do_push(f, push) THEN Wrap(f.tail) ELSE f.tail,
     head  |-> IF do_pop(f, pop) THEN Wrap(f.head) ELSE f.head,
     n     |-> IF do_push(f, push) /\ ~do_pop(f, pop) THEN f.n + 1
               ELSE IF do_pop(f, pop) /\ ~do_push(f, push) THEN f.n - 1
               ELSE f.n,
     rdata |-> IF do_pop(f, pop) THEN f.ram[f.head] ELSE Junk]

\* The words in it, oldest first.
Contents(f) == [i \in 1..f.n |-> f.ram[Place(f.head, i - 1)]]

\* The pointers and the count say the same, and every word between them is there.
Consistent(f) ==
    /\ f \in Fifo
    /\ f.tail = Place(f.head, f.n)
    /\ \A i \in 0..(f.n - 1) : f.ram[Place(f.head, i)] \in Byte
================================================================================
