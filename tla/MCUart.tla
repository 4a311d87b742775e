--------------------------------- MODULE MCUart ---------------------------------
(***************************************************************************)
(* Uart for TLC. The line brings a repeating sequence of distinct bytes    *)
(* and the master writes one of two: nothing in the port looks at a byte.  *)
(***************************************************************************)
EXTENDS Uart, TLC

CONSTANTS a, b

MCByte == {a, b}
MCFollows == {<<a, b>>, <<b, a>>}
MCReads == Readable
MCWrites == [op : {"write"}, reg : {"DATA"}, v : Byte]
            \cup [op : {"write"}, reg : {"ERRORS"}, v : {0}]

Swap == Permutations(Byte)
================================================================================
