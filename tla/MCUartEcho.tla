------------------------------- MODULE MCUartEcho -------------------------------
(***************************************************************************)
(* UartEcho for TLC. The host sends a repeating sequence of distinct       *)
(* bytes: the code never looks at a byte, and a lost, doubled or misplaced *)
(* one breaks the sequence.                                                *)
(***************************************************************************)
EXTENDS UartEcho

MCByte == {"a", "b"}
MCFollows == {<<"a", "b">>, <<"b", "a">>}
================================================================================
