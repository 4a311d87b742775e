-------------------------------- MODULE EchoLine --------------------------------
(***************************************************************************)
(* What the serial port and its echo application promise: the bytes that   *)
(* were received go out once each and in order. Bytes may get lost on the  *)
(* way, but only behind Room others that still wait.                       *)
(***************************************************************************)
EXTENDS Integers, Sequences

CONSTANTS
    Byte,
    Room      \* what the application's buffer holds

VARIABLES
    q,        \* the bytes received and not yet sent, oldest first
    out       \* the byte on the line

Init == q = << >> /\ out \in Byte

\* What the line has taken, and what is left.
Sent(k) == k <= Len(q) /\ out' = IF k = 0 THEN out ELSE Head(q)
Left(k) == SubSeq(q, k + 1, Len(q))

\* What is left when the bytes from i + 1 to j disappear.
Without(s, i, j) == SubSeq(s, 1, i) \o SubSeq(s, j + 1, Len(s))

\* A byte may leave, some in a row disappear, and one arrive, all at once.
Next ==
    \E k \in {0, 1} :
       /\ Sent(k)
       /\ \E arrived \in {<< >>} \cup {<<b>> : b \in Byte}, i, j \in 0..Len(Left(k)) :
            /\ i <= j /\ (i < j => Room <= i)
            /\ q' = Without(Left(k), i, j) \o arrived

Spec == Init /\ [][Next]_<<q, out>>
================================================================================
