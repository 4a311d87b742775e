------------------------------ MODULE MCImageBlock ------------------------------
(* Two slots and images that differ in how they are linked.                          *)
EXTENDS ImageBlock

MCHeads == {CMF, GARBAGE, ERASED, "sig", "sig2", "data", "x"}

Good(head, ptrs) == [head |-> head, ptrs |-> ptrs, crc |-> Crc(head, ptrs)]
Damaged(b) == [b EXCEPT !.crc = Crc("x", <<>>)]
Whole(blocks) == [blocks |-> blocks, whole |-> TRUE]
CutShort(blocks) == [blocks |-> blocks, whole |-> FALSE]

Cmf == Good(CMF, <<>>)
Data == Good("data", <<2>>)

MCSlots == {[offset |-> 10, size |-> 6], [offset |-> 20, size |-> 6]}

\* Two CMF sections and one without; linked for offset base.
Nested(base) ==
    Whole(<<Cmf, Good("sig", <<base + 2, base + 5>>), Cmf, Good("sig2", <<base + 5>>), Data, Data>>)

MCImages ==
    {Nested(0), Nested(10), Nested(20),
     \* one section more than the list takes
     Whole(<<Cmf, Good("sig", <<5, 4, 2>>), Cmf, Good("sig2", <<4>>), Data, Data>>),
     \* the second signature block is damaged
     Whole(<<Cmf, Good("sig", <<2>>), Cmf, Damaged(Good("sig2", <<>>))>>),
     \* a pointer at the slot's end, and the next block a section, too
     Whole(<<Cmf, Good("sig", <<6, 1>>), Cmf>>),
     \* more blocks than the slot has
     Whole(<<Data, Data, Data, Data, Data, Data, Data>>),
     \* cut off behind a regular block, and behind the first one
     CutShort(<<Cmf, Good("sig", <<>>), Data, Data>>),
     CutShort(<<Cmf>>)}
================================================================================
