------------------------------- MODULE ImageBlock -------------------------------
(* The signature blocks of a bitstream in one slot: librsu_cb_program_common moves   *)
(* the pointers of an image to the slot while it writes it block by block, and       *)
(* librsu_cb_verify_common does the same on its own copy to compare it with flash    *)
(* (libRSU_image.c, libRSU_cb.c). Offsets and pointers count blocks of 4 KB.          *)
(* A block is its first word and the data (head), the pointers in its last 256       *)
(* bytes and the CRC over both. A CRC is right for one content only.                  *)
EXTENDS Integers, Sequences, FiniteSets

CONSTANTS
    Heads,         \* first words and data of blocks
    Images,        \* [blocks, whole]: without whole the last block is cut off before its pointers
    Slots,         \* [offset, size] of the partitions
    MAX_SECTIONS,
    EraseStops,    \* blocks after which a failing erase may stop
    WeakBlocks     \* blocks that flash may lose between two calls

CMF == "cmf"       \* a head that begins with CMF_MAGIC
GARBAGE == "garbage"
ERASED == "erased"

Crc(head, ptrs) == [head |-> head, ptrs |-> ptrs]
CrcRight(b) == b.crc = Crc(b.head, b.ptrs)
WithHead(b, head) == [head |-> head, ptrs |-> b.ptrs, crc |-> b.crc]

ErasedBlock == [head |-> ERASED, ptrs |-> <<>>, crc |-> Crc(GARBAGE, <<>>)]
BadBlock == [head |-> GARBAGE, ptrs |-> <<>>, crc |-> Crc(ERASED, <<>>)]

Block == [head : Heads, ptrs : Seq(Int), crc : [head : Heads, ptrs : Seq(Int)]]

ASSUME ImageAssumption ==
    /\ MAX_SECTIONS \in Nat \ {0}
    /\ Slots \subseteq [offset : Nat, size : Nat]
    /\ EraseStops \subseteq Nat
    /\ {CMF, GARBAGE, ERASED} \subseteq Heads
    /\ Images # {} /\ Images \subseteq [blocks : Seq(Block) \ {<<>>}, whole : BOOLEAN]

\* The slots do not overlap and lie behind the boot information and the factory image.
ASSUME SlotsAssumption ==
    \A s, t \in Slots :
        /\ 0 < s.offset /\ t.size <= s.offset
        /\ s = t \/ s.offset + s.size <= t.offset \/ t.offset + t.size <= s.offset

VARIABLES
    info,      \* the slot
    cells,     \* what flash holds of it
    priority,  \* in the boot order?
    pc, call,  \* call: [op, image, raw]
    k,         \* blocks done; state->offset is k while a block is processed
    state,     \* sections, block_type, absolute of rsu_image_state
    buf, vbuf, \* whose tails outlive a block that is cut off
    ret,
    made       \* ghost: the last programming that succeeded, and what it left

vars == <<info, cells, priority, pc, call, k, state, buf, vbuf, ret, made>>
buffers == <<buf, vbuf>>
--------------------------------------------------------------------------------
\* libRSU_image.c

InitState == [sections |-> {0}, block_type |-> "regular", absolute |-> FALSE]

\* add_section for each pointer in turn: a full list ignores new ones.
AddSections(sections, ptrs) ==
    sections \cup {ptrs[x] : x \in {y \in DOMAIN ptrs :
        Cardinality(sections \cup {ptrs[z] : z \in 1..y}) <= MAX_SECTIONS}}

BlockType(st, n) == IF n \in st.sections THEN "section" ELSE st.block_type

\* An absolute image is found by the first signature block, the second block of all.
IsAbsolute(s, st, n, b) ==
    st.absolute \/ (n = 1 /\ \E x \in DOMAIN b.ptrs : b.ptrs[x] > s.size)

InSlot(s, absolute, ptrs) ==
    [x \in DOMAIN ptrs |-> IF absolute THEN ptrs[x] - s.offset ELSE ptrs[x]]

sig_block_process(s, st, n, b) ==
    LET absolute == IsAbsolute(s, st, n, b)
    IN  [sections |-> AddSections(st.sections, InSlot(s, absolute, b.ptrs)),
         block_type |-> "regular", absolute |-> absolute]

\* The state after block n.
Advance(s, st, n, b) ==
    CASE BlockType(st, n) = "section" ->
            [st EXCEPT !.block_type = IF b.head = CMF THEN "signature" ELSE "regular"]
      [] BlockType(st, n) = "signature" -> sig_block_process(s, st, n, b)
      [] BlockType(st, n) = "regular" -> st

\* Mutant: the pointers are not looked at.
CrcOnly(s, absolute, b) == CrcRight(b)

\* Signed: a pointer below an absolute image's slot is negative and passes.
sig_block_check(s, absolute, b) ==
    /\ CrcRight(b)
    /\ \A x \in DOMAIN b.ptrs : InSlot(s, absolute, b.ptrs)[x] <= s.size

Moved(s, b) ==
    LET ptrs == [x \in DOMAIN b.ptrs |-> b.ptrs[x] + s.offset]
    IN  [head |-> b.head, ptrs |-> ptrs, crc |-> Crc(b.head, ptrs)]

\* What flash is to hold of block n: sig_block_adjust and sig_block_compare agree on it.
Adjusted(s, st, n, b) ==
    IF BlockType(st, n) = "signature" /\ ~IsAbsolute(s, st, n, b) THEN Moved(s, b) ELSE b

Refused(s, st, n, b) ==
    BlockType(st, n) = "signature" /\ ~sig_block_check(s, IsAbsolute(s, st, n, b), b)
--------------------------------------------------------------------------------
\* The callers in libRSU_cb.c and libRSU.c.

Blocks(im) == Len(im.blocks)
CutOff(im, n) == ~im.whole /\ n = Blocks(im) - 1

\* Block n into a buffer, over what is left there of the one before.
Filled(im, n, from, left) == IF CutOff(im, n) THEN WithHead(left, from.head) ELSE from

Returns(r) == pc' = "returned" /\ ret' = r

NoCall == [op |-> "none", image |-> CHOOSE im \in Images : TRUE, raw |-> FALSE]

Init ==
    /\ info \in Slots
    /\ cells = [n \in 0..info.size - 1 |-> ErasedBlock]
    /\ priority = FALSE
    /\ pc = "idle" /\ ret = "none"
    /\ call = NoCall
    /\ k = 0 /\ state = InitState
    /\ buf = ErasedBlock /\ vbuf = ErasedBlock
    /\ made = {}

\* Out of the boot order first; the erase goes on from the start and may fail.
rsu_slot_erase ==
    /\ pc = "idle"
    /\ priority' = FALSE
    /\ \E n \in EraseStops \cup {info.size} :
          /\ cells' = [m \in 0..info.size - 1 |-> IF m < n THEN ErasedBlock ELSE cells[m]]
          /\ Returns(IF n = info.size THEN "ok" ELSE "error")
    /\ made' = {}
    /\ UNCHANGED <<info, call, k, state, buffers>>

\* A call starts with fresh buffers: whatever malloc returns.
Begins(op, im, raw) ==
    /\ call' = [op |-> op, image |-> im, raw |-> raw]
    /\ pc' = op /\ ret' = "none"
    /\ k' = 0 /\ state' = InitState
    /\ buf' \in {ErasedBlock, BadBlock} /\ vbuf' \in {ErasedBlock, BadBlock}

\* The slot is (or is not) in use, protected or unknown, or a table is corrupted.
Rejected(op, im, raw) ==
    /\ call' = [op |-> op, image |-> im, raw |-> raw]
    /\ Returns("rejected")
    /\ UNCHANGED <<k, state, buffers, made>>

rsu_slot_program(im, raw) ==
    /\ pc = "idle"
    /\ \/ Rejected("program", im, raw)
       \/ ~priority /\ Begins("program", im, raw) /\ made' = {}
    /\ UNCHANGED <<info, cells, priority>>

rsu_slot_verify(im, raw) ==
    /\ pc = "idle"
    /\ \/ Rejected("verify", im, raw)
       \/ (raw \/ priority) /\ Begins("verify", im, raw) /\ UNCHANGED made
    /\ UNCHANGED <<info, cells, priority>>

HasBlock == k < Blocks(call.image)
Given == Filled(call.image, k, call.image.blocks[k + 1], buf)

\* NOR flash: a write over other data mixes the two; one that fails or that power cuts
\* short may do so anywhere.
Written(old, new) ==
    LET Result == IF CutOff(call.image, k)
                  THEN {WithHead(old, new.head), WithHead(old, GARBAGE)}
                  ELSE {new, BadBlock}
    IN  {old} \cup {c \in Result : old \in {ErasedBlock, c} \/ c.head = GARBAGE}

program_block ==
    /\ pc = "program" /\ HasBlock
    /\ LET b == Given IN
       \/ /\ (~call.raw /\ Refused(info, state, k, b)) \/ k >= info.size
          /\ Returns("refused")
          /\ UNCHANGED <<cells, state, buf>>
       \/ /\ call.raw \/ ~Refused(info, state, k, b)
          /\ k < info.size
          /\ buf' = IF call.raw THEN b ELSE Adjusted(info, state, k, b)
          /\ state' = IF call.raw THEN state ELSE Advance(info, state, k, b)
          /\ \E c \in Written(cells[k], buf') : cells' = [cells EXCEPT ![k] = c]
          /\ pc' = "read_back" /\ UNCHANGED ret
    /\ UNCHANGED <<info, priority, call, k, vbuf, made>>

\* Only the bytes given are compared.
SameBytes(b, c) == b.head = c.head /\ (CutOff(call.image, k) \/ b = c)

read_back ==
    /\ pc = "read_back"
    /\ \/ SameBytes(cells[k], buf) /\ k' = k + 1 /\ pc' = "program" /\ UNCHANGED ret
       \/ ~SameBytes(cells[k], buf) /\ Returns("differs") /\ UNCHANGED k
    /\ UNCHANGED <<info, cells, priority, call, state, buffers, made>>

\* Mutant: raw data gets into the boot order, too.
AddAlways ==
    /\ pc = "program" /\ ~HasBlock
    /\ priority' = TRUE
    /\ Returns("ok")
    /\ made' = {[image |-> call.image, raw |-> call.raw, cells |-> cells]}
    /\ UNCHANGED <<info, cells, call, k, state, buffers>>

slot_add ==
    /\ pc = "program" /\ ~HasBlock
    /\ priority' = ~call.raw
    /\ Returns("ok")
    /\ made' = {[image |-> call.image, raw |-> call.raw, cells |-> cells]}
    /\ UNCHANGED <<info, cells, call, k, state, buffers>>

\* Mutants: signature blocks are compared as they were given; or only their data is.
Unmoved(b, v) == IF call.raw THEN SameBytes(b, v) ELSE v = b
DataOnly(b, v) ==
    IF call.raw THEN SameBytes(b, v)
    ELSE IF BlockType(state, k) = "signature" THEN v.head = b.head ELSE v = b

\* block_compare looks at 4 KB, also behind the end of the data.
Same(b, v) == IF call.raw THEN SameBytes(b, v) ELSE v = Adjusted(info, state, k, b)

\* A read behind the end of the partition is refused (Fails).
verify_block ==
    /\ pc = "verify" /\ HasBlock /\ k < info.size
    /\ buf' = Given
    /\ vbuf' = Filled(call.image, k, cells[k], vbuf)
    /\ state' = IF call.raw THEN state ELSE Advance(info, state, k, buf')
    /\ \/ Same(buf', vbuf') /\ k' = k + 1 /\ UNCHANGED <<pc, ret>>
       \/ ~Same(buf', vbuf') /\ Returns("differs") /\ UNCHANGED k
    /\ UNCHANGED <<info, cells, priority, call, made>>

verified ==
    /\ pc = "verify" /\ ~HasBlock
    /\ Returns("ok")
    /\ UNCHANGED <<info, cells, priority, call, k, state, buffers, made>>

\* A read, a write, the callback, an allocation or the change of the boot order fails,
\* or power does. What the write under way leaves is in Written.
Fails ==
    /\ pc \in {"program", "read_back", "verify"}
    /\ Returns("error")
    /\ UNCHANGED <<info, cells, priority, call, k, state, buffers, made>>

Return ==
    /\ pc = "returned"
    /\ pc' = "idle" /\ call' = NoCall /\ ret' = "none"
    /\ k' = 0 /\ state' = InitState
    /\ buf' = ErasedBlock /\ vbuf' = ErasedBlock
    /\ UNCHANGED <<info, cells, priority, made>>

\* External: flash loses its content between two calls.
FlashDecays ==
    /\ pc = "idle"
    /\ \E n \in WeakBlocks \cap DOMAIN cells : \E c \in {BadBlock, WithHead(BadBlock, cells[n].head)} :
          cells' = [cells EXCEPT ![n] = c]
    /\ UNCHANGED <<info, priority, pc, call, k, state, buffers, ret, made>>

Next ==
    \/ rsu_slot_erase
    \/ \E im \in Images, raw \in BOOLEAN : rsu_slot_program(im, raw) \/ rsu_slot_verify(im, raw)
    \/ program_block \/ read_back \/ slot_add
    \/ verify_block \/ verified
    \/ Fails \/ Return \/ FlashDecays

Spec == Init /\ [][Next]_vars
--------------------------------------------------------------------------------
State == [sections : SUBSET Int, block_type : {"section", "signature", "regular"},
          absolute : BOOLEAN]

\* What the variables hold; a slot is in the boot order only as a bitstream, never raw.
TypeOK ==
    /\ info \in Slots
    /\ cells \in [0..info.size - 1 -> Block]
    /\ priority \in BOOLEAN
    /\ pc \in {"idle", "program", "read_back", "verify", "returned"}
    /\ call \in [op : {"none", "program", "verify"}, image : Images, raw : BOOLEAN]
    /\ k \in 0..Blocks(call.image) /\ (pc = "idle" => k = 0)
    /\ pc = "read_back" => k < info.size /\ HasBlock
    /\ state \in State
    /\ buf \in Block /\ vbuf \in Block
    /\ ret \in {"none", "ok", "error", "differs", "refused", "rejected"}
    /\ made \subseteq [image : Images, raw : BOOLEAN, cells : [0..info.size - 1 -> Block]]
    /\ priority => \E m \in made : ~m.raw

\* The call is the verification of what was programmed.
OfMade(m) == call.op = "verify" /\ m.image = call.image /\ m.raw = call.raw

\* Verifying what was programmed never finds a difference while flash keeps it. Two
\* passes over the blocks agree on every section, signature block and pointer, although
\* one of them changes the blocks under way. (Images in whole blocks, or raw data.)
RoundTrip ==
    \A m \in made :
        /\ pc = "returned" /\ OfMade(m)
        /\ m.image.whole \/ m.raw
        /\ m.cells = cells
        => ret # "differs"

\* A verification succeeds only if flash holds every byte that was programmed.
DamageNoticed ==
    \A m \in made :
        pc = "returned" /\ OfMade(m) /\ ret = "ok" =>
            \A n \in 0..Blocks(m.image) - 1 :
                IF CutOff(m.image, n) THEN cells[n].head = m.cells[n].head
                                      ELSE cells[n] = m.cells[n]

\* External: an image as the programming file generator links it, for offset base. S are
\* its sections; the second block of a CMF section points at later ones.
Linked(im, base, S) ==
    /\ im.whole
    /\ S \subseteq 0..Blocks(im) - 1
    /\ 0 \in S /\ Cardinality(S) <= MAX_SECTIONS
    /\ \A p \in S : im.blocks[p + 1].head = CMF =>
          /\ p + 1 \in 1..Blocks(im) - 1 /\ p + 1 \notin S
          /\ \A x \in DOMAIN im.blocks[p + 2].ptrs :
                im.blocks[p + 2].ptrs[x] - base \in S /\ im.blocks[p + 2].ptrs[x] - base > p
    /\ \A q \in S \ {0} : \E p \in S :
          /\ p < q /\ im.blocks[p + 1].head = CMF
          /\ \E x \in DOMAIN im.blocks[p + 2].ptrs : im.blocks[p + 2].ptrs[x] = base + q

\* From the first block on, every CMF section has a signature block with a right CRC,
\* whose pointers lead to sections of this slot.
Loads ==
    \E S \in SUBSET DOMAIN cells :
        /\ 0 \in S
        /\ \A p \in S : cells[p].head = CMF =>
              /\ p + 1 \in DOMAIN cells /\ CrcRight(cells[p + 1])
              /\ \A x \in DOMAIN cells[p + 1].ptrs : cells[p + 1].ptrs[x] - info.offset \in S

\* What was programmed as a bitstream leads the loader from section to section inside its
\* slot, and no damaged signature block was made good on the way, whether the image was
\* linked for offset 0, for this slot or for a later one (which is refused). One for an
\* earlier slot is not refused: its pointers become negative.
Loadable ==
    \A m \in made, S \in SUBSET DOMAIN cells, base \in {0} \cup {s.offset : s \in Slots} :
        /\ m.cells = cells /\ ~m.raw
        /\ base = 0 \/ base >= info.offset
        /\ Linked(m.image, base, S)
        => /\ Loads
           /\ \A p \in S : m.image.blocks[p + 1].head = CMF => CrcRight(m.image.blocks[p + 2])
================================================================================
