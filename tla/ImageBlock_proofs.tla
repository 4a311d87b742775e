--------------------------- MODULE ImageBlock_proofs ---------------------------
(* Proofs about ImageBlock, for any images, slots and number of sections.            *)
EXTENDS ImageBlock, SequenceTheorems, FiniteSetTheorems, TLAPS

USE DEF Block

LEMMA ImageFacts ==
    ASSUME NEW im \in Images
    PROVE  /\ im.blocks \in Seq(Block) /\ im.whole \in BOOLEAN
           /\ Blocks(im) \in Nat /\ Blocks(im) > 0
           /\ \A n \in Int : 0 <= n /\ n < Blocks(im) => im.blocks[n + 1] \in Block
<1>1. im.blocks \in Seq(Block) /\ im.blocks # <<>> /\ im.whole \in BOOLEAN
  BY ImageAssumption
<1> HIDE DEF Block
<1>2. Len(im.blocks) \in Nat /\ Len(im.blocks) # 0
  BY <1>1, EmptySeq, LenProperties
<1>3. \A n \in 1..Len(im.blocks) : im.blocks[n] \in Block
  BY <1>1, ElementOfSeq
<1> QED BY <1>1, <1>2, <1>3 DEF Blocks

LEMMA SlotFacts ==
    ASSUME NEW s \in Slots
    PROVE  s.offset \in Nat /\ s.size \in Nat
BY ImageAssumption

LEMMA MadeBlocks == ErasedBlock \in Block /\ BadBlock \in Block
<1>1. <<>> \in Seq(Int)
  OBVIOUS
<1> QED BY <1>1, ImageAssumption DEF ErasedBlock, BadBlock, Crc

\* A map over a sequence of pointers is one.
LEMMA MapSeq ==
    ASSUME NEW q \in Seq(Int), NEW e \in [DOMAIN q -> Int]
    PROVE  e \in Seq(Int)
<1>1. DOMAIN q = 1..Len(q) /\ Len(q) \in Nat
  BY LenProperties
<1> QED BY <1>1, IsASeq

LEMMA HeadType ==
    ASSUME NEW b \in Block, NEW c \in Block
    PROVE  /\ WithHead(b, c.head) \in Block /\ WithHead(b, GARBAGE) \in Block
           /\ WithHead(b, c.head).head = c.head
BY ImageAssumption DEF WithHead

LEMMA AdjustedType ==
    ASSUME NEW s \in Slots, NEW st, NEW n, NEW b \in Block
    PROVE  Adjusted(s, st, n, b) \in Block /\ Adjusted(s, st, n, b).head = b.head
<1> DEFINE ptrs == [x \in DOMAIN b.ptrs |-> b.ptrs[x] + s.offset]
<1>1. \A x \in DOMAIN b.ptrs : b.ptrs[x] \in Int
  BY LenProperties, ElementOfSeq
<1>2. ptrs \in Seq(Int)
  <2>1. ptrs \in [DOMAIN b.ptrs -> Int]
    BY <1>1, SlotFacts
  <2> QED BY <2>1, MapSeq
<1>3. Moved(s, b) \in Block /\ Moved(s, b).head = b.head
  <2>1. Moved(s, b) = [head |-> b.head, ptrs |-> ptrs, crc |-> Crc(b.head, ptrs)]
    BY DEF Moved
  <2> HIDE DEF ptrs
  <2> QED BY <1>2, <2>1 DEF Crc
<1> QED BY <1>3 DEF Adjusted

LEMMA AdvanceType ==
    ASSUME NEW s \in Slots, NEW st \in State, NEW n \in Int, NEW b \in Block
    PROVE  Advance(s, st, n, b) \in State
<1>1. \A x \in DOMAIN b.ptrs : b.ptrs[x] \in Int
  BY LenProperties, ElementOfSeq
<1>2. sig_block_process(s, st, n, b) \in State
  <2> DEFINE absolute == IsAbsolute(s, st, n, b)
             ptrs == InSlot(s, absolute, b.ptrs)
  <2>1. absolute \in BOOLEAN
    BY DEF IsAbsolute, State
  <2>2. DOMAIN ptrs = DOMAIN b.ptrs /\ \A x \in DOMAIN ptrs : ptrs[x] \in Int
    BY <1>1, SlotFacts DEF InSlot
  <2>3. AddSections(st.sections, ptrs) \subseteq Int
    <3> HIDE DEF ptrs
    <3> QED BY <2>2 DEF AddSections, State
  <2> QED BY <2>1, <2>3 DEF sig_block_process, State
<1>3. [st EXCEPT !.block_type = IF b.head = CMF THEN "signature" ELSE "regular"] \in State
  BY DEF State
<1>4. BlockType(st, n) \in {"section", "signature", "regular"}
  BY DEF BlockType, State
<1> QED BY <1>2, <1>3, <1>4 DEF Advance

\* The ghost's elements.
Record == [image : Images, raw : BOOLEAN, cells : [0..info.size - 1 -> Block]]

LEMMA GivenType ==
    ASSUME TypeOK, HasBlock
    PROVE  /\ Given \in Block
           /\ Given.head = call.image.blocks[k + 1].head
           /\ call.image.blocks[k + 1] \in Block
           /\ ~CutOff(call.image, k) => Given = call.image.blocks[k + 1]
<1>1. call.image.blocks[k + 1] \in Block /\ buf \in Block
  <2>1. call.image \in Images /\ k \in Int /\ 0 <= k /\ k < Blocks(call.image) /\ buf \in Block
    BY ImageFacts DEF TypeOK, HasBlock
  <2> QED BY <2>1, ImageFacts
<1> HIDE DEF Block
<1> QED BY <1>1, HeadType DEF Given, Filled

LEMMA WrittenType ==
    ASSUME NEW old \in Block, NEW new \in Block
    PROVE  \A c \in Written(old, new) : c \in Block
<1> HIDE DEF Block
<1> QED BY MadeBlocks, HeadType DEF Written

THEOREM TypeInit == Init => TypeOK
<1> SUFFICES ASSUME Init PROVE TypeOK
  OBVIOUS
<1>1. info.size \in Nat /\ info \in Slots
  BY SlotFacts DEF Init
<1>2. cells \in [0..info.size - 1 -> Block] /\ buf \in Block /\ vbuf \in Block
  <2> HIDE DEF Block
  <2> QED BY MadeBlocks DEF Init
<1>3. state \in State
  BY DEF Init, InitState, State
<1>4. call \in [op : {"none", "program", "verify"}, image : Images, raw : BOOLEAN]
  BY ImageAssumption DEF Init, NoCall
<1>5. k \in 0..Blocks(call.image)
  BY <1>4, ImageFacts DEF Init
<1> HIDE DEF Block
<1> QED BY <1>1, <1>2, <1>3, <1>4, <1>5 DEF Init, TypeOK

LEMMA TypeStep == TypeOK /\ [Next]_vars => TypeOK'
<1> SUFFICES ASSUME TypeOK, [Next]_vars PROVE TypeOK'
  OBVIOUS
<1> HIDE DEF Block
<1> USE DEF TypeOK, buffers, Returns
<1>a. info.size \in Nat /\ Blocks(call.image) \in Nat /\ Blocks(call.image) > 0 /\ k \in Int
  BY SlotFacts, ImageFacts
<1>b. InitState \in State
  BY DEF InitState, State
<1>1. CASE rsu_slot_erase
  <2>1. cells' \in [0..info.size - 1 -> Block]
    BY <1>1, MadeBlocks DEF rsu_slot_erase
  <2> QED BY <1>1, <2>1 DEF rsu_slot_erase
<1>c. ASSUME NEW op \in {"program", "verify"}, NEW im \in Images, NEW raw \in BOOLEAN,
             Begins(op, im, raw)
      PROVE  /\ call' \in [op : {"none", "program", "verify"}, image : Images, raw : BOOLEAN]
             /\ k' \in 0..Blocks(call'.image) /\ state' \in State
             /\ buf' \in Block /\ vbuf' \in Block
             /\ pc' = op /\ ret' = "none"
  <2>1. Blocks(im) \in Nat
    BY ImageFacts
  <2> QED BY <1>c, <2>1, <1>b, MadeBlocks DEF Begins
<1>d. ASSUME NEW op \in {"program", "verify"}, NEW im \in Images, NEW raw \in BOOLEAN,
             Rejected(op, im, raw), pc = "idle"
      PROVE  /\ call' \in [op : {"none", "program", "verify"}, image : Images, raw : BOOLEAN]
             /\ k' \in 0..Blocks(call'.image)
  <2>1. Blocks(im) \in Nat
    BY ImageFacts
  <2> QED BY <1>d, <2>1 DEF Rejected
<1>2. CASE \E im \in Images, raw \in BOOLEAN : rsu_slot_program(im, raw)
  BY <1>2, <1>c, <1>d DEF rsu_slot_program, Rejected
<1>3. CASE \E im \in Images, raw \in BOOLEAN : rsu_slot_verify(im, raw)
  BY <1>3, <1>c, <1>d DEF rsu_slot_verify, Rejected
<1>4. CASE program_block
  <2> DEFINE b == Given
  <2>0. HasBlock
    BY <1>4 DEF program_block
  <2>1. CASE pc' = "returned"
    <3>1. UNCHANGED <<cells, state, buf, info, priority, call, k, vbuf, made>> /\ ret' = "refused"
      BY <1>4, <2>1 DEF program_block
    <3> QED BY <2>1, <3>1
  <2>2. CASE pc' # "returned"
    <3>1. /\ k < info.size
          /\ buf' = IF call.raw THEN b ELSE Adjusted(info, state, k, b)
          /\ state' = IF call.raw THEN state ELSE Advance(info, state, k, b)
          /\ \E c \in Written(cells[k], buf') : cells' = [cells EXCEPT ![k] = c]
          /\ pc' = "read_back"
          /\ UNCHANGED <<info, priority, call, k, vbuf, ret, made>>
      BY <1>4, <2>2 DEF program_block
    <3>2. b \in Block
      BY <2>0, GivenType
    <3>3. buf' \in Block /\ state' \in State
      <4> HIDE DEF b
      <4> QED BY <3>1, <3>2, AdjustedType, AdvanceType
    <3>4. cells' \in [0..info.size - 1 -> Block]
      <4>1. cells[k] \in Block
        BY <1>a, <3>1
      <4>2. PICK c \in Written(cells[k], buf') : cells' = [cells EXCEPT ![k] = c]
        BY <3>1
      <4>3. c \in Block
        BY <4>1, <4>2, <3>3, WrittenType
      <4> QED BY <4>2, <4>3
    <3> HIDE DEF b
    <3> QED BY <2>0, <3>1, <3>3, <3>4 DEF HasBlock
  <2> QED BY <2>1, <2>2
<1>5. CASE read_back
  <2>1. k + 1 \in 0..Blocks(call.image)
    BY <1>5, <1>a DEF read_back, HasBlock
  <2> QED BY <1>5, <2>1, <1>a DEF read_back
<1>6. CASE slot_add
  <2>1. made' \subseteq Record /\ (priority' => \E m \in made' : ~m.raw)
    BY <1>6 DEF slot_add, Record
  <2> QED BY <1>6, <2>1 DEF slot_add, Record
<1>7. CASE verify_block
  <2>0. HasBlock /\ k < info.size
    BY <1>7 DEF verify_block
  <2>1. buf' \in Block
    BY <1>7, <2>0, GivenType DEF verify_block
  <2>2. vbuf' \in Block
    <3>1. cells[k] \in Block
      BY <2>0, <1>a
    <3> QED BY <1>7, <3>1, HeadType DEF verify_block, Filled
  <2>3. state' \in State
    BY <1>7, <2>1, AdvanceType DEF verify_block
  <2>4. k + 1 \in 0..Blocks(call.image)
    BY <2>0, <1>a DEF HasBlock
  <2>5. /\ k' \in {k, k + 1} /\ pc' \in {"verify", "returned"}
        /\ ret' \in {ret, "differs"}
        /\ UNCHANGED <<info, cells, priority, call, made>>
    BY <1>7 DEF verify_block
  <2> QED BY <2>1, <2>2, <2>3, <2>4, <2>5
<1>8. CASE verified
  BY <1>8 DEF verified
<1>9. CASE Fails
  BY <1>9 DEF Fails
<1>10. CASE Return
  <2>1. call' \in [op : {"none", "program", "verify"}, image : Images, raw : BOOLEAN]
    BY <1>10, ImageAssumption DEF Return, NoCall
  <2>2. k' \in 0..Blocks(call'.image)
    BY <1>10, <2>1, ImageFacts DEF Return
  <2> QED BY <1>10, <1>b, <2>1, <2>2, MadeBlocks DEF Return
<1>11. CASE FlashDecays
  <2>1. PICK n \in DOMAIN cells : \E c \in {BadBlock, WithHead(BadBlock, cells[n].head)} :
          cells' = [cells EXCEPT ![n] = c]
    BY <1>11 DEF FlashDecays
  <2>2. cells[n] \in Block
    BY <2>1
  <2>3. \A c \in {BadBlock, WithHead(BadBlock, cells[n].head)} : c \in Block
    <3>1. BadBlock \in Block
      BY MadeBlocks
    <3>2. WithHead(BadBlock, cells[n].head) \in Block
      BY <2>2, <3>1, HeadType
    <3> QED BY <3>1, <3>2
  <2>4. cells' \in [0..info.size - 1 -> Block]
    BY <2>1, <2>3
  <2> QED BY <1>11, <2>4 DEF FlashDecays
<1>12. CASE UNCHANGED vars
  <2>1. UNCHANGED <<info, cells, priority, call, made>> /\ UNCHANGED <<pc, k, state, buf, vbuf, ret>>
    BY <1>12 DEF vars
  <2>2. HasBlock' <=> HasBlock
    BY <2>1 DEF HasBlock
  <2> QED BY <2>1, <2>2
<1> QED
  BY <1>1, <1>2, <1>3, <1>4, <1>5, <1>6, <1>7, <1>8, <1>9, <1>10, <1>11, <1>12 DEF Next
\* The contents and the ghost have their types in every reachable state.
THEOREM ImageTypeCorrect == Spec => []TypeOK
BY TypeInit, TypeStep, PTL DEF Spec
--------------------------------------------------------------------------------
(* The states of the two passes. A pass is a sequence f of states, f[n] before      *)
(* block n; both passes over one image go through the same ones.                      *)

Stored(s, raw, st, n, b) == IF raw THEN b ELSE Adjusted(s, st, n, b)
Onward(s, raw, st, n, b) == IF raw THEN st ELSE Advance(s, st, n, b)

Full(im) == IF im.whole THEN Blocks(im) ELSE Blocks(im) - 1
Upto(im, n) == IF n <= Full(im) THEN n ELSE Full(im)

Path(s, im, raw, f, n) ==
    /\ f[0] = InitState
    /\ \A j \in 0..n - 1 : f[j + 1] = Onward(s, raw, f[j], j, im.blocks[j + 1])

Holds(s, im, raw, f, c, n) ==
    \A j \in 0..n - 1 : c[j] = Stored(s, raw, f[j], j, im.blocks[j + 1])

HeadHeld(im, c, n) == n > Full(im) => c[Full(im)].head = im.blocks[Full(im) + 1].head

ProgInv == pc = "program" =>
    /\ call.op = "program" /\ made = {} /\ k <= info.size
    /\ \E f : /\ Path(info, call.image, call.raw, f, Upto(call.image, k))
              /\ Holds(info, call.image, call.raw, f, cells, Upto(call.image, k))
              /\ (k <= Full(call.image) => f[k] = state)
    /\ HeadHeld(call.image, cells, k)

BackInv == pc = "read_back" =>
    /\ call.op = "program" /\ made = {}
    /\ buf.head = call.image.blocks[k + 1].head
    /\ \E f : /\ Path(info, call.image, call.raw, f, k)
              /\ Holds(info, call.image, call.raw, f, cells, k)
              /\ (k < Full(call.image) =>
                    /\ buf = Stored(info, call.raw, f[k], k, call.image.blocks[k + 1])
                    /\ state = Onward(info, call.raw, f[k], k, call.image.blocks[k + 1]))

Kept(m, f) ==
    /\ Path(info, m.image, m.raw, f, Full(m.image))
    /\ Holds(info, m.image, m.raw, f, m.cells, Full(m.image))

MadeInv == \A m \in made :
    /\ Blocks(m.image) <= info.size
    /\ \E f : Kept(m, f)
    /\ HeadHeld(m.image, m.cells, Blocks(m.image))

VerInv == pc = "verify" => \A m \in made : OfMade(m) =>
    /\ \E f : Kept(m, f) /\ (k <= Full(m.image) => f[k] = state)
    /\ \A j \in 0..Upto(m.image, k) - 1 : cells[j] = m.cells[j]
    /\ k > Full(m.image) => cells[Full(m.image)].head = m.cells[Full(m.image)].head

ImageInv == TypeOK /\ ProgInv /\ BackInv /\ MadeInv /\ VerInv /\ RoundTrip /\ DamageNoticed

LEMMA FullFacts ==
    ASSUME NEW im \in Images
    PROVE  /\ Full(im) \in Nat /\ Full(im) <= Blocks(im) /\ Blocks(im) <= Full(im) + 1
           /\ \A n \in 0..Blocks(im) - 1 : n <= Full(im) /\ (CutOff(im, n) <=> n = Full(im))
<1>1. im.whole \in BOOLEAN /\ Blocks(im) \in Nat /\ Blocks(im) > 0
  BY ImageFacts
<1>2. CASE im.whole
  BY <1>1, <1>2 DEF Full, CutOff
<1>3. CASE ~im.whole
  BY <1>1, <1>3 DEF Full, CutOff
<1> QED BY <1>1, <1>2, <1>3

\* One block more.
LEMMA Extend ==
    ASSUME NEW s, NEW im, NEW raw, NEW f, NEW c, NEW d, NEW n \in Nat,
           Path(s, im, raw, f, n), Holds(s, im, raw, f, c, n),
           \A j \in 0..n - 1 : d[j] = c[j],
           d[n] = Stored(s, raw, f[n], n, im.blocks[n + 1])
    PROVE  \E g : /\ Path(s, im, raw, g, n + 1) /\ Holds(s, im, raw, g, d, n + 1)
                  /\ g[n + 1] = Onward(s, raw, f[n], n, im.blocks[n + 1])
<1> DEFINE g == [j \in Nat |-> IF j <= n THEN f[j] ELSE Onward(s, raw, f[n], n, im.blocks[n + 1])]
<1>1. /\ \A j \in 0..n : g[j] = f[j]
      /\ g[n + 1] = Onward(s, raw, f[n], n, im.blocks[n + 1])
  OBVIOUS
<1> HIDE DEF g
<1>2. Path(s, im, raw, g, n + 1)
  <2>1. g[0] = InitState
    BY <1>1 DEF Path
  <2>2. ASSUME NEW j \in 0..n
        PROVE  g[j + 1] = Onward(s, raw, g[j], j, im.blocks[j + 1])
    <3>1. CASE j = n
      BY <1>1, <3>1
    <3>2. CASE j # n
      <4>1. j \in 0..n - 1 /\ j + 1 \in 0..n
        BY <3>2
      <4> QED BY <1>1, <4>1 DEF Path
    <3> QED BY <3>1, <3>2
  <2> QED BY <2>1, <2>2 DEF Path
<1>3. Holds(s, im, raw, g, d, n + 1)
  <2>1. ASSUME NEW j \in 0..n
        PROVE  d[j] = Stored(s, raw, g[j], j, im.blocks[j + 1])
    <3>1. CASE j = n
      BY <1>1, <3>1
    <3>2. CASE j # n
      <4>1. j \in 0..n - 1
        BY <3>2
      <4> QED BY <1>1, <4>1 DEF Holds
    <3> QED BY <3>1, <3>2
  <2> QED BY <2>1 DEF Holds
<1> QED BY <1>1, <1>2, <1>3
\* A call that begins: the empty pass.
LEMMA Started ==
    ASSUME NEW s, NEW im \in Images, NEW raw, NEW c
    PROVE  \E f : /\ Path(s, im, raw, f, Upto(im, 0)) /\ Holds(s, im, raw, f, c, Upto(im, 0))
                 /\ f[0] = InitState
<1> DEFINE f == [j \in Nat |-> InitState]
<1>1. Upto(im, 0) = 0
  BY FullFacts DEF Upto
<1>2. Path(s, im, raw, f, 0) /\ Holds(s, im, raw, f, c, 0) /\ f[0] = InitState
  BY DEF Path, Holds
<1> HIDE DEF f
<1> QED BY <1>1, <1>2

LEMMA WriteStep ==
    ASSUME ImageInv, TypeOK', program_block
    PROVE  ProgInv' /\ BackInv' /\ VerInv' /\ MadeInv'
<1> HIDE DEF Block
<1> DEFINE im == call.image
           b == im.blocks[k + 1]
<1>1. /\ pc = "program" /\ HasBlock /\ im \in Images /\ k \in Nat /\ k <= Blocks(im) - 1
      /\ UNCHANGED <<info, priority, call, k, vbuf, made>>
      /\ pc' \in {"read_back", "returned"}
  BY ImageFacts DEF ImageInv, TypeOK, program_block, HasBlock, Returns
<1>2. k <= Full(im) /\ Upto(im, k) = k /\ (CutOff(im, k) <=> k = Full(im))
  BY <1>1, FullFacts DEF Upto
<1>3. Given.head = b.head /\ (~CutOff(im, k) => Given = b) /\ Given \in Block
  BY <1>1, GivenType DEF ImageInv
<1>4. made = {} /\ call.op = "program"
  BY <1>1 DEF ImageInv, ProgInv
<1>5. MadeInv' /\ VerInv' /\ ProgInv'
  BY <1>1, <1>4 DEF MadeInv, VerInv, ProgInv
<1>6. CASE pc' = "read_back"
  <2>1. PICK f : /\ Path(info, im, call.raw, f, k) /\ Holds(info, im, call.raw, f, cells, k)
                 /\ f[k] = state
    BY <1>1, <1>2 DEF ImageInv, ProgInv
  <2>2. /\ k < info.size
        /\ buf' = Stored(info, call.raw, state, k, Given)
        /\ state' = Onward(info, call.raw, state, k, Given)
        /\ \E c \in Written(cells[k], buf') : cells' = [cells EXCEPT ![k] = c]
    BY <1>6, <1>1 DEF program_block, Stored, Onward, Returns
  <2>3. buf'.head = b.head
    <3>1. Adjusted(info, state, k, Given).head = Given.head
      BY <1>3, AdjustedType DEF ImageInv, TypeOK
    <3> QED BY <2>2, <1>3, <3>1 DEF Stored
  <2>4. Holds(info, im, call.raw, f, cells', k)
    <3>1. \A j \in 0..k - 1 : cells'[j] = cells[j]
      BY <2>2, <1>1 DEF ImageInv, TypeOK
    <3> QED BY <2>1, <3>1 DEF Holds
  <2>5. k < Full(im) => /\ buf' = Stored(info, call.raw, f[k], k, b)
                        /\ state' = Onward(info, call.raw, f[k], k, b)
    <3> SUFFICES ASSUME k < Full(im)
                 PROVE  /\ buf' = Stored(info, call.raw, f[k], k, b)
                        /\ state' = Onward(info, call.raw, f[k], k, b)
      OBVIOUS
    <3>1. k # Full(im)
      BY <1>1, FullFacts
    <3>2. Given = b
      BY <3>1, <1>2, <1>3
    <3> HIDE DEF b
    <3> QED BY <2>1, <2>2, <3>2
  <2> HIDE DEF b
  <2>6. BackInv'
    BY <1>1, <1>4, <2>1, <2>3, <2>4, <2>5 DEF BackInv, b
  <2> QED BY <1>5, <2>6
<1>7. CASE pc' = "returned"
  BY <1>5, <1>7 DEF BackInv
<1> QED BY <1>1, <1>6, <1>7

LEMMA ReadBackStep ==
    ASSUME ImageInv, TypeOK', read_back
    PROVE  ProgInv' /\ BackInv' /\ VerInv' /\ MadeInv'
<1> HIDE DEF Block
<1> DEFINE im == call.image
           b == im.blocks[k + 1]
<1>1. /\ pc = "read_back" /\ HasBlock /\ im \in Images /\ k \in Nat /\ k <= Blocks(im) - 1
      /\ k < info.size /\ info.size \in Nat
      /\ UNCHANGED <<info, cells, priority, call, state, buf, vbuf, made>>
      /\ pc' \in {"program", "returned"}
  BY ImageFacts, SlotFacts DEF ImageInv, TypeOK, read_back, HasBlock, Returns, buffers
<1>2. k <= Full(im) /\ Full(im) \in Nat /\ (CutOff(im, k) <=> k = Full(im))
  BY <1>1, FullFacts
<1>3. made = {} /\ call.op = "program" /\ buf.head = b.head
  BY <1>1 DEF ImageInv, BackInv
<1>4. MadeInv' /\ VerInv' /\ BackInv'
  BY <1>1, <1>3 DEF MadeInv, VerInv, BackInv
<1>5. CASE pc' = "program"
  <2>1. PICK f : /\ Path(info, im, call.raw, f, k) /\ Holds(info, im, call.raw, f, cells, k)
                 /\ (k < Full(im) => /\ buf = Stored(info, call.raw, f[k], k, b)
                                      /\ state = Onward(info, call.raw, f[k], k, b))
    BY <1>1 DEF ImageInv, BackInv
  <2>2. SameBytes(cells[k], buf) /\ k' = k + 1
    BY <1>5 DEF read_back, Returns
  <2>3. CASE k < Full(im)
    <3>1. cells[k] = Stored(info, call.raw, f[k], k, b)
      BY <2>1, <2>2, <2>3, <1>2 DEF SameBytes
    <3>2. PICK g : /\ Path(info, im, call.raw, g, k + 1)
                   /\ Holds(info, im, call.raw, g, cells, k + 1)
                   /\ g[k + 1] = Onward(info, call.raw, f[k], k, b)
      <4>1. /\ k \in Nat /\ \A j \in 0..k - 1 : cells[j] = cells[j]
            /\ Path(info, im, call.raw, f, k) /\ Holds(info, im, call.raw, f, cells, k)
            /\ cells[k] = Stored(info, call.raw, f[k], k, im.blocks[k + 1])
        BY <1>1, <2>1, <3>1
      <4> HIDE DEF im
      <4> QED BY <4>1, Extend
    <3>3. g[k + 1] = state
      BY <3>2, <2>1, <2>3
    <3>4. Upto(im, k + 1) = k + 1 /\ k + 1 <= Full(im)
      BY <2>3, <1>1, <1>2 DEF Upto
    <3>5. HeadHeld(im, cells, k + 1)
      BY <3>4, <1>1, <1>2 DEF HeadHeld
    <3> QED BY <1>1, <1>3, <1>4, <2>2, <3>2, <3>3, <3>4, <3>5 DEF ProgInv
  <2>4. CASE k = Full(im)
    <3>1. Upto(im, k + 1) = k /\ ~(k + 1 <= Full(im))
      BY <2>4, <1>1 DEF Upto
    <3>2. HeadHeld(im, cells, k + 1)
      BY <2>2, <2>4, <1>3 DEF HeadHeld, SameBytes
    <3> QED BY <1>1, <1>3, <1>4, <2>1, <2>2, <3>1, <3>2 DEF ProgInv
  <2> QED BY <1>1, <1>2, <2>3, <2>4
<1>6. CASE pc' = "returned"
  BY <1>4, <1>6 DEF ProgInv
<1> QED BY <1>1, <1>5, <1>6
\* The verification compares block k with what the programming wrote.
LEMMA VerifyStep ==
    ASSUME ImageInv, TypeOK', verify_block
    PROVE  ImageInv'
<1> HIDE DEF Block
<1> DEFINE im == call.image
           b == im.blocks[k + 1]
<1>1. /\ pc = "verify" /\ HasBlock /\ im \in Images /\ k \in Nat /\ k <= Blocks(im) - 1
      /\ UNCHANGED <<info, cells, priority, call, made>>
      /\ pc' \in {"verify", "returned"}
      /\ k < info.size
  BY ImageFacts DEF ImageInv, TypeOK, verify_block, HasBlock, Returns
<1>2. k <= Full(im) /\ Full(im) \in Nat /\ (CutOff(im, k) <=> k = Full(im))
  BY <1>1, FullFacts
<1>3. Given.head = b.head /\ (~CutOff(im, k) => Given = b) /\ Given \in Block
  BY <1>1, GivenType DEF ImageInv
<1>4. ProgInv' /\ BackInv' /\ MadeInv'
  BY <1>1 DEF ImageInv, ProgInv, BackInv, MadeInv, Kept
<1>5. /\ buf' = Given
      /\ vbuf' = Filled(im, k, cells[k], vbuf)
      /\ state' = Onward(info, call.raw, state, k, Given)
      /\ \/ Same(buf', vbuf') /\ k' = k + 1 /\ pc' = "verify" /\ ret' = ret
         \/ ~Same(buf', vbuf') /\ pc' = "returned" /\ ret' = "differs"
  BY <1>1 DEF verify_block, Onward, Returns
<1>6. ASSUME NEW m \in made, OfMade(m)
      PROVE  /\ Same(buf', vbuf') => /\ cells[k].head = m.cells[k].head
                                     /\ k < Full(im) => cells[k] = m.cells[k]
             /\ m.cells = cells /\ (im.whole \/ call.raw) => Same(buf', vbuf')
  <2>0. Blocks(im) \in Nat /\ k < Blocks(im)
    <3>1. Blocks(im) \in Nat
      BY <1>1, ImageFacts
    <3> HIDE DEF im
    <3> QED BY <1>1, <3>1
  <2>1. m.image = im /\ m.raw = call.raw
    BY <1>6 DEF OfMade
  <2>2. PICK f : Kept(m, f) /\ f[k] = state
    BY <1>1, <1>2, <1>6, <2>1 DEF ImageInv, VerInv
  <2>3. k < Full(im) => m.cells[k] = Stored(info, call.raw, state, k, b)
    BY <1>1, <1>2, <2>1, <2>2 DEF Kept, Holds
  <2>4. vbuf'.head = cells[k].head /\ (k < Full(im) => vbuf' = cells[k] /\ buf' = b)
    <3>1. k < Full(im) => ~CutOff(im, k)
      BY <1>1, <1>2
    <3>2. cells[k] \in Block /\ vbuf \in Block
      <4>1. info \in Slots /\ cells \in [0..info.size - 1 -> Block] /\ vbuf \in Block
        BY DEF ImageInv, TypeOK
      <4>2. info.size \in Nat
        BY <4>1, SlotFacts
      <4>3. k \in 0..info.size - 1
        BY <1>1, <4>2
      <4> QED BY <4>1, <4>3
    <3>3. WithHead(vbuf, cells[k].head).head = cells[k].head
      BY <3>2, HeadType
    <3> HIDE DEF im, b
    <3> QED BY <1>3, <1>5, <3>1, <3>3 DEF Filled, im, b
  <2>5. buf'.head = b.head /\ Adjusted(info, state, k, buf').head = b.head
    BY <1>3, <1>5, AdjustedType DEF ImageInv, TypeOK
  <2>6. k = Full(im) => m.cells[k].head = b.head
    <3>1. HeadHeld(im, m.cells, Blocks(im))
      BY <1>6, <2>1 DEF ImageInv, MadeInv
    <3>2. k = Full(im) => Blocks(im) > Full(im)
      <4> HIDE DEF im
      <4> QED BY <1>2, <2>0
    <3> QED BY <3>1, <3>2 DEF HeadHeld
  <2>7. k < Full(im) => Stored(info, call.raw, state, k, b).head = b.head
    BY <2>4, <2>5 DEF Stored
  <2>8. m.cells[k].head = b.head
    BY <1>1, <1>2, <2>3, <2>6, <2>7
  <2>9. Same(buf', vbuf') => cells[k].head = b.head
    BY <2>4, <2>5 DEF Same, SameBytes
  <2>10. k < Full(im) => (Same(buf', vbuf') <=> cells[k] = Stored(info, call.raw, state, k, b))
    <3> SUFFICES ASSUME k < Full(im)
                 PROVE  Same(buf', vbuf') <=> cells[k] = Stored(info, call.raw, state, k, b)
      OBVIOUS
    <3>1. ~CutOff(call.image, k) /\ vbuf' = cells[k] /\ buf' = b
      BY <1>1, <1>2, <2>4
    <3> HIDE DEF b
    <3> QED BY <3>1 DEF Same, SameBytes, Stored
  <2>11. k = Full(im) /\ call.raw => (Same(buf', vbuf') <=> cells[k].head = b.head)
    BY <1>2, <2>4, <2>5 DEF Same, SameBytes
  <2>12. im.whole => k < Full(im)
    <3> HIDE DEF im
    <3> QED BY <2>0 DEF Full
  <2> HIDE DEF im, b
  <2> QED BY <1>1, <1>2, <2>3, <2>8, <2>9, <2>10, <2>11, <2>12
<1>7. CASE Same(buf', vbuf')
  <2>1. k' = k + 1 /\ pc' = "verify"
    BY <1>5, <1>7
  <2>2. VerInv'
    <3> SUFFICES ASSUME NEW m \in made, OfMade(m)
                 PROVE  /\ \E f : Kept(m, f) /\ (k + 1 <= Full(m.image) => f[k + 1] = state')
                        /\ \A j \in 0..Upto(m.image, k + 1) - 1 : cells[j] = m.cells[j]
                        /\ k + 1 > Full(m.image) =>
                              cells[Full(m.image)].head = m.cells[Full(m.image)].head
      BY <1>1, <2>1 DEF VerInv, OfMade, Kept
    <3>1. m.image = im /\ m.raw = call.raw
      BY DEF OfMade
    <3>2. PICK f : Kept(m, f) /\ f[k] = state
      BY <1>1, <1>2, <3>1 DEF ImageInv, VerInv
    <3>3. k + 1 <= Full(im) => f[k + 1] = state'
      <4> SUFFICES ASSUME k + 1 <= Full(im) PROVE f[k + 1] = state'
        OBVIOUS
      <4>1. f[k + 1] = Onward(info, call.raw, f[k], k, b)
        BY <1>1, <1>2, <3>1, <3>2 DEF Kept, Path
      <4>2. Given = b
        BY <1>1, <1>2, <1>3
      <4> HIDE DEF b
      <4> QED BY <1>5, <3>2, <4>1, <4>2
    <3>4. Upto(im, k) = k /\ \A j \in 0..k - 1 : cells[j] = m.cells[j]
      BY <1>1, <1>2, <3>1 DEF ImageInv, VerInv, Upto
    <3>5. cells[k].head = m.cells[k].head /\ (k < Full(im) => cells[k] = m.cells[k])
      BY <1>6, <1>7
    <3>6. \A j \in 0..Upto(im, k + 1) - 1 : cells[j] = m.cells[j]
      <4>1. CASE k < Full(im)
        BY <1>1, <1>2, <3>4, <3>5, <4>1 DEF Upto
      <4>2. CASE k = Full(im)
        BY <1>1, <1>2, <3>4, <4>2 DEF Upto
      <4> QED BY <1>1, <1>2, <4>1, <4>2
    <3>7. k + 1 > Full(im) => k = Full(im)
      BY <1>1, <1>2
    <3> HIDE DEF im
    <3> QED BY <3>1, <3>2, <3>3, <3>5, <3>6, <3>7
  <2>3. RoundTrip' /\ DamageNoticed'
    BY <2>1 DEF RoundTrip, DamageNoticed
  <2> QED BY <1>4, <2>2, <2>3 DEF ImageInv
<1>8. CASE ~Same(buf', vbuf')
  <2>1. pc' = "returned" /\ ret' = "differs"
    BY <1>5, <1>8
  <2>2. VerInv' /\ DamageNoticed'
    BY <2>1 DEF VerInv, DamageNoticed
  <2>3. RoundTrip'
    BY <1>1, <1>6, <1>8 DEF RoundTrip, OfMade
  <2> QED BY <1>4, <2>2, <2>3 DEF ImageInv
<1> QED BY <1>7, <1>8

LEMMA VerifiedStep ==
    ASSUME ImageInv, TypeOK', verified
    PROVE  ImageInv'
<1> HIDE DEF Block
<1>1. /\ pc = "verify" /\ ~HasBlock /\ pc' = "returned" /\ ret' = "ok"
      /\ UNCHANGED <<info, cells, priority, call, k, state, buf, vbuf, made>>
  BY DEF verified, Returns, buffers
<1>2. ProgInv' /\ BackInv' /\ MadeInv' /\ VerInv' /\ RoundTrip'
  BY <1>1 DEF ImageInv, ProgInv, BackInv, MadeInv, Kept, VerInv, RoundTrip
<1>3. ASSUME NEW m \in made, OfMade(m), NEW n \in 0..Blocks(m.image) - 1
      PROVE  IF CutOff(m.image, n) THEN cells[n].head = m.cells[n].head
                                   ELSE cells[n] = m.cells[n]
  <2>1. /\ m.image \in Images /\ m.image = call.image
        /\ k \in Nat /\ k = Blocks(m.image)
    BY <1>1, <1>3, ImageFacts DEF ImageInv, TypeOK, OfMade, HasBlock
  <2>2. /\ n <= Full(m.image) /\ (CutOff(m.image, n) <=> n = Full(m.image))
        /\ Full(m.image) \in Nat /\ Full(m.image) <= Blocks(m.image)
        /\ Blocks(m.image) \in Nat
    BY <2>1, FullFacts, ImageFacts
  <2>3. /\ \A j \in 0..Upto(m.image, k) - 1 : cells[j] = m.cells[j]
        /\ k > Full(m.image) => cells[Full(m.image)].head = m.cells[Full(m.image)].head
    BY <1>1, <1>3 DEF ImageInv, VerInv
  <2>4. Upto(m.image, k) = Full(m.image)
    BY <2>1, <2>2 DEF Upto
  <2>5. CASE n = Full(m.image)
    BY <2>1, <2>2, <2>3, <2>5
  <2>6. CASE n # Full(m.image)
    BY <2>2, <2>3, <2>4, <2>6
  <2> QED BY <2>5, <2>6
<1>4. DamageNoticed'
  BY <1>1, <1>3 DEF DamageNoticed, OfMade
<1> QED BY <1>2, <1>4 DEF ImageInv

LEMMA ImageStep == ImageInv /\ [Next]_vars => ImageInv'
<1> SUFFICES ASSUME ImageInv, [Next]_vars PROVE ImageInv'
  OBVIOUS
<1> HIDE DEF Block
<1>t. TypeOK /\ TypeOK'
  BY TypeStep DEF ImageInv
<1>1. CASE rsu_slot_erase
  <2>1. pc' = "returned" /\ made' = {}
    BY <1>1 DEF rsu_slot_erase, Returns
  <2> QED BY <1>t, <2>1
        DEF ImageInv, ProgInv, BackInv, MadeInv, VerInv, RoundTrip, DamageNoticed
<1>r. ASSUME NEW op \in {"program", "verify"}, NEW im, NEW raw, Rejected(op, im, raw),
             UNCHANGED <<info, cells, priority>>
      PROVE  ImageInv'
  <2>1. pc' = "returned" /\ ret' = "rejected" /\ made' = made /\ info' = info
    BY <1>r DEF Rejected, Returns
  <2> QED BY <1>t, <2>1
        DEF ImageInv, ProgInv, BackInv, MadeInv, Kept, VerInv, RoundTrip, DamageNoticed
<1>2. ASSUME NEW im \in Images, NEW raw \in BOOLEAN, rsu_slot_program(im, raw)
      PROVE  ImageInv'
  <2>1. CASE Rejected("program", im, raw)
    BY <1>2, <1>r, <2>1 DEF rsu_slot_program
  <2>2. CASE Begins("program", im, raw) /\ made' = {}
    <3>1. /\ pc' = "program" /\ k' = 0 /\ state' = InitState /\ made' = {} /\ info' = info
          /\ call' = [op |-> "program", image |-> im, raw |-> raw]
      BY <1>2, <2>2 DEF Begins, rsu_slot_program
    <3>2. info.size \in Nat /\ Full(im) \in Nat
      BY <1>t, SlotFacts, FullFacts DEF TypeOK
    <3>3. \E f : /\ Path(info, im, raw, f, Upto(im, 0)) /\ Holds(info, im, raw, f, cells', Upto(im, 0))
                /\ f[0] = InitState
      BY Started
    <3>4. ProgInv'
      BY <3>1, <3>2, <3>3 DEF ProgInv, HeadHeld
    <3> QED BY <1>t, <3>1, <3>4
          DEF ImageInv, BackInv, MadeInv, VerInv, RoundTrip, DamageNoticed
  <2> QED BY <1>2, <2>1, <2>2 DEF rsu_slot_program
<1>3. ASSUME NEW im \in Images, NEW raw \in BOOLEAN, rsu_slot_verify(im, raw)
      PROVE  ImageInv'
  <2>1. CASE Rejected("verify", im, raw)
    BY <1>3, <1>r, <2>1 DEF rsu_slot_verify
  <2>2. CASE Begins("verify", im, raw) /\ made' = made
    <3>1. /\ pc' = "verify" /\ k' = 0 /\ state' = InitState /\ made' = made
          /\ info' = info /\ cells' = cells
      BY <1>3, <2>2 DEF Begins, rsu_slot_verify
    <3>2. MadeInv'
      BY <3>1 DEF ImageInv, MadeInv, Kept
    <3>3. VerInv'
      <4> SUFFICES ASSUME NEW m \in made
                   PROVE  /\ \E f : Kept(m, f) /\ (0 <= Full(m.image) => f[0] = InitState)
                          /\ \A j \in 0..Upto(m.image, 0) - 1 : cells[j] = m.cells[j]
                          /\ 0 > Full(m.image) =>
                                cells[Full(m.image)].head = m.cells[Full(m.image)].head
        BY <3>1 DEF VerInv, Kept
      <4>1. m.image \in Images
        BY <1>t DEF TypeOK
      <4>2. Full(m.image) \in Nat /\ Upto(m.image, 0) = 0
        BY <4>1, FullFacts DEF Upto
      <4>3. \E f : Kept(m, f) /\ f[0] = InitState
        BY DEF ImageInv, MadeInv, Kept, Path
      <4> QED BY <4>2, <4>3
    <3> QED BY <1>t, <3>1, <3>2, <3>3
          DEF ImageInv, ProgInv, BackInv, RoundTrip, DamageNoticed
  <2> QED BY <1>3, <2>1, <2>2 DEF rsu_slot_verify
<1>4. CASE program_block
  <2>1. pc' \in {"read_back", "returned"} /\ made' = {}
    BY <1>4 DEF program_block, Returns, ImageInv, ProgInv
  <2> QED BY <1>4, <1>t, <2>1, WriteStep DEF ImageInv, RoundTrip, DamageNoticed
<1>5. CASE read_back
  <2>1. made' = {}
    BY <1>5 DEF read_back, ImageInv, BackInv
  <2> QED BY <1>5, <1>t, <2>1, ReadBackStep DEF ImageInv, RoundTrip, DamageNoticed
<1>6. CASE slot_add
  <2>1. /\ pc = "program" /\ ~HasBlock /\ pc' = "returned" /\ ret' = "ok"
        /\ made' = {[image |-> call.image, raw |-> call.raw, cells |-> cells]}
        /\ info' = info /\ call' = call
    BY <1>6 DEF slot_add, Returns
  <2>2. call.image \in Images /\ k = Blocks(call.image) /\ k \in Nat
    BY <1>t, <2>1, ImageFacts DEF TypeOK, HasBlock
  <2>3. Upto(call.image, k) = Full(call.image)
    BY <2>2, FullFacts DEF Upto
  <2>4. MadeInv'
    BY <2>1, <2>2, <2>3 DEF ImageInv, ProgInv, MadeInv, Kept
  <2>5. call.op = "program"
    BY <2>1 DEF ImageInv, ProgInv
  <2> QED BY <1>t, <2>1, <2>4, <2>5
        DEF ImageInv, ProgInv, BackInv, VerInv, RoundTrip, DamageNoticed, OfMade
<1>7. CASE verify_block
  BY <1>7, <1>t, VerifyStep
<1>8. CASE verified
  BY <1>8, <1>t, VerifiedStep
<1>9. CASE Fails
  <2>1. pc' = "returned" /\ ret' = "error" /\ made' = made /\ info' = info
    BY <1>9 DEF Fails, Returns
  <2> QED BY <1>t, <2>1
        DEF ImageInv, ProgInv, BackInv, MadeInv, Kept, VerInv, RoundTrip, DamageNoticed
<1>10. CASE Return
  <2>1. pc' = "idle" /\ made' = made /\ info' = info
    BY <1>10 DEF Return
  <2> QED BY <1>t, <2>1
        DEF ImageInv, ProgInv, BackInv, MadeInv, Kept, VerInv, RoundTrip, DamageNoticed
<1>11. CASE FlashDecays
  <2>1. pc' = "idle" /\ made' = made /\ info' = info
    BY <1>11 DEF FlashDecays
  <2> QED BY <1>t, <2>1
        DEF ImageInv, ProgInv, BackInv, MadeInv, Kept, VerInv, RoundTrip, DamageNoticed
<1>12. CASE UNCHANGED vars
  <2>1. /\ UNCHANGED <<info, cells, priority, call, made>>
        /\ UNCHANGED <<pc, k, state, buf, vbuf, ret>>
    BY <1>12 DEF vars
  <2> QED BY <1>t, <2>1
        DEF ImageInv, ProgInv, BackInv, MadeInv, Kept, VerInv, RoundTrip, DamageNoticed, OfMade
<1> QED
  BY <1>1, <1>2, <1>3, <1>4, <1>5, <1>6, <1>7, <1>8, <1>9, <1>10, <1>11, <1>12 DEF Next

THEOREM ImageInvariant == Spec => []ImageInv
<1>1. Init => ImageInv
  BY TypeInit
     DEF Init, ImageInv, ProgInv, BackInv, MadeInv, VerInv, RoundTrip, DamageNoticed
<1> QED BY <1>1, ImageStep, PTL DEF Spec

\* Verifying what was programmed finds no difference unless flash has lost something.
THEOREM ImageRoundTrip == Spec => []RoundTrip
<1>1. ImageInv => RoundTrip
  BY DEF ImageInv
<1> QED BY <1>1, ImageInvariant, PTL

\* And it finds every difference.
THEOREM ImageDamageNoticed == Spec => []DamageNoticed
<1>1. ImageInv => DamageNoticed
  BY DEF ImageInv
<1> QED BY <1>1, ImageInvariant, PTL
--------------------------------------------------------------------------------
(* The sections of an image as its programming goes along them. S are the sections  *)
(* of an image linked for base; b is the block that flash is to hold, or holds.      *)

IsCmf(im, p) == im.blocks[p + 1].head = CMF
Ptrs(im, p) == im.blocks[p + 2].ptrs

\* Block n is the signature block of a section.
Signature(im, S, n) == \E p \in S : n = p + 1 /\ IsCmf(im, p)

Fits(s, im, base, S) ==
    /\ Linked(im, base, S) /\ S \subseteq 0..s.size - 1
    /\ base = 0 \/ (base \in {t.offset : t \in Slots} /\ base >= s.offset)

\* Before block n: the sections found are the ones that the signature blocks point at,
\* and pointers are only known once it is known what they count from.
Followed(s, im, base, S, st, n) ==
    /\ 0 \in st.sections /\ st.sections \subseteq S
    /\ \A p \in S : IsCmf(im, p) /\ p + 1 < n =>
          \A x \in DOMAIN Ptrs(im, p) : Ptrs(im, p)[x] - base \in st.sections
    /\ st.block_type = IF Signature(im, S, n) THEN "signature" ELSE "regular"
    /\ st.sections = {0} \/ base = 0 \/ (base = s.offset /\ st.absolute)
    /\ base = 0 => ~st.absolute

\* Block n leads to sections of the slot.
Leads(s, im, S, n, b) ==
    /\ b.head = im.blocks[n + 1].head
    /\ Signature(im, S, n) =>
          /\ CrcRight(b) /\ CrcRight(im.blocks[n + 1])
          /\ \A x \in DOMAIN b.ptrs : b.ptrs[x] - s.offset \in S

Led(s, im, S, c, n) == \A j \in 0..n - 1 : Leads(s, im, S, j, c[j])

\* What makes Loadable inductive: the pass that programs has followed the sections so far.
LoadInv ==
    /\ pc = "program" /\ ~call.raw =>
          \A base \in Int, S \in SUBSET Int : Fits(info, call.image, base, S) =>
              /\ Followed(info, call.image, base, S, state, k)
              /\ Led(info, call.image, S, cells, k)
    /\ pc = "read_back" /\ ~call.raw =>
          \A base \in Int, S \in SUBSET Int : Fits(info, call.image, base, S) =>
              /\ Followed(info, call.image, base, S, state, k + 1)
              /\ Led(info, call.image, S, cells, k)
              /\ Leads(info, call.image, S, k, buf)
    /\ \A m \in made : ~m.raw =>
          \A base \in Int, S \in SUBSET Int : Fits(info, m.image, base, S) =>
              Led(info, m.image, S, m.cells, Blocks(m.image))

\* As long as there is room for all sections, every new one gets into the list.
LEMMA AddAll ==
    ASSUME NEW S, IsFiniteSet(S), Cardinality(S) <= MAX_SECTIONS,
           NEW sections, sections \subseteq S, NEW q, DOMAIN q = 1..Len(q), Len(q) \in Nat,
           \A x \in DOMAIN q : q[x] \in S
    PROVE  AddSections(sections, q) = sections \cup {q[x] : x \in DOMAIN q}
<1>1. IsFiniteSet(S) /\ Cardinality(S) \in Nat
  BY FS_CardinalityType
<1>2. ASSUME NEW y \in DOMAIN q
      PROVE  Cardinality(sections \cup {q[z] : z \in 1..y}) <= MAX_SECTIONS
  <2> DEFINE T == sections \cup {q[z] : z \in 1..y}
  <2>0. \A z \in 1..y : q[z] \in S
    <3>1. \A z \in 1..y : z \in DOMAIN q
      OBVIOUS
    <3> QED BY <3>1
  <2>1. T \in SUBSET S
    <3> HIDE DEF T
    <3>1. T \subseteq S
      BY <2>0 DEF T
    <3> QED BY <3>1
  <2> HIDE DEF T
  <2>2. IsFiniteSet(T) /\ Cardinality(T) <= Cardinality(S)
    BY <1>1, <2>1, FS_Subset
  <2>3. Cardinality(T) \in Nat
    BY <2>2, FS_CardinalityType
  <2>4. Cardinality(T) <= MAX_SECTIONS
    BY <1>1, <2>2, <2>3, ImageAssumption
  <2> QED BY <2>4 DEF T
<1> QED BY <1>2 DEF AddSections

\* What block n is, for a pass that has followed the sections up to it.
LEMMA WhatBlock ==
    ASSUME NEW s \in Slots, NEW im \in Images, NEW base \in Int, NEW S \in SUBSET Int,
           NEW st \in State, NEW n \in 0..Blocks(im) - 1,
           Fits(s, im, base, S), Followed(s, im, base, S, st, n)
    PROVE  /\ BlockType(st, n) = IF n \in S THEN "section"
                                 ELSE IF Signature(im, S, n) THEN "signature" ELSE "regular"
           /\ n \in S => ~Signature(im, S, n)
           /\ \A p \in S : n = p + 1 /\ IsCmf(im, p) => p \in st.sections /\ n \notin S
<1> HIDE DEF Block
<1>1. n \in Nat /\ Blocks(im) \in Nat
  BY ImageFacts
<1>2. /\ S \subseteq 0..Blocks(im) - 1 /\ 0 \in S
      /\ \A p \in S : IsCmf(im, p) => p + 1 \notin S
      /\ \A q \in S \ {0} : \E p \in S :
            /\ p < q /\ IsCmf(im, p)
            /\ \E x \in DOMAIN Ptrs(im, p) : Ptrs(im, p)[x] = base + q
  BY DEF Fits, Linked, IsCmf, Ptrs
<1>3. ASSUME NEW q \in S, q <= n PROVE q \in st.sections
  <2>1. CASE q = 0
    BY <2>1 DEF Followed
  <2>2. CASE q # 0
    <3>1. PICK p \in S : /\ p < q /\ IsCmf(im, p)
                         /\ \E x \in DOMAIN Ptrs(im, p) : Ptrs(im, p)[x] = base + q
      BY <1>2, <2>2
    <3>2. p \in Int /\ q \in Int /\ p + 1 # q
      BY <1>2, <3>1
    <3>3. p + 1 < n
      BY <1>1, <1>3, <3>1, <3>2
    <3>4. PICK x \in DOMAIN Ptrs(im, p) : Ptrs(im, p)[x] = base + q
      BY <3>1
    <3>5. Ptrs(im, p)[x] - base \in st.sections
      BY <3>1, <3>3 DEF Followed
    <3>6. Ptrs(im, p)[x] - base = q
      BY <3>2, <3>4
    <3> QED BY <3>5, <3>6
  <2> QED BY <2>1, <2>2
<1>4. st.sections \subseteq S /\ st.block_type = IF Signature(im, S, n) THEN "signature" ELSE "regular"
  BY DEF Followed
<1>5. n \in st.sections <=> n \in S
  BY <1>1, <1>3, <1>4
<1>6. n \in S => ~Signature(im, S, n)
  BY <1>2 DEF Signature
<1>7. \A p \in S : n = p + 1 /\ IsCmf(im, p) => p \in st.sections /\ n \notin S
  BY <1>1, <1>2, <1>3
<1> QED BY <1>4, <1>5, <1>6, <1>7 DEF BlockType

\* The signature block of section p, when it is not refused: its pointers count from base,
\* which is 0 or the slot's offset if there are any.
LEMMA WhatPointers ==
    ASSUME NEW s \in Slots, NEW im \in Images, NEW base \in Int, NEW S \in SUBSET Int,
           NEW st \in State, NEW p \in S, p + 1 \in 0..Blocks(im) - 1, IsCmf(im, p),
           Fits(s, im, base, S), Followed(s, im, base, S, st, p + 1),
           ~Refused(s, st, p + 1, im.blocks[p + 2])
    PROVE  LET b == im.blocks[p + 2]
               absolute == IsAbsolute(s, st, p + 1, b)
           IN  /\ CrcRight(b)
               /\ base = 0 => ~absolute
               /\ DOMAIN b.ptrs # {} => base = 0 \/ (base = s.offset /\ absolute)
               /\ st.absolute => absolute
               /\ \A x \in DOMAIN b.ptrs : b.ptrs[x] \in Int /\ b.ptrs[x] - base \in S
<1> HIDE DEF Block
<1> DEFINE b == im.blocks[p + 2]
           n == p + 1
           absolute == IsAbsolute(s, st, n, b)
<1>1. /\ n \in Nat /\ Blocks(im) \in Nat /\ s.offset \in Nat /\ s.size \in Nat
      /\ S \subseteq 0..s.size - 1 /\ p \in Nat
  BY ImageFacts, SlotFacts DEF Fits
<1>2. b \in Block
  <2>1. n \in Int /\ 0 <= n /\ n < Blocks(im) /\ n + 1 = p + 2
    BY <1>1
  <2>2. im.blocks[n + 1] \in Block
    BY <2>1, ImageFacts
  <2> QED BY <2>1, <2>2
<1>3. \A x \in DOMAIN b.ptrs : b.ptrs[x] \in Int
  BY <1>2, LenProperties, ElementOfSeq DEF Block
<1>4. /\ \A x \in DOMAIN b.ptrs : b.ptrs[x] - base \in S /\ b.ptrs[x] - base > p
      /\ base = 0 \/ (base \in {t.offset : t \in Slots} /\ base >= s.offset)
  BY DEF Fits, Linked, IsCmf
<1>5. BlockType(st, n) = "signature"
  <2>1. p + 1 \in 0..Blocks(im) - 1 /\ p + 1 \notin S /\ Signature(im, S, p + 1)
    BY DEF Fits, Linked, IsCmf, Signature
  <2> QED BY <2>1, WhatBlock
<1>6. /\ CrcRight(b)
      /\ \A x \in DOMAIN b.ptrs : (IF absolute THEN b.ptrs[x] - s.offset ELSE b.ptrs[x]) <= s.size
  BY <1>5 DEF Refused, sig_block_check, InSlot
<1>7. ASSUME base = 0 PROVE ~absolute
  <2>1. ~st.absolute
    BY <1>7 DEF Followed
  <2>2. \A x \in DOMAIN b.ptrs : ~(b.ptrs[x] > s.size)
    <3> SUFFICES ASSUME NEW x \in DOMAIN b.ptrs PROVE ~(b.ptrs[x] > s.size)
      OBVIOUS
    <3>1. b.ptrs[x] - base = b.ptrs[x]
      BY <1>3, <1>7
    <3>2. b.ptrs[x] \in 0..s.size - 1
      BY <1>1, <1>4, <3>1
    <3> QED BY <1>1, <3>2
  <2> QED BY <2>1, <2>2 DEF IsAbsolute
<1>8. ASSUME NEW y \in DOMAIN b.ptrs, base # 0
      PROVE  base = s.offset /\ absolute
  <2>1. CASE st.sections = {0}
    <3>1. p \in st.sections
      BY WhatBlock
    <3>2. n = 1
      BY <2>1, <3>1
    <3>3. PICK t \in Slots : base = t.offset
      BY <1>4, <1>8
    <3>4. /\ t.offset \in Nat /\ t.size \in Nat /\ s.size <= t.offset /\ 0 < t.offset
          /\ s = t \/ s.offset + s.size <= t.offset \/ t.offset + t.size <= s.offset
      BY SlotFacts, SlotsAssumption
    <3>5. b.ptrs[y] - base > 0 /\ b.ptrs[y] \in Int
      BY <1>1, <1>3, <1>4
    <3>6. b.ptrs[y] > s.size
      BY <1>1, <3>3, <3>4, <3>5
    <3>7. absolute
      BY <3>2, <3>6 DEF IsAbsolute
    <3>8. b.ptrs[y] - s.offset <= s.size
      BY <1>6, <3>7
    <3>9. base = s.offset
      <4>1. base >= s.offset
        BY <1>4, <1>8
      <4>2. CASE s = t
        BY <3>3, <4>2
      <4>3. CASE s.offset + s.size <= t.offset
        BY <1>1, <3>3, <3>4, <3>5, <3>8, <4>3
      <4>4. CASE t.offset + t.size <= s.offset
        BY <1>1, <3>3, <3>4, <4>1, <4>4
      <4> QED BY <3>4, <4>2, <4>3, <4>4
    <3> QED BY <3>7, <3>9
  <2>2. CASE st.sections # {0}
    BY <1>8, <2>2 DEF Followed, IsAbsolute
  <2> QED BY <2>1, <2>2
<1>9. st.absolute => absolute
  BY DEF IsAbsolute
<1> QED BY <1>3, <1>4, <1>6, <1>7, <1>8, <1>9

\* A block that is not refused is followed, and leads to sections where it is written.
LEMMA FollowStep ==
    ASSUME NEW s \in Slots, NEW im \in Images, NEW base \in Int, NEW S \in SUBSET Int,
           NEW st \in State, NEW n \in 0..Blocks(im) - 1,
           Fits(s, im, base, S), Followed(s, im, base, S, st, n),
           ~Refused(s, st, n, im.blocks[n + 1])
    PROVE  /\ Followed(s, im, base, S, Advance(s, st, n, im.blocks[n + 1]), n + 1)
           /\ Leads(s, im, S, n, Adjusted(s, st, n, im.blocks[n + 1]))
<1> HIDE DEF Block
<1> DEFINE b == im.blocks[n + 1]
           new == Advance(s, st, n, b)
<1>1. n \in Nat /\ Blocks(im) \in Nat /\ s.offset \in Nat /\ s.size \in Nat /\ S \in SUBSET Int
  BY ImageFacts, SlotFacts
<1>2. b \in Block
  <2>1. n \in Int /\ 0 <= n /\ n < Blocks(im)
    BY <1>1
  <2> QED BY <2>1, ImageFacts
<1>3. /\ BlockType(st, n) = IF n \in S THEN "section"
                            ELSE IF Signature(im, S, n) THEN "signature" ELSE "regular"
      /\ n \in S => ~Signature(im, S, n)
      /\ \A p \in S : n = p + 1 /\ IsCmf(im, p) => p \in st.sections /\ n \notin S
  BY WhatBlock
<1>4. /\ 0 \in st.sections /\ st.sections \subseteq S
      /\ \A p \in S : IsCmf(im, p) /\ p + 1 < n =>
            \A x \in DOMAIN Ptrs(im, p) : Ptrs(im, p)[x] - base \in st.sections
      /\ st.sections = {0} \/ base = 0 \/ (base = s.offset /\ st.absolute)
      /\ base = 0 => ~st.absolute
  BY DEF Followed
<1>5. /\ n \in S => (Signature(im, S, n + 1) <=> b.head = CMF)
      /\ n \notin S => ~Signature(im, S, n + 1)
  <2>1. \A p \in S : n + 1 = p + 1 <=> p = n
    BY <1>1
  <2> QED BY <2>1 DEF Signature, IsCmf
<1>6. ~Signature(im, S, n) => \A p \in S : IsCmf(im, p) /\ p + 1 < n + 1 => p + 1 < n
  BY <1>1 DEF Signature
<1>7. Adjusted(s, st, n, b).head = b.head
  BY <1>2, AdjustedType
<1>8. CASE n \in S
  <2>1. new = [st EXCEPT !.block_type = IF b.head = CMF THEN "signature" ELSE "regular"]
    BY <1>3, <1>8 DEF Advance
  <2>2. /\ new.sections = st.sections /\ new.absolute = st.absolute
        /\ new.block_type = IF Signature(im, S, n + 1) THEN "signature" ELSE "regular"
    BY <1>5, <1>8, <2>1 DEF State
  <2>3. Followed(s, im, base, S, new, n + 1)
    <3> HIDE DEF new, b
    <3> QED BY <1>3, <1>4, <1>6, <1>8, <2>2 DEF Followed
  <2> QED BY <1>3, <1>7, <1>8, <2>3 DEF Leads
<1>9. CASE n \notin S /\ ~Signature(im, S, n)
  <2>1. BlockType(st, n) = "regular" /\ st.block_type = "regular"
    BY <1>3, <1>9 DEF Followed
  <2>2. new = st
    BY <2>1 DEF Advance
  <2>3. Followed(s, im, base, S, new, n + 1)
    <3> HIDE DEF new, b
    <3> QED BY <1>4, <1>5, <1>6, <1>9, <2>1, <2>2 DEF Followed
  <2> QED BY <1>7, <1>9, <2>3 DEF Leads
<1>10. CASE Signature(im, S, n)
  <2>1. PICK p \in S : n = p + 1 /\ IsCmf(im, p)
    BY <1>10 DEF Signature
  <2>2. p \in Int /\ n + 1 = p + 2 /\ Ptrs(im, p) = b.ptrs /\ n \notin S
    BY <1>1, <1>3, <2>1 DEF Ptrs
  <2> DEFINE absolute == IsAbsolute(s, st, n, b)
             q == InSlot(s, absolute, b.ptrs)
  <2>3. /\ CrcRight(b)
        /\ base = 0 => ~absolute
        /\ DOMAIN b.ptrs # {} => base = 0 \/ (base = s.offset /\ absolute)
        /\ st.absolute => absolute
        /\ \A x \in DOMAIN b.ptrs : b.ptrs[x] \in Int /\ b.ptrs[x] - base \in S
    <3>1. p + 1 \in 0..Blocks(im) - 1 /\ im.blocks[p + 2] = b
          /\ ~Refused(s, st, p + 1, im.blocks[p + 2])
          /\ Followed(s, im, base, S, st, p + 1)
      BY <2>1, <2>2
    <3> HIDE DEF b
    <3>2. LET c == im.blocks[p + 2]
              abs == IsAbsolute(s, st, p + 1, c)
          IN  /\ CrcRight(c)
              /\ base = 0 => ~abs
              /\ DOMAIN c.ptrs # {} => base = 0 \/ (base = s.offset /\ abs)
              /\ st.absolute => abs
              /\ \A x \in DOMAIN c.ptrs : c.ptrs[x] \in Int /\ c.ptrs[x] - base \in S
      BY <2>1, <3>1, WhatPointers
    <3> QED BY <2>1, <3>1, <3>2
  <2>4. BlockType(st, n) = "signature"
    BY <1>3, <1>10
  <2>5. DOMAIN b.ptrs = 1..Len(b.ptrs) /\ Len(b.ptrs) \in Nat
    BY <1>2, LenProperties DEF Block
  <2> HIDE DEF absolute, b
  <2>6. /\ DOMAIN q = DOMAIN b.ptrs
        /\ \A x \in DOMAIN q : q[x] = b.ptrs[x] - base /\ q[x] \in S
    BY <1>1, <2>3 DEF InSlot
  <2>7. DOMAIN q = 1..Len(q) /\ Len(q) \in Nat
    <3>1. q \in [1..Len(b.ptrs) -> S]
      BY <2>5, <2>6 DEF InSlot
    <3> HIDE DEF q
    <3> QED BY <2>5, <3>1
  <2>8. /\ new.sections = AddSections(st.sections, q)
        /\ new.block_type = "regular" /\ new.absolute = absolute
    <3>1. new = [sections |-> AddSections(st.sections, q), block_type |-> "regular",
                 absolute |-> absolute]
      BY <2>4 DEF Advance, sig_block_process, absolute
    <3> HIDE DEF q, new
    <3> QED BY <3>1
  <2> HIDE DEF q, new
  <2>9. AddSections(st.sections, q) = st.sections \cup {q[x] : x \in DOMAIN q}
    <3>1. IsFiniteSet(S) /\ Cardinality(S) <= MAX_SECTIONS
      <4>1. S \in SUBSET (0..s.size - 1) /\ Cardinality(S) <= MAX_SECTIONS
        BY DEF Fits, Linked
      <4>2. IsFiniteSet(0..s.size - 1)
        <5>1. 0 \in Int /\ s.size - 1 \in Int
          BY <1>1
        <5> QED BY <5>1, FS_Interval
      <4> QED BY <4>1, <4>2, FS_Subset
    <3>2. \A x \in DOMAIN q : q[x] \in S
      BY <2>6
    <3> QED BY <1>4, <2>7, <3>1, <3>2, AddAll
  <2>10. 0 \in new.sections /\ new.sections \subseteq S
    BY <1>4, <2>6, <2>8, <2>9
  <2>11. ASSUME NEW r \in S, IsCmf(im, r), r + 1 < n + 1
         PROVE  \A x \in DOMAIN Ptrs(im, r) : Ptrs(im, r)[x] - base \in new.sections
    <3>1. r + 1 < n \/ r = p
      BY <1>1, <2>1, <2>2, <2>11
    <3>2. CASE r + 1 < n
      BY <1>4, <2>8, <2>9, <2>11, <3>2
    <3>3. CASE r = p
      BY <2>2, <2>6, <2>8, <2>9, <3>3
    <3> QED BY <3>1, <3>2, <3>3
  <2>12. new.sections = {0} \/ base = 0 \/ (base = s.offset /\ new.absolute)
    <3>1. CASE DOMAIN q = {}
      <4>1. new.sections = st.sections
        BY <2>8, <2>9, <3>1
      <4> QED BY <1>4, <2>3, <2>8, <4>1
    <3>2. CASE DOMAIN q # {}
      BY <2>3, <2>6, <2>8, <3>2
    <3> QED BY <3>1, <3>2
  <2>13. Followed(s, im, base, S, new, n + 1)
    BY <1>5, <2>2, <2>3, <2>8, <2>10, <2>11, <2>12 DEF Followed
  <2>14. Leads(s, im, S, n, Adjusted(s, st, n, b))
    <3>1. CASE absolute
      <4>1. Adjusted(s, st, n, b) = b
        BY <3>1 DEF Adjusted, absolute
      <4>2. \A x \in DOMAIN b.ptrs : b.ptrs[x] - s.offset \in S
        BY <2>3, <3>1
      <4> QED BY <2>3, <4>1, <4>2 DEF Leads, b
    <3>2. CASE ~absolute
      <4>1. Adjusted(s, st, n, b) = Moved(s, b)
        BY <2>4, <3>2 DEF Adjusted, absolute
      <4> DEFINE e == [x \in DOMAIN b.ptrs |-> b.ptrs[x] + s.offset]
      <4>2. \A x \in DOMAIN e : e[x] - s.offset \in S
        <5> SUFFICES ASSUME NEW x \in DOMAIN e PROVE e[x] - s.offset \in S
          OBVIOUS
        <5>0. x \in DOMAIN b.ptrs /\ e[x] = b.ptrs[x] + s.offset
          OBVIOUS
        <5> HIDE DEF e
        <5>1. base = 0 /\ b.ptrs[x] \in Int /\ b.ptrs[x] - base \in S
          BY <2>3, <3>2, <5>0
        <5>2. e[x] - s.offset = b.ptrs[x] - base
          BY <1>1, <5>0, <5>1
        <5> QED BY <5>1, <5>2
      <4>3. Moved(s, b) = [head |-> b.head, ptrs |-> e, crc |-> Crc(b.head, e)]
        BY DEF Moved
      <4> HIDE DEF e
      <4>4. CrcRight(Moved(s, b)) /\ Moved(s, b).ptrs = e /\ Moved(s, b).head = b.head
        BY <4>3 DEF CrcRight
      <4> QED BY <2>3, <4>1, <4>2, <4>4 DEF Leads, b
    <3> QED BY <3>1, <3>2
  <2> QED BY <2>13, <2>14 DEF new, b
<1> QED BY <1>8, <1>9, <1>10

\* LoadInv when a programming begins, when a block is written and when it is read back.
LEMMA LoadBegins ==
    ASSUME TypeOK, TypeOK', made' = {}, pc' = "program", k' = 0, state' = InitState
    PROVE  LoadInv'
<1> HIDE DEF Block
<1>1. ASSUME NEW base \in Int, NEW S \in SUBSET Int, Fits(info', call'.image, base, S)
      PROVE  Followed(info', call'.image, base, S, InitState, 0)
  <2>1. 0 \in S /\ S \subseteq 0..info'.size - 1 /\ info'.size \in Nat
    BY <1>1, SlotFacts DEF Fits, Linked, TypeOK
  <2>2. \A p \in S : p \in Int /\ ~(p + 1 < 0) /\ ~(0 = p + 1)
    BY <2>1
  <2> QED BY <2>1, <2>2 DEF Followed, InitState, Signature
<1>2. \A S, c : Led(info', call'.image, S, c, 0)
  BY DEF Led
<1> QED BY <1>1, <1>2 DEF LoadInv

LEMMA LoadWrite ==
    ASSUME ImageInv, TypeOK', LoadInv, program_block
    PROVE  LoadInv'
<1> HIDE DEF Block
<1> DEFINE im == call.image
           b == im.blocks[k + 1]
<1>1. /\ pc = "program" /\ HasBlock /\ im \in Images /\ k \in 0..Blocks(im) - 1 /\ k \in Nat
      /\ UNCHANGED <<info, call, k, made>> /\ info \in Slots /\ state \in State
      /\ pc' \in {"read_back", "returned"}
  BY ImageFacts DEF ImageInv, TypeOK, program_block, HasBlock, Returns
<1>2. made = {}
  BY <1>1 DEF ImageInv, ProgInv
<1>3. CASE pc' = "returned"
  BY <1>1, <1>2, <1>3 DEF LoadInv
<1>4. CASE pc' = "read_back"
  <2> SUFFICES ASSUME ~call.raw, NEW base \in Int, NEW S \in SUBSET Int,
                      Fits(info, im, base, S)
               PROVE  /\ Followed(info, im, base, S, state', k + 1)
                      /\ Led(info, im, S, cells', k)
                      /\ Leads(info, im, S, k, buf')
    BY <1>1, <1>2, <1>4 DEF LoadInv
  <2>1. Followed(info, im, base, S, state, k) /\ Led(info, im, S, cells, k)
    BY <1>1 DEF LoadInv
  <2>2. Given = b
    <3>1. ~CutOff(im, k)
      BY DEF Fits, Linked, CutOff
    <3> QED BY <1>1, <3>1, GivenType DEF ImageInv
  <2>3. /\ ~Refused(info, state, k, b)
        /\ buf' = Adjusted(info, state, k, b) /\ state' = Advance(info, state, k, b)
        /\ \E c \in Written(cells[k], buf') : cells' = [cells EXCEPT ![k] = c]
    <3> HIDE DEF b
    <3> QED BY <1>1, <1>4, <2>2 DEF program_block, Returns
  <2>4. /\ Followed(info, im, base, S, state', k + 1)
        /\ Leads(info, im, S, k, buf')
    <3>1. ~Refused(info, state, k, im.blocks[k + 1])
      BY <2>3
    <3>2. /\ Followed(info, im, base, S, Advance(info, state, k, im.blocks[k + 1]), k + 1)
          /\ Leads(info, im, S, k, Adjusted(info, state, k, im.blocks[k + 1]))
      <4> HIDE DEF im
      <4> QED BY <1>1, <2>1, <3>1, FollowStep
    <3> QED BY <2>3, <3>2
  <2>5. \A j \in 0..k - 1 : cells'[j] = cells[j]
    BY <1>1, <2>3 DEF ImageInv, TypeOK
  <2> QED BY <2>1, <2>4, <2>5 DEF Led
<1> QED BY <1>1, <1>3, <1>4

LEMMA LoadReadBack ==
    ASSUME ImageInv, TypeOK', LoadInv, read_back
    PROVE  LoadInv'
<1> HIDE DEF Block
<1> DEFINE im == call.image
<1>1. /\ pc = "read_back" /\ HasBlock /\ im \in Images /\ k \in Nat
      /\ UNCHANGED <<info, cells, call, state, buf, made>>
      /\ pc' \in {"program", "returned"}
  BY ImageFacts DEF ImageInv, TypeOK, read_back, HasBlock, Returns, buffers
<1>2. made = {}
  BY <1>1 DEF ImageInv, BackInv
<1>3. CASE pc' = "returned"
  BY <1>1, <1>2, <1>3 DEF LoadInv
<1>4. CASE pc' = "program"
  <2>1. k' = k + 1 /\ SameBytes(cells[k], buf)
    BY <1>4 DEF read_back, Returns
  <2> SUFFICES ASSUME ~call.raw, NEW base \in Int, NEW S \in SUBSET Int,
                      Fits(info, im, base, S)
               PROVE  /\ Followed(info, im, base, S, state, k + 1)
                      /\ Led(info, im, S, cells, k + 1)
    BY <1>1, <1>2, <1>4, <2>1 DEF LoadInv
  <2>2. /\ Followed(info, im, base, S, state, k + 1) /\ Led(info, im, S, cells, k)
        /\ Leads(info, im, S, k, buf)
    BY <1>1 DEF LoadInv
  <2>3. cells[k] = buf
    BY <2>1 DEF SameBytes, Fits, Linked, CutOff
  <2>4. \A j \in 0..(k + 1) - 1 : j \in 0..k - 1 \/ j = k
    BY <1>1
  <2> QED BY <2>2, <2>3, <2>4 DEF Led
<1> QED BY <1>1, <1>3, <1>4

\* Every step keeps LoadInv.
LEMMA LoadStep == ImageInv /\ LoadInv /\ [Next]_vars => LoadInv'
<1> SUFFICES ASSUME ImageInv, LoadInv, [Next]_vars PROVE LoadInv'
  OBVIOUS
<1> HIDE DEF Block
<1>t. TypeOK /\ TypeOK'
  BY TypeStep DEF ImageInv
<1>1. ASSUME pc' \notin {"program", "read_back"}, made' = {} \/ (made' = made /\ info' = info)
      PROVE  LoadInv'
  BY <1>1 DEF LoadInv
<1>2. CASE rsu_slot_erase
  BY <1>1, <1>2 DEF rsu_slot_erase, Returns
<1>3. ASSUME NEW im \in Images, NEW raw \in BOOLEAN, rsu_slot_program(im, raw)
      PROVE  LoadInv'
  <2>1. CASE Rejected("program", im, raw)
    BY <1>1, <1>3, <2>1 DEF rsu_slot_program, Rejected, Returns
  <2>2. CASE Begins("program", im, raw) /\ made' = {}
    BY <1>t, <2>2, LoadBegins DEF Begins
  <2> QED BY <1>3, <2>1, <2>2 DEF rsu_slot_program
<1>4. ASSUME NEW im \in Images, NEW raw \in BOOLEAN, rsu_slot_verify(im, raw)
      PROVE  LoadInv'
  BY <1>1, <1>4 DEF rsu_slot_verify, Rejected, Begins, Returns
<1>5. CASE program_block
  BY <1>5, <1>t, LoadWrite
<1>6. CASE read_back
  BY <1>6, <1>t, LoadReadBack
<1>7. CASE slot_add
  <2>1. /\ pc = "program" /\ ~HasBlock /\ pc' = "returned" /\ info' = info
        /\ made' = {[image |-> call.image, raw |-> call.raw, cells |-> cells]}
    BY <1>7 DEF slot_add, Returns
  <2>2. k = Blocks(call.image)
    BY <1>t, <2>1, ImageFacts DEF TypeOK, HasBlock
  <2>3. ~call.raw =>
          \A base \in Int, S \in SUBSET Int : Fits(info, call.image, base, S) =>
              Led(info, call.image, S, cells, Blocks(call.image))
    BY <2>1, <2>2 DEF LoadInv
  <2> QED BY <2>1, <2>3 DEF LoadInv
<1>8. CASE verify_block \/ verified
  <2>1. pc' \in {"verify", "returned"}
    BY <1>8 DEF verify_block, verified, Returns
  <2> QED BY <1>1, <1>8, <2>1 DEF verify_block, verified
<1>9. CASE Fails \/ Return \/ FlashDecays
  <2>1. pc' \in {"idle", "returned"} /\ made' = made /\ info' = info
    BY <1>9 DEF Fails, Return, FlashDecays, Returns
  <2> QED BY <1>1, <2>1
<1>10. CASE UNCHANGED vars
  BY <1>10 DEF vars, buffers, LoadInv
<1> QED
  BY <1>2, <1>3, <1>4, <1>5, <1>6, <1>7, <1>8, <1>9, <1>10 DEF Next

\* A bitstream that was programmed leads the loader through its sections inside the slot.
THEOREM ImageLoadable == Spec => []Loadable
<1> HIDE DEF Block
<1>1. Init => LoadInv
  BY DEF Init, LoadInv
<1>2. ImageInv /\ LoadInv => Loadable
  <2> SUFFICES ASSUME ImageInv, LoadInv,
                      NEW m \in made, NEW S \in SUBSET DOMAIN cells,
                      NEW base \in {0} \cup {s.offset : s \in Slots},
                      m.cells = cells, ~m.raw, base = 0 \/ base >= info.offset,
                      Linked(m.image, base, S)
               PROVE  /\ Loads
                      /\ \A p \in S : m.image.blocks[p + 1].head = CMF =>
                            CrcRight(m.image.blocks[p + 2])
    BY DEF Loadable
  <2> DEFINE im == m.image
  <2>1. /\ im \in Images /\ info \in Slots /\ DOMAIN cells = 0..info.size - 1
        /\ info.size \in Nat /\ Blocks(im) \in Nat /\ Blocks(im) <= info.size
    BY ImageFacts, SlotFacts DEF ImageInv, TypeOK, MadeInv
  <2>2. base \in Int /\ S \in SUBSET Int
    BY <2>1, SlotFacts
  <2>3. Fits(info, im, base, S)
    BY <2>1 DEF Fits
  <2>4. Led(info, im, S, cells, Blocks(im))
    BY <2>2, <2>3 DEF LoadInv
  <2>5. ASSUME NEW p \in S, IsCmf(im, p) \/ cells[p].head = CMF
        PROVE  /\ p + 1 \in DOMAIN cells /\ CrcRight(cells[p + 1])
               /\ \A x \in DOMAIN cells[p + 1].ptrs : cells[p + 1].ptrs[x] - info.offset \in S
               /\ CrcRight(im.blocks[p + 2])
    <3>1. p \in 0..Blocks(im) - 1 /\ p \in Nat
      BY DEF Linked
    <3>2. IsCmf(im, p)
      BY <2>4, <2>5, <3>1 DEF Led, Leads, IsCmf
    <3>3. p + 1 \in 1..Blocks(im) - 1
      BY <3>2 DEF Linked, IsCmf
    <3>4. p + 1 \in 0..Blocks(im) - 1 /\ p + 1 \in DOMAIN cells /\ (p + 1) + 1 = p + 2
      BY <2>1, <3>1, <3>3
    <3>5. Leads(info, im, S, p + 1, cells[p + 1])
      BY <2>4, <3>4 DEF Led
    <3>6. Signature(im, S, p + 1)
      BY <3>2 DEF Signature
    <3> QED BY <3>4, <3>5, <3>6 DEF Leads
  <2>6. Loads
    <3>1. 0 \in S
      BY DEF Linked
    <3> QED BY <2>5, <3>1 DEF Loads
  <2>7. \A p \in S : im.blocks[p + 1].head = CMF => CrcRight(im.blocks[p + 2])
    BY <2>5 DEF IsCmf
  <2> QED BY <2>6, <2>7
<1> QED BY <1>1, <1>2, LoadStep, ImageInvariant, PTL DEF Spec
================================================================================
