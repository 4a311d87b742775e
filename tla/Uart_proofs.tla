------------------------------ MODULE Uart_proofs ------------------------------
(***************************************************************************)
(* Proofs about Uart, for FIFOs of every depth: its types, and that it     *)
(* implements AtomicPort.                                                  *)
(***************************************************************************)
EXTENDS Uart, SequenceTheorems, TLAPS

\* Places in the ring of cells.
LEMMA PlaceFacts ==
    ASSUME FifoAssumption, NEW p \in Cell
    PROVE  /\ \A i \in 0..Depth : Place(p, i) \in Cell
           /\ Place(p, 0) = p
           /\ \A i \in 0..(Depth - 1) :
                 /\ Wrap(Place(p, i)) = Place(p, i + 1)
                 /\ Place(Wrap(p), i) = Place(p, i + 1)
           /\ \A i, j \in 0..(Depth - 1) : Place(p, i) = Place(p, j) => i = j
           /\ Wrap(p) \in Cell
BY DEF FifoAssumption, Cell, Place, Wrap

LEMMA FifoType ==
    ASSUME NEW f, Consistent(f)
    PROVE  /\ f.ram \in [Cell -> Byte \cup {Junk}] /\ f.head \in Cell /\ f.tail \in Cell
           /\ f.n \in 0..Depth /\ f.rdata \in Byte \cup {Junk}
           /\ f.tail = Place(f.head, f.n)
           /\ \A i \in 0..(f.n - 1) : f.ram[Place(f.head, i)] \in Byte
BY DEF Consistent, Fifo

\* The words in a FIFO are a sequence of words.
LEMMA ContentsFacts ==
    ASSUME FifoAssumption, NEW f, Consistent(f)
    PROVE  /\ Contents(f) \in Seq(Byte) /\ Len(Contents(f)) = f.n
           /\ \A i \in 1..f.n : Contents(f)[i] = f.ram[Place(f.head, i - 1)]
<1>1. f.n \in 0..Depth /\ \A i \in 0..(f.n - 1) : f.ram[Place(f.head, i)] \in Byte
  BY FifoType
<1>2. f.n \in Nat BY <1>1 DEF FifoAssumption
<1>3. \A i \in 1..f.n : f.ram[Place(f.head, i - 1)] \in Byte
  <2> TAKE i \in 1..f.n
  <2>1. i - 1 \in 0..(f.n - 1) BY <1>2
  <2> QED BY <2>1, <1>1
<1>4. Contents(f) \in [1..f.n -> Byte] BY <1>3 DEF Contents
<1>5. Contents(f) \in Seq(Byte) /\ Len(Contents(f)) = f.n BY <1>2, <1>4
<1>6. \A i \in 1..f.n : Contents(f)[i] = f.ram[Place(f.head, i - 1)] BY DEF Contents
<1> QED BY <1>5, <1>6

\* What a clock does to the registers of a FIFO.
LEMMA EdgeFields ==
    ASSUME NEW f, NEW push, NEW wdata, NEW pop, NEW e, e = Edge(f, push, wdata, pop)
    PROVE  /\ e.ram = [a \in Cell |-> IF do_push(f, push) /\ a = f.tail THEN wdata
                                      ELSE IF do_pop(f, pop) /\ a = f.head THEN Junk
                                      ELSE f.ram[a]]
           /\ e.tail = IF do_push(f, push) THEN Wrap(f.tail) ELSE f.tail
           /\ e.head = IF do_pop(f, pop) THEN Wrap(f.head) ELSE f.head
           /\ e.n = IF do_push(f, push) /\ ~do_pop(f, pop) THEN f.n + 1
                    ELSE IF do_pop(f, pop) /\ ~do_push(f, push) THEN f.n - 1
                    ELSE f.n
           /\ e.rdata = IF do_pop(f, pop) THEN f.ram[f.head] ELSE Junk
           /\ e = [ram |-> e.ram, tail |-> e.tail, head |-> e.head, n |-> e.n,
                   rdata |-> e.rdata]
BY DEF Edge

\* A clock takes the oldest word out if there is one, adds one if there is room, and leaves
\* every other word where it is.
Moved(f, push, wdata, pop, e) ==
    /\ Consistent(e)
    /\ \A i \in 1..e.n :
          e.ram[Place(e.head, i - 1)] =
             LET j == IF pop /\ f.n # 0 THEN i + 1 ELSE i
             IN  IF j = f.n + 1 THEN wdata ELSE f.ram[Place(f.head, j - 1)]
    /\ e.n = IF push /\ f.n # Depth
             THEN IF pop /\ f.n # 0 THEN f.n ELSE f.n + 1
             ELSE IF pop /\ f.n # 0 THEN f.n - 1 ELSE f.n
    /\ e.rdata = IF pop /\ f.n # 0 THEN f.ram[f.head] ELSE Junk

LEMMA EdgeKeeps ==
    ASSUME FifoAssumption, NEW f, Consistent(f),
           NEW push \in BOOLEAN, NEW wdata, push => wdata \in Byte, NEW pop \in BOOLEAN,
           NEW e, e = Edge(f, push, wdata, pop)
    PROVE  Moved(f, push, wdata, pop, e)
<1>1. /\ f.ram \in [Cell -> Byte \cup {Junk}] /\ f.head \in Cell /\ f.tail \in Cell
      /\ f.n \in 0..Depth
      /\ f.tail = Place(f.head, f.n)
      /\ \A i \in 0..(f.n - 1) : f.ram[Place(f.head, i)] \in Byte
  BY FifoType
<1>2. Depth \in Nat \ {0} BY DEF FifoAssumption
<1> DEFINE in == push /\ f.n # Depth
           ot == pop /\ f.n # 0
<1>4. /\ e.ram = [a \in Cell |-> IF in /\ a = f.tail THEN wdata
                                 ELSE IF ot /\ a = f.head THEN Junk
                                 ELSE f.ram[a]]
      /\ e.tail = IF in THEN Wrap(f.tail) ELSE f.tail
      /\ e.head = IF ot THEN Wrap(f.head) ELSE f.head
      /\ e.n = IF in /\ ~ot THEN f.n + 1 ELSE IF ot /\ ~in THEN f.n - 1 ELSE f.n
      /\ e.rdata = IF ot THEN f.ram[f.head] ELSE Junk
      /\ e = [ram |-> e.ram, tail |-> e.tail, head |-> e.head, n |-> e.n, rdata |-> e.rdata]
  BY EdgeFields DEF do_push, do_pop
<1>5. /\ in \in BOOLEAN /\ ot \in BOOLEAN
      /\ in => f.n < Depth /\ wdata \in Byte
      /\ ot => f.n > 0
  BY <1>1, <1>2
<1> HIDE DEF in, ot
<1>6. e.n \in 0..Depth BY <1>1, <1>2, <1>4, <1>5
<1>7. e.ram \in [Cell -> Byte \cup {Junk}] BY <1>1, <1>4, <1>5
<1>8. e.head \in Cell /\ e.tail \in Cell BY <1>1, <1>4, PlaceFacts
<1>9. e.rdata \in Byte \cup {Junk} BY <1>1, <1>4
<1>10. e.tail = Place(e.head, e.n)
  <2>1. CASE in /\ ot
    <3>1. f.n \in 0..(Depth - 1) BY <1>1, <1>2, <1>5, <2>1
    <3>2. Wrap(f.tail) = Place(f.head, f.n + 1) /\ Place(Wrap(f.head), f.n) = Place(f.head, f.n + 1)
      BY <3>1, <1>1, PlaceFacts
    <3> QED BY <2>1, <3>2, <1>4
  <2>2. CASE in /\ ~ot
    <3>1. f.n \in 0..(Depth - 1) BY <1>1, <1>2, <1>5, <2>2
    <3>2. Wrap(f.tail) = Place(f.head, f.n + 1) BY <3>1, <1>1, PlaceFacts
    <3> QED BY <2>2, <3>2, <1>4
  <2>3. CASE ~in /\ ot
    <3>1. f.n - 1 \in 0..(Depth - 1) /\ (f.n - 1) + 1 = f.n BY <1>1, <1>2, <1>5, <2>3
    <3>2. Place(Wrap(f.head), f.n - 1) = Place(f.head, f.n) BY <3>1, <1>1, PlaceFacts
    <3> QED BY <2>3, <3>2, <1>1, <1>4
  <2>4. CASE ~in /\ ~ot BY <2>4, <1>1, <1>4
  <2> QED BY <2>1, <2>2, <2>3, <2>4, <1>5
<1>11. ASSUME NEW i \in 1..e.n
       PROVE  LET j == IF ot THEN i + 1 ELSE i
              IN  /\ e.ram[Place(e.head, i - 1)] =
                       IF j = f.n + 1 THEN wdata ELSE f.ram[Place(f.head, j - 1)]
                  /\ e.ram[Place(e.head, i - 1)] \in Byte
  <2> DEFINE j == IF ot THEN i + 1 ELSE i
  <2>1. /\ j \in 1..(f.n + 1) /\ j - 1 \in 0..Depth /\ i - 1 \in 0..(Depth - 1)
        /\ j = f.n + 1 => in
        /\ ot => j > 1
    BY <1>1, <1>2, <1>4, <1>5
  <2>2. Place(e.head, i - 1) = Place(f.head, j - 1)
    <3>1. CASE ot
      <4>1. Place(Wrap(f.head), i - 1) = Place(f.head, (i - 1) + 1)
        BY <2>1, <1>1, PlaceFacts
      <4>2. (i - 1) + 1 = j - 1 BY <3>1
      <4> QED BY <3>1, <4>1, <4>2, <1>4
    <3>2. CASE ~ot BY <3>2, <1>4
    <3> QED BY <3>1, <3>2, <1>5
  <2>3. Place(f.head, j - 1) \in Cell BY <2>1, <1>1, PlaceFacts
  <2>4. CASE j = f.n + 1
    <3>1. in /\ Place(f.head, j - 1) = f.tail BY <2>1, <2>4, <1>1
    <3> QED BY <3>1, <2>2, <2>3, <2>4, <1>4, <1>5
  <2>5. CASE j # f.n + 1
    <3>1. j - 1 \in 0..(f.n - 1) /\ j - 1 \in 0..(Depth - 1) BY <2>1, <2>5, <1>1, <1>2
    <3>2. in => Place(f.head, j - 1) # f.tail
      <4>1. SUFFICES ASSUME in PROVE Place(f.head, j - 1) # Place(f.head, f.n) BY <1>1
      <4>2. f.n \in 0..(Depth - 1) /\ j - 1 # f.n BY <4>1, <3>1, <1>1, <1>2, <1>5
      <4> QED BY <4>2, <3>1, <1>1, PlaceFacts
    <3>3. ot => Place(f.head, j - 1) # f.head
      <4>1. SUFFICES ASSUME ot PROVE Place(f.head, j - 1) # Place(f.head, 0)
        BY <1>1, PlaceFacts
      <4>2. 0 \in 0..(Depth - 1) /\ j - 1 # 0 BY <4>1, <2>1, <1>2
      <4> QED BY <4>2, <3>1, <1>1, PlaceFacts
    <3>4. e.ram[Place(f.head, j - 1)] = f.ram[Place(f.head, j - 1)]
      BY <3>2, <3>3, <2>3, <1>4
    <3> QED BY <3>1, <3>4, <2>2, <2>5, <1>1
  <2> QED BY <2>4, <2>5
<1>12. \A i \in 0..(e.n - 1) : e.ram[Place(e.head, i)] \in Byte
  <2> TAKE i \in 0..(e.n - 1)
  <2>1. i + 1 \in 1..e.n /\ (i + 1) - 1 = i BY <1>6
  <2> QED BY <2>1, <1>11
<1>13. e \in Fifo BY <1>4, <1>6, <1>7, <1>8, <1>9 DEF Fifo
<1>14. /\ e.n = IF in
                THEN IF ot THEN f.n ELSE f.n + 1
                ELSE IF ot THEN f.n - 1 ELSE f.n
       /\ e.rdata = IF ot THEN f.ram[f.head] ELSE Junk
  BY <1>4
<1> QED BY <1>10, <1>11, <1>12, <1>13, <1>14 DEF Moved, Consistent, in, ot

LEMMA NonEmpty ==
    ASSUME FifoAssumption, NEW f, Consistent(f)
    PROVE  Contents(f) # << >> <=> f.n # 0
<1>1. Contents(f) \in Seq(Byte) /\ Len(Contents(f)) = f.n BY ContentsFacts
<1> QED BY <1>1

\* The same of the sequence of its words: a clock is a Tail and an Append.
Queued(f, push, wdata, pop, e) ==
    LET rest == IF pop /\ Contents(f) # << >> THEN Tail(Contents(f)) ELSE Contents(f)
    IN  /\ Consistent(e)
        /\ Contents(e) = IF push /\ Len(Contents(f)) # Depth THEN Append(rest, wdata) ELSE rest
        /\ e.rdata = IF pop /\ Contents(f) # << >> THEN Head(Contents(f)) ELSE Junk

LEMMA EdgeContents ==
    ASSUME FifoAssumption, NEW f, Consistent(f),
           NEW push \in BOOLEAN, NEW wdata, push => wdata \in Byte, NEW pop \in BOOLEAN,
           NEW e, e = Edge(f, push, wdata, pop)
    PROVE  Queued(f, push, wdata, pop, e)
<1> DEFINE c == Contents(f)
           rest == IF pop /\ c # << >> THEN Tail(c) ELSE c
           k == IF pop /\ f.n # 0 THEN 1 ELSE 0
<1>1. Moved(f, push, wdata, pop, e) BY EdgeKeeps
<1>2. /\ Consistent(e)
      /\ \A i \in 1..e.n :
            e.ram[Place(e.head, i - 1)] =
               LET j == IF pop /\ f.n # 0 THEN i + 1 ELSE i
               IN  IF j = f.n + 1 THEN wdata ELSE f.ram[Place(f.head, j - 1)]
      /\ e.n = IF push /\ f.n # Depth
               THEN IF pop /\ f.n # 0 THEN f.n ELSE f.n + 1
               ELSE IF pop /\ f.n # 0 THEN f.n - 1 ELSE f.n
      /\ e.rdata = IF pop /\ f.n # 0 THEN f.ram[f.head] ELSE Junk
  BY <1>1 DEF Moved
<1>3. /\ c \in Seq(Byte) /\ Len(c) = f.n
      /\ \A i \in 1..f.n : c[i] = f.ram[Place(f.head, i - 1)]
  BY ContentsFacts
<1>4. /\ Contents(e) \in Seq(Byte) /\ Len(Contents(e)) = e.n
      /\ \A i \in 1..e.n : Contents(e)[i] = e.ram[Place(e.head, i - 1)]
  BY <1>2, ContentsFacts
<1>5. c # << >> <=> f.n # 0 BY NonEmpty
<1>6. f.n \in 0..Depth /\ Depth \in Nat \ {0} /\ f.head \in Cell BY FifoType DEF FifoAssumption
<1>7. e.rdata = IF pop /\ c # << >> THEN Head(c) ELSE Junk
  <2>2. f.n # 0 => Head(c) = f.ram[f.head]
    <3>1. Place(f.head, 1 - 1) = f.head BY <1>6, PlaceFacts
    <3>2. f.n # 0 => c[1] = f.ram[f.head]
      <4>1. f.n # 0 => 1 \in 1..f.n BY <1>6
      <4> QED BY <4>1, <3>1, <1>3
    <3> QED BY <3>2
  <2> QED BY <1>2, <2>2, <1>5
<1>8. /\ rest \in Seq(Byte) /\ Len(rest) = f.n - k
      /\ \A i \in 1..Len(rest) : rest[i] = c[i + k]
  <2>1. CASE pop /\ f.n # 0
    <3>1. rest = Tail(c) /\ c # << >> BY <2>1, <1>5
    <3>2. /\ Tail(c) \in Seq(Byte) /\ Len(Tail(c)) = Len(c) - 1
          /\ \A i \in 1..Len(Tail(c)) : Tail(c)[i] = c[i + 1]
      BY <3>1, <1>3, HeadTailProperties
    <3> QED BY <2>1, <3>1, <3>2, <1>3
  <2>2. CASE ~(pop /\ f.n # 0)
    <3>1. rest = c /\ k = 0 BY <2>2, <1>5
    <3>2. \A i \in 1..Len(c) : i + 0 = i OBVIOUS
    <3> QED BY <3>1, <3>2, <1>3, <1>6
  <2> QED BY <2>1, <2>2
<1> HIDE DEF rest
<1> DEFINE t == IF push /\ Len(c) # Depth THEN Append(rest, wdata) ELSE rest
<1>9. /\ t \in Seq(Byte)
      /\ Len(t) = e.n
      /\ \A i \in 1..e.n : t[i] = IF i + k = f.n + 1 THEN wdata ELSE c[i + k]
  <2>1. k \in {0, 1} /\ k <= f.n BY <1>6
  <2>2. CASE push /\ Len(c) # Depth
    <3>1. t = Append(rest, wdata) /\ wdata \in Byte BY <2>2
    <3>2. /\ t \in Seq(Byte) /\ Len(t) = Len(rest) + 1
          /\ \A i \in 1..Len(rest) : t[i] = rest[i]
          /\ t[Len(rest) + 1] = wdata
      BY <3>1, <1>8, AppendProperties
    <3>3. Len(t) = e.n
      <4>1. f.n # Depth BY <2>2, <1>3
      <4>2. e.n = IF pop /\ f.n # 0 THEN f.n ELSE f.n + 1 BY <2>2, <4>1, <1>2
      <4>3. f.n - k + 1 = IF pop /\ f.n # 0 THEN f.n ELSE f.n + 1 BY <1>6
      <4> HIDE DEF t, k
      <4> QED BY <3>2, <4>2, <4>3, <1>8
    <3>4. ASSUME NEW i \in 1..e.n
          PROVE  t[i] = IF i + k = f.n + 1 THEN wdata ELSE c[i + k]
      <4>1. CASE i = Len(rest) + 1
        <5>1. i + k = f.n + 1
          <6> HIDE DEF t, k
          <6> QED BY <4>1, <1>6, <1>8, <2>1
        <5> QED BY <4>1, <5>1, <3>2
      <4>2. CASE i # Len(rest) + 1
        <5>1. i \in 1..Len(rest) /\ i + k # f.n + 1
          <6> HIDE DEF t, k
          <6> QED BY <4>2, <3>2, <3>3, <1>6, <1>8, <2>1
        <5> QED BY <5>1, <3>2, <1>8
      <4> QED BY <4>1, <4>2
    <3> QED BY <3>2, <3>3, <3>4
  <2>3. CASE ~(push /\ Len(c) # Depth)
    <3>1. t = rest BY <2>3
    <3>2. Len(t) = e.n BY <3>1, <2>3, <1>3, <1>6, <1>2, <1>8
    <3>3. ASSUME NEW i \in 1..e.n
          PROVE  t[i] = IF i + k = f.n + 1 THEN wdata ELSE c[i + k]
      <4>1. i \in 1..Len(rest) /\ i + k # f.n + 1
        <5>1. Len(rest) = e.n BY <3>1, <3>2
        <5> HIDE DEF t, k
        <5> QED BY <5>1, <1>6, <1>8, <2>1
      <4> QED BY <3>1, <4>1, <1>8
    <3> QED BY <3>1, <3>2, <3>3, <1>8
  <2> QED BY <2>2, <2>3
<1>10. \A i \in 1..e.n : Contents(e)[i] = t[i]
  <2> SUFFICES ASSUME NEW i \in 1..e.n PROVE Contents(e)[i] = t[i] OBVIOUS
  <2>1. Contents(e)[i] = IF i + k = f.n + 1 THEN wdata ELSE f.ram[Place(f.head, i + k - 1)]
    <3>1. (IF pop /\ f.n # 0 THEN i + 1 ELSE i) = i + k OBVIOUS
    <3>2. e.ram[Place(e.head, i - 1)]
             = IF i + k = f.n + 1 THEN wdata ELSE f.ram[Place(f.head, i + k - 1)]
      BY <3>1, <1>2
    <3> QED BY <3>2, <1>4
  <2>2. i + k # f.n + 1 => i + k \in 1..f.n
    BY <1>6, <1>2
  <2>3. i + k # f.n + 1 => c[i + k] = f.ram[Place(f.head, i + k - 1)] BY <2>2, <1>3
  <2> HIDE DEF t, k
  <2> QED BY <2>1, <2>3, <1>9
<1>11. Contents(e) = t
  <2> HIDE DEF t
  <2> QED BY <1>4, <1>9, <1>10, SeqEqual
<1> QED BY <1>2, <1>7, <1>11 DEF Queued, rest
--------------------------------------------------------------------------------
\* A byte on its way from the RAM to the line is in one place, and is a byte; an answer is
\* there only when it is given; the byte of a read of DATA is there while it waits.
UInv ==
    /\ TypeOK
    /\ tx_popped => tx.rdata \in Byte /\ ~tx_hold_full
    /\ tx_hold_full => tx_hold \in Byte
    /\ r.step # "answer" => rdata_r = NoData
    /\ r.step = "wait" /\ r.addr = "DATA" /\ ~r.was_empty => rx.rdata \in Byte
    /\ r.step = "wait" => r.addr \in Reads
    /\ ar \in Reads \cup {"none"} /\ aw \in Writes \cup {NoWrite}

\* The write of this clock.
Written == IF write_now THEN aw ELSE NoWrite

LEMMA RequestFacts ==
    ASSUME NEW w \in WriteReq, w # NoWrite
    PROVE  /\ w.op = "write"
           /\ w.reg = "DATA" => w.v \in Byte
           /\ w.reg = "IRQ_ENABLE" => w.v \subseteq {"RX", "TX"}
           /\ w.reg = "IRQ_LEVELS" => w.v \in 0..Depth
BY DEF WriteReq

\* The port's view of a write, and of no write.
LEMMA WrittenFacts ==
    ASSUME UInv
    PROVE  /\ \A q : Port!DoesWrite(Written, q) <=> write_now /\ aw.reg = q
           /\ write_now => Written.v = aw.v /\ Written \in Writes
           /\ ~write_now => Written = Port!None
           /\ \A q : ~Port!DoesRead(Written, q) \/ Written = Port!Read(q)
<1>1. aw \in WriteReq /\ aw \in Writes \cup {NoWrite} BY DEF UInv, TypeOK
<1>2. CASE write_now
  <2>1. Written = aw /\ aw # NoWrite BY <1>2 DEF Written, write_now
  <2>2. aw.op = "write" BY <1>1, <2>1, RequestFacts
  <2> QED BY <1>1, <1>2, <2>1, <2>2 DEF Port!DoesWrite, Port!DoesRead
<1>3. CASE ~write_now
  <2>1. Written = Port!None /\ Written.op = "none" BY <1>3 DEF Written, NoWrite, Port!None
  <2> QED BY <1>3, <2>1 DEF Port!DoesWrite, Port!DoesRead
<1> QED BY <1>2, <1>3

\* The port's view of what a FIFO and the registers behind it hold.
LEMMA HeldFacts ==
    ASSUME UInv
    PROVE  /\ Held \in Seq(Byte)
           /\ tx_popped => Held = <<tx.rdata>>
           /\ tx_hold_full => Held = <<tx_hold>>
           /\ ~tx_popped /\ ~tx_hold_full => Held = << >>
           /\ Held = << >> => ~tx_popped /\ ~tx_hold_full
           /\ tx_hold_full => Head(Held) = tx_hold
<1>1. CASE tx_popped BY <1>1 DEF UInv, Held
<1>2. CASE ~tx_popped /\ tx_hold_full BY <1>2 DEF UInv, Held
<1>3. CASE ~tx_popped /\ ~tx_hold_full BY <1>3 DEF Held
<1> QED BY <1>1, <1>2, <1>3 DEF UInv

\* The transmitter of a clock: the types, and the port's Transmit.
LEMMA TransmitStep ==
    ASSUME UInv, FifoAssumption, NEW ends \in BOOLEAN, tx_engine(ends)
    PROVE  /\ Consistent(tx')
           /\ tx_popped' \in BOOLEAN /\ tx_hold_full' \in BOOLEAN /\ tx_busy' \in BOOLEAN
           /\ tx_hold' \in Byte \cup {Junk} /\ out' \in Byte
           /\ tx_popped' => tx'.rdata \in Byte /\ ~tx_hold_full'
           /\ tx_hold_full' => tx_hold' \in Byte
           /\ Port!Transmit(Written, tx_take(ends))
<1> DEFINE takes == tx_take(ends)
           refill == tx_pop(ends)
           c == Contents(tx)
           rest == IF refill THEN Tail(c) ELSE c
<1>1. /\ Consistent(tx) /\ out \in Byte
      /\ tx_popped \in BOOLEAN /\ tx_hold_full \in BOOLEAN /\ tx_busy \in BOOLEAN
      /\ tx_hold \in Byte \cup {Junk}
      /\ aw \in WriteReq
  BY DEF UInv, TypeOK
<1>2. /\ tx' = Edge(tx, tx_push, tx_wdata, refill)
      /\ tx_popped' = refill
      /\ tx_hold_full' = (tx_popped \/ (tx_hold_full /\ ~takes))
      /\ tx_hold' = IF tx_popped THEN tx.rdata ELSE IF takes THEN Junk ELSE tx_hold
      /\ out' = IF takes THEN tx_hold ELSE out
      /\ tx_busy' = (takes \/ (tx_busy /\ ~ends))
  BY DEF tx_engine
<1>3. takes \in BOOLEAN /\ refill \in BOOLEAN /\ (takes => tx_hold_full)
  BY <1>1 DEF tx_take, tx_pop
<1>4. tx_push \in BOOLEAN /\ (tx_push => tx_wdata \in Byte /\ tx_wdata = aw.v)
  BY <1>1, RequestFacts DEF tx_push, tx_wdata, write_now
<1>5. c # << >> <=> tx.n # 0 BY <1>1, NonEmpty
<1>6. refill <=> c # << >> /\ (Held = << >> \/ takes)
  BY <1>3, <1>5, HeldFacts DEF tx_pop, UInv
<1>7. Queued(tx, tx_push, tx_wdata, refill, tx')
  <2>1. tx_push => tx_wdata \in Byte BY <1>4
  <2> HIDE DEF refill
  <2> QED BY <1>1, <1>2, <1>3, <1>4, <2>1, EdgeContents
<1>8. /\ Consistent(tx')
      /\ c' = IF tx_push /\ Len(c) # Depth THEN Append(rest, tx_wdata) ELSE rest
      /\ tx'.rdata = IF refill THEN Head(c) ELSE Junk
  BY <1>6, <1>7 DEF Queued
<1>9. refill => Head(c) \in Byte /\ ~tx_hold_full'
  <2>1. c \in Seq(Byte) BY <1>1, ContentsFacts
  <2>2. refill => Head(c) \in Byte BY <2>1, <1>6
  <2>3. refill => ~tx_popped /\ (tx_hold_full => takes) BY DEF tx_pop
  <2> QED BY <1>2, <2>2, <2>3
<1>10. out' \in Byte /\ tx_hold' \in Byte \cup {Junk} /\ (tx_hold_full' => tx_hold' \in Byte)
  BY <1>1, <1>2, <1>3 DEF UInv
<1>11. tx_popped' \in BOOLEAN /\ tx_hold_full' \in BOOLEAN /\ tx_busy' \in BOOLEAN
  BY <1>1, <1>2, <1>3
<1>12. tx_popped' => tx'.rdata \in Byte /\ ~tx_hold_full' BY <1>2, <1>8, <1>9
<1>13. Port!Transmit(Written, takes)
  <2>1. takes => Held # << >> /\ Head(Held) = tx_hold BY <1>3, HeldFacts
  <2>2. Held' = IF refill THEN <<Head(c)>> ELSE IF takes THEN << >> ELSE Held
    <3>1. CASE refill BY <3>1, <1>2, <1>8 DEF Held
    <3>2. CASE ~refill /\ takes
      <4>1. ~tx_popped' /\ ~tx_hold_full' BY <3>2, <1>2, <1>3 DEF UInv
      <4> QED BY <3>2, <4>1 DEF Held
    <3>3. CASE ~refill /\ ~takes
      <4>1. CASE tx_popped BY <3>3, <4>1, <1>2 DEF Held, UInv
      <4>2. CASE ~tx_popped BY <3>3, <4>2, <1>2 DEF Held
      <4> QED BY <4>1, <4>2
    <3> QED BY <3>1, <3>2, <3>3
  <2>3. tx_push <=> Port!DoesWrite(Written, "DATA") BY WrittenFacts DEF tx_push
  <2>4. tx_push => tx_wdata = Written.v BY <1>4, WrittenFacts DEF tx_push
  <2>5. c' = IF Port!DoesWrite(Written, "DATA") /\ Len(c) # Depth
             THEN Append(rest, Written.v) ELSE rest
    BY <1>8, <2>3, <2>4
  <2>6. out' = IF takes THEN Head(Held) ELSE out BY <1>2, <2>1
  <2> HIDE DEF takes
  <2> QED BY <1>6, <2>1, <2>2, <2>5, <2>6 DEF Port!Transmit
<1> QED BY <1>8, <1>10, <1>11, <1>12, <1>13

\* The receiver of a clock: the types, and the port's Receive for whatever is read.
LEMMA ReceiveStep ==
    ASSUME UInv, FifoAssumption, UartAssumption, NEW line \in Lines,
           uart_rx(line), timeout_timer(line),
           rx' = Edge(rx, line \in Byte, IF line \in Byte THEN line ELSE Junk, rx_pop)
    PROVE  /\ Consistent(rx')
           /\ receiving' \in BOOLEAN /\ quiet' \in BOOLEAN /\ rx_data' \in Byte
           /\ rx_pop /\ rx.n # 0 => rx'.rdata \in Byte
           /\ rx_pop /\ rx.n # 0 => rx'.rdata = Head(Contents(rx))
           /\ \A op : (Port!DoesRead(op, "DATA") <=> rx_pop) => Port!Receive(op, line)
<1> DEFINE c == Contents(rx)
           rest == IF rx_pop /\ c # << >> THEN Tail(c) ELSE c
           arrives == line \in Byte
           arrived == IF line \in Byte THEN line ELSE Junk
<1>1. Consistent(rx) /\ rx_data \in Byte /\ quiet \in BOOLEAN BY DEF UInv, TypeOK
<1>2. arrives \in BOOLEAN /\ rx_pop \in BOOLEAN BY DEF rx_pop, read_now
<1>3. Queued(rx, arrives, arrived, rx_pop, rx')
  <2>1. arrives => arrived \in Byte OBVIOUS
  <2>2. rx' = Edge(rx, arrives, arrived, rx_pop) OBVIOUS
  <2> HIDE DEF arrives, arrived
  <2> QED BY <1>1, <1>2, <2>1, <2>2, EdgeContents
<1>4. /\ Consistent(rx')
      /\ c' = IF line \in Byte /\ Len(c) # Depth THEN Append(rest, line) ELSE rest
      /\ rx'.rdata = IF rx_pop /\ c # << >> THEN Head(c) ELSE Junk
  BY <1>3 DEF Queued
<1>5. c # << >> <=> rx.n # 0 BY <1>1, NonEmpty
<1>6. c \in Seq(Byte) BY <1>1, ContentsFacts
<1>7. rx_pop /\ rx.n # 0 => rx'.rdata \in Byte /\ rx'.rdata = Head(c)
  <2>1. rx.n # 0 => Head(c) \in Byte BY <1>5, <1>6, HeadTailProperties
  <2>2. rx_pop /\ rx.n # 0 => rx'.rdata = Head(c) BY <1>4, <1>5
  <2> QED BY <2>1, <2>2
<1>8. /\ line \in {"idle", "quiet"} => ~receiving
      /\ line \in Byte \cup Disturbances => receiving
      /\ line \in Byte => <<rx_data, line>> \in Follows
      /\ receiving' = (line = "receiving")
      /\ rx_data' = IF line \in Byte THEN line ELSE rx_data
      /\ quiet' = (line = "quiet" \/ (line = "idle" /\ quiet))
  BY DEF uart_rx, timeout_timer
<1>9. receiving' \in BOOLEAN /\ quiet' \in BOOLEAN /\ rx_data' \in Byte BY <1>1, <1>8
<1>10. ASSUME NEW op, Port!DoesRead(op, "DATA") <=> rx_pop
       PROVE  Port!Receive(op, line)
  <2>1. rest = IF Port!DoesRead(op, "DATA") /\ c # << >> THEN Tail(c) ELSE c BY <1>10
  <2> HIDE DEF rest
  <2> QED BY <1>4, <1>8, <2>1 DEF Port!Receive
<1> QED BY <1>4, <1>7, <1>9, <1>10

\* The registers of a clock.
LEMMA RegisterStep ==
    ASSUME UInv, UartAssumption, FifoAssumption, NEW line \in Lines, bus_writes,
           error_counters(line)
    PROVE  /\ level' \in 0..Depth /\ irq_enable' \subseteq {"RX", "TX"}
           /\ rx_overflow' \in 0..MaxCount /\ rx_framing' \in 0..MaxCount
           /\ aw' \in Writes \cup {NoWrite} /\ b_pending' \in BOOLEAN
           /\ Port!Registers(Written, line)
<1>1. /\ level \in 0..Depth /\ irq_enable \subseteq {"RX", "TX"}
      /\ rx_overflow \in 0..MaxCount /\ rx_framing \in 0..MaxCount
      /\ aw \in WriteReq /\ aw \in Writes \cup {NoWrite} /\ Consistent(rx)
      /\ MaxCount \in Nat \ {0}
  BY DEF UInv, TypeOK, UartAssumption
<1>2. \A q : Port!DoesWrite(Written, q) <=> write_now /\ aw.reg = q BY WrittenFacts
<1>3. write_now => Written.v = aw.v BY WrittenFacts
<1>4. write_now => /\ aw.reg = "IRQ_ENABLE" => aw.v \subseteq {"RX", "TX"}
                   /\ aw.reg = "IRQ_LEVELS" => aw.v \in 0..Depth
  BY <1>1, RequestFacts DEF write_now
<1>5. Len(Contents(rx)) = rx.n BY <1>1, ContentsFacts
<1>6. /\ level' = IF Port!DoesWrite(Written, "IRQ_LEVELS") THEN Written.v ELSE level
      /\ irq_enable' = IF Port!DoesWrite(Written, "IRQ_ENABLE") THEN Written.v ELSE irq_enable
  BY <1>2, <1>3 DEF bus_writes
<1>7. level' \in 0..Depth /\ irq_enable' \subseteq {"RX", "TX"} BY <1>1, <1>4 DEF bus_writes
<1>8. /\ rx_overflow' = IF Port!DoesWrite(Written, "ERRORS") THEN 0
                        ELSE IF line \in Byte /\ Len(Contents(rx)) = Depth
                             THEN Port!saturating_increment(rx_overflow) ELSE rx_overflow
      /\ rx_framing' = IF Port!DoesWrite(Written, "ERRORS") THEN 0
                       ELSE IF line = "framing"
                            THEN Port!saturating_increment(rx_framing) ELSE rx_framing
  BY <1>2, <1>5 DEF error_counters, saturating_increment, Port!saturating_increment
<1>9. /\ Port!saturating_increment(rx_overflow) \in 0..MaxCount
      /\ Port!saturating_increment(rx_framing) \in 0..MaxCount
  BY <1>1 DEF Port!saturating_increment
<1>10. rx_overflow' \in 0..MaxCount /\ rx_framing' \in 0..MaxCount BY <1>1, <1>8, <1>9
<1>11. aw' \in Writes \cup {NoWrite} /\ b_pending' \in BOOLEAN
  BY <1>1 DEF bus_writes, write_now
<1> QED BY <1>6, <1>7, <1>8, <1>10, <1>11 DEF Port!Registers

\* What a read of a register other than DATA finds is what the port says at that moment.
LEMMA ReadValueFacts ==
    ASSUME UInv, FifoAssumption, r \in ReadReq, r.addr # "DATA"
    PROVE  /\ ReadValue = Port!AnswerTo(r.addr)
           /\ ReadValue \in ReadData
           /\ ReadValue \notin [empty : BOOLEAN, byte : Byte \cup {Junk}]
<1>1. /\ Consistent(rx) /\ Consistent(tx) /\ level \in 0..Depth
      /\ rx_overflow \in 0..MaxCount /\ rx_framing \in 0..MaxCount
  BY DEF UInv, TypeOK
<1>2. Len(Contents(rx)) = rx.n /\ Len(Contents(tx)) = tx.n BY <1>1, ContentsFacts
<1>3. rx.n \in 0..Depth /\ tx.n \in 0..Depth BY <1>1, FifoType
<1>4. (Contents(rx) # << >> <=> rx.n # 0) /\ (Contents(tx) # << >> <=> tx.n # 0)
  BY <1>1, NonEmpty
<1>5. tx_free = Port!tx_free /\ tx_free \in 0..Depth
  BY <1>2, <1>3 DEF tx_free, Port!tx_free, FifoAssumption
<1>6. irq_status = Port!Status
  <2>1. Held = << >> <=> ~tx_popped /\ ~tx_hold_full BY HeldFacts
  <2>2. irq_status = Port!irq_status
                     \cup (IF tx.n = 0 /\ ~tx_popped /\ ~tx_hold_full /\ ~tx_busy
                           THEN {"TX_DONE"} ELSE {})
    BY <1>2, <1>4, <1>5 DEF irq_status, Port!irq_status
  <2> QED BY <1>4, <2>1, <2>2 DEF Port!Status
<1>7. irq_status \subseteq Flags BY DEF irq_status, Flags
<1>8. CASE r.addr = "STATUS"
  <2>1. ReadValue = [rx_count |-> rx.n, tx_free |-> tx_free] BY <1>8 DEF ReadValue
  <2>2. Port!AnswerTo(r.addr) = [rx_count |-> Len(Contents(rx)), tx_free |-> Port!tx_free]
    BY <1>8 DEF Port!AnswerTo, Port!Value
  <2> QED BY <2>1, <2>2, <1>2, <1>3, <1>5 DEF ReadData
<1>9. CASE r.addr = "IRQ_STATUS"
  <2>1. ReadValue = [flags |-> irq_status] BY <1>9 DEF ReadValue
  <2>2. Port!AnswerTo(r.addr) = [flags |-> Port!Status] BY <1>9 DEF Port!AnswerTo
  <2> QED BY <2>1, <2>2, <1>6, <1>7 DEF ReadData
<1>10. CASE r.addr = "ERRORS"
  <2>1. ReadValue = [overflow |-> rx_overflow, framing |-> rx_framing] BY <1>10 DEF ReadValue
  <2>2. Port!AnswerTo(r.addr) = [overflow |-> rx_overflow, framing |-> rx_framing]
    BY <1>10 DEF Port!AnswerTo, Port!Value
  <2> QED BY <2>1, <2>2, <1>1 DEF ReadData
<1> QED BY <1>8, <1>9, <1>10 DEF ReadReq, Readable

LEMMA AnswerStep ==
    ASSUME UInv, FifoAssumption, MasterAssumption, bus_reads, Consistent(rx'),
           rx_pop /\ rx.n # 0 => rx'.rdata \in Byte /\ rx'.rdata = Head(Contents(rx))
    PROVE  /\ ar' \in Reads \cup {"none"}
           /\ r' \in {NoRead, Answer} \cup ReadReq /\ rdata_r' \in ReadData
           /\ r'.step # "answer" => rdata_r' = NoData
           /\ r'.step = "wait" /\ r'.addr = "DATA" /\ ~r'.was_empty => rx'.rdata \in Byte
           /\ r'.step = "wait" => r'.addr \in Reads
           /\ \/ ~rx_pop /\ Told' \in {Told, Port!NoAnswer}
              \/ \E reg \in Reads : /\ rx_pop <=> reg = "DATA"
                                    /\ Told' = Port!AnswerTo(reg)
<1> DEFINE Bytes == [empty : BOOLEAN, byte : Byte \cup {Junk}]
<1>1. /\ r \in {NoRead, Answer} \cup ReadReq /\ rdata_r \in ReadData /\ Consistent(rx)
      /\ ar \in Reads \cup {"none"}
      /\ r.step # "answer" => rdata_r = NoData
      /\ r.step = "wait" /\ r.addr = "DATA" /\ ~r.was_empty => rx.rdata \in Byte
      /\ r.step = "wait" => r.addr \in Reads
  BY DEF UInv, TypeOK
<1>2. /\ ar' = IF read_now THEN "none" ELSE ar
      /\ r' = IF read_now THEN [step |-> "wait", addr |-> ar, was_empty |-> rx.n = 0]
              ELSE IF r.step = "wait" THEN Answer ELSE NoRead
      /\ rdata_r' = IF r.step = "wait" THEN ReadValue ELSE NoData
  BY DEF bus_reads
<1>3. ar' \in Reads \cup {"none"} BY <1>1, <1>2
<1>4. NoData \in ReadData /\ NoData \in Bytes /\ NoData.empty BY DEF NoData, ReadData
<1>5. NoRead.step = "none" /\ Answer.step = "answer" BY DEF NoRead, Answer
<1>6. CASE read_now
  <2>1. r = NoRead /\ ar \in Reads /\ ar \in Readable
    BY <1>1, <1>6 DEF read_now, MasterAssumption
  <2>2. r' = [step |-> "wait", addr |-> ar, was_empty |-> rx.n = 0] /\ rdata_r' = NoData
    BY <1>2, <1>5, <1>6, <2>1
  <2>3. r' \in ReadReq BY <2>1, <2>2 DEF ReadReq
  <2>4. r'.step = "wait" /\ r'.addr = ar /\ r'.was_empty = (rx.n = 0) BY <2>2
  <2>5. rx_pop <=> ar = "DATA" BY <1>6 DEF rx_pop
  <2>6. CASE ar = "DATA"
    <3>1. Told' = [bytes |-> IF rx.n = 0 THEN << >> ELSE <<rx'.rdata>>]
      BY <2>4, <2>6 DEF Told, Taken, r_was_empty
    <3>2. Port!AnswerTo("DATA") = [bytes |-> IF Contents(rx) = << >> THEN << >>
                                            ELSE <<Head(Contents(rx))>>]
      BY DEF Port!AnswerTo, Port!Value, Port!Popped
    <3>3. Contents(rx) # << >> <=> rx.n # 0 BY <1>1, NonEmpty
    <3>4. Told' = Port!AnswerTo("DATA") BY <3>1, <3>2, <3>3, <2>5, <2>6
    <3> QED BY <1>3, <1>4, <2>1, <2>2, <2>3, <2>4, <2>5, <2>6, <3>4
  <2>7. CASE ar # "DATA"
    <3>1. Told' = Port!NoAnswer BY <1>4, <2>2, <2>4, <2>7 DEF Told, Port!NoAnswer
    <3>2. r'.addr # "DATA" /\ r'.addr \in Reads BY <2>1, <2>4, <2>7
    <3>3. ~rx_pop BY <2>5, <2>7
    <3> QED BY <1>3, <1>4, <2>2, <2>3, <2>4, <3>1, <3>2, <3>3
  <2> QED BY <2>6, <2>7
<1>7. CASE ~read_now /\ r.step = "wait"
  <2>1. r \in ReadReq BY <1>1, <1>5, <1>7
  <2>2. r' = Answer /\ rdata_r' = ReadValue BY <1>2, <1>7
  <2>3. ~rx_pop BY <1>7 DEF rx_pop
  <2>4. r'.step = "answer" BY <1>5, <2>2
  <2>5. CASE r.addr = "DATA"
    <3> DEFINE b == IF r.was_empty THEN Junk ELSE rx.rdata
    <3>1. ReadValue = [empty |-> r.was_empty, byte |-> b]
      BY <2>5 DEF ReadValue, r_was_empty
    <3>2. r.was_empty \in BOOLEAN BY <2>1 DEF ReadReq
    <3>3. ReadValue \in ReadData /\ ReadValue \in Bytes
      BY <3>1, <3>2, <1>1, <1>7, <2>5 DEF ReadData
    <3>4. Told' = [bytes |-> IF r.was_empty THEN << >> ELSE <<rx.rdata>>]
      BY <3>1, <3>2, <3>3, <2>2, <2>4 DEF Told
    <3>5. Told' = Told BY <3>4, <1>7, <2>5 DEF Told, Taken, r_was_empty
    <3> QED BY <1>3, <2>2, <2>3, <2>4, <3>3, <3>5
  <2>6. CASE r.addr # "DATA"
    <3>1. /\ ReadValue = Port!AnswerTo(r.addr) /\ ReadValue \in ReadData
          /\ ReadValue \notin Bytes
      BY <2>1, <2>6, ReadValueFacts
    <3>2. Told' = Port!AnswerTo(r.addr) BY <3>1, <2>2, <2>4 DEF Told
    <3> QED BY <1>1, <1>3, <1>7, <2>2, <2>3, <2>4, <2>6, <3>1, <3>2
  <2> QED BY <2>5, <2>6
<1>8. CASE ~read_now /\ r.step # "wait"
  <2>1. r' = NoRead /\ rdata_r' = NoData BY <1>2, <1>8
  <2>2. r'.step = "none" BY <2>1, <1>5
  <2>3. Told' = Port!NoAnswer BY <1>4, <2>1, <2>2 DEF Told, Port!NoAnswer
  <2>4. ~rx_pop BY <1>8 DEF rx_pop
  <2> QED BY <1>3, <1>4, <2>1, <2>2, <2>3, <2>4
<1> QED BY <1>6, <1>7, <1>8
--------------------------------------------------------------------------------
LEMMA ClockStep ==
    ASSUME UInv, FifoAssumption, UartAssumption, MasterAssumption, Clock
    PROVE  UInv' /\ Port!Next
<1>1. PICK line \in Lines, ends \in IF tx_busy THEN BOOLEAN ELSE {FALSE} :
         rising_edge(line, ends)
  BY DEF Clock
<1>2. /\ uart_rx(line) /\ tx_engine(ends) /\ bus_writes /\ bus_reads
      /\ error_counters(line) /\ timeout_timer(line)
      /\ rx' = Edge(rx, line \in Byte, IF line \in Byte THEN line ELSE Junk, rx_pop)
  BY <1>1 DEF rising_edge
<1>3. ends \in BOOLEAN BY <1>1
<1>4. /\ Consistent(tx')
      /\ tx_popped' \in BOOLEAN /\ tx_hold_full' \in BOOLEAN /\ tx_busy' \in BOOLEAN
      /\ tx_hold' \in Byte \cup {Junk} /\ out' \in Byte
      /\ tx_popped' => tx'.rdata \in Byte /\ ~tx_hold_full'
      /\ tx_hold_full' => tx_hold' \in Byte
      /\ Port!Transmit(Written, tx_take(ends))
  BY <1>2, <1>3, TransmitStep
<1>5. /\ Consistent(rx')
      /\ receiving' \in BOOLEAN /\ quiet' \in BOOLEAN /\ rx_data' \in Byte
      /\ rx_pop /\ rx.n # 0 => rx'.rdata \in Byte
      /\ rx_pop /\ rx.n # 0 => rx'.rdata = Head(Contents(rx))
      /\ \A op : (Port!DoesRead(op, "DATA") <=> rx_pop) => Port!Receive(op, line)
  BY <1>2, ReceiveStep
<1>6. /\ level' \in 0..Depth /\ irq_enable' \subseteq {"RX", "TX"}
      /\ rx_overflow' \in 0..MaxCount /\ rx_framing' \in 0..MaxCount
      /\ aw' \in Writes \cup {NoWrite} /\ b_pending' \in BOOLEAN
      /\ Port!Registers(Written, line)
  BY <1>2, RegisterStep
<1>7. /\ ar' \in Reads \cup {"none"}
      /\ r' \in {NoRead, Answer} \cup ReadReq /\ rdata_r' \in ReadData
      /\ r'.step # "answer" => rdata_r' = NoData
      /\ r'.step = "wait" /\ r'.addr = "DATA" /\ ~r'.was_empty => rx'.rdata \in Byte
      /\ r'.step = "wait" => r'.addr \in Reads
      /\ \/ ~rx_pop /\ Told' \in {Told, Port!NoAnswer}
         \/ \E reg \in Reads : (rx_pop <=> reg = "DATA") /\ Told' = Port!AnswerTo(reg)
  <2>1. rx_pop /\ rx.n # 0 => rx'.rdata \in Byte /\ rx'.rdata = Head(Contents(rx)) BY <1>5
  <2> QED BY <1>2, <1>5, <2>1, AnswerStep
<1>8. aw' \in WriteReq /\ ar' \in Readable \cup {"none"}
  BY <1>6, <1>7 DEF MasterAssumption, WriteReq
<1>9. UInv' BY <1>4, <1>5, <1>6, <1>7, <1>8 DEF UInv, TypeOK
<1>10. Written \in {Port!None} \cup Writes BY WrittenFacts
<1>11. /\ tx_take(ends) \in BOOLEAN
       /\ tx_take(ends) => ~tx_busy \/ ends
       /\ tx_busy' = (tx_take(ends) \/ (tx_busy /\ ~ends))
  <2>1. tx_hold_full \in BOOLEAN /\ tx_busy \in BOOLEAN BY DEF UInv, TypeOK
  <2> QED BY <1>2, <2>1 DEF tx_take, tx_engine
<1>12. line \in Port!Lines BY DEF Lines, Port!Lines
<1>13. \/ Port!Receive(Port!None, line) /\ Told' \in {Told, Port!NoAnswer}
       \/ \E reg \in Reads : Port!Receive(Port!Read(reg), line) /\ Told' = Port!AnswerTo(reg)
  <2>1. ~Port!DoesRead(Port!None, "DATA")
    <3>1. Port!None.op # Port!Read("DATA").op BY DEF Port!None, Port!Read
    <3> QED BY <3>1 DEF Port!DoesRead
  <2>2. \A reg : Port!DoesRead(Port!Read(reg), "DATA") <=> reg = "DATA"
    <3> TAKE reg
    <3>1. Port!Read(reg).reg = reg /\ Port!Read("DATA").reg = "DATA" BY DEF Port!Read
    <3> QED BY <3>1 DEF Port!DoesRead
  <2>3. CASE ~rx_pop /\ Told' \in {Told, Port!NoAnswer} BY <2>1, <2>3, <1>5
  <2>4. CASE \E reg \in Reads : (rx_pop <=> reg = "DATA") /\ Told' = Port!AnswerTo(reg)
    <3>1. PICK reg \in Reads : (rx_pop <=> reg = "DATA") /\ Told' = Port!AnswerTo(reg)
      BY <2>4
    <3>2. Port!Receive(Port!Read(reg), line) BY <3>1, <2>2, <1>5
    <3> QED BY <3>1, <3>2
  <2> QED BY <1>7, <2>3, <2>4
<1>14. Port!Next
  <2>1. PICK takes \in BOOLEAN : takes = tx_take(ends) BY <1>11
  <2> QED BY <1>3, <1>4, <1>6, <1>10, <1>11, <1>12, <1>13, <2>1 DEF Port!Next
<1> QED BY <1>9, <1>14

\* A request of the master changes nothing the port shows.
LEMMA AskStep ==
    ASSUME UInv, MasterAssumption,
           (\E reg \in Reads : AskRead(reg)) \/ (\E w \in Writes : AskWrite(w))
    PROVE  /\ UInv'
           /\ UNCHANGED <<rx, tx, serial, regs, r, rdata_r>>
<1>1. CASE \E reg \in Reads : AskRead(reg)
  <2>1. PICK reg \in Reads : AskRead(reg) BY <1>1
  <2>2. ar' = reg /\ UNCHANGED <<rx, tx, serial, regs, aw, b_pending, r, rdata_r>>
    BY <2>1 DEF AskRead
  <2>3. reg \in Readable BY DEF MasterAssumption
  <2> QED BY <2>2, <2>3 DEF UInv, TypeOK, serial, regs
<1>2. CASE \E w \in Writes : AskWrite(w)
  <2>1. PICK w \in Writes : AskWrite(w) BY <1>2
  <2>2. aw' = w /\ UNCHANGED <<rx, tx, serial, regs, ar, b_pending, r, rdata_r>>
    BY <2>1 DEF AskWrite
  <2>3. w \in WriteReq BY DEF MasterAssumption
  <2> QED BY <2>2, <2>3 DEF UInv, TypeOK, serial, regs
<1> QED BY <1>1, <1>2

\* What the port shows depends on these variables only.
LEMMA Shown ==
    ASSUME UNCHANGED <<rx, tx, serial, regs, r, rdata_r>>
    PROVE  UNCHANGED <<Port!portVars, tx_busy, Told>>
<1>1. UNCHANGED <<rx, tx, tx_popped, tx_hold, tx_hold_full, out, tx_busy, receiving, rx_data,
                  quiet, level, irq_enable, rx_overflow, rx_framing, r, rdata_r>>
  BY DEF serial, regs
<1>2. UNCHANGED <<Contents(rx), Contents(tx), Held, Told>>
  BY <1>1 DEF Contents, Held, Told, Taken, r_was_empty
<1> QED BY <1>1, <1>2 DEF Port!portVars, Port!transmitter, Port!receiver, Port!regs

LEMMA ClearedFacts ==
    ASSUME FifoAssumption, NEW f, f = Cleared
    PROVE  Consistent(f) /\ f.n = 0 /\ Contents(f) = << >>
<1>1. Depth \in Nat \ {0} BY DEF FifoAssumption
<1>2. /\ f.ram = [a \in Cell |-> Junk] /\ f.head = 0 /\ f.tail = 0 /\ f.n = 0
      /\ f.rdata = Junk
  BY DEF Cleared
<1>3. 0 \in Cell /\ Place(0, 0) = 0 BY <1>1 DEF Cell, Place
<1>4. f \in Fifo BY <1>1, <1>3 DEF Fifo, Cleared
<1>5. Consistent(f) BY <1>2, <1>3, <1>4 DEF Consistent
<1>6. Contents(f) = << >> BY <1>2, <1>5, NonEmpty
<1> QED BY <1>2, <1>5, <1>6

LEMMA InitStep ==
    ASSUME FifoAssumption, UartAssumption, MasterAssumption, Init
    PROVE  UInv /\ Port!Init
<1>1. /\ rx = Cleared /\ tx = Cleared
      /\ tx_popped = FALSE /\ tx_hold = Junk /\ tx_hold_full = FALSE
      /\ out \in Byte /\ rx_data = out /\ tx_busy = FALSE
      /\ receiving = FALSE /\ quiet = FALSE /\ level = 1 /\ irq_enable = {}
      /\ rx_overflow = 0 /\ rx_framing = 0
      /\ aw = NoWrite /\ b_pending = FALSE
      /\ ar = "none" /\ r = NoRead /\ rdata_r = NoData
  BY DEF Init
<1>2. /\ Consistent(rx) /\ Consistent(tx) /\ Contents(rx) = << >> /\ Contents(tx) = << >>
  BY <1>1, ClearedFacts
<1>3. /\ level \in 0..Depth /\ rx_overflow \in 0..MaxCount /\ rx_framing \in 0..MaxCount
  BY <1>1 DEF FifoAssumption, UartAssumption
<1>4. NoData \in ReadData /\ NoData \in [empty : BOOLEAN, byte : Byte \cup {Junk}]
      /\ NoData.empty /\ r.step = "none" /\ NoWrite \in WriteReq
  BY <1>1 DEF NoData, ReadData, NoRead, WriteReq
<1>5. TypeOK BY <1>1, <1>2, <1>3, <1>4 DEF TypeOK
<1>6. UInv BY <1>1, <1>4, <1>5 DEF UInv
<1>7. Held = << >> /\ Told = Port!NoAnswer
  BY <1>1, <1>4 DEF Held, Told, Port!NoAnswer
<1>8. Port!Init BY <1>1, <1>2, <1>7 DEF Port!Init, Port!PortInit
<1> QED BY <1>6, <1>8

LEMMA Step ==
    ASSUME UInv, FifoAssumption, UartAssumption, MasterAssumption, [Next]_vars
    PROVE  UInv' /\ [Port!Next]_<<Port!portVars, tx_busy, Told>>
<1>1. CASE Clock BY <1>1, ClockStep
<1>2. CASE (\E reg \in Reads : AskRead(reg)) \/ (\E w \in Writes : AskWrite(w))
  BY <1>2, AskStep, Shown
<1>3. CASE UNCHANGED vars
  <2>1. UNCHANGED <<rx, tx, serial, regs, r, rdata_r>> BY <1>3 DEF vars, bus
  <2>2. UInv' BY <1>3 DEF UInv, TypeOK, vars, serial, regs, bus
  <2> QED BY <2>1, <2>2, Shown
<1> QED BY <1>1, <1>2, <1>3 DEF Next

LEMMA Invariant == Spec => []UInv
<1>1. Init => UInv BY InitStep, FifoAssumption, UartAssumption, MasterAssumption
<1>2. UInv /\ [Next]_vars => UInv'
  BY Step, FifoAssumption, UartAssumption, MasterAssumption
<1> QED BY <1>1, <1>2, PTL DEF Spec

\* Every register of uart_axi4lite.vhd keeps its type, and the pointers, the count and the
\* cells of each sync_fifo.vhd agree, for FIFOs of every depth.
THEOREM UartTypeCorrect == Spec => []TypeOK
<1>1. UInv => TypeOK BY DEF UInv
<1> QED BY <1>1, Invariant, PTL

\* The clocked serial port implements the one with atomic accesses, for FIFOs of every depth,
\* every number of byte values and every set of requests: no byte is lost, doubled, reordered
\* or answered with another one's count.
THEOREM UartImplementsPort == Spec => PortSpec
<1>1. Init => Port!Init BY InitStep, FifoAssumption, UartAssumption, MasterAssumption
<1>2. UInv /\ [Next]_vars => [Port!Next]_<<Port!portVars, tx_busy, Told>>
  BY Step, FifoAssumption, UartAssumption, MasterAssumption
<1> QED BY <1>1, <1>2, Invariant, PTL DEF Spec, PortSpec, Port!Spec
================================================================================
