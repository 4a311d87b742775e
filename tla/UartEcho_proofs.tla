----------------------------- MODULE UartEcho_proofs -----------------------------
(***************************************************************************)
(* Proofs about UartEcho, for FIFOs, a ring and a buffer of every size:    *)
(* the TX FIFO drops nothing, no byte is left in the ring without an       *)
(* interrupt to send it, no overrun is cleared unseen, and the whole       *)
(* implements the queue of EchoLine.                                       *)
(***************************************************************************)
EXTENDS UartEcho, SequenceTheorems, TLAPS

Moves == {"send_claimed", "send_some", "fifo_read", "echo"}

\* How far the handler is with the bytes it moves.
MoveInv ==
    /\ isr \in {"send_claimed", "send_some"} => i < n /\ n <= Len(pending)
    /\ isr = "fifo_read" => i < n /\ Len(buf) <= i
    /\ isr = "echo" => i < n /\ n <= Len(buf)
    /\ isr \notin Moves => i = 0
    /\ isr \notin {"fifo_read", "echo_fill", "echo"} => buf = << >>
    /\ isr = "rx_count" => Len(rxq) > 0

\* The driver's copy of the mask is the register's, and the TX interrupt is on while bytes
\* wait in the ring.
WakeInv ==
    /\ irq_enable = enabled
    /\ pending # << >> /\ isr # "tx_enable" => "TX" \in enabled
    /\ isr = "tx_disable" => pending = << >>

\* Nothing is lost or waits before the interrupts are on; an error code is held only until
\* the clear.
LossInv ==
    /\ main \in Starting => ~lost /\ isr = "out" /\ enabled = {} /\ pending = << >>
    /\ main # "clear" => err = {}
    /\ main = "clear" => err # {}

IInv == TypeOK /\ FillFits /\ MoveInv /\ WakeInv /\ LossInv /\ LossNoticed
--------------------------------------------------------------------------------
\* What the registers do with an access.
LEMMA OpFacts ==
    ASSUME NEW q
    PROVE  /\ ~DoesWrite(None, q) /\ ~DoesRead(None, q)
           /\ \A r : ~DoesWrite(Read(r), q) /\ (DoesRead(Read(r), q) <=> r = q)
           /\ \A r, v : /\ DoesWrite(Write(r, v), q) <=> r = q
                        /\ ~DoesRead(Write(r, v), q)
                        /\ Write(r, v).v = v
<1>1. ~DoesWrite(None, q) BY DEF DoesWrite, None
<1>2. ~DoesRead(None, q)
  <2>1. None.op # Read(q).op BY DEF None, Read
  <2> QED BY <2>1 DEF DoesRead
<1>3. ASSUME NEW r PROVE ~DoesWrite(Read(r), q) /\ (DoesRead(Read(r), q) <=> r = q)
  <2>1. ~DoesWrite(Read(r), q) BY DEF DoesWrite, Read
  <2>2. Read(r).reg = r /\ Read(q).reg = q BY DEF Read
  <2> QED BY <2>1, <2>2 DEF DoesRead
<1>4. ASSUME NEW r, NEW v
      PROVE  /\ DoesWrite(Write(r, v), q) <=> r = q
             /\ ~DoesRead(Write(r, v), q)
             /\ Write(r, v).v = v
  <2>1. DoesWrite(Write(r, v), q) <=> r = q BY DEF DoesWrite, Write
  <2>2. Write(r, v).op # Read(q).op BY DEF Write, Read
  <2>3. Write(r, v).v = v BY DEF Write
  <2> QED BY <2>1, <2>2, <2>3 DEF DoesRead
<1> QED BY <1>1, <1>2, <1>3, <1>4

\* What Append and Tail return.
LEMMA AppendFacts ==
    ASSUME NEW S, NEW s \in Seq(S), NEW e \in S
    PROVE  Append(s, e) \in Seq(S) /\ Len(Append(s, e)) = Len(s) + 1
OBVIOUS

LEMMA TailFacts ==
    ASSUME NEW S, NEW s \in Seq(S), s # << >>
    PROVE  /\ Tail(s) \in Seq(S) /\ Len(Tail(s)) = Len(s) - 1
           /\ Head(s) \in S /\ Len(s) > 0
OBVIOUS

\* The transmitter's part of a clock adds at most the byte written.
LEMMA TransmitFacts ==
    ASSUME PortTypeOK, PortAssumption, NEW op, NEW takes \in BOOLEAN, Transmit(op, takes),
           DoesWrite(op, "DATA") => op.v \in Byte
    PROVE  /\ txq' \in Seq(Byte) /\ Len(txq') <= Depth
           /\ held' \in Seq(Byte) /\ Len(held') <= 1 /\ out' \in Byte
           /\ Len(txq') <= Len(txq) + 1
           /\ ~DoesWrite(op, "DATA") => Len(txq') <= Len(txq)
<1> DEFINE refill == txq # << >> /\ (held = << >> \/ takes)
           rest == IF refill THEN Tail(txq) ELSE txq
<1>1. /\ txq \in Seq(Byte) /\ Len(txq) <= Depth /\ held \in Seq(Byte) /\ Len(held) <= 1
      /\ out \in Byte /\ Depth \in Nat
  BY DEF PortTypeOK, PortAssumption
<1>2. rest \in Seq(Byte) /\ Len(rest) <= Len(txq) /\ Len(rest) \in Nat
  BY <1>1, TailFacts
<1>3. out' \in Byte
  <2>1. CASE takes BY <2>1, <1>1, TailFacts DEF Transmit
  <2>2. CASE ~takes BY <2>2, <1>1 DEF Transmit
  <2> QED BY <2>1, <2>2
<1>4. held' \in Seq(Byte) /\ Len(held') <= 1
  <2>1. CASE refill
    <3>1. Head(txq) \in Byte BY <2>1, <1>1, TailFacts
    <3> QED BY <2>1, <3>1 DEF Transmit
  <2>2. CASE ~refill BY <2>2, <1>1 DEF Transmit
  <2> QED BY <2>1, <2>2
<1>5. txq' = IF DoesWrite(op, "DATA") /\ Len(txq) # Depth THEN Append(rest, op.v) ELSE rest
  BY DEF Transmit
<1>6. CASE DoesWrite(op, "DATA") /\ Len(txq) # Depth
  <2>1. txq' = Append(rest, op.v) /\ op.v \in Byte BY <1>5, <1>6
  <2>2. txq' \in Seq(Byte) /\ Len(txq') = Len(rest) + 1 BY <2>1, <1>2, AppendFacts
  <2>3. Len(txq) \in Nat BY <1>1
  <2> HIDE DEF refill, rest
  <2> QED BY <1>6, <2>2, <2>3, <1>1, <1>2, <1>3, <1>4
<1>7. CASE ~(DoesWrite(op, "DATA") /\ Len(txq) # Depth)
  <2>1. txq' = rest BY <1>5, <1>7
  <2>2. Len(txq) \in Nat BY <1>1
  <2> HIDE DEF refill, rest
  <2> QED BY <2>1, <2>2, <1>1, <1>2, <1>3, <1>4
<1> QED BY <1>6, <1>7

\* The receiver's part drops a byte only when the FIFO is full, and takes none out that is not
\* read.
LEMMA ReceiveFacts ==
    ASSUME PortTypeOK, PortAssumption, NEW op, NEW line \in Lines, Receive(op, line)
    PROVE  /\ rxq' \in Seq(Byte) /\ Len(rxq') <= Depth
           /\ last' \in Byte /\ receiving' \in BOOLEAN /\ quiet' \in BOOLEAN
           /\ ~DoesRead(op, "DATA") => Len(rxq') >= Len(rxq)
<1> DEFINE rest == IF DoesRead(op, "DATA") /\ rxq # << >> THEN Tail(rxq) ELSE rxq
<1>1. rxq \in Seq(Byte) /\ Len(rxq) <= Depth /\ last \in Byte /\ Depth \in Nat
  BY DEF PortTypeOK, PortAssumption
<1>2. /\ rest \in Seq(Byte) /\ Len(rest) <= Len(rxq) /\ Len(rest) \in Nat
      /\ ~DoesRead(op, "DATA") => rest = rxq
  BY <1>1, TailFacts
<1>3. last' \in Byte BY <1>1 DEF Receive
<1>4. receiving' \in BOOLEAN BY DEF Receive
<1>5. quiet' \in BOOLEAN BY DEF Receive
<1>6. rxq' = IF line \in Byte /\ Len(rxq) # Depth THEN Append(rest, line) ELSE rest
  BY DEF Receive
<1>7. Len(rxq) \in Nat BY <1>1
<1> HIDE DEF rest
<1>8. CASE line \in Byte /\ Len(rxq) # Depth
  <2>1. rxq' \in Seq(Byte) /\ Len(rxq') = Len(rest) + 1 BY <1>6, <1>8, <1>2, AppendFacts
  <2> QED BY <2>1, <1>1, <1>2, <1>3, <1>4, <1>5, <1>7, <1>8
<1>9. CASE ~(line \in Byte /\ Len(rxq) # Depth)
  BY <1>9, <1>6, <1>1, <1>2, <1>3, <1>4, <1>5, <1>7
<1> QED BY <1>8, <1>9

\* The registers' part: a lost byte is counted, and a count goes away by a clear only.
LEMMA RegisterFacts ==
    ASSUME PortTypeOK, PortAssumption, NEW op, NEW line \in Lines, Registers(op, line),
           DoesWrite(op, "IRQ_ENABLE") => op.v \subseteq {"RX", "TX"},
           DoesWrite(op, "IRQ_LEVELS") => op.v \in 0..Depth
    PROVE  /\ level' \in 0..Depth /\ irq_enable' \subseteq {"RX", "TX"}
           /\ rx_overflow' \in 0..MaxCount /\ rx_framing' \in 0..MaxCount
           /\ irq_enable' = IF DoesWrite(op, "IRQ_ENABLE") THEN op.v ELSE irq_enable
           /\ ~DoesWrite(op, "ERRORS") =>
                 /\ rx_overflow # 0 => rx_overflow' # 0
                 /\ line \in Byte /\ Len(rxq) = Depth => rx_overflow' # 0
<1>1. MaxCount \in Nat \ {0} BY DEF PortAssumption
<1>2. rx_overflow \in 0..MaxCount /\ rx_framing \in 0..MaxCount BY DEF PortTypeOK
<1>3. /\ saturating_increment(rx_overflow) \in 1..MaxCount
      /\ saturating_increment(rx_framing) \in 1..MaxCount
  BY <1>1, <1>2 DEF saturating_increment
<1>4. level' \in 0..Depth BY DEF Registers, PortTypeOK
<1>5. irq_enable' = IF DoesWrite(op, "IRQ_ENABLE") THEN op.v ELSE irq_enable BY DEF Registers
<1>6. irq_enable' \subseteq {"RX", "TX"} BY <1>5 DEF PortTypeOK
<1>7. rx_framing' \in 0..MaxCount BY <1>1, <1>2, <1>3 DEF Registers
<1>8. rx_overflow' = IF DoesWrite(op, "ERRORS") THEN 0
                     ELSE IF line \in Byte /\ Len(rxq) = Depth
                          THEN saturating_increment(rx_overflow) ELSE rx_overflow
  BY DEF Registers
<1>9. rx_overflow' \in 0..MaxCount BY <1>8, <1>1, <1>2, <1>3
<1>10. ~DoesWrite(op, "ERRORS") =>
          /\ rx_overflow # 0 => rx_overflow' # 0
          /\ line \in Byte /\ Len(rxq) = Depth => rx_overflow' # 0
  BY <1>8, <1>1, <1>2, <1>3
<1> QED BY <1>4, <1>5, <1>6, <1>7, <1>9, <1>10
--------------------------------------------------------------------------------
\* A clock as the CPU sees it: the port keeps its types and what the CPU relies on.
LEMMA ClockFacts ==
    ASSUME IInv, PortAssumption, NEW op, NEW line \in Lines, NEW takes \in BOOLEAN,
           Clock(op, line, takes),
           DoesWrite(op, "DATA") => op.v \in Byte,
           DoesWrite(op, "IRQ_ENABLE") => op.v \subseteq {"RX", "TX"},
           DoesWrite(op, "IRQ_LEVELS") => op.v \in 0..Depth
    PROVE  /\ PortTypeOK'
           /\ Len(txq') <= Len(txq) + 1
           /\ ~DoesWrite(op, "DATA") => Len(txq') <= Len(txq)
           /\ ~DoesRead(op, "DATA") => Len(rxq') >= Len(rxq)
           /\ irq_enable' = IF DoesWrite(op, "IRQ_ENABLE") THEN op.v ELSE irq_enable
           /\ ~DoesWrite(op, "ERRORS") =>
                 /\ rx_overflow # 0 => rx_overflow' # 0
                 /\ line \in Byte /\ Len(rxq) = Depth => rx_overflow' # 0
<1>1. PortTypeOK BY DEF IInv, TypeOK
<1>2. Transmit(op, takes) /\ Receive(op, line) /\ Registers(op, line) BY DEF Clock
<1>3. /\ txq' \in Seq(Byte) /\ Len(txq') <= Depth
      /\ held' \in Seq(Byte) /\ Len(held') <= 1 /\ out' \in Byte
      /\ Len(txq') <= Len(txq) + 1
      /\ ~DoesWrite(op, "DATA") => Len(txq') <= Len(txq)
  BY <1>1, <1>2, TransmitFacts
<1>4. /\ rxq' \in Seq(Byte) /\ Len(rxq') <= Depth
      /\ last' \in Byte /\ receiving' \in BOOLEAN /\ quiet' \in BOOLEAN
      /\ ~DoesRead(op, "DATA") => Len(rxq') >= Len(rxq)
  BY <1>1, <1>2, ReceiveFacts
<1>5. /\ level' \in 0..Depth /\ irq_enable' \subseteq {"RX", "TX"}
      /\ rx_overflow' \in 0..MaxCount /\ rx_framing' \in 0..MaxCount
      /\ irq_enable' = IF DoesWrite(op, "IRQ_ENABLE") THEN op.v ELSE irq_enable
      /\ ~DoesWrite(op, "ERRORS") =>
            /\ rx_overflow # 0 => rx_overflow' # 0
            /\ line \in Byte /\ Len(rxq) = Depth => rx_overflow' # 0
  BY <1>1, <1>2, RegisterFacts
<1>6. PortTypeOK' BY <1>3, <1>4, <1>5 DEF PortTypeOK
<1> QED BY <1>3, <1>4, <1>5, <1>6

\* What an access that clears no errors keeps, whatever else the step does.
LEMMA AccessFacts ==
    ASSUME IInv, PortAssumption, NEW op, Access(op), ~DoesWrite(op, "ERRORS"),
           main \notin Starting,
           DoesWrite(op, "DATA") => op.v \in Byte,
           DoesWrite(op, "IRQ_ENABLE") => op.v \subseteq {"RX", "TX"},
           ~DoesWrite(op, "IRQ_LEVELS")
    PROVE  /\ PortTypeOK' /\ lost' \in BOOLEAN
           /\ Len(txq') <= Len(txq) + 1
           /\ ~DoesWrite(op, "DATA") => Len(txq') <= Len(txq)
           /\ ~DoesRead(op, "DATA") => Len(rxq') >= Len(rxq)
           /\ irq_enable' = IF DoesWrite(op, "IRQ_ENABLE") THEN op.v ELSE irq_enable
           /\ lost' => rx_overflow' # 0 \/ err # {}
           /\ rx_overflow # 0 => rx_overflow' # 0
<1>1. PICK line \in Lines, takes \in BOOLEAN : ClockWith(op, line, takes) BY DEF Access
<1>2. /\ PortTypeOK'
      /\ Len(txq') <= Len(txq) + 1
      /\ ~DoesWrite(op, "DATA") => Len(txq') <= Len(txq)
      /\ ~DoesRead(op, "DATA") => Len(rxq') >= Len(rxq)
      /\ irq_enable' = IF DoesWrite(op, "IRQ_ENABLE") THEN op.v ELSE irq_enable
      /\ rx_overflow # 0 => rx_overflow' # 0
      /\ line \in Byte /\ Len(rxq) = Depth => rx_overflow' # 0
  <2>1. Clock(op, line, takes) BY <1>1 DEF ClockWith
  <2>2. DoesWrite(op, "IRQ_LEVELS") => op.v \in 0..Depth OBVIOUS
  <2>3. /\ PortTypeOK'
        /\ Len(txq') <= Len(txq) + 1
        /\ ~DoesWrite(op, "DATA") => Len(txq') <= Len(txq)
        /\ ~DoesRead(op, "DATA") => Len(rxq') >= Len(rxq)
        /\ irq_enable' = IF DoesWrite(op, "IRQ_ENABLE") THEN op.v ELSE irq_enable
        /\ ~DoesWrite(op, "ERRORS") =>
              /\ rx_overflow # 0 => rx_overflow' # 0
              /\ line \in Byte /\ Len(rxq) = Depth => rx_overflow' # 0
    BY <2>1, <2>2, ClockFacts
  <2> QED BY <2>3
<1>3. lost' = (lost \/ (line \in Byte /\ Len(rxq) = Depth)) BY <1>1 DEF ClockWith
<1>4. lost' \in BOOLEAN BY <1>3
<1>5. lost' => rx_overflow' # 0 \/ err # {} BY <1>2, <1>3 DEF IInv, LossNoticed
<1> QED BY <1>2, <1>4, <1>5

\* The part of the invariant that is about the main thread, for a step of the handler.
LEMMA HandlerKeepsLoss ==
    ASSUME IInv, UNCHANGED thread, lost' => rx_overflow' # 0 \/ err # {}, main \notin Starting
    PROVE  LossInv' /\ LossNoticed'
BY DEF IInv, LossInv, LossNoticed, thread

\* Sequences that are moved: what is taken off the front, and what is put at the end.
LEMMA FromFacts ==
    ASSUME NEW S, NEW s \in Seq(S), NEW k \in Nat, k <= Len(s)
    PROVE  From(s, k) \in Seq(S) /\ Len(From(s, k)) = Len(s) - k
BY DEF From

LEMMA ConcatFacts ==
    ASSUME NEW S, NEW s \in Seq(S), NEW t \in Seq(S)
    PROVE  s \o t \in Seq(S) /\ Len(s \o t) = Len(s) + Len(t)
OBVIOUS

LEMMA PutFacts ==
    ASSUME TypeOK, EchoAssumption, NEW rest \in Seq(Byte)
    PROVE  /\ pending \o ring_buf_put(rest) \in Seq(Byte)
           /\ Len(pending \o ring_buf_put(rest)) <= Ring
<1>1. pending \in Seq(Byte) /\ Len(pending) <= Ring /\ Len(pending) \in Nat /\ Ring \in Nat
  BY DEF TypeOK, EchoAssumption
<1>2. Least(Len(rest), Ring - Len(pending)) \in 0..Len(rest)
      /\ Least(Len(rest), Ring - Len(pending)) <= Ring - Len(pending)
  <2>1. Len(rest) \in Nat OBVIOUS
  <2> QED BY <1>1, <2>1 DEF Least
<1>3. /\ ring_buf_put(rest) \in Seq(Byte)
      /\ Len(ring_buf_put(rest)) = Least(Len(rest), Ring - Len(pending))
  <2>1. PICK k : k = Least(Len(rest), Ring - Len(pending)) OBVIOUS
  <2>2. k \in 0..Len(rest) BY <2>1, <1>2
  <2>3. SubSeq(rest, 1, k) \in Seq(Byte) /\ Len(SubSeq(rest, 1, k)) = k BY <2>2
  <2> QED BY <2>1, <2>3 DEF ring_buf_put
<1> QED BY <1>1, <1>2, <1>3, ConcatFacts
--------------------------------------------------------------------------------
\* The steps of the handler. Each says what its access gives, then takes the cases of the
\* code.

\* The handler runs only behind the start of the main thread.
LEMMA HandlerRuns ==
    ASSUME IInv, isr # "out"
    PROVE  main \notin Starting
BY DEF IInv, LossInv

\* A read other than of DATA takes nothing out, adds nothing and writes no register.
LEMMA ReadFacts ==
    ASSUME IInv, PortAssumption, isr # "out", NEW reg, reg # "DATA", Access(Read(reg))
    PROVE  /\ PortTypeOK' /\ lost' \in BOOLEAN
           /\ Len(txq') <= Len(txq) /\ Len(rxq') >= Len(rxq)
           /\ irq_enable' = irq_enable
           /\ lost' => rx_overflow' # 0 \/ err # {}
<1>1. \A q : ~DoesWrite(Read(reg), q) BY OpFacts
<1>2. ~DoesRead(Read(reg), "DATA") BY OpFacts
<1>3. main \notin Starting BY HandlerRuns
<1> QED BY <1>1, <1>2, <1>3, AccessFacts

\* A write to DATA adds at most one byte.
LEMMA WriteFacts ==
    ASSUME IInv, PortAssumption, isr # "out", NEW v \in Byte, Access(Write("DATA", v))
    PROVE  /\ PortTypeOK' /\ lost' \in BOOLEAN
           /\ Len(txq') <= Len(txq) + 1 /\ Len(rxq') >= Len(rxq)
           /\ irq_enable' = irq_enable
           /\ lost' => rx_overflow' # 0 \/ err # {}
<1>1. /\ ~DoesWrite(Write("DATA", v), "ERRORS") /\ ~DoesWrite(Write("DATA", v), "IRQ_ENABLE")
      /\ ~DoesWrite(Write("DATA", v), "IRQ_LEVELS") /\ ~DoesRead(Write("DATA", v), "DATA")
      /\ Write("DATA", v).v = v
  <2>1. ~DoesWrite(Write("DATA", v), "ERRORS") BY OpFacts
  <2>2. ~DoesWrite(Write("DATA", v), "IRQ_ENABLE") BY OpFacts
  <2>3. ~DoesWrite(Write("DATA", v), "IRQ_LEVELS") BY OpFacts
  <2>4. ~DoesRead(Write("DATA", v), "DATA") BY OpFacts
  <2>5. Write("DATA", v).v = v BY OpFacts
  <2> QED BY <2>1, <2>2, <2>3, <2>4, <2>5
<1>2. main \notin Starting BY HandlerRuns
<1> QED BY <1>1, <1>2, AccessFacts

\* A write of the mask.
LEMMA EnableFacts ==
    ASSUME IInv, PortAssumption, main \notin Starting, NEW bits, bits \subseteq {"RX", "TX"},
           Access(Write("IRQ_ENABLE", bits))
    PROVE  /\ PortTypeOK' /\ lost' \in BOOLEAN
           /\ Len(txq') <= Len(txq) /\ Len(rxq') >= Len(rxq)
           /\ irq_enable' = bits
           /\ lost' => rx_overflow' # 0 \/ err # {}
<1>1. /\ ~DoesWrite(Write("IRQ_ENABLE", bits), "ERRORS")
      /\ ~DoesWrite(Write("IRQ_ENABLE", bits), "DATA")
      /\ ~DoesWrite(Write("IRQ_ENABLE", bits), "IRQ_LEVELS")
      /\ ~DoesRead(Write("IRQ_ENABLE", bits), "DATA")
      /\ DoesWrite(Write("IRQ_ENABLE", bits), "IRQ_ENABLE")
      /\ Write("IRQ_ENABLE", bits).v = bits
  BY OpFacts
<1> QED BY <1>1, AccessFacts

\* The types of the FIFOs' lengths and of what the handler counts.
LEMMA Counts ==
    ASSUME IInv, PortAssumption, EchoAssumption
    PROVE  /\ Len(txq) \in 0..Depth /\ Len(rxq) \in 0..Depth /\ Depth \in Nat
           /\ pending \in Seq(Byte) /\ Len(pending) \in 0..Ring /\ Ring \in Nat
           /\ buf \in Seq(Byte) /\ Len(buf) \in 0..BufSize /\ BufSize \in Nat \ {0}
           /\ n \in 0..BufSize /\ i \in 0..BufSize
BY DEF IInv, TypeOK, PortTypeOK, PortAssumption, EchoAssumption

LEMMA IrqStatusStep ==
    ASSUME IInv, PortAssumption, EchoAssumption, IrqStatus
    PROVE  IInv'
<1>1. /\ isr = "irq_status" /\ UNCHANGED thread /\ Access(Read("IRQ_STATUS"))
      /\ UNCHANGED <<enabled, pending, buf, n, i>>
  BY DEF IrqStatus, In, moving
<1>2. /\ PortTypeOK' /\ lost' \in BOOLEAN
      /\ irq_enable' = irq_enable
      /\ lost' => rx_overflow' # 0 \/ err # {}
  BY <1>1, ReadFacts
<1>3. /\ isr' \in {"out", "claimed", "tx_disable", "rx_ready"}
      /\ isr' = "tx_disable" => pending = << >>
  BY DEF IrqStatus, Goto, AfterSending
<1>4. LossInv' /\ LossNoticed' BY <1>1, <1>2, HandlerRuns, HandlerKeepsLoss
<1>5. TypeOK' BY <1>1, <1>2, <1>3 DEF IInv, TypeOK, Steps, thread
<1>6. FillFits' /\ MoveInv' BY <1>1, <1>3 DEF IInv, FillFits, MoveInv, Moves
<1>7. WakeInv' BY <1>1, <1>2, <1>3 DEF IInv, WakeInv
<1> QED BY <1>4, <1>5, <1>6, <1>7 DEF IInv

LEMMA FillClaimedStep ==
    ASSUME IInv, PortAssumption, EchoAssumption, FillClaimed
    PROVE  IInv'
<1>1. /\ isr = "claimed" /\ UNCHANGED thread /\ Access(Read("STATUS"))
      /\ UNCHANGED <<enabled, pending, buf, i>>
  BY DEF FillClaimed, In
<1>2. /\ PortTypeOK' /\ lost' \in BOOLEAN
      /\ Len(txq') <= Len(txq)
      /\ irq_enable' = irq_enable
      /\ lost' => rx_overflow' # 0 \/ err # {}
  BY <1>1, ReadFacts
<1>3. LossInv' /\ LossNoticed' BY <1>1, <1>2, HandlerRuns, HandlerKeepsLoss
<1>4. Len(txq') \in 0..Depth BY <1>2 DEF PortTypeOK
<1>5. i = 0 /\ buf = << >> BY <1>1 DEF IInv, MoveInv, Moves
<1>6. PICK claim \in 1..Least(Len(pending), BufSize) :
         \/ fifo_fill(claim) = 0 /\ AfterSending(pending) /\ UNCHANGED n
         \/ /\ fifo_fill(claim) # 0
            /\ n' = fifo_fill(claim)
            /\ Goto(IF n' < claim THEN "send_some" ELSE "send_claimed")
  BY DEF FillClaimed
<1>7. claim \in 1..BufSize /\ claim <= Len(pending) BY Counts DEF Least
<1>8. fifo_fill(claim) \in 0..claim /\ fifo_fill(claim) <= Depth - Len(txq)
  BY <1>7, Counts DEF fifo_fill, Least, tx_free
<1>9. CASE fifo_fill(claim) = 0 /\ AfterSending(pending) /\ UNCHANGED n
  <2>1. /\ isr' \in {"tx_disable", "rx_ready"}
        /\ isr' = "tx_disable" => pending = << >>
    BY <1>9 DEF AfterSending, Goto
  <2>2. TypeOK' BY <1>1, <1>2, <1>9, <2>1 DEF IInv, TypeOK, Steps, thread
  <2>3. FillFits' /\ MoveInv' BY <1>1, <1>5, <2>1 DEF FillFits, MoveInv, Moves
  <2>4. WakeInv' BY <1>1, <1>2, <2>1 DEF IInv, WakeInv
  <2> QED BY <1>3, <2>2, <2>3, <2>4 DEF IInv
<1>10. CASE /\ fifo_fill(claim) # 0
            /\ n' = fifo_fill(claim)
            /\ Goto(IF n' < claim THEN "send_some" ELSE "send_claimed")
  <2>1. isr' \in {"send_some", "send_claimed"} BY <1>10 DEF Goto
  <2>2. n' \in 1..BufSize /\ n' <= Len(pending) /\ n' <= Depth - Len(txq)
    BY <1>10, <1>7, <1>8, Counts
  <2>3. TypeOK' BY <1>1, <1>2, <2>1, <2>2 DEF IInv, TypeOK, Steps, thread
  <2>4. FillFits'
    <3>1. n' - i' <= Depth - Len(txq') BY <1>1, <1>2, <1>4, <1>5, <2>2, Counts
    <3> QED BY <3>1 DEF FillFits, tx_free
  <2>5. MoveInv' BY <1>1, <1>5, <2>1, <2>2 DEF MoveInv, Moves
  <2>6. WakeInv' BY <1>1, <1>2, <2>1 DEF IInv, WakeInv
  <2> QED BY <1>3, <2>3, <2>4, <2>5, <2>6 DEF IInv
<1> QED BY <1>6, <1>9, <1>10

LEMMA SendClaimedStep ==
    ASSUME IInv, PortAssumption, EchoAssumption, SendClaimed
    PROVE  IInv'
<1>1. /\ isr \in {"send_claimed", "send_some"} /\ UNCHANGED thread
      /\ Access(Write("DATA", pending[i + 1])) /\ UNCHANGED <<enabled, buf>>
  BY DEF SendClaimed, In
<1>2. i < n /\ n <= Len(pending) /\ buf = << >> BY <1>1 DEF IInv, MoveInv
<1>3. pending[i + 1] \in Byte
  <2>1. i + 1 \in 1..Len(pending) BY <1>2, Counts
  <2> QED BY <2>1, Counts
<1>4. /\ PortTypeOK' /\ lost' \in BOOLEAN
      /\ Len(txq') <= Len(txq) + 1
      /\ irq_enable' = irq_enable
      /\ lost' => rx_overflow' # 0 \/ err # {}
  BY <1>1, <1>3, WriteFacts
<1>5. LossInv' /\ LossNoticed' BY <1>1, <1>4, HandlerRuns, HandlerKeepsLoss
<1>6. Len(txq') \in 0..Depth BY <1>4 DEF PortTypeOK
<1>7. CASE i + 1 < n /\ i' = i + 1 /\ UNCHANGED <<isr, pending, n>>
  <2>1. i' \in 0..BufSize BY <1>7, Counts
  <2>2. TypeOK' BY <1>1, <1>4, <1>7, <2>1 DEF IInv, TypeOK, thread
  <2>3. FillFits'
    <3>1. n - i <= Depth - Len(txq) BY <1>1 DEF IInv, FillFits, tx_free
    <3>2. n' - i' <= Depth - Len(txq') BY <3>1, <1>7, <1>4, <1>6, Counts
    <3> QED BY <3>2 DEF FillFits, tx_free
  <2>4. MoveInv' BY <1>1, <1>2, <1>7 DEF MoveInv, Moves
  <2>5. WakeInv' BY <1>1, <1>4, <1>7 DEF IInv, WakeInv
  <2> QED BY <1>5, <2>2, <2>3, <2>4, <2>5 DEF IInv
<1>8. CASE /\ i + 1 = n
           /\ pending' = From(pending, n) /\ n' = 0 /\ i' = 0
           /\ \/ isr = "send_claimed" /\ pending' # << >> /\ Goto("claimed")
              \/ /\ isr = "send_some" \/ pending' = << >>
                 /\ AfterSending(pending')
  <2>1. pending' \in Seq(Byte) /\ Len(pending') <= Ring
    <3>1. n \in Nat /\ n <= Len(pending) BY <1>2, Counts
    <3>2. From(pending, n) \in Seq(Byte) /\ Len(From(pending, n)) = Len(pending) - n
      BY <3>1, Counts, FromFacts
    <3> QED BY <3>1, <3>2, <1>8, Counts
  <2>2. pending # << >> BY <1>2, Counts
  <2>3. /\ isr' \in {"claimed", "tx_disable", "rx_ready"}
        /\ isr' = "tx_disable" => pending' = << >>
    BY <1>8 DEF Goto, AfterSending
  <2>4. TypeOK' BY <1>1, <1>4, <1>8, <2>1, <2>3, Counts DEF IInv, TypeOK, Steps, thread
  <2>5. FillFits' /\ MoveInv' BY <1>1, <1>2, <1>8, <2>3 DEF FillFits, MoveInv, Moves
  <2>6. WakeInv' BY <1>1, <1>4, <2>2, <2>3 DEF IInv, WakeInv
  <2> QED BY <1>5, <2>4, <2>5, <2>6 DEF IInv
<1> QED BY <1>7, <1>8 DEF SendClaimed

LEMMA TxDisableStep ==
    ASSUME IInv, PortAssumption, EchoAssumption, TxDisable
    PROVE  IInv'
<1>1. /\ isr = "tx_disable" /\ UNCHANGED thread
      /\ enabled' = enabled \ {"TX"} /\ Access(Write("IRQ_ENABLE", enabled \ {"TX"}))
      /\ isr' = "rx_ready" /\ UNCHANGED <<pending, buf, n, i>>
  BY DEF TxDisable, In, Goto, set_irq_enable, moving
<1>2. enabled \subseteq {"RX", "TX"} BY DEF IInv, TypeOK
<1>3. /\ PortTypeOK' /\ lost' \in BOOLEAN
      /\ irq_enable' = enabled \ {"TX"}
      /\ lost' => rx_overflow' # 0 \/ err # {}
  BY <1>1, <1>2, HandlerRuns, EnableFacts
<1>4. LossInv' /\ LossNoticed' BY <1>1, <1>3, HandlerRuns, HandlerKeepsLoss
<1>5. TypeOK' BY <1>1, <1>2, <1>3 DEF IInv, TypeOK, Steps, thread
<1>6. FillFits' /\ MoveInv' BY <1>1 DEF IInv, FillFits, MoveInv, Moves
<1>7. WakeInv'
  <2>1. pending' = << >> BY <1>1 DEF IInv, WakeInv
  <2> QED BY <1>1, <1>3, <2>1 DEF WakeInv
<1> QED BY <1>4, <1>5, <1>6, <1>7 DEF IInv

LEMMA TxEnableStep ==
    ASSUME IInv, PortAssumption, EchoAssumption, TxEnable
    PROVE  IInv'
<1>1. /\ isr = "tx_enable" /\ UNCHANGED thread
      /\ enabled' = enabled \cup {"TX"} /\ Access(Write("IRQ_ENABLE", enabled \cup {"TX"}))
      /\ isr' = "irq_status" /\ UNCHANGED <<pending, buf, n, i>>
  BY DEF TxEnable, In, Goto, set_irq_enable, moving
<1>2. enabled \subseteq {"RX", "TX"} BY DEF IInv, TypeOK
<1>3. /\ PortTypeOK' /\ lost' \in BOOLEAN
      /\ irq_enable' = enabled \cup {"TX"}
      /\ lost' => rx_overflow' # 0 \/ err # {}
  BY <1>1, <1>2, HandlerRuns, EnableFacts
<1>4. LossInv' /\ LossNoticed' BY <1>1, <1>3, HandlerRuns, HandlerKeepsLoss
<1>5. TypeOK' BY <1>1, <1>2, <1>3 DEF IInv, TypeOK, Steps, thread
<1>6. FillFits' /\ MoveInv' BY <1>1 DEF IInv, FillFits, MoveInv, Moves
<1>7. WakeInv' BY <1>1, <1>3 DEF WakeInv
<1> QED BY <1>4, <1>5, <1>6, <1>7 DEF IInv

LEMMA RxReadyStep ==
    ASSUME IInv, PortAssumption, EchoAssumption, RxReady
    PROVE  IInv'
<1>1. /\ isr = "rx_ready" /\ UNCHANGED thread /\ Access(Read("STATUS"))
      /\ UNCHANGED <<enabled, pending, buf, n, i>>
  BY DEF RxReady, In, moving
<1>2. /\ PortTypeOK' /\ lost' \in BOOLEAN
      /\ Len(rxq') >= Len(rxq)
      /\ irq_enable' = irq_enable
      /\ lost' => rx_overflow' # 0 \/ err # {}
  BY <1>1, ReadFacts
<1>3. /\ isr' \in {"rx_count", "out", "irq_status"}
      /\ isr' = "rx_count" => rxq # << >>
  BY DEF RxReady, Goto
<1>4. isr' = "rx_count" => Len(rxq') > 0
  <2>1. rxq \in Seq(Byte) /\ rxq' \in Seq(Byte) BY <1>2 DEF IInv, TypeOK, PortTypeOK
  <2>2. rxq # << >> => Len(rxq) > 0 BY <2>1
  <2>3. Len(rxq) \in Nat /\ Len(rxq') \in Nat BY <2>1
  <2> QED BY <1>2, <1>3, <2>2, <2>3
<1>5. LossInv' /\ LossNoticed' BY <1>1, <1>2, HandlerRuns, HandlerKeepsLoss
<1>6. TypeOK' BY <1>1, <1>2, <1>3 DEF IInv, TypeOK, Steps, thread
<1>7. FillFits' /\ MoveInv' BY <1>1, <1>3, <1>4 DEF IInv, FillFits, MoveInv, Moves
<1>8. WakeInv' BY <1>1, <1>2, <1>3 DEF IInv, WakeInv
<1> QED BY <1>5, <1>6, <1>7, <1>8 DEF IInv

LEMMA RxCountStep ==
    ASSUME IInv, PortAssumption, EchoAssumption, RxCount
    PROVE  IInv'
<1>1. /\ isr = "rx_count" /\ UNCHANGED thread /\ Access(Read("STATUS"))
      /\ n' = Least(BufSize, Len(rxq)) /\ isr' = "fifo_read"
      /\ UNCHANGED <<enabled, pending, buf, i>>
  BY DEF RxCount, In, Goto
<1>2. /\ PortTypeOK' /\ lost' \in BOOLEAN
      /\ irq_enable' = irq_enable
      /\ lost' => rx_overflow' # 0 \/ err # {}
  BY <1>1, ReadFacts
<1>3. /\ Len(rxq) > 0 /\ i = 0 /\ buf = << >> BY <1>1 DEF IInv, MoveInv, Moves
<1>4. n' \in 1..BufSize BY <1>1, <1>3, Counts DEF Least
<1>5. LossInv' /\ LossNoticed' BY <1>1, <1>2, HandlerRuns, HandlerKeepsLoss
<1>6. TypeOK' BY <1>1, <1>2, <1>4 DEF IInv, TypeOK, Steps, thread
<1>7. FillFits' BY <1>1 DEF FillFits
<1>8. MoveInv' BY <1>1, <1>3, <1>4 DEF MoveInv, Moves
<1>9. WakeInv' BY <1>1, <1>2 DEF IInv, WakeInv
<1> QED BY <1>5, <1>6, <1>7, <1>8, <1>9 DEF IInv

\* A read of DATA.
LEMMA DataFacts ==
    ASSUME IInv, PortAssumption, isr # "out", Access(Read("DATA"))
    PROVE  /\ PortTypeOK' /\ lost' \in BOOLEAN
           /\ irq_enable' = irq_enable
           /\ lost' => rx_overflow' # 0 \/ err # {}
<1>1. \A q : ~DoesWrite(Read("DATA"), q) BY OpFacts
<1>2. main \notin Starting BY HandlerRuns
<1> QED BY <1>1, <1>2, AccessFacts

LEMMA PoppedFacts ==
    ASSUME IInv
    PROVE  Popped \in Seq(Byte) /\ Len(Popped) <= 1
<1>1. rxq \in Seq(Byte) BY DEF IInv, TypeOK, PortTypeOK
<1>2. CASE rxq = << >> BY <1>2 DEF Popped
<1>3. CASE rxq # << >>
  <2>1. Head(rxq) \in Byte BY <1>1, <1>3, TailFacts
  <2> QED BY <1>3, <2>1 DEF Popped
<1> QED BY <1>2, <1>3

\* What does not fit the TX FIFO goes to the ring, and the TX interrupt is switched on next.
LEMMA PutRestFacts ==
    ASSUME IInv, EchoAssumption, NEW rest \in Seq(Byte), PutRest(rest)
    PROVE  /\ pending' \in Seq(Byte) /\ Len(pending') <= Ring
           /\ isr' = "tx_enable" /\ buf' = << >> /\ n' = 0 /\ i' = 0
BY PutFacts DEF IInv, PutRest, AfterPut, Goto

LEMMA FifoReadStep ==
    ASSUME IInv, PortAssumption, EchoAssumption, FifoRead
    PROVE  IInv'
<1> DEFINE b == buf \o Popped
<1>1. /\ isr = "fifo_read" /\ UNCHANGED thread /\ Access(Read("DATA")) /\ UNCHANGED enabled
  BY DEF FifoRead, In
<1>2. /\ PortTypeOK' /\ lost' \in BOOLEAN
      /\ irq_enable' = irq_enable
      /\ lost' => rx_overflow' # 0 \/ err # {}
  BY <1>1, DataFacts
<1>3. i < n /\ Len(buf) <= i BY <1>1 DEF IInv, MoveInv
<1>4. b \in Seq(Byte) /\ Len(b) <= i + 1 /\ Len(b) <= BufSize
  <2>1. Popped \in Seq(Byte) /\ Len(Popped) <= 1 BY PoppedFacts
  <2>2. b \in Seq(Byte) /\ Len(b) = Len(buf) + Len(Popped)
    BY <2>1, Counts, ConcatFacts
  <2>3. Len(Popped) \in Nat BY <2>1
  <2> HIDE DEF b
  <2> QED BY <2>1, <2>2, <2>3, <1>3, Counts
<1>5. LossInv' /\ LossNoticed' BY <1>1, <1>2, HandlerRuns, HandlerKeepsLoss
<1>6. \/ i + 1 < n /\ i' = i + 1 /\ buf' = b /\ UNCHANGED <<isr, pending, n>>
      \/ /\ i + 1 = n /\ NothingWaits
         /\ Goto("echo_fill") /\ buf' = b /\ n' = 0 /\ i' = 0 /\ UNCHANGED pending
      \/ i + 1 = n /\ ~NothingWaits /\ PutRest(b)
  BY DEF FifoRead
<1> HIDE DEF b
<1>7. CASE i + 1 < n /\ i' = i + 1 /\ buf' = b /\ UNCHANGED <<isr, pending, n>>
  <2>1. i' \in 0..BufSize BY <1>7, Counts
  <2>2. TypeOK' BY <1>1, <1>2, <1>4, <1>7, <2>1 DEF IInv, TypeOK, thread
  <2>3. FillFits' BY <1>1, <1>7 DEF FillFits
  <2>4. MoveInv' BY <1>1, <1>4, <1>7 DEF MoveInv, Moves
  <2>5. WakeInv' BY <1>1, <1>2, <1>7 DEF IInv, WakeInv
  <2> QED BY <1>5, <2>2, <2>3, <2>4, <2>5 DEF IInv
<1>8. CASE /\ i + 1 = n /\ NothingWaits
           /\ Goto("echo_fill") /\ buf' = b /\ n' = 0 /\ i' = 0 /\ UNCHANGED pending
  <2>1. isr' = "echo_fill" BY <1>8 DEF Goto
  <2>2. TypeOK' BY <1>1, <1>2, <1>4, <1>8, <2>1, Counts DEF IInv, TypeOK, Steps, thread
  <2>3. FillFits' /\ MoveInv' BY <1>8, <2>1 DEF FillFits, MoveInv, Moves
  <2>4. WakeInv' BY <1>1, <1>2, <1>8, <2>1 DEF IInv, WakeInv
  <2> QED BY <1>5, <2>2, <2>3, <2>4 DEF IInv
<1>9. CASE i + 1 = n /\ ~NothingWaits /\ PutRest(b)
  <2>1. /\ pending' \in Seq(Byte) /\ Len(pending') <= Ring
        /\ isr' = "tx_enable" /\ buf' = << >> /\ n' = 0 /\ i' = 0
    BY <1>4, <1>9, PutRestFacts
  <2>2. TypeOK' BY <1>1, <1>2, <2>1, Counts DEF IInv, TypeOK, Steps, thread
  <2>3. FillFits' /\ MoveInv' BY <2>1 DEF FillFits, MoveInv, Moves
  <2>4. WakeInv' BY <1>1, <1>2, <2>1 DEF IInv, WakeInv
  <2> QED BY <1>5, <2>2, <2>3, <2>4 DEF IInv
<1> QED BY <1>6, <1>7, <1>8, <1>9

LEMMA EchoFillStep ==
    ASSUME IInv, PortAssumption, EchoAssumption, EchoFill
    PROVE  IInv'
<1>1. /\ isr = "echo_fill" /\ UNCHANGED thread /\ Access(Read("STATUS")) /\ UNCHANGED enabled
  BY DEF EchoFill, In
<1>2. /\ PortTypeOK' /\ lost' \in BOOLEAN
      /\ Len(txq') <= Len(txq)
      /\ irq_enable' = irq_enable
      /\ lost' => rx_overflow' # 0 \/ err # {}
  BY <1>1, ReadFacts
<1>3. LossInv' /\ LossNoticed' BY <1>1, <1>2, HandlerRuns, HandlerKeepsLoss
<1>4. Len(txq') \in 0..Depth BY <1>2 DEF PortTypeOK
<1>5. i = 0 BY <1>1 DEF IInv, MoveInv, Moves
<1>6. /\ fifo_fill(Len(buf)) \in 0..Len(buf) /\ fifo_fill(Len(buf)) <= Depth - Len(txq)
  BY Counts DEF fifo_fill, Least, tx_free
<1>7. \/ fifo_fill(Len(buf)) = 0 /\ PutRest(buf)
      \/ /\ fifo_fill(Len(buf)) # 0
         /\ n' = fifo_fill(Len(buf))
         /\ Goto("echo") /\ UNCHANGED <<pending, buf, i>>
  BY DEF EchoFill
<1>8. CASE fifo_fill(Len(buf)) = 0 /\ PutRest(buf)
  <2>1. /\ pending' \in Seq(Byte) /\ Len(pending') <= Ring
        /\ isr' = "tx_enable" /\ buf' = << >> /\ n' = 0 /\ i' = 0
    BY <1>8, Counts, PutRestFacts
  <2>2. TypeOK' BY <1>1, <1>2, <2>1, Counts DEF IInv, TypeOK, Steps, thread
  <2>3. FillFits' /\ MoveInv' BY <2>1 DEF FillFits, MoveInv, Moves
  <2>4. WakeInv' BY <1>1, <1>2, <2>1 DEF IInv, WakeInv
  <2> QED BY <1>3, <2>2, <2>3, <2>4 DEF IInv
<1>9. CASE /\ fifo_fill(Len(buf)) # 0
           /\ n' = fifo_fill(Len(buf))
           /\ Goto("echo") /\ UNCHANGED <<pending, buf, i>>
  <2>1. isr' = "echo" BY <1>9 DEF Goto
  <2>2. n' \in 1..BufSize /\ n' <= Len(buf) /\ n' <= Depth - Len(txq)
    BY <1>9, <1>6, Counts
  <2>3. TypeOK' BY <1>1, <1>2, <1>9, <2>1, <2>2 DEF IInv, TypeOK, Steps, thread
  <2>4. FillFits'
    <3>1. n' - i' <= Depth - Len(txq') BY <1>9, <1>2, <1>4, <1>5, <2>2, Counts
    <3> QED BY <3>1 DEF FillFits, tx_free
  <2>5. MoveInv' BY <1>9, <1>5, <2>1, <2>2 DEF MoveInv, Moves
  <2>6. WakeInv' BY <1>1, <1>2, <1>9, <2>1 DEF IInv, WakeInv
  <2> QED BY <1>3, <2>3, <2>4, <2>5, <2>6 DEF IInv
<1> QED BY <1>7, <1>8, <1>9

LEMMA EchoWriteStep ==
    ASSUME IInv, PortAssumption, EchoAssumption, EchoWrite
    PROVE  IInv'
<1>1. /\ isr = "echo" /\ UNCHANGED thread
      /\ Access(Write("DATA", buf[i + 1])) /\ UNCHANGED enabled
  BY DEF EchoWrite, In
<1>2. i < n /\ n <= Len(buf) BY <1>1 DEF IInv, MoveInv
<1>3. buf[i + 1] \in Byte
  <2>1. i + 1 \in 1..Len(buf) BY <1>2, Counts
  <2> QED BY <2>1, Counts
<1>4. /\ PortTypeOK' /\ lost' \in BOOLEAN
      /\ Len(txq') <= Len(txq) + 1
      /\ irq_enable' = irq_enable
      /\ lost' => rx_overflow' # 0 \/ err # {}
  BY <1>1, <1>3, WriteFacts
<1>5. LossInv' /\ LossNoticed' BY <1>1, <1>4, HandlerRuns, HandlerKeepsLoss
<1>6. Len(txq') \in 0..Depth BY <1>4 DEF PortTypeOK
<1>7. CASE i + 1 < n /\ i' = i + 1 /\ UNCHANGED <<isr, pending, buf, n>>
  <2>1. i' \in 0..BufSize BY <1>7, Counts
  <2>2. TypeOK' BY <1>1, <1>4, <1>7, <2>1 DEF IInv, TypeOK, thread
  <2>3. FillFits'
    <3>1. n - i <= Depth - Len(txq) BY <1>1 DEF IInv, FillFits, tx_free
    <3>2. n' - i' <= Depth - Len(txq') BY <3>1, <1>7, <1>4, <1>6, Counts
    <3> QED BY <3>2 DEF FillFits, tx_free
  <2>4. MoveInv' BY <1>1, <1>2, <1>7 DEF MoveInv, Moves
  <2>5. WakeInv' BY <1>1, <1>4, <1>7 DEF IInv, WakeInv
  <2> QED BY <1>5, <2>2, <2>3, <2>4, <2>5 DEF IInv
<1>8. CASE i + 1 = n /\ n < Len(buf) /\ PutRest(From(buf, n))
  <2>1. From(buf, n) \in Seq(Byte)
    <3>1. n \in Nat /\ n <= Len(buf) BY <1>2, Counts
    <3> QED BY <3>1, Counts, FromFacts
  <2>2. /\ pending' \in Seq(Byte) /\ Len(pending') <= Ring
        /\ isr' = "tx_enable" /\ buf' = << >> /\ n' = 0 /\ i' = 0
    BY <1>8, <2>1, PutRestFacts
  <2>3. TypeOK' BY <1>1, <1>4, <2>2, Counts DEF IInv, TypeOK, Steps, thread
  <2>4. FillFits' /\ MoveInv' BY <2>2 DEF FillFits, MoveInv, Moves
  <2>5. WakeInv' BY <1>1, <1>4, <2>2 DEF IInv, WakeInv
  <2> QED BY <1>5, <2>3, <2>4, <2>5 DEF IInv
<1>9. CASE /\ i + 1 = n /\ n = Len(buf)
           /\ Goto("irq_status") /\ buf' = << >> /\ n' = 0 /\ i' = 0 /\ UNCHANGED pending
  <2>1. isr' = "irq_status" BY <1>9 DEF Goto
  <2>2. TypeOK' BY <1>1, <1>4, <1>9, <2>1, Counts DEF IInv, TypeOK, Steps, thread
  <2>3. FillFits' /\ MoveInv' BY <1>9, <2>1 DEF FillFits, MoveInv, Moves
  <2>4. WakeInv' BY <1>1, <1>4, <1>9, <2>1 DEF IInv, WakeInv
  <2> QED BY <1>5, <2>2, <2>3, <2>4 DEF IInv
<1> QED BY <1>7, <1>8, <1>9 DEF EchoWrite

--------------------------------------------------------------------------------
\* The steps of the main thread, of the interrupt and of the port alone.

LEMMA InterruptStep ==
    ASSUME IInv, Interrupt
    PROVE  IInv'
<1>1. /\ isr = "out" /\ main \notin Starting /\ isr' = "irq_status"
      /\ UNCHANGED <<portVars, thread, enabled, moving, lost>>
  BY DEF Interrupt, Goto
<1>2. UNCHANGED <<rxq, txq, held, out, last, receiving, quiet, level, irq_enable,
                  rx_overflow, rx_framing, main, err, pending, buf, n, i>>
  BY <1>1 DEF portVars, transmitter, receiver, regs, thread, moving
<1>3. TypeOK' BY <1>1, <1>2 DEF IInv, TypeOK, PortTypeOK, Steps
<1>4. FillFits' /\ MoveInv' BY <1>1, <1>2 DEF IInv, FillFits, MoveInv, Moves
<1>5. WakeInv' BY <1>1, <1>2 DEF IInv, WakeInv
<1>6. LossInv' /\ LossNoticed' BY <1>1, <1>2 DEF IInv, LossInv, LossNoticed
<1> QED BY <1>3, <1>4, <1>5, <1>6 DEF IInv

\* A clock while the main thread starts: nothing counts as lost yet.
LEMMA StartFacts ==
    ASSUME IInv, PortAssumption, main \in Starting, NEW op, Access(op),
           ~DoesWrite(op, "DATA"),
           DoesWrite(op, "IRQ_ENABLE") => op.v \subseteq {"RX", "TX"},
           DoesWrite(op, "IRQ_LEVELS") => op.v \in 0..Depth
    PROVE  /\ PortTypeOK' /\ lost' = FALSE /\ isr = "out" /\ err = {}
           /\ irq_enable' = IF DoesWrite(op, "IRQ_ENABLE") THEN op.v ELSE irq_enable
<1>1. PICK line \in Lines, takes \in BOOLEAN : ClockWith(op, line, takes) BY DEF Access
<1>2. Clock(op, line, takes) BY <1>1 DEF ClockWith
<1>3. DoesWrite(op, "DATA") => op.v \in Byte OBVIOUS
<1>4. /\ PortTypeOK'
      /\ irq_enable' = IF DoesWrite(op, "IRQ_ENABLE") THEN op.v ELSE irq_enable
  BY <1>2, <1>3, ClockFacts
<1>5. ~lost /\ isr = "out" /\ err = {} BY DEF IInv, LossInv, Starting
<1>6. lost' = FALSE BY <1>1, <1>5 DEF ClockWith
<1> QED BY <1>4, <1>5, <1>6

\* What the handler works on stays as it is while it does not run.
LEMMA OutFacts ==
    ASSUME IInv, isr = "out", UNCHANGED <<isr, moving>>
    PROVE  FillFits' /\ MoveInv'
BY DEF IInv, FillFits, MoveInv, Moves, moving

LEMMA InitStep ==
    ASSUME IInv, PortAssumption, EchoAssumption, uart_axc3000_init
    PROVE  IInv'
<1>1. /\ main \in Starting /\ main' \in Starting /\ isr = "out"
      /\ UNCHANGED <<err, enabled, isr, moving>>
  BY DEF uart_axc3000_init, At, Then, Starting
<1>2. /\ PortTypeOK' /\ lost' = FALSE /\ err = {}
      /\ irq_enable' \in {irq_enable, {}}
  <2>1. CASE Access(Write("IRQ_ENABLE", {}))
    <3>1. /\ ~DoesWrite(Write("IRQ_ENABLE", {}), "DATA")
          /\ DoesWrite(Write("IRQ_ENABLE", {}), "IRQ_ENABLE")
          /\ ~DoesWrite(Write("IRQ_ENABLE", {}), "IRQ_LEVELS")
          /\ Write("IRQ_ENABLE", {}).v = {}
      BY OpFacts
    <3>2. Write("IRQ_ENABLE", {}).v \subseteq {"RX", "TX"} BY <3>1
    <3> QED BY <2>1, <1>1, <3>1, <3>2, StartFacts
  <2>2. CASE Access(Write("IRQ_LEVELS", Level))
    <3>1. /\ ~DoesWrite(Write("IRQ_LEVELS", Level), "DATA")
          /\ ~DoesWrite(Write("IRQ_LEVELS", Level), "IRQ_ENABLE")
          /\ Write("IRQ_LEVELS", Level).v = Level
      BY OpFacts
    <3>2. Write("IRQ_LEVELS", Level).v \in 0..Depth
      BY <3>1 DEF EchoAssumption, PortAssumption
    <3> QED BY <2>2, <1>1, <3>1, <3>2, StartFacts
  <2>3. CASE Access(Write("ERRORS", 0))
    <3>1. /\ ~DoesWrite(Write("ERRORS", 0), "DATA")
          /\ ~DoesWrite(Write("ERRORS", 0), "IRQ_ENABLE")
          /\ ~DoesWrite(Write("ERRORS", 0), "IRQ_LEVELS")
      BY OpFacts
    <3> QED BY <2>3, <1>1, <3>1, StartFacts
  <2> QED BY <2>1, <2>2, <2>3 DEF uart_axc3000_init
<1>3. enabled = {} /\ pending = << >> /\ irq_enable = {}
  BY <1>1 DEF IInv, LossInv, WakeInv
<1>4. FillFits' /\ MoveInv' BY <1>1, OutFacts
<1>5. UNCHANGED <<pending, buf, n, i>> BY <1>1 DEF moving
<1>6. TypeOK' BY <1>1, <1>2, <1>5 DEF IInv, TypeOK
<1>7. WakeInv' BY <1>1, <1>2, <1>3, <1>5 DEF WakeInv
<1>8. LossInv' /\ LossNoticed'
  BY <1>1, <1>2, <1>3, <1>5 DEF LossInv, LossNoticed, Starting
<1> QED BY <1>4, <1>6, <1>7, <1>8 DEF IInv

LEMMA RxEnableStep ==
    ASSUME IInv, PortAssumption, EchoAssumption, uart_irq_rx_enable
    PROVE  IInv'
<1>1. /\ main = "rx_enable" /\ main' = "sleep" /\ isr = "out"
      /\ enabled' = enabled \cup {"RX"} /\ Access(Write("IRQ_ENABLE", enabled \cup {"RX"}))
      /\ UNCHANGED <<err, isr, moving>>
  BY DEF uart_irq_rx_enable, At, Then, set_irq_enable
<1>2. enabled = {} /\ pending = << >> BY <1>1 DEF IInv, LossInv, Starting
<1>3. /\ PortTypeOK' /\ lost' = FALSE /\ err = {}
      /\ irq_enable' = {"RX"}
  <2>1. /\ ~DoesWrite(Write("IRQ_ENABLE", {"RX"}), "DATA")
        /\ DoesWrite(Write("IRQ_ENABLE", {"RX"}), "IRQ_ENABLE")
        /\ ~DoesWrite(Write("IRQ_ENABLE", {"RX"}), "IRQ_LEVELS")
        /\ Write("IRQ_ENABLE", {"RX"}).v = {"RX"}
    BY OpFacts
  <2>2. Write("IRQ_ENABLE", {"RX"}).v \subseteq {"RX", "TX"} BY <2>1
  <2>3. Access(Write("IRQ_ENABLE", {"RX"})) /\ main \in Starting BY <1>1, <1>2 DEF Starting
  <2> QED BY <2>1, <2>2, <2>3, StartFacts
<1>4. FillFits' /\ MoveInv' BY <1>1, OutFacts
<1>5. UNCHANGED <<pending, buf, n, i>> BY <1>1 DEF moving
<1>6. TypeOK' BY <1>1, <1>2, <1>3, <1>5 DEF IInv, TypeOK
<1>7. WakeInv' BY <1>1, <1>2, <1>3, <1>5 DEF WakeInv
<1>8. LossInv' /\ LossNoticed' BY <1>1, <1>3 DEF LossInv, LossNoticed, Starting
<1> QED BY <1>4, <1>6, <1>7, <1>8 DEF IInv

\* A read that finds no error has seen every loss before it; those after it are counted.
LEMMA ErrCheckStep ==
    ASSUME IInv, PortAssumption, EchoAssumption, err_check
    PROVE  IInv'
<1>1. /\ main = "sleep" /\ isr = "out" /\ Access(Read("ERRORS"))
      /\ UNCHANGED <<isr, moving, enabled>>
      /\ main' = IF err' = {} THEN "sleep" ELSE "clear"
  BY DEF err_check, At
<1>2. main \notin Starting /\ err = {} BY <1>1 DEF IInv, LossInv, Starting
<1>3. /\ PortTypeOK' /\ lost' \in BOOLEAN /\ irq_enable' = irq_enable
      /\ lost' => rx_overflow' # 0 \/ err # {}
  <2>1. \A q : ~DoesWrite(Read("ERRORS"), q) BY OpFacts
  <2> QED BY <1>1, <1>2, <2>1, AccessFacts
<1>4. err' \subseteq Errors BY DEF err_check, Errors
<1>5. FillFits' /\ MoveInv' BY <1>1, OutFacts
<1>6. UNCHANGED <<pending, buf, n, i>> BY <1>1 DEF moving
<1>7. TypeOK' BY <1>1, <1>3, <1>4, <1>6 DEF IInv, TypeOK
<1>8. WakeInv' BY <1>1, <1>3, <1>6 DEF IInv, WakeInv
<1>9. LossInv' /\ LossNoticed' BY <1>1, <1>2, <1>3 DEF LossInv, LossNoticed, Starting
<1> QED BY <1>5, <1>7, <1>8, <1>9 DEF IInv

LEMMA ClearErrorsStep ==
    ASSUME IInv, PortAssumption, EchoAssumption, ClearErrors
    PROVE  IInv'
<1>1. PICK line \in Lines, takes \in BOOLEAN : Clock(Write("ERRORS", 0), line, takes)
  BY DEF ClearErrors
<1>2. /\ isr = "out" /\ main' = "sleep" /\ err' = {} /\ lost' = FALSE
      /\ UNCHANGED <<isr, moving, enabled>>
  BY DEF ClearErrors, At
<1>3. PortTypeOK' /\ irq_enable' = irq_enable
  <2>1. /\ ~DoesWrite(Write("ERRORS", 0), "DATA")
        /\ ~DoesWrite(Write("ERRORS", 0), "IRQ_ENABLE")
        /\ ~DoesWrite(Write("ERRORS", 0), "IRQ_LEVELS")
    BY OpFacts
  <2> QED BY <1>1, <2>1, ClockFacts
<1>4. FillFits' /\ MoveInv' BY <1>2, OutFacts
<1>5. UNCHANGED <<pending, buf, n, i>> BY <1>2 DEF moving
<1>6. TypeOK' BY <1>2, <1>3, <1>5 DEF IInv, TypeOK, Errors
<1>7. WakeInv' BY <1>2, <1>3, <1>5 DEF IInv, WakeInv
<1>8. LossInv' /\ LossNoticed' BY <1>2 DEF LossInv, LossNoticed, Starting
<1> QED BY <1>4, <1>6, <1>7, <1>8 DEF IInv

\* A clock without an access.
LEMMA IdleStep ==
    ASSUME IInv, PortAssumption, EchoAssumption, Idle
    PROVE  IInv'
<1>1. Access(None) /\ UNCHANGED <<main, err, isr, enabled, pending, buf, n, i>>
  BY DEF Idle, Elsewhere, thread, moving
<1>2. /\ \A q : ~DoesWrite(None, q)
      /\ ~DoesRead(None, "DATA")
  BY OpFacts
<1>3. PICK line \in Lines, takes \in BOOLEAN : ClockWith(None, line, takes) BY <1>1 DEF Access
<1>4. /\ PortTypeOK'
      /\ Len(txq') <= Len(txq) /\ Len(rxq') >= Len(rxq)
      /\ irq_enable' = irq_enable
      /\ rx_overflow # 0 => rx_overflow' # 0
      /\ line \in Byte /\ Len(rxq) = Depth => rx_overflow' # 0
  <2>1. Clock(None, line, takes) BY <1>3 DEF ClockWith
  <2> QED BY <1>2, <2>1, ClockFacts
<1>5. lost' = (lost \/ (line \in Byte /\ Len(rxq) = Depth /\ main \notin Starting))
  BY <1>3 DEF ClockWith
<1>6. /\ Len(txq) \in Nat /\ Len(txq') \in Nat /\ Len(rxq) \in Nat /\ Len(rxq') \in Nat
      /\ n \in Nat /\ i \in Nat /\ Depth \in Nat
  <2>1. Len(txq') \in Nat /\ Len(rxq') \in Nat BY <1>4 DEF PortTypeOK
  <2> QED BY <2>1, Counts
<1>7. TypeOK' BY <1>1, <1>4, <1>5 DEF IInv, TypeOK
<1>8. FillFits'
  <2>1. SUFFICES ASSUME isr \in {"send_claimed", "send_some", "echo"}
                 PROVE  n - i <= Depth - Len(txq')
    BY <1>1 DEF FillFits, tx_free
  <2>2. n - i <= Depth - Len(txq) BY <2>1 DEF IInv, FillFits, tx_free
  <2> QED BY <2>2, <1>4, <1>6
<1>9. MoveInv'
  <2>1. Len(rxq) > 0 => Len(rxq') > 0 BY <1>4, <1>6
  <2> QED BY <1>1, <2>1 DEF IInv, MoveInv, Moves
<1>10. WakeInv' BY <1>1, <1>4 DEF IInv, WakeInv
<1>11. LossInv' BY <1>1, <1>5 DEF IInv, LossInv
<1>12. LossNoticed' BY <1>1, <1>4, <1>5 DEF IInv, LossNoticed
<1> QED BY <1>7, <1>8, <1>9, <1>10, <1>11, <1>12 DEF IInv
--------------------------------------------------------------------------------
LEMMA EmptyFacts ==
    ASSUME NEW S, NEW s, s = << >>
    PROVE  s \in Seq(S) /\ Len(s) = 0
OBVIOUS

LEMMA Initial == PortAssumption /\ EchoAssumption /\ Init => IInv
<1> SUFFICES ASSUME PortAssumption, EchoAssumption, Init PROVE IInv
  OBVIOUS
<1>1. PortTypeOK
  <2>1. /\ rxq \in Seq(Byte) /\ Len(rxq) = 0 /\ txq \in Seq(Byte) /\ Len(txq) = 0
        /\ held \in Seq(Byte) /\ Len(held) = 0
    BY EmptyFacts DEF Init, PortInit
  <2>2. /\ out \in Byte /\ last = out
        /\ receiving = FALSE /\ quiet = FALSE /\ level = 1 /\ irq_enable = {}
        /\ rx_overflow = 0 /\ rx_framing = 0
    BY DEF Init, PortInit
  <2>3. Depth \in Nat \ {0} /\ MaxCount \in Nat \ {0} BY DEF PortAssumption
  <2> QED
    <3>1. rxq \in Seq(Byte) /\ Len(rxq) <= Depth BY <2>1, <2>3
    <3>2. txq \in Seq(Byte) /\ Len(txq) <= Depth BY <2>1, <2>3
    <3>3. held \in Seq(Byte) /\ Len(held) <= 1 BY <2>1
    <3>4. level \in 0..Depth /\ rx_overflow \in 0..MaxCount /\ rx_framing \in 0..MaxCount
      BY <2>2, <2>3
    <3> QED BY <2>2, <3>1, <3>2, <3>3, <3>4 DEF PortTypeOK
<1>2. /\ main = "start" /\ err = {} /\ isr = "out" /\ enabled = {}
      /\ pending = << >> /\ buf = << >> /\ n = 0 /\ i = 0 /\ lost = FALSE
      /\ irq_enable = {}
  BY DEF Init, PortInit
<1>3. TypeOK
  <2>1. /\ pending \in Seq(Byte) /\ Len(pending) = 0 /\ buf \in Seq(Byte) /\ Len(buf) = 0
    BY <1>2, EmptyFacts
  <2>2. 0 \in 0..BufSize /\ 0 <= Ring /\ 0 <= BufSize BY DEF EchoAssumption
  <2> QED BY <1>1, <1>2, <2>1, <2>2 DEF TypeOK, Starting, Steps
<1>4. FillFits /\ MoveInv /\ WakeInv /\ LossInv /\ LossNoticed
  BY <1>2 DEF FillFits, MoveInv, Moves, WakeInv, LossInv, LossNoticed, Starting
<1> QED BY <1>3, <1>4 DEF IInv

LEMMA Step == IInv /\ [Next]_vars => IInv'
<1> SUFFICES ASSUME IInv, [Next]_vars PROVE IInv'
  OBVIOUS
<1> USE PortAssumption, EchoAssumption
<1>1. CASE Interrupt BY <1>1, InterruptStep
<1>2. CASE Handler
  BY <1>2, IrqStatusStep, FillClaimedStep, SendClaimedStep, TxDisableStep, RxReadyStep,
     RxCountStep, FifoReadStep, EchoFillStep, EchoWriteStep, TxEnableStep DEF Handler
<1>3. CASE Thread
  BY <1>3, InitStep, RxEnableStep, ErrCheckStep, ClearErrorsStep DEF Thread, Startup
<1>4. CASE Idle BY <1>4, IdleStep
<1>5. CASE UNCHANGED vars
  <2>1. UNCHANGED <<rxq, txq, held, out, last, receiving, quiet, level, irq_enable,
                    rx_overflow, rx_framing, main, err, isr, enabled, pending, buf, n, i, lost>>
    BY <1>5 DEF vars, portVars, transmitter, receiver, regs, thread, moving
  <2>2. TypeOK' BY <2>1 DEF IInv, TypeOK, PortTypeOK
  <2>3. FillFits' /\ MoveInv' BY <2>1 DEF IInv, FillFits, MoveInv, Moves, tx_free
  <2>4. WakeInv' /\ LossInv' /\ LossNoticed' BY <2>1 DEF IInv, WakeInv, LossInv, LossNoticed
  <2> QED BY <2>2, <2>3, <2>4 DEF IInv
<1> QED BY <1>1, <1>2, <1>3, <1>4, <1>5 DEF Next

LEMMA Invariant == Spec => []IInv
<1>1. Init => IInv BY Initial, PortAssumption, EchoAssumption
<1> QED BY <1>1, Step, PTL DEF Spec

\* Every variable of the port, the driver and the application keeps its type, the ring and
\* the handler's buffer their bounds (uart_axc3000.c, uart_fifo_test/src/main.c).
THEOREM EchoTypeCorrect == Spec => []TypeOK
<1>1. IInv => TypeOK BY DEF IInv
<1> QED BY <1>1, Invariant, PTL

\* uart_fifo_fill never writes into a full TX FIFO: the room it read in STATUS can only have
\* grown by the time it writes, for every depth.
THEOREM EchoFillFits == Spec => []FillFits
<1>1. IInv => FillFits BY DEF IInv
<1> QED BY <1>1, Invariant, PTL

\* uart_isr never leaves bytes in the ring with the TX interrupt off, in whatever order bytes
\* arrive and leave between its register accesses.
THEOREM EchoWakesUp == Spec => []WakesUp
<1>1. IInv => WakesUp BY DEF IInv, WakeInv, WakesUp
<1> QED BY <1>1, Invariant, PTL

\* No overrun is cleared by uart_err_check without having been reported, although the line
\* goes on between its read of ERRORS and its write.
THEOREM EchoLossNoticed == Spec => []LossNoticed
<1>1. IInv => LossNoticed BY DEF IInv
<1> QED BY <1>1, Invariant, PTL
--------------------------------------------------------------------------------
\* The refinement: every step of driver, handler and port is one of EchoLine. First what the
\* library does not say about concatenation and parts of sequences.

\* A sequence is what a prefix leaves; and the other way round.
LEMMA PrefixSuffix ==
    ASSUME NEW S, NEW u \in Seq(S), NEW v \in Seq(S)
    PROVE  SubSeq(u \o v, 1, Len(u)) = u /\ From(u \o v, Len(u)) = v
<1> DEFINE s == u \o v
<1>1. s \in Seq(S) /\ Len(s) = Len(u) + Len(v) /\ Len(u) \in Nat /\ Len(v) \in Nat
  BY ConcatProperties
<1>2. /\ \A k \in 1..Len(u) : s[k] = u[k]
      /\ \A k \in 1..Len(v) : s[Len(u) + k] = v[k]
  <2>1. \A k \in 1..(Len(u) + Len(v)) : s[k] = IF k <= Len(u) THEN u[k] ELSE v[k - Len(u)]
    BY ConcatProperties
  <2> HIDE DEF s
  <2>2. ASSUME NEW k \in 1..Len(u) PROVE s[k] = u[k] BY <1>1, <2>1
  <2>3. ASSUME NEW k \in 1..Len(v) PROVE s[Len(u) + k] = v[k]
    <3>1. Len(u) + k \in 1..(Len(u) + Len(v)) /\ ~(Len(u) + k <= Len(u)) /\ (Len(u) + k) - Len(u) = k
      BY <1>1
    <3> QED BY <2>1, <3>1
  <2> QED BY <2>2, <2>3
<1> HIDE DEF s
<1>3. SubSeq(s, 1, Len(u)) = u
  <2>1. /\ SubSeq(s, 1, Len(u)) \in Seq(S) /\ Len(SubSeq(s, 1, Len(u))) = Len(u)
        /\ \A k \in 1..Len(u) : SubSeq(s, 1, Len(u))[k] = s[k]
    BY <1>1
  <2> QED BY <1>2, <2>1, SeqEqual
<1>4. From(s, Len(u)) = v
  <2>1. /\ From(s, Len(u)) \in Seq(S) /\ Len(From(s, Len(u))) = Len(v)
        /\ \A k \in 1..Len(v) : From(s, Len(u))[k] = s[Len(u) + k]
    BY <1>1 DEF From
  <2> QED BY <1>2, <2>1, SeqEqual
<1> QED BY <1>3, <1>4 DEF s

\* From 0 on, a sequence is all there.
LEMMA FromNone ==
    ASSUME NEW S, NEW s \in Seq(S)
    PROVE  From(s, 0) = s
BY SubSeqFull DEF From

LEMMA HeadIs ==
    ASSUME NEW S, NEW s \in Seq(S), Len(s) >= 1
    PROVE  Head(s) = s[1]
OBVIOUS

\* The next element moves to the front.
LEMMA FromNext ==
    ASSUME NEW S, NEW s \in Seq(S), NEW k \in Nat, k < Len(s)
    PROVE  /\ From(s, k) = <<s[k + 1]>> \o From(s, k + 1)
           /\ From(s, k) \in Seq(S) /\ From(s, k + 1) \in Seq(S) /\ s[k + 1] \in S
<1>1. k + 1 \in 1..Len(s) /\ Len(s) \in (k + 1)..Len(s) /\ k <= Len(s) /\ k + 1 <= Len(s) /\ k + 1 \in Nat
  OBVIOUS
<1>2. SubSeq(s, k + 1, Len(s)) = <<s[k + 1]>> \o SubSeq(s, (k + 1) + 1, Len(s))
  BY <1>1, SubSeqRecursiveFirst
<1> QED BY <1>1, <1>2, FromFacts DEF From

LEMMA HeadFirst ==
    ASSUME NEW S, NEW s \in Seq(S), s # << >>
    PROVE  s = <<Head(s)>> \o Tail(s)
<1>1. Len(s) > 0 /\ Head(s) = s[1] /\ Tail(s) = From(s, 1) BY DEF From
<1>2. From(s, 0) = <<s[0 + 1]>> \o From(s, 0 + 1) BY <1>1, FromNext
<1> QED BY <1>1, <1>2, FromNone
--------------------------------------------------------------------------------
\* Concatenation under a name of its own: the provers need its laws only.
Cat(s, t) == s \o t

\* The law in the direction the proofs use it.
LEMMA Assoc ==
    ASSUME NEW S, NEW s \in Seq(S), NEW t \in Seq(S), NEW u \in Seq(S)
    PROVE  s \o (t \o u) = (s \o t) \o u
BY ConcatAssociative

\* Behind the first two of three parts comes the third.
LEMMA MiddleOut ==
    ASSUME NEW S, NEW u \in Seq(S), NEW v \in Seq(S), NEW t \in Seq(S)
    PROVE  From(u \o (v \o t), Len(u) + Len(v)) = t
<1>1. u \o (v \o t) = (u \o v) \o t BY Assoc
<1>2. u \o v \in Seq(S) /\ Len(u \o v) = Len(u) + Len(v) BY ConcatProperties
<1>3. From((u \o v) \o t, Len(u \o v)) = t BY <1>2, PrefixSuffix
<1> QED BY <1>1, <1>2, <1>3

LEMMA ZeroOne == \A m \in Nat : m <= 1 => m \in {0, 1}
OBVIOUS

\* A step that sends the bytes K, drops V behind U, and receives a.
LEMMA EchoMove ==
    ASSUME EchoAssumption, NEW K \in Seq(Byte), NEW U \in Seq(Byte), NEW V \in Seq(Byte), NEW T \in Seq(Byte),
           NEW a, a = << >> \/ \E b \in Byte : a = <<b>>,
           Len(K) <= 1, V # << >> => Ring <= Len(U),
           InFlight = Cat(K, Cat(U, Cat(V, T))), InFlight' = Cat(Cat(U, T), a),
           out' = IF K = << >> THEN out ELSE Head(K)
    PROVE  Echo!Next
<1> DEFINE L == U \o (V \o T)
           k == Len(K)
           i0 == Len(U)
           j0 == Len(U) + Len(V)
<1>1. /\ V \o T \in Seq(Byte) /\ L \in Seq(Byte) /\ U \o V \in Seq(Byte)
      /\ Len(V \o T) = Len(V) + Len(T) /\ Len(L) = Len(U) + Len(V) + Len(T)
      /\ Len(U) \in Nat /\ Len(V) \in Nat /\ Len(T) \in Nat /\ Len(K) \in {0, 1}
  <2>1. Len(U) \in Nat /\ Len(V) \in Nat /\ Len(T) \in Nat /\ Len(K) \in Nat OBVIOUS
  <2>4. Len(K) \in {0, 1} BY <2>1, ZeroOne
  <2>2. V \o T \in Seq(Byte) /\ Len(V \o T) = Len(V) + Len(T) /\ U \o V \in Seq(Byte) BY ConcatProperties
  <2>3. L \in Seq(Byte) /\ Len(L) = Len(U) + Len(V \o T) BY <2>2, ConcatProperties
  <2> HIDE DEF L
  <2>6. Len(L) = Len(U) + Len(V) + Len(T) BY <2>1, <2>2, <2>3
  <2> QED BY <2>1, <2>2, <2>3, <2>4, <2>6
<1>2. InFlight = K \o L BY DEF Cat
<1> HIDE DEF L
<1>3. Echo!Left(k) = L
  <2>1. Echo!Left(k) = From(InFlight, k) BY DEF Echo!Left, From
  <2>2. From(K \o L, Len(K)) = L BY <1>1, PrefixSuffix
  <2> QED BY <1>2, <2>1, <2>2
<1>4. Echo!Sent(k)
  <2>1. Len(InFlight) = Len(K) + Len(L)
    <3>1. Len(K \o L) = Len(K) + Len(L) BY <1>1, ConcatFacts
    <3> QED BY <1>2, <3>1
  <2>2. k <= Len(InFlight) BY <1>1, <2>1
  <2>3. CASE K = << >>
    <3>1. k = 0 /\ out' = out BY <2>3
    <3> QED BY <2>2, <3>1 DEF Echo!Sent
  <2>4. CASE K # << >>
    <3>1. k = 1 BY <2>4, <1>1
    <3>2. Head(InFlight) = Head(K)
      <4>1. Len(InFlight) >= 1 BY <1>1, <2>1, <3>1
      <4>2. InFlight \in Seq(Byte) BY <1>1, <1>2, ConcatProperties
      <4>3. InFlight[1] = K[1]
        <5>1. 1 \in 1..(Len(K) + Len(L)) /\ 1 <= Len(K) BY <1>1, <3>1
        <5> QED BY <1>1, <1>2, <5>1, ConcatProperties
      <4>4. Head(InFlight) = InFlight[1] BY <4>1, <4>2, HeadIs
      <4>5. Head(K) = K[1] BY <3>1, HeadIs
      <4> QED BY <4>3, <4>4, <4>5
    <3>3. out' = Head(K) BY <2>4
    <3> QED BY <2>2, <3>1, <3>2, <3>3 DEF Echo!Sent
  <2> QED BY <2>3, <2>4
<1>5. Echo!Without(L, i0, j0) = U \o T
  <2>1. SubSeq(L, 1, i0) = U
    BY <1>1, PrefixSuffix DEF L
  <2>2. From(L, j0) = T
    BY MiddleOut DEF L
  <2> QED BY <2>1, <2>2 DEF Echo!Without, From
<1>6. i0 \in 0..Len(L) /\ j0 \in 0..Len(L) /\ i0 <= j0 BY <1>1
<1>7. i0 < j0 => Ring <= i0
  <2>1. i0 < j0 => V # << >> BY <1>1
  <2> QED BY <2>1
<1>8. a \in {<< >>} \cup {<<b>> : b \in Byte} OBVIOUS
<1>9. k \in {0, 1} BY <1>1
<1> HIDE DEF k, i0, j0
<1>10. InFlight' = Echo!Without(Echo!Left(k), i0, j0) \o a BY <1>3, <1>5 DEF Cat
<1>11. i0 \in 0..Len(Echo!Left(k)) /\ j0 \in 0..Len(Echo!Left(k)) BY <1>3, <1>6
<1> QED BY <1>4, <1>6, <1>7, <1>8, <1>9, <1>10, <1>11 DEF Echo!Next
--------------------------------------------------------------------------------
\* What of the ring and of the handler's buffer is still to move.
RingPart == IF isr \in {"send_claimed", "send_some"} THEN From(pending, i) ELSE pending
BufPart == IF isr = "echo" THEN From(buf, i) ELSE buf
Waiting == RingPart \o BufPart

\* A clock: the line takes K of what is in front of the FIFO's end, the bytes W go in there,
\* P comes out of the RX FIFO, a is received.
Passes(W, P) ==
    \E K \in Seq(Byte), A \in Seq(Byte), X \in Seq(Byte), a \in {<< >>} \cup {<<b>> : b \in Byte} :
        /\ Len(K) <= 1 /\ out' = IF K = << >> THEN out ELSE Head(K)
        /\ held \o txq = K \o A /\ held' \o txq' = A \o W
        /\ rxq = P \o X /\ rxq' = X \o a

Given(op) == IF DoesWrite(op, "DATA") THEN <<op.v>> ELSE << >>
Taken(op) == IF DoesRead(op, "DATA") THEN Popped ELSE << >>

\* A clock passes the byte that is written and the byte that is read.
LEMMA ClockPasses ==
    ASSUME IInv, PortAssumption, NEW op, NEW line \in Lines, NEW takes \in BOOLEAN,
           Clock(op, line, takes),
           DoesWrite(op, "DATA") => op.v \in Byte /\ Len(txq) # Depth
    PROVE  Passes(Given(op), Taken(op))
<1>1. /\ txq \in Seq(Byte) /\ held \in Seq(Byte) /\ Len(held) <= 1 /\ rxq \in Seq(Byte)
      /\ held \o txq \in Seq(Byte) /\ << >> \in Seq(Byte)
  <2>1. txq \in Seq(Byte) /\ held \in Seq(Byte) /\ Len(held) <= 1 /\ rxq \in Seq(Byte)
    BY DEF IInv, TypeOK, PortTypeOK
  <2> QED BY <2>1, ConcatProperties
<1> DEFINE refill == txq # << >> /\ (held = << >> \/ takes)
           rest == IF refill THEN Tail(txq) ELSE txq
           W == Given(op)
           P == Taken(op)
<1>2. W \in Seq(Byte)
  <2>1. CASE DoesWrite(op, "DATA")
    <3>1. op.v \in Byte BY <2>1
    <3> QED BY <2>1, <3>1 DEF Given
  <2>2. CASE ~DoesWrite(op, "DATA") BY <2>2 DEF Given
  <2> QED BY <2>1, <2>2
<1>3. rest \in Seq(Byte) BY <1>1, TailFacts
<1>4. txq' = rest \o W
  <2>1. txq' = IF DoesWrite(op, "DATA") /\ Len(txq) # Depth THEN Append(rest, op.v) ELSE rest
    BY DEF Clock, Transmit
  <2> HIDE DEF rest
  <2>2. CASE DoesWrite(op, "DATA")
    <3>1. txq' = Append(rest, op.v) /\ op.v \in Byte BY <2>1, <2>2
    <3>2. Append(rest, op.v) = rest \o <<op.v>> BY <1>3, <3>1, AppendIsConcat
    <3> QED BY <2>2, <3>1, <3>2 DEF Given
  <2>3. CASE ~DoesWrite(op, "DATA")
    <3>1. txq' = rest BY <2>1, <2>3
    <3> QED BY <1>3, <2>3, <3>1, ConcatEmptySeq DEF Given
  <2> QED BY <2>2, <2>3
<1>5. /\ takes => held # << >>
      /\ out' = IF takes THEN Head(held) ELSE out
      /\ held' = IF refill THEN <<Head(txq)>> ELSE IF takes THEN << >> ELSE held
  BY DEF Clock, Transmit
<1>6. \E K \in Seq(Byte), A \in Seq(Byte) :
        /\ Len(K) <= 1 /\ out' = IF K = << >> THEN out ELSE Head(K)
        /\ held \o txq = K \o A /\ held' \o txq' = A \o W
  <2>1. CASE refill
    <3>1. Tail(txq) \in Seq(Byte) /\ <<Head(txq)>> \in Seq(Byte) BY <1>1, <2>1, TailFacts
    <3>2. held' = <<Head(txq)>> /\ txq' = Tail(txq) \o W BY <1>4, <1>5, <2>1
    <3>3. <<Head(txq)>> \o (Tail(txq) \o W) = (<<Head(txq)>> \o Tail(txq)) \o W
      BY <1>2, <3>1, ConcatAssociative
    <3>4. txq = <<Head(txq)>> \o Tail(txq) BY <1>1, <2>1, HeadFirst
    <3>5. held' \o txq' = txq \o W BY <3>2, <3>3, <3>4
    <3>6. out' = IF held = << >> THEN out ELSE Head(held)
      <4>1. CASE takes BY <4>1, <1>5
      <4>2. CASE ~takes BY <4>2, <1>5, <2>1
      <4> QED BY <4>1, <4>2
    <3> QED BY <1>1, <3>5, <3>6
  <2>2. CASE ~refill /\ takes
    <3>1. txq = << >> /\ held # << >> BY <1>5, <2>2
    <3>2. held' = << >> /\ txq' = txq \o W BY <1>4, <1>5, <2>2
    <3>3. held' \o txq' = txq \o W
      <4>1. txq \o W \in Seq(Byte) BY <1>1, <1>2, ConcatProperties
      <4> QED BY <4>1, <3>2, ConcatEmptySeq
    <3>4. out' = Head(held) BY <1>5, <2>2
    <3> QED BY <1>1, <3>1, <3>3, <3>4
  <2>3. CASE ~refill /\ ~takes
    <3>1. held' = held /\ txq' = txq \o W /\ out' = out BY <1>4, <1>5, <2>3
    <3>2. held \o (txq \o W) = (held \o txq) \o W
      <4>1. held \in Seq(Byte) /\ txq \in Seq(Byte) /\ W \in Seq(Byte) BY <1>1, <1>2
      <4> QED BY <4>1, ConcatAssociative
    <3>3. held \o txq = << >> \o (held \o txq) BY <1>1, ConcatEmptySeq
    <3>4. held' \o txq' = (held \o txq) \o W BY <3>1, <3>2
    <3>5. Len(<< >>) <= 1 OBVIOUS
    <3> QED BY <1>1, <3>1, <3>3, <3>4, <3>5
  <2> QED BY <2>1, <2>2, <2>3
<1> HIDE DEF W, rest, refill
<1> DEFINE left == IF DoesRead(op, "DATA") /\ rxq # << >> THEN Tail(rxq) ELSE rxq
<1>7. left \in Seq(Byte) /\ rxq = P \o left
  <2>1. CASE DoesRead(op, "DATA") /\ rxq # << >>
    <3>1. Tail(rxq) \in Seq(Byte) BY <1>1, <2>1, TailFacts
    <3>2. rxq = <<Head(rxq)>> \o Tail(rxq) BY <1>1, <2>1, HeadFirst
    <3>3. P = <<Head(rxq)>> BY <2>1 DEF Taken, Popped
    <3> QED BY <2>1, <3>1, <3>2, <3>3
  <2>2. CASE ~(DoesRead(op, "DATA") /\ rxq # << >>)
    <3>1. P = << >> BY <2>2 DEF Taken, Popped
    <3>2. rxq = << >> \o rxq BY <1>1, ConcatEmptySeq
    <3> QED BY <1>1, <2>2, <3>1, <3>2
  <2> QED BY <2>1, <2>2
<1>8. rxq' = IF line \in Byte /\ Len(rxq) # Depth THEN Append(left, line) ELSE left
  BY DEF Clock, Receive
<1> HIDE DEF left, P
<1>9. \E a \in {<< >>} \cup {<<b>> : b \in Byte} : rxq' = left \o a
  <2>1. CASE line \in Byte /\ Len(rxq) # Depth
    <3>1. rxq' = left \o <<line>> BY <1>7, <1>8, <2>1, AppendIsConcat
    <3> QED BY <2>1, <3>1
  <2>2. CASE ~(line \in Byte /\ Len(rxq) # Depth)
    <3>1. rxq' = left \o << >> BY <1>7, <1>8, <2>2, ConcatEmptySeq
    <3> QED BY <3>1
  <2> QED BY <2>1, <2>2
<1>10. Passes(W, P) BY <1>6, <1>7, <1>9 DEF Passes
<1> QED BY <1>10 DEF W, P
--------------------------------------------------------------------------------
LEMMA CatFacts ==
    ASSUME NEW S, NEW s \in Seq(S), NEW t \in Seq(S)
    PROVE  /\ Cat(s, t) \in Seq(S) /\ Len(Cat(s, t)) = Len(s) + Len(t)
           /\ Len(t) <= Len(Cat(s, t))
<1>1. Cat(s, t) \in Seq(S) /\ Len(Cat(s, t)) = Len(s) + Len(t) BY ConcatFacts DEF Cat
<1>2. Len(s) \in Nat /\ Len(t) \in Nat OBVIOUS
<1> QED BY <1>1, <1>2

LEMMA CatAssoc ==
    ASSUME NEW S, NEW s \in Seq(S), NEW t \in Seq(S), NEW u \in Seq(S)
    PROVE  Cat(s, Cat(t, u)) = Cat(Cat(s, t), u)
BY ConcatAssociative DEF Cat

\* The same bytes, read as what is sent, what stays, what is dropped and what was there.
LEMMA Before ==
    ASSUME NEW S, NEW K, NEW A, NEW w, NEW P, NEW X, NEW W, NEW u, NEW V,
           K \in Seq(S), A \in Seq(S), w \in Seq(S), P \in Seq(S), X \in Seq(S),
           W \in Seq(S), u \in Seq(S), V \in Seq(S),
           Cat(w, P) = Cat(W, Cat(u, V))
    PROVE  Cat(Cat(Cat(K, A), w), Cat(P, X)) = Cat(K, Cat(Cat(A, Cat(W, u)), Cat(V, X)))
<1> DEFINE c == Cat(W, u)
           e == Cat(V, X)
<1>1. Cat(K, A) \in Seq(S) /\ Cat(P, X) \in Seq(S) /\ c \in Seq(S) /\ e \in Seq(S)
  BY CatFacts
<1>2. Cat(Cat(Cat(K, A), w), Cat(P, X)) = Cat(Cat(K, A), Cat(w, Cat(P, X)))
  BY <1>1, CatAssoc
<1>3. Cat(w, Cat(P, X)) = Cat(Cat(W, Cat(u, V)), X) BY CatAssoc
<1>4. Cat(W, Cat(u, V)) = Cat(c, V) BY CatAssoc
<1>5. Cat(Cat(c, V), X) = Cat(c, e) BY <1>1, CatAssoc
<1> HIDE DEF c, e
<1>6. Cat(c, e) \in Seq(S) BY <1>1, CatFacts
<1>7. Cat(Cat(K, A), Cat(c, e)) = Cat(K, Cat(A, Cat(c, e))) BY <1>6, CatAssoc
<1>8. Cat(A, Cat(c, e)) = Cat(Cat(A, c), e) BY <1>1, CatAssoc
<1>9. Cat(Cat(Cat(K, A), w), Cat(P, X)) = Cat(K, Cat(Cat(A, c), e))
  BY <1>2, <1>3, <1>4, <1>5, <1>7, <1>8
<1> QED BY <1>9 DEF c, e

\* And as what stays, what was there and what is received.
LEMMA Afterwards ==
    ASSUME NEW S, NEW A \in Seq(S), NEW W \in Seq(S), NEW u \in Seq(S), NEW X \in Seq(S),
           NEW a \in Seq(S)
    PROVE  /\ Cat(Cat(Cat(A, W), u), Cat(X, a)) = Cat(Cat(Cat(A, Cat(W, u)), X), a)
           /\ Cat(A, Cat(W, u)) \in Seq(S) /\ Len(u) <= Len(Cat(A, Cat(W, u)))
<1> DEFINE c == Cat(A, Cat(W, u))
<1>1. Cat(W, u) \in Seq(S) /\ Len(Cat(W, u)) \in Nat /\ Len(u) <= Len(Cat(W, u)) /\ Len(u) \in Nat
  BY CatFacts
<1>2. c \in Seq(S) /\ Len(Cat(W, u)) <= Len(c) /\ Len(c) \in Nat BY <1>1, CatFacts
<1>3. Cat(Cat(A, W), u) = c BY CatAssoc
<1> HIDE DEF c
<1>4. Cat(c, Cat(X, a)) = Cat(Cat(c, X), a) BY <1>2, CatAssoc
<1>5. Len(u) <= Len(c) BY <1>1, <1>2
<1>6. Cat(Cat(Cat(A, W), u), Cat(X, a)) = Cat(Cat(c, X), a) BY <1>3, <1>4
<1> QED BY <1>2, <1>5, <1>6 DEF c

\* The parts of InFlight are sequences of bytes.
LEMMA PartTypes ==
    ASSUME IInv
    PROVE  RingPart \in Seq(Byte) /\ BufPart \in Seq(Byte) /\ Waiting \in Seq(Byte)
<1>1. pending \in Seq(Byte) /\ buf \in Seq(Byte) /\ i \in Nat /\ n \in Nat
      /\ Len(pending) \in Nat /\ Len(buf) \in Nat
  <2>1. pending \in Seq(Byte) /\ buf \in Seq(Byte) /\ i \in 0..BufSize /\ n \in 0..BufSize
    BY DEF IInv, TypeOK
  <2> QED BY <2>1
<1>2. RingPart \in Seq(Byte)
  <2>1. CASE isr \in {"send_claimed", "send_some"}
    <3>1. i < n /\ n <= Len(pending) BY <2>1 DEF IInv, MoveInv
    <3>2. i <= Len(pending) BY <1>1, <3>1
    <3> QED BY <1>1, <2>1, <3>2, FromFacts DEF RingPart
  <2> QED BY <1>1, <2>1 DEF RingPart
<1>3. BufPart \in Seq(Byte)
  <2>1. CASE isr = "echo"
    <3>1. i < n /\ n <= Len(buf) BY <2>1 DEF IInv, MoveInv
    <3>2. i <= Len(buf) BY <1>1, <3>1
    <3> QED BY <1>1, <2>1, <3>2, FromFacts DEF BufPart
  <2> QED BY <1>1, <2>1 DEF BufPart
<1> QED BY <1>2, <1>3, ConcatFacts DEF Waiting

Parts == Waiting \in Seq(Byte) /\ InFlight = ((held \o txq) \o Waiting) \o rxq

\* In these parts, now and after a step.
LEMMA PartsAre == IInv => Parts
<1> SUFFICES ASSUME IInv PROVE Parts
  OBVIOUS
<1>1. RingPart \in Seq(Byte) /\ BufPart \in Seq(Byte) /\ Waiting \in Seq(Byte) BY PartTypes
<1>2. held \in Seq(Byte) /\ txq \in Seq(Byte) BY DEF IInv, TypeOK, PortTypeOK
<1>3. held \o txq \in Seq(Byte) BY <1>2, ConcatFacts
<1>0. \A s, t, v \in Seq(Byte) : s \o (t \o v) = (s \o t) \o v
  BY Assoc
<1>4. (held \o txq) \o (RingPart \o BufPart) = ((held \o txq) \o RingPart) \o BufPart
  BY <1>0, <1>1, <1>3
<1>5. InFlight = (((held \o txq) \o RingPart) \o BufPart) \o rxq
  BY DEF InFlight, RingPart, BufPart
<1> QED BY <1>1, <1>4, <1>5 DEF Waiting, Parts

LEMMA PartsWillBe == IInv' => Parts'
BY PartsAre, PTL

\* A step that takes and gives bytes as its clock does is one of the line.
LEMMA MoveStep ==
    ASSUME IInv, IInv', PortAssumption, EchoAssumption, NEW op, NEW line \in Lines,
           NEW takes \in BOOLEAN, Clock(op, line, takes),
           DoesWrite(op, "DATA") => op.v \in Byte /\ Len(txq) # Depth,
           NEW V \in Seq(Byte),
           Waiting \o Taken(op) = Given(op) \o (Waiting' \o V),
           V # << >> => Ring <= Len(Waiting')
    PROVE  Echo!Next
<1> DEFINE W == Given(op)
           P == Taken(op)
<1>1. Passes(W, P) BY ClockPasses
<1>2. PICK K \in Seq(Byte), A \in Seq(Byte), X \in Seq(Byte), a \in {<< >>} \cup {<<b>> : b \in Byte} :
        /\ Len(K) <= 1 /\ out' = IF K = << >> THEN out ELSE Head(K)
        /\ Cat(held, txq) = Cat(K, A) /\ Cat(held, txq)' = Cat(A, W)
        /\ rxq = Cat(P, X) /\ rxq' = Cat(X, a)
  BY <1>1 DEF Passes, Cat
<1>3. Waiting \in Seq(Byte) /\ InFlight = Cat(Cat(Cat(held, txq), Waiting), rxq)
  BY PartsAre DEF Parts, Cat
<1>4. Waiting' \in Seq(Byte) /\ InFlight' = Cat(Cat(Cat(held, txq)', Waiting'), rxq')
  BY PartsWillBe DEF Parts, Cat
<1>5. W \in Seq(Byte) /\ P \in Seq(Byte)
  <2>1. Given(op) \in Seq(Byte)
    <3>1. CASE DoesWrite(op, "DATA")
      <4>1. op.v \in Byte BY <3>1
      <4> QED BY <3>1, <4>1 DEF Given
    <3>2. CASE ~DoesWrite(op, "DATA") BY <3>2 DEF Given
    <3> QED BY <3>1, <3>2
  <2>2. Taken(op) \in Seq(Byte)
    <3>1. rxq \in Seq(Byte) BY DEF IInv, TypeOK, PortTypeOK
    <3>2. CASE DoesRead(op, "DATA") /\ rxq # << >>
      <4>1. Head(rxq) \in Byte BY <3>1, <3>2, TailFacts
      <4> QED BY <3>2, <4>1 DEF Taken, Popped
    <3>3. CASE ~(DoesRead(op, "DATA") /\ rxq # << >>) BY <3>3 DEF Taken, Popped
    <3> QED BY <3>2, <3>3
  <2> QED BY <2>1, <2>2
<1>6. Cat(Waiting, P) = Cat(W, Cat(Waiting', V)) BY DEF Cat
<1> HIDE DEF W, P
<1>7. a \in Seq(Byte)
  <2>1. CASE a = << >> BY <2>1
  <2>2. CASE a # << >>
    <3>1. PICK b \in Byte : a = <<b>> BY <2>2
    <3> QED BY <3>1
  <2> QED BY <2>1, <2>2
<1> DEFINE U == Cat(A, Cat(W, Waiting'))
<1>8. InFlight = Cat(K, Cat(U, Cat(V, X)))
  <2>1. Cat(Cat(Cat(K, A), Waiting), Cat(P, X)) = Cat(K, Cat(U, Cat(V, X)))
    BY <1>3, <1>4, <1>5, <1>6, Before
  <2> QED BY <1>2, <1>3, <2>1
<1>9. /\ Cat(Cat(Cat(A, W), Waiting'), Cat(X, a)) = Cat(Cat(U, X), a)
      /\ U \in Seq(Byte) /\ Len(Waiting') <= Len(U)
  BY <1>4, <1>5, <1>7, Afterwards
<1>10. InFlight' = Cat(Cat(U, X), a) BY <1>2, <1>4, <1>9
<1> HIDE DEF U
<1>11. V # << >> => Ring <= Len(U)
  <2>1. Ring \in Nat /\ Len(Waiting') \in Nat BY <1>4 DEF EchoAssumption
  <2>2. Len(U) \in Nat BY <1>9
  <2> QED BY <1>9, <2>1, <2>2
<1>12. a = << >> \/ \E b \in Byte : a = <<b>> BY <1>2
<1>13. Len(K) <= 1 /\ out' = IF K = << >> THEN out ELSE Head(K) BY <1>2
<1> QED BY <1>8, <1>9, <1>10, <1>11, <1>12, <1>13, EchoMove
--------------------------------------------------------------------------------
\* The same, by what the access does to DATA: nothing, a write, a read.
LEMMA EmptyEnds ==
    ASSUME NEW S, NEW s \in Seq(S)
    PROVE  s \o << >> = s /\ << >> \o s = s
BY ConcatEmptySeq

LEMMA EmptyIsSeq == << >> \in Seq(Byte)
OBVIOUS

\* What is dropped is named V.
LEMMA NoDataStep ==
    ASSUME IInv, IInv', PortAssumption, EchoAssumption, NEW op, NEW line \in Lines,
           NEW takes \in BOOLEAN, Clock(op, line, takes),
           ~DoesWrite(op, "DATA"), ~DoesRead(op, "DATA"),
           NEW V \in Seq(Byte), Waiting = Waiting' \o V,
           V # << >> => Ring <= Len(Waiting')
    PROVE  Echo!Next
<1>1. Taken(op) = << >> /\ Given(op) = << >> BY DEF Taken, Given
<1>2. Waiting \in Seq(Byte) /\ Waiting' \in Seq(Byte) BY PartsAre, PartsWillBe DEF Parts
<1>3. Waiting \o << >> = Waiting /\ << >> \o Waiting = Waiting BY <1>2, EmptyEnds
<1>4. Waiting \o Taken(op) = Given(op) \o (Waiting' \o V) BY <1>1, <1>3
<1> QED BY <1>4, MoveStep

LEMMA QuietStep ==
    ASSUME IInv, IInv', PortAssumption, EchoAssumption, NEW op, Access(op),
           ~DoesWrite(op, "DATA"), ~DoesRead(op, "DATA"), Waiting' = Waiting
    PROVE  Echo!Next
<1>1. PICK line \in Lines, takes \in BOOLEAN : Clock(op, line, takes)
  BY DEF Access, ClockWith
<1>2. Waiting \in Seq(Byte) BY PartsAre DEF Parts
<1>3. Waiting = Waiting' \o << >> BY <1>2, EmptyEnds
<1> QED BY <1>1, <1>3, EmptyIsSeq, NoDataStep

\* The byte written is the first that waits.
LEMMA SendStep ==
    ASSUME IInv, IInv', PortAssumption, EchoAssumption, NEW v \in Byte,
           Access(Write("DATA", v)), Len(txq) # Depth,
           NEW V \in Seq(Byte), Waiting = <<v>> \o (Waiting' \o V),
           V # << >> => Ring <= Len(Waiting')
    PROVE  Echo!Next
<1> DEFINE op == Write("DATA", v)
<1>1. PICK line \in Lines, takes \in BOOLEAN : Clock(op, line, takes)
  BY DEF Access, ClockWith
<1>2. DoesWrite(op, "DATA") /\ ~DoesRead(op, "DATA") /\ op.v = v BY OpFacts
<1> HIDE DEF op
<1>3. Taken(op) = << >> /\ Given(op) = <<v>> BY <1>2 DEF Taken, Given
<1>4. Waiting \in Seq(Byte) BY PartsAre DEF Parts
<1>5. Waiting \o << >> = Waiting BY <1>4, EmptyEnds
<1>6. Waiting \o Taken(op) = Given(op) \o (Waiting' \o V) BY <1>3, <1>5
<1>7. DoesWrite(op, "DATA") => op.v \in Byte /\ Len(txq) # Depth BY <1>2
<1> QED BY <1>1, <1>6, <1>7, MoveStep

\* The byte read comes last.
LEMMA TakeStep ==
    ASSUME IInv, IInv', PortAssumption, EchoAssumption, Access(Read("DATA")),
           NEW V \in Seq(Byte), Waiting \o Popped = Waiting' \o V,
           V # << >> => Ring <= Len(Waiting')
    PROVE  Echo!Next
<1> DEFINE op == Read("DATA")
<1>1. PICK line \in Lines, takes \in BOOLEAN : Clock(op, line, takes)
  BY DEF Access, ClockWith
<1>2. ~DoesWrite(op, "DATA") /\ DoesRead(op, "DATA") BY OpFacts
<1> HIDE DEF op
<1>3. Taken(op) = Popped /\ Given(op) = << >> BY <1>2 DEF Taken, Given
<1>4. Waiting' \in Seq(Byte) BY PartsWillBe DEF Parts
<1>5. Waiting' \o V \in Seq(Byte) BY <1>4, ConcatFacts
<1>6. << >> \o (Waiting' \o V) = Waiting' \o V BY <1>5, EmptyEnds
<1>7. Waiting \o Taken(op) = Given(op) \o (Waiting' \o V) BY <1>3, <1>6
<1> QED BY <1>1, <1>2, <1>7, MoveStep
--------------------------------------------------------------------------------
\* The handler echoes at once only what nothing waits in front of.
OrderInv == isr \in {"echo_fill", "echo"} => pending = << >>

LEMMA OrderKept ==
    ASSUME IInv, OrderInv, Next
    PROVE  OrderInv'
<1>1. CASE Interrupt BY <1>1 DEF Interrupt, Goto, OrderInv
<1>2. CASE IrqStatus BY <1>2 DEF IrqStatus, AfterSending, Goto, OrderInv
<1>3. CASE FillClaimed BY <1>3 DEF FillClaimed, AfterSending, Goto, OrderInv
<1>4. CASE SendClaimed BY <1>4 DEF SendClaimed, In, AfterSending, Goto, OrderInv
<1>5. CASE TxDisable BY <1>5 DEF TxDisable, Goto, OrderInv
<1>6. CASE RxReady BY <1>6 DEF RxReady, Goto, OrderInv
<1>7. CASE RxCount BY <1>7 DEF RxCount, Goto, OrderInv
<1>8. CASE FifoRead
  <2>1. isr = "fifo_read" BY <1>8 DEF FifoRead, In
  <2>2. \/ UNCHANGED isr
        \/ isr' = "echo_fill" /\ pending = << >> /\ pending' = pending
        \/ isr' = "tx_enable"
    BY <1>8 DEF FifoRead, NothingWaits, Goto, PutRest, AfterPut
  <2> QED BY <2>1, <2>2 DEF OrderInv
<1>9. CASE EchoFill
  <2>1. isr = "echo_fill" /\ (UNCHANGED pending \/ isr' = "tx_enable")
    BY <1>9 DEF EchoFill, In, Goto, PutRest, AfterPut
  <2> QED BY <2>1 DEF OrderInv
<1>10. CASE EchoWrite
  <2>1. isr = "echo" /\ (UNCHANGED pending \/ isr' = "tx_enable")
    BY <1>10 DEF EchoWrite, In, Goto, PutRest, AfterPut
  <2> QED BY <2>1 DEF OrderInv
<1>11. CASE TxEnable BY <1>11 DEF TxEnable, Goto, OrderInv
<1>12. CASE Thread
  BY <1>12 DEF Thread, Startup, uart_axc3000_init, uart_irq_rx_enable, err_check, ClearErrors,
               At, OrderInv, moving
<1>13. CASE Idle BY <1>13 DEF Idle, Elsewhere, moving, OrderInv
<1> QED BY <1>1, <1>2, <1>3, <1>4, <1>5, <1>6, <1>7, <1>8, <1>9, <1>10, <1>11, <1>12, <1>13
     DEF Next, Handler
--------------------------------------------------------------------------------
\* Every step is one of the line. First those that move no bytes.

Sending == {"send_claimed", "send_some"}

\* Where a step that is about to move bytes starts from, nothing has been moved.
LEMMA AllWaits ==
    ASSUME IInv, isr \notin Sending \cup {"echo"}
    PROVE  Waiting = pending \o buf
BY DEF Waiting, RingPart, BufPart, Sending

LEMMA QuietHandler ==
    ASSUME IInv, IInv', PortAssumption, EchoAssumption,
           IrqStatus \/ FillClaimed \/ TxDisable \/ RxReady \/ RxCount \/ TxEnable
    PROVE  Echo!Next
<1>1. \E op : Access(op) /\ ~DoesWrite(op, "DATA") /\ ~DoesRead(op, "DATA")
  <2>1. CASE IrqStatus \/ FillClaimed \/ RxReady \/ RxCount
    <3>1. PICK reg \in {"IRQ_STATUS", "STATUS"} : Access(Read(reg))
      BY <2>1 DEF IrqStatus, FillClaimed, RxReady, RxCount
    <3>2. ~DoesWrite(Read(reg), "DATA") /\ ~DoesRead(Read(reg), "DATA") BY OpFacts
    <3> QED BY <3>1, <3>2
  <2>2. CASE TxDisable \/ TxEnable
    <3>1. PICK bits : Access(Write("IRQ_ENABLE", bits))
      BY <2>2 DEF TxDisable, TxEnable, set_irq_enable
    <3>2. ~DoesWrite(Write("IRQ_ENABLE", bits), "DATA") /\ ~DoesRead(Write("IRQ_ENABLE", bits), "DATA")
      BY OpFacts
    <3> QED BY <3>1, <3>2
  <2> QED BY <2>1, <2>2
<1>2. isr \notin Sending \cup {"echo"} /\ isr' # "echo" /\ pending' = pending /\ buf' = buf
  <2>1. CASE IrqStatus BY <2>1 DEF IrqStatus, In, AfterSending, Goto, moving, Sending
  <2>2. CASE FillClaimed BY <2>2 DEF FillClaimed, In, AfterSending, Goto, Sending
  <2>3. CASE TxDisable BY <2>3 DEF TxDisable, In, Goto, moving, Sending
  <2>4. CASE RxReady BY <2>4 DEF RxReady, In, Goto, moving, Sending
  <2>5. CASE RxCount BY <2>5 DEF RxCount, In, Goto, Sending
  <2>6. CASE TxEnable BY <2>6 DEF TxEnable, In, Goto, moving, Sending
  <2> QED BY <2>1, <2>2, <2>3, <2>4, <2>5, <2>6
<1>3. isr' \in Sending => i' = 0
  <2>1. isr' \in Sending => FillClaimed
    BY DEF IrqStatus, TxDisable, RxReady, RxCount, TxEnable, AfterSending, Goto, Sending
  <2>2. FillClaimed => i' = i /\ isr = "claimed" BY DEF FillClaimed, In
  <2>3. isr = "claimed" => i = 0 BY DEF IInv, MoveInv, Moves
  <2> QED BY <2>1, <2>2, <2>3
<1>4. Waiting' = pending \o buf
  <2>1. BufPart' = buf BY <1>2 DEF BufPart
  <2>2. RingPart' = pending
    <3>1. CASE isr' \in Sending
      <4>1. From(pending, 0) = pending
        <5>1. pending \in Seq(Byte) BY DEF IInv, TypeOK
        <5> QED BY <5>1, FromNone
      <4> QED BY <4>1, <3>1, <1>2, <1>3 DEF RingPart, Sending
    <3>2. CASE isr' \notin Sending BY <3>2, <1>2 DEF RingPart, Sending
    <3> QED BY <3>1, <3>2
  <2> QED BY <2>1, <2>2 DEF Waiting
<1>5. Waiting' = Waiting BY <1>2, <1>4, AllWaits
<1> QED BY <1>1, <1>5, QuietStep

LEMMA QuietThread ==
    ASSUME IInv, IInv', PortAssumption, EchoAssumption, Thread \/ Idle
    PROVE  Echo!Next
<1>1. UNCHANGED <<isr, pending, buf, i>>
  BY DEF Thread, Startup, uart_axc3000_init, uart_irq_rx_enable, err_check, ClearErrors, At,
         Idle, Elsewhere, moving
<1>2. Waiting' = Waiting BY <1>1 DEF Waiting, RingPart, BufPart
<1>3. \E op : /\ ~DoesWrite(op, "DATA") /\ ~DoesRead(op, "DATA")
              /\ \E line \in Lines, takes \in BOOLEAN : Clock(op, line, takes)
  <2>1. CASE uart_axc3000_init \/ uart_irq_rx_enable \/ ClearErrors
    <3>1. PICK reg \in {"IRQ_ENABLE", "IRQ_LEVELS", "ERRORS"} :
             \E v : \E line \in Lines, takes \in BOOLEAN : Clock(Write(reg, v), line, takes)
      BY <2>1 DEF uart_axc3000_init, uart_irq_rx_enable, set_irq_enable, ClearErrors, Access, ClockWith
    <3>2. PICK v : \E line \in Lines, takes \in BOOLEAN : Clock(Write(reg, v), line, takes)
      BY <3>1
    <3>3. ~DoesWrite(Write(reg, v), "DATA") /\ ~DoesRead(Write(reg, v), "DATA") BY OpFacts
    <3> QED BY <3>2, <3>3
  <2>2. CASE err_check
    <3>1. \E line \in Lines, takes \in BOOLEAN : Clock(Read("ERRORS"), line, takes)
      BY <2>2 DEF err_check, Access, ClockWith
    <3>2. ~DoesWrite(Read("ERRORS"), "DATA") /\ ~DoesRead(Read("ERRORS"), "DATA") BY OpFacts
    <3> QED BY <3>1, <3>2
  <2>3. CASE Idle
    <3>1. \E line \in Lines, takes \in BOOLEAN : Clock(None, line, takes)
      BY <2>3 DEF Idle, Access, ClockWith
    <3>2. ~DoesWrite(None, "DATA") /\ ~DoesRead(None, "DATA") BY OpFacts
    <3> QED BY <3>1, <3>2
  <2> QED BY <2>1, <2>2, <2>3 DEF Thread, Startup
<1>4. Waiting = Waiting' \o << >>
  <2>1. Waiting \in Seq(Byte) BY PartsAre DEF Parts
  <2> QED BY <1>2, <2>1, EmptyEnds
<1> QED BY <1>3, <1>4, EmptyIsSeq, NoDataStep
--------------------------------------------------------------------------------
\* Then those that do.

\* The handler writes while there is room only.
LEMMA RoomToWrite ==
    ASSUME IInv, PortAssumption, EchoAssumption, isr \in Sending \cup {"echo"}
    PROVE  Len(txq) # Depth
<1>1. n - i <= Depth - Len(txq) BY DEF IInv, FillFits, tx_free, Sending
<1>2. i < n BY DEF IInv, MoveInv, Sending
<1> QED BY <1>1, <1>2, Counts

LEMMA SendClaimedMoves ==
    ASSUME IInv, IInv', PortAssumption, EchoAssumption, SendClaimed
    PROVE  Echo!Next
<1> DEFINE v == pending[i + 1]
           next == From(pending, i + 1)
<1>1. /\ isr \in Sending /\ Access(Write("DATA", v)) /\ buf' = buf
  BY DEF SendClaimed, In, Sending
<1>2. i \in Nat /\ i < Len(pending) /\ i + 1 \in Nat /\ i + 1 <= n /\ n <= Len(pending)
  <2>1. i < n /\ n <= Len(pending) BY <1>1 DEF IInv, MoveInv, Sending
  <2> QED BY <2>1, Counts
<1>3. pending \in Seq(Byte) /\ buf \in Seq(Byte) BY Counts
<1>4. /\ From(pending, i) = <<v>> \o next
      /\ From(pending, i) \in Seq(Byte) /\ next \in Seq(Byte) /\ v \in Byte
  BY <1>2, <1>3, FromNext
<1>5. Waiting' = next \o buf
  <2>1. CASE i + 1 < n /\ i' = i + 1 /\ UNCHANGED <<isr, pending, n>>
    <3>1. RingPart' = next /\ BufPart' = buf BY <1>1, <2>1 DEF RingPart, BufPart, Sending
    <3> QED BY <3>1 DEF Waiting
  <2>2. CASE /\ i + 1 = n
             /\ pending' = From(pending, n) /\ n' = 0 /\ i' = 0
             /\ \/ isr = "send_claimed" /\ pending' # << >> /\ Goto("claimed")
                \/ /\ isr = "send_some" \/ pending' = << >>
                   /\ AfterSending(pending')
    <3>1. isr' \in {"claimed", "tx_disable", "rx_ready"} BY <2>2 DEF Goto, AfterSending
    <3>2. RingPart' = next /\ BufPart' = buf BY <1>1, <2>2, <3>1 DEF RingPart, BufPart
    <3> QED BY <3>2 DEF Waiting
  <2> QED BY <2>1, <2>2 DEF SendClaimed
<1>6. Waiting = From(pending, i) \o buf BY <1>1 DEF Waiting, RingPart, BufPart, Sending
<1> HIDE DEF v, next
<1>7. Waiting = <<v>> \o (Waiting' \o << >>)
  <2>1. <<v>> \in Seq(Byte) BY <1>4
  <2>2. Waiting = <<v>> \o (next \o buf) BY <1>3, <1>4, <1>6, <2>1, Assoc
  <2>3. next \o buf \in Seq(Byte) BY <1>3, <1>4, ConcatFacts
  <2>4. (next \o buf) \o << >> = next \o buf BY <2>3, EmptyEnds
  <2> QED BY <1>5, <2>2, <2>4
<1>8. Len(txq) # Depth BY <1>1, RoomToWrite
<1> QED BY <1>1, <1>4, <1>7, <1>8, EmptyIsSeq, SendStep

LEMMA SplitAt ==
    ASSUME NEW S, NEW s \in Seq(S), NEW k \in Nat, k <= Len(s)
    PROVE  s = SubSeq(s, 1, k) \o From(s, k)
<1>1. 1 \in 1..(Len(s) + 1) /\ k \in (1 - 1)..Len(s) /\ Len(s) \in k..Len(s) OBVIOUS
<1>2. SubSeq(s, 1, k) \o SubSeq(s, k + 1, Len(s)) = SubSeq(s, 1, Len(s))
  BY <1>1, ConcatAdjacentSubSeq
<1> QED BY <1>2, SubSeqFull DEF From

\* What ring_buf_put has no room for is dropped, behind a full ring.
LEMMA PutDrops ==
    ASSUME IInv, PortAssumption, EchoAssumption, NEW rest \in Seq(Byte), PutRest(rest)
    PROVE  \E V \in Seq(Byte) :
              /\ pending \o rest = Waiting' \o V
              /\ V # << >> => Ring <= Len(Waiting')
<1> DEFINE k == Least(Len(rest), Ring - Len(pending))
           V == From(rest, k)
           put == ring_buf_put(rest)
<1>1. /\ pending \in Seq(Byte) /\ Len(pending) \in Nat /\ Len(pending) <= Ring
      /\ Ring \in Nat /\ Len(rest) \in Nat
  BY Counts
<1>2. k \in Nat /\ k <= Len(rest) /\ (k < Len(rest) => k = Ring - Len(pending))
  BY <1>1 DEF Least
<1> HIDE DEF k
<1>3. /\ put \in Seq(Byte) /\ Len(put) = k /\ V \in Seq(Byte) /\ Len(V) = Len(rest) - k
      /\ rest = put \o V
  <2>1. put = SubSeq(rest, 1, k) BY DEF ring_buf_put, k
  <2>2. SubSeq(rest, 1, k) \in Seq(Byte) /\ Len(SubSeq(rest, 1, k)) = k BY <1>2
  <2>3. V \in Seq(Byte) /\ Len(V) = Len(rest) - k BY <1>2, FromFacts
  <2>4. rest = SubSeq(rest, 1, k) \o From(rest, k) BY <1>2, SplitAt
  <2> QED BY <2>1, <2>2, <2>3, <2>4
<1>4. Waiting' = pending \o put
  <2>1. pending' = pending \o put /\ isr' = "tx_enable" /\ buf' = << >>
    BY DEF PutRest, AfterPut, Goto
  <2>2. RingPart' = pending \o put /\ BufPart' = << >> BY <2>1 DEF RingPart, BufPart
  <2>3. pending \o put \in Seq(Byte) BY <1>1, <1>3, ConcatFacts
  <2> QED BY <2>2, <2>3, EmptyEnds DEF Waiting
<1> HIDE DEF V, put
<1>5. pending \o rest = Waiting' \o V
  <2>1. pending \o (put \o V) = (pending \o put) \o V BY <1>1, <1>3, Assoc
  <2> QED BY <2>1, <1>3, <1>4
<1>6. V # << >> => Ring <= Len(Waiting')
  <2>1. Len(Waiting') = Len(pending) + k BY <1>1, <1>3, <1>4, ConcatFacts
  <2>2. V # << >> => Len(V) > 0 BY <1>3
  <2>3. Len(V) > 0 => k < Len(rest) BY <1>1, <1>2, <1>3
  <2>4. k = Ring - Len(pending) => Ring <= Len(pending) + k BY <1>1
  <2> QED BY <1>2, <2>1, <2>2, <2>3, <2>4
<1> QED BY <1>3, <1>5, <1>6

LEMMA FifoReadMoves ==
    ASSUME IInv, IInv', PortAssumption, EchoAssumption, FifoRead
    PROVE  Echo!Next
<1> DEFINE b == buf \o Popped
<1>1. isr = "fifo_read" /\ Access(Read("DATA")) BY DEF FifoRead, In
<1>2. pending \in Seq(Byte) /\ buf \in Seq(Byte) /\ Popped \in Seq(Byte) BY Counts, PoppedFacts
<1>3. b \in Seq(Byte) BY <1>2, ConcatFacts
<1>4. Waiting \o Popped = pending \o b
  <2>1. Waiting = pending \o buf BY <1>1, AllWaits DEF Sending
  <2> QED BY <1>2, <2>1, Assoc
<1> HIDE DEF b
<1>5. CASE UNCHANGED pending /\ buf' = b /\ isr' \in {"fifo_read", "echo_fill"}
  <2>1. RingPart' = pending /\ BufPart' = b BY <1>5 DEF RingPart, BufPart
  <2>2. Waiting' = pending \o b BY <2>1 DEF Waiting
  <2>3. pending \o b \in Seq(Byte) BY <1>2, <1>3, ConcatFacts
  <2>4. Waiting \o Popped = Waiting' \o << >> BY <1>4, <2>2, <2>3, EmptyEnds
  <2> QED BY <1>1, <2>4, EmptyIsSeq, TakeStep
<1>6. CASE PutRest(b)
  <2>1. PICK V \in Seq(Byte) : /\ pending \o b = Waiting' \o V
                               /\ V # << >> => Ring <= Len(Waiting')
    BY <1>3, <1>6, PutDrops
  <2>2. Waiting \o Popped = Waiting' \o V BY <1>4, <2>1
  <2> QED BY <1>1, <2>1, <2>2, TakeStep
<1>7. \/ UNCHANGED pending /\ buf' = b /\ isr' \in {"fifo_read", "echo_fill"}
      \/ PutRest(b)
  BY <1>1 DEF FifoRead, Goto, b
<1> QED BY <1>5, <1>6, <1>7

LEMMA EchoFillMoves ==
    ASSUME IInv, IInv', PortAssumption, EchoAssumption, EchoFill
    PROVE  Echo!Next
<1>1. isr = "echo_fill" /\ Access(Read("STATUS")) BY DEF EchoFill, In
<1>2. ~DoesWrite(Read("STATUS"), "DATA") /\ ~DoesRead(Read("STATUS"), "DATA") BY OpFacts
<1>3. pending \in Seq(Byte) /\ buf \in Seq(Byte) BY Counts
<1>4. Waiting = pending \o buf BY <1>1, AllWaits DEF Sending
<1>5. i = 0 BY <1>1 DEF IInv, MoveInv, Moves
<1>6. CASE PutRest(buf)
  <2>1. PICK V \in Seq(Byte) : /\ pending \o buf = Waiting' \o V
                               /\ V # << >> => Ring <= Len(Waiting')
    BY <1>3, <1>6, PutDrops
  <2>2. PICK line \in Lines, takes \in BOOLEAN : Clock(Read("STATUS"), line, takes)
    BY <1>1 DEF Access, ClockWith
  <2>3. Waiting = Waiting' \o V BY <1>4, <2>1
  <2> QED BY <1>2, <2>1, <2>2, <2>3, NoDataStep
<1>7. CASE Goto("echo") /\ UNCHANGED <<pending, buf, i>>
  <2>1. RingPart' = pending /\ BufPart' = From(buf, 0) BY <1>5, <1>7 DEF RingPart, BufPart, Goto
  <2>2. From(buf, 0) = buf BY <1>3, FromNone
  <2>3. Waiting' = Waiting BY <1>4, <2>1, <2>2 DEF Waiting
  <2> QED BY <1>1, <1>2, <2>3, QuietStep
<1> QED BY <1>6, <1>7 DEF EchoFill

LEMMA EchoWriteMoves ==
    ASSUME IInv, IInv', OrderInv, PortAssumption, EchoAssumption, EchoWrite
    PROVE  Echo!Next
<1> DEFINE v == buf[i + 1]
           next == From(buf, i + 1)
<1>1. isr = "echo" /\ Access(Write("DATA", v)) /\ pending = << >>
  BY DEF EchoWrite, In, OrderInv
<1>2. i \in Nat /\ i < Len(buf) /\ i + 1 \in Nat /\ i + 1 <= Len(buf)
  <2>1. i < n /\ n <= Len(buf) BY <1>1 DEF IInv, MoveInv
  <2> QED BY <2>1, Counts
<1>3. buf \in Seq(Byte) /\ pending \in Seq(Byte) BY Counts
<1>4. /\ From(buf, i) = <<v>> \o next
      /\ From(buf, i) \in Seq(Byte) /\ next \in Seq(Byte) /\ v \in Byte
  BY <1>2, <1>3, FromNext
<1>5. Waiting = <<v>> \o next
  <2>1. Waiting = << >> \o From(buf, i) BY <1>1 DEF Waiting, RingPart, BufPart
  <2> QED BY <1>4, <2>1, EmptyEnds
<1>6. Len(txq) # Depth BY <1>1, RoomToWrite
<1>7. CASE i + 1 < n /\ i' = i + 1 /\ UNCHANGED <<isr, pending, buf, n>>
  <2>1. Waiting' = << >> \o next BY <1>1, <1>7 DEF Waiting, RingPart, BufPart
  <2>2. Waiting' = next BY <1>4, <2>1, EmptyEnds
  <2>3. Waiting = <<v>> \o (Waiting' \o << >>) BY <1>4, <1>5, <2>2, EmptyEnds
  <2> HIDE DEF v, next
  <2> QED BY <1>1, <1>4, <1>6, <2>3, EmptyIsSeq, SendStep
<1>8. CASE i + 1 = n /\ n < Len(buf) /\ PutRest(From(buf, n))
  <2>1. PutRest(next) BY <1>8
  <2> HIDE DEF v, next
  <2>2. PICK V \in Seq(Byte) : /\ pending \o next = Waiting' \o V
                               /\ V # << >> => Ring <= Len(Waiting')
    BY <1>4, <2>1, PutDrops
  <2>3. pending \o next = next BY <1>1, <1>4, EmptyEnds
  <2>4. Waiting = <<v>> \o (Waiting' \o V) BY <1>5, <2>2, <2>3
  <2> QED BY <1>1, <1>4, <1>6, <2>2, <2>4, SendStep
<1>9. CASE /\ i + 1 = n /\ n = Len(buf)
           /\ Goto("irq_status") /\ buf' = << >> /\ n' = 0 /\ i' = 0 /\ UNCHANGED pending
  <2>1. next = << >>
    <3>1. Len(next) = Len(buf) - (i + 1) BY <1>2, <1>3, FromFacts
    <3>2. Len(next) = 0 BY <1>3, <1>9, <3>1
    <3> HIDE DEF next
    <3> QED BY <1>4, <3>2
  <2>2. RingPart' = << >> /\ BufPart' = << >> BY <1>1, <1>9 DEF RingPart, BufPart, Goto
  <2>3. Waiting' = << >> BY <2>2, EmptyIsSeq, EmptyEnds DEF Waiting
  <2>4. Waiting = <<v>> \o (Waiting' \o << >>) BY <1>5, <2>1, <2>3, EmptyIsSeq, EmptyEnds
  <2> HIDE DEF v, next
  <2> QED BY <1>1, <1>4, <1>6, <2>4, EmptyIsSeq, SendStep
<1> QED BY <1>7, <1>8, <1>9 DEF EchoWrite
--------------------------------------------------------------------------------
\* An interrupt touches no byte.
LEMMA InterruptStutters ==
    ASSUME IInv, Interrupt \/ UNCHANGED vars
    PROVE  UNCHANGED <<InFlight, out>>
<1>1. UNCHANGED <<held, txq, rxq, pending, buf, i, out>>
  BY DEF Interrupt, vars, portVars, transmitter, receiver, moving
<1>2. CASE Interrupt
  <2>1. isr = "out" /\ isr' = "irq_status" BY <1>2 DEF Interrupt, Goto
  <2> QED BY <1>1, <2>1 DEF InFlight
<1>3. CASE UNCHANGED vars
  <2>1. UNCHANGED isr BY <1>3 DEF vars
  <2> QED BY <1>1, <2>1 DEF InFlight
<1> QED BY <1>2, <1>3

LEMMA StepMoves ==
    IInv /\ IInv' /\ OrderInv /\ [Next]_vars => [Echo!Next]_<<InFlight, out>>
<1> SUFFICES ASSUME IInv, IInv', OrderInv, [Next]_vars
             PROVE  Echo!Next \/ UNCHANGED <<InFlight, out>>
  OBVIOUS
<1> USE PortAssumption, EchoAssumption
<1>1. CASE Interrupt \/ UNCHANGED vars BY <1>1, InterruptStutters
<1>2. CASE IrqStatus \/ FillClaimed \/ TxDisable \/ RxReady \/ RxCount \/ TxEnable
  BY <1>2, QuietHandler
<1>3. CASE SendClaimed BY <1>3, SendClaimedMoves
<1>4. CASE FifoRead BY <1>4, FifoReadMoves
<1>5. CASE EchoFill BY <1>5, EchoFillMoves
<1>6. CASE EchoWrite BY <1>6, EchoWriteMoves
<1>7. CASE Thread \/ Idle BY <1>7, QuietThread
<1> QED BY <1>1, <1>2, <1>3, <1>4, <1>5, <1>6, <1>7 DEF Next, Handler

LEMMA InitialLine == Init => Echo!Init
<1> SUFFICES ASSUME Init PROVE Echo!Init OBVIOUS
<1>1. /\ held = << >> /\ txq = << >> /\ rxq = << >> /\ pending = << >> /\ buf = << >>
      /\ isr = "out" /\ out \in Byte
  BY DEF Init, PortInit
<1>2. InFlight = (((<< >> \o << >>) \o << >>) \o << >>) \o << >> BY <1>1 DEF InFlight
<1>3. InFlight = << >> BY <1>2, EmptyIsSeq, EmptyEnds
<1> QED BY <1>1, <1>3 DEF Echo!Init

\* Driver and handler of uart_fifo_test send every byte received once and in order, and drop
\* bytes behind a full ring only, for FIFOs, a ring and a buffer of every size, whatever the
\* line does between two register accesses.
THEOREM EchoImplementsLine == Spec => EchoSpec
<1>1. Init => OrderInv BY DEF Init, OrderInv
<1>2. IInv /\ OrderInv /\ [Next]_vars => OrderInv'
  <2>1. UNCHANGED vars /\ OrderInv => OrderInv' BY DEF vars, moving, OrderInv
  <2> QED BY <2>1, OrderKept
<1>3. Spec => []OrderInv BY <1>1, <1>2, Invariant, PTL DEF Spec
<1> QED BY <1>3, Invariant, InitialLine, StepMoves, PTL DEF Spec, EchoSpec, Echo!Spec
================================================================================
