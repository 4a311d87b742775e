------------------------------- MODULE SerialPort -------------------------------
(***************************************************************************)
(* The register interface of the serial port (the header of                *)
(* hw/uart/uart_axi4lite.vhd) with atomic accesses: two bounded queues,    *)
(* the byte between them and the line, the interrupt conditions and the    *)
(* error counters. Uart implements it (AtomicPort adds what the echo       *)
(* software does not look at); UartEcho is that software.                  *)
(***************************************************************************)
EXTENDS Integers, Sequences

CONSTANTS
    Byte,
    Depth,     \* the size of each FIFO
    Follows,   \* which byte the line may bring after which
    Disturbances, \* how a character may end without a byte
    MaxCount   \* where the error counters saturate; 2**16 - 1

ASSUME PortAssumption ==
    /\ Depth \in Nat \ {0} /\ MaxCount \in Nat \ {0}
    /\ Follows \subseteq Byte \X Byte
    /\ Disturbances \subseteq {"glitch", "framing"}
    /\ {"idle", "quiet", "receiving", "glitch", "framing"} \cap Byte = {}

VARIABLES
    rxq, txq,        \* the FIFOs, the oldest byte first
    held,            \* the byte that has left the TX FIFO and not been taken
    out,             \* the byte the line took last
    last,            \* the last byte received
    receiving,       \* a character is being received
    quiet,           \* none has been for four characters' time
    level,           \* RX level and TX level: software sets them to the same value
    irq_enable,
    rx_overflow, rx_framing

transmitter == <<txq, held, out>>
receiver == <<rxq, last, receiving, quiet>>
regs == <<level, irq_enable, rx_overflow, rx_framing>>
portVars == <<transmitter, receiver, regs>>

\* What the receiver says in a clock: nothing is received, and perhaps has not been for
\* four characters' time; a character is; or it ends, as a byte or in a disturbance.
Lines == {"idle", "quiet", "receiving"} \cup Disturbances \cup Byte

None == [op |-> "none"]
Read(reg) == [op |-> "read", reg |-> reg]
Write(reg, v) == [op |-> "write", reg |-> reg, v |-> v]
DoesRead(op, reg) == op = Read(reg)
DoesWrite(op, reg) == op.op = "write" /\ op.reg = reg
--------------------------------------------------------------------------------
tx_free == Depth - Len(txq)

\* Mutant: the RX timeout raises nothing.
NoTimeout ==
    (IF Len(rxq) >= level /\ level # 0 THEN {"RX_LEVEL"} ELSE {})
    \cup (IF tx_free >= level THEN {"TX_LEVEL"} ELSE {})

irq_status ==
    (IF Len(rxq) >= level /\ level # 0 THEN {"RX_LEVEL"} ELSE {})
    \cup (IF rxq # << >> /\ quiet THEN {"RX_TIMEOUT"} ELSE {})
    \cup (IF tx_free >= level THEN {"TX_LEVEL"} ELSE {})

irq == \/ "RX" \in irq_enable /\ irq_status \cap {"RX_LEVEL", "RX_TIMEOUT"} # {}
       \/ "TX" \in irq_enable /\ "TX_LEVEL" \in irq_status

\* A read of DATA pops. An empty RX FIFO reads as no byte.
Popped == IF rxq = << >> THEN << >> ELSE <<Head(rxq)>>

\* The answer to a read.
Value(reg) ==
    CASE reg = "DATA"       -> [bytes |-> Popped]
      [] reg = "STATUS"     -> [rx_count |-> Len(rxq), tx_free |-> tx_free]
      [] reg = "IRQ_STATUS" -> [flags |-> irq_status]
      [] reg = "ERRORS"     -> [overflow |-> rx_overflow, framing |-> rx_framing]
--------------------------------------------------------------------------------
\* The parts of one clock.

\* The line takes the held byte; the next one leaves the FIFO when its place is free.
Transmit(op, takes) ==
    LET refill == txq # << >> /\ (held = << >> \/ takes)
        rest == IF refill THEN Tail(txq) ELSE txq
    IN /\ takes => held # << >>
       /\ out' = IF takes THEN Head(held) ELSE out
       /\ held' = IF refill THEN <<Head(txq)>> ELSE IF takes THEN << >> ELSE held
       /\ txq' = IF DoesWrite(op, "DATA") /\ Len(txq) # Depth THEN Append(rest, op.v) ELSE rest

\* A byte for a full FIFO is dropped, also when one is read in the same clock.
Receive(op, line) ==
    LET rest == IF DoesRead(op, "DATA") /\ rxq # << >> THEN Tail(rxq) ELSE rxq
    IN /\ rxq' = IF line \in Byte /\ Len(rxq) # Depth THEN Append(rest, line) ELSE rest
       /\ line \in {"idle", "quiet"} => ~receiving
       /\ line \in Byte \cup Disturbances => receiving
       /\ line \in Byte => <<last, line>> \in Follows
       /\ receiving' = (line = "receiving")
       /\ last' = IF line \in Byte THEN line ELSE last
       /\ quiet' = (line = "quiet" \/ (line = "idle" /\ quiet))

saturating_increment(x) == IF x = MaxCount THEN x ELSE x + 1

\* A clear in the clock of an error wins.
Registers(op, line) ==
    /\ irq_enable' = IF DoesWrite(op, "IRQ_ENABLE") THEN op.v ELSE irq_enable
    /\ level' = IF DoesWrite(op, "IRQ_LEVELS") THEN op.v ELSE level
    /\ rx_overflow' = IF DoesWrite(op, "ERRORS") THEN 0
                      ELSE IF line \in Byte /\ Len(rxq) = Depth
                           THEN saturating_increment(rx_overflow) ELSE rx_overflow
    /\ rx_framing' = IF DoesWrite(op, "ERRORS") THEN 0
                     ELSE IF line = "framing"
                          THEN saturating_increment(rx_framing) ELSE rx_framing

Clock(op, line, takes) ==
    Transmit(op, takes) /\ Receive(op, line) /\ Registers(op, line)

\* After configuration of the FPGA.
PortInit ==
    /\ rxq = << >> /\ txq = << >> /\ held = << >>
    /\ out \in Byte /\ last = out /\ receiving = FALSE /\ quiet = FALSE
    /\ level = 1 /\ irq_enable = {}
    /\ rx_overflow = 0 /\ rx_framing = 0

PortTypeOK ==
    /\ rxq \in Seq(Byte) /\ Len(rxq) <= Depth
    /\ txq \in Seq(Byte) /\ Len(txq) <= Depth
    /\ held \in Seq(Byte) /\ Len(held) <= 1
    /\ out \in Byte /\ last \in Byte /\ receiving \in BOOLEAN /\ quiet \in BOOLEAN
    /\ level \in 0..Depth /\ irq_enable \subseteq {"RX", "TX"}
    /\ rx_overflow \in 0..MaxCount /\ rx_framing \in 0..MaxCount
================================================================================
