---------------------------------- MODULE Uart ----------------------------------
(***************************************************************************)
(* hw/uart/uart_axi4lite.vhd: an 8N1 serial port with a FIFO each way      *)
(* behind an AXI4-Lite slave. rising_edge is one clock of every process in *)
(* it. The bit timing of uart_serial.vhd is left out: when a character     *)
(* ends, and when four characters' time has passed, is the environment's   *)
(* choice. The master may ask for a read and a write at once, or again     *)
(* before the answer, and takes every answer when it comes. What the port  *)
(* promises it is AtomicPort.                                              *)
(***************************************************************************)
EXTENDS SyncFifo

CONSTANTS
    Follows,   \* which byte may come after which, from the line or the master
    Disturbances, \* how a character may end without a byte
    MaxCount,  \* where the error counters saturate; 2**16 - 1
    Reads, Writes \* what the master asks for

ASSUME UartAssumption ==
    /\ MaxCount \in Nat \ {0}
    /\ Follows \subseteq Byte \X Byte
    /\ Disturbances \subseteq {"glitch", "framing"}

VARIABLES
    rx, tx,          \* the FIFOs
    tx_popped,       \* tx.rdata is the next byte
    tx_hold, tx_hold_full,
    out,             \* uart_tx: the byte in its shifter, and
    tx_busy,         \*   whether it is being sent
    receiving, rx_data, \* uart_rx: a character is coming in; the last byte it received
    quiet,           \* quiet_clocks >= timeout_limit
    level,           \* rx_level and tx_level
    irq_enable,      \* the interrupts enabled
    rx_overflow, rx_framing, \* the error counters
    aw, b_pending,   \* the write the master asks for; its answer is due
    ar, r, rdata_r   \* the register it reads; the read in progress; its result

serial == <<tx_popped, tx_hold, tx_hold_full, out, tx_busy, receiving, rx_data, quiet>>
regs == <<level, irq_enable, rx_overflow, rx_framing>>
bus == <<aw, b_pending, ar, r, rdata_r>>
vars == <<rx, tx, serial, regs, bus>>

NoWrite == [op |-> "none"]
NoRead == [step |-> "none"]
NoData == [empty |-> TRUE, byte |-> Junk]
Answer == [step |-> "answer"]

WriteReq == {NoWrite}
    \cup [op : {"write"}, reg : {"DATA"}, v : Byte]
    \cup [op : {"write"}, reg : {"IRQ_ENABLE"}, v : SUBSET {"RX", "TX"}]
    \cup [op : {"write"}, reg : {"IRQ_LEVELS"}, v : 0..Depth]
    \cup [op : {"write"}, reg : {"ERRORS"}, v : {0}]
Readable == {"DATA", "STATUS", "IRQ_STATUS", "ERRORS"}
ReadReq == [step : {"wait"}, addr : Readable, was_empty : BOOLEAN]
Flags == {"RX_LEVEL", "RX_TIMEOUT", "TX_LEVEL", "TX_DONE"}
ReadData == [empty : {FALSE}, byte : Byte] \cup [empty : {TRUE}, byte : {Junk}]
    \cup [rx_count : 0..Depth, tx_free : 0..Depth]
    \cup [flags : SUBSET Flags]
    \cup [overflow : 0..MaxCount, framing : 0..MaxCount]

ASSUME MasterAssumption == Reads \subseteq Readable /\ Writes \subseteq WriteReq \ {NoWrite}
--------------------------------------------------------------------------------
\* Signals: what the registers say between two clocks.

tx_free == Depth - tx.n

irq_status ==
    (IF rx.n >= level /\ level # 0 THEN {"RX_LEVEL"} ELSE {})
    \cup (IF rx.n # 0 /\ quiet THEN {"RX_TIMEOUT"} ELSE {})
    \cup (IF tx_free >= level THEN {"TX_LEVEL"} ELSE {})
    \cup (IF tx.n = 0 /\ ~tx_popped /\ ~tx_hold_full /\ ~tx_busy THEN {"TX_DONE"} ELSE {})

irq == \/ "RX" \in irq_enable /\ irq_status \cap {"RX_LEVEL", "RX_TIMEOUT"} # {}
       \/ "TX" \in irq_enable /\ "TX_LEVEL" \in irq_status

write_now == aw # NoWrite /\ ~b_pending
read_now == ar # "none" /\ r = NoRead

rx_pop == read_now /\ ar = "DATA"
tx_push == write_now /\ aw.reg = "DATA"
tx_wdata == IF tx_push THEN aw.v ELSE Junk

\* ends: this clock ends the stop bit.
tx_take(ends) == tx_hold_full /\ (~tx_busy \/ ends)

tx_pop(ends) == tx.n # 0 /\ ~tx_popped /\ (~tx_hold_full \/ tx_take(ends))
--------------------------------------------------------------------------------
\* One clock. line: what uart_rx says.

tx_engine(ends) ==
    /\ tx' = Edge(tx, tx_push, tx_wdata, tx_pop(ends))
    /\ tx_popped' = tx_pop(ends)
    /\ tx_hold_full' = (tx_popped \/ (tx_hold_full /\ ~tx_take(ends)))
    /\ tx_hold' = IF tx_popped THEN tx.rdata
                  ELSE IF tx_take(ends) THEN Junk ELSE tx_hold
    /\ out' = IF tx_take(ends) THEN tx_hold ELSE out
    /\ tx_busy' = (tx_take(ends) \/ (tx_busy /\ ~ends))

\* A stop bit that is not there is a framing error, a start bit that is gone in its middle a
\* glitch; both end the character without a byte.
uart_rx(line) ==
    /\ line \in {"idle", "quiet"} => ~receiving
    /\ line \in Byte \cup Disturbances => receiving
    /\ line \in Byte => <<rx_data, line>> \in Follows
    /\ receiving' = (line = "receiving")
    /\ rx_data' = IF line \in Byte THEN line ELSE rx_data

bus_writes ==
    /\ b_pending' = write_now
    /\ aw' = IF write_now THEN NoWrite ELSE aw
    /\ irq_enable' = IF write_now /\ aw.reg = "IRQ_ENABLE" THEN aw.v ELSE irq_enable
    /\ level' = IF write_now /\ aw.reg = "IRQ_LEVELS" THEN aw.v ELSE level

\* Mutant: whether there was a byte is looked up when the answer is made.
EmptyNow == rx.n = 0

\* Decided with the pop, a clock before the byte is there.
r_was_empty == r.was_empty

ReadValue ==
    CASE r.addr = "DATA"       -> [empty |-> r_was_empty,
                                   byte |-> IF r_was_empty THEN Junk ELSE rx.rdata]
      [] r.addr = "STATUS"     -> [rx_count |-> rx.n, tx_free |-> tx_free]
      [] r.addr = "IRQ_STATUS" -> [flags |-> irq_status]
      [] r.addr = "ERRORS"     -> [overflow |-> rx_overflow, framing |-> rx_framing]

\* Accepted; a clock for the FIFO; then R, taken at once. What rdata_r holds
\* without rvalid is nobody's concern.
bus_reads ==
    /\ ar' = IF read_now THEN "none" ELSE ar
    /\ r' = IF read_now THEN [step |-> "wait", addr |-> ar, was_empty |-> rx.n = 0]
            ELSE IF r.step = "wait" THEN Answer
            ELSE NoRead
    /\ rdata_r' = IF r.step = "wait" THEN ReadValue ELSE NoData

saturating_increment(x) == IF x = MaxCount THEN x ELSE x + 1

\* A clear in the clock of an error wins.
error_counters(line) ==
    IF write_now /\ aw.reg = "ERRORS"
    THEN rx_overflow' = 0 /\ rx_framing' = 0
    ELSE /\ rx_overflow' = IF line \in Byte /\ rx.n = Depth
                           THEN saturating_increment(rx_overflow) ELSE rx_overflow
         /\ rx_framing' = IF line = "framing"
                          THEN saturating_increment(rx_framing) ELSE rx_framing

\* quiet_clocks starts again with every received byte and while one is being received.
timeout_timer(line) == quiet' = (line = "quiet" \/ (line = "idle" /\ quiet))

rising_edge(line, ends) ==
    /\ uart_rx(line)
    /\ tx_engine(ends)
    /\ rx' = Edge(rx, line \in Byte, IF line \in Byte THEN line ELSE Junk, rx_pop)
    /\ bus_writes /\ bus_reads
    /\ error_counters(line)
    /\ timeout_timer(line)

\* What uart_rx says in a clock: nothing is received, and perhaps has not been for four
\* characters' time; a character is; or it ends, as a byte or in a disturbance.
Lines == {"idle", "quiet", "receiving"} \cup Disturbances \cup Byte
--------------------------------------------------------------------------------
\* The byte that has left the TX FIFO is in tx_hold, or will be in a clock.
Held == IF tx_popped THEN <<tx.rdata>> ELSE IF tx_hold_full THEN <<tx_hold>> ELSE << >>

\* The byte written last.
Newest == LET s == <<out>> \o Held \o Contents(tx) IN s[Len(s)]

\* The bus master (external): a request stays until it is accepted.

AskRead(reg) ==
    /\ ar = "none" /\ ar' = reg
    /\ UNCHANGED <<rx, tx, serial, regs, aw, b_pending, r, rdata_r>>
AskWrite(w) ==
    /\ aw = NoWrite /\ aw' = w
    /\ w.reg = "DATA" => <<Newest, w.v>> \in Follows
    /\ UNCHANGED <<rx, tx, serial, regs, ar, b_pending, r, rdata_r>>

\* After configuration of the FPGA.
Init ==
    /\ rx = Cleared /\ tx = Cleared
    /\ tx_popped = FALSE /\ tx_hold = Junk /\ tx_hold_full = FALSE
    /\ out \in Byte /\ rx_data = out /\ tx_busy = FALSE
    /\ receiving = FALSE /\ quiet = FALSE /\ level = 1 /\ irq_enable = {}
    /\ rx_overflow = 0 /\ rx_framing = 0
    /\ aw = NoWrite /\ b_pending = FALSE
    /\ ar = "none" /\ r = NoRead /\ rdata_r = NoData

Clock == \E line \in Lines, ends \in IF tx_busy THEN BOOLEAN ELSE {FALSE} :
            rising_edge(line, ends)

Next == \/ Clock
        \/ \E reg \in Reads : AskRead(reg)
        \/ \E w \in Writes : AskWrite(w)

Spec == Init /\ [][Next]_vars
--------------------------------------------------------------------------------
\* Every register holds a value of its kind; the pointers and the count of each FIFO agree,
\* and no cell between them is without a byte.
TypeOK ==
    /\ Consistent(rx) /\ Consistent(tx)
    /\ tx_popped \in BOOLEAN /\ tx_hold_full \in BOOLEAN /\ tx_busy \in BOOLEAN
    /\ tx_hold \in Byte \cup {Junk} /\ out \in Byte /\ rx_data \in Byte
    /\ receiving \in BOOLEAN /\ quiet \in BOOLEAN
    /\ level \in 0..Depth /\ irq_enable \subseteq {"RX", "TX"}
    /\ rx_overflow \in 0..MaxCount /\ rx_framing \in 0..MaxCount
    /\ aw \in WriteReq /\ b_pending \in BOOLEAN
    /\ ar \in Readable \cup {"none"}
    /\ r \in {NoRead, Answer} \cup ReadReq
    /\ rdata_r \in ReadData

\* A byte is the master's from the clock that pops it.
Taken == IF r_was_empty THEN << >> ELSE <<rx.rdata>>
Told == IF r.step = "wait" /\ r.addr = "DATA" THEN [bytes |-> Taken]
        ELSE IF rdata_r \in [empty : BOOLEAN, byte : Byte \cup {Junk}]
        THEN [bytes |-> IF rdata_r.empty THEN << >> ELSE <<rdata_r.byte>>]
        ELSE rdata_r

Port == INSTANCE AtomicPort WITH
    rxq <- Contents(rx), txq <- Contents(tx), held <- Held, sending <- tx_busy,
    last <- rx_data, answer <- Told,
    Readable <- Reads

\* The clocked registers, block RAMs with their late read data and the bus handshake look
\* like two queues with atomic accesses: no byte is lost, doubled or reordered when a pop
\* and a push, or a read and an arrival, share a clock, or when a byte moves from the RAM
\* through the holding register to the line.
PortSpec == Port!Spec
================================================================================
