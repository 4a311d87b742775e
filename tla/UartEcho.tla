-------------------------------- MODULE UartEcho --------------------------------
(***************************************************************************)
(* The UART driver uart_axc3000.c and its interrupt-driven echo            *)
(* application (apps/uart_fifo_test/src/main.c) on top of SerialPort. One  *)
(* step of the CPU is a register access and the code up to the next one;   *)
(* any number of clocks may pass between two steps.                        *)
(***************************************************************************)
EXTENDS SerialPort

CONSTANTS
    Level,    \* fifo_size / 2 of the driver; any level will do
    Ring,     \* the size of the ring buffer pending
    BufSize   \* sizeof(buf)

ASSUME EchoAssumption == Level \in 1..Depth /\ Ring \in Nat \ {0} /\ BufSize \in Nat \ {0}

VARIABLES
    main,       \* the step the main thread is in
    err,        \* uart_err_check: what it found
    isr,        \* the step the interrupt handler is in; "out": not running
    enabled,    \* the driver's data->irq_enable
    pending,    \* the ring buffer
    buf,        \* uart_isr's buf
    n, i,       \* the bytes fifo_fill or fifo_read moves, and those it has moved
    lost        \* ghost: a byte was lost to a full RX FIFO since err_check last found errors

thread == <<main, err>>
moving == <<pending, buf, n, i>>
vars == <<portVars, thread, isr, enabled, moving, lost>>

Least(a, b) == IF a < b THEN a ELSE b
From(s, k) == SubSeq(s, k + 1, Len(s))

Starting == {"start", "init_levels", "init_errors", "rx_enable"}

\* A clock of the port, in which the CPU reads or writes a register, or does not.
ClockWith(op, line, takes) ==
    /\ Clock(op, line, takes)
    /\ lost' = (lost \/ (line \in Byte /\ Len(rxq) = Depth /\ main \notin Starting))

Access(op) ==
    \E line \in Lines, takes \in BOOLEAN : ClockWith(op, line, takes)

--------------------------------------------------------------------------------
\* uart_isr.

In(step) == isr = step /\ UNCHANGED thread
Goto(step) == isr' = step

\* The hardware interrupts the main thread between two of its steps.
Interrupt ==
    /\ isr = "out" /\ main \notin Starting
    /\ irq
    /\ Goto("irq_status")
    /\ UNCHANGED <<portVars, thread, enabled, moving, lost>>

\* Behind the sending loop: the TX interrupt is switched off when nothing waits.
AfterSending(waiting) == Goto(IF waiting = << >> THEN "tx_disable" ELSE "rx_ready")

irq_is_pending(flags) ==
    \/ "RX" \in enabled /\ flags \cap {"RX_LEVEL", "RX_TIMEOUT"} # {}
    \/ "TX" \in enabled /\ "TX_LEVEL" \in flags

IrqStatus ==
    /\ In("irq_status") /\ Access(Read("IRQ_STATUS"))
    /\ \/ ~irq_is_pending(irq_status) /\ Goto("out")
       \/ /\ irq_is_pending(irq_status)
          /\ \/ pending # << >> /\ Goto("claimed")
             \/ pending = << >> /\ AfterSending(pending)
    /\ UNCHANGED <<enabled, moving>>

\* Mutant: fifo_fill sends everything it is given.
AllFits(len) == len

\* uart_fifo_fill: how many bytes it is going to write.
fifo_fill(len) == Least(len, tx_free)

\* What ring_buf_get_claim gives ends where the ring wraps. The loop ends when fewer bytes
\* were sent than claimed.
FillClaimed ==
    /\ In("claimed") /\ Access(Read("STATUS"))
    /\ \E claim \in 1..Least(Len(pending), BufSize) :
         \/ fifo_fill(claim) = 0 /\ AfterSending(pending) /\ UNCHANGED n
         \/ /\ fifo_fill(claim) # 0
            /\ n' = fifo_fill(claim)
            /\ Goto(IF n' < claim THEN "send_some" ELSE "send_claimed")
    /\ UNCHANGED <<enabled, pending, buf, i>>

\* ring_buf_get_finish follows the last write.
SendClaimed ==
    /\ In("send_claimed") \/ In("send_some")
    /\ Access(Write("DATA", pending[i + 1]))
    /\ \/ i + 1 < n /\ i' = i + 1 /\ UNCHANGED <<isr, pending, n>>
       \/ /\ i + 1 = n
          /\ pending' = From(pending, n) /\ n' = 0 /\ i' = 0
          /\ \/ isr = "send_claimed" /\ pending' # << >> /\ Goto("claimed")
             \/ /\ isr = "send_some" \/ pending' = << >>
                /\ AfterSending(pending')
    /\ UNCHANGED <<enabled, buf>>

set_irq_enable(bits) == enabled' = bits /\ Access(Write("IRQ_ENABLE", bits))

TxDisable ==
    /\ In("tx_disable") /\ set_irq_enable(enabled \ {"TX"})
    /\ Goto("rx_ready")
    /\ UNCHANGED moving

RxReady ==
    /\ In("rx_ready") /\ Access(Read("STATUS"))
    /\ \/ "RX" \in enabled /\ rxq # << >> /\ Goto("rx_count")
       \/ ~("RX" \in enabled /\ rxq # << >>) /\ pending = << >> /\ Goto("out")
       \/ ~("RX" \in enabled /\ rxq # << >>) /\ pending # << >> /\ Goto("irq_status")
    /\ UNCHANGED <<enabled, moving>>

RxCount ==
    /\ In("rx_count") /\ Access(Read("STATUS"))
    /\ n' = Least(BufSize, Len(rxq))
    /\ Goto("fifo_read")
    /\ UNCHANGED <<enabled, pending, buf, i>>

\* Mutant: received bytes overtake those that wait in the ring.
Overtake == TRUE

\* Received bytes go straight to the TX FIFO if nothing waits.
NothingWaits == pending = << >>

\* ring_buf_put takes what fits; the rest is dropped.
ring_buf_put(rest) == SubSeq(rest, 1, Least(Len(rest), Ring - Len(pending)))

\* Mutant: the TX interrupt stays off.
ForgetsEnable == Goto("irq_status")

AfterPut == Goto("tx_enable")

PutRest(rest) ==
    /\ pending' = pending \o ring_buf_put(rest)
    /\ AfterPut /\ buf' = << >> /\ n' = 0 /\ i' = 0

FifoRead ==
    /\ In("fifo_read") /\ Access(Read("DATA"))
    /\ LET b == buf \o Popped IN
       \/ i + 1 < n /\ i' = i + 1 /\ buf' = b /\ UNCHANGED <<isr, pending, n>>
       \/ /\ i + 1 = n /\ NothingWaits
          /\ Goto("echo_fill") /\ buf' = b /\ n' = 0 /\ i' = 0 /\ UNCHANGED pending
       \/ i + 1 = n /\ ~NothingWaits /\ PutRest(b)
    /\ UNCHANGED enabled

EchoFill ==
    /\ In("echo_fill") /\ Access(Read("STATUS"))
    /\ \/ fifo_fill(Len(buf)) = 0 /\ PutRest(buf)
       \/ /\ fifo_fill(Len(buf)) # 0
          /\ n' = fifo_fill(Len(buf))
          /\ Goto("echo") /\ UNCHANGED <<pending, buf, i>>
    /\ UNCHANGED enabled

EchoWrite ==
    /\ In("echo") /\ Access(Write("DATA", buf[i + 1]))
    /\ \/ i + 1 < n /\ i' = i + 1 /\ UNCHANGED <<isr, pending, buf, n>>
       \/ i + 1 = n /\ n < Len(buf) /\ PutRest(From(buf, n))
       \/ /\ i + 1 = n /\ n = Len(buf)
          /\ Goto("irq_status") /\ buf' = << >> /\ n' = 0 /\ i' = 0 /\ UNCHANGED pending
    /\ UNCHANGED enabled

TxEnable ==
    /\ In("tx_enable") /\ set_irq_enable(enabled \cup {"TX"})
    /\ Goto("irq_status")
    /\ UNCHANGED moving

Handler == \/ IrqStatus \/ FillClaimed \/ SendClaimed \/ TxDisable \/ RxReady
           \/ RxCount \/ FifoRead \/ EchoFill \/ EchoWrite \/ TxEnable
--------------------------------------------------------------------------------
\* The main thread: uart_axc3000_init, then main.

At(step) == main = step /\ isr = "out" /\ UNCHANGED <<isr, moving>>
Then(step) == main' = step /\ UNCHANGED err

\* The bit time is not modelled.
uart_axc3000_init ==
    /\ \/ At("start") /\ Then("init_levels") /\ Access(Write("IRQ_ENABLE", {}))
       \/ /\ At("init_levels") /\ Then("init_errors")
          /\ Access(Write("IRQ_LEVELS", Level))
       \/ At("init_errors") /\ Then("rx_enable") /\ Access(Write("ERRORS", 0))
    /\ UNCHANGED enabled

uart_irq_rx_enable ==
    /\ At("rx_enable") /\ Then("sleep")
    /\ set_irq_enable(enabled \cup {"RX"})

\* Mutant: the counters are cleared before they are read.
ClearsFirst ==
    /\ At("sleep")
    /\ Access(Write("ERRORS", 0))
    /\ Then("sleep")
    /\ UNCHANGED enabled

\* k_msleep is over: uart_err_check reads the counters ...
err_check ==
    /\ At("sleep") /\ Access(Read("ERRORS"))
    /\ err' = (IF rx_overflow # 0 THEN {"OVERRUN"} ELSE {})
              \cup (IF rx_framing # 0 THEN {"FRAMING"} ELSE {})
    /\ main' = IF err' = {} THEN "sleep" ELSE "clear"
    /\ UNCHANGED enabled

\* ... and clears them if they were not 0.
ClearErrors ==
    /\ At("clear")
    /\ \E line \in Lines, takes \in BOOLEAN :
         Clock(Write("ERRORS", 0), line, takes)
    /\ main' = "sleep" /\ err' = {} /\ lost' = FALSE
    /\ UNCHANGED enabled

Startup == uart_axc3000_init \/ uart_irq_rx_enable
Thread == Startup \/ err_check \/ ClearErrors
--------------------------------------------------------------------------------
\* The CPU is elsewhere.
Elsewhere == UNCHANGED <<thread, isr, enabled, moving>>
Idle == Access(None) /\ Elsewhere

Init ==
    /\ PortInit
    /\ main = "start" /\ err = {}
    /\ isr = "out" /\ enabled = {}
    /\ pending = << >> /\ buf = << >> /\ n = 0 /\ i = 0
    /\ lost = FALSE

Next == Interrupt \/ Handler \/ Thread \/ Idle

Spec == Init /\ [][Next]_vars

\* The line takes the byte that is held for it; the receiver brings a byte, or nothing for
\* four characters' time.
LineTakes == \E line \in Lines : ClockWith(None, line, TRUE) /\ Elsewhere
Heard == \E line \in IF receiving THEN Byte ELSE {"quiet"}, takes \in BOOLEAN :
            ClockWith(None, line, takes) /\ Elsewhere

\* The handler and the start of the main thread run on, characters' time passes, a character
\* that starts ends, and an interrupt that is raised again and again is taken.
Fairness == /\ WF_vars(Handler) /\ WF_vars(Startup) /\ SF_vars(Interrupt)
            /\ WF_vars(LineTakes) /\ WF_vars(Heard)
FairSpec == Spec /\ Fairness
--------------------------------------------------------------------------------
Steps == {"out", "irq_status", "claimed", "send_claimed", "send_some", "tx_disable",
          "rx_ready", "rx_count", "fifo_read", "echo_fill", "echo", "tx_enable"}
Errors == {"OVERRUN", "FRAMING"}

\* Every variable holds a value of its kind.
TypeOK ==
    /\ PortTypeOK
    /\ main \in Starting \cup {"sleep", "clear"}
    /\ err \subseteq Errors
    /\ isr \in Steps /\ enabled \subseteq {"RX", "TX"}
    /\ pending \in Seq(Byte) /\ Len(pending) <= Ring
    /\ buf \in Seq(Byte) /\ Len(buf) <= BufSize
    /\ n \in 0..BufSize /\ i \in 0..BufSize
    /\ lost \in BOOLEAN

\* The bytes received and not yet sent, oldest first.
InFlight ==
    held \o txq
    \o (IF isr \in {"send_claimed", "send_some"} THEN From(pending, i) ELSE pending)
    \o (IF isr = "echo" THEN From(buf, i) ELSE buf)
    \o rxq

Echo == INSTANCE EchoLine WITH q <- InFlight, Room <- Ring

\* Every byte goes out once and in order, over two FIFOs, the handler's buffer and the ring;
\* bytes are dropped behind a full ring only.
EchoSpec == Echo!Spec

\* The TX FIFO drops nothing: there is still room when the handler writes what it found room
\* for, whatever the line does in between.
FillFits == isr \in {"send_claimed", "send_some", "echo"} => n - i <= tx_free

\* Bytes left in the ring when the handler returns have the TX interrupt to bring it back.
WakesUp == isr = "out" /\ pending # << >> => "TX" \in irq_enable

\* A byte lost to a full RX FIFO is counted until uart_err_check returns an error: its clear,
\* some time after its read, wipes out no loss behind an answer of 0.
LossNoticed == lost => rx_overflow # 0 \/ err # {}

\* The handler reads what was received - the RX timeout brings in the last bytes - and sends
\* what waits in the ring: it does not spin, and no interrupt it counts on stays away.
Echoed ==
    /\ (rxq # << >> /\ main \notin Starting) ~> isr = "fifo_read"
    /\ pending # << >> ~> isr \in {"send_claimed", "send_some"}
================================================================================
