------------------------------- MODULE SdmMailbox -------------------------------
(***************************************************************************)
(* The QSPI flash and RSU driver over the SDM mailbox                      *)
(* (flash_axc3000_sdm_qspi.c). The driver sends a command and takes the    *)
(* next response in the FIFO as its answer: nothing in a response says     *)
(* which command it answers. The SDM works through the commands in order   *)
(* and answers word by word; it may drop a command, refuse one, or answer  *)
(* after the driver gave up. sys_arch_reboot uses the mailbox without the  *)
(* mutex. A response's data is abstracted to the command it answers.       *)
(***************************************************************************)
EXTENDS Naturals, Sequences

CONSTANTS
    Addrs,          \* addresses of the chunks (MAX_WORDS words, or one sector, each)
    MaxChunks,      \* chunks of one flash call
    QSPI_ATTEMPTS,  \* tries of each QSPI command
    CMD_FIFO,       \* commands the command FIFO holds
    RSP_FIFO,       \* words the response FIFO holds
    MaxFaults,      \* bound on the faults of a behaviour
    FaultKinds,     \* what may go wrong: see the assumption
    Calls           \* the calls the application makes

FlashOps == {"read", "write", "erase"}
RsuOps == {"status", "image_update"}

ASSUME SdmAssumption ==
    /\ Addrs \subseteq Nat
    /\ MaxChunks \in Nat \ {0} /\ QSPI_ATTEMPTS \in Nat \ {0} /\ MaxFaults \in Nat
    /\ CMD_FIFO \in Nat \ {0} /\ RSP_FIFO \in Nat \ {0}
    /\ FaultKinds \subseteq {"drop", "error", "no_room", "late", "cpu_reset", "busy_reboot"}
    /\ Calls \subseteq FlashOps \cup RsuOps

VARIABLES
    pc,         \* the mailbox command the driver is at, or boot, stopped, idle, drain, returned, spin
    step,       \* inside mbox_cmd: send, wait (for the start of the response), word
    call,       \* the API call: function, address, chunks left
    attempt,    \* qspi_cmd's loop counter
    open,       \* data->open
    resp,       \* the response array of the command: what was read into it
    hdr,        \* the response header mbox_cmd read
    ret,        \* what the call returns
    delivered,  \* ghost: what the call has copied out, chunk by chunk
    cmdq,       \* the command FIFO
    out,        \* the words of a response the SDM has not delivered yet
    rsp,        \* the response FIFO
    sdm_open,   \* the SDM's side of QSPI_OPEN
    executed,   \* ghost: the writes and erases the SDM has carried out for this call
    faults,     \* ghost: faults so far
    hits,       \* ghost: faults in this call
    strays      \* ghost: answers wait or may come that no command waits for, or one that
                \* was taken for another's left the driver wrong about the flash being open

driver == <<pc, step, call, attempt, open, resp, hdr, ret, delivered>>
sdm == <<cmdq, out, rsp, sdm_open, executed>>
ghosts == <<faults, hits, strays>>
vars == <<driver, sdm, ghosts>>

Image == 1   \* the address of the running bitstream; 0 is what an unwritten array holds
NoCall == [fn |-> "none", addr |-> 0, first |-> 0, chunks |-> 0, left |-> 0]
Stale == [op |-> "none", arg |-> 0]
HasData == {"QSPI_READ", "QSPI_READ_DEVICE_REG", "RSU_STATUS"}

Header(err, len) == [k |-> "hdr", err |-> err, len |-> len, of |-> Stale]
Data(c) == [k |-> "data", err |-> FALSE, len |-> 0, of |-> c]
NoHeader == Header(TRUE, 0)
--------------------------------------------------------------------------------
\* What goes wrong.

Fault(kind) ==
    /\ kind \in FaultKinds /\ faults < MaxFaults
    /\ faults' = faults + 1 /\ hits' = hits + 1
    /\ strays' = (strays \/ kind \in {"late", "cpu_reset", "busy_reboot"})
NoFault == UNCHANGED ghosts

\* The SDM has nothing to do, or waits for room in the response FIFO.
Quiet == IF out = <<>> THEN cmdq = <<>> ELSE Len(rsp) = RSP_FIFO
--------------------------------------------------------------------------------
\* The SDM (external).

\* Whether it refuses a command: the flash commands need QSPI_OPEN, an image update needs
\* the flash for itself and an image at the address.
Refuses(c) ==
    CASE c.op = "QSPI_OPEN"        -> sdm_open
      [] c.op = "RSU_STATUS"       -> FALSE
      [] c.op = "RSU_IMAGE_UPDATE" -> sdm_open \/ c.arg # Image
      [] OTHER                     -> ~sdm_open

Changes == [op : {"QSPI_WRITE", "QSPI_ERASE"}, arg : Nat]

Answer(c, err) == IF ~err /\ c.op \in HasData THEN <<Header(FALSE, 1), Data(c)>>
                                              ELSE <<Header(err, 0)>>

SdmExecutes ==
    /\ cmdq # <<>> /\ out = <<>>
    /\ LET c == Head(cmdq)
           err == Refuses(c)
       IN  /\ c.op = "RSU_IMAGE_UPDATE" => err
           /\ out' = Answer(c, err)
           /\ sdm_open' = CASE c.op = "QSPI_OPEN"  -> TRUE
                            [] c.op = "QSPI_CLOSE" -> FALSE
                            [] OTHER               -> sdm_open
           /\ executed' = executed \cup (IF err THEN {} ELSE {c} \cap Changes)
    /\ cmdq' = Tail(cmdq)
    /\ NoFault
    /\ UNCHANGED <<driver, rsp>>

SdmFails ==
    /\ cmdq # <<>> /\ out = <<>>
    /\ \/ Fault("drop") /\ out' = <<>>
       \/ Fault("error") /\ out' = Answer(Head(cmdq), TRUE)
    /\ cmdq' = Tail(cmdq)
    /\ UNCHANGED <<driver, rsp, sdm_open, executed>>

SdmDelivers ==
    /\ out # <<>> /\ Len(rsp) < RSP_FIFO
    /\ rsp' = Append(rsp, Head(out))
    /\ out' = Tail(out)
    /\ NoFault
    /\ UNCHANGED <<driver, cmdq, sdm_open, executed>>
--------------------------------------------------------------------------------
\* The driver. The command it is at:

Command ==
    CASE pc \in {"close", "reclose", "rsu_close", "reboot_close"} -> [op |-> "QSPI_CLOSE", arg |-> 0]
      [] pc = "open"          -> [op |-> "QSPI_OPEN", arg |-> 0]
      [] pc = "set_cs"        -> [op |-> "QSPI_SET_CS", arg |-> 0]
      [] pc = "read_id"       -> [op |-> "QSPI_READ_DEVICE_REG", arg |-> 0]
      [] pc = "cmd"           -> [op |-> CASE call.fn = "read" -> "QSPI_READ"
                                           [] call.fn = "write" -> "QSPI_WRITE"
                                           [] OTHER -> "QSPI_ERASE", arg |-> call.addr]
      [] pc = "reboot_status" -> [op |-> "RSU_STATUS", arg |-> 0]
      [] pc = "reboot_update" -> [op |-> "RSU_IMAGE_UPDATE",
                                  arg |-> IF resp.op = "RSU_STATUS" THEN Image ELSE 0]
      [] OTHER                -> IF call.fn = "status" THEN [op |-> "RSU_STATUS", arg |-> 0]
                                 ELSE [op |-> "RSU_IMAGE_UPDATE", arg |-> Image]

InMbox == pc \notin {"boot", "stopped", "idle", "drain", "returned", "spin"}

Goto(where) == pc' = where /\ step' = "send"
Returns(r) == pc' = "returned" /\ ret' = r /\ UNCHANGED step

\* qspi_cmd's loop: with the flash open the command, otherwise sdm_qspi_open first.
TryAgain ==
    \/ /\ attempt + 1 < QSPI_ATTEMPTS
       /\ attempt' = attempt + 1 /\ open' = FALSE
       /\ Goto("drain")
       /\ UNCHANGED <<call, ret, delivered>>
    \/ /\ attempt + 1 >= QSPI_ATTEMPTS
       /\ Returns("err")
       /\ UNCHANGED <<call, attempt, open, delivered>>

\* The read, write and erase loops: the next chunk, or the end. A read copies the buffer.
NextChunk(got) ==
    /\ delivered' = IF call.fn = "read" THEN Append(delivered, got) ELSE delivered
    /\ UNCHANGED open
    /\ \/ /\ call.left > 1
          /\ call' = [call EXCEPT !.addr = @ + 1, !.left = @ - 1]
          /\ attempt' = 0
          /\ Goto("cmd")
          /\ UNCHANGED ret
       \/ /\ call.left = 1
          /\ Returns("ok")
          /\ UNCHANGED <<call, attempt>>

\* A reset of the CPU: the driver starts from nothing, the SDM does not.
Restarts(where) ==
    /\ pc' = where /\ step' = "send" /\ call' = NoCall /\ attempt' = 0 /\ open' = FALSE
    /\ resp' = Stale /\ hdr' = NoHeader /\ ret' = "ok" /\ delivered' = <<>>

\* mbox_cmd returned: what its caller does next.
OpenSequence(ok, got) ==
    \/ pc = "close" /\ Goto("open") /\ UNCHANGED <<call, attempt, open, ret, delivered>>
    \/ pc = "open" /\ ok /\ Goto("set_cs") /\ UNCHANGED <<call, attempt, open, ret, delivered>>
    \/ pc = "set_cs" /\ ok /\ Goto("read_id") /\ UNCHANGED <<call, attempt, open, ret, delivered>>
    \/ pc = "read_id" /\ ok /\ open' = TRUE /\ Goto("cmd")
         /\ UNCHANGED <<call, attempt, ret, delivered>>
    \/ pc \in {"set_cs", "read_id"} /\ ~ok /\ Goto("reclose")
         /\ UNCHANGED <<call, attempt, open, ret, delivered>>
    \/ (pc = "reclose" \/ (pc \in {"open", "cmd"} /\ ~ok)) /\ TryAgain
    \/ pc = "cmd" /\ ok /\ NextChunk(got)

RsuSequence(ok, got) ==
    \/ pc = "rsu_close" /\ open' = FALSE /\ Goto("rsu")
         /\ UNCHANGED <<call, attempt, ret, delivered>>
    \/ /\ pc = "rsu" /\ Returns(IF ok THEN "ok" ELSE "err")
       /\ delivered' = <<got>>
       /\ UNCHANGED <<call, attempt, open>>

\* Mutant: the update follows the close, without asking for the status.
StatusSkipped(ok) ==
    /\ UNCHANGED <<call, attempt, ret, delivered>>
    /\ \/ pc = "reboot_close" /\ open' = FALSE /\ Goto("reboot_update")
       \/ pc = "reboot_status" /\ ok /\ Goto("reboot_update") /\ UNCHANGED open
       \/ pc = "reboot_update" /\ pc' = "spin" /\ UNCHANGED <<step, open>>

\* An image update that is refused leaves the CPU in an endless loop, interrupts locked.
RebootSequence(ok) ==
    /\ UNCHANGED <<call, attempt, ret, delivered>>
    /\ \/ pc = "reboot_close" /\ open' = FALSE /\ Goto("reboot_status")
       \/ pc = "reboot_status" /\ ok /\ Goto("reboot_update") /\ UNCHANGED open
       \/ pc = "reboot_update" /\ pc' = "spin" /\ UNCHANGED <<step, open>>

\* The jump to the reset vector: cold when RSU_STATUS failed, warm without asking for it.
RebootJumps(ok) ==
    \/ pc = "reboot_status" /\ ~ok
    \/ pc = "reboot_close" /\ call.fn = "warm"

MboxReturns(ok, got) ==
    \/ RebootJumps(ok) /\ Restarts("boot")
    \/ /\ OpenSequence(ok, got) \/ RsuSequence(ok, got) \/ (~RebootJumps(ok) /\ RebootSequence(ok))
       /\ resp' = got
       /\ hdr' = NoHeader

mbox_send ==
    /\ InMbox /\ step = "send"
    /\ \/ /\ Len(cmdq) < CMD_FIFO
          /\ cmdq' = Append(cmdq, Command)
          /\ step' = "wait" /\ resp' = Stale
          /\ NoFault
          /\ UNCHANGED <<pc, call, attempt, open, hdr, ret, delivered>>
       \/ /\ \/ Len(cmdq) = CMD_FIFO /\ Quiet /\ NoFault
             \/ Fault("no_room")
          /\ MboxReturns(FALSE, Stale)
          /\ UNCHANGED cmdq
    /\ UNCHANGED <<out, rsp, sdm_open, executed>>

\* Mutant: no deadline when nothing comes.
WaitsForever ==
    /\ ~Quiet /\ Fault("late")
    /\ MboxReturns(FALSE, resp)
    /\ UNCHANGED sdm

\* Mutant: the error code of the deadline gets lost.
SwallowsTimeout ==
    /\ \/ Quiet /\ strays' = (strays \/ out # <<>>) /\ UNCHANGED <<faults, hits>>
       \/ ~Quiet /\ Fault("late")
    /\ MboxReturns(TRUE, resp)
    /\ UNCHANGED sdm

\* The driver gives up: nothing will come any more, or it would come later.
TimesOut ==
    /\ \/ Quiet /\ strays' = (strays \/ out # <<>>) /\ UNCHANGED <<faults, hits>>
       \/ ~Quiet /\ Fault("late")
    /\ MboxReturns(FALSE, resp)
    /\ UNCHANGED sdm

Starts == rsp # <<>> /\ Head(rsp).k = "hdr"

mbox_wait ==
    /\ InMbox /\ step = "wait"
    /\ \/ /\ Starts
          /\ rsp' = Tail(rsp)
          /\ \/ /\ Head(rsp).len > 0
                /\ hdr' = Head(rsp) /\ step' = "word"
                /\ UNCHANGED <<pc, call, attempt, open, resp, ret, delivered>>
             \/ /\ Head(rsp).len = 0
                /\ MboxReturns(~Head(rsp).err, resp)
          /\ NoFault
          /\ UNCHANGED <<cmdq, out, sdm_open, executed>>
       \/ ~Starts /\ TimesOut

mbox_word ==
    /\ InMbox /\ step = "word"
    /\ \/ /\ rsp # <<>>
          /\ rsp' = Tail(rsp)
          /\ MboxReturns(~hdr.err, IF Command.op \in HasData THEN Head(rsp).of ELSE Stale)
          /\ NoFault
          /\ UNCHANGED <<cmdq, out, sdm_open, executed>>
       \/ rsp = <<>> /\ TimesOut

\* A call that opens the flash first has nothing to do with the answers left before it.
Reopens ==
    /\ strays' = (strays /\ (cmdq # <<>> \/ attempt > 0 \/ call.left < call.chunks))
    /\ UNCHANGED <<faults, hits>>

\* Mutant: sdm_qspi_open does not drop the words that are waiting.
NotDrained ==
    /\ pc = "drain"
    /\ Goto("close")
    /\ Reopens
    /\ UNCHANGED <<call, attempt, open, resp, hdr, ret, delivered, sdm>>

\* sdm_qspi_open drops the response words that are waiting; a response that is being
\* delivered keeps the FIFO from running empty, unless it is late.
drain ==
    /\ pc = "drain"
    /\ \/ /\ rsp # <<>> /\ rsp' = Tail(rsp)
          /\ NoFault
          /\ UNCHANGED <<pc, step>>
       \/ /\ rsp = <<>> /\ UNCHANGED rsp
          /\ Goto("close")
          /\ \/ out = <<>> /\ Reopens
             \/ out # <<>> /\ Fault("late")
    /\ UNCHANGED <<call, attempt, open, resp, hdr, ret, delivered, cmdq, out, sdm_open, executed>>
--------------------------------------------------------------------------------
\* The calls, each under the driver's mutex.

Call(fn, a, n, where) ==
    /\ call' = [fn |-> fn, addr |-> a, first |-> a, chunks |-> n, left |-> n]
    /\ attempt' = 0 /\ delivered' = <<>> /\ ret' = "ok"
    /\ executed' = {} /\ hits' = 0
    /\ Goto(where)
    /\ strays' = (strays /\ (\/ <<cmdq, out, rsp>> # <<<<>>, <<>>, <<>>>>
                             \/ open /\ ~sdm_open))
    /\ UNCHANGED <<open, resp, hdr, cmdq, out, rsp, sdm_open, faults>>

flash_call ==
    \E fn \in FlashOps \cap Calls, a \in Addrs, n \in 1..MaxChunks :
        /\ pc = "idle" /\ a + n - 1 \in Addrs
        /\ Call(fn, a, n, IF open THEN "cmd" ELSE "drain")

rsu_cmd ==
    /\ pc = "idle"
    /\ \E fn \in RsuOps \cap Calls : Call(fn, 0, 1, IF open THEN "rsu_close" ELSE "rsu")

return ==
    /\ pc = "returned"
    /\ pc' = "idle" /\ step' = "send" /\ call' = NoCall /\ attempt' = 0
    /\ resp' = Stale /\ ret' = "ok" /\ delivered' = <<>>
    /\ executed' = {} /\ hits' = 0
    /\ UNCHANGED <<open, hdr, cmdq, out, rsp, sdm_open, faults, strays>>

\* Another thread reboots, interrupts locked, whatever the thread with the mutex is doing.
sys_arch_reboot ==
    /\ pc \notin {"boot", "stopped", "spin"} /\ call.fn \notin {"warm", "cold"}
    /\ IF pc = "idle" THEN NoFault ELSE Fault("busy_reboot")
    /\ \E type \in {"warm", "cold"} :
         \/ /\ open \/ type = "cold"
            /\ call' = [NoCall EXCEPT !.fn = type]
            /\ Goto(IF open THEN "reboot_close" ELSE "reboot_status")
            /\ UNCHANGED <<attempt, open, resp, hdr, ret, delivered>>
         \/ ~open /\ type = "warm" /\ Restarts("boot")
    /\ UNCHANGED sdm

\* A debugger stops the program and starts it again.
cpu_reset ==
    /\ pc \notin {"boot", "stopped"}
    /\ Fault("cpu_reset")
    /\ Restarts("stopped")
    /\ UNCHANGED sdm

\* Booting takes longer than any command of the SDM. MCUboot loads the application from
\* the flash; a program the debugger restarts goes on without it.
boots ==
    /\ Quiet
    /\ \/ \E a \in Addrs : pc = "boot" /\ Call("read", a, 1, "drain")
       \/ /\ pc = "stopped" /\ pc' = "idle"
          /\ NoFault
          /\ UNCHANGED <<step, call, attempt, open, resp, hdr, ret, delivered, sdm>>

\* An image update the SDM accepts: it configures the FPGA again, mailbox and CPU included.
reconfigures ==
    /\ cmdq # <<>> /\ out = <<>>
    /\ Head(cmdq).op = "RSU_IMAGE_UPDATE" /\ ~Refuses(Head(cmdq))
    /\ Restarts("boot")
    /\ cmdq' = <<>> /\ rsp' = <<>> /\ sdm_open' = FALSE /\ executed' = {}
    /\ NoFault
    /\ UNCHANGED out
--------------------------------------------------------------------------------
Init ==
    /\ pc = "boot" /\ step = "send" /\ call = NoCall /\ attempt = 0 /\ open = FALSE
    /\ resp = Stale /\ hdr = NoHeader /\ ret = "ok" /\ delivered = <<>>
    /\ cmdq = <<>> /\ out = <<>> /\ rsp = <<>> /\ sdm_open = FALSE /\ executed = {}
    /\ faults = 0 /\ hits = 0 /\ strays = FALSE

Sdm == SdmExecutes \/ SdmFails \/ SdmDelivers \/ reconfigures
Driver == mbox_send \/ mbox_wait \/ mbox_word \/ drain \/ return \/ boots
Next == Sdm \/ Driver \/ flash_call \/ rsu_cmd \/ sys_arch_reboot \/ cpu_reset

Spec == Init /\ [][Next]_vars

\* The SDM deals with every command it takes and the CPU runs.
FairSpec == Spec /\ WF_vars(Sdm) /\ WF_vars(Driver)
--------------------------------------------------------------------------------
Steps == {"boot", "stopped", "idle", "drain", "close", "open", "set_cs", "read_id", "reclose",
          "cmd", "rsu_close", "rsu", "reboot_close", "reboot_status", "reboot_update",
          "returned", "spin"}
Ops == {"QSPI_OPEN", "QSPI_CLOSE", "QSPI_SET_CS", "QSPI_READ_DEVICE_REG", "QSPI_READ",
        "QSPI_WRITE", "QSPI_ERASE", "RSU_STATUS", "RSU_IMAGE_UPDATE"}
Commands == [op : Ops, arg : Nat]
Got == Commands \cup {Stale}
Words == [k : {"hdr", "data"}, err : BOOLEAN, len : {0, 1}, of : Got]
Fns == FlashOps \cup RsuOps \cup {"none", "warm", "cold"}

\* Every variable holds a value of its kind, and neither FIFO holds more than it has room for.
TypeOK ==
    /\ pc \in Steps /\ step \in {"send", "wait", "word"} /\ ret \in {"ok", "err"}
    /\ call \in [fn : Fns, addr : Nat, first : Nat, chunks : Nat, left : Nat]
    /\ attempt \in 0..(QSPI_ATTEMPTS - 1)
    /\ open \in BOOLEAN /\ sdm_open \in BOOLEAN /\ strays \in BOOLEAN
    /\ resp \in Got /\ delivered \in Seq(Got) /\ hdr \in Words
    /\ cmdq \in Seq(Commands) /\ Len(cmdq) <= CMD_FIFO
    /\ rsp \in Seq(Words) /\ Len(rsp) <= RSP_FIFO
    /\ out \in Seq(Words)
    /\ executed \in SUBSET Changes
    /\ faults \in 0..MaxFaults /\ hits \in 0..faults

Asked == call.first..(call.first + call.chunks - 1)

\* A flash call that returns success did what it was asked for: every chunk of a write or
\* erase was carried out, and what a read hands out chunk by chunk is the answer to that
\* very command, whatever was dropped, refused, retried or left behind (qspi_cmd). Only
\* an answer that comes after its deadline can be taken for another command's.
FlashServed ==
    pc = "returned" /\ ret = "ok" /\ ~strays =>
        /\ call.fn = "read" =>
              /\ Len(delivered) = call.chunks
              /\ \A i \in DOMAIN delivered :
                    delivered[i] = [op |-> "QSPI_READ", arg |-> call.first + i - 1]
        /\ call.fn = "write" => \A a \in Asked : [op |-> "QSPI_WRITE", arg |-> a] \in executed
        /\ call.fn = "erase" => \A a \in Asked : [op |-> "QSPI_ERASE", arg |-> a] \in executed

\* "One hiccup" must not fail a flash call (the comment on qspi_cmd): it takes a fault in
\* each of the attempts. (A late answer spoils the attempt after its own, too.)
HiccupTolerated ==
    pc = "returned" /\ ret = "err" /\ call.fn \in FlashOps /\ ~strays => hits >= QSPI_ATTEMPTS

\* Every call returns and every reboot comes back, unless an image update was refused.
Terminates == (pc \notin {"idle", "spin"}) ~> (pc \in {"idle", "spin"})

\* A cold reboot asks for the bitstream that is running, unless it takes over a command
\* under way: then that command's answer passes for its RSU_STATUS, and it asks for the
\* image at address 0.
RebootsRunning ==
    pc = "reboot_update" /\ step = "send" /\ ~strays => Command.arg = Image
================================================================================
