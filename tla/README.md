# Verification of the AXC3000 Nios V / Zephyr system

TLA+ models of the parts of this repository that keep state and can go wrong in
ways a test hardly reaches, TLC runs on small instances, and TLAPS proofs for
every value of the constants. Paths below are relative to `src/`.
`ZM` stands for `niosv_zephyr/zephyr_module`.

## 1. Inventory

The board holds two FPGA designs. The *bring-up design* (repository root) is a
UART register protocol in VHDL around arithmetic test blocks. The *Nios V
system* (`niosv_zephyr/`) is a RISC-V CPU running Zephyr, with HyperRAM, a UART
with FIFOs, and remote system update (RSU): new FPGA bitstreams arrive over the
UART, are written to QSPI flash through the Secure Device Manager (SDM), and a
pointer block in flash decides which one configures the FPGA.

| Component | State | Operations | Interacts with |
|---|---|---|---|
| Configuration pointer block (`libRSU_ops.c` 489-831, 1191-1296, 1565-1835; `libRSU.c`) | two flash copies, the block in memory, `cpb_corrupted`, `cpb_fixed` | `load_cpb`, `update_cpb`, `writeback_cpb`, priority add/remove/get, empty, save, restore | flash driver (every read, erase, program), RSU_STATUS, the slot functions |
| SDM mailbox and flash driver (`flash_axc3000_sdm_qspi.c`) | `data->open`, the mailbox FIFOs, the SDM's own open flag | `mbox_cmd`, `sdm_qspi_open`, `qspi_cmd`, read/write/erase loops, `rsu_cmd`, `sys_arch_reboot` | the SDM, every flash user, the reboot path (which takes no mutex) |
| HyperRAM bridge (`hw/hyperram_axi4lite_bridge.vhd`) | `w_pending`, owner and half of the write, FIFO of read halves | arbitration, W phase, R and B routing | two CPU masters, the `hyperram_axi` core |
| Sub-partition table (`libRSU_ops.c` 162-466, 833-1189) | two flash copies, the table in memory, flags, checksum | load, restore, write back, create, rename, delete | flash driver, slot numbering |
| Slot operations and lifecycle (`libRSU.c`, `libRSU_cb.c`, `libRSU_misc.c`, `libRSU_cfg.c`) | `ctx.state`, `plat_database`, write protection | init, exit, erase, program, verify, load | pointer block, partition table, image blocks |
| Image blocks (`libRSU_image.c`) | the list of sections seen | relocate on program, undo on verify | slot operations |
| Platform layer (`rsu_plat_zephyr.c`) | the mutex, write windows | qspi and mailbox forwarding, `may_write` | flash driver |
| Management group (`ZM/src/rsu_mgmt.c`) | uploaded image, lengths, `librsu_ready`, delayed load | status, upload, program, load, pr | host script, slot operations, `pr.c` |
| Partial reconfiguration (`ZM/src/pr.c`) | freeze and reset bits, PR controller status | program a persona | management group |
| UART (`hw/uart/*.vhd`, `uart_axc3000.c`, `apps/uart_fifo_test`) | two FIFOs in block RAM, holding register, error counters, interrupt mask and levels, RX timer | push, pop, register access, poll and interrupt API, the echo handler | console, mcumgr |
| PLL reconfiguration (`hw/hyperram_pll_reconfig.vhd`) | synchronisers, newest request, step, bus handshake, `dps_done` | enable write, read-modify-write of counter C1 | HyperRAM core (another clock), the PLL's AXI4-Lite bridge |
| JTAG UART, cache, warm reboot | small register machines | | CPU |
| Serial protocol (`source/fpga_communication/*.vhd`) | receive and transmit buffers, timeout counter | receive a frame, answer, stream | `test_uart.py` |
| Register block of the bring-up design, scripts, test applications, generated IP | | | |

What is hard to test, and why the models are about it:

* *Power loss and CPU reset between any two flash operations, and inside one.*
  NOR flash clears bits one by one, so a pointer may be left with some bits of
  its new value: another pointer that may be valid.
* *Failures in the middle of a sequence*: a status, read or program command
  refused after earlier ones took effect, and memory that no longer says what
  flash holds.
* *Answers without a name*: nothing in a mailbox response says which command it
  answers, so one dropped, late or left-over response can shift all later ones.
* *Reboot without the mutex*, over whatever command is under way.
* *Lost and repeated messages*: an upload is many requests, the script may be cut
  off anywhere and started again, and the board may still be working for the
  old one; a delayed load runs on another work queue meanwhile.
* *Two bus masters and out-of-phase channels* in the bridge: addresses, data and
  responses travel separately and are put together again by order alone.
* *Clocks that fall together*: a push and a pop, a byte's arrival and the read
  that decided a clock earlier whether there is one, a request and the start of
  the one before; and steps of software between which any number of clocks pass.
* *The same computation twice*: an image is changed while it is written and the
  verification has to change its own copy in the same way, block by block.

`PROJECT.json` lists each hazard at its line with the properties that would
catch it.

What makes each component correct:

* pointer block: the boot order survives every interruption; memory and flash
  agree before anything is computed from memory; a partition is in the order at
  most once; the library comes up again.
* mailbox: a call that reports success did what it was asked, with its own
  answers; one fault does not fail a call; every call returns.
* bridge: a master reads the last word written; each response carries the half
  its own read asked for; data beats never overtake their commands.
* partition table: as the pointer block, plus no two partitions overlap or share
  a name after create, rename, delete, and no pointer is without its slot.
* image blocks: what verifies is what was programmed, what was programmed
  verifies, and the loader's pointers stay inside the slot.
* management group: what is programmed is what was uploaded under the CRC given;
  a repeated request does no harm.
* UART: two queues with atomic accesses to whoever looks at the registers; bytes
  come back once and in order, none waits for an interrupt that never comes, no
  loss goes unreported.
* PLL reconfiguration: `dps_done` toggles for a phase that is in the PLL, and the
  newest request gets there.

## 2. Plan

1. `Cpb`, `BootList`, `Cpb_proofs` - done.
2. `SdmMailbox`, `SdmMailbox_proofs` - done.
3. `HyperramBridge`, `HyperramBridge_proofs` - done.
4. `RsuMgmt`, `RsuMgmt_proofs`: the update path from the host script to the
   slots - done. It uses the promises of `Cpb` (as `BootList`) rather than its
   steps.
5. `Spt`, `Spt_proofs`: the partition table, with the fault vocabulary of `Cpb`,
   create, rename and delete - done.
6. `SyncFifo`, `Uart`, `AtomicPort`, `Uart_proofs`: the UART clock by clock
   implements two queues with atomic accesses. `UartEcho`, `EchoLine`,
   `UartEcho_proofs`: driver and interrupt handler on top of those - done,
   without the bit timing and the polled functions.
7. `ImageBlock`, `ImageBlock_proofs`: relocation and comparison of signature
   blocks - done.
8. `PllReconfig` - done.
9. Open: the warm reboot and the JTAG UART, as far as they carry state;
   `poll_out` against a running handler.
10. Open proofs: `DoneHonest` of `PllReconfig`.

Three abstract specifications say what detailed ones implement: `BootList` (the
boot order, by `Cpb`), `AtomicPort` (the UART's registers, by `Uart`) and
`EchoLine` (a lossy queue, by `UartEcho`). `SerialPort` is shared: `AtomicPort`
adds to it the answers as the bus gives them, `UartEcho` the software.

## 3. Modules

### Cpb (the pointer block) and BootList (what it promises)

A slot pointer is the *set of its one bits*. Erase sets all bits; programming
intersects. `ERASED_ENTRY` is all bits, `SPENT_ENTRY` none, as in the code
(`0xFF..` and `0`), and `Parts` are the offsets of the partitions that are not
reserved. A block is a magic number (erased, ok, bad) and `NSlots` pointers; the
other header words do not change after the programming file is written and are
left out.

| Model | Code |
|---|---|
| `flash`, `cpb`, `cpb_corrupted`, `cpb_fixed` | the copies; fields of `plat_database` |
| `fw` | the state word of RSU_STATUS, fixed at configuration |
| `rsu_slot_program_buf`, `..._callback`, `rsu_slot_disable`, `rsu_slot_enable`, `rsu_create_empty_cpb`, `rsu_save_cpb_to_buf`, `rsu_restore_cpb_from_buf` | the same functions up to their first flash operation; erase is disable plus data that the model does not hold |
| `priority_add`, `priority_remove` | the change of the block in memory |
| `update_cpb`, `erase_part`, `write_table`, `write_magic` | one flash operation each: the direct update of both copies, and the erase / table / magic sequence shared by `writeback_cpb` and the restore of a copy inside `load_cpb` (`job` says for whom) |
| `load_cpb` | the decision on the two copies; `LeftInBuffer` is what a failed load may leave in memory |
| `PowerLoss`, `CpuReset` | at every step. `Torn` allows any subset of the bits being cleared, `Cut` whole entries (the SDM finishes the commands it has) |
| `Fault(kind)` | status, read or program commands that fail |

The flash operations are separate actions because power can fail between them;
the decisions of `load_cpb` are one action because nothing else changes flash
meanwhile (the library's mutex is held). Two reads of one copy within
`load_cpb` may still fail independently (`r`, `again`).

`cand` is a ghost: the boot orders a restart may come back with. `BootList` has
it as its only essential variable: a call adds one, settling picks one. The
mapping is `BootOrder` at the end of `Cpb`: the order of a block is its pointers
in slot order, the `Rank`-th of them at place `Rank`. A table that was reported as corrupted and is being replaced promises nothing
(`cand = {}`).

### SdmMailbox (the flash and RSU driver)

The data of a response is abstracted to the command it answers, which is what
the properties need. `pc` is the mailbox command the driver is at, `step` the
place inside `mbox_cmd`. `cmdq`, `out` and `rsp` are the command FIFO, the
response words the SDM has still to deliver, and the response FIFO; the SDM is
external and modelled from how the driver uses it: it works in order, may drop
or refuse a command, and blocks when the response FIFO is full.

| Model | Code |
|---|---|
| `mbox_send`, `mbox_wait`, `mbox_word`, `TimesOut` | `mbox_cmd` with its waits and deadlines |
| `drain`, `OpenSequence` | `sdm_qspi_open`: drop, close, open, chip select, ID |
| `TryAgain`, `NextChunk`, `flash_call` | `qspi_cmd`'s attempts; the chunk loops of read, write, erase |
| `rsu_cmd`, `RsuSequence` | `rsu_cmd` and its two users |
| `sys_arch_reboot`, `RebootSequence`, `RebootJumps`, `reconfigures` | cold and warm reboot, without the mutex |
| `cpu_reset`, `boots` | a debugger reset; the start of the program |

A fault is one of: `drop`, `error` (refused), `no_room` (the command FIFO takes
nothing), `late` (the driver gives up before an answer that does come), `cpu_reset`, `busy_reboot` (a reboot while a call is under way).
`faults` bounds them; `hits` counts those of the current call. After a reboot
MCUboot reads the flash first, so the drain happens before anything else; after
a debugger reset the application may start without it. Booting takes longer
than any command of the SDM (`Quiet`).

An answer that comes after its deadline, or to a driver that was reset or
overtaken by a reboot, is taken for the next command's: nothing in it says
whose it is. The ghost `strays` says that such answers are about, or that one of
them left the driver wrong about the flash being open. A call that drains with
nothing more to come is rid of them, and so is one that starts with empty FIFOs
and the SDM's side as the driver believes it (`Call`). `FlashServed`,
`HiccupTolerated` and `RebootsRunning` are about the driver without strays. With
them all three fail, and by the same mechanism:

* one late answer shifts all that follow: a read reports success with another
  command's words, and the next attempt is spoilt as well;
* the RSU commands never drain: after a debugger reset they take what is left;
* a cold reboot over a running command takes that command's answer for its
  RSU_STATUS and asks for the image at address 0, which the SDM refuses. The
  comment in the driver (459-460) says that such a command's leftovers are
  dropped by the drain, which this path does not reach.

### HyperramBridge (the AXI4-Lite bridge)

A clock edge is one action (`rising_edge`) with whatever handshakes it
completes: a request accepted (`EdgeWrite`, `EdgeRead`) or not (`EdgeIdle`), a
data word sent, an R and a B response taken. Between edges the masters issue
requests and the core (external) carries out its oldest command. An address is
a beat and a half of it. `words` is a ghost: the memory after all accepted
commands; each read records the word it should see (`want`). The modulo of the
FIFO pointers is `Wrap`. One strobe stands for the four of a word. The `i_*`
port is tied off in `niosv_zephyr_top.vhd`; the model lets both masters read
and write, as the file's header says they may.

### RsuMgmt (bitstream updates, from the script to the slots)

The composition that an update goes through: `update_bitstream.py`, the SMP
line, the handlers of `rsu_mgmt.c`, the library's slot functions and `pr.c`.
The handlers run one after the other on mcumgr's work queue, so `pc` says where
the one request being handled stands; `load_work` runs on the system work queue
and gets in wherever the library's mutex is free (`Locked`).

| Model | Code |
|---|---|
| `image`, `image_len`, `image_have`, `librsu`, `load_work` | the statics of `rsu_mgmt.c`; `librsu` adds what a failed open leaves of `plat_database`; `load_work` is `load_slot` while the work is scheduled |
| `rsu_mgmt_status`, `_upload`, `_program`, `_load`, `_pr` | the handlers up to their first library call that takes time |
| `rsu_slot_erase`, `slot_remove`, `erase_dev` | `rsu_slot_erase`: checks, `priority.remove`, the erase sector by sector |
| `rsu_slot_program_buf`, `program_block`, `read_back`, `slot_add` | `librsu_cb_program_common`: checks, write and read back block by block, `priority.add` |
| `rsu_slot_verify_buf`, `verify_block` | `librsu_cb_verify_common` and the end of the command |
| `pr_start`, `pr_stream`, `pr_finish`, `PrEnds` | `axc3000_pr_program`; `hung` is the store that never ends |
| `load_work_handler` | `rsu_slot_load_after_reboot` on the system work queue |
| `HostStarts`, `HostSends`, `HostTakes`, `HostQuits` | the script: start, `client.request`, `check` and the next request, time-out or Ctrl-C |
| `LineLoses`, `PowerLoss`, `CpuReset` | external |

Abstractions. A block of an image is one chunk of the upload, one write to the
slot and one burst to the PR controller. The CRC tells any two contents of the
buffer apart. `priority` has the ranks that `Cpb` promises: a change that power
or a failure cuts short happened or did not, and the tables may be refused
afterwards (`corrupted`, for both tables; a restart may find them refused or
repaired, so the flag is free in both directions where `Cpb` allows either). The script's
choice of a slot is any slot, its size check is left out (the board refuses too
large an image), and a client that repeats a request is included although this
script does not: the comment in `rsu_mgmt_upload` allows for it. After a
successful program the script always asks for the status and the load; leaving
without is `HostQuits`. A reconfiguration keeps flash and nothing else. In the
PR controller the status is the one register that the code reads; `region` says
whether the logic in the region is complete.

### Spt (the sub-partition table)

A table is the sequence of its slots; the copies, `check_spt`, the checksum and
the order of the writes are as in the code, and the pointer block is the set of
offsets it holds (its own steps are `Cpb`'s).

| Model | Code |
|---|---|
| `flash`, `spt`, `spt_corrupted`, `cpb_corrupted` | the copies; fields of `plat_database` |
| `Good`, `Sound`, `Checksum` | the magic number, `check_spt`, and the checksum over the block as it is in memory |
| `load_spt`, `check_both_spt`, `Refused` | the decision on the two copies, its repair and its errors |
| `erase_part`, `write_table`, `write_magic` | the sequence shared by `writeback_spt` and the repair (`job`) |
| `rsu_slot_rename`, `_create`, `_delete` and the steps of the deletion | the functions: pointer, data and entry are separate steps |
| `rsu_save_spt_to_buf`, `rsu_restore_spt_from_buf` | backup and restore of the table |
| `Restart`, `Fault(kind)` | power loss and CPU reset at every step; errors of the load, of erase and program, and of the pointer block |

`cand` is the ghost of `Cpb` again: the tables a restart may come back with. A
failed erase or program empties it until the next load that succeeds.

### SyncFifo, Uart, AtomicPort (the UART clock by clock)

`SyncFifo` is the FIFO as a record of its registers and the function that a
rising edge is. A popped cell is `Junk`, so that reading too late or too early
shows. `Uart!rising_edge` is one clock of every process of `uart_axi4lite.vhd`.

| Model | Code |
|---|---|
| `Edge`, `do_push`, `do_pop`, `Wrap` | `sync_fifo.vhd` |
| `tx_engine`, `tx_popped`, `tx_hold` | the holding register behind the TX FIFO's late read data |
| `uart_rx`, `timeout_timer` | the receiver: whether a character is under way, ends as a byte, a glitch or with a bad stop bit; the RX timeout |
| `bus_writes`, `bus_reads`, `r_was_empty`, `ReadValue` | the AXI4-Lite handshakes and registers |
| `error_counters` | the saturating counters and their clear |
| `AskRead`, `AskWrite` | the bus master (external): any request at any time |

`AtomicPort` states what this comes to: two bounded queues, a byte held for the
line, atomic accesses and the answer of each read. `PortSpec` is its
specification under the mapping at the end of `Uart`: a byte belongs to the
master from the clock that pops it. The bit timing of `uart_serial.vhd` is left
out: when a character ends is the environment's choice. BREADY and RREADY are
always up, as the bus master of this system has them.

### UartEcho, SerialPort, EchoLine (the driver and an interrupt handler)

`UartEcho` extends `SerialPort` by `uart_axc3000.c`'s interrupt API and by the
echo handler of `apps/uart_fifo_test`. A step is one register access and the
code up to the next one, and any number of clocks pass between two (`Idle`).

| Model | Code |
|---|---|
| `Interrupt`, `IrqStatus`, `irq_is_pending` | the interrupt and `uart_irq_update` / `_is_pending` |
| `FillClaimed`, `SendClaimed`, `fifo_fill`, `TxDisable` | the sending half of the handler with `ring_buf_get_claim` and `uart_fifo_fill` |
| `RxReady`, `RxCount`, `FifoRead`, `EchoFill`, `EchoWrite`, `ring_buf_put`, `TxEnable` | the receiving half: read, send directly if nothing waits, else into the ring |
| `err_check`, `ClearErrors` | `uart_err_check` in the main thread |
| `uart_axc3000_init`, `uart_irq_rx_enable` | the start of `main` up to the RX interrupt |

`InFlight` lists the bytes received and not sent, wherever they are; `EchoLine`
is a queue that may drop bytes only behind `Room` others.

### ImageBlock (bitstreams in a slot)

A block is its first word and data (`head`), its pointers and the CRC; offsets
count blocks. `state` is `rsu_image_state`, and programming and verification
run `Advance` over it independently.

| Model | Code |
|---|---|
| `AddSections`, `BlockType`, `IsAbsolute`, `sig_block_process`, `Advance` | `librsu_image_block_process` |
| `sig_block_check`, `Moved`, `Adjusted`, `Refused` | `sig_block_adjust` |
| `Same` | `block_compare`, `sig_block_compare` |
| `program_block`, `read_back`, `slot_add` | `librsu_cb_program_common`: write, read back, boot order |
| `verify_block`, `verified` | `librsu_cb_verify_common` |
| `rsu_slot_erase`, `rsu_slot_program`, `rsu_slot_verify`, `Rejected` | the entry points of `libRSU.c`, bitstreams and raw data |
| `Fails`, `Written` | errors and power loss at every block; a write over old data mixes the two |
| `FlashDecays` | external: flash that loses a block between two calls |

`made` is a ghost: the last programming that succeeded and what it left.
`Linked` says how a bitstream is built, `Loads` what a loader does with it.
What the code does that the properties leave out, each confirmed by dropping
the condition that excludes it:

* an image that is cut off inside its last block verifies or not depending on
  what the buffers held before: `block_compare` (`libRSU_image.c:206`) looks at
  4 KB, also behind the end of the data (`libRSU_cb.c:328`);
* an absolute image linked for an *earlier* slot passes the pointer check,
  because the difference is negative and compared signed
  (`libRSU_image.c:150-162`); the header (`libRSU_image.h:22-25`) says that all
  pointers are less than the slot's size. A pointer equal to the size passes,
  too;
* beyond `MAX_SECTIONS` sections the list is full, `add_section`'s error is
  ignored (`libRSU_image.c:61`, `:105`), and later signature blocks keep their
  old pointers.

### PllReconfig (phase shifts of the HyperRAM read clock)

`Clock` is one clock of the process in `hyperram_pll_reconfig.vhd` and of the
bridge; the core works at four times the rate, so its steps come between two
clocks and `age` keeps their distance in bounds: a phase is up one clock before
the pulse, the pulse lasts two or three.

| Model | Code |
|---|---|
| `Synchronises`, `NewRequest` | the flops; a phase that changes as it is sampled comes out as any |
| `Requested` | `request_pending` and `request_phase`: the newest request, kept when it meets the start of another |
| `Start`, `WaitDps`, `Request`, `WriteResponse`, `ReadResponse` | the branches of the state machine |
| `Hold`, `Held` | the reset by a lost lock |
| `Toggles` | `done_toggle` |
| `Bridge`, `CoreSets`, `CoreRaises`, `CoreLowers`, `LosesLock`, `Locks` | external: the bridge as the test bench has it, the core, the PLL |

`unanswered` is a ghost: the phases asked for and not answered. `Applied` leaves
out one case (`Abandoned`): the lock is lost after the bridge has accepted the
read of C1. The bridge then holds its answer until RREADY, which the master
raises only for its next read; its next transaction is the enable write, which
the bridge does not accept. No request is applied from then on. The test bench
(`hw/sim/hyperram_pll_reconfig_tb.vhd`, `lock_loss_stops_and_restarts_cleanly`)
loses the lock only while the bus is idle.

## 4. Runs

| Run | Checks | Shows |
|---|---|---|
| `cpb` | `TypeOK`, `Anchored`, `InSync`, `NoDuplicate`, `Removed`, `BootListSpec` | power loss and CPU reset anywhere, status commands failing: one copy is always good and holds the old or the new order; memory and copies agree; the block implements `BootList` |
| `cpb_faults` | `Opened`, `Healed` | every function and every fault: what opens without the flag is consistent, and it does open once things are stable |
| `mailbox` | `FlashServed`, `HiccupTolerated`, `RebootsRunning`, `Terminates` | drops, refusals, full FIFOs, late answers, resets and reboots: flash calls without a stray answer are right and fail only after a fault in each attempt; an undisturbed reboot starts the running bitstream; every call ends |
| `bridge` | `TypeOK`, `HalvesMatch`, `ReadsLastWrite`, `WriteBeatsHaveCommands` | two readers and two writers, the FIFO of halves full: words land in order, in their beat and half, and each answer carries its own half |
| `rsu` | `Bootable`, `ProgramHonest`, `UploadIntact`, `NeverInPlace` | two scripts' worth of images and slots, everything lost, repeated, failing or cut off: the boot order leads to whole images only, success is true, the buffer is never a mixture |
| `rsu_pr` | `RegionHeld`, `LoadHappens` | with PR: a half-programmed region stays held, an acknowledged load is carried out or refused |
| `spt` | `Anchored`, `InSync`, `BootKnown`, `NeverWritesUnsound`, `Durable`, `Healed` | every fault at every step of rename, create, delete and restore: one copy is good, no pointer is without its slot, no unsound table is written, reported success is durable, and the library opens again |
| `uart` | `PortSpec` | the clocked hardware refines `AtomicPort` |
| `uart_echo` | `FillFits`, `WakesUp`, `LossNoticed`, `EchoSpec`, `Echoed` | driver and handler refine `EchoLine`, never write to a full FIFO, leave nothing behind, report every overrun, and do not spin or sleep while a byte waits |
| `image` | `TypeOK`, `RoundTrip`, `DamageNoticed`, `Loadable` | failures at every block and decaying flash: verification succeeds exactly for what was programmed, and a loader stays inside the slot |
| `pll` | `DoneHonest`, `Applied` | requests at any distance, metastable samples, lock lost at any clock: a toggle is for a phase that was asked for and is there, and the newest request gets there |

The type invariants of `SdmMailbox`, `RsuMgmt`, `Spt`, `Uart` and `UartEcho` are
proved and not in a run.

One run ends in a counterexample, a disagreement between the code and a comment
of the repository (quoted in `PROJECT.json`):

| Run | Violates | What happens |
|---|---|---|
| `cpb_stale` | `Removed` | after a failed `writeback_cpb` the stale block in memory makes a later disable spend the wrong entry and report success |

Other disagreements have no run of their own. Those of the mailbox, of images and
of the PLL are described with their modules. In the pointer block, power lost
between `update_cpb`'s two writes leaves two good copies that differ, and
`load_cpb` refuses both, although the comment at `libRSU_ops.c:569` says that
CPB0 is used when both pass.

Every property of a passing run has a mutant in `PROJECT.json`: a definition of
the module changed as a plausible bug would, with which TLC finds the property
violated.

### Bounds and why they are enough

* `cpb`: two pointers, two partitions (the board's P1 and P2). Bits 22, 23 and
  one that stands for all others: P1 is P2 with one bit cleared, so a torn or
  overwritten pointer can turn into the other partition. Two slots reach an
  erased entry, compression and a full table. `restore`, `empty` and
  `program_callback` are in `cpb_faults`, which has one partition and one slot:
  there every step can fail and the number of pointers plays no part in which
  copy is trusted. The copies are in the other SPT order there. `cpb` leaves
  out `empty` because `NoDuplicate` does not hold with it (`NeverEmptied`, in
  section 5). `Anchored`, `InSync` and `BootListSpec` with `empty` are covered by
  the theorems.
* `mailbox`: two chunks, two addresses, three faults: as many as there are
  attempts, so that a call does run out of them, and a late answer, a reset and
  a reboot may meet. A response FIFO of four words does fill up.
* `bridge`: one beat (two halves), two values, two commands in the core. Each
  master may be one word ahead with its data. The FIFO of halves has depth 1:
  empty, full and pushed while popped; that its pointers wrap at every depth
  is part of `BridgeHalvesMatch`.
* `rsu`: two images of two blocks, two slots of two blocks: a first and a later
  chunk, a repeated one, an older session's image against the new one's, a slot
  in the boot order beside the one that is written. Images and slots are
  symmetric. Commands `program` and `load`, every kind of failure. There is no
  bound on the number of sessions, requests, losses or restarts.
* `rsu_pr`: one image, one slot, all commands, mailbox and PR failures; liveness
  is checked without symmetry.
* `spt`: the board's two slots, one name to ask for beside a reserved one, two
  extents, one of which overlaps P2 and lies outside the writable windows. Two
  entries are full, so create meets a full table, a free entry and an overlap.
* `uart`: FIFOs of two, two distinct bytes in a repeating sequence (the port
  never looks at a byte, so a lost, doubled or misplaced one breaks it),
  counters that saturate at 1. `uart_echo` has the same, a ring of one and a
  buffer of two: FIFO, ring and buffer fill. Glitches and framing errors are not
  in these two runs (`Disturbances` is empty); the proofs have them.
* `image`: two slots of six blocks and nine images: linked for offset 0, for
  either slot, damaged, too long, cut off, with a section more than the list of
  three takes. An erase that fails stops after one block, block 3 may decay.
* `pll`: three phases, so that a sampled mixture is neither the old nor the new
  one; two requests ahead of their answers, one loss of lock.

`CHECK_DEADLOCK FALSE` stands where the system may stop: a refused image update
leaves the CPU in an endless loop by design (`spin`), and in `cpb_stale` all
calls may be refused.

### Fairness

`Cpb!FairSpec` has weak fairness of the library's own steps (`Steps`: the
thread inside a call goes on) and of `rsu_qspi_open` (the application opens a
closed library). Power becoming stable is an action without fairness;
`Healed` is conditional on it. `SdmMailbox!FairSpec` has weak fairness of the
SDM and of the driver: the driver's waits have deadlines, and the SDM handles
or drops what it took. `RsuMgmt!FairSpec` has weak fairness of the handlers
(mcumgr's work queue goes on with the request it has) and strong fairness of
`load_work_handler`: the mutex is free again and again, and `k_mutex_unlock`
hands it to the thread that waits. `Spt!FairSpec` is as `Cpb`'s.
`UartEcho!FairSpec` has weak fairness of the handler and of the start of the
main thread, of the line taking the byte held for it and of characters and quiet
times coming to an end (`Heard`), and strong fairness of the interrupt: one
raised again and again is taken. That a character which starts ends as a byte is
an assumption: noise on the line that never becomes one starts the RX timeout
over and over, and holds the last bytes back while it lasts. `PllReconfig!FairSpec` has weak fairness of clocks and
of the core's pulses, and strong fairness of a clock at which the bridge moves
on: it answers after some time. No fairness is assumed of calls, of the host, of
`uart_err_check`, of requests for a phase, of faults or resets.

## 5. Proofs

| Theorem | Statement | From |
|---|---|---|
| `CpbTypeCorrect` | `Spec => []TypeOK` | `CpbAssumption` |
| `CpbAnchored` | `Spec => []Anchored` | and `StatusFaultsOnly` |
| `CpbInSync` | `Spec => []InSync` | and `StatusFaultsOnly` |
| `CpbNoDuplicate` | `Spec => []NoDuplicate` | and `StatusFaultsOnly`, `NeverEmptied` |
| `CpbRemoved` | `Spec => Removed` | and `StatusFaultsOnly`, `NeverEmptied` |
| `CpbImplementsBootList` | `Spec => BootListSpec` | and `StatusFaultsOnly` |
| `CpbOpened` | `Spec => Opened` | `CpbAssumption`, every fault |
| `MailboxTypes` | `Spec => []TypeOK` | `SdmAssumption`, every fault |
| `MailboxServes` | `Spec => []FlashServed` | `SdmAssumption`, every fault |
| `MailboxTolerates` | `Spec => []HiccupTolerated` | `SdmAssumption`, every fault |
| `MailboxReboots` | `Spec => []RebootsRunning` | `SdmAssumption`, every fault |
| `BridgeTypeCorrect` | `Spec => []TypeOK` | `BridgeAssumption` |
| `BridgeHalvesMatch` | `Spec => []HalvesMatch` | `BridgeAssumption` |
| `BridgeReadsLastWrite` | `Spec => []ReadsLastWrite` | `BridgeAssumption` |
| `BridgeWriteBeatsHaveCommands` | `Spec => []WriteBeatsHaveCommands` | `BridgeAssumption` |
| `RsuTypeCorrect` | `Spec => []TypeOK` | `RsuAssumption` |
| `RsuBootable` | `Spec => []Bootable` | `RsuAssumption`, every fault |
| `RsuProgramHonest` | `Spec => []ProgramHonest` | `RsuAssumption`, every fault |
| `RsuUploadIntact` | `Spec => []UploadIntact` | `RsuAssumption`, every fault |
| `RsuNeverInPlace` | `Spec => NeverInPlace` | `RsuAssumption`, every fault |
| `RsuRegionHeld` | `Spec => []RegionHeld` | nothing |
| `SptTypeCorrect` | `Spec => []TypeOK` | `SptAssumption` |
| `SptAnchored` | `Spec => []Anchored` | `SptAssumption`, every fault |
| `SptInSync` | `Spec => []InSync` | `SptAssumption`, every fault |
| `SptBootKnown` | `Spec => []BootKnown` | `SptAssumption`, every fault |
| `SptNeverWritesUnsound` | `Spec => []NeverWritesUnsound` | `SptAssumption`, every fault |
| `SptDurable` | `Spec => Durable` | `SptAssumption`, every fault |
| `UartTypeCorrect` | `Spec => []TypeOK` | `FifoAssumption`, `UartAssumption` |
| `UartImplementsPort` | `Spec => PortSpec` | `FifoAssumption`, `UartAssumption` |
| `EchoTypeCorrect` | `Spec => []TypeOK` | `PortAssumption`, `EchoAssumption` |
| `EchoFillFits` | `Spec => []FillFits` | `PortAssumption`, `EchoAssumption` |
| `EchoWakesUp` | `Spec => []WakesUp` | `PortAssumption`, `EchoAssumption` |
| `EchoLossNoticed` | `Spec => []LossNoticed` | `PortAssumption`, `EchoAssumption` |
| `EchoImplementsLine` | `Spec => EchoSpec` | `PortAssumption`, `EchoAssumption` |
| `ImageTypeCorrect` | `Spec => []TypeOK` | `ImageAssumption`, `SlotsAssumption` |
| `ImageRoundTrip` | `Spec => []RoundTrip` | `ImageAssumption`, `SlotsAssumption` |
| `ImageDamageNoticed` | `Spec => []DamageNoticed` | `ImageAssumption`, `SlotsAssumption` |
| `ImageLoadable` | `Spec => []Loadable` | `ImageAssumption`, `SlotsAssumption` |

`CpbAssumption`: partitions are pointers that are neither erased nor spent, at
least one slot. Two conditions are hypotheses of theorems about `Cpb`, not
assumptions of the module, because without them the properties are false and TLC
shows it:

* `StatusFaultsOnly`: only status commands fail (`FaultKinds` within `status`),
  and `program_callback`, which works on a refused table, is not used. With a
  failing program command `Anchored`, `InSync`, `NoDuplicate` and `Removed` break
  (`cpb_stale` shows the last). With a failing read `Anchored` and `NoDuplicate`
  do: power lost in `update_cpb` leaves one copy torn, the other cannot be read at
  the next start, and `load_cpb` repairs it from the torn one. `program_callback`
  breaks `Anchored`.
* `NeverEmptied`: no `rsu_create_empty_cpb`. A pointer torn by power loss in
  `update_cpb` may equal the other partition's. `load_cpb` refuses the two copies,
  which differ; `rsu_create_empty_cpb` then erases the first of them, and power
  lost at that point leaves the torn copy as the only good one.

`SdmAssumption`: positive sizes of FIFOs and of the attempts, addresses are
numbers. `BridgeAssumption`: positive depths.
`RsuAssumption`: images have at least one block, slots too, and the markers for
no slot and no load are not slots. `SptAssumption`: a programming file's tables
are sound, extents have a positive length. `FifoAssumption`, `PortAssumption`,
`UartAssumption`, `EchoAssumption`: positive sizes, levels within the FIFO.
`ImageAssumption`, `SlotsAssumption`: images are not empty, slots do not overlap
and lie behind an area as large as they are.

*Anchored and InSync.* Neither is inductive. The inductive invariant adds where
the sequence stands: while `update_cpb` works on the first copy the second is
untouched, and the other way round (`UpdateInv`); inside the erase sequence the
copy that is not being written is good and equals the block the sequence
writes, or the one from before (`SeqInv`); both copies and memory agree when no
step is pending (`SyncInv`); and the flags and the firmware's status say
something true of flash (`FlagInv`, `FwInv`, `CallInv`). Torn bits need no case
of their own: whatever the torn copy holds, the argument rests on the other.

*Opened* needs only what `load_cpb` itself establishes: between reading a good
copy and the magic number of the repaired one, memory equals the good copy and
the repaired copy holds the part already written (`OInv`). It holds with every
fault.

*NoDuplicate, Removed.* A partition is added only where it was looked for and not
found (`NoPriority`), or after it was taken out of the block in memory; `DupInv`
carries that absence from the search to the write, over every step of the
sequence in between, and says that no block a restart may find, and none that
was saved, holds a partition twice. The search goes by ranks, and compression
renumbers them: what `Rank` does to an entry is shown by counting (`RankIs`,
`CompressedIs`), with the cardinality of intervals instead of an induction.

*The boot list.* `BootOrder` of a changed block is computed for each change:
`OrderAdd` appends, `OrderRemove` cuts one place out, `OrderCompressed` leaves the
order as it is. The first needs `PackedInv`: in every good copy the erased entries
come last, or the entry that `priority_add` takes would not be the end of the
order. It survives a torn write because a torn entry only loses bits: it is not
erased unless it was before (`TornPacked`). With that, each call, load, save and
replacement maps to a step of `BootList` (`MapChange`, `MapSettle`, `MapVoidSave`,
`MapRefuse`), and the steps of the write sequence and of the flash to stutters.

*The mailbox.* The invariant is `TypeOK /\ Shape /\ (~strays => Clean)`. `Shape`
is about the driver alone: how far the chunks of the call are. `Clean` is what
makes answers without names safe: outside a command the FIFOs are empty, and
inside one they hold that command or its own answer and nothing else (`Piped`);
the driver is right about the flash being open (`Known`); every attempt that
failed has met a fault of its own (`Counted`), the one apparent exception being
the close of a flash that was not open, which is refused and does not end the
attempt; and the chunks before the present one are done (`Served`). `Clean` needs
no case for a late answer, a reset or a busy reboot: each of them raises
`strays`, and what has to be shown is that `Clean` holds where a call lowers it.

*HalvesMatch.* `read_count` is the number of reads in flight, `read_tail` is
that many places behind `read_head`, and the entry of each read is its own half
(`FifoInv`). For the type of the ghost the accepted write's data must exist:
each master's unsent words are its pending request plus its pending data phase
(`WInv`).

*ReadsLastWrite, WriteBeatsHaveCommands.* `History` relates what the core still
has to do to what the masters expect: there is a sequence of memories that the
queued commands lead through, from `mem` to the ghost `words`, in which the
`c[k]`-th data beat belongs to the `k`-th command's write, the word still to
come included (`DataBeats`); the answered reads are a prefix of all reads, and
each later one wants what the memory of its own command holds. A request of a
master makes the sequences longer, a step of the core shifts them.

*Bootable, ProgramHonest, NeverInPlace.* The inductive invariant follows the
program command: from `rsu_slot_erase` on the buffer is the image of the request
(`TaskInv`); from the removal to the addition the slot is out of the boot order
(`OutInv`); the blocks before `k` have been read back (`WrittenInv`), which at
the addition is the whole image (`VerifyInv` from there on); a reply belongs to
the request that the script waits for (`NetInv`). Power loss needs no case per
step: what it can leave half-done is the slot that is out of the order.

*UploadIntact.* Whoever has got past the first chunk finds the beginning of its
own image in the buffer, or no buffer (`BufInv`). The case that makes it more
than bookkeeping is a script that starts while its predecessor's request is
still with the board: it has sent nothing yet, and the first thing it sends
replaces the buffer.

*RegionHeld.* The region is held before the controller starts, and a partly
written region is never under the status `done` (`RegionInv`).

*The partition table.* One invariant carries all five properties: every table
that is anywhere (flash, memory, the call, the backup) is sound (`AllSound`),
because create and rename check against the table they change; the copy that is
not being written is good and the final one, once the sequence has passed it
(`SeqInv`); the good copies hold tables a restart may find (`CandInv`), all of
which know every boot pointer (`BootInv`), because the pointer goes before the
entry does.

*UartImplementsPort.* A refinement proof: `EdgeKeeps` says what one clock does
to the words between a FIFO's pointers, for any depth, and `UInv` where a byte on its way from
the RAM to the line is (in exactly one of three places) and that a read which
found a byte still has it when it answers. Every clock then maps to one step of
`AtomicPort`, every request of the master to a stutter.

*The echo handler.* `MoveInv` says how far the handler is with the bytes it
moves, `WakeInv` that the driver's copy of the mask is the register's and that
the TX interrupt is on while bytes wait outside the handler, `LossInv` when an
error code may be held. `FillFits` rests on the transmit FIFO only draining
between the handler's steps.

*EchoImplementsLine.* A clock splits `InFlight` in five: the byte the line takes,
what is in the transmit FIFO, what waits in the ring and the handler's buffer
(`Waiting`), the byte read out of the receive FIFO and what stays there
(`ClockPasses`). A step of the code is then an equation between `Waiting`, the
byte it writes or reads and the bytes it drops (`MoveStep`), and one lemma per
step shows that equation. `OrderInv` - the handler echoes at once only while the
ring is empty - is what keeps bytes from overtaking each other, and `FillFits`
what keeps the write of `SendClaimed` from getting lost.

*Images.* Programming and verification are compared by the states they pass
through: there is a path `f` of states such that flash holds block by block what
was stored from `f` (`ProgInv`, `BackInv`, `MadeInv`), and the verification is on
the same path (`VerInv`), since a state depends on the state and the block before it
as given, not on which of the two loops runs.

*Loadable.* `LoadInv` follows the pass that programs: the sections found so far
are sections of the image, each one of the slot, and those that the signature
blocks before it point at are among them (`Followed`), so the pass treats as a
signature block exactly what the loader will (`Signature`). Once a pointer has
been seen, it is known whether the image counts from 0 or from this slot; one
that counts from a later slot is refused at its first pointer, and `Followed`
keeps only the images without any. What has been written leads into the slot
(`Led`), since the read back equals the buffer.

Only model-checked: liveness (`Healed`, `Terminates`, `LoadHappens`, `Echoed`,
`Applied`), which needs fairness and is out of the provers' reach, and
`DoneHonest` of `PllReconfig`.

## 6. Not modelled

Parts left out:

* warm reboot and hand-over from MCUboot: straight-line register writes before a
  jump; JTAG UART: a polled register pair; cache driver: custom instructions
  whose meaning is the CPU's; top levels, pins, generated IP: wiring;
* the serial protocol of the bring-up design: a verbatim copy of another
  repository's sources, with a demonstration around it (floating point is out of
  TLC's reach);
* file variants of save, restore, program and copy: this platform has no file
  system, they always fail.

Within the parts that are modelled:

* mailbox: sizes of chunks and sectors (a chunk is one unit). A command cut off
  between two of its words (`wait_cmd_room`, line 161): what the SDM does then is
  not in this repository;
* bridge: its fixed priority can keep the instruction master waiting for ever
  while the data master writes; no fairness between them is claimed;
* partition table: slots of length zero, which overlap nothing, and a start plus
  size that wraps: nothing in this repository creates any slot. A slot outside
  the windows of `may_write` can never be deleted, since the deletion erases it
  first; the model does that and no property is about it. Slot numbers shift
  when one is deleted; callers here look them up by name;
* UART: bit timing and its rounding in `set_baudrate`, `poll_in`
  and `poll_out` (a thread that polls a port its own handler fills may find the
  FIFO full; no application here does). `uart_err_check` may report an overrun as
  the framing error it read before: the kind is not kept;
* images: flash that decays during a verification; `rsu_slot_enable` of a slot
  that holds no image (it is in `Cpb`);
* partial reconfiguration: when the controller clears the status of the persona
  before is not in the repository, so a stale `done` at the start is a possible
  outcome of `pr_start`: the region is then released with the old persona;
* PLL: a bridge that accepts a write's address and data separately, and the
  reset input, which acts as a lost lock does.
