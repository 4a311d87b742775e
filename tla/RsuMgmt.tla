-------------------------------- MODULE RsuMgmt --------------------------------
(***************************************************************************)
(* Bitstream updates over mcumgr (rsu_mgmt.c) down to the slots of the     *)
(* flash (libRSU.c, libRSU_cb.c) and the PR controller (pr.c), with the    *)
(* host script (update_bitstream.py) on the other end of the UART.         *)
(*                                                                         *)
(* The handlers run one at a time on mcumgr's work queue; load_work runs   *)
(* on the system's and gets in wherever the library's mutex is free.       *)
(* Requests and replies may be lost and repeated, flash operations may     *)
(* fail, and power or the CPU may go at any step.                          *)
(*                                                                         *)
(* A block of an image is one chunk of the upload, one write of the slot   *)
(* and one burst to the PR controller. The boot order is what Cpb shows it *)
(* to be (BootList): a change that is cut short happens or does not.       *)
(***************************************************************************)
EXTENDS Naturals, Sequences, FiniteSets

CONSTANTS
    Images,      \* the files the host has
    Blocks,      \* the number of blocks of each
    Aligned,     \* those whose length is a multiple of 4 bytes
    MAX_IMAGE,   \* the largest upload, in blocks
    Slots,       \* the RSU slots
    NoSlot,      \* a slot number that is not one
    NoLoad,      \* no load is scheduled
    SlotSize,    \* blocks of a slot
    Commands,    \* the commands of the script that are used
    FaultKinds   \* the operations that may fail

Kinds == {"hyperram", "alloc", "mailbox", "tables", "erase", "write", "flip", "read",
          "image", "pr"}

ASSUME RsuAssumption ==
    /\ MAX_IMAGE \in Nat /\ SlotSize \in Nat \ {0}
    /\ Blocks \in [Images -> Nat \ {0}]
    /\ Aligned \subseteq Images
    /\ NoSlot \notin Slots /\ NoLoad \notin Slots \cup {NoSlot}
    /\ Commands \subseteq {"program", "load", "pr"}
    /\ FaultKinds \subseteq Kinds

Fault(kind) == kind \in FaultKinds

\* Block n of image i; what is in fresh memory; what is in a flash block.
Block(i, n) == [img |-> i, n |-> n]
Content(i) == [n \in 1..Blocks[i] |-> Block(i, n)]
Junk == [img |-> "junk", n |-> 0]
Erased == [img |-> "erased", n |-> 0]
TornCell == [img |-> "torn", n |-> 0]
NULL == <<>>

NoImage == [img |-> "none", n |-> 0]

NoRequest == [cmd |-> "none", img |-> NoImage, slot |-> NoSlot, off |-> 0]
NoReply == [cmd |-> "none", ok |-> FALSE, off |-> 0]

VARIABLES
    image,       \* the upload buffer, NULL without one
    image_len,   \* total, from the first chunk
    image_have,  \* blocks received, in order
    librsu,      \* "down", "ready", or "stuck": plat_database left behind by a failed open
    load_work,   \* load_slot while the delayed work is scheduled, NoLoad otherwise
    pc,          \* where the handler is
    k,           \* the block it works on
    req,         \* the request that arrived or is being handled
    data,        \* the blocks of each slot
    priority,    \* 1 the highest, 0 not in the boot order
    corrupted,   \* the library refuses the tables
    region,      \* the PR region holds a whole persona, or part of one
    ctrl,        \* pio_pr_ctrl: "run", or "held" frozen and in reset
    pr_status,   \* the PR controller's status
    host,        \* the script: command, phase, file, slot, offset
    asked,       \* the script still waits for the answer to its request
    rsp          \* the reply on its way to it

ram == <<image, image_len, image_have>>
task == <<pc, k, req>>
tables == <<priority, corrupted>>
pr == <<region, ctrl, pr_status>>
net == <<host, asked, rsp>>
vars == <<ram, librsu, load_work, task, data, tables, pr, net>>
--------------------------------------------------------------------------------
\* The boot order and the slots.

priority_remove(p, s) ==
    [t \in Slots |-> IF t = s THEN 0
                     ELSE IF p[s] > 0 /\ p[t] > p[s] THEN p[t] - 1 ELSE p[t]]

\* Mutant: the new pointer gets the lowest priority.
AddLast(p, s) ==
    [t \in Slots |-> IF t = s THEN 1 + Cardinality({u \in Slots : p[u] > 0}) ELSE p[t]]

priority_add(p, s) ==
    [t \in Slots |-> IF t = s THEN 1 ELSE IF p[t] > 0 THEN p[t] + 1 ELSE 0]

\* NOR flash: programming what is not erased leaves neither.
Programmed(old, new) == IF old \in {Erased, new} THEN new ELSE TornCell

Holds(s, i) == /\ Blocks[i] <= SlotSize
               /\ \A n \in 1..Blocks[i] : data[s][n] = Block(i, n)

\* The library's mutex is held.
Locked == pc \in {"remove", "erase", "write", "readback", "add", "verify"}
--------------------------------------------------------------------------------
\* The script. It asks for the status, uploads, then has the image used.

Request ==
    [cmd |-> IF host.phase = "run" THEN host.cmd ELSE host.phase,
     img |-> host.img, slot |-> host.slot, off |-> host.off]

NoHost == [cmd |-> "none", phase |-> "idle", img |-> NoImage, slot |-> NoSlot, off |-> 0]

HostStarts ==
    /\ host = NoHost
    /\ \E c \in Commands, i \in Images, s \in Slots \cup {NoSlot} :
         host' = [cmd |-> c, img |-> i, slot |-> s, off |-> 0,
                  phase |-> IF c = "pr" THEN "upload" ELSE "status"]
    /\ UNCHANGED <<ram, librsu, load_work, task, data, tables, pr, asked, rsp>>

\* Once the request before has been handled or lost; again when its reply was lost.
HostSends ==
    /\ host # NoHost
    /\ req = NoRequest /\ rsp = NoReply
    /\ req' = Request
    /\ asked' = TRUE
    /\ UNCHANGED <<ram, librsu, load_work, pc, k, data, tables, pr, host, rsp>>

\* check(): an error ends the script; the upload goes on where the board says.
HostTakes ==
    /\ rsp # NoReply
    /\ rsp' = NoReply
    /\ asked' = FALSE
    /\ \/ /\ rsp.ok /\ rsp.cmd = "status"
          /\ host' = [host EXCEPT !.phase = IF host.cmd = "load" THEN "run" ELSE "upload"]
       \/ /\ rsp.ok /\ rsp.cmd = "upload"
          /\ host' = [host EXCEPT !.off = rsp.off,
                        !.phase = IF rsp.off < Blocks[host.img] THEN "upload" ELSE "run"]
       \/ /\ rsp.ok /\ rsp.cmd = "program"
          /\ host' = [host EXCEPT !.cmd = "load", !.phase = "status"]
       \/ (~rsp.ok \/ rsp.cmd \in {"load", "pr"}) /\ host' = NoHost
    /\ UNCHANGED <<ram, librsu, load_work, task, data, tables, pr>>

\* Its time-out, or Ctrl-C: the board may still be at work on the request.
HostQuits ==
    /\ host # NoHost
    /\ host' = NoHost
    /\ asked' = FALSE /\ rsp' = NoReply
    /\ UNCHANGED <<ram, librsu, load_work, task, data, tables, pr>>

LineLoses ==
    /\ \/ req # NoRequest /\ pc = "idle" /\ req' = NoRequest /\ UNCHANGED rsp
       \/ rsp # NoReply /\ rsp' = NoReply /\ UNCHANGED req
    /\ UNCHANGED <<ram, librsu, load_work, pc, k, data, tables, pr, host, asked>>
--------------------------------------------------------------------------------
\* The handlers.

Arrived(cmd) == pc = "idle" /\ req.cmd = cmd

Reply(ok, off) ==
    /\ rsp' = IF asked THEN [cmd |-> req.cmd, ok |-> ok, off |-> off] ELSE NoReply
    /\ pc' = "idle" /\ req' = NoRequest
    /\ UNCHANGED <<k, host, asked>>

Goto(step) == pc' = step /\ UNCHANGED <<req, net>>

\* A failed rsu_qspi_open is tried again, unless it failed before it had the SPT's
\* address: plat_database is freed, not cleared, and refuses every later open.
librsu_up ==
    /\ librsu \in {"down", "ready"}
    /\ librsu' = "ready"
    /\ corrupted' \in {corrupted} \cup
                      (IF librsu = "down" /\ Fault("mailbox") THEN {TRUE} ELSE {})

librsu_down ==
    /\ librsu = "stuck" \/ (librsu = "down" /\ Fault("mailbox"))
    /\ librsu' \in (IF librsu = "stuck" THEN {"stuck"} ELSE {"down", "stuck"})
    /\ UNCHANGED corrupted

\* Refused tables: rsu_slot_get_info fails for the CPB; for the SPT the list is empty.
rsu_mgmt_status ==
    /\ Arrived("status")
    /\ \/ librsu_down /\ Reply(FALSE, 0)
       \/ librsu_up /\ Reply(TRUE, 0)
       \/ librsu_up /\ (Fault("mailbox") \/ corrupted') /\ Reply(FALSE, 0)
    /\ UNCHANGED <<ram, load_work, data, priority, pr>>

\* Mutant: the count of an earlier upload is not reset.
FirstKeepsCount ==
    /\ req.off = 0 /\ Blocks[req.img] <= MAX_IMAGE
    /\ image' = [n \in 1..Blocks[req.img] |-> IF n = 1 THEN Block(req.img, 1) ELSE Junk]
    /\ image_len' = Blocks[req.img]
    /\ image_have' = IF image_have > 1 THEN image_have ELSE 1

\* The first chunk: a fresh buffer for the whole image.
FirstChunk ==
    /\ req.off = 0 /\ Blocks[req.img] <= MAX_IMAGE
    /\ image' = [n \in 1..Blocks[req.img] |-> IF n = 1 THEN Block(req.img, 1) ELSE Junk]
    /\ image_len' = Blocks[req.img]
    /\ image_have' = 1

\* In order only; a repeated chunk is fine.
InOrder == image # NULL /\ req.off <= image_have /\ req.off + 1 <= image_len

rsu_mgmt_upload ==
    /\ Arrived("upload")
    /\ \/ FirstChunk /\ Reply(TRUE, image_have')
       \/ /\ req.off = 0
          /\ Blocks[req.img] > MAX_IMAGE \/ Fault("hyperram")
          /\ UNCHANGED ram /\ Reply(FALSE, 0)
       \/ /\ req.off = 0 /\ Blocks[req.img] <= MAX_IMAGE /\ Fault("alloc")
          /\ image' = NULL /\ UNCHANGED <<image_len, image_have>> /\ Reply(FALSE, 0)
       \/ /\ req.off > 0 /\ InOrder
          /\ image' = [image EXCEPT ![req.off + 1] = Block(req.img, req.off + 1)]
          /\ image_have' = IF image_have > req.off + 1 THEN image_have ELSE req.off + 1
          /\ UNCHANGED image_len
          /\ Reply(TRUE, image_have')
       \/ req.off > 0 /\ ~InOrder /\ UNCHANGED ram /\ Reply(FALSE, 0)
    /\ UNCHANGED <<librsu, load_work, data, tables, pr>>

\* The CRC tells every two contents of the buffer apart.
Complete == image # NULL /\ image_have = image_len
CrcMatches == image = Content(req.img)

rsu_mgmt_program ==
    /\ Arrived("program")
    /\ \/ ~(Complete /\ CrcMatches) /\ Reply(FALSE, 0) /\ UNCHANGED <<librsu, corrupted>>
       \/ Complete /\ CrcMatches /\ librsu_down /\ Reply(FALSE, 0)
       \/ Complete /\ CrcMatches /\ librsu_up /\ Goto("rsu_slot_erase")
    /\ UNCHANGED <<ram, load_work, k, data, priority, pr>>

rsu_mgmt_load ==
    /\ Arrived("load")
    /\ \/ librsu_down /\ Reply(FALSE, 0) /\ UNCHANGED load_work
       \/ librsu_up /\ load_work' = req.slot /\ Reply(TRUE, 0)
    /\ UNCHANGED <<ram, data, priority, pr>>
--------------------------------------------------------------------------------
\* Erase, program and verify: three calls, the mutex free between them. An error in
\* any of them ends the command; the buffer stays for another attempt.

Fails == Reply(FALSE, 0)
Cell(b) == data' = [data EXCEPT ![req.slot][k] = b]

\* Mutant: the slot stays in the boot order while it is erased.
EraseInPlace ==
    /\ pc = "rsu_slot_erase"
    /\ \/ (corrupted \/ req.slot \notin Slots) /\ Fails
       \/ ~corrupted /\ req.slot \in Slots /\ k' = 1 /\ Goto("erase")
    /\ UNCHANGED <<ram, librsu, load_work, data, tables, pr>>

rsu_slot_erase ==
    /\ pc = "rsu_slot_erase"
    /\ \/ (corrupted \/ req.slot \notin Slots) /\ Fails
       \/ ~corrupted /\ req.slot \in Slots /\ Goto("remove") /\ UNCHANGED k
    /\ UNCHANGED <<ram, librsu, load_work, data, tables, pr>>

\* Out of the boot order first.
slot_remove ==
    /\ pc = "remove"
    /\ \/ /\ priority' = priority_remove(priority, req.slot)
          /\ k' = 1 /\ Goto("erase") /\ UNCHANGED corrupted
       \/ /\ Fault("tables")
          /\ priority' \in {priority, priority_remove(priority, req.slot)}
          /\ corrupted' \in BOOLEAN
          /\ Fails
    /\ UNCHANGED <<ram, librsu, load_work, data, pr>>

erase_dev ==
    /\ pc = "erase"
    /\ \/ /\ Cell(Erased)
          /\ \/ k < SlotSize /\ k' = k + 1 /\ Goto("erase")
             \/ k = SlotSize /\ k' = 1 /\ Goto("rsu_slot_program_buf")
       \/ Fault("erase") /\ (\E b \in {data[req.slot][k], TornCell} : Cell(b)) /\ Fails
    /\ UNCHANGED <<ram, librsu, load_work, tables, pr>>

rsu_slot_program_buf ==
    /\ pc = "rsu_slot_program_buf"
    /\ \/ (corrupted \/ priority[req.slot] > 0 \/ Fault("alloc")) /\ Fails
       \/ ~corrupted /\ priority[req.slot] = 0 /\ Goto("write") /\ UNCHANGED k
    /\ UNCHANGED <<ram, librsu, load_work, data, tables, pr>>

\* librsu_cb_program_common: one block of the buffer after the other.
program_block ==
    /\ pc = "write"
    /\ \/ k > image_len /\ Goto("add") /\ UNCHANGED <<data, k>>
       \/ /\ k <= image_len
          /\ k > SlotSize \/ Fault("image")
          /\ Fails /\ UNCHANGED data
       \/ /\ k <= image_len /\ k <= SlotSize
          /\ \/ Cell(Programmed(data[req.slot][k], image[k]))
             \/ Fault("flip") /\ Cell(TornCell)
          /\ Goto("readback") /\ UNCHANGED k
       \/ /\ k <= image_len /\ k <= SlotSize /\ Fault("write")
          /\ \E b \in {data[req.slot][k], TornCell} : Cell(b)
          /\ Fails
    /\ UNCHANGED <<ram, librsu, load_work, tables, pr>>

\* Mutant: what was written is not read back.
NotReadBack ==
    /\ pc = "readback"
    /\ k' = k + 1 /\ Goto("write")
    /\ UNCHANGED <<ram, librsu, load_work, data, tables, pr>>

read_back ==
    /\ pc = "readback"
    /\ \/ data[req.slot][k] = image[k] /\ k' = k + 1 /\ Goto("write")
       \/ (data[req.slot][k] # image[k] \/ Fault("read")) /\ Fails
    /\ UNCHANGED <<ram, librsu, load_work, data, tables, pr>>

\* Into the boot order last.
slot_add ==
    /\ pc = "add"
    /\ \/ /\ priority' = priority_add(priority, req.slot)
          /\ Goto("rsu_slot_verify_buf") /\ UNCHANGED <<k, corrupted>>
       \/ /\ Fault("tables")
          /\ priority' \in {priority, priority_add(priority, req.slot)}
          /\ corrupted' \in BOOLEAN
          /\ Fails
    /\ UNCHANGED <<ram, librsu, load_work, data, pr>>

rsu_slot_verify_buf ==
    /\ pc = "rsu_slot_verify_buf"
    /\ \/ (corrupted \/ priority[req.slot] = 0 \/ Fault("alloc")) /\ Fails
       \/ ~corrupted /\ priority[req.slot] > 0 /\ k' = 1 /\ Goto("verify")
    /\ UNCHANGED <<ram, librsu, load_work, data, tables, pr>>

Consumed == image' = NULL /\ image_len' = 0 /\ image_have' = 0

verify_block ==
    /\ pc = "verify"
    /\ \/ /\ k <= image_len /\ data[req.slot][k] = image[k]
          /\ k' = k + 1 /\ Goto("verify") /\ UNCHANGED ram
       \/ /\ k <= image_len /\ (data[req.slot][k] # image[k] \/ Fault("read"))
          /\ Fails /\ UNCHANGED ram
       \/ k > image_len /\ Consumed /\ Reply(TRUE, 0)
    /\ UNCHANGED <<librsu, load_work, data, tables, pr>>
--------------------------------------------------------------------------------
\* Partial reconfiguration. The controller and the SDM behind it are external.

rsu_mgmt_pr ==
    /\ Arrived("pr")
    /\ \/ /\ ~(Complete /\ CrcMatches /\ req.img \in Aligned)
          /\ Fails /\ UNCHANGED ctrl
       \/ /\ Complete /\ CrcMatches /\ req.img \in Aligned
          /\ ctrl' = "held" /\ Goto("pr_start") /\ UNCHANGED k
    /\ UNCHANGED <<ram, librsu, load_work, data, tables, region, pr_status>>

\* axc3000_pr_program's end: only "done" releases the region.
PrReleases == ctrl' = "run" /\ Consumed /\ Reply(TRUE, 0)
PrFails == UNCHANGED <<ctrl, ram>> /\ Fails

\* Mutant: the region is released whatever the status.
ReleaseAnyway(st) == PrReleases

PrEnds(st) == \/ st = "done" /\ PrReleases
              \/ st # "done" /\ PrFails

\* pr_wait(PR_ST_PROG): the controller starts, fails, or keeps the status it has.
pr_start ==
    /\ pc = "pr_start"
    /\ \/ /\ pr_status' = "prog" /\ region' = "partial"
          /\ k' = 1 /\ Goto("pr_stream") /\ UNCHANGED <<ctrl, ram>>
       \/ /\ Fault("pr") /\ pr_status # "prog"
          /\ pr_status' \in {pr_status, "error"} /\ UNCHANGED region
          /\ PrEnds(pr_status')
    /\ UNCHANGED <<librsu, load_work, data, tables>>

\* All of the image, even after an error; the SDM may stop taking words.
pr_stream ==
    /\ pc = "pr_stream"
    /\ \/ k <= image_len /\ k' = k + 1 /\ Goto("pr_stream") /\ UNCHANGED pr_status
       \/ /\ k <= image_len /\ Fault("pr")
          /\ pr_status' = "error" /\ k' = k + 1 /\ Goto("pr_stream")
       \/ k <= image_len /\ Fault("pr") /\ Goto("hung") /\ UNCHANGED <<k, pr_status>>
       \/ k > image_len /\ Goto("pr_finish") /\ UNCHANGED <<k, pr_status>>
    /\ UNCHANGED <<ram, librsu, load_work, data, tables, region, ctrl>>

\* pr_wait(PR_ST_DONE), or the error that the stream met.
pr_finish ==
    /\ pc = "pr_finish"
    /\ \/ /\ pr_status = "prog"
          /\ pr_status' = "done" /\ region' = "whole"
          /\ PrEnds("done")
       \/ /\ pr_status = "error" \/ Fault("pr")
          /\ UNCHANGED <<pr_status, region>>
          /\ PrEnds(pr_status)
    /\ UNCHANGED <<librsu, load_work, data, tables>>
--------------------------------------------------------------------------------
\* Restarts. What was in memory is gone; the script does not notice.

Restart ==
    /\ Consumed
    /\ librsu' = "down"
    /\ load_work' = NoLoad
    /\ pc' = "idle" /\ k' = 1 /\ req' = NoRequest
    /\ corrupted' \in {corrupted, FALSE} \cup (IF pc \in {"remove", "add"} THEN {TRUE} ELSE {})
    /\ UNCHANGED net

Configured == region' = "whole" /\ ctrl' = "run" /\ pr_status' = "idle"

\* The flash operation under way is cut short.
CutShort ==
    \/ /\ pc = "remove"
       /\ priority' \in {priority, priority_remove(priority, req.slot)} /\ UNCHANGED data
    \/ /\ pc = "add"
       /\ priority' \in {priority, priority_add(priority, req.slot)} /\ UNCHANGED data
    \/ /\ pc = "erase" \/ (pc = "write" /\ k <= image_len /\ k <= SlotSize)
       /\ \E b \in {data[req.slot][k], TornCell} : Cell(b)
       /\ UNCHANGED priority
    \/ pc \notin {"remove", "add"} /\ UNCHANGED <<data, priority>>

PowerLoss == Restart /\ CutShort /\ Configured

CpuReset == pc # "hung" /\ Restart /\ CutShort /\ UNCHANGED pr

\* Mutant: a load that was refused is scheduled again.
LoadTriesAgain ==
    /\ load_work # NoLoad /\ ~Locked /\ pc # "hung"
    /\ \/ /\ ~corrupted /\ load_work \in Slots
          /\ Restart /\ Configured
       \/ /\ corrupted \/ load_work \notin Slots \/ Fault("mailbox")
          /\ UNCHANGED <<ram, librsu, load_work, task, corrupted, pr, net>>
    /\ UNCHANGED <<data, priority>>

\* rsu_slot_load_after_reboot, as soon as the mutex is free: the SDM reconfigures, or
\* the library or the SDM refuses.
load_work_handler ==
    /\ load_work # NoLoad /\ ~Locked /\ pc # "hung"
    /\ \/ /\ ~corrupted /\ load_work \in Slots
          /\ Restart /\ Configured
       \/ /\ corrupted \/ load_work \notin Slots \/ Fault("mailbox")
          /\ load_work' = NoLoad
          /\ UNCHANGED <<ram, librsu, task, corrupted, pr, net>>
    /\ UNCHANGED <<data, priority>>
--------------------------------------------------------------------------------
\* The programming file's flash: one slot filled and in the boot order, or none.
Init ==
    /\ image = NULL /\ image_len = 0 /\ image_have = 0
    /\ librsu = "down" /\ load_work = NoLoad
    /\ pc = "idle" /\ k = 1 /\ req = NoRequest
    /\ corrupted = FALSE
    /\ \/ /\ data = [s \in Slots |-> [n \in 1..SlotSize |-> Erased]]
          /\ priority = [s \in Slots |-> 0]
       \/ \E s \in Slots, i \in Images :
            /\ Blocks[i] <= SlotSize
            /\ priority = [t \in Slots |-> IF t = s THEN 1 ELSE 0]
            /\ data = [t \in Slots |-> [n \in 1..SlotSize |->
                          IF t = s /\ n <= Blocks[i] THEN Block(i, n) ELSE Erased]]
    /\ region = "whole" /\ ctrl = "run" /\ pr_status = "idle"
    /\ host = NoHost /\ asked = FALSE /\ rsp = NoReply

Host == HostStarts \/ HostSends \/ HostTakes \/ HostQuits \/ LineLoses

Handlers ==
    \/ rsu_mgmt_status \/ rsu_mgmt_upload \/ rsu_mgmt_program \/ rsu_mgmt_load \/ rsu_mgmt_pr
    \/ rsu_slot_erase \/ slot_remove \/ erase_dev
    \/ rsu_slot_program_buf \/ program_block \/ read_back \/ slot_add
    \/ rsu_slot_verify_buf \/ verify_block
    \/ pr_start \/ pr_stream \/ pr_finish

Next == Host \/ Handlers \/ load_work_handler \/ PowerLoss \/ CpuReset

Spec == Init /\ [][Next]_vars

\* The work queues run: a handler goes on, and the system's work queue gets the mutex
\* (k_mutex hands it to the thread that waits).
FairSpec == Spec /\ WF_vars(Handlers) /\ SF_vars(load_work_handler)
--------------------------------------------------------------------------------
Steps == {"rsu_slot_erase", "remove", "erase", "rsu_slot_program_buf", "write",
          "readback", "add", "rsu_slot_verify_buf", "verify"}
PrSteps == {"pr_start", "pr_stream", "pr_finish", "hung"}
BlockSet == [img : Images, n : Nat]
Requests == [cmd : {"status", "upload", "program", "load", "pr"}, img : Images,
             slot : Slots \cup {NoSlot}, off : Nat]
Sessions == [cmd : {"program", "load", "pr"}, phase : {"status", "upload", "run"},
             img : Images, slot : Slots \cup {NoSlot}, off : Nat]
Replies == [cmd : {"status", "upload", "program", "load", "pr"}, ok : BOOLEAN, off : Nat]
Cells == BlockSet \cup {Erased, TornCell}

\* Every variable holds a value of its kind.
TypeOK ==
    /\ image_len \in Nat /\ image_have \in Nat
    /\ image = NULL \/ image \in [1..image_len -> BlockSet \cup {Junk}]
    /\ librsu \in {"down", "ready", "stuck"}
    /\ load_work \in Slots \cup {NoSlot, NoLoad}
    /\ pc \in {"idle"} \cup Steps \cup PrSteps
    /\ k \in Nat \ {0}
    /\ req \in Requests \cup {NoRequest}
    /\ data \in [Slots -> [1..SlotSize -> Cells]]
    /\ priority \in [Slots -> Nat]
    /\ corrupted \in BOOLEAN
    /\ region \in {"whole", "partial"}
    /\ ctrl \in {"run", "held"}
    /\ pr_status \in {"idle", "prog", "done", "error"}
    /\ host \in Sessions \cup {NoHost}
    /\ asked \in BOOLEAN
    /\ rsp \in Replies \cup {NoReply}

\* Every slot in the boot order holds a whole image, whatever fails or is cut short:
\* rsu_slot_erase takes the slot out of the order before it erases, and
\* librsu_cb_program_common puts it back only after every block was read back.
Bootable == \A s \in Slots : priority[s] > 0 => \E i \in Images : Holds(s, i)

\* No flash operation touches the data of a slot that the firmware may boot.
NeverInPlace ==
    [][\A s \in Slots : priority[s] > 0 /\ priority'[s] > 0 => data'[s] = data[s]]_vars

\* When the script is told that its image was programmed, its slot holds that image and
\* is the one the firmware tries first, also if an older session was cut off.
ProgramHonest ==
    rsp.ok /\ rsp.cmd = "program" =>
        Holds(host.slot, host.img) /\ priority[host.slot] = 1

\* A program or pr request that finds a full buffer finds the image it was sent for:
\* repeated chunks, sessions that ended early and restarts never leave a mixture for
\* the CRC to find.
UploadIntact ==
    req.cmd \in {"program", "pr"} /\ pc = "idle" /\ Complete => CrcMatches

\* No half-programmed logic drives anything: a region that is not held is whole.
RegionHeld == ctrl = "run" => region # "partial"

\* An acknowledged load is carried out or refused, however long the slots are being
\* programmed, unless the PR controller has stopped the CPU.
LoadHappens == load_work # NoLoad ~> (load_work = NoLoad \/ pc = "hung")
================================================================================
