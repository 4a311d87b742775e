----------------------------- MODULE RsuMgmt_proofs -----------------------------
(***************************************************************************)
(* Proofs about RsuMgmt for every set of images and slots, every size and  *)
(* every choice of the operations that may fail. The invariant says what   *)
(* the handler knows at each step of the program command: whose image is   *)
(* in the buffer, that the slot it writes is out of the boot order, and    *)
(* how much of it has been read back.                                      *)
(***************************************************************************)
EXTENDS RsuMgmt, TLAPS

\* What each step of the program command may rely on.
TaskInv ==
    /\ pc \in Steps => /\ req.cmd = "program"
                       /\ image = Content(req.img) /\ image_len = Blocks[req.img]
    /\ pc \in PrSteps => req.cmd = "pr"
    /\ pc \in Steps \ {"rsu_slot_erase"} => req.slot \in Slots
    /\ pc = "erase" => k <= SlotSize
    /\ pc = "rsu_slot_program_buf" => k = 1
    /\ pc = "write" => k <= image_len + 1
    /\ pc = "readback" => k <= image_len /\ k <= SlotSize
    /\ pc = "add" => k = image_len + 1

\* A slot that is being erased or written is not in the boot order.
OutInv ==
    pc \in {"erase", "rsu_slot_program_buf", "write", "readback", "add"} =>
        priority[req.slot] = 0

\* The blocks before k have been read back.
WrittenInv ==
    pc \in {"write", "readback", "add"} =>
        \A n \in 1..(k - 1) : n <= SlotSize /\ data[req.slot][n] = image[n]

VerifyInv ==
    pc \in {"rsu_slot_verify_buf", "verify"} =>
        priority[req.slot] = 1 /\ Holds(req.slot, req.img)

\* The script waits for the answer to its own request, and a reply ends the request.
NetInv ==
    /\ asked => host # NoHost
    /\ asked /\ req # NoRequest => req = Request
    /\ rsp # NoReply => asked /\ req = NoRequest

IInv == /\ TypeOK /\ TaskInv /\ OutInv /\ WrittenInv /\ VerifyInv /\ NetInv
        /\ Bootable /\ ProgramHonest

\* The type invariant by part of the state.
RamOK == /\ image_len \in Nat /\ image_have \in Nat
         /\ image = NULL \/ image \in [1..image_len -> BlockSet \cup {Junk}]
LibOK == /\ librsu \in {"down", "ready", "stuck"}
         /\ load_work \in Slots \cup {NoSlot, NoLoad}
ReqOK == req \in Requests \cup {NoRequest}
PcOK == pc \in {"idle"} \cup Steps \cup PrSteps /\ k \in Nat \ {0}
DataOK == data \in [Slots -> [1..SlotSize -> Cells]]
TablesOK == priority \in [Slots -> Nat] /\ corrupted \in BOOLEAN
PrOK == /\ region \in {"whole", "partial"} /\ ctrl \in {"run", "held"}
        /\ pr_status \in {"idle", "prog", "done", "error"}
HostOK == host \in Sessions \cup {NoHost} /\ asked \in BOOLEAN
RspOK == rsp \in Replies \cup {NoReply}

LEMMA TypeParts ==
    TypeOK <=> /\ RamOK /\ LibOK /\ ReqOK /\ PcOK /\ DataOK /\ TablesOK
               /\ PrOK /\ HostOK /\ RspOK
BY DEF TypeOK, RamOK, LibOK, ReqOK, PcOK, DataOK, TablesOK, PrOK, HostOK, RspOK

LEMMA TypePartsNext ==
    TypeOK' <=> /\ RamOK' /\ LibOK' /\ ReqOK' /\ PcOK' /\ DataOK' /\ TablesOK'
                /\ PrOK' /\ HostOK' /\ RspOK'
BY DEF TypeOK, RamOK, LibOK, ReqOK, PcOK, DataOK, TablesOK, PrOK, HostOK, RspOK

\* A request that a handler works on has a file, a slot number and an offset.
LEMMA RequestFacts ==
    ASSUME ReqOK, req # NoRequest
    PROVE  /\ req \in Requests /\ req.img \in Images
           /\ req.slot \in Slots \cup {NoSlot} /\ req.off \in Nat
           /\ req.cmd \in {"status", "upload", "program", "load", "pr"}
           /\ Blocks[req.img] \in Nat /\ Blocks[req.img] >= 1
<1>1. req \in Requests
  BY DEF ReqOK
<1>2. QED
  BY <1>1, RsuAssumption DEF Requests

LEMMA NotNoRequest == ASSUME req.cmd # "none" PROVE req # NoRequest
BY DEF NoRequest

\* An answer leaves request, program counter, script and reply well typed.
LEMMA ReplyType ==
    ASSUME ReqOK, PcOK, HostOK, req # NoRequest,
           NEW ok \in BOOLEAN, NEW off \in Nat, Reply(ok, off)
    PROVE  /\ ReqOK' /\ PcOK' /\ HostOK' /\ RspOK'
           /\ pc' = "idle" /\ req' = NoRequest
<1>1. ReqOK' /\ PcOK' /\ HostOK' /\ pc' = "idle" /\ req' = NoRequest
  BY DEF Reply, ReqOK, PcOK, HostOK
<1>2. req.cmd \in {"status", "upload", "program", "load", "pr"}
  BY RequestFacts
<1>3. RspOK'
  BY <1>2 DEF Reply, RspOK, Replies
<1>4. QED
  BY <1>1, <1>3

LEMMA FailsType ==
    ASSUME ReqOK, PcOK, HostOK, req # NoRequest, Fails
    PROVE  /\ ReqOK' /\ PcOK' /\ HostOK' /\ RspOK'
           /\ pc' = "idle" /\ req' = NoRequest
BY ReplyType DEF Fails

LEMMA GotoType ==
    ASSUME ReqOK, PcOK, HostOK, RspOK, NEW step \in {"idle"} \cup Steps \cup PrSteps,
           Goto(step), k' \in Nat \ {0}
    PROVE  ReqOK' /\ PcOK' /\ HostOK' /\ RspOK' /\ pc' = step /\ req' = req
BY DEF Goto, net, ReqOK, PcOK, HostOK, RspOK

LEMMA FirstChunkType ==
    ASSUME ReqOK, req # NoRequest, FirstChunk
    PROVE  RamOK'
<1>1. req.img \in Images /\ Blocks[req.img] \in Nat
  BY RequestFacts
<1>2. Block(req.img, 1) \in BlockSet
  BY <1>1 DEF Block, BlockSet
<1>3. QED
  BY <1>1, <1>2 DEF FirstChunk, RamOK

LEMMA NextChunkType ==
    ASSUME RamOK, ReqOK, req # NoRequest, image # NULL,
           image' = [image EXCEPT ![req.off + 1] = Block(req.img, req.off + 1)],
           image_have' = IF image_have > req.off + 1 THEN image_have ELSE req.off + 1,
           UNCHANGED image_len
    PROVE  RamOK' /\ image_have' \in Nat
<1>1. req.img \in Images /\ req.off \in Nat
  BY RequestFacts
<1>2. Block(req.img, req.off + 1) \in BlockSet
  BY <1>1 DEF Block, BlockSet
<1>3. image_have' \in Nat
  BY <1>1 DEF RamOK
<1>4. QED
  BY <1>1, <1>2, <1>3 DEF RamOK

LEMMA CellType ==
    ASSUME DataOK, PcOK, NEW b \in Cells, Cell(b)
    PROVE  DataOK'
BY DEF DataOK, PcOK, Cell

LEMMA PriorityType ==
    ASSUME TablesOK, NEW s \in Slots
    PROVE  /\ priority_remove(priority, s) \in [Slots -> Nat]
           /\ priority_add(priority, s) \in [Slots -> Nat]
BY DEF TablesOK, priority_remove, priority_add

LEMMA ConsumedType == ASSUME Consumed PROVE RamOK'
BY DEF Consumed, RamOK

LEMMA CellsFacts == Erased \in Cells /\ TornCell \in Cells
BY DEF Cells

\* The block a step is at, as a flash cell.
LEMMA OldCell ==
    ASSUME DataOK, req.slot \in Slots, k \in 1..SlotSize
    PROVE  data[req.slot][k] \in Cells
BY DEF DataOK
--------------------------------------------------------------------------------
\* What keeps the boot order bootable.

HoldsIn(d, s, i) == /\ Blocks[i] <= SlotSize
                    /\ \A n \in 1..Blocks[i] : d[s][n] = Block(i, n)

LEMMA BootSame ==
    ASSUME Bootable, UNCHANGED <<data, priority>> PROVE Bootable'
BY DEF Bootable, Holds

LEMMA BootRemove ==
    ASSUME TablesOK, Bootable, NEW s \in Slots, UNCHANGED data,
           priority' \in {priority, priority_remove(priority, s)}
    PROVE  Bootable'
<1>1. \A t \in Slots : priority'[t] > 0 => priority[t] > 0
  BY DEF TablesOK, priority_remove
<1>2. QED
  BY <1>1 DEF Bootable, Holds

LEMMA BootAdd ==
    ASSUME TablesOK, Bootable, NEW s \in Slots, NEW i \in Images, Holds(s, i), UNCHANGED data,
           priority' \in {priority, priority_add(priority, s)}
    PROVE  Bootable'
<1>1. \A t \in Slots : priority'[t] > 0 => priority[t] > 0 \/ t = s
  BY DEF TablesOK, priority_add
<1>2. QED
  BY <1>1 DEF Bootable, Holds

LEMMA BootCell ==
    ASSUME DataOK, TablesOK, Bootable, req.slot \in Slots, priority[req.slot] = 0,
           UNCHANGED priority, NEW b, Cell(b)
    PROVE  Bootable'
<1>1. \A t \in Slots : t # req.slot => data'[t] = data[t]
  BY DEF Cell, DataOK
<1>2. \A t \in Slots : priority'[t] > 0 => priority[t] > 0 /\ t # req.slot
  BY DEF TablesOK
<1>3. QED
  BY <1>1, <1>2 DEF Bootable, Holds
--------------------------------------------------------------------------------
\* How a handler ends, and how it goes on.

LEMMA ReplyInv ==
    ASSUME IInv, req # NoRequest, NEW ok \in BOOLEAN, NEW off \in Nat, Reply(ok, off),
           RamOK', LibOK', DataOK', TablesOK', PrOK', Bootable',
           ok /\ req.cmd = "program" =>
               HoldsIn(data', req.slot, req.img) /\ priority'[req.slot] = 1
    PROVE  IInv'
<1>1. ReqOK /\ PcOK /\ HostOK
  BY TypeParts DEF IInv
<1>2. ReqOK' /\ PcOK' /\ HostOK' /\ RspOK' /\ pc' = "idle" /\ req' = NoRequest
  BY <1>1, ReplyType
<1>3. TypeOK'
  BY <1>2, TypePartsNext
<1>4. TaskInv' /\ OutInv' /\ WrittenInv' /\ VerifyInv'
  BY <1>2 DEF TaskInv, OutInv, WrittenInv, VerifyInv, Steps, PrSteps
<1>5. host' = host /\ asked' = asked /\ rsp' = IF asked THEN [cmd |-> req.cmd, ok |-> ok, off |-> off] ELSE NoReply
  BY DEF Reply
<1>6. NetInv'
  BY <1>2, <1>5 DEF NetInv, IInv
<1>7. ProgramHonest'
  <2>1. CASE asked
    <3>1. req = Request
      BY <2>1 DEF IInv, NetInv
    <3>2. req.slot = host.slot /\ req.img = host.img
      BY <3>1 DEF Request
    <3>3. rsp' = [cmd |-> req.cmd, ok |-> ok, off |-> off]
      BY <2>1, <1>5
    <3>4. rsp'.ok = ok /\ rsp'.cmd = req.cmd
      BY <3>3
    <3>5. QED
      BY <1>5, <3>2, <3>4 DEF ProgramHonest, Holds, HoldsIn
  <2>2. CASE ~asked
    BY <2>2, <1>5 DEF ProgramHonest, NoReply
  <2>3. QED
    BY <2>1, <2>2
<1>8. QED
  BY <1>3, <1>4, <1>6, <1>7 DEF IInv

LEMMA FailsInv ==
    ASSUME IInv, req # NoRequest, Fails,
           RamOK', LibOK', DataOK', TablesOK', PrOK', Bootable'
    PROVE  IInv'
BY ReplyInv DEF Fails

LEMMA GotoInv ==
    ASSUME IInv, req # NoRequest, NEW step, Goto(step)
    PROVE  NetInv' /\ ProgramHonest'
<1>1. rsp = NoReply
  BY DEF IInv, NetInv
<1>2. UNCHANGED <<host, asked, rsp, req>>
  BY DEF Goto, net
<1>3. NetInv'
  BY <1>2 DEF IInv, NetInv, Request
<1>4. ProgramHonest'
  BY <1>1, <1>2 DEF ProgramHonest, NoReply
<1>5. QED
  BY <1>3, <1>4
--------------------------------------------------------------------------------
\* The handlers.

LEMMA UpType ==
    ASSUME LibOK, TablesOK, librsu_up \/ librsu_down, UNCHANGED <<load_work, priority>>
    PROVE  LibOK' /\ TablesOK'
<1>1. CASE librsu_up
  BY <1>1 DEF librsu_up, LibOK, TablesOK
<1>2. CASE librsu_down
  BY <1>2 DEF librsu_down, LibOK, TablesOK
<1>3. QED
  BY <1>1, <1>2

LEMMA StatusInv == ASSUME IInv, rsu_mgmt_status PROVE IInv'
<1>1. req # NoRequest /\ req.cmd = "status"
  BY NotNoRequest DEF rsu_mgmt_status, Arrived
<1>2. LibOK' /\ TablesOK'
  BY UpType, TypeParts DEF rsu_mgmt_status, IInv
<1>3. RamOK' /\ DataOK' /\ PrOK'
  BY TypeParts DEF rsu_mgmt_status, ram, pr, IInv, RamOK, DataOK, PrOK
<1>4. Bootable'
  BY BootSame DEF rsu_mgmt_status, IInv
<1>5. Reply(FALSE, 0) \/ Reply(TRUE, 0)
  BY DEF rsu_mgmt_status
<1>6. QED
  BY <1>1, <1>2, <1>3, <1>4, <1>5, ReplyInv

LEMMA LoadInv == ASSUME IInv, rsu_mgmt_load PROVE IInv'
<1>1. req # NoRequest /\ req.cmd = "load"
  BY NotNoRequest DEF rsu_mgmt_load, Arrived
<1>2. req.slot \in Slots \cup {NoSlot}
  BY <1>1, RequestFacts, TypeParts DEF IInv
<1>3. LibOK' /\ TablesOK'
  <2>1. LibOK /\ TablesOK
    BY TypeParts DEF IInv
  <2>2. CASE librsu_down /\ UNCHANGED load_work
    BY <2>1, <2>2, UpType DEF rsu_mgmt_load
  <2>3. CASE librsu_up /\ load_work' = req.slot
    BY <2>1, <2>3, <1>2 DEF rsu_mgmt_load, librsu_up, LibOK, TablesOK
  <2>4. QED
    BY <2>2, <2>3 DEF rsu_mgmt_load
<1>4. RamOK' /\ DataOK' /\ PrOK'
  BY TypeParts DEF rsu_mgmt_load, ram, pr, IInv, RamOK, DataOK, PrOK
<1>5. Bootable'
  BY BootSame DEF rsu_mgmt_load, IInv
<1>6. Reply(FALSE, 0) \/ Reply(TRUE, 0)
  BY DEF rsu_mgmt_load
<1>7. QED
  BY <1>1, <1>3, <1>4, <1>5, <1>6, ReplyInv

LEMMA UploadInv == ASSUME IInv, rsu_mgmt_upload PROVE IInv'
<1>1. req # NoRequest /\ req.cmd = "upload"
  BY NotNoRequest DEF rsu_mgmt_upload, Arrived
<1>2. LibOK' /\ DataOK' /\ TablesOK' /\ PrOK'
  BY TypeParts DEF rsu_mgmt_upload, tables, pr, IInv, LibOK, DataOK, TablesOK, PrOK
<1>3. Bootable'
  BY BootSame DEF rsu_mgmt_upload, tables, IInv
<1>4. ReqOK /\ RamOK
  BY TypeParts DEF IInv
<1>5. RamOK' /\ \E ok \in BOOLEAN, off \in Nat : Reply(ok, off)
  <2>1. CASE FirstChunk /\ Reply(TRUE, image_have')
    <3>1. image_have' \in Nat
      BY <2>1 DEF FirstChunk
    <3>2. QED
      BY <2>1, <3>1, <1>1, <1>4, FirstChunkType
  <2>2. CASE UNCHANGED ram /\ Reply(FALSE, 0)
    BY <2>2, <1>4 DEF ram, RamOK
  <2>3. CASE image' = NULL /\ UNCHANGED <<image_len, image_have>> /\ Reply(FALSE, 0)
    BY <2>3, <1>4 DEF RamOK
  <2>4. CASE /\ InOrder
             /\ image' = [image EXCEPT ![req.off + 1] = Block(req.img, req.off + 1)]
             /\ image_have' = IF image_have > req.off + 1 THEN image_have ELSE req.off + 1
             /\ UNCHANGED image_len
             /\ Reply(TRUE, image_have')
    BY <2>4, <1>1, <1>4, NextChunkType DEF InOrder
  <2>5. QED
    BY <2>1, <2>2, <2>3, <2>4 DEF rsu_mgmt_upload
<1>6. QED
  BY <1>1, <1>2, <1>3, <1>5, ReplyInv

\* The buffer that passed the CRC is the request's image, from end to end.
LEMMA BufferFacts ==
    ASSUME RamOK, ReqOK, req # NoRequest, Complete, CrcMatches
    PROVE  image = Content(req.img) /\ image_len = Blocks[req.img]
<1>1. image \in [1..image_len -> BlockSet \cup {Junk}] /\ image_len \in Nat
  BY DEF RamOK, Complete
<1>2. image = Content(req.img)
  BY DEF CrcMatches
<1>3. Blocks[req.img] \in Nat /\ Blocks[req.img] >= 1
  BY RequestFacts
<1>4. 1..image_len = 1..Blocks[req.img]
  BY <1>1, <1>2 DEF Content
<1>5. Blocks[req.img] \in 1..image_len /\ (image_len >= 1 => image_len \in 1..Blocks[req.img])
  BY <1>1, <1>3, <1>4
<1>6. QED
  BY <1>1, <1>2, <1>3, <1>5

LEMMA ProgramInv == ASSUME IInv, rsu_mgmt_program PROVE IInv'
<1>1. req # NoRequest /\ req.cmd = "program" /\ pc = "idle"
  BY NotNoRequest DEF rsu_mgmt_program, Arrived
<1>2. TypeOK /\ RamOK /\ LibOK /\ ReqOK /\ PcOK /\ DataOK /\ TablesOK /\ PrOK /\ HostOK /\ RspOK
  BY TypeParts DEF IInv
<1>3. LibOK' /\ TablesOK'
  <2>1. CASE UNCHANGED <<librsu, corrupted>>
    BY <2>1, <1>2 DEF rsu_mgmt_program, LibOK, TablesOK
  <2>2. CASE librsu_up \/ librsu_down
    BY <2>2, <1>2, UpType DEF rsu_mgmt_program
  <2>3. QED
    BY <2>1, <2>2 DEF rsu_mgmt_program
<1>4. RamOK' /\ DataOK' /\ PrOK'
  BY <1>2 DEF rsu_mgmt_program, ram, pr, RamOK, DataOK, PrOK
<1>5. Bootable'
  BY BootSame DEF rsu_mgmt_program, IInv
<1>6. CASE Reply(FALSE, 0)
  BY <1>1, <1>3, <1>4, <1>5, <1>6, ReplyInv
<1>7. CASE Complete /\ CrcMatches /\ Goto("rsu_slot_erase")
  <2>1. ReqOK' /\ PcOK' /\ HostOK' /\ RspOK' /\ pc' = "rsu_slot_erase" /\ req' = req
    BY <1>7, <1>2, GotoType DEF rsu_mgmt_program, Steps, PcOK
  <2>2. TypeOK'
    BY <1>3, <1>4, <2>1, TypePartsNext
  <2>3. image = Content(req.img) /\ image_len = Blocks[req.img]
    BY <1>1, <1>2, <1>7, BufferFacts
  <2>4. TaskInv' /\ OutInv' /\ WrittenInv' /\ VerifyInv'
    BY <1>1, <2>1, <2>3 DEF rsu_mgmt_program, ram, TaskInv, OutInv, WrittenInv, VerifyInv,
       Steps, PrSteps, Content
  <2>5. QED
    BY <1>1, <1>5, <1>7, <2>2, <2>4, GotoInv DEF IInv
<1>8. QED
  BY <1>6, <1>7 DEF rsu_mgmt_program
--------------------------------------------------------------------------------
\* Erase, program, verify.

LEMMA StepFacts ==
    ASSUME IInv, pc \in Steps
    PROVE  /\ RamOK /\ LibOK /\ ReqOK /\ PcOK /\ DataOK /\ TablesOK /\ PrOK /\ HostOK /\ RspOK
           /\ req # NoRequest /\ req.cmd = "program"
           /\ image = Content(req.img) /\ image_len = Blocks[req.img]
           /\ req.img \in Images /\ Blocks[req.img] \in Nat /\ Blocks[req.img] >= 1
           /\ k \in Nat /\ k >= 1
           /\ pc # "rsu_slot_erase" => req.slot \in Slots
<1>1. RamOK /\ LibOK /\ ReqOK /\ PcOK /\ DataOK /\ TablesOK /\ PrOK /\ HostOK /\ RspOK
  BY TypeParts DEF IInv
<1>2. req.cmd = "program" /\ image = Content(req.img) /\ image_len = Blocks[req.img]
  BY DEF IInv, TaskInv
<1>3. req # NoRequest
  BY <1>2, NotNoRequest
<1>4. QED
  BY <1>1, <1>2, <1>3, RequestFacts DEF IInv, TaskInv, PcOK

LEMMA EraseInv == ASSUME IInv, rsu_slot_erase PROVE IInv'
<1>1. pc \in Steps /\ pc = "rsu_slot_erase"
  BY DEF rsu_slot_erase, Steps
<1>2. RamOK' /\ LibOK' /\ DataOK' /\ TablesOK' /\ PrOK'
  BY <1>1, StepFacts DEF rsu_slot_erase, ram, tables, pr, RamOK, LibOK, DataOK, TablesOK, PrOK
<1>3. Bootable'
  BY BootSame DEF rsu_slot_erase, tables, IInv
<1>4. CASE Fails
  BY <1>1, <1>2, <1>3, <1>4, StepFacts, FailsInv
<1>5. CASE req.slot \in Slots /\ Goto("remove") /\ UNCHANGED k
  <2>1. ReqOK' /\ PcOK' /\ HostOK' /\ RspOK' /\ pc' = "remove" /\ req' = req
    BY <1>1, <1>5, StepFacts, GotoType DEF Steps, PcOK
  <2>2. TypeOK'
    BY <1>2, <2>1, TypePartsNext
  <2>3. TaskInv' /\ OutInv' /\ WrittenInv' /\ VerifyInv'
    BY <1>1, <1>5, <2>1, StepFacts DEF rsu_slot_erase, ram, TaskInv, OutInv, WrittenInv,
       VerifyInv, Steps, PrSteps, Content
  <2>4. QED
    BY <1>1, <1>3, <1>5, <2>2, <2>3, StepFacts, GotoInv DEF IInv
<1>6. QED
  BY <1>4, <1>5 DEF rsu_slot_erase

LEMMA RemoveInv == ASSUME IInv, slot_remove PROVE IInv'
<1>1. pc \in Steps /\ pc = "remove"
  BY DEF slot_remove, Steps
<1>2. req.slot \in Slots
  BY <1>1, StepFacts
<1>3. RamOK' /\ LibOK' /\ DataOK' /\ PrOK'
  BY <1>1, StepFacts DEF slot_remove, ram, pr, RamOK, LibOK, DataOK, PrOK
<1>4. priority' \in {priority, priority_remove(priority, req.slot)}
  BY DEF slot_remove
<1>5. TablesOK'
  <2>1. priority' \in [Slots -> Nat]
    BY <1>1, <1>2, <1>4, StepFacts, PriorityType DEF TablesOK
  <2>2. corrupted' \in BOOLEAN
    BY <1>1, StepFacts DEF slot_remove, TablesOK
  <2>3. QED
    BY <2>1, <2>2 DEF TablesOK
<1>6. Bootable'
  BY <1>1, <1>2, <1>4, StepFacts, BootRemove DEF slot_remove, IInv
<1>7. CASE Fails
  BY <1>1, <1>3, <1>5, <1>6, <1>7, StepFacts, FailsInv
<1>8. CASE priority' = priority_remove(priority, req.slot) /\ k' = 1 /\ Goto("erase")
  <2>1. ReqOK' /\ PcOK' /\ HostOK' /\ RspOK' /\ pc' = "erase" /\ req' = req
    BY <1>1, <1>8, StepFacts, GotoType DEF Steps
  <2>2. TypeOK'
    BY <1>3, <1>5, <2>1, TypePartsNext
  <2>3. TaskInv'
    BY <1>1, <1>2, <1>8, <2>1, StepFacts, RsuAssumption DEF slot_remove, ram, TaskInv, Steps,
       PrSteps, Content
  <2>4. priority'[req.slot] = 0
    BY <1>2, <1>8 DEF priority_remove
  <2>5. OutInv' /\ WrittenInv' /\ VerifyInv'
    BY <2>1, <2>4 DEF OutInv, WrittenInv, VerifyInv
  <2>6. QED
    BY <1>1, <1>6, <1>8, <2>2, <2>3, <2>5, StepFacts, GotoInv DEF IInv
<1>9. QED
  BY <1>7, <1>8 DEF slot_remove

LEMMA EraseDevInv == ASSUME IInv, erase_dev PROVE IInv'
<1>1. pc \in Steps /\ pc = "erase"
  BY DEF erase_dev, Steps
<1>2. req.slot \in Slots /\ k \in 1..SlotSize /\ priority[req.slot] = 0
  BY <1>1, StepFacts, RsuAssumption DEF IInv, TaskInv, OutInv
<1>3. RamOK' /\ LibOK' /\ TablesOK' /\ PrOK'
  BY <1>1, StepFacts DEF erase_dev, ram, tables, pr, RamOK, LibOK, TablesOK, PrOK
<1>4. \E b \in Cells : Cell(b)
  BY <1>1, <1>2, StepFacts, OldCell, CellsFacts DEF erase_dev
<1>5. DataOK' /\ Bootable'
  BY <1>1, <1>2, <1>4, StepFacts, CellType, BootCell DEF erase_dev, tables, IInv
<1>6. CASE Fails
  BY <1>1, <1>3, <1>5, <1>6, StepFacts, FailsInv
<1>7. CASE k < SlotSize /\ k' = k + 1 /\ Goto("erase")
  <2>1. ReqOK' /\ PcOK' /\ HostOK' /\ RspOK' /\ pc' = "erase" /\ req' = req
    BY <1>1, <1>7, StepFacts, GotoType DEF Steps
  <2>2. TypeOK'
    BY <1>3, <1>5, <2>1, TypePartsNext
  <2>3. TaskInv'
    BY <1>1, <1>2, <1>7, <2>1, StepFacts, RsuAssumption DEF erase_dev, ram, TaskInv, Steps,
       PrSteps, Content
  <2>4. OutInv' /\ WrittenInv' /\ VerifyInv'
    BY <1>2, <2>1 DEF erase_dev, tables, OutInv, WrittenInv, VerifyInv
  <2>5. QED
    BY <1>1, <1>5, <1>7, <2>2, <2>3, <2>4, StepFacts, GotoInv DEF IInv
<1>8. CASE k' = 1 /\ Goto("rsu_slot_program_buf")
  <2>1. /\ ReqOK' /\ PcOK' /\ HostOK' /\ RspOK'
        /\ pc' = "rsu_slot_program_buf" /\ req' = req
    BY <1>1, <1>8, StepFacts, GotoType DEF Steps
  <2>2. TypeOK'
    BY <1>3, <1>5, <2>1, TypePartsNext
  <2>3. TaskInv'
    BY <1>1, <1>2, <1>8, <2>1, StepFacts DEF erase_dev, ram, TaskInv, Steps, PrSteps, Content
  <2>4. OutInv' /\ WrittenInv' /\ VerifyInv'
    BY <1>2, <2>1 DEF erase_dev, tables, OutInv, WrittenInv, VerifyInv
  <2>5. QED
    BY <1>1, <1>5, <1>8, <2>2, <2>3, <2>4, StepFacts, GotoInv DEF IInv
<1>9. QED
  BY <1>6, <1>7, <1>8 DEF erase_dev

LEMMA ProgramBufInv == ASSUME IInv, rsu_slot_program_buf PROVE IInv'
<1>1. pc \in Steps /\ pc = "rsu_slot_program_buf"
  BY DEF rsu_slot_program_buf, Steps
<1>2. req.slot \in Slots /\ k = 1 /\ priority[req.slot] = 0
  BY <1>1, StepFacts DEF IInv, TaskInv, OutInv
<1>3. RamOK' /\ LibOK' /\ DataOK' /\ TablesOK' /\ PrOK'
  BY <1>1, StepFacts DEF rsu_slot_program_buf, ram, tables, pr, RamOK, LibOK, DataOK,
     TablesOK, PrOK
<1>4. Bootable'
  BY BootSame DEF rsu_slot_program_buf, tables, IInv
<1>5. CASE Fails
  BY <1>1, <1>3, <1>4, <1>5, StepFacts, FailsInv
<1>6. CASE Goto("write") /\ UNCHANGED k
  <2>1. ReqOK' /\ PcOK' /\ HostOK' /\ RspOK' /\ pc' = "write" /\ req' = req
    BY <1>1, <1>6, StepFacts, GotoType DEF Steps, PcOK
  <2>2. TypeOK'
    BY <1>3, <2>1, TypePartsNext
  <2>3. TaskInv'
    BY <1>1, <1>2, <1>6, <2>1, StepFacts DEF rsu_slot_program_buf, ram, TaskInv, Steps,
       PrSteps, Content
  <2>4. OutInv' /\ WrittenInv' /\ VerifyInv'
    BY <1>2, <1>6, <2>1 DEF rsu_slot_program_buf, tables, OutInv, WrittenInv, VerifyInv
  <2>5. QED
    BY <1>1, <1>4, <1>6, <2>2, <2>3, <2>4, StepFacts, GotoInv DEF IInv
<1>7. QED
  BY <1>5, <1>6 DEF rsu_slot_program_buf

\* What is programmed over a block is a flash cell.
LEMMA ProgrammedType ==
    ASSUME IInv, pc = "write", k <= image_len, k <= SlotSize
    PROVE  Programmed(data[req.slot][k], image[k]) \in Cells
<1>1. pc \in Steps
  BY DEF Steps
<1>2. image[k] = Block(req.img, k) /\ Block(req.img, k) \in BlockSet
  BY <1>1, StepFacts DEF Content, Block, BlockSet
<1>3. QED
  BY <1>2, CellsFacts DEF Programmed, Cells

LEMMA ProgramBlockInv == ASSUME IInv, program_block PROVE IInv'
<1>1. pc \in Steps /\ pc = "write"
  BY DEF program_block, Steps
<1>2. /\ req.slot \in Slots /\ priority[req.slot] = 0 /\ k <= image_len + 1
      /\ \A n \in 1..(k - 1) : n <= SlotSize /\ data[req.slot][n] = image[n]
  BY <1>1, StepFacts DEF IInv, TaskInv, OutInv, WrittenInv
<1>3. RamOK' /\ LibOK' /\ TablesOK' /\ PrOK' /\ UNCHANGED <<image, image_len, priority>>
  BY <1>1, StepFacts DEF program_block, ram, tables, pr, RamOK, LibOK, TablesOK, PrOK
<1>4. CASE k > image_len /\ Goto("add") /\ UNCHANGED <<data, k>>
  <2>1. ReqOK' /\ PcOK' /\ HostOK' /\ RspOK' /\ pc' = "add" /\ req' = req
    BY <1>1, <1>4, StepFacts, GotoType DEF Steps, PcOK
  <2>2. DataOK' /\ Bootable'
    BY <1>1, <1>3, <1>4, StepFacts, BootSame DEF DataOK, IInv
  <2>3. TypeOK'
    BY <1>3, <2>1, <2>2, TypePartsNext
  <2>4. TaskInv'
    BY <1>1, <1>2, <1>3, <1>4, <2>1, StepFacts DEF TaskInv, Steps, PrSteps, Content
  <2>5. OutInv' /\ WrittenInv' /\ VerifyInv'
    BY <1>2, <1>3, <1>4, <2>1 DEF OutInv, WrittenInv, VerifyInv
  <2>6. QED
    BY <1>1, <1>4, <2>2, <2>3, <2>4, <2>5, StepFacts, GotoInv DEF IInv
<1>5. CASE Fails /\ UNCHANGED data
  <2>1. DataOK' /\ Bootable'
    BY <1>1, <1>3, <1>5, StepFacts, BootSame DEF DataOK, IInv
  <2>2. QED
    BY <1>1, <1>3, <1>5, <2>1, StepFacts, FailsInv
<1>6. CASE /\ k <= image_len /\ k <= SlotSize /\ Goto("readback") /\ UNCHANGED k
           /\ Cell(Programmed(data[req.slot][k], image[k])) \/ Cell(TornCell)
  <2>1. ReqOK' /\ PcOK' /\ HostOK' /\ RspOK' /\ pc' = "readback" /\ req' = req
    BY <1>1, <1>6, StepFacts, GotoType DEF Steps, PcOK
  <2>2. \E b \in Cells : Cell(b)
    BY <1>1, <1>6, ProgrammedType, CellsFacts
  <2>3. DataOK' /\ Bootable'
    BY <1>1, <1>2, <1>3, <2>2, StepFacts, CellType, BootCell DEF IInv
  <2>4. TypeOK'
    BY <1>3, <2>1, <2>3, TypePartsNext
  <2>5. TaskInv'
    BY <1>1, <1>2, <1>3, <1>6, <2>1, StepFacts DEF TaskInv, Steps, PrSteps, Content
  <2>6. \A n \in 1..(k - 1) : data'[req.slot][n] = data[req.slot][n]
    BY <1>1, <1>2, <2>2, StepFacts, RsuAssumption DEF Cell, DataOK
  <2>7. OutInv' /\ WrittenInv' /\ VerifyInv'
    BY <1>2, <1>3, <1>6, <2>1, <2>6 DEF OutInv, WrittenInv, VerifyInv
  <2>8. QED
    BY <1>1, <1>6, <2>3, <2>4, <2>5, <2>7, StepFacts, GotoInv DEF IInv
<1>7. CASE k <= SlotSize /\ (\E b \in {data[req.slot][k], TornCell} : Cell(b)) /\ Fails
  <2>1. \E b \in Cells : Cell(b)
    <3>1. k \in 1..SlotSize
      BY <1>1, <1>7, StepFacts, RsuAssumption
    <3>2. QED
      BY <3>1, <1>1, <1>2, <1>7, StepFacts, OldCell, CellsFacts
  <2>2. DataOK' /\ Bootable'
    BY <1>1, <1>2, <1>3, <2>1, StepFacts, CellType, BootCell DEF IInv
  <2>3. QED
    BY <1>1, <1>3, <1>7, <2>2, StepFacts, FailsInv
<1>8. QED
  BY <1>4, <1>5, <1>6, <1>7 DEF program_block

LEMMA ReadBackInv == ASSUME IInv, read_back PROVE IInv'
<1>1. pc \in Steps /\ pc = "readback"
  BY DEF read_back, Steps
<1>2. /\ req.slot \in Slots /\ priority[req.slot] = 0 /\ k <= image_len /\ k <= SlotSize
      /\ \A n \in 1..(k - 1) : n <= SlotSize /\ data[req.slot][n] = image[n]
  BY <1>1, StepFacts DEF IInv, TaskInv, OutInv, WrittenInv
<1>3. /\ RamOK' /\ LibOK' /\ DataOK' /\ TablesOK' /\ PrOK'
      /\ UNCHANGED <<image, image_len, priority, data>>
  BY <1>1, StepFacts DEF read_back, ram, tables, pr, RamOK, LibOK, DataOK, TablesOK, PrOK
<1>4. Bootable'
  BY <1>3, BootSame DEF IInv
<1>5. CASE Fails
  BY <1>1, <1>3, <1>4, <1>5, StepFacts, FailsInv
<1>6. CASE data[req.slot][k] = image[k] /\ k' = k + 1 /\ Goto("write")
  <2>1. ReqOK' /\ PcOK' /\ HostOK' /\ RspOK' /\ pc' = "write" /\ req' = req
    BY <1>1, <1>6, StepFacts, GotoType DEF Steps
  <2>2. TypeOK'
    BY <1>3, <2>1, TypePartsNext
  <2>3. TaskInv'
    BY <1>1, <1>2, <1>3, <1>6, <2>1, StepFacts DEF TaskInv, Steps, PrSteps, Content
  <2>4. \A n \in 1..(k' - 1) : n <= SlotSize /\ data[req.slot][n] = image[n]
    BY <1>1, <1>2, <1>6, StepFacts
  <2>5. OutInv' /\ WrittenInv' /\ VerifyInv'
    BY <1>2, <1>3, <2>1, <2>4 DEF OutInv, WrittenInv, VerifyInv
  <2>6. QED
    BY <1>1, <1>4, <1>6, <2>2, <2>3, <2>5, StepFacts, GotoInv DEF IInv
<1>7. QED
  BY <1>5, <1>6 DEF read_back

\* Every block of the image has been read back.
LEMMA WholeSlot ==
    ASSUME IInv, pc = "add" PROVE Holds(req.slot, req.img)
<1>1. pc \in Steps
  BY DEF Steps
<1>2. k = Blocks[req.img] + 1
  BY <1>1, StepFacts DEF IInv, TaskInv
<1>3. \A n \in 1..Blocks[req.img] : n <= SlotSize /\ data[req.slot][n] = image[n]
  BY <1>1, <1>2, StepFacts DEF IInv, WrittenInv
<1>4. QED
  BY <1>1, <1>3, StepFacts DEF Holds, Content

LEMMA AddInv == ASSUME IInv, slot_add PROVE IInv'
<1>1. pc \in Steps /\ pc = "add"
  BY DEF slot_add, Steps
<1>2. req.slot \in Slots /\ req.img \in Images /\ Holds(req.slot, req.img)
  BY <1>1, StepFacts, WholeSlot
<1>3. RamOK' /\ LibOK' /\ DataOK' /\ PrOK' /\ UNCHANGED <<image, image_len, data>>
  BY <1>1, StepFacts DEF slot_add, ram, pr, RamOK, LibOK, DataOK, PrOK
<1>4. priority' \in {priority, priority_add(priority, req.slot)}
  BY DEF slot_add
<1>5. TablesOK'
  <2>1. priority' \in [Slots -> Nat]
    BY <1>1, <1>2, <1>4, StepFacts, PriorityType DEF TablesOK
  <2>2. corrupted' \in BOOLEAN
    BY <1>1, StepFacts DEF slot_add, TablesOK
  <2>3. QED
    BY <2>1, <2>2 DEF TablesOK
<1>6. Bootable'
  BY <1>1, <1>2, <1>3, <1>4, StepFacts, BootAdd DEF IInv
<1>7. CASE Fails
  BY <1>1, <1>3, <1>5, <1>6, <1>7, StepFacts, FailsInv
<1>8. CASE /\ priority' = priority_add(priority, req.slot)
           /\ Goto("rsu_slot_verify_buf") /\ UNCHANGED k
  <2>1. /\ ReqOK' /\ PcOK' /\ HostOK' /\ RspOK'
        /\ pc' = "rsu_slot_verify_buf" /\ req' = req
    BY <1>1, <1>8, StepFacts, GotoType DEF Steps, PcOK
  <2>2. TypeOK'
    BY <1>3, <1>5, <2>1, TypePartsNext
  <2>3. TaskInv'
    BY <1>1, <1>2, <1>3, <2>1, StepFacts DEF TaskInv, Steps, PrSteps, Content
  <2>4. priority'[req.slot] = 1
    BY <1>2, <1>8 DEF priority_add
  <2>5. OutInv' /\ WrittenInv' /\ VerifyInv'
    BY <1>2, <1>3, <2>1, <2>4 DEF OutInv, WrittenInv, VerifyInv, Holds
  <2>6. QED
    BY <1>1, <1>6, <1>8, <2>2, <2>3, <2>5, StepFacts, GotoInv DEF IInv
<1>9. QED
  BY <1>7, <1>8 DEF slot_add

LEMMA VerifyBufInv == ASSUME IInv, rsu_slot_verify_buf PROVE IInv'
<1>1. pc \in Steps /\ pc = "rsu_slot_verify_buf"
  BY DEF rsu_slot_verify_buf, Steps
<1>2. req.slot \in Slots /\ priority[req.slot] = 1 /\ Holds(req.slot, req.img)
  BY <1>1, StepFacts DEF IInv, VerifyInv
<1>3. /\ RamOK' /\ LibOK' /\ DataOK' /\ TablesOK' /\ PrOK'
      /\ UNCHANGED <<image, image_len, priority, data>>
  BY <1>1, StepFacts DEF rsu_slot_verify_buf, ram, tables, pr, RamOK, LibOK, DataOK,
     TablesOK, PrOK
<1>4. Bootable'
  BY <1>3, BootSame DEF IInv
<1>5. CASE Fails
  BY <1>1, <1>3, <1>4, <1>5, StepFacts, FailsInv
<1>6. CASE k' = 1 /\ Goto("verify")
  <2>1. ReqOK' /\ PcOK' /\ HostOK' /\ RspOK' /\ pc' = "verify" /\ req' = req
    BY <1>1, <1>6, StepFacts, GotoType DEF Steps
  <2>2. TypeOK'
    BY <1>3, <2>1, TypePartsNext
  <2>3. TaskInv'
    BY <1>1, <1>2, <1>3, <2>1, StepFacts DEF TaskInv, Steps, PrSteps, Content
  <2>4. OutInv' /\ WrittenInv' /\ VerifyInv'
    BY <1>2, <1>3, <2>1 DEF OutInv, WrittenInv, VerifyInv, Holds
  <2>5. QED
    BY <1>1, <1>4, <1>6, <2>2, <2>3, <2>4, StepFacts, GotoInv DEF IInv
<1>7. QED
  BY <1>5, <1>6 DEF rsu_slot_verify_buf

LEMMA VerifyBlockInv == ASSUME IInv, verify_block PROVE IInv'
<1>1. pc \in Steps /\ pc = "verify"
  BY DEF verify_block, Steps
<1>2. req.slot \in Slots /\ priority[req.slot] = 1 /\ Holds(req.slot, req.img)
  BY <1>1, StepFacts DEF IInv, VerifyInv
<1>3. /\ LibOK' /\ DataOK' /\ TablesOK' /\ PrOK'
      /\ UNCHANGED <<priority, data>>
  BY <1>1, StepFacts DEF verify_block, tables, pr, LibOK, DataOK, TablesOK, PrOK
<1>4. Bootable'
  BY <1>3, BootSame DEF IInv
<1>5. CASE Fails /\ UNCHANGED ram
  <2>1. RamOK'
    BY <1>1, <1>5, StepFacts DEF ram, RamOK
  <2>2. QED
    BY <1>1, <1>3, <1>4, <1>5, <2>1, StepFacts, FailsInv
<1>6. CASE k' = k + 1 /\ Goto("verify") /\ UNCHANGED ram
  <2>1. ReqOK' /\ PcOK' /\ HostOK' /\ RspOK' /\ pc' = "verify" /\ req' = req
    BY <1>1, <1>6, StepFacts, GotoType DEF Steps
  <2>2. RamOK' /\ UNCHANGED <<image, image_len>>
    BY <1>1, <1>6, StepFacts DEF ram, RamOK
  <2>3. TypeOK'
    BY <1>3, <2>1, <2>2, TypePartsNext
  <2>4. TaskInv'
    BY <1>1, <1>2, <2>1, <2>2, StepFacts DEF TaskInv, Steps, PrSteps, Content
  <2>5. OutInv' /\ WrittenInv' /\ VerifyInv'
    BY <1>2, <1>3, <2>1 DEF OutInv, WrittenInv, VerifyInv, Holds
  <2>6. QED
    BY <1>1, <1>4, <1>6, <2>3, <2>4, <2>5, StepFacts, GotoInv DEF IInv
<1>7. CASE Consumed /\ Reply(TRUE, 0)
  <2>1. HoldsIn(data', req.slot, req.img) /\ priority'[req.slot] = 1
    BY <1>2, <1>3 DEF Holds, HoldsIn
  <2>2. QED
    BY <1>1, <1>3, <1>4, <1>7, <2>1, StepFacts, ConsumedType, ReplyInv
<1>8. QED
  BY <1>5, <1>6, <1>7 DEF verify_block
--------------------------------------------------------------------------------
\* Partial reconfiguration leaves flash and boot order alone.

LEMMA PrFacts ==
    ASSUME IInv, pc \in PrSteps
    PROVE  /\ RamOK /\ LibOK /\ ReqOK /\ PcOK /\ DataOK /\ TablesOK /\ PrOK /\ HostOK /\ RspOK
           /\ req # NoRequest /\ req.cmd = "pr" /\ k \in Nat /\ k >= 1
<1>1. RamOK /\ LibOK /\ ReqOK /\ PcOK /\ DataOK /\ TablesOK /\ PrOK /\ HostOK /\ RspOK
  BY TypeParts DEF IInv
<1>2. req.cmd = "pr"
  BY DEF IInv, TaskInv
<1>3. QED
  BY <1>1, <1>2, NotNoRequest DEF PcOK

\* A step of the pr command that goes on to another one.
LEMMA PrGoes ==
    ASSUME IInv, req # NoRequest, req.cmd = "pr", NEW step \in PrSteps, Goto(step),
           k' \in Nat \ {0}, RamOK', LibOK', DataOK', TablesOK', PrOK', Bootable'
    PROVE  IInv'
<1>1. ReqOK' /\ PcOK' /\ HostOK' /\ RspOK' /\ pc' = step /\ req' = req
  BY GotoType, TypeParts DEF IInv
<1>2. TypeOK'
  BY <1>1, TypePartsNext
<1>3. TaskInv' /\ OutInv' /\ WrittenInv' /\ VerifyInv'
  BY <1>1 DEF TaskInv, OutInv, WrittenInv, VerifyInv, Steps, PrSteps
<1>4. QED
  BY <1>2, <1>3, GotoInv DEF IInv

LEMMA PrInv == ASSUME IInv, rsu_mgmt_pr PROVE IInv'
<1>1. req # NoRequest /\ req.cmd = "pr"
  BY NotNoRequest DEF rsu_mgmt_pr, Arrived
<1>2. RamOK' /\ LibOK' /\ DataOK' /\ TablesOK' /\ PrOK'
  BY TypeParts DEF rsu_mgmt_pr, ram, tables, IInv, RamOK, LibOK, DataOK, TablesOK, PrOK
<1>3. Bootable'
  BY BootSame DEF rsu_mgmt_pr, tables, IInv
<1>4. CASE Fails
  BY <1>1, <1>2, <1>3, <1>4, FailsInv
<1>5. CASE Goto("pr_start") /\ UNCHANGED k
  <2>1. k' \in Nat \ {0}
    BY <1>5, TypeParts DEF IInv, PcOK
  <2>2. QED
    BY <1>1, <1>2, <1>3, <1>5, <2>1, PrGoes DEF PrSteps
<1>6. QED
  BY <1>4, <1>5 DEF rsu_mgmt_pr

LEMMA PrEndsInv ==
    ASSUME IInv, pc \in PrSteps, NEW st, PrEnds(st), UNCHANGED <<librsu, load_work, data, tables>>,
           region' \in {"whole", "partial"}, pr_status' \in {"idle", "prog", "done", "error"}
    PROVE  IInv'
<1>1. LibOK' /\ DataOK' /\ TablesOK'
  BY PrFacts DEF tables, LibOK, DataOK, TablesOK
<1>2. Bootable'
  BY BootSame DEF tables, IInv
<1>3. CASE PrReleases
  <2>1. RamOK' /\ PrOK' /\ Reply(TRUE, 0)
    BY <1>3, ConsumedType DEF PrReleases, PrOK
  <2>2. req # NoRequest /\ req.cmd = "pr"
    BY PrFacts
  <2>3. QED
    BY <1>1, <1>2, <2>1, <2>2, ReplyInv
<1>4. CASE PrFails
  <2>1. RamOK' /\ PrOK' /\ Fails
    BY <1>4, PrFacts DEF PrFails, ram, RamOK, PrOK
  <2>2. QED
    BY <1>1, <1>2, <2>1, PrFacts, FailsInv
<1>5. QED
  BY <1>3, <1>4 DEF PrEnds

LEMMA PrStartInv == ASSUME IInv, pr_start PROVE IInv'
<1>1. pc \in PrSteps
  BY DEF pr_start, PrSteps
<1>2. CASE /\ pr_status' = "prog" /\ region' = "partial"
           /\ k' = 1 /\ Goto("pr_stream") /\ UNCHANGED <<ctrl, ram>>
  <2>1. RamOK' /\ LibOK' /\ DataOK' /\ TablesOK' /\ PrOK'
    BY <1>1, <1>2, PrFacts DEF pr_start, ram, tables, RamOK, LibOK, DataOK, TablesOK, PrOK
  <2>2. Bootable'
    BY BootSame DEF pr_start, tables, IInv
  <2>3. QED
    BY <1>1, <1>2, <2>1, <2>2, PrFacts, PrGoes DEF PrSteps
<1>3. CASE /\ pr_status' \in {pr_status, "error"} /\ UNCHANGED region
           /\ PrEnds(pr_status')
  <2>1. region' \in {"whole", "partial"} /\ pr_status' \in {"idle", "prog", "done", "error"}
    BY <1>1, <1>3, PrFacts DEF PrOK
  <2>2. QED
    BY <1>1, <1>3, <2>1, PrEndsInv DEF pr_start
<1>4. QED
  BY <1>2, <1>3 DEF pr_start

LEMMA PrStreamInv == ASSUME IInv, pr_stream PROVE IInv'
<1>1. pc \in PrSteps
  BY DEF pr_stream, PrSteps
<1>2. RamOK' /\ LibOK' /\ DataOK' /\ TablesOK' /\ PrOK'
  BY <1>1, PrFacts DEF pr_stream, ram, tables, RamOK, LibOK, DataOK, TablesOK, PrOK
<1>3. Bootable'
  BY BootSame DEF pr_stream, tables, IInv
<1>4. k' \in Nat \ {0} /\ \E step \in PrSteps : Goto(step)
  BY <1>1, PrFacts DEF pr_stream, PrSteps
<1>5. QED
  BY <1>1, <1>2, <1>3, <1>4, PrFacts, PrGoes

LEMMA PrFinishInv == ASSUME IInv, pr_finish PROVE IInv'
<1>1. pc \in PrSteps
  BY DEF pr_finish, PrSteps
<1>2. region' \in {"whole", "partial"} /\ pr_status' \in {"idle", "prog", "done", "error"}
  BY <1>1, PrFacts DEF pr_finish, PrOK
<1>3. \E st : PrEnds(st)
  BY DEF pr_finish
<1>4. QED
  BY <1>1, <1>2, <1>3, PrEndsInv DEF pr_finish
--------------------------------------------------------------------------------
\* Restarts.

LEMMA RestartInv ==
    ASSUME IInv, Restart, DataOK', priority' \in [Slots -> Nat], PrOK', Bootable',
           rsp # NoReply => UNCHANGED <<data, priority>>
    PROVE  IInv'
<1>1. RspOK /\ HostOK /\ TablesOK
  BY TypeParts DEF IInv
<1>2. RamOK' /\ LibOK' /\ ReqOK' /\ PcOK' /\ HostOK' /\ RspOK'
  BY <1>1, ConsumedType DEF Restart, net, LibOK, ReqOK, PcOK, HostOK, RspOK
<1>3. TablesOK'
  BY <1>1 DEF Restart, TablesOK
<1>4. TypeOK'
  BY <1>2, <1>3, TypePartsNext
<1>5. TaskInv' /\ OutInv' /\ WrittenInv' /\ VerifyInv'
  BY DEF Restart, TaskInv, OutInv, WrittenInv, VerifyInv, Steps, PrSteps
<1>6. NetInv'
  BY DEF Restart, net, NetInv, IInv, Request
<1>7. ProgramHonest'
  <2>1. CASE rsp = NoReply
    BY <2>1 DEF Restart, net, ProgramHonest, NoReply
  <2>2. CASE rsp # NoReply
    BY <2>2 DEF Restart, net, ProgramHonest, Holds, IInv
  <2>3. QED
    BY <2>1, <2>2
<1>8. QED
  BY <1>4, <1>5, <1>6, <1>7 DEF IInv

LEMMA CutShortInv ==
    ASSUME IInv, CutShort
    PROVE  /\ DataOK' /\ priority' \in [Slots -> Nat] /\ Bootable'
           /\ rsp # NoReply => UNCHANGED <<data, priority>>
<1>1. TablesOK /\ DataOK /\ Bootable
  BY TypeParts DEF IInv
<1>2. pc \in Steps => rsp = NoReply
  BY StepFacts DEF IInv, NetInv
<1>3. CASE pc = "remove" /\ priority' \in {priority, priority_remove(priority, req.slot)}
           /\ UNCHANGED data
  <2>1. pc \in Steps /\ req.slot \in Slots
    BY <1>3, StepFacts DEF Steps
  <2>2. QED
    BY <1>1, <1>2, <1>3, <2>1, PriorityType, BootRemove DEF TablesOK, DataOK
<1>4. CASE pc = "add" /\ priority' \in {priority, priority_add(priority, req.slot)}
           /\ UNCHANGED data
  <2>1. pc \in Steps /\ req.slot \in Slots /\ req.img \in Images
    BY <1>4, StepFacts DEF Steps
  <2>2. QED
    BY <1>1, <1>2, <1>4, <2>1, PriorityType, BootAdd, WholeSlot DEF TablesOK, DataOK
<1>5. CASE /\ pc = "erase" \/ (pc = "write" /\ k <= image_len /\ k <= SlotSize)
           /\ \E b \in {data[req.slot][k], TornCell} : Cell(b)
           /\ UNCHANGED priority
  <2>1. pc \in Steps
    BY <1>5 DEF Steps
  <2>2. req.slot \in Slots /\ priority[req.slot] = 0 /\ k \in 1..SlotSize
    BY <1>5, <2>1, StepFacts, RsuAssumption DEF IInv, TaskInv, OutInv
  <2>3. \E b \in Cells : Cell(b)
    BY <1>1, <1>5, <2>2, OldCell, CellsFacts
  <2>4. DataOK' /\ Bootable'
    BY <1>1, <1>5, <2>1, <2>2, <2>3, StepFacts, CellType, BootCell
  <2>5. QED
    BY <1>1, <1>2, <1>5, <2>1, <2>4 DEF TablesOK
<1>6. CASE UNCHANGED <<data, priority>>
  BY <1>1, <1>6, BootSame DEF TablesOK, DataOK
<1>7. QED
  BY <1>3, <1>4, <1>5, <1>6 DEF CutShort

LEMMA PowerInv == ASSUME IInv, PowerLoss \/ CpuReset PROVE IInv'
<1>1. Restart /\ CutShort
  BY DEF PowerLoss, CpuReset
<1>2. PrOK'
  BY TypeParts DEF PowerLoss, CpuReset, Configured, pr, PrOK, IInv
<1>3. QED
  BY <1>1, <1>2, CutShortInv, RestartInv

LEMMA LoadWorkInv == ASSUME IInv, load_work_handler PROVE IInv'
<1>1. UNCHANGED <<data, priority>> /\ Bootable' /\ DataOK' /\ priority' \in [Slots -> Nat]
  BY BootSame, TypeParts DEF load_work_handler, IInv, DataOK, TablesOK
<1>2. CASE Restart /\ Configured
  <2>1. PrOK'
    BY <1>2 DEF Configured, PrOK
  <2>2. QED
    BY <1>1, <1>2, <2>1, RestartInv
<1>3. CASE load_work' = NoLoad /\ UNCHANGED <<ram, librsu, task, corrupted, pr, net>>
  <2>1. TypeOK'
    BY <1>1, <1>3 DEF IInv, TypeOK, ram, task, pr, net
  <2>2. TaskInv' /\ OutInv' /\ WrittenInv' /\ VerifyInv' /\ NetInv' /\ ProgramHonest'
    BY <1>1, <1>3 DEF IInv, ram, task, net, TaskInv, OutInv, WrittenInv, VerifyInv, NetInv,
       ProgramHonest, Holds, Request
  <2>3. QED
    BY <1>1, <2>1, <2>2 DEF IInv
<1>4. QED
  BY <1>2, <1>3 DEF load_work_handler
--------------------------------------------------------------------------------
\* The script and the line.

LEMMA HostInv == ASSUME IInv, Host PROVE IInv'
<1>1. /\ RamOK /\ LibOK /\ ReqOK /\ PcOK /\ DataOK /\ TablesOK /\ PrOK /\ HostOK /\ RspOK
      /\ NetInv
  BY TypeParts DEF IInv
<1>2. /\ RamOK' /\ LibOK' /\ PcOK' /\ DataOK' /\ TablesOK' /\ PrOK'
      /\ UNCHANGED <<image, image_len, image_have, pc, k, data, priority>>
  BY <1>1 DEF Host, HostStarts, HostSends, HostTakes, HostQuits, LineLoses, ram, task,
     tables, pr, RamOK, LibOK, PcOK, DataOK, TablesOK, PrOK
<1>3. Bootable'
  BY <1>2, BootSame DEF IInv
<1>4. pc \in Steps => req # NoRequest /\ rsp = NoReply
  BY StepFacts DEF IInv, NetInv
<1>5. pc \in PrSteps => req # NoRequest
  BY PrFacts
<1>6. req' = req \/ pc = "idle"
  <2>1. CASE HostStarts \/ HostTakes \/ HostQuits
    BY <2>1 DEF HostStarts, HostTakes, HostQuits, task
  <2>2. CASE HostSends
    BY <2>2, <1>1, <1>4, <1>5 DEF HostSends, PcOK
  <2>3. CASE LineLoses
    BY <2>3 DEF LineLoses
  <2>4. QED
    BY <2>1, <2>2, <2>3 DEF Host
<1>7. TaskInv' /\ OutInv' /\ WrittenInv' /\ VerifyInv'
  <2>1. CASE req' = req
    BY <2>1, <1>2 DEF IInv, TaskInv, OutInv, WrittenInv, VerifyInv, Holds
  <2>2. CASE pc = "idle"
    BY <2>2, <1>2 DEF TaskInv, OutInv, WrittenInv, VerifyInv, Steps, PrSteps
  <2>3. QED
    BY <2>1, <2>2, <1>6
<1>8. ReqOK' /\ HostOK' /\ RspOK' /\ NetInv' /\ ProgramHonest'
  <2>1. CASE HostStarts
    <3>1. ~asked /\ rsp = NoReply
      BY <2>1, <1>1 DEF HostStarts, NetInv
    <3>2. host' \in Sessions
      BY <2>1, RsuAssumption DEF HostStarts, Sessions
    <3>3. UNCHANGED <<req, asked, rsp>>
      BY <2>1 DEF HostStarts, task
    <3>4. QED
      BY <1>1, <3>1, <3>2, <3>3 DEF ReqOK, HostOK, RspOK, NetInv, ProgramHonest, NoReply
  <2>2. CASE HostSends
    <3>1. host # NoHost /\ rsp = NoReply /\ req' = Request /\ asked' /\ UNCHANGED <<host, rsp>>
      BY <2>2 DEF HostSends
    <3>2. host \in Sessions
      BY <3>1, <1>1 DEF HostOK
    <3>3. Request \in Requests
      BY <3>2 DEF Request, Requests, Sessions
    <3>4. ReqOK' /\ HostOK' /\ RspOK'
      BY <1>1, <3>1, <3>3, <2>2 DEF ReqOK, HostOK, RspOK, HostSends
    <3>5. NetInv'
      BY <3>1 DEF NetInv, Request
    <3>6. ProgramHonest'
      BY <3>1 DEF ProgramHonest, NoReply
    <3>7. QED
      BY <3>4, <3>5, <3>6
  <2>3. CASE HostTakes
    <3>1. rsp # NoReply /\ rsp' = NoReply /\ ~asked' /\ asked' \in BOOLEAN /\ UNCHANGED req
      BY <2>3 DEF HostTakes, task
    <3>2. rsp \in Replies /\ rsp.off \in Nat
      BY <3>1, <1>1 DEF RspOK, Replies
    <3>3. host \in Sessions
      BY <3>1, <1>1 DEF NetInv, HostOK
    <3>4. host' \in Sessions \cup {NoHost}
      BY <2>3, <3>2, <3>3 DEF HostTakes, Sessions
    <3>5. QED
      BY <1>1, <3>1, <3>4 DEF ReqOK, HostOK, RspOK, NetInv, ProgramHonest, NoReply
  <2>4. CASE HostQuits
    <3>1. rsp' = NoReply /\ ~asked' /\ asked' \in BOOLEAN /\ UNCHANGED req /\ host' = NoHost
      BY <2>4 DEF HostQuits, task
    <3>2. QED
      BY <1>1, <3>1 DEF ReqOK, HostOK, RspOK, NetInv, ProgramHonest, NoReply
  <2>5. CASE LineLoses
    <3>1. UNCHANGED <<host, asked>>
      BY <2>5 DEF LineLoses
    <3>2. CASE req' = NoRequest /\ UNCHANGED rsp
      BY <1>1, <1>2, <3>1, <3>2 DEF IInv, ReqOK, HostOK, RspOK, NetInv, ProgramHonest, Holds
    <3>3. CASE rsp' = NoReply /\ UNCHANGED req
      BY <1>1, <3>1, <3>3 DEF ReqOK, HostOK, RspOK, NetInv, ProgramHonest, NoReply, Request
    <3>4. QED
      BY <2>5, <3>2, <3>3 DEF LineLoses
  <2>6. QED
    BY <2>1, <2>2, <2>3, <2>4, <2>5 DEF Host
<1>9. QED
  BY <1>2, <1>3, <1>7, <1>8, TypePartsNext DEF IInv
--------------------------------------------------------------------------------
LEMMA InitInv == Init => IInv
<1> SUFFICES ASSUME Init PROVE IInv
  OBVIOUS
<1>a. image = NULL /\ image_len = 0 /\ image_have = 0 /\ k = 1
  BY Zenon DEF Init
<1>b. corrupted \in BOOLEAN /\ asked \in BOOLEAN
  BY Zenon DEF Init
<1>c. RamOK /\ PcOK
  BY <1>a DEF Init, RamOK, PcOK
<1>1. RamOK /\ LibOK /\ ReqOK /\ PcOK /\ PrOK /\ HostOK /\ RspOK
  BY <1>b, <1>c, Zenon DEF Init, LibOK, ReqOK, PrOK, HostOK, RspOK
<1>2. DataOK /\ TablesOK /\ Bootable
  <2>1. CASE /\ data = [s \in Slots |-> [n \in 1..SlotSize |-> Erased]]
             /\ priority = [s \in Slots |-> 0]
    BY <1>b, <2>1, CellsFacts DEF DataOK, TablesOK, Bootable
  <2>2. CASE \E s \in Slots, i \in Images :
               /\ Blocks[i] <= SlotSize
               /\ priority = [t \in Slots |-> IF t = s THEN 1 ELSE 0]
               /\ data = [t \in Slots |-> [n \in 1..SlotSize |->
                             IF t = s /\ n <= Blocks[i] THEN Block(i, n) ELSE Erased]]
    <3>1. PICK s \in Slots, i \in Images :
               /\ Blocks[i] <= SlotSize
               /\ priority = [t \in Slots |-> IF t = s THEN 1 ELSE 0]
               /\ data = [t \in Slots |-> [n \in 1..SlotSize |->
                             IF t = s /\ n <= Blocks[i] THEN Block(i, n) ELSE Erased]]
      BY <2>2
    <3>2. \A n \in 1..SlotSize : Block(i, n) \in Cells
      BY RsuAssumption DEF Block, BlockSet, Cells
    <3>3. DataOK /\ TablesOK
      BY <1>b, <3>1, <3>2, CellsFacts DEF DataOK, TablesOK
    <3>4. Holds(s, i)
      BY <3>1, RsuAssumption DEF Holds
    <3>5. QED
      BY <3>1, <3>3, <3>4 DEF Bootable
  <2>3. QED
    BY <2>1, <2>2 DEF Init
<1>3. TaskInv /\ OutInv /\ WrittenInv /\ VerifyInv
  BY DEF Init, TaskInv, OutInv, WrittenInv, VerifyInv, Steps, PrSteps
<1>4. NetInv /\ ProgramHonest
  BY DEF Init, NetInv, ProgramHonest, NoReply
<1>5. QED
  BY <1>1, <1>2, <1>3, <1>4, TypeParts DEF IInv

LEMMA StutterInv == ASSUME IInv, UNCHANGED vars PROVE IInv'
<1>1. UNCHANGED <<image, image_len, image_have, librsu, load_work, pc, k, req, data,
                  priority, corrupted, region, ctrl, pr_status, host, asked, rsp>>
  BY DEF vars, ram, task, tables, pr, net
<1>2. TypeOK'
  BY <1>1 DEF IInv, TypeOK
<1>3. TaskInv' /\ OutInv' /\ WrittenInv' /\ VerifyInv' /\ NetInv'
  BY <1>1 DEF IInv, TaskInv, OutInv, WrittenInv, VerifyInv, NetInv, Holds, Request
<1>4. Bootable' /\ ProgramHonest'
  BY <1>1 DEF IInv, Bootable, ProgramHonest, Holds
<1>5. QED
  BY <1>2, <1>3, <1>4 DEF IInv

LEMMA StepInv == IInv /\ [Next]_vars => IInv'
<1> SUFFICES ASSUME IInv, [Next]_vars PROVE IInv'
  OBVIOUS
<1>1. CASE Host
  BY <1>1, HostInv
<1>2. CASE Handlers
  <2>1. CASE rsu_mgmt_status \/ rsu_mgmt_upload \/ rsu_mgmt_program \/ rsu_mgmt_load
    BY <2>1, StatusInv, UploadInv, ProgramInv, LoadInv
  <2>2. CASE rsu_slot_erase \/ slot_remove \/ erase_dev
    BY <2>2, EraseInv, RemoveInv, EraseDevInv
  <2>3. CASE rsu_slot_program_buf \/ program_block \/ read_back \/ slot_add
    BY <2>3, ProgramBufInv, ProgramBlockInv, ReadBackInv, AddInv
  <2>4. CASE rsu_slot_verify_buf \/ verify_block
    BY <2>4, VerifyBufInv, VerifyBlockInv
  <2>5. CASE rsu_mgmt_pr \/ pr_start \/ pr_stream \/ pr_finish
    BY <2>5, PrInv, PrStartInv, PrStreamInv, PrFinishInv
  <2>6. QED
    BY <1>2, <2>1, <2>2, <2>3, <2>4, <2>5 DEF Handlers
<1>3. CASE load_work_handler
  BY <1>3, LoadWorkInv
<1>4. CASE PowerLoss \/ CpuReset
  BY <1>4, PowerInv
<1>5. CASE UNCHANGED vars
  BY <1>5, StutterInv
<1>6. QED
  BY <1>1, <1>2, <1>3, <1>4, <1>5 DEF Next

LEMMA Invariance == Spec => []IInv
BY InitInv, StepInv, PTL DEF Spec

\* The state of the management group, the slots, the PR region and the script stays in
\* its ranges.
THEOREM RsuTypeCorrect == Spec => []TypeOK
<1>1. IInv => TypeOK
  BY DEF IInv
<1>2. QED
  BY <1>1, Invariance, PTL

\* Whatever fails, and wherever power or the CPU goes, every slot in the boot order holds
\* a whole image.
THEOREM RsuBootable == Spec => []Bootable
<1>1. IInv => Bootable
  BY DEF IInv
<1>2. QED
  BY <1>1, Invariance, PTL

\* A script that is told its image was programmed finds that image in its slot, at the
\* highest priority.
THEOREM RsuProgramHonest == Spec => []ProgramHonest
<1>1. IInv => ProgramHonest
  BY DEF IInv
<1>2. QED
  BY <1>1, Invariance, PTL

\* The data of a slot changes only while the slot is out of the boot order.
THEOREM RsuNeverInPlace == Spec => NeverInPlace
<1>1. ASSUME IInv, [Next]_vars
      PROVE  \A s \in Slots : priority[s] > 0 /\ priority'[s] > 0 => data'[s] = data[s]
  <2>1. TablesOK /\ DataOK
    BY <1>1, TypeParts DEF IInv
  <2>2. CASE \E b : Cell(b) /\ pc \in {"erase", "write"}
    <3>1. pc \in Steps
      BY <2>2 DEF Steps
    <3>2. req.slot \in Slots /\ priority[req.slot] = 0
      BY <1>1, <2>2, <3>1, StepFacts DEF IInv, OutInv
    <3>3. QED
      BY <2>1, <2>2, <3>2 DEF Cell, DataOK
  <2>3. CASE UNCHANGED data
    BY <2>3
  <2>4. (\E b : Cell(b) /\ pc \in {"erase", "write"}) \/ UNCHANGED data
    <3>1. CASE erase_dev \/ program_block
      BY <3>1 DEF erase_dev, program_block
    <3>2. CASE PowerLoss \/ CpuReset
      BY <3>2 DEF PowerLoss, CpuReset, CutShort
    <3>3. CASE Host \/ load_work_handler \/ UNCHANGED vars
      BY <3>3 DEF Host, HostStarts, HostSends, HostTakes, HostQuits, LineLoses,
         load_work_handler, vars
    <3>4. CASE rsu_mgmt_status \/ rsu_mgmt_upload \/ rsu_mgmt_program \/ rsu_mgmt_load
               \/ rsu_mgmt_pr \/ pr_start \/ pr_stream \/ pr_finish
      BY <3>4 DEF rsu_mgmt_status, rsu_mgmt_upload, rsu_mgmt_program, rsu_mgmt_load,
         rsu_mgmt_pr, pr_start, pr_stream, pr_finish
    <3>5. CASE rsu_slot_erase \/ slot_remove \/ rsu_slot_program_buf \/ read_back
               \/ slot_add \/ rsu_slot_verify_buf \/ verify_block
      BY <3>5 DEF rsu_slot_erase, slot_remove, rsu_slot_program_buf, read_back, slot_add,
         rsu_slot_verify_buf, verify_block
    <3>6. QED
      BY <1>1, <3>1, <3>2, <3>3, <3>4, <3>5 DEF Next, Handlers
  <2>5. QED
    BY <2>2, <2>3, <2>4
<1>2. IInv /\ [Next]_vars =>
        [\A s \in Slots : priority[s] > 0 /\ priority'[s] > 0 => data'[s] = data[s]]_vars
  BY <1>1
<1>3. QED
  BY <1>2, Invariance, PTL DEF Spec, NeverInPlace
--------------------------------------------------------------------------------
\* The PR region: it is held from before the controller starts, and a region that is
\* partly written is not reported as done.
RegionInv ==
    /\ pc \in PrSteps => ctrl = "held"
    /\ region = "partial" => ctrl = "held" /\ pr_status # "done"

LEMMA RegionStep == RegionInv /\ [Next]_vars => RegionInv'
<1> SUFFICES ASSUME RegionInv, [Next]_vars PROVE RegionInv'
  OBVIOUS
<1>1. CASE PowerLoss \/ CpuReset
  BY <1>1 DEF PowerLoss, CpuReset, Restart, Configured, pr, RegionInv, PrSteps
<1>2. CASE load_work_handler
  BY <1>2 DEF load_work_handler, Restart, Configured, task, pr, RegionInv, PrSteps
<1>3. CASE Host \/ UNCHANGED vars
  BY <1>3 DEF Host, HostStarts, HostSends, HostTakes, HostQuits, LineLoses, vars, task, pr,
     RegionInv
<1>4. CASE rsu_mgmt_pr
  BY <1>4 DEF rsu_mgmt_pr, Fails, Reply, Goto, RegionInv, PrSteps
<1>5. CASE pr_start
  BY <1>5 DEF pr_start, PrEnds, PrReleases, PrFails, Fails, Reply, Goto, RegionInv, PrSteps
<1>6. CASE pr_stream
  BY <1>6 DEF pr_stream, Goto, RegionInv, PrSteps
<1>7. CASE pr_finish
  BY <1>7 DEF pr_finish, PrEnds, PrReleases, PrFails, Fails, Reply, RegionInv, PrSteps
<1>8. CASE rsu_mgmt_status \/ rsu_mgmt_upload \/ rsu_mgmt_program \/ rsu_mgmt_load
  BY <1>8 DEF rsu_mgmt_status, rsu_mgmt_upload, rsu_mgmt_program, rsu_mgmt_load, Reply, Goto,
     pr, RegionInv, PrSteps
<1>9. CASE rsu_slot_erase \/ slot_remove \/ erase_dev \/ rsu_slot_program_buf
           \/ program_block \/ read_back \/ slot_add \/ rsu_slot_verify_buf \/ verify_block
  BY <1>9 DEF rsu_slot_erase, slot_remove, erase_dev, rsu_slot_program_buf, program_block,
     read_back, slot_add, rsu_slot_verify_buf, verify_block, Fails, Reply, Goto, pr,
     RegionInv, PrSteps
<1>10. QED
  BY <1>1, <1>2, <1>3, <1>4, <1>5, <1>6, <1>7, <1>8, <1>9 DEF Next, Handlers

\* A region whose outputs are released holds a whole persona.
THEOREM RsuRegionHeld == Spec => []RegionHeld
<1>1. Init => RegionInv
  BY DEF Init, RegionInv, PrSteps
<1>2. RegionInv => RegionHeld
  BY DEF RegionInv, RegionHeld
<1>3. QED
  BY <1>1, <1>2, RegionStep, PTL DEF Spec
--------------------------------------------------------------------------------
\* The buffer, if there is one, holds the beginning of image i.
Prefix(i) ==
    image # NULL =>
        /\ image_len = Blocks[i] /\ image_have <= image_len
        /\ \A n \in 1..image_have : image[n] = Block(i, n)

UsesBuffer(cmd, off) == (cmd = "upload" /\ off > 0) \/ cmd \in {"program", "pr"}

\* Whoever has got past the first chunk, or asks for what follows it, finds the beginning
\* of its own image; a script whose predecessor's request is still with the board has
\* sent nothing; a reply is to the request that the script is at.
BufInv ==
    /\ host # NoHost /\ UsesBuffer(Request.cmd, host.off) => Prefix(host.img)
    /\ req # NoRequest /\ UsesBuffer(req.cmd, req.off) => Prefix(req.img)
    /\ rsp.ok /\ rsp.cmd = "upload" => Prefix(host.img)
    /\ ~asked /\ req # NoRequest /\ host # NoHost =>
           host.off = 0 /\ host.phase \in {"status", "upload"}
    /\ rsp # NoReply => rsp.cmd = Request.cmd
    /\ host.phase = "status" /\ host.cmd # "load" => host.off = 0

\* The buffer stays or goes, and the step is not the success of an upload.
LEMMA BufKept ==
    ASSUME IInv, BufInv, UNCHANGED ram \/ image' = NULL,
           \/ /\ req # NoRequest
              /\ \E ok \in BOOLEAN, off \in Nat : Reply(ok, off) /\ ~(ok /\ req.cmd = "upload")
           \/ \E step : Goto(step)
           \/ UNCHANGED net /\ req' \in {req, NoRequest}
    PROVE  BufInv'
<1>1. \A i : Prefix(i) => Prefix(i)'
  BY DEF Prefix, ram
<1>2. /\ UNCHANGED <<host, asked>> /\ req' \in {req, NoRequest}
      /\ rsp' = rsp \/ ~(rsp'.ok /\ rsp'.cmd = "upload")
      /\ rsp' # NoReply => rsp'.cmd = Request.cmd
  <2>1. CASE /\ req # NoRequest
             /\ \E ok \in BOOLEAN, off \in Nat : Reply(ok, off) /\ ~(ok /\ req.cmd = "upload")
    <3>1. asked => req.cmd = Request.cmd
      BY <2>1 DEF IInv, NetInv
    <3>2. QED
      BY <2>1, <3>1 DEF Reply, NoReply
  <2>2. CASE (\E step : Goto(step)) \/ (UNCHANGED net /\ req' \in {req, NoRequest})
    BY <2>2 DEF Goto, net, BufInv
  <2>3. QED
    BY <2>1, <2>2
<1>3. Request' = Request
  BY <1>2 DEF Request
<1>4. QED
  BY <1>1, <1>2, <1>3 DEF BufInv

\* An upload that succeeds leaves the beginning of the image it was sent for.
LEMMA BufReply ==
    ASSUME IInv, BufInv, req # NoRequest, req.cmd = "upload",
           NEW i, i = req.img, Prefix(i)', NEW off \in Nat, Reply(TRUE, off)
    PROVE  BufInv'
<1>1. UNCHANGED <<host, asked>> /\ req' = NoRequest /\ Request' = Request
  BY DEF Reply, Request
<1>2. CASE asked
  <2>1. host.img = i /\ Request.cmd = "upload"
    BY <1>2 DEF IInv, NetInv, Request
  <2>2. host'.img = i
    BY <1>1, <2>1
  <2>3. Prefix(host.img)'
    BY <2>2 DEF Prefix
  <2>4. rsp' = [cmd |-> "upload", ok |-> TRUE, off |-> off]
    BY <1>2 DEF Reply
  <2>5. (rsp # NoReply => rsp.cmd = Request.cmd)'
    BY <1>1, <2>1, <2>4
  <2>6. QED
    BY <1>1, <2>3, <2>5 DEF BufInv
<1>3. CASE ~asked
  <2>1. rsp' = NoReply /\ ~rsp'.ok
    BY <1>3 DEF Reply, NoReply
  <2>2. host # NoHost => host.off = 0 /\ host.phase \in {"status", "upload"}
    BY <1>3 DEF BufInv
  <2>3. host # NoHost => Request.cmd \in {"status", "upload"} /\ host.off = 0
    BY <2>2 DEF Request
  <2>4. ~(host # NoHost /\ UsesBuffer(Request.cmd, host.off))'
    BY <1>1, <2>3 DEF UsesBuffer
  <2>5. QED
    BY <1>1, <2>1, <2>4 DEF BufInv
<1>4. QED
  BY <1>2, <1>3

LEMMA BufUpload == ASSUME IInv, BufInv, rsu_mgmt_upload PROVE BufInv'
<1>1. req # NoRequest /\ req.cmd = "upload" /\ ReqOK /\ RamOK
  BY NotNoRequest, TypeParts DEF rsu_mgmt_upload, Arrived, IInv
<1>2. PICK i : i = req.img
  OBVIOUS
<1>3. i \in Images /\ req.off \in Nat /\ Blocks[i] \in Nat /\ Blocks[i] >= 1
  BY <1>1, <1>2, RequestFacts
<1>4. CASE Reply(FALSE, 0) /\ (UNCHANGED ram \/ image' = NULL)
  BY <1>1, <1>4, BufKept
<1>5. CASE FirstChunk /\ Reply(TRUE, image_have')
  <2>1. /\ image' = [n \in 1..Blocks[i] |-> IF n = 1 THEN Block(i, 1) ELSE Junk]
        /\ image_len' = Blocks[i] /\ image_have' = 1
    BY <1>2, <1>5 DEF FirstChunk
  <2>2. \A n \in 1..image_have' : image'[n] = Block(i, n)
    BY <1>3, <2>1
  <2>3. Prefix(i)'
    BY <1>3, <2>1, <2>2 DEF Prefix
  <2>4. QED
    BY <1>1, <1>2, <1>5, <2>1, <2>3, BufReply
<1>6. CASE /\ req.off > 0 /\ InOrder
           /\ image' = [image EXCEPT ![req.off + 1] = Block(req.img, req.off + 1)]
           /\ image_have' = IF image_have > req.off + 1 THEN image_have ELSE req.off + 1
           /\ UNCHANGED image_len
           /\ Reply(TRUE, image_have')
  <2>1. /\ image # NULL /\ req.off <= image_have /\ req.off + 1 <= image_len
        /\ image \in [1..image_len -> BlockSet \cup {Junk}]
        /\ image_have \in Nat /\ image_len \in Nat
    BY <1>1, <1>6 DEF InOrder, RamOK
  <2>2. Prefix(i)
    BY <1>1, <1>2, <1>6 DEF BufInv, UsesBuffer
  <2>3. /\ image_len = Blocks[i] /\ image_have <= image_len
        /\ \A n \in 1..image_have : image[n] = Block(i, n)
    BY <2>1, <2>2 DEF Prefix
  <2>4. image_have' \in Nat /\ image_have' <= image_len /\ image_len' = image_len
    BY <1>3, <1>6, <2>1, <2>3
  <2>5. ASSUME NEW n \in 1..image_have' PROVE image'[n] = Block(i, n)
    <3>1. n \in 1..image_len
      BY <2>4, <2>1
    <3>2. CASE n = req.off + 1
      BY <1>2, <1>6, <2>1, <3>1, <3>2
    <3>3. CASE n # req.off + 1
      <4>1. image'[n] = image[n]
        BY <1>6, <2>1, <3>1, <3>3
      <4>2. n \in 1..image_have
        BY <1>3, <1>6, <2>1, <3>1, <3>3
      <4>3. QED
        BY <2>3, <4>1, <4>2
    <3>4. QED
      BY <3>2, <3>3
  <2>6. Prefix(i)'
    BY <2>3, <2>4, <2>5 DEF Prefix
  <2>7. QED
    BY <1>1, <1>2, <1>6, <2>4, <2>6, BufReply
<1>7. QED
  BY <1>4, <1>5, <1>6 DEF rsu_mgmt_upload, ram

\* Every handler but the upload, the delayed load and the restarts.
LEMMA BufHandlers ==
    ASSUME IInv, BufInv,
           \/ rsu_mgmt_status \/ rsu_mgmt_program \/ rsu_mgmt_load \/ rsu_mgmt_pr
           \/ rsu_slot_erase \/ slot_remove \/ erase_dev
           \/ rsu_slot_program_buf \/ program_block \/ read_back \/ slot_add
           \/ rsu_slot_verify_buf \/ verify_block
           \/ pr_start \/ pr_stream \/ pr_finish
    PROVE  BufInv'
<1>1. CASE rsu_mgmt_status \/ rsu_mgmt_program \/ rsu_mgmt_load \/ rsu_mgmt_pr
  <2>1. req # NoRequest /\ req.cmd # "upload"
    BY <1>1, NotNoRequest
       DEF rsu_mgmt_status, rsu_mgmt_program, rsu_mgmt_load, rsu_mgmt_pr, Arrived
  <2>2. UNCHANGED ram
    BY <1>1 DEF rsu_mgmt_status, rsu_mgmt_program, rsu_mgmt_load, rsu_mgmt_pr
  <2>3. \/ \E ok \in BOOLEAN, off \in Nat : Reply(ok, off)
        \/ \E step : Goto(step)
    BY <1>1 DEF rsu_mgmt_status, rsu_mgmt_program, rsu_mgmt_load, rsu_mgmt_pr, Fails
  <2>4. QED
    BY <2>1, <2>2, <2>3, BufKept
<1>2. CASE \/ rsu_slot_erase \/ slot_remove \/ erase_dev
           \/ rsu_slot_program_buf \/ program_block \/ read_back \/ slot_add
           \/ rsu_slot_verify_buf \/ verify_block
  <2>1. req # NoRequest /\ req.cmd # "upload"
    <3>1. pc \in Steps
      BY <1>2 DEF rsu_slot_erase, slot_remove, erase_dev, rsu_slot_program_buf,
         program_block, read_back, slot_add, rsu_slot_verify_buf, verify_block, Steps
    <3>2. QED
      BY <3>1, NotNoRequest DEF IInv, TaskInv
  <2>2. UNCHANGED ram \/ image' = NULL
    BY <1>2 DEF rsu_slot_erase, slot_remove, erase_dev, rsu_slot_program_buf, program_block,
       read_back, slot_add, rsu_slot_verify_buf, verify_block, Consumed
  <2>3. \/ \E ok \in BOOLEAN, off \in Nat : Reply(ok, off)
        \/ \E step : Goto(step)
    BY <1>2 DEF rsu_slot_erase, slot_remove, erase_dev, rsu_slot_program_buf, program_block,
       read_back, slot_add, rsu_slot_verify_buf, verify_block, Fails
  <2>4. QED
    BY <2>1, <2>2, <2>3, BufKept
<1>3. CASE pr_start \/ pr_stream \/ pr_finish
  <2>1. req # NoRequest /\ req.cmd # "upload"
    <3>1. pc \in PrSteps
      BY <1>3 DEF pr_start, pr_stream, pr_finish, PrSteps
    <3>2. QED
      BY <3>1, NotNoRequest DEF IInv, TaskInv
  <2>2. UNCHANGED ram \/ image' = NULL
    BY <1>3 DEF pr_start, pr_stream, pr_finish, PrEnds, PrReleases, PrFails, Consumed
  <2>3. \/ \E ok \in BOOLEAN, off \in Nat : Reply(ok, off)
        \/ \E step : Goto(step)
    BY <1>3 DEF pr_start, pr_stream, pr_finish, PrEnds, PrReleases, PrFails, Fails
  <2>4. QED
    BY <2>1, <2>2, <2>3, BufKept
<1>4. QED
  BY <1>1, <1>2, <1>3

LEMMA BufRestarts ==
    ASSUME IInv, BufInv, load_work_handler \/ PowerLoss \/ CpuReset \/ UNCHANGED vars
    PROVE  BufInv'
<1>1. UNCHANGED ram \/ image' = NULL
  BY DEF load_work_handler, PowerLoss, CpuReset, Restart, Consumed, vars
<1>2. UNCHANGED net /\ req' \in {req, NoRequest}
  BY DEF load_work_handler, PowerLoss, CpuReset, Restart, vars, task
<1>3. QED
  BY <1>1, <1>2, BufKept

LEMMA BufHost == ASSUME IInv, BufInv, Host PROVE BufInv'
<1>1. \A i : Prefix(i) => Prefix(i)'
  BY DEF Host, HostStarts, HostSends, HostTakes, HostQuits, LineLoses, Prefix, ram
<1>2. ~NoReply.ok /\ NoHost.phase = "idle"
  BY DEF NoReply, NoHost
<1>3. CASE HostStarts
  <2>1. rsp = NoReply /\ UNCHANGED <<req, asked, rsp>>
    BY <1>3 DEF HostStarts, IInv, NetInv, task
  <2>2. host'.off = 0 /\ host'.phase \in {"status", "upload"}
    BY <1>3 DEF HostStarts
  <2>3. Request'.cmd \in {"status", "upload"}
    BY <2>2 DEF Request
  <2>4. ~UsesBuffer(Request.cmd, host.off)'
    BY <2>2, <2>3 DEF UsesBuffer
  <2>5. QED
    BY <1>1, <1>2, <2>1, <2>2, <2>4 DEF BufInv
<1>4. CASE HostSends
  <2>1. host # NoHost /\ rsp = NoReply /\ rsp' = rsp /\ host' = host /\ req' = Request /\ asked'
    BY <1>4 DEF HostSends
  <2>2. Request' = Request
    BY <2>1 DEF Request
  <2>3. req'.cmd = Request.cmd /\ req'.off = host.off /\ req'.img = host.img
    BY <2>1 DEF Request
  <2>4. QED
    BY <1>1, <1>2, <2>1, <2>2, <2>3 DEF BufInv
<1>5. CASE HostTakes
  <2>1. /\ rsp # NoReply /\ req = NoRequest /\ host # NoHost
        /\ rsp' = NoReply /\ req' = req /\ rsp.cmd = Request.cmd
    BY <1>5 DEF HostTakes, IInv, NetInv, BufInv, task
  <2>2. host \in Sessions
    BY <2>1, TypeParts DEF IInv, HostOK
  <2>3. SUFFICES /\ (host # NoHost /\ UsesBuffer(Request.cmd, host.off) => Prefix(host.img))'
                 /\ (host.phase = "status" /\ host.cmd # "load" => host.off = 0)'
    BY <1>2, <2>1 DEF BufInv
  <2>4. CASE /\ rsp.ok /\ rsp.cmd = "status"
             /\ host' = [host EXCEPT !.phase = IF host.cmd = "load" THEN "run" ELSE "upload"]
    <3>1. host.phase = "status"
      BY <2>1, <2>2, <2>4 DEF Request, Sessions
    <3>2. /\ host'.cmd = host.cmd /\ host'.off = host.off
          /\ host'.phase = IF host.cmd = "load" THEN "run" ELSE "upload"
      BY <2>2, <2>4 DEF Sessions
    <3>3. host.cmd # "load" => host.off = 0
      BY <3>1 DEF BufInv
    <3>4. ~UsesBuffer(Request.cmd, host.off)'
      BY <3>2, <3>3 DEF UsesBuffer, Request
    <3>5. QED
      BY <3>2, <3>4
  <2>5. CASE /\ rsp.ok /\ rsp.cmd = "upload"
             /\ host' = [host EXCEPT !.off = rsp.off,
                           !.phase = IF rsp.off < Blocks[host.img] THEN "upload" ELSE "run"]
    <3>1. host'.img = host.img /\ host'.phase # "status"
      BY <2>2, <2>5 DEF Sessions
    <3>2. Prefix(host.img)
      BY <2>5 DEF BufInv
    <3>3. Prefix(host.img)'
      BY <1>1, <3>1, <3>2
    <3>4. QED
      BY <3>1, <3>3
  <2>6. CASE /\ rsp.ok /\ rsp.cmd = "program"
             /\ host' = [host EXCEPT !.cmd = "load", !.phase = "status"]
    <3>1. host'.cmd = "load" /\ host'.phase = "status"
      BY <2>2, <2>6 DEF Sessions
    <3>2. QED
      BY <3>1 DEF UsesBuffer, Request
  <2>7. CASE host' = NoHost
    BY <1>2, <2>7
  <2>8. QED
    BY <1>5, <2>4, <2>5, <2>6, <2>7 DEF HostTakes
<1>6. CASE HostQuits
  <2>1. host' = NoHost /\ rsp' = NoReply /\ req' = req
    BY <1>6 DEF HostQuits, task
  <2>2. QED
    BY <1>1, <1>2, <2>1 DEF BufInv
<1>7. CASE LineLoses
  <2>1. UNCHANGED <<host, asked>> /\ req' \in {req, NoRequest} /\ rsp' \in {rsp, NoReply}
    BY <1>7 DEF LineLoses
  <2>2. Request' = Request
    BY <2>1 DEF Request
  <2>3. QED
    BY <1>1, <1>2, <2>1, <2>2 DEF BufInv
<1>8. QED
  BY <1>3, <1>4, <1>5, <1>6, <1>7 DEF Host

\* The CRC check of program and pr never meets a mixture: a full buffer holds the image
\* the request was sent for, whatever was lost, repeated or left by an older session.
THEOREM RsuUploadIntact == Spec => []UploadIntact
<1>1. Init => BufInv
  <2> SUFFICES ASSUME Init PROVE BufInv
    OBVIOUS
  <2>1. host = NoHost /\ req = NoRequest /\ rsp = NoReply
    BY DEF Init
  <2>2. ~NoReply.ok /\ NoHost.phase = "idle"
    BY DEF NoReply, NoHost
  <2>3. QED
    BY <2>1, <2>2 DEF BufInv
<1>2. IInv /\ BufInv /\ [Next]_vars => BufInv'
  BY BufUpload, BufHandlers, BufRestarts, BufHost DEF Next, Handlers
<1>3. IInv /\ BufInv => UploadIntact
  <2> SUFFICES ASSUME IInv, BufInv, req.cmd \in {"program", "pr"}, Complete
               PROVE  CrcMatches
    BY DEF UploadIntact
  <2>1. req # NoRequest /\ ReqOK /\ RamOK
    BY NotNoRequest, TypeParts DEF IInv
  <2>2. PICK i : i = req.img
    OBVIOUS
  <2>3. Blocks[i] \in Nat
    BY <2>1, <2>2, RequestFacts
  <2>4. /\ image # NULL /\ image_have = image_len /\ image_len = Blocks[i]
        /\ \A n \in 1..Blocks[i] : image[n] = Block(i, n)
    BY <2>1, <2>2 DEF BufInv, UsesBuffer, Prefix, Complete
  <2>5. image \in [1..Blocks[i] -> BlockSet \cup {Junk}]
    BY <2>1, <2>4 DEF RamOK
  <2>6. image = Content(i)
    BY <2>3, <2>4, <2>5 DEF Content
  <2>7. QED
    BY <2>2, <2>6 DEF CrcMatches
<1>4. QED
  BY <1>1, <1>2, <1>3, Invariance, PTL DEF Spec
================================================================================
