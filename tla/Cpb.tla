---------------------------------- MODULE Cpb ----------------------------------
(***************************************************************************)
(* The configuration pointer block of uniLibRSU (libRSU_ops.c, libRSU.c):  *)
(* the boot order of the FPGA bitstreams, kept twice in NOR flash (CPB0,   *)
(* CPB1) and once in memory (plat_database->cpb). One action per flash     *)
(* operation, so that power can fail, the CPU can be reset or the flash    *)
(* can refuse between and inside any two of them.                          *)
(*                                                                         *)
(* A slot pointer is the set of its one bits: an erase sets all of them,   *)
(* programming can only clear some, which is how NOR flash behaves and     *)
(* why update_cpb tests (old & ptr) == ptr.                                *)
(***************************************************************************)
EXTENDS Integers, FiniteSets

CONSTANTS
    Bits,        \* the bits of a slot pointer the model tells apart
    Parts,       \* offsets of the partitions that are not reserved, as bit sets
    NSlots,      \* header.image_ptr_slots
    First,       \* the copy that comes first in the SPT
    FaultKinds,  \* the low-level calls that may return an error
    Api          \* the library functions the application calls

Copies == {"CPB0", "CPB1"}
Other(c) == IF c = "CPB0" THEN "CPB1" ELSE "CPB0"
Second == Other(First)

ERASED_ENTRY == Bits
SPENT_ENTRY == {}
Entry == SUBSET Bits
Slots == 1..NSlots

ASSUME CpbAssumption ==
    /\ Parts \subseteq Entry \ {ERASED_ENTRY, SPENT_ENTRY}
    /\ ERASED_ENTRY # SPENT_ENTRY
    /\ NSlots \in Nat \ {0}
    /\ First \in Copies
    /\ FaultKinds \subseteq {"status", "read", "program"}
    /\ Api \subseteq {"program", "program_callback", "disable", "enable", "empty", "restore"}

Magic == {"erased", "ok", "bad"}
Block == [magic : Magic, slots : [Slots -> Entry]]
Blank == [magic |-> "erased", slots |-> [x \in Slots |-> ERASED_ENTRY]]
NoCall == [fn |-> "none", part |-> {}]

VARIABLES
    flash,          \* the block each copy holds
    cpb,            \* plat_database->cpb
    cpb_corrupted,  \* plat_database->cpb_corrupted
    cpb_fixed,      \* plat_database->cpb_fixed
    fw,             \* RSU_STATUS state: what the firmware found when it configured
    pc,             \* the step the library is in
    at,             \* the copy that step works on
    job,            \* who runs the erase/write/magic sequence
    call,           \* the function in progress and the partition it is about
    ret,            \* its result, so far
    saved,          \* the buffer rsu_save_cpb_to_buf filled
    cand,           \* ghost: the blocks a restart may come back with; {} = no promise
    stable          \* from here on power stays up and the mailbox answers

lib == <<cpb_corrupted, cpb_fixed>>
task == <<pc, at, job, call, ret>>
vars == <<flash, cpb, lib, fw, task, saved, cand, stable>>
--------------------------------------------------------------------------------
\* What is in a block.

InUse(e) == e \notin {ERASED_ENTRY, SPENT_ENTRY}

\* check_cpb: every pointer is the offset of a partition that is not reserved.
check_cpb(b) == \A x \in Slots : b.slots[x] \in Parts \cup {ERASED_ENTRY, SPENT_ENTRY}

\* The conditions load_cpb puts on a copy before it trusts it.
Good(b) == b.magic = "ok" /\ check_cpb(b)

\* Slot x holds the k-th partition pointer of the block.
Rank(s, x) == Cardinality({y \in 1..x : InUse(s[y])})

\* priority_get: 0 when p is not there, 1 for the last pointer in the block.
priority_get(s, p) ==
    LET holds == {x \in Slots : s[x] = p}
    IN  IF holds = {} THEN 0
        ELSE LET last == CHOOSE x \in holds : \A y \in holds : y <= x
             IN  Cardinality({y \in last..NSlots : InUse(s[y])})

IsFirst(s, e, x) == s[x] = e /\ \A y \in 1..(x - 1) : s[y] # e

\* Mutant: one entry past the end of the table is cleared too.
CompressedOverrun(s, p) == [k \in 1..(NSlots + 1) |-> IF k = 1 THEN p ELSE ERASED_ENTRY]

\* Mutant: the pointers that were there are forgotten.
CompressedForgets(s, p) == [k \in Slots |-> IF k = 1 THEN p ELSE ERASED_ENTRY]

\* The pointers moved to the front, p behind them, the rest erased.
Compressed(s, p) ==
    LET n == Rank(s, NSlots)
        Holds(k, x) == InUse(s[x]) /\ Rank(s, x) = k
    IN  [k \in Slots |->
            IF k <= n /\ \E x \in Slots : Holds(k, x)
            THEN s[CHOOSE x \in Slots : Holds(k, x)]
            ELSE IF k = n + 1 THEN p ELSE ERASED_ENTRY]
--------------------------------------------------------------------------------
\* What the flash does (external). Programming clears bits and never sets one.

AndMagic(m, n) == CASE m = n        -> m
                    [] m = "erased" -> n
                    [] n = "erased" -> m
                    [] OTHER        -> "bad"

Programmed(b, new) ==
    [magic |-> AndMagic(b.magic, new.magic),
     slots |-> [x \in Slots |-> b.slots[x] \cap new.slots[x]]]

\* Power fails inside a program command: any of the bits it clears may still be set.
TornProgram(b, new) ==
    {t \in Block : /\ t.magic \in {b.magic, AndMagic(b.magic, new.magic)} \cup
                                  (IF b.magic = new.magic THEN {} ELSE {"bad"})
                   /\ \A x \in Slots : /\ (b.slots[x] \cap new.slots[x]) \subseteq t.slots[x]
                                       /\ t.slots[x] \subseteq b.slots[x]}

\* Power fails inside an erase: it had not begun, it was done, or the magic number is
\* lost. Nothing but an erase brings a lost one back, so the slots under it do not matter.
TornErase(b) == {b, Blank, [magic |-> "bad", slots |-> Blank.slots]}

\* The CPU stops, or the mailbox refuses or times out: the SDM carries out the commands
\* it got, so whole entries are done or not.
CutProgram(b, new) ==
    {t \in Block : /\ t.magic \in {b.magic, AndMagic(b.magic, new.magic)}
                   /\ \A x \in Slots : t.slots[x] \in {b.slots[x], b.slots[x] \cap new.slots[x]}}

\* The block the step in progress is programming.
Unmarked == [cpb EXCEPT !.magic = "erased"]
Marked == [cpb EXCEPT !.magic = "ok"]
\* Mutant: the magic number in the buffer was not put back before it is written.
MagicNotPutBack == [magic |-> "erased", slots |-> Blank.slots]
MagicOnly == [magic |-> "ok", slots |-> Blank.slots]
Programming == CASE pc = "update_cpb"  -> cpb
                 [] pc = "write_table" -> Unmarked
                 [] OTHER              -> MagicOnly

AtFlash == pc \in {"update_cpb", "erase_part", "write_table", "write_magic"}

Torn == IF pc = "erase_part" THEN TornErase(flash[at])
        ELSE TornProgram(flash[at], Programming)
Cut == IF pc = "erase_part" THEN {flash[at], Blank}
       ELSE CutProgram(flash[at], Programming)

\* What the firmware may report after it has looked at the two copies (external).
FwSees(f) == {s \in {"ok", "CPB0_CORRUPTED", "CPB0_CPB1_CORRUPTED"} :
                /\ s = "ok" => f["CPB0"].magic = "ok"
                /\ s = "CPB0_CORRUPTED" => ~Good(f["CPB0"])
                /\ s = "CPB0_CPB1_CORRUPTED" => ~Good(f["CPB0"]) /\ ~Good(f["CPB1"])}
--------------------------------------------------------------------------------
\* How a call ends.

Done(r) == pc' = "idle" /\ ret' = r /\ call' = NoCall /\ UNCHANGED <<at, job>>

\* load_cpb succeeded: what is in memory now is the boot order. rsu_slot_enable
\* goes on to priority_add; a failed update_cpb is still a failure.
LoadSucceeds ==
    /\ cand' = {cpb'.slots}
    /\ \/ /\ call.fn = "enable" /\ ret = "ok"
          /\ pc' = "priority_add"
          /\ call' = [call EXCEPT !.fn = "add"]
          /\ UNCHANGED <<at, job, ret>>
       \/ (call.fn # "enable" \/ ret = "err") /\ Done(ret)

\* Mutant: rsu_qspi_open gives up on every error of load_cpb.
OpenGivesUp ==
    /\ pc' = (IF call.fn = "init" THEN "closed" ELSE "idle")
    /\ ret' = "err" /\ call' = NoCall
    /\ UNCHANGED <<at, job, cand>>

\* load_cpb failed: rsu_qspi_open gives up, unless the table is flagged as corrupted.
LoadFails ==
    /\ \/ /\ call.fn = "init" /\ ~cpb_corrupted'
          /\ pc' = "closed" /\ ret' = "err" /\ call' = NoCall
          /\ UNCHANGED <<at, job>>
       \/ call.fn = "init" /\ cpb_corrupted' /\ Done("ok")
       \/ call.fn # "init" /\ Done("err")
    /\ UNCHANGED cand

Fault(kind) == kind \in FaultKinds /\ ~stable
--------------------------------------------------------------------------------
\* API calls. Each holds the library's mutex to its end.

Call(fn, p, step) ==
    /\ pc = "idle"
    /\ call' = [fn |-> fn, part |-> p]
    /\ pc' = step
    /\ ret' = "ok"
    /\ UNCHANGED <<flash, cpb, lib, fw, at, job, saved, cand, stable>>

rsu_qspi_open ==
    /\ pc = "closed"
    /\ call' = [fn |-> "init", part |-> {}]
    /\ pc' = "load_cpb"
    /\ ret' = "ok"
    /\ cpb_corrupted' = FALSE /\ cpb_fixed' = FALSE
    /\ UNCHANGED <<flash, cpb, fw, at, job, saved, cand, stable>>

\* Mutant: a slot that is in the boot order already may be programmed.
ProgramAgain(p) == "program" \in Api /\ ~cpb_corrupted /\ Call("add", p, "priority_add")

\* The last step of librsu_cb_program_common, which refuses a slot that has a priority.
rsu_slot_program_buf(p) ==
    /\ "program" \in Api
    /\ ~cpb_corrupted
    /\ priority_get(cpb.slots, p) <= 0
    /\ Call("add", p, "priority_add")

rsu_slot_program_callback(p) ==
    /\ "program_callback" \in Api
    /\ priority_get(cpb.slots, p) <= 0
    /\ Call("add", p, "priority_add")

\* rsu_slot_disable, and rsu_slot_erase before it erases the slot's data.
rsu_slot_disable(p) ==
    /\ "disable" \in Api
    /\ ~cpb_corrupted
    /\ Call("remove", p, "priority_remove")

rsu_slot_enable(p) ==
    /\ "enable" \in Api
    /\ ~cpb_corrupted
    /\ Call("enable", p, "priority_remove")

\* The block is replaced in memory, then written back.
Replace(fn, slots) ==
    /\ pc = "idle"
    /\ call' = [fn |-> fn, part |-> {}]
    /\ ret' = "ok"
    /\ cpb' = [magic |-> "ok", slots |-> slots]
    /\ cand' = IF cpb_corrupted THEN {} ELSE cand \cup {slots}
    /\ pc' = "erase_part" /\ at' = First /\ job' = "writeback"
    /\ UNCHANGED <<flash, lib, fw, saved, stable>>

rsu_create_empty_cpb ==
    /\ "empty" \in Api
    /\ Replace("empty", Blank.slots)

rsu_restore_cpb_from_buf ==
    /\ "restore" \in Api
    /\ ~cpb_corrupted
    /\ saved.magic = "ok"
    /\ Replace("restore", saved.slots)

rsu_save_cpb_to_buf ==
    /\ "restore" \in Api
    /\ pc = "idle" /\ ~cpb_corrupted
    /\ saved' = flash["CPB0"]
    /\ UNCHANGED <<flash, cpb, lib, fw, task, cand, stable>>
--------------------------------------------------------------------------------
\* The boot order changes in memory first.

\* The first erased entry takes p; without one the block is compressed; or it is full.
priority_add ==
    /\ pc = "priority_add"
    /\ \/ \E x \in Slots :
            /\ IsFirst(cpb.slots, ERASED_ENTRY, x)
            /\ cpb' = [cpb EXCEPT !.slots[x] = call.part]
            /\ pc' = "update_cpb"
            /\ at' = First
            /\ cand' = cand \cup {cpb'.slots}
            /\ UNCHANGED <<job, call, ret>>
       \/ /\ \A x \in Slots : cpb.slots[x] # ERASED_ENTRY
          /\ \E x \in Slots : ~InUse(cpb.slots[x])
          /\ cpb' = [cpb EXCEPT !.slots = Compressed(cpb.slots, call.part)]
          /\ pc' = "erase_part" /\ job' = "writeback"
          /\ at' = First
          /\ cand' = cand \cup {cpb'.slots}
          /\ UNCHANGED <<call, ret>>
       \/ /\ \A x \in Slots : InUse(cpb.slots[x])
          /\ Done("err")
          /\ UNCHANGED <<cpb, cand>>
    /\ UNCHANGED <<flash, lib, fw, saved, stable>>

\* The first entry that points to the partition is spent; load_cpb follows either way.
priority_remove ==
    /\ pc = "priority_remove"
    /\ \/ \E x \in Slots :
            /\ IsFirst(cpb.slots, call.part, x)
            /\ cpb' = [cpb EXCEPT !.slots[x] = SPENT_ENTRY]
            /\ pc' = "update_cpb"
            /\ at' = First
            /\ cand' = cand \cup {cpb'.slots}
       \/ /\ \A x \in Slots : cpb.slots[x] # call.part
          /\ pc' = "load_cpb"
          /\ UNCHANGED <<cpb, at, cand>>
    /\ UNCHANGED <<flash, lib, fw, job, call, ret, saved, stable>>
--------------------------------------------------------------------------------
\* Then in flash, one operation at a time.

Writes(b) == flash' = [flash EXCEPT ![at] = b]

\* update_cpb: the whole block over each copy, without an erase.
update_cpb ==
    /\ pc = "update_cpb"
    /\ \/ /\ Writes(Programmed(flash[at], cpb))
          /\ IF at = First THEN at' = Second /\ pc' = pc
                           ELSE at' = at /\ pc' = "load_cpb"
          /\ UNCHANGED ret
       \/ /\ Fault("program")
          /\ \E b \in Cut : Writes(b)
          /\ ret' = "err" /\ pc' = "load_cpb"
          /\ UNCHANGED at
    /\ UNCHANGED <<cpb, lib, fw, job, call, saved, cand, stable>>

\* An error inside the erase/table/magic sequence. priority_add does not reload the block.
SequenceFails ==
    /\ Fault("program")
    /\ UNCHANGED lib
    /\ \E b \in Cut : Writes(b)
    /\ \/ job = "restore" /\ LoadFails
       \/ job = "writeback" /\ Done("err") /\ UNCHANGED cand

erase_part ==
    /\ pc = "erase_part"
    /\ \/ /\ Writes(Blank)
          /\ pc' = "write_table"
          /\ UNCHANGED <<lib, at, job, call, ret, cand>>
       \/ SequenceFails
    /\ UNCHANGED <<cpb, fw, saved, stable>>

\* The table with an erased magic number.
write_table ==
    /\ pc = "write_table"
    /\ cpb' = Unmarked
    /\ \/ /\ Writes(Programmed(flash[at], Unmarked))
          /\ pc' = "write_magic"
          /\ UNCHANGED <<lib, at, job, call, ret, cand>>
       \/ SequenceFails
    /\ UNCHANGED <<fw, saved, stable>>

\* The magic number makes the copy count; the sequence goes on to the next copy or ends.
write_magic ==
    /\ pc = "write_magic"
    /\ cpb' = Marked
    /\ \/ /\ Writes(Programmed(flash[at], MagicOnly))
          /\ \/ /\ job = "restore"
                /\ LoadSucceeds
                /\ UNCHANGED lib
             \/ /\ job = "writeback" /\ at = First
                /\ at' = Second /\ pc' = "erase_part"
                /\ UNCHANGED <<lib, job, call, ret, cand>>
             \/ /\ job = "writeback" /\ at = Second /\ call.fn = "add"
                /\ pc' = "load_cpb"
                /\ UNCHANGED <<lib, at, job, call, ret, cand>>
             \/ /\ job = "writeback" /\ at = Second /\ call.fn # "add"
                /\ cpb_corrupted' = FALSE /\ cpb_fixed' = TRUE
                /\ cand' = {cpb'.slots}
                /\ Done("ok")
       \/ SequenceFails
    /\ UNCHANGED <<fw, saved, stable>>
--------------------------------------------------------------------------------
\* load_cpb: which copies pass, and what is done about the one that does not.

SkipCpb0 == ~cpb_fixed /\ fw = "CPB0_CORRUPTED"
Passes(c, r) == r[c] /\ Good(flash[c]) /\ ~(c = "CPB0" /\ SkipCpb0)
LeftInBuffer == {cpb, flash["CPB0"], flash["CPB1"]}

\* Mutant: the two good copies are not compared.
NotCompared(again) == again

\* check_both_cpb: both copies can be read again and hold the same bytes.
check_both_cpb(again) == again /\ flash["CPB0"] = flash["CPB1"]

\* r: which reads of the copies succeed; again: whether the third read does.
LoadReads(r, again) ==
    \/ /\ Passes("CPB0", r) /\ Passes("CPB1", r)
       /\ cpb' = flash["CPB0"]
       /\ \/ /\ check_both_cpb(again)
             /\ LoadSucceeds /\ UNCHANGED lib
          \/ /\ ~check_both_cpb(again)
             /\ cpb_corrupted' = TRUE /\ UNCHANGED cpb_fixed
             /\ LoadFails
    \/ \E c \in Copies :
         /\ Passes(c, r) /\ ~Passes(Other(c), r)
         /\ \/ /\ c = "CPB0" \/ again
               /\ cpb' = flash[c]
               /\ pc' = "erase_part" /\ job' = "restore"
               /\ at' = Other(c)
               /\ UNCHANGED <<lib, call, ret, cand>>
            \/ /\ c = "CPB1" /\ ~again
               /\ cpb' \in LeftInBuffer
               /\ UNCHANGED lib
               /\ LoadFails
    \/ /\ \A c \in Copies : ~Passes(c, r)
       /\ cpb' \in LeftInBuffer
       /\ cpb_corrupted' = TRUE /\ UNCHANGED cpb_fixed
       /\ LoadFails

AllRead == [c \in Copies |-> TRUE]

load_cpb ==
    /\ pc = "load_cpb"
    /\ \/ /\ Fault("status")
          /\ UNCHANGED <<cpb, lib>>
          /\ LoadFails
       \/ /\ ~cpb_fixed /\ fw = "CPB0_CPB1_CORRUPTED"
          /\ cpb_corrupted' = TRUE
          /\ UNCHANGED <<cpb, cpb_fixed>>
          /\ LoadFails
       \/ /\ cpb_fixed \/ fw # "CPB0_CPB1_CORRUPTED"
          /\ LoadReads(AllRead, TRUE)
       \/ /\ cpb_fixed \/ fw # "CPB0_CPB1_CORRUPTED"
          /\ Fault("read")
          /\ \E r \in [Copies -> BOOLEAN], again \in BOOLEAN :
               (r # AllRead \/ ~again) /\ LoadReads(r, again)
    /\ UNCHANGED <<flash, fw, saved, stable>>
--------------------------------------------------------------------------------
\* Power loss and CPU reset, at any step.

Stops ==
    /\ ~stable
    /\ pc # "closed"
    /\ pc' = "closed" /\ call' = NoCall /\ ret' = "err"
    /\ UNCHANGED <<cpb, lib, at, job, saved, cand, stable>>

\* The board loses power and configures from flash again.
PowerLoss ==
    /\ Stops
    /\ \/ AtFlash /\ \E b \in Torn : Writes(b)
       \/ ~AtFlash /\ UNCHANGED flash
    /\ fw' \in FwSees(flash')

\* The CPU restarts (warm reboot, librsu_exit and init); the firmware's status stays.
CpuReset ==
    /\ Stops
    /\ \/ AtFlash /\ \E b \in Cut : Writes(b)
       \/ ~AtFlash /\ UNCHANGED flash
    /\ UNCHANGED fw

Stabilise ==
    /\ ~stable
    /\ stable' = TRUE
    /\ UNCHANGED <<flash, cpb, lib, fw, task, saved, cand>>
--------------------------------------------------------------------------------
\* The programming file's table: one application image, or none yet.
Init ==
    /\ \E s \in [Slots -> Parts \cup {ERASED_ENTRY}] :
         /\ \A x \in Slots : x > 1 => s[x] = ERASED_ENTRY
         /\ flash = [c \in Copies |-> [magic |-> "ok", slots |-> s]]
         /\ cand = {s}
    /\ cpb = Blank
    /\ cpb_corrupted = FALSE /\ cpb_fixed = FALSE
    /\ fw = "ok"
    /\ pc = "closed" /\ at = First /\ job = "restore"
    /\ call = NoCall /\ ret = "ok"
    /\ saved = Blank
    /\ stable = FALSE

Calls ==
    \/ \E p \in Parts : \/ rsu_slot_program_buf(p)
                        \/ rsu_slot_program_callback(p)
                        \/ rsu_slot_disable(p)
                        \/ rsu_slot_enable(p)
    \/ rsu_create_empty_cpb
    \/ rsu_restore_cpb_from_buf
    \/ rsu_save_cpb_to_buf

Steps == \/ priority_add \/ priority_remove
         \/ update_cpb \/ erase_part \/ write_table \/ write_magic
         \/ load_cpb

Next == rsu_qspi_open \/ Calls \/ Steps \/ PowerLoss \/ CpuReset

Spec == Init /\ [][Next]_vars

\* The code runs on: a call in progress reaches its end, and the application opens the
\* library. Power may, but need not, become stable.
FairSpec == Init /\ [][Next \/ Stabilise]_vars /\ WF_vars(Steps) /\ WF_vars(rsu_qspi_open)
--------------------------------------------------------------------------------
Fns == {"none", "init", "add", "remove", "enable", "empty", "restore"}
Pcs == {"closed", "idle", "priority_add", "priority_remove", "load_cpb",
        "update_cpb", "erase_part", "write_table", "write_magic"}

\* Every variable holds a value of its kind.
TypeOK ==
    /\ flash \in [Copies -> Block]
    /\ cpb \in Block /\ saved \in Block
    /\ cpb_corrupted \in BOOLEAN /\ cpb_fixed \in BOOLEAN /\ stable \in BOOLEAN
    /\ fw \in {"ok", "CPB0_CORRUPTED", "CPB0_CPB1_CORRUPTED"}
    /\ pc \in Pcs /\ at \in Copies /\ job \in {"writeback", "restore"}
    /\ call \in [fn : Fns, part : Parts \cup {{}}]
    /\ ret \in {"ok", "err"}
    /\ cand \in SUBSET [Slots -> Entry]

\* Whatever step power fails in, one copy passes load_cpb's checks and holds the boot
\* order from before or after the interrupted call (writeback_cpb and update_cpb touch
\* one copy at a time, and the magic number is written last).
Anchored == cand # {} => \E c \in Copies : Good(flash[c]) /\ flash[c].slots \in cand

\* Between calls the block in memory and both copies are the same good block, or the
\* library refuses to work on it: no call computes from a block the flash does not hold.
InSync == (pc = "idle" /\ ~cpb_corrupted) =>
             Good(cpb) /\ \A c \in Copies : flash[c] = cpb

\* No partition is in the boot order twice: librsu_cb_program_common refuses a slot with
\* a priority and rsu_slot_enable removes before it adds. priority_remove spends only
\* the first entry, so a second one would survive it.
NoDuplicate ==
    (pc = "idle" /\ ~cpb_corrupted) =>
        \A x, y \in Slots : InUse(cpb.slots[x]) /\ cpb.slots[x] = cpb.slots[y] => x = y

\* A disable or erase that reports success leaves the slot without a priority.
Removed ==
    [][call.fn = "remove" /\ pc' = "idle" /\ ret' = "ok"
         => priority_get(cpb'.slots, call.part) = 0]_vars

\* Whatever failed or was cut short before, a library that opened without the flag has one
\* good block in memory and in both copies: load_cpb repairs the copy that is not good,
\* and refuses two good ones that differ.
Opened ==
    [][call.fn = "init" /\ pc' = "idle" /\ ~cpb_corrupted'
         => Good(cpb') /\ \A c \in Copies : flash'[c] = cpb']_vars

\* Once power stays up and the mailbox answers, a library that is closed opens and ends
\* with two equal good copies, or reports the table as corrupted: load_cpb repairs every
\* copy that an interrupted or failed write left behind.
Healed ==
    (stable /\ pc = "closed") ~>
        (pc = "idle" /\ (cpb_corrupted \/ (flash["CPB0"] = flash["CPB1"] /\ Good(cpb))))
--------------------------------------------------------------------------------
\* The boot order of a block: its pointers, in slot order.
BootOrder(s) ==
    [k \in 1..Rank(s, NSlots) |-> s[CHOOSE x \in Slots : InUse(s[x]) /\ Rank(s, x) = k]]

Boot == INSTANCE BootList WITH
            MaxLen <- NSlots,
            cand <- {BootOrder(s) : s \in cand},
            backup <- BootOrder(saved.slots),
            refused <- cpb_corrupted

\* The boot order is one list: every change of it is atomic and survives what interrupts it.
BootListSpec == Boot!Spec
================================================================================
