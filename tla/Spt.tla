---------------------------------- MODULE Spt ----------------------------------
(***************************************************************************)
(* The sub-partition table of uniLibRSU (libRSU_ops.c, libRSU.c): names    *)
(* and extents of the flash partitions, kept twice in flash (SPT0, SPT1)   *)
(* and once in memory (plat_database->spt), and the functions that rename, *)
(* create and delete slots. One action per flash operation.                *)
(*                                                                         *)
(* A table is the sequence of its slots. The entries SPT0, SPT1, CPB0,     *)
(* CPB1 and the factory image are in every table that was written whole:   *)
(* no function renames, deletes or shadows them. The version is one that   *)
(* has a checksum. The pointer block is the set of offsets it holds; its   *)
(* own copies and failures are the subject of Cpb.                         *)
(***************************************************************************)
EXTENDS Integers, Sequences, FiniteSets

CONSTANTS
    Names,       \* the names a slot may have
    NewNames,    \* the names the application asks for
    ReservedNames, \* reserved_names of libRSU_misc.c
    Extents,     \* the places it creates slots at: [offset, length]
    Tables,      \* the tables a programming file may hold
    Writable,    \* the windows of rsu_plat_zephyr.c, as extents
    MaxSlots,    \* SPT_MAX_PARTITIONS less the entries that are not slots
    First,       \* the copy that comes first in the table
    FaultKinds,  \* the low-level calls that may return an error
    Api          \* the library functions the application calls

Copies == {"SPT0", "SPT1"}
Other(c) == IF c = "SPT0" THEN "SPT1" ELSE "SPT0"
Second == Other(First)

Extent == [offset : Nat, length : Nat \ {0}]
Entry == [name : Names, offset : Nat, length : Nat \ {0}]

\* The array of entries has a fixed size.
Table == {t \in Seq(Entry) : Len(t) <= MaxSlots}
\* SPT_MAGIC_NUMBER, or anything else: erased, or damaged by a loss of power.
Magic == {"ok", "none"}
Block == [magic : Magic, sum : {"ok", "bad"}, tab : Table]
\* What lies under a magic number that is not there is never looked at.
Blank == [magic |-> "none", sum |-> "bad", tab |-> << >>]
NoCall == [fn |-> "none", tab |-> << >>, offset |-> 0]

VARIABLES
    flash,          \* the block each copy holds
    spt,            \* plat_database->spt
    spt_corrupted,  \* plat_database->spt_corrupted
    cpb_corrupted,  \* plat_database->cpb_corrupted
    boot,           \* the offsets that the pointer block in flash holds
    pc,             \* the step the library is in
    at,             \* the copy that step works on
    job,            \* who runs the erase/table/magic sequence
    call,           \* the function in progress: the table it asks for, the slot it deletes
    ret,            \* its result, so far
    saved,          \* the buffer rsu_save_spt_to_buf filled
    cand,           \* ghost: the tables a restart may come back with; {} = no promise,
                    \* from a failed erase or program to the next successful load
    stable          \* from here on power stays up and the mailbox answers

lib == <<spt_corrupted, cpb_corrupted>>
task == <<pc, at, job, call, ret>>
vars == <<flash, spt, lib, boot, task, saved, cand, stable>>
--------------------------------------------------------------------------------
\* What is in a table.

Overlap(e, f) == e.offset < f.offset + f.length /\ e.offset + e.length > f.offset
Offsets(t) == {t[x].offset : x \in DOMAIN t}
HasName(t, name) == \E x \in DOMAIN t : t[x].name = name

\* The entries check_spt accepts: not too many, no name twice, no two that overlap.
Sound(t) ==
    /\ Len(t) <= MaxSlots
    /\ \A x, y \in DOMAIN t :
         x # y => t[x].name # t[y].name /\ ~Overlap(t[x], t[y])

ASSUME SptAssumption ==
    /\ Extents \subseteq Extent /\ Writable \subseteq Extent
    /\ NewNames \subseteq Names \cup ReservedNames
    /\ Tables \subseteq {t \in Seq(Entry) : Sound(t)}
    /\ MaxSlots \in Nat
    /\ First \in Copies
    /\ FaultKinds \subseteq {"load", "program", "cpb"}
    /\ Api \subseteq {"rename", "create", "delete", "restore", "program"}

check_spt(b) == b.sum = "ok" /\ Sound(b.tab)

\* The conditions load_spt puts on a copy before it trusts it.
Good(b) == b.magic = "ok" /\ check_spt(b)

\* partition_delete moves the later entries down.
Without(t, n) == [x \in 1..(Len(t) - 1) |-> IF x < n THEN t[x] ELSE t[x + 1]]

\* rsu_plat_zephyr.c lets the library touch the slots' windows only.
may_write(e) ==
    \E w \in Writable : w.offset <= e.offset /\ e.offset + e.length <= w.offset + w.length
--------------------------------------------------------------------------------
\* Flash (external): what the step in progress leaves when it is cut short.

AtFlash == pc \in {"erase_part", "write_table", "write_magic"}

\* Mutant: the checksum is taken after the magic number has been overwritten.
SumTooLate == IF job = "restore" THEN spt.sum ELSE "bad"

\* writeback_spt takes the checksum over the block as it is in memory, magic included;
\* load_spt copies the one it read.
Checksum == IF job = "restore" THEN spt.sum
            ELSE IF spt.magic = "ok" THEN "ok" ELSE "bad"

Unmarked == [magic |-> "none", sum |-> Checksum, tab |-> spt.tab]
Marked == [spt EXCEPT !.magic = "ok"]

\* The CPU stops, power fails or a command is refused: the step is done or not, or the
\* copy has lost its magic number. The magic number itself is written last.
Cut == CASE pc = "erase_part"  -> {flash[at], Blank}
         [] pc = "write_table" -> {Blank}
         [] pc = "write_magic" -> {Blank, [flash[at] EXCEPT !.magic = "ok"]}

Writes(b) == flash' = [flash EXCEPT ![at] = b]
Fault(kind) == kind \in FaultKinds /\ ~stable
--------------------------------------------------------------------------------
\* How a call ends.

Ends == call' = NoCall /\ at' = First /\ job' = "writeback"
Done(r) == pc' = "idle" /\ ret' = r /\ Ends
Closes == pc' = "closed" /\ ret' = "err" /\ Ends
\* The memory of plat_database is gone.
Freed == spt' = Blank /\ spt_corrupted' = FALSE /\ cpb_corrupted' = FALSE

\* Both copies hold the table in memory.
Settled == IF cand = {} THEN {} ELSE {spt'.tab}

\* load_spt succeeded; rsu_qspi_open goes on to the pointer block.
LoadSucceeds ==
    /\ cand' = Settled
    /\ \/ /\ call.fn = "init"
          /\ pc' = "load_cpb"
          /\ UNCHANGED <<at, job, call, ret>>
       \/ call.fn # "init" /\ Done("ok")
    /\ UNCHANGED lib

\* load_spt failed without a verdict on the table.
LoadFails ==
    /\ \/ call.fn = "init" /\ Closes
       \/ call.fn # "init" /\ Done("err")
    /\ UNCHANGED lib

\* Mutant: rsu_qspi_open gives up on every error of load_spt.
OpenGivesUp ==
    /\ \/ call.fn = "init" /\ Closes
       \/ call.fn # "init" /\ Done("err")
    /\ UNCHANGED <<lib, cand>>

\* load_spt found no table to trust: the flag is set, rsu_qspi_open flags the pointer
\* block too, and the library stays open for a restore.
Refused ==
    /\ spt_corrupted' = TRUE
    /\ \/ call.fn = "init" /\ cpb_corrupted' = TRUE /\ Done("ok")
       \/ call.fn # "init" /\ UNCHANGED cpb_corrupted /\ Done("err")
    /\ UNCHANGED cand
--------------------------------------------------------------------------------
\* API calls. Each holds the library's mutex to its end.

rsu_qspi_open ==
    /\ pc = "closed"
    /\ call' = [NoCall EXCEPT !.fn = "init"]
    /\ pc' = "load_spt"
    /\ ret' = "ok"
    /\ Freed
    /\ UNCHANGED <<flash, boot, at, job, saved, cand, stable>>

librsu_exit ==
    /\ pc = "idle"
    /\ Closes /\ Freed
    /\ UNCHANGED <<flash, boot, saved, cand, stable>>

\* The table is changed in memory first, then written back.
Change(fn, b) ==
    /\ spt' = b
    /\ call' = [fn |-> fn, tab |-> b.tab, offset |-> call.offset]
    /\ ret' = "ok"
    /\ cand' = IF spt_corrupted \/ cand = {} THEN {} ELSE cand \cup {b.tab}
    /\ pc' = "erase_part" /\ at' = First /\ job' = "writeback"
    /\ UNCHANGED <<flash, lib, boot, saved, stable>>

\* librsu_misc_slot2part: slot numbers count the entries that are slots.
rsu_slot_rename(n, name) ==
    /\ "rename" \in Api
    /\ pc = "idle" /\ ~spt_corrupted
    /\ n \in DOMAIN spt.tab
    /\ name \notin ReservedNames
    /\ ~HasName(spt.tab, name)
    /\ Change("rename", [spt EXCEPT !.tab[n].name = name])

\* Mutant: nobody looks whether the new slot overlaps another.
CreateOverlaps(name, e) ==
    /\ "create" \in Api
    /\ pc = "idle" /\ ~spt_corrupted
    /\ name \notin ReservedNames /\ ~HasName(spt.tab, name)
    /\ Len(spt.tab) < MaxSlots
    /\ Change("create", [spt EXCEPT !.tab =
                           Append(@, [name |-> name, offset |-> e.offset, length |-> e.length])])

rsu_slot_create(name, e) ==
    /\ "create" \in Api
    /\ pc = "idle" /\ ~spt_corrupted
    /\ name \notin ReservedNames
    /\ ~HasName(spt.tab, name)
    /\ Len(spt.tab) < MaxSlots
    /\ \A x \in DOMAIN spt.tab : ~Overlap(spt.tab[x], e)
    /\ Change("create", [spt EXCEPT !.tab =
                           Append(@, [name |-> name, offset |-> e.offset, length |-> e.length])])

\* Mutant: the pointer to the slot stays.
DeleteKeepsPointer(n) ==
    /\ "delete" \in Api
    /\ pc = "idle" /\ ~spt_corrupted /\ ~cpb_corrupted
    /\ n \in DOMAIN spt.tab
    /\ call' = [fn |-> "delete", tab |-> Without(spt.tab, n), offset |-> spt.tab[n].offset]
    /\ pc' = "data_erase" /\ ret' = "ok"
    /\ UNCHANGED <<flash, spt, lib, boot, at, job, saved, cand, stable>>

rsu_slot_delete(n) ==
    /\ "delete" \in Api
    /\ pc = "idle" /\ ~spt_corrupted /\ ~cpb_corrupted
    /\ n \in DOMAIN spt.tab
    /\ call' = [fn |-> "delete", tab |-> Without(spt.tab, n), offset |-> spt.tab[n].offset]
    /\ pc' = "priority_remove" /\ ret' = "ok"
    /\ UNCHANGED <<flash, spt, lib, boot, at, job, saved, cand, stable>>

rsu_save_spt_to_buf ==
    /\ "restore" \in Api
    /\ pc = "idle" /\ ~spt_corrupted
    /\ saved' = flash["SPT0"]
    /\ UNCHANGED <<flash, spt, lib, boot, task, cand, stable>>

\* Not refused when the table is flagged as corrupted: this is the way out.
rsu_restore_spt_from_buf ==
    /\ "restore" \in Api
    /\ pc = "idle"
    /\ saved.magic = "ok"
    /\ Change("restore", saved)

\* The pointer to a slot is added last when it is programmed (see Cpb and RsuMgmt).
rsu_slot_program_buf(n) ==
    /\ "program" \in Api
    /\ pc = "idle" /\ ~spt_corrupted /\ ~cpb_corrupted
    /\ n \in DOMAIN spt.tab
    /\ may_write(spt.tab[n])
    /\ boot' = boot \cup {spt.tab[n].offset}
    /\ UNCHANGED <<flash, spt, lib, task, saved, cand, stable>>
--------------------------------------------------------------------------------
\* rsu_slot_delete: the pointer first, then the data, then the table.

priority_remove ==
    /\ pc = "priority_remove"
    /\ \/ /\ boot' = boot \ {call.offset}
          /\ pc' = "data_erase"
          /\ UNCHANGED <<lib, at, job, call, ret>>
       \/ /\ Fault("cpb")
          /\ boot' \in {boot, boot \ {call.offset}}
          /\ cpb_corrupted' \in BOOLEAN /\ UNCHANGED spt_corrupted
          /\ Done("err")
    /\ UNCHANGED <<flash, spt, saved, cand, stable>>

data_erase ==
    /\ pc = "data_erase"
    /\ \/ /\ \E x \in DOMAIN spt.tab :
               spt.tab[x].offset = call.offset /\ may_write(spt.tab[x])
          /\ Change("delete", [spt EXCEPT !.tab = call.tab])
       \/ /\ \/ Fault("program")
             \/ \E x \in DOMAIN spt.tab :
                  spt.tab[x].offset = call.offset /\ ~may_write(spt.tab[x])
          /\ Done("err")
          /\ UNCHANGED <<flash, spt, lib, boot, saved, cand, stable>>
--------------------------------------------------------------------------------
\* The erase/table/magic sequence of writeback_spt (both copies) and of load_spt (one).

\* Mutant: the callers of writeback_spt forget its result.
ErrorSwallowed ==
    /\ Fault("program")
    /\ cand' = {}
    /\ UNCHANGED lib
    /\ \E b \in Cut : Writes(b)
    /\ \/ job = "restore" /\ LoadFails
       \/ job = "writeback" /\ Done("ok")

\* An error inside it. The callers of writeback_spt do not load the table again.
SequenceFails ==
    /\ Fault("program")
    /\ cand' = {}
    /\ UNCHANGED lib
    /\ \E b \in Cut : Writes(b)
    /\ \/ job = "restore" /\ LoadFails
       \/ job = "writeback" /\ Done("err")

erase_part ==
    /\ pc = "erase_part"
    /\ \/ /\ Writes(Blank)
          /\ pc' = "write_table"
          /\ UNCHANGED <<lib, at, job, call, ret, cand>>
       \/ SequenceFails
    /\ UNCHANGED <<spt, boot, saved, stable>>

\* The checksum, and the table with an erased magic number. There may be no memory to
\* compute the checksum in.
write_table ==
    /\ pc = "write_table"
    /\ \/ /\ Writes(Unmarked)
          /\ spt' = Unmarked
          /\ pc' = "write_magic"
          /\ UNCHANGED <<lib, at, job, call, ret, cand>>
       \/ spt' = Unmarked /\ SequenceFails
       \/ /\ job = "writeback" /\ Fault("program")
          /\ Done("err") /\ cand' = {}
          /\ UNCHANGED <<flash, spt, lib>>
    /\ UNCHANGED <<boot, saved, stable>>

\* The magic number makes the copy count; the sequence goes on to the next copy or ends.
write_magic ==
    /\ pc = "write_magic"
    /\ spt' = Marked
    /\ \/ /\ Writes([flash[at] EXCEPT !.magic = "ok"])
          /\ \/ /\ job = "restore"
                /\ LoadSucceeds
             \/ /\ job = "writeback" /\ at = First
                /\ at' = Second /\ pc' = "erase_part"
                /\ UNCHANGED <<lib, job, call, ret, cand>>
             \/ /\ job = "writeback" /\ at = Second /\ call.fn # "restore"
                /\ pc' = "load_spt"
                /\ UNCHANGED <<lib, at, job, call, ret, cand>>
             \/ /\ job = "writeback" /\ at = Second /\ call.fn = "restore"
                /\ spt_corrupted' = FALSE /\ cpb_corrupted' = FALSE
                /\ cand' = Settled
                /\ pc' = "load_cpb"
                /\ UNCHANGED <<at, job, call, ret>>
       \/ SequenceFails
    /\ UNCHANGED <<boot, saved, stable>>
--------------------------------------------------------------------------------
\* load_spt: which copies pass, and what is done about the one that does not.

\* m: for which copies check_spt finds the memory it needs.
Passes(c, m) == m[c] /\ Good(flash[c])

\* Mutant: the two good copies are not compared.
NotCompared(again) == again

\* check_both_spt: both copies can be read again and hold the same bytes.
check_both_spt(again) == again /\ flash["SPT0"] = flash["SPT1"]

LoadReads(m, again) ==
    \/ /\ Passes("SPT0", m) /\ Passes("SPT1", m)
       /\ spt' = flash["SPT0"]
       /\ \/ check_both_spt(again) /\ LoadSucceeds
          \/ ~check_both_spt(again) /\ Refused
    \/ \E c \in Copies :
         /\ Passes(c, m) /\ ~Passes(Other(c), m)
         /\ \/ /\ c = "SPT0" \/ again
               /\ spt' = flash[c]
               /\ pc' = "erase_part" /\ job' = "restore"
               /\ at' = Other(c)
               /\ UNCHANGED <<lib, call, ret, cand>>
            \/ /\ c = "SPT1" /\ ~again
               /\ spt' \in {flash["SPT0"], flash["SPT1"]}
               /\ LoadFails /\ UNCHANGED cand
    \/ /\ \A c \in Copies : ~Passes(c, m)
       /\ spt' = flash["SPT0"]
       /\ Refused

AllMemory == [c \in Copies |-> TRUE]

load_spt ==
    /\ pc = "load_spt"
    /\ \/ LoadReads(AllMemory, TRUE)
       \/ /\ Fault("load")
          /\ \/ spt' \in {spt, flash["SPT0"], flash["SPT1"]} /\ LoadFails /\ UNCHANGED cand
             \/ \E m \in [Copies -> BOOLEAN], again \in BOOLEAN : LoadReads(m, again)
    /\ UNCHANGED <<flash, boot, saved, stable>>

\* load_cpb accepts a pointer block only if every pointer is the offset of a slot.
load_cpb ==
    /\ pc = "load_cpb"
    /\ \/ /\ cpb_corrupted' = (~ boot \subseteq Offsets(spt.tab))
          /\ Done("ok")
          /\ cand' = IF cpb_corrupted' THEN cand ELSE {spt.tab}
       \/ /\ Fault("cpb")
          /\ UNCHANGED cand
          /\ \/ cpb_corrupted' = TRUE /\ Done("ok")
             \/ call.fn = "init" /\ Closes /\ UNCHANGED cpb_corrupted
             \/ call.fn = "restore" /\ Done("ok") /\ UNCHANGED cpb_corrupted
    /\ UNCHANGED <<flash, spt, spt_corrupted, boot, saved, stable>>
--------------------------------------------------------------------------------
\* Power loss and CPU reset, at any step.

Restart ==
    /\ ~stable
    /\ pc # "closed"
    /\ Closes /\ Freed
    /\ \/ pc = "priority_remove" /\ boot' \in {boot, boot \ {call.offset}}
       \/ pc # "priority_remove" /\ UNCHANGED boot
    /\ \/ AtFlash /\ \E b \in Cut : Writes(b)
       \/ ~AtFlash /\ UNCHANGED flash
    /\ UNCHANGED <<saved, cand, stable>>

Stabilise ==
    /\ ~stable
    /\ stable' = TRUE
    /\ UNCHANGED <<flash, spt, lib, boot, task, saved, cand>>
--------------------------------------------------------------------------------
\* A programming file's table, and a boot order that fits it.
Init ==
    /\ \E t \in Tables :
         /\ flash = [c \in Copies |-> [magic |-> "ok", sum |-> "ok", tab |-> t]]
         /\ cand = {t}
         /\ boot \in SUBSET Offsets(t)
    /\ spt = Blank /\ saved = Blank
    /\ spt_corrupted = FALSE /\ cpb_corrupted = FALSE
    /\ pc = "closed" /\ at = First /\ job = "writeback"
    /\ call = NoCall /\ ret = "ok"
    /\ stable = FALSE

Calls ==
    \/ \E n \in 1..MaxSlots, name \in NewNames : rsu_slot_rename(n, name)
    \/ \E name \in NewNames, e \in Extents : rsu_slot_create(name, e)
    \/ \E n \in 1..MaxSlots : rsu_slot_delete(n) \/ rsu_slot_program_buf(n)
    \/ rsu_save_spt_to_buf
    \/ rsu_restore_spt_from_buf
    \/ librsu_exit

Steps == \/ priority_remove \/ data_erase
         \/ erase_part \/ write_table \/ write_magic
         \/ load_spt \/ load_cpb

Next == rsu_qspi_open \/ Calls \/ Steps \/ Restart

Spec == Init /\ [][Next]_vars

\* The code runs on: a call in progress reaches its end, and the application opens the
\* library. Power may, but need not, become stable.
FairSpec == Init /\ [][Next \/ Stabilise]_vars /\ WF_vars(Steps) /\ WF_vars(rsu_qspi_open)
--------------------------------------------------------------------------------
Fns == {"none", "init", "rename", "create", "delete", "restore"}
Pcs == {"closed", "idle", "load_spt", "load_cpb", "priority_remove", "data_erase",
        "erase_part", "write_table", "write_magic"}

\* Every variable holds a value of its kind.
TypeOK ==
    /\ flash \in [Copies -> Block]
    /\ spt \in Block /\ saved \in Block
    /\ spt_corrupted \in BOOLEAN /\ cpb_corrupted \in BOOLEAN /\ stable \in BOOLEAN
    /\ boot \in SUBSET Nat
    /\ pc \in Pcs /\ at \in Copies /\ job \in {"writeback", "restore"}
    /\ call \in [fn : Fns, tab : Table, offset : Nat]
    /\ ret \in {"ok", "err"}
    /\ cand \in SUBSET Table

\* Whatever step power fails in, one copy passes load_spt's checks and holds the table
\* from before or after the interrupted call: writeback_spt and load_spt erase one copy
\* while the other is good, and write the magic number last. A call after one in which an
\* erase or program failed has no such promise: it may erase the only good copy.
Anchored == cand # {} => \E c \in Copies : Good(flash[c]) /\ flash[c].tab \in cand

\* Between calls the table in memory and both copies are the same good table, or the
\* library refuses to work on it: slot numbers and extents are those that flash holds.
InSync == (pc = "idle" /\ ~spt_corrupted /\ cand # {}) =>
             Good(spt) /\ \A c \in Copies : flash[c] = spt

\* Every pointer of the boot order is the offset of a slot in every table a restart may
\* find, so load_cpb accepts the pointer block after it: rsu_slot_delete removes the
\* pointer before the table loses the slot. Only a backup that the application restores
\* may be older than the boot order.
BootKnown ==
    cand # {} /\ saved.magic # "ok" =>
        \A c \in Copies : Good(flash[c]) => boot \subseteq Offsets(flash[c].tab)

\* No failure and no sequence of calls makes the library write a table that its own
\* check_spt refuses: partition_create and partition_rename work on a table in memory
\* that an earlier, failed call may have changed.
NeverWritesUnsound == \A c \in Copies : flash[c].magic = "ok" => Sound(flash[c].tab)

\* A rename, create, delete or restore that reports success left the table it was asked
\* for in memory and in both copies, whatever failed before and during it; a deleted slot
\* has no pointer.
Durable ==
    [][call.fn \in {"rename", "create", "delete", "restore"} /\ pc' = "idle" /\ ret' = "ok"
         => /\ spt'.tab = call.tab
            /\ \A c \in Copies : Good(flash'[c]) /\ flash'[c].tab = call.tab
            /\ call.fn = "delete" => call.offset \notin boot']_vars

\* Once power stays up and the mailbox answers, a library that is closed opens, and ends
\* with two equal good copies or reports the table as corrupted.
Healed ==
    (stable /\ pc = "closed") ~>
        (pc = "idle" /\ (spt_corrupted \/ (flash["SPT0"] = flash["SPT1"] /\ Good(spt))))
================================================================================
