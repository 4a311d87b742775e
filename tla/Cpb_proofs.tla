------------------------------- MODULE Cpb_proofs -------------------------------
(***************************************************************************)
(* Proofs about Cpb for every number of slots, every set of partitions and *)
(* either order of the copies. The types and CpbOpened hold with every     *)
(* fault. The others need that the only low-level call that may fail is    *)
(* the status command and that the unchecked rsu_slot_program_callback is  *)
(* not used: TLC finds CpbAnchored's property violated when a read or a    *)
(* program command may fail, and with the callback. The last two parts     *)
(* prove that no partition is in the boot order twice, and that the        *)
(* pointer block implements BootList.                                      *)
(***************************************************************************)
EXTENDS Cpb, Sequences, FiniteSetTheorems, TLAPS

StatusFaultsOnly == FaultKinds \subseteq {"status"} /\ "program_callback" \notin Api

Sequence == {"erase_part", "write_table", "write_magic"}

\* Between calls, before a call touches the flash, and when it is read again.
SyncInv ==
    (pc \in {"idle", "priority_add", "priority_remove"} \/ (pc = "load_cpb" /\ call.fn # "init"))
    /\ ~cpb_corrupted
        => /\ Good(cpb) /\ cpb.slots \in cand
           /\ flash["CPB0"] = cpb /\ flash["CPB1"] = cpb

\* While update_cpb programs: the second copy still has the old block, and the new one
\* differs from it in one slot, where it only clears bits.
UpdateInv ==
    pc = "update_cpb" =>
        /\ ~cpb_corrupted
        /\ Good(cpb) /\ cpb.slots \in cand
        /\ Good(flash[Second]) /\ flash[Second].slots \in cand
        /\ \A x \in Slots : cpb.slots[x] \subseteq flash[Second].slots[x]
        /\ \E z \in Slots : \A x \in Slots \ {z} : cpb.slots[x] = flash[Second].slots[x]
        /\ flash[First] = IF at = First THEN flash[Second] ELSE cpb

\* While a copy is erased and rewritten the other one is good; only the replacement of a
\* table reported as corrupted (cand = {}) starts without that.
SeqInv ==
    pc \in Sequence =>
        /\ check_cpb(cpb)
        /\ cand # {} => cpb.slots \in cand
        /\ job = "restore" \/ at = Second => flash[Other(at)] = Marked
        /\ job = "writeback" /\ at = First /\ cand # {} =>
               Good(flash[Second]) /\ flash[Second].slots \in cand
        /\ pc = "write_table" => flash[at] = Blank
        /\ pc = "write_magic" => flash[at] = Unmarked
        /\ job = "writeback" => call.fn \in {"add", "empty", "restore"}
        /\ job = "writeback" /\ call.fn = "add" => cand # {}

\* The flag is only up between calls, or while the table is replaced.
FlagInv ==
    cpb_corrupted => \/ pc \in {"idle", "closed"}
                     \/ pc \in Sequence /\ job = "writeback" /\ call.fn = "empty"

\* CPB0 is left out only while CPB1 cannot mislead load_cpb.
FwInv ==
    fw = "CPB0_CORRUPTED" /\ cand # {} /\ Good(flash["CPB1"]) => flash["CPB1"].slots \in cand

CallInv ==
    /\ call.fn \in {"add", "remove", "enable"} => call.part \in Parts
    /\ pc = "priority_add" => call.fn = "add"
    /\ pc = "priority_remove" => call.fn \in {"remove", "enable"}
    /\ pc = "update_cpb" => call.fn \in {"add", "remove", "enable"}
    /\ pc = "idle" => call.fn = "none"
    /\ pc = "load_cpb" => call.fn \in {"init", "add", "remove", "enable"}
    /\ pc # "idle" /\ pc # "closed" => ret = "ok"
    /\ saved.magic = "ok" => check_cpb(saved)

IInv == TypeOK /\ SyncInv /\ UpdateInv /\ SeqInv /\ FlagInv /\ FwInv /\ CallInv /\ Anchored
--------------------------------------------------------------------------------
\* The building blocks keep their types.

\* Blank is a block.
LEMMA BlankType == Blank \in Block /\ Blank.magic = "erased" /\ Blank.slots \in [Slots -> Entry]
  BY DEF Blank, Block, Magic, Entry, ERASED_ENTRY

\* A second copy exists for each copy.
LEMMA OtherType ==
  ASSUME NEW c \in Copies
  PROVE  Other(c) \in Copies /\ Other(c) # c /\ Other(Other(c)) = c
  BY DEF Other, Copies

\* First and Second are the two copies.
LEMMA Order == First \in Copies /\ Second \in Copies /\ First # Second /\ Copies = {First, Second}
                 /\ Other(First) = Second /\ Other(Second) = First
  BY CpbAssumption, OtherType DEF Second, Copies, Other

\* Programming a block over a block gives a block.
LEMMA ProgrammedType ==
  ASSUME NEW b \in Block, NEW n \in Block
  PROVE  Programmed(b, n) \in Block
  BY DEF Programmed, Block, Magic, AndMagic, Entry

\* Cut short or torn, an operation on the flash leaves a block.
LEMMA TornType ==
  ASSUME TypeOK
  PROVE  Torn \subseteq Block /\ Cut \subseteq Block
  <1>1. flash[at] \in Block /\ Blank \in Block
    BY BlankType DEF TypeOK
  <1>2. [magic |-> "bad", slots |-> Blank.slots] \in Block
    BY BlankType DEF Block, Magic
  <1> QED
    BY <1>1, <1>2 DEF Torn, Cut, TornErase, TornProgram, CutProgram

\* Compressing a block leaves slots that are pointers or erased.
LEMMA CompressedType ==
  ASSUME NEW s \in [Slots -> Entry], NEW p \in Entry
  PROVE  /\ Compressed(s, p) \in [Slots -> Entry]
         /\ p \in Parts /\ (\A x \in Slots : s[x] \in Parts \cup {ERASED_ENTRY, SPENT_ENTRY})
              => \A x \in Slots : Compressed(s, p)[x] \in Parts \cup {ERASED_ENTRY, SPENT_ENTRY}
  <1> DEFINE n == Rank(s, NSlots)
             Holds(k, x) == InUse(s[x]) /\ Rank(s, x) = k
             f == [k \in Slots |->
                     IF k <= n /\ \E x \in Slots : Holds(k, x)
                     THEN s[CHOOSE x \in Slots : Holds(k, x)]
                     ELSE IF k = n + 1 THEN p ELSE ERASED_ENTRY]
  <1>1. Compressed(s, p) = f
    BY DEF Compressed
  <1>2. ASSUME NEW k \in Slots, \E x \in Slots : Holds(k, x)
        PROVE  (CHOOSE x \in Slots : Holds(k, x)) \in Slots
    BY <1>2
  <1> HIDE DEF Holds, n
  <1>3. p \in Entry /\ ERASED_ENTRY \in Entry
    BY CpbAssumption DEF Entry, ERASED_ENTRY
  <1>4. \A k \in Slots : f[k] \in Entry
    BY <1>2, <1>3
  <1>5. f \in [Slots -> Entry]
    BY <1>4
  <1>6. p \in Parts /\ (\A x \in Slots : s[x] \in Parts \cup {ERASED_ENTRY, SPENT_ENTRY})
          => \A k \in Slots : f[k] \in Parts \cup {ERASED_ENTRY, SPENT_ENTRY}
    BY <1>2
  <1> QED
    BY <1>1, <1>5, <1>6
--------------------------------------------------------------------------------
\* Type correctness.

\* Every step keeps the type invariant.
LEMMA TypeStep ==
  ASSUME TypeOK, [Next]_vars
  PROVE  TypeOK'
  <1> USE DEF Fns, Pcs
  <1>a. Parts \subseteq Entry /\ ERASED_ENTRY \in Entry /\ SPENT_ENTRY \in Entry
    BY CpbAssumption DEF Entry, ERASED_ENTRY, SPENT_ENTRY
  <1>b. cpb.slots \in [Slots -> Entry] /\ cpb.magic \in Magic /\ saved.slots \in [Slots -> Entry]
    BY DEF TypeOK, Block
  <1>c. Marked \in Block /\ Unmarked \in Block /\ MagicOnly \in Block
    BY <1>b, BlankType DEF Marked, Unmarked, MagicOnly, Block, Magic, TypeOK
  <1>1. CASE rsu_qspi_open
    BY <1>1 DEF rsu_qspi_open, TypeOK
  <1>2. CASE Calls
    <2>1. ASSUME NEW p \in Parts,
                 rsu_slot_program_buf(p) \/ rsu_slot_program_callback(p)
                   \/ rsu_slot_disable(p) \/ rsu_slot_enable(p)
          PROVE  TypeOK'
      BY <2>1 DEF rsu_slot_program_buf, rsu_slot_program_callback, rsu_slot_disable,
                  rsu_slot_enable, Call, TypeOK, lib
    <2>2. ASSUME NEW fn \in {"empty", "restore"}, NEW s \in [Slots -> Entry], Replace(fn, s)
          PROVE  TypeOK'
      <3>1. cpb' \in Block
        BY <2>2 DEF Replace, Block, Magic
      <3> QED
        BY <2>2, <3>1, Order DEF Replace, TypeOK, lib
    <2>3. CASE rsu_create_empty_cpb
      BY <2>2, <2>3, BlankType DEF rsu_create_empty_cpb
    <2>4. CASE rsu_restore_cpb_from_buf
      BY <2>2, <2>4, <1>b DEF rsu_restore_cpb_from_buf
    <2>5. CASE rsu_save_cpb_to_buf
      BY <2>5 DEF rsu_save_cpb_to_buf, TypeOK, lib, task, Copies
    <2> QED
      BY <1>2, <2>1, <2>3, <2>4, <2>5 DEF Calls
  <1>3. CASE priority_add
    <2>1. ASSUME NEW s \in [Slots -> Entry], cpb' = [cpb EXCEPT !.slots = s]
          PROVE  cpb' \in Block /\ cpb'.slots = s
      BY <2>1, <1>b DEF Block, TypeOK
    <2>2. call.part \in Entry
      BY <1>a DEF TypeOK, Entry
    <2>3. ASSUME NEW x \in Slots, cpb' = [cpb EXCEPT !.slots[x] = call.part]
          PROVE  cpb' \in Block /\ cpb'.slots \in [Slots -> Entry]
      BY <2>2, <2>3, <1>b DEF Block, TypeOK
    <2>4. Compressed(cpb.slots, call.part) \in [Slots -> Entry]
      BY <2>2, <1>b, CompressedType
    <2> QED
      BY <1>3, <2>1, <2>3, <2>4, Order DEF priority_add, Done, NoCall, TypeOK, lib
  <1>4. CASE priority_remove
    <2>1. ASSUME NEW x \in Slots, cpb' = [cpb EXCEPT !.slots[x] = SPENT_ENTRY]
          PROVE  cpb' \in Block /\ cpb'.slots \in [Slots -> Entry]
      BY <2>1, <1>a, <1>b DEF Block, TypeOK
    <2> QED
      BY <1>4, <2>1, Order DEF priority_remove, TypeOK, lib
  <1>d. flash[at] \in Block
    BY DEF TypeOK
  <1>e. ASSUME NEW b \in Block, Writes(b)
        PROVE  flash' \in [Copies -> Block]
    BY <1>e DEF Writes, TypeOK
  <1>f. ASSUME Done("ok") \/ Done("err") \/ Done(ret)
        PROVE  pc' \in Pcs /\ at' \in Copies /\ job' \in {"writeback", "restore"}
                /\ call' \in [fn : Fns, part : Parts \cup {{}}] /\ ret' \in {"ok", "err"}
    BY <1>f DEF Done, NoCall, TypeOK
  <1>g. ASSUME LoadSucceeds \/ LoadFails, cpb' \in Block
        PROVE  /\ pc' \in Pcs /\ at' \in Copies /\ job' \in {"writeback", "restore"}
               /\ call' \in [fn : Fns, part : Parts \cup {{}}] /\ ret' \in {"ok", "err"}
               /\ cand' \in SUBSET [Slots -> Entry]
    <2>1. cpb'.slots \in [Slots -> Entry]
      BY <1>g DEF Block
    <2>2. CASE LoadSucceeds
      BY <2>1, <2>2, <1>f DEF LoadSucceeds, TypeOK
    <2>3. CASE LoadFails
      BY <2>3, <1>f DEF LoadFails, NoCall, TypeOK
    <2> QED
      BY <1>g, <2>2, <2>3
  <1>5. CASE update_cpb
    <2>1. flash' \in [Copies -> Block]
      BY <1>5, <1>d, <1>e, ProgrammedType, TornType DEF update_cpb, TypeOK
    <2> QED
      BY <1>5, <2>1, Order DEF update_cpb, TypeOK, lib
  <1>h. ASSUME SequenceFails, cpb' \in Block
        PROVE  /\ flash' \in [Copies -> Block]
               /\ pc' \in Pcs /\ at' \in Copies /\ job' \in {"writeback", "restore"}
               /\ call' \in [fn : Fns, part : Parts \cup {{}}] /\ ret' \in {"ok", "err"}
               /\ cand' \in SUBSET [Slots -> Entry]
               /\ UNCHANGED lib
    <2>1. flash' \in [Copies -> Block]
      BY <1>h, <1>e, TornType DEF SequenceFails
    <2> QED
      BY <1>h, <2>1, <1>f, <1>g DEF SequenceFails, TypeOK
  <1>6. CASE erase_part
    <2>1. CASE SequenceFails
      BY <1>6, <2>1, <1>h DEF erase_part, TypeOK, lib
    <2>2. CASE Writes(Blank) /\ pc' = "write_table" /\ UNCHANGED <<lib, at, job, call, ret, cand>>
      BY <1>6, <2>2, <1>e, BlankType DEF erase_part, TypeOK, lib
    <2> QED
      BY <1>6, <2>1, <2>2 DEF erase_part
  <1>7. CASE write_table
    <2>0. cpb' \in Block
      BY <1>7, <1>c DEF write_table
    <2>1. CASE SequenceFails
      BY <1>7, <2>0, <2>1, <1>h DEF write_table, TypeOK, lib
    <2>2. CASE Writes(Programmed(flash[at], Unmarked)) /\ pc' = "write_magic"
                 /\ UNCHANGED <<lib, at, job, call, ret, cand>>
      BY <1>7, <2>0, <2>2, <1>c, <1>d, <1>e, ProgrammedType DEF write_table, TypeOK, lib
    <2> QED
      BY <1>7, <2>1, <2>2 DEF write_table
  <1>8. CASE write_magic
    <2>0. cpb' \in Block /\ cpb'.slots \in [Slots -> Entry]
      BY <1>8, <1>c DEF write_magic, Block
    <2>1. CASE SequenceFails
      BY <1>8, <2>0, <2>1, <1>h DEF write_magic, TypeOK, lib
    <2>2. CASE Writes(Programmed(flash[at], MagicOnly)) /\ ~SequenceFails
      <3>1. flash' \in [Copies -> Block]
        BY <2>2, <1>c, <1>d, <1>e, ProgrammedType
      <3>2. CASE job = "restore"
        BY <1>8, <2>0, <2>2, <3>1, <3>2, <1>g DEF write_magic, TypeOK, lib
      <3>3. CASE job # "restore"
        BY <1>8, <2>0, <2>2, <3>1, <3>3, <1>f, Order DEF write_magic, TypeOK, lib
      <3> QED
        BY <3>2, <3>3
    <2> QED
      BY <1>8, <2>1, <2>2 DEF write_magic
  <1>9. CASE load_cpb
    <2>1. LeftInBuffer \subseteq Block
      BY DEF LeftInBuffer, TypeOK, Copies
    <2>2. ASSUME NEW r, NEW again, LoadReads(r, again)
          PROVE  /\ cpb' \in Block /\ cpb_corrupted' \in BOOLEAN /\ cpb_fixed' \in BOOLEAN
                 /\ pc' \in Pcs /\ at' \in Copies /\ job' \in {"writeback", "restore"}
                 /\ call' \in [fn : Fns, part : Parts \cup {{}}] /\ ret' \in {"ok", "err"}
                 /\ cand' \in SUBSET [Slots -> Entry]
      <3>1. cpb' \in Block /\ cpb_corrupted' \in BOOLEAN /\ cpb_fixed' \in BOOLEAN
        BY <2>1, <2>2 DEF LoadReads, TypeOK, Copies, lib
      <3> QED
        BY <2>2, <3>1, <1>g, OtherType DEF LoadReads, TypeOK
    <2>3. CASE \E r, again : LoadReads(r, again)
      BY <1>9, <2>2, <2>3 DEF load_cpb, TypeOK
    <2>4. CASE LoadFails /\ cpb' = cpb /\ cpb_corrupted' \in BOOLEAN /\ cpb_fixed' \in BOOLEAN
      BY <1>9, <2>4, <1>g DEF load_cpb, TypeOK
    <2> QED
      BY <1>9, <2>3, <2>4 DEF load_cpb, TypeOK, lib
  <1>10. CASE PowerLoss \/ CpuReset
    <2>1. flash' \in [Copies -> Block]
      BY <1>10, <1>e, TornType DEF PowerLoss, CpuReset, TypeOK
    <2> QED
      BY <1>10, <2>1 DEF PowerLoss, CpuReset, Stops, NoCall, FwSees, TypeOK, lib
  <1>11. CASE UNCHANGED vars
    BY <1>11 DEF vars, lib, task, TypeOK
  <1> QED
    BY <1>1, <1>2, <1>3, <1>4, <1>5, <1>6, <1>7, <1>8, <1>9, <1>10, <1>11 DEF Next, Steps

\* The initial state is well typed.
LEMMA TypeInit == Init => TypeOK
  <1> SUFFICES ASSUME Init PROVE TypeOK
    OBVIOUS
  <1>1. PICK s \in [Slots -> Parts \cup {ERASED_ENTRY}] :
           flash = [c \in Copies |-> [magic |-> "ok", slots |-> s]] /\ cand = {s}
    BY DEF Init
  <1>2. s \in [Slots -> Entry]
    BY CpbAssumption DEF Entry, ERASED_ENTRY
  <1> QED
    BY <1>1, <1>2, BlankType, CpbAssumption DEF Init, TypeOK, Block, Magic, NoCall, Fns, Pcs

\* Every variable of the library, the flash and the ghost keeps its type.
THEOREM CpbTypeCorrect == Spec => []TypeOK
  BY TypeInit, TypeStep, PTL DEF Spec
--------------------------------------------------------------------------------
\* What the flash operations of the library leave behind.

\* A block that only clears bits replaces the one under it.
LEMMA OverlayIs ==
  ASSUME NEW b \in Block, NEW n \in Block, b.magic = n.magic,
         \A x \in Slots : n.slots[x] \subseteq b.slots[x]
  PROVE  Programmed(b, n) = n
  <1>1. [x \in Slots |-> b.slots[x] \cap n.slots[x]] = n.slots
    <2>1. n.slots \in [Slots -> Entry]
      BY DEF Block
    <2>2. \A x \in Slots : b.slots[x] \cap n.slots[x] = n.slots[x]
      OBVIOUS
    <2> QED
      BY <2>1, <2>2
  <1>2. n = [magic |-> n.magic, slots |-> n.slots]
    BY DEF Block
  <1> QED
    BY <1>1, <1>2 DEF Programmed, AndMagic

\* The table goes onto an erased copy as it is.
LEMMA TableIs ==
  ASSUME cpb \in Block
  PROVE  Programmed(Blank, Unmarked) = Unmarked
  <1>1. Unmarked \in Block /\ Unmarked.magic = Blank.magic /\ Blank \in Block
    BY BlankType DEF Unmarked, Block, Magic
  <1>2. \A x \in Slots : Unmarked.slots[x] \subseteq Blank.slots[x]
    BY <1>1 DEF Blank, Block, Entry, ERASED_ENTRY
  <1> QED
    BY <1>1, <1>2, OverlayIs

\* The magic number makes the table a complete block.
LEMMA MagicIs ==
  ASSUME cpb \in Block
  PROVE  Programmed(Unmarked, MagicOnly) = Marked
  <1>1. cpb.slots \in [Slots -> Entry]
    BY DEF Block
  <1>2. Unmarked.slots = cpb.slots /\ Unmarked.magic = "erased" /\ MagicOnly.magic = "ok"
        /\ MagicOnly.slots = Blank.slots
    BY DEF Unmarked, MagicOnly, Block
  <1>3. \A x \in Slots : cpb.slots[x] \cap Blank.slots[x] = cpb.slots[x]
    BY <1>1 DEF Blank, Entry, ERASED_ENTRY
  <1>4. [x \in Slots |-> Unmarked.slots[x] \cap MagicOnly.slots[x]] = cpb.slots
    BY <1>1, <1>2, <1>3
  <1>5. Marked = [magic |-> "ok", slots |-> cpb.slots]
    BY DEF Marked, Block
  <1> QED
    BY <1>2, <1>4, <1>5 DEF Programmed, AndMagic

\* The fields of the two forms of the block in memory.
LEMMA Forms ==
  ASSUME cpb \in Block
  PROVE  /\ Marked.slots = cpb.slots /\ Marked.magic = "ok" /\ Marked \in Block
         /\ Unmarked.slots = cpb.slots /\ Unmarked.magic = "erased" /\ Unmarked \in Block
         /\ cpb.magic = "ok" => Marked = cpb
         /\ check_cpb(cpb) => Good(Marked)
         /\ ~Good(Unmarked) /\ ~Good(Blank)
  BY BlankType DEF Marked, Unmarked, Block, Good, check_cpb, Magic
--------------------------------------------------------------------------------
\* The inductive invariant.

\* It holds at the start.
LEMMA IInit == Init => IInv
  <1> SUFFICES ASSUME Init PROVE IInv
    OBVIOUS
  <1>1. PICK s \in [Slots -> Parts \cup {ERASED_ENTRY}] :
           flash = [c \in Copies |-> [magic |-> "ok", slots |-> s]] /\ cand = {s}
    BY DEF Init
  <1>2. TypeOK
    BY TypeInit
  <1>3. \A c \in Copies : Good(flash[c]) /\ flash[c].slots \in cand
    BY <1>1 DEF Good, check_cpb
  <1>4. SyncInv /\ UpdateInv /\ SeqInv /\ FlagInv /\ FwInv
    BY DEF Init, SyncInv, UpdateInv, SeqInv, Sequence, FlagInv, FwInv
  <1>5. CallInv
    BY BlankType DEF Init, CallInv, NoCall
  <1> QED
    BY <1>2, <1>3, <1>4, <1>5, Order DEF IInv, Anchored

\* The steps of the calls before the flash is touched.
LEMMA CallStep ==
  ASSUME StatusFaultsOnly, IInv, TypeOK', rsu_qspi_open \/ Calls
  PROVE  IInv'
  <1> USE DEF IInv
  <1>1. CASE rsu_qspi_open
    <2>1. SyncInv' /\ UpdateInv' /\ SeqInv' /\ FlagInv'
      BY <1>1 DEF rsu_qspi_open, SyncInv, UpdateInv, SeqInv, Sequence, FlagInv
    <2>2. FwInv' /\ CallInv' /\ Anchored'
      BY <1>1 DEF rsu_qspi_open, FwInv, CallInv, Anchored, Good, check_cpb
    <2> QED
      BY <2>1, <2>2
  <1>2. ASSUME NEW p \in Parts,
               rsu_slot_program_buf(p) \/ rsu_slot_disable(p) \/ rsu_slot_enable(p)
        PROVE  IInv'
    <2>1. /\ pc = "idle" /\ ~cpb_corrupted
          /\ pc' \in {"priority_add", "priority_remove"}
          /\ pc' = "priority_add" <=> call'.fn = "add"
          /\ call'.fn \in {"add", "remove", "enable"} /\ call'.part = p /\ ret' = "ok"
          /\ UNCHANGED <<flash, cpb, lib, fw, at, job, saved, cand, stable>>
      BY <1>2 DEF rsu_slot_program_buf, rsu_slot_disable, rsu_slot_enable, Call
    <2>2. SyncInv' /\ UpdateInv' /\ SeqInv' /\ FlagInv'
      BY <2>1 DEF lib, SyncInv, UpdateInv, SeqInv, Sequence, FlagInv, Good, check_cpb
    <2>3. FwInv' /\ CallInv' /\ Anchored'
      BY <2>1 DEF FwInv, CallInv, Anchored, Good, check_cpb
    <2> QED
      BY <2>2, <2>3
  <1>3. ASSUME NEW fn \in {"empty", "restore"}, NEW s \in [Slots -> Entry], Replace(fn, s),
               \A x \in Slots : s[x] \in Parts \cup {ERASED_ENTRY, SPENT_ENTRY},
               cpb_corrupted => fn = "empty"
        PROVE  IInv'
    <2>1. /\ pc = "idle" /\ call' = [fn |-> fn, part |-> {}] /\ ret' = "ok"
          /\ cpb' = [magic |-> "ok", slots |-> s]
          /\ cand' = IF cpb_corrupted THEN {} ELSE cand \cup {s}
          /\ pc' = "erase_part" /\ at' = First /\ job' = "writeback"
          /\ UNCHANGED <<flash, cpb_corrupted, cpb_fixed, fw, saved, stable>>
      BY <1>3 DEF Replace, lib
    <2>2. cpb'.slots = s /\ check_cpb(cpb')
      BY <2>1, <1>3 DEF check_cpb
    <2>3. SyncInv' /\ UpdateInv' /\ FlagInv' /\ CallInv'
      BY <1>3, <2>1 DEF SyncInv, UpdateInv, Sequence, FlagInv, CallInv, check_cpb
    <2>4. ~cpb_corrupted => \A c \in Copies : Good(flash[c]) /\ flash[c].slots \in cand
      BY <2>1 DEF SyncInv, Copies
    <2>5. SeqInv'
      BY <2>1, <2>2, <2>4, Order DEF SeqInv, Sequence, check_cpb, Good
    <2>6. FwInv' /\ Anchored'
      BY <2>1, <2>4 DEF FwInv, Anchored, Good, check_cpb, Copies
    <2> QED
      BY <2>3, <2>5, <2>6
  <1>4. CASE rsu_create_empty_cpb
    BY <1>3, <1>4, BlankType DEF rsu_create_empty_cpb, Blank
  <1>5. CASE rsu_restore_cpb_from_buf
    <2>1. saved.slots \in [Slots -> Entry] /\ check_cpb(saved) /\ ~cpb_corrupted
      BY <1>5 DEF rsu_restore_cpb_from_buf, CallInv, TypeOK, Block
    <2> QED
      BY <1>3, <1>5, <2>1 DEF rsu_restore_cpb_from_buf, check_cpb
  <1>6. CASE rsu_save_cpb_to_buf
    <2>1. /\ pc = "idle" /\ ~cpb_corrupted /\ saved' = flash["CPB0"]
          /\ UNCHANGED <<flash, cpb, cpb_corrupted, cpb_fixed, fw, pc, at, job, call, ret, cand>>
      BY <1>6 DEF rsu_save_cpb_to_buf, lib, task
    <2>2. check_cpb(saved')
      BY <2>1 DEF SyncInv, Good
    <2> QED
      BY <2>1, <2>2 DEF SyncInv, UpdateInv, SeqInv, Sequence, FlagInv, FwInv, CallInv, Anchored,
                        Good, check_cpb, Marked, Unmarked
  <1> QED
    BY <1>1, <1>2, <1>4, <1>5, <1>6
       DEF Calls, StatusFaultsOnly, rsu_slot_program_callback

\* The changes of the block in memory.
LEMMA PriorityStep ==
  ASSUME StatusFaultsOnly, IInv, TypeOK', priority_add \/ priority_remove
  PROVE  IInv'
  <1> USE DEF IInv
  <1>1. /\ pc \in {"priority_add", "priority_remove"} /\ ~cpb_corrupted
        /\ call.part \in Parts /\ call.fn \in {"add", "remove", "enable"} /\ ret = "ok"
        /\ UNCHANGED <<flash, cpb_corrupted, cpb_fixed, fw, saved, stable>>
    BY DEF priority_add, priority_remove, lib, FlagInv, Sequence, CallInv
  <1>2. /\ Good(cpb) /\ cpb.slots \in cand
        /\ \A c \in Copies : flash[c] = cpb
    BY <1>1 DEF SyncInv, Copies
  <1>3. cpb.slots \in [Slots -> Entry] /\ cpb \in Block /\ cpb.magic = "ok"
    BY <1>2 DEF TypeOK, Block, Good
  <1>4. ASSUME NEW z \in Slots, NEW e, e \in Parts \cup {SPENT_ENTRY}, e \subseteq cpb.slots[z],
               cpb' = [cpb EXCEPT !.slots[z] = e],
               pc' = "update_cpb", at' = First, cand' = cand \cup {cpb'.slots},
               call' = call, ret' = ret
        PROVE  IInv'
    <2>1. cpb'.magic = "ok" /\ cpb'.slots = [cpb.slots EXCEPT ![z] = e]
      BY <1>3, <1>4
    <2>2. Good(cpb')
      BY <1>2, <1>3, <1>4, <2>1 DEF Good, check_cpb
    <2>3. UpdateInv'
      <3>1. \A x \in Slots : cpb'.slots[x] \subseteq cpb.slots[x]
        BY <1>3, <1>4, <2>1
      <3>2. \A x \in Slots \ {z} : cpb'.slots[x] = cpb.slots[x]
        BY <1>3, <1>4, <2>1
      <3> HIDE DEF IInv
      <3> QED
        BY <1>1, <1>2, <1>4, <2>2, <3>1, <3>2, Order DEF UpdateInv, Good, check_cpb
    <2>4. SyncInv' /\ SeqInv' /\ FlagInv' /\ CallInv'
      BY <1>1, <1>4 DEF SyncInv, SeqInv, Sequence, FlagInv, CallInv, check_cpb
    <2>5. FwInv' /\ Anchored'
      BY <1>1, <1>2, <1>4 DEF FwInv, Anchored, Good, check_cpb, Copies
    <2> QED
      BY <2>3, <2>4, <2>5
  <1>5. ASSUME cpb' = [cpb EXCEPT !.slots = Compressed(cpb.slots, call.part)],
               pc' = "erase_part", job' = "writeback", at' = First,
               cand' = cand \cup {cpb'.slots}, call' = call, ret' = ret, call.fn = "add"
        PROVE  IInv'
    <2>1. cpb'.slots = Compressed(cpb.slots, call.part)
      BY <1>3, <1>5
    <2>2. check_cpb(cpb')
      <3>1. call.part \in Entry
        BY <1>1, CpbAssumption
      <3>2. \A x \in Slots : cpb.slots[x] \in Parts \cup {ERASED_ENTRY, SPENT_ENTRY}
        BY <1>2 DEF Good, check_cpb
      <3> QED
        BY <1>1, <1>3, <2>1, <3>1, <3>2, CompressedType DEF check_cpb
    <2>3. SyncInv' /\ UpdateInv' /\ FlagInv' /\ CallInv'
      BY <1>1, <1>5 DEF SyncInv, UpdateInv, FlagInv, CallInv, check_cpb
    <2>4. FwInv' /\ Anchored'
      BY <1>1, <1>2, <1>5 DEF FwInv, Anchored, Good, check_cpb, Copies
    <2>5. SeqInv'
      BY <1>1, <1>2, <1>5, <2>2, Order DEF SeqInv, Sequence, check_cpb, Good
    <2> QED
      BY <2>3, <2>4, <2>5
  <1>6. CASE priority_add
    <2>1. call.fn = "add"
      BY <1>6 DEF priority_add, CallInv
    <2>2. CASE \E x \in Slots :
            /\ IsFirst(cpb.slots, ERASED_ENTRY, x)
            /\ cpb' = [cpb EXCEPT !.slots[x] = call.part]
            /\ pc' = "update_cpb"
            /\ at' = First
            /\ cand' = cand \cup {cpb'.slots}
            /\ UNCHANGED <<job, call, ret>>
      <3>1. PICK x \in Slots :
            /\ IsFirst(cpb.slots, ERASED_ENTRY, x)
            /\ cpb' = [cpb EXCEPT !.slots[x] = call.part]
            /\ pc' = "update_cpb"
            /\ at' = First
            /\ cand' = cand \cup {cpb'.slots}
            /\ UNCHANGED <<job, call, ret>>
        BY <2>2
      <3>2. call.part \subseteq cpb.slots[x]
        BY <1>1, <3>1, CpbAssumption DEF IsFirst, ERASED_ENTRY, Entry
      <3> QED
        BY <1>1, <1>4, <3>1, <3>2
    <2>3. CASE pc' = "erase_part"
      BY <1>5, <1>6, <2>1, <2>3 DEF priority_add, Done
    <2>4. CASE Done("err") /\ UNCHANGED <<cpb, cand>>
      BY <1>1, <1>2, <2>4 DEF Done, NoCall, SyncInv, UpdateInv, SeqInv, Sequence, FlagInv, CallInv,
                         FwInv, Anchored, Good, check_cpb
    <2> QED
      BY <1>6, <2>2, <2>3, <2>4 DEF priority_add
  <1>7. CASE priority_remove
    <2>1. CASE \E x \in Slots :
            /\ IsFirst(cpb.slots, call.part, x)
            /\ cpb' = [cpb EXCEPT !.slots[x] = SPENT_ENTRY]
            /\ pc' = "update_cpb"
            /\ at' = First
            /\ cand' = cand \cup {cpb'.slots}
      <3>1. PICK x \in Slots :
            /\ IsFirst(cpb.slots, call.part, x)
            /\ cpb' = [cpb EXCEPT !.slots[x] = SPENT_ENTRY]
            /\ pc' = "update_cpb"
            /\ at' = First
            /\ cand' = cand \cup {cpb'.slots}
        BY <2>1
      <3>2. SPENT_ENTRY \subseteq cpb.slots[x]
        BY DEF SPENT_ENTRY
      <3> QED
        BY <1>4, <1>7, <3>1, <3>2 DEF priority_remove
    <2>2. CASE pc' = "load_cpb" /\ UNCHANGED <<cpb, at, cand>>
      BY <1>1, <1>2, <1>7, <2>2 DEF priority_remove, SyncInv, UpdateInv, SeqInv, Sequence, FlagInv,
                         CallInv, FwInv, Anchored, Good, check_cpb, Copies
    <2> QED
      BY <1>7, <2>1, <2>2 DEF priority_remove
  <1> QED
    BY <1>6, <1>7

\* The two program commands of update_cpb.
LEMMA UpdateStep ==
  ASSUME StatusFaultsOnly, IInv, TypeOK', update_cpb
  PROVE  IInv'
  <1> USE DEF IInv
  <1>1. /\ pc = "update_cpb" /\ ~cpb_corrupted /\ ret = "ok"
        /\ call.fn \in {"add", "remove", "enable"}
        /\ UNCHANGED <<cpb, cpb_corrupted, cpb_fixed, fw, job, call, saved, cand, stable>>
        /\ Writes(Programmed(flash[at], cpb)) /\ UNCHANGED ret
        /\ IF at = First THEN at' = Second /\ pc' = pc ELSE at' = at /\ pc' = "load_cpb"
    BY DEF update_cpb, StatusFaultsOnly, Fault, lib, CallInv, FlagInv, Sequence
  <1>2. /\ Good(cpb) /\ cpb.slots \in cand
        /\ Good(flash[Second]) /\ flash[Second].slots \in cand
        /\ \A x \in Slots : cpb.slots[x] \subseteq flash[Second].slots[x]
        /\ \E z \in Slots : \A x \in Slots \ {z} : cpb.slots[x] = flash[Second].slots[x]
        /\ flash[First] = IF at = First THEN flash[Second] ELSE cpb
    BY <1>1 DEF UpdateInv
  <1>3. flash[at] = flash[Second] /\ at \in Copies /\ at \in {First, Second}
    BY <1>2, Order DEF TypeOK
  <1>4. Programmed(flash[at], cpb) = cpb
    <2>1. flash[Second] \in Block /\ cpb \in Block /\ flash[Second].magic = cpb.magic
      BY <1>2, Order DEF TypeOK, Good
    <2> QED
      BY <1>2, <1>3, <2>1, OverlayIs
  <1>5. flash' = [flash EXCEPT ![at] = cpb]
    BY <1>1, <1>4 DEF Writes
  <1>6. flash'[at] = cpb /\ \A c \in Copies \ {at} : flash'[c] = flash[c]
    BY <1>3, <1>5 DEF TypeOK
  <1>7. UpdateInv' /\ SyncInv'
    <2>1. CASE at = First
      BY <1>1, <1>2, <1>6, <2>1, Order DEF UpdateInv, SyncInv, Good, check_cpb
    <2>2. CASE at = Second
      BY <1>1, <1>2, <1>6, <2>2, Order DEF UpdateInv, SyncInv, Good, check_cpb, Copies
    <2> QED
      BY <1>3, <2>1, <2>2
  <1>8. SeqInv' /\ FlagInv' /\ CallInv'
    BY <1>1 DEF SeqInv, Sequence, FlagInv, CallInv, check_cpb
  <1>9. FwInv' /\ Anchored'
    BY <1>1, <1>2, <1>3, <1>6, Order DEF FwInv, Anchored, Good, check_cpb, Copies
  <1> QED
    BY <1>7, <1>8, <1>9

\* The three operations that rewrite a copy.
LEMMA SequenceStep ==
  ASSUME StatusFaultsOnly, IInv, TypeOK', erase_part \/ write_table \/ write_magic
  PROVE  IInv'
  <1> USE DEF IInv
  <1> DEFINE o == Other(at)
  <1>1. ~SequenceFails
    BY DEF SequenceFails, StatusFaultsOnly, Fault
  <1>2. /\ pc \in Sequence /\ ret = "ok" /\ cpb \in Block /\ check_cpb(cpb)
        /\ at \in Copies /\ o \in Copies /\ o # at /\ Copies = {at, o}
        /\ flash[at] \in Block /\ flash[o] \in Block
        /\ cand # {} => cpb.slots \in cand
    BY OtherType DEF erase_part, write_table, write_magic, Sequence, TypeOK, CallInv, SeqInv, Copies
  <1>3. cand # {} => Good(flash[o]) /\ flash[o].slots \in cand
    <2>1. CASE job = "restore" \/ at = Second
      BY <1>2, <2>1, Forms DEF SeqInv
    <2>2. CASE job = "writeback" /\ at = First
      BY <1>2, <2>2, Order DEF SeqInv
    <2> QED
      BY <1>2, <2>1, <2>2, Order DEF TypeOK
  <1>4. CASE erase_part
    <2>1. /\ pc = "erase_part" /\ flash' = [flash EXCEPT ![at] = Blank] /\ pc' = "write_table"
          /\ UNCHANGED <<cpb, cpb_corrupted, cpb_fixed, fw, at, job, call, ret, saved, cand>>
      BY <1>1, <1>4 DEF erase_part, Writes, lib
    <2>2. flash'[at] = Blank /\ flash'[o] = flash[o]
      BY <1>2, <2>1 DEF TypeOK
    <2>3. SyncInv' /\ UpdateInv' /\ FlagInv' /\ CallInv'
      BY <2>1 DEF SyncInv, UpdateInv, FlagInv, Sequence, CallInv, check_cpb
    <2>4. SeqInv'
      BY <1>2, <2>1, <2>2, Order DEF SeqInv, Sequence, check_cpb, Good, Marked
    <2>5. FwInv' /\ Anchored'
      BY <1>2, <1>3, <2>1, <2>2, Forms DEF FwInv, Anchored, Good, check_cpb, Copies
    <2> QED
      BY <2>3, <2>4, <2>5
  <1>5. CASE write_table
    <2>1. /\ pc = "write_table" /\ flash' = [flash EXCEPT ![at] = Unmarked] /\ pc' = "write_magic"
          /\ cpb' = Unmarked
          /\ UNCHANGED <<cpb_corrupted, cpb_fixed, fw, at, job, call, ret, saved, cand>>
      BY <1>1, <1>2, <1>5, TableIs DEF write_table, Writes, lib, SeqInv
    <2>2. flash'[at] = Unmarked /\ flash'[o] = flash[o]
      BY <1>2, <2>1 DEF TypeOK
    <2>3. cpb'.slots = cpb.slots /\ check_cpb(cpb') /\ Marked' = Marked /\ Unmarked' = Unmarked
      BY <1>2, <2>1, Forms DEF check_cpb, Marked, Unmarked, Block
    <2>4. SyncInv' /\ UpdateInv' /\ FlagInv' /\ CallInv'
      BY <2>1 DEF SyncInv, UpdateInv, FlagInv, Sequence, CallInv, check_cpb
    <2>5. SeqInv'
      BY <1>2, <2>1, <2>2, <2>3, Order DEF SeqInv, Sequence, Good, check_cpb
    <2>6. FwInv' /\ Anchored'
      BY <1>2, <1>3, <2>1, <2>2, Forms DEF FwInv, Anchored, Good, check_cpb, Copies
    <2> QED
      BY <2>4, <2>5, <2>6
  <1>6. CASE write_magic
    <2>1. /\ pc = "write_magic" /\ flash' = [flash EXCEPT ![at] = Marked] /\ cpb' = Marked
          /\ UNCHANGED <<fw, saved, stable>>
      BY <1>1, <1>2, <1>6, MagicIs DEF write_magic, Writes, SeqInv, Sequence
    <2>2. flash'[at] = cpb' /\ flash'[o] = flash[o]
      BY <1>2, <2>1 DEF TypeOK
    <2>3. /\ cpb'.slots = cpb.slots /\ Good(cpb') /\ check_cpb(cpb') /\ Marked' = Marked
          /\ cpb' \in Block
      BY <1>2, <2>1, Forms DEF check_cpb, Good, Marked, Block
    <2>4. CASE job = "restore"
      <3>1. /\ LoadSucceeds /\ UNCHANGED <<cpb_corrupted, cpb_fixed>> /\ ~cpb_corrupted
            /\ cand' = {cpb'.slots}
        BY <1>1, <1>6, <2>1, <2>4 DEF write_magic, lib, FlagInv, Sequence, LoadSucceeds
      <3>2. flash'["CPB0"] = cpb' /\ flash'["CPB1"] = cpb'
        BY <1>2, <2>1, <2>2, <2>4 DEF SeqInv, Copies
      <3>3. pc' \in {"idle", "priority_add"} /\ (pc' = "idle" => call'.fn = "none")
            /\ (pc' = "priority_add" => call'.fn = "add" /\ call'.part \in Parts /\ ret' = "ok")
        BY <3>1 DEF LoadSucceeds, Done, NoCall, CallInv, TypeOK
      <3>4. SyncInv' /\ UpdateInv' /\ SeqInv' /\ FlagInv' /\ CallInv'
        BY <2>1, <2>3, <3>1, <3>2, <3>3 DEF SyncInv, UpdateInv, SeqInv, Sequence, FlagInv, CallInv,
                                            Good, check_cpb
      <3>5. FwInv' /\ Anchored'
        BY <2>3, <3>1, <3>2 DEF FwInv, Anchored, Good, check_cpb, Copies
      <3> QED
        BY <3>4, <3>5
    <2>5. CASE job = "writeback" /\ at = First
      <3>1. /\ at' = Second /\ pc' = "erase_part"
            /\ UNCHANGED <<cpb_corrupted, cpb_fixed, job, call, ret, cand>>
        BY <1>1, <1>6, <2>5, Order DEF write_magic, lib
      <3>2. SyncInv' /\ UpdateInv' /\ FlagInv' /\ CallInv'
        BY <2>1, <2>5, <3>1 DEF SyncInv, UpdateInv, FlagInv, Sequence, CallInv, check_cpb
      <3>3. SeqInv'
        BY <1>2, <2>1, <2>2, <2>3, <2>5, <3>1, Order DEF SeqInv, Sequence, Good, check_cpb
      <3>4. FwInv' /\ Anchored'
        BY <1>2, <1>3, <2>1, <2>2, <2>3, <3>1 DEF FwInv, Anchored, Good, check_cpb, Copies
      <3> QED
        BY <3>2, <3>3, <3>4
    <2>6. CASE job = "writeback" /\ at = Second
      <3>1. flash'["CPB0"] = cpb' /\ flash'["CPB1"] = cpb'
        BY <1>2, <2>1, <2>2, <2>6 DEF SeqInv, Copies
      <3>2. CASE call.fn = "add"
        <4>1. /\ pc' = "load_cpb" /\ UNCHANGED <<cpb_corrupted, cpb_fixed, at, job, call, ret, cand>>
          BY <1>1, <1>6, <2>6, <3>2, Order DEF write_magic, lib
        <4>2. ~cpb_corrupted
          BY <3>2, <2>1 DEF FlagInv, Sequence
        <4>3. UpdateInv' /\ SeqInv' /\ FlagInv' /\ CallInv'
          BY <2>1, <3>2, <4>1, <4>2 DEF UpdateInv, FlagInv, SeqInv, Sequence, CallInv, check_cpb
        <4>4. SyncInv' /\ FwInv' /\ Anchored'
          <5>1. cand # {}
            BY <2>1, <2>6, <3>2 DEF SeqInv, Sequence
          <5> QED
            BY <1>2, <2>3, <3>1, <4>1, <4>2, <5>1 DEF SyncInv, FwInv, Anchored, Good, check_cpb, Copies
        <4> QED
          BY <4>3, <4>4
      <3>3. CASE call.fn # "add"
        <4>1. /\ cpb_corrupted' = FALSE /\ cand' = {cpb'.slots} /\ pc' = "idle" /\ call' = NoCall
          BY <1>1, <1>6, <2>6, <3>3, Order DEF write_magic, Done
        <4>2. UpdateInv' /\ SeqInv' /\ FlagInv' /\ CallInv'
          BY <2>1, <4>1 DEF UpdateInv, FlagInv, SeqInv, Sequence, CallInv, check_cpb, NoCall
        <4>3. SyncInv' /\ FwInv' /\ Anchored'
          BY <2>3, <3>1, <4>1 DEF SyncInv, FwInv, Anchored, Good, check_cpb, Copies
        <4> QED
          BY <4>2, <4>3
      <3> QED
        BY <3>2, <3>3
    <2> QED
      BY <2>4, <2>5, <2>6, Order DEF TypeOK
  <1> QED
    BY <1>4, <1>5, <1>6

\* load_cpb, after a call and when the library opens.
LEMMA LoadStep ==
  ASSUME StatusFaultsOnly, IInv, TypeOK', load_cpb
  PROVE  IInv'
  <1> USE DEF IInv
  <1>1. /\ pc = "load_cpb" /\ ~cpb_corrupted /\ ret = "ok"
        /\ call.fn \in {"init", "add", "remove", "enable"}
        /\ UNCHANGED <<flash, fw, saved, stable>>
    BY DEF load_cpb, FlagInv, Sequence, CallInv
  <1>2. call.fn # "init" => /\ Good(cpb) /\ cpb.slots \in cand
                            /\ flash["CPB0"] = cpb /\ flash["CPB1"] = cpb
    BY <1>1 DEF SyncInv
  <1>3. ASSUME LoadFails, cpb_corrupted' \/ (cpb' = cpb /\ ~cpb_corrupted')
        PROVE  IInv'
    <2>1. /\ pc' \in {"idle", "closed"} /\ call' = NoCall /\ cand' = cand
          /\ ~cpb_corrupted' /\ pc' = "idle" => call.fn # "init"
      BY <1>1, <1>3 DEF LoadFails, Done
    <2>2. UpdateInv' /\ SeqInv' /\ FlagInv' /\ CallInv'
      BY <1>1, <2>1 DEF UpdateInv, SeqInv, Sequence, FlagInv, CallInv, NoCall, check_cpb
    <2>3. SyncInv' /\ FwInv' /\ Anchored'
      BY <1>1, <1>2, <1>3, <2>1 DEF SyncInv, FwInv, Anchored, Good, check_cpb
    <2> QED
      BY <2>2, <2>3
  <1>4. CASE LoadReads(AllRead, TRUE)
    <2>1. \A c \in Copies : Passes(c, AllRead) <=> Good(flash[c]) /\ ~(c = "CPB0" /\ SkipCpb0)
      BY DEF Passes, AllRead
    <2>2. CASE /\ Passes("CPB0", AllRead) /\ Passes("CPB1", AllRead)
               /\ flash["CPB0"] = flash["CPB1"]
               /\ cpb' = flash["CPB0"] /\ LoadSucceeds /\ UNCHANGED lib
      <3>1. /\ Good(cpb') /\ cand' = {cpb'.slots} /\ ~cpb_corrupted'
            /\ flash'["CPB0"] = cpb' /\ flash'["CPB1"] = cpb'
        BY <1>1, <2>1, <2>2 DEF LoadSucceeds, lib, Copies, Good, check_cpb
      <3>2. pc' \in {"idle", "priority_add"} /\ (pc' = "idle" => call'.fn = "none")
            /\ (pc' = "priority_add" => call'.fn = "add" /\ call'.part \in Parts /\ ret' = "ok")
        BY <2>2 DEF LoadSucceeds, Done, NoCall, CallInv, TypeOK
      <3>3. SyncInv' /\ UpdateInv' /\ SeqInv' /\ FlagInv' /\ CallInv'
        BY <1>1, <3>1, <3>2 DEF SyncInv, UpdateInv, SeqInv, Sequence, FlagInv, CallInv,
                                Good, check_cpb
      <3>4. FwInv' /\ Anchored'
        BY <3>1 DEF FwInv, Anchored, Good, check_cpb, Copies
      <3> QED
        BY <3>3, <3>4
    <2>3. CASE cpb_corrupted' /\ LoadFails
      BY <1>3, <2>3
    <2>4. CASE \E c \in Copies :
                 /\ Passes(c, AllRead) /\ ~Passes(Other(c), AllRead)
                 /\ cpb' = flash[c]
                 /\ pc' = "erase_part" /\ job' = "restore"
                 /\ at' = Other(c)
                 /\ UNCHANGED <<lib, call, ret, cand>>
      <3>1. PICK c \in Copies :
                 /\ Passes(c, AllRead) /\ ~Passes(Other(c), AllRead)
                 /\ cpb' = flash[c]
                 /\ pc' = "erase_part" /\ job' = "restore"
                 /\ at' = Other(c)
                 /\ UNCHANGED <<lib, call, ret, cand>>
        BY <2>4
      <3>2. Good(cpb') /\ Other(c) \in Copies /\ Other(at') = c /\ cpb' \in Block
        BY <2>1, <3>1, OtherType DEF TypeOK, Good, check_cpb
      <3>3. cand # {} => cpb'.slots \in cand
        <4>1. CASE ~Good(flash[Other(c)])
          BY <3>1, <4>1 DEF Anchored, Copies, Other
        <4>2. CASE Other(c) = "CPB0" /\ SkipCpb0
          BY <2>1, <3>1, <4>2 DEF FwInv, SkipCpb0, Copies, Other
        <4> QED
          BY <2>1, <3>1, <3>2, <4>1, <4>2
      <3>4. Marked' = cpb'
        BY <3>2 DEF Marked, Block, Good
      <3>5. SeqInv'
        BY <1>1, <3>1, <3>2, <3>3, <3>4 DEF SeqInv, Sequence, Good
      <3>6. SyncInv' /\ UpdateInv' /\ FlagInv' /\ CallInv'
        BY <1>1, <3>1 DEF SyncInv, UpdateInv, FlagInv, CallInv, check_cpb, lib
      <3>7. FwInv' /\ Anchored'
        BY <1>1, <3>1 DEF FwInv, Anchored, Good, check_cpb
      <3> QED
        BY <3>5, <3>6, <3>7
    <2> QED
      BY <1>4, <2>2, <2>3, <2>4 DEF LoadReads, check_both_cpb
  <1>5. CASE LoadFails /\ UNCHANGED <<cpb, lib>>
    BY <1>1, <1>3, <1>5 DEF lib
  <1>6. CASE LoadFails /\ cpb_corrupted'
    BY <1>3, <1>6
  <1> QED
    BY <1>4, <1>5, <1>6 DEF load_cpb, StatusFaultsOnly, Fault

\* What the copy under work can be after the CPU was reset: a block with a magic number
\* holds a boot order from before or after.
LEMMA CutIs ==
  ASSUME IInv, AtFlash, cand # {}, NEW t \in Cut, Good(t),
         Good(flash[at]) => flash[at].slots \in cand
  PROVE  t.slots \in cand
  <1> USE DEF IInv
  <1>1. flash[at] \in Block /\ cpb \in Block /\ t \in Block
    BY TornType DEF TypeOK
  <1>2. CASE pc = "erase_part"
    BY <1>2, Forms, <1>1 DEF Cut
  <1>3. ASSUME pc # "erase_part"
        PROVE  /\ t.magic \in {flash[at].magic, AndMagic(flash[at].magic, Programming.magic)}
               /\ \A x \in Slots : t.slots[x] \in {flash[at].slots[x],
                                     flash[at].slots[x] \cap Programming.slots[x]}
    BY <1>3 DEF Cut, CutProgram
  <1>4. CASE pc = "write_table"
    <2>1. flash[at] = Blank /\ Programming = Unmarked
      BY <1>4 DEF SeqInv, Sequence, Programming
    <2> QED
      BY <1>1, <1>3, <1>4, <2>1, Forms, BlankType DEF AndMagic, Good
  <1>5. CASE pc = "write_magic"
    <2>1. flash[at] = Unmarked /\ Programming = MagicOnly /\ cpb.slots \in cand
      BY <1>5 DEF SeqInv, Sequence, Programming
    <2>2. \A x \in Slots : t.slots[x] = cpb.slots[x]
      <3>1. MagicOnly.slots = Blank.slots /\ flash[at].slots = cpb.slots
        BY <1>1, <2>1, Forms DEF MagicOnly
      <3>2. \A x \in Slots : cpb.slots[x] \cap Blank.slots[x] = cpb.slots[x]
        BY <1>1 DEF Blank, Block, Entry, ERASED_ENTRY
      <3> QED
        BY <1>3, <1>5, <2>1, <3>1, <3>2
    <2>3. t.slots = cpb.slots
      BY <1>1, <2>2 DEF Block
    <2> QED
      BY <2>1, <2>3
  <1>6. CASE pc = "update_cpb"
    <2>1. /\ cpb.slots \in cand /\ flash[Second].slots \in cand
          /\ \A x \in Slots : cpb.slots[x] \subseteq flash[Second].slots[x]
          /\ flash[at] = flash[Second]
          /\ Programming = cpb
      BY <1>6, Order DEF UpdateInv, Programming, TypeOK
    <2>2. PICK z \in Slots : \A x \in Slots \ {z} : cpb.slots[x] = flash[Second].slots[x]
      BY <1>6 DEF UpdateInv
    <2>3. \A x \in Slots : t.slots[x] \in {flash[Second].slots[x], cpb.slots[x]}
      BY <1>3, <1>6, <2>1
    <2>4. cpb.slots \in [Slots -> Entry] /\ t.slots \in [Slots -> Entry]
          /\ flash[Second].slots \in [Slots -> Entry]
      BY <1>1, <2>1 DEF Block
    <2>5. CASE t.slots[z] = cpb.slots[z]
      <3>1. \A x \in Slots : t.slots[x] = cpb.slots[x]
        BY <2>2, <2>3, <2>5
      <3> QED
        BY <2>1, <2>4, <3>1
    <2>6. CASE t.slots[z] = flash[Second].slots[z]
      <3>1. \A x \in Slots : t.slots[x] = flash[Second].slots[x]
        BY <2>2, <2>3, <2>6
      <3> QED
        BY <2>1, <2>4, <3>1
    <2> QED
      BY <2>3, <2>5, <2>6
  <1> QED
    BY <1>2, <1>4, <1>5, <1>6 DEF AtFlash

\* Power loss and CPU reset: the copy that is not being written is the anchor.
LEMMA StopStep ==
  ASSUME StatusFaultsOnly, IInv, TypeOK', PowerLoss \/ CpuReset
  PROVE  IInv'
  <1> USE DEF IInv
  <1>1. /\ pc' = "closed" /\ call' = NoCall
        /\ UNCHANGED <<cpb, cpb_corrupted, cpb_fixed, at, job, saved, cand, stable>>
    BY DEF PowerLoss, CpuReset, Stops, lib
  <1>2. SyncInv' /\ UpdateInv' /\ SeqInv' /\ FlagInv' /\ CallInv'
    BY <1>1 DEF SyncInv, UpdateInv, SeqInv, Sequence, FlagInv, CallInv, NoCall, check_cpb
  <1> DEFINE o == Other(at)
  <1>3. at \in Copies /\ o \in Copies /\ o # at
    BY OtherType DEF TypeOK
  <1>4. ASSUME AtFlash, cand # {}
        PROVE  Good(flash[o]) /\ flash[o].slots \in cand
    <2>1. CASE pc = "update_cpb"
      BY <2>1, <1>3, Order DEF UpdateInv, TypeOK
    <2>2. CASE pc \in Sequence /\ (job = "restore" \/ at = Second)
      BY <1>4, <2>2, Forms DEF SeqInv, TypeOK
    <2>3. CASE pc \in Sequence /\ job = "writeback" /\ at = First
      BY <1>4, <2>3, Order DEF SeqInv
    <2> QED
      BY <1>4, <2>1, <2>2, <2>3, Order DEF AtFlash, Sequence, TypeOK
  <1>5. AtFlash => flash'[o] = flash[o]
    BY <1>3 DEF PowerLoss, CpuReset, Writes, TypeOK
  <1>6. ~AtFlash => flash' = flash
    BY DEF PowerLoss, CpuReset
  <1>7. Anchored'
    <2>1. CASE AtFlash
      BY <1>1, <1>3, <1>4, <1>5, <2>1 DEF Anchored, Good, check_cpb
    <2>2. CASE ~AtFlash
      BY <1>1, <1>6, <2>2 DEF Anchored, Good, check_cpb
    <2> QED
      BY <2>1, <2>2
  <1>8. FwInv'
    <2>1. CASE PowerLoss
      <3>1. fw' = "CPB0_CORRUPTED" => ~Good(flash["CPB0"])'
        BY <2>1 DEF PowerLoss, FwSees, Good, check_cpb
      <3> QED
        BY <1>7, <3>1 DEF Anchored, FwInv, Copies
    <2>2. CASE CpuReset /\ ~AtFlash
      BY <1>1, <1>6, <2>2 DEF CpuReset, FwInv, Good, check_cpb
    <2>3. CASE CpuReset /\ AtFlash
      <3>1. PICK t \in Cut : flash' = [flash EXCEPT ![at] = t]
        BY <2>3 DEF CpuReset, Writes
      <3>2. CASE at = "CPB0"
        BY <1>1, <2>3, <3>1, <3>2 DEF CpuReset, FwInv, Good, check_cpb, TypeOK, Copies
      <3>3. CASE at = "CPB1"
        <4>1. flash'["CPB1"] = t
          BY <3>1, <3>3 DEF TypeOK, Copies
        <4>2. SUFFICES ASSUME fw = "CPB0_CORRUPTED", cand # {}, Good(t)
                       PROVE  t.slots \in cand
          BY <1>1, <2>3, <4>1 DEF CpuReset, FwInv, Good, check_cpb
        <4>3. Good(flash[at]) => flash[at].slots \in cand
          BY <3>3, <4>2 DEF FwInv
        <4> HIDE DEF IInv
        <4> QED
          BY <2>3, <4>2, <4>3, CutIs
      <3> QED
        BY <1>3, <3>2, <3>3 DEF Copies
    <2> QED
      BY <2>1, <2>2, <2>3
  <1> QED
    BY <1>2, <1>7, <1>8

\* Every step keeps the inductive invariant.
LEMMA IStep ==
  ASSUME StatusFaultsOnly, IInv, [Next]_vars
  PROVE  IInv'
  <1>1. TypeOK'
    BY TypeStep DEF IInv
  <1>2. CASE UNCHANGED vars
    BY <1>2 DEF vars, lib, task, IInv, TypeOK, SyncInv, UpdateInv, SeqInv, FlagInv, FwInv,
                CallInv, Anchored, Good, check_cpb, Marked, Unmarked
  <1> QED
    BY <1>1, <1>2, CallStep, PriorityStep, UpdateStep, SequenceStep, LoadStep, StopStep
       DEF Next, Steps

\* The boot order survives power loss at every point of every operation: one copy always
\* passes load_cpb's checks and holds the order from before or after the call.
THEOREM CpbAnchored == StatusFaultsOnly => (Spec => []Anchored)
  <1> SUFFICES ASSUME StatusFaultsOnly PROVE Spec => []Anchored
    OBVIOUS
  <1>1. Init => IInv
    BY IInit
  <1>2. IInv /\ [Next]_vars => IInv'
    BY IStep
  <1>3. IInv => Anchored
    BY DEF IInv
  <1> QED
    BY <1>1, <1>2, <1>3, PTL DEF Spec

\* Between calls memory and both copies agree, unless the table is flagged as corrupted.
THEOREM CpbInSync == StatusFaultsOnly => (Spec => []InSync)
  <1> SUFFICES ASSUME StatusFaultsOnly PROVE Spec => []InSync
    OBVIOUS
  <1>1. Init => IInv
    BY IInit
  <1>2. IInv /\ [Next]_vars => IInv'
    BY IStep
  <1>3. IInv => InSync
    BY DEF IInv, SyncInv, InSync, Copies
  <1> QED
    BY <1>1, <1>2, <1>3, PTL DEF Spec
--------------------------------------------------------------------------------
\* Opening the library, with every fault there is.

\* While the library opens, a copy is only rewritten from a good one.
OpenInv ==
    call.fn = "init" =>
        \/ pc = "load_cpb"
        \/ /\ pc \in Sequence /\ job = "restore"
           /\ check_cpb(cpb) /\ flash[Other(at)] = Marked
           /\ pc = "write_table" => flash[at] = Blank
           /\ pc = "write_magic" => flash[at] = Unmarked

OInv == TypeOK /\ OpenInv

\* What a step of the library leaves behind while it opens.
OpenedStep ==
    call.fn = "init" /\ pc' = "idle" /\ ~cpb_corrupted'
      => Good(cpb)' /\ \A c \in Copies : flash'[c] = cpb'

\* A rewritten copy is what is in memory.
LEMMA RewriteStep ==
  ASSUME OInv, TypeOK', call.fn = "init", erase_part \/ write_table \/ write_magic
  PROVE  OpenInv' /\ OpenedStep
  <1> USE DEF OInv
  <1>1. /\ pc \in Sequence /\ job = "restore" /\ cpb \in Block /\ check_cpb(cpb)
        /\ flash[Other(at)] = Marked /\ at \in Copies /\ Other(at) \in Copies /\ Other(at) # at
        /\ pc = "write_table" => flash[at] = Blank
        /\ pc = "write_magic" => flash[at] = Unmarked
    BY OtherType DEF OpenInv, TypeOK, erase_part, write_table, write_magic
  <1>2. CASE SequenceFails
    <2>1. LoadFails /\ UNCHANGED lib
      BY <1>1, <1>2 DEF SequenceFails
    <2>2. call'.fn = "none"
      BY <2>1 DEF LoadFails, Done, NoCall
    <2>3. pc' = "idle" => cpb_corrupted'
      BY <2>1 DEF LoadFails, Done
    <2> QED
      BY <2>2, <2>3 DEF OpenInv, OpenedStep
  <1>3. CASE erase_part /\ ~SequenceFails
    <2>1. /\ flash' = [flash EXCEPT ![at] = Blank] /\ pc' = "write_table"
          /\ UNCHANGED <<cpb, at, job, call>>
      BY <1>3 DEF erase_part, Writes
    <2>2. flash'[at] = Blank /\ flash'[Other(at)] = Marked
      BY <1>1, <2>1 DEF TypeOK
    <2> QED
      BY <1>1, <2>1, <2>2 DEF OpenInv, OpenedStep, Sequence, check_cpb, Marked
  <1>4. CASE write_table /\ ~SequenceFails
    <2>1. /\ flash' = [flash EXCEPT ![at] = Unmarked] /\ pc' = "write_magic" /\ cpb' = Unmarked
          /\ UNCHANGED <<at, job, call>>
      BY <1>1, <1>4, TableIs DEF write_table, Writes
    <2>2. flash'[at] = Unmarked /\ flash'[Other(at)] = Marked
      BY <1>1, <2>1 DEF TypeOK
    <2>3. check_cpb(cpb)' /\ Marked' = Marked /\ Unmarked' = Unmarked
      BY <1>1, <2>1, Forms DEF check_cpb, Marked, Unmarked, Block
    <2> QED
      BY <1>1, <2>1, <2>2, <2>3 DEF OpenInv, OpenedStep, Sequence
  <1>5. CASE write_magic /\ ~SequenceFails
    <2>1. /\ flash' = [flash EXCEPT ![at] = Marked] /\ cpb' = Marked /\ LoadSucceeds
      BY <1>1, <1>5, MagicIs DEF write_magic, Writes
    <2>2. flash'[at] = cpb' /\ flash'[Other(at)] = cpb'
      BY <1>1, <2>1 DEF TypeOK
    <2>3. \A c \in Copies : flash'[c] = cpb'
      BY <1>1, <2>2 DEF Copies
    <2>4. Good(cpb)'
      BY <1>1, <2>1, Forms DEF Good, check_cpb
    <2>5. call'.fn = "none"
      BY <2>1 DEF LoadSucceeds, Done, NoCall
    <2> QED
      BY <2>3, <2>4, <2>5 DEF OpenInv, OpenedStep
  <1> QED
    BY <1>2, <1>3, <1>4, <1>5

\* load_cpb finds two equal good copies, starts to rewrite one, or fails.
LEMMA OpenLoadStep ==
  ASSUME OInv, TypeOK', call.fn = "init", load_cpb
  PROVE  OpenInv' /\ OpenedStep
  <1> USE DEF OInv
  <1>1. flash' = flash
    BY DEF load_cpb
  <1>2. CASE LoadFails
    <2>1. call'.fn = "none" /\ (pc' = "idle" => cpb_corrupted')
      BY <1>2 DEF LoadFails, Done, NoCall
    <2> QED
      BY <2>1 DEF OpenInv, OpenedStep
  <1>3. ASSUME NEW r, NEW again, LoadReads(r, again), ~LoadFails
        PROVE  OpenInv' /\ OpenedStep
    <2>1. CASE /\ Passes("CPB0", r) /\ cpb' = flash["CPB0"] /\ check_both_cpb(again)
               /\ LoadSucceeds
      <3>1. Good(cpb)' /\ \A c \in Copies : flash'[c] = cpb'
        BY <1>1, <2>1 DEF Passes, check_both_cpb, Copies, Good, check_cpb
      <3>2. call'.fn = "none"
        BY <2>1 DEF LoadSucceeds, Done, NoCall
      <3> QED
        BY <3>1, <3>2 DEF OpenInv, OpenedStep
    <2>2. CASE \E c \in Copies : /\ Passes(c, r) /\ cpb' = flash[c]
                                 /\ pc' = "erase_part" /\ job' = "restore" /\ at' = Other(c)
                                 /\ UNCHANGED call
      <3>1. PICK c \in Copies : /\ Passes(c, r) /\ cpb' = flash[c]
                                /\ pc' = "erase_part" /\ job' = "restore" /\ at' = Other(c)
                                /\ UNCHANGED call
        BY <2>2
      <3>2. Good(cpb)' /\ Other(at') = c /\ cpb' \in Block
        BY <3>1, OtherType DEF Passes, Good, check_cpb, TypeOK
      <3>3. Marked' = cpb'
        BY <3>2 DEF Marked, Block, Good
      <3> QED
        BY <1>1, <3>1, <3>2, <3>3 DEF OpenInv, OpenedStep, Sequence, Good
    <2> QED
      BY <1>3, <2>1, <2>2 DEF LoadReads
  <1> QED
    BY <1>2, <1>3 DEF load_cpb

\* Every step of the specification.
LEMMA OStep ==
  ASSUME OInv, [Next]_vars
  PROVE  OInv' /\ OpenedStep
  <1>1. TypeOK'
    BY TypeStep DEF OInv
  <1> SUFFICES OpenInv' /\ OpenedStep
    BY <1>1 DEF OInv
  <1>2. CASE UNCHANGED vars
    BY <1>2 DEF vars, lib, task, OInv, OpenInv, OpenedStep, Sequence, check_cpb, Marked, Unmarked
  <1>3. CASE rsu_qspi_open
    BY <1>3 DEF rsu_qspi_open, OInv, OpenInv, OpenedStep
  <1>4. CASE Calls
    <2>1. pc = "idle"
      BY <1>4 DEF Calls, rsu_slot_program_buf, rsu_slot_program_callback, rsu_slot_disable,
                  rsu_slot_enable, Call, rsu_create_empty_cpb, rsu_restore_cpb_from_buf,
                  Replace, rsu_save_cpb_to_buf
    <2>2. call.fn # "init"
      BY <2>1 DEF OInv, OpenInv, Sequence
    <2>3. call'.fn # "init"
      BY <1>4, <2>2 DEF Calls, rsu_slot_program_buf, rsu_slot_program_callback,
                  rsu_slot_disable, rsu_slot_enable, Call, rsu_create_empty_cpb,
                  rsu_restore_cpb_from_buf, Replace, rsu_save_cpb_to_buf, task
    <2> QED
      BY <2>2, <2>3 DEF OpenInv, OpenedStep
  <1>5. CASE Steps /\ call.fn = "init"
    <2>1. ~priority_add /\ ~priority_remove /\ ~update_cpb
      BY <1>5 DEF OInv, OpenInv, Sequence, priority_add, priority_remove, update_cpb
    <2> QED
      BY <1>1, <1>5, <2>1, RewriteStep, OpenLoadStep DEF Steps
  <1>6. CASE Steps /\ call.fn # "init"
    <2>1. LoadSucceeds \/ LoadFails \/ Done("err") \/ Done("ok") \/ UNCHANGED call
            => call'.fn # "init"
      BY <1>6 DEF OInv, TypeOK, LoadFails, LoadSucceeds, Done, NoCall
    <2> SUFFICES call'.fn # "init"
      BY <1>6 DEF OpenInv, OpenedStep
    <2>2. CASE priority_add \/ priority_remove \/ update_cpb
      BY <2>1, <2>2 DEF priority_add, priority_remove, update_cpb
    <2>3. CASE erase_part \/ write_table \/ write_magic
      BY <2>1, <2>3 DEF erase_part, write_table, write_magic, SequenceFails
    <2>4. CASE load_cpb
      BY <2>1, <2>4 DEF load_cpb, LoadReads
    <2> QED
      BY <1>6, <2>2, <2>3, <2>4 DEF Steps
  <1>7. CASE PowerLoss \/ CpuReset
    BY <1>7 DEF PowerLoss, CpuReset, Stops, NoCall, OpenInv, OpenedStep
  <1> QED
    BY <1>2, <1>3, <1>4, <1>5, <1>6, <1>7 DEF Next

\* Whatever read, erase, write or status command fails and whenever power fails or the CPU
\* restarts, a library that opens without the corrupted flag has one good block in memory
\* and in both copies.
THEOREM CpbOpened == Spec => Opened
  <1>1. Init => OInv
    BY TypeInit DEF Init, NoCall, OInv, OpenInv
  <1>2. OInv /\ [Next]_vars => OInv' /\ OpenedStep
    BY OStep
  <1>3. OpenedStep => (call.fn = "init" /\ pc' = "idle" /\ ~cpb_corrupted'
                         => Good(cpb') /\ \A c \in Copies : flash'[c] = cpb')
    BY DEF OpenedStep, Good, check_cpb
  <1> QED
    BY <1>1, <1>2, <1>3, PTL DEF Spec, Opened
--------------------------------------------------------------------------------
\* What a rewrite of a copy does to the boot orders a restart may come back with.
Kept == cand' = cand
Settled == cand' = {cpb'.slots} /\ (cand # {} => cpb'.slots \in cand) /\ ~cpb_corrupted'

\* How a call goes on from the step that writes a copy or loads the block.
GoesOn ==
    \/ call' = call /\ pc' \in {"update_cpb", "load_cpb"} \cup Sequence
    \/ call' = NoCall /\ pc' \in {"idle", "closed"}
    \/ call.fn = "enable" /\ call'.part = call.part /\ call'.fn = "add" /\ pc' = "priority_add"

\* The steps that rewrite a copy leave the pointers in memory alone.
LEMMA RewriteCand ==
  ASSUME StatusFaultsOnly, IInv, erase_part \/ write_table \/ write_magic
  PROVE  cpb'.slots = cpb.slots /\ saved' = saved /\ (Kept \/ Settled) /\ GoesOn
  <1>1. ~SequenceFails
    BY DEF SequenceFails, StatusFaultsOnly, Fault
  <1>2. pc \in Sequence /\ cpb \in Block /\ (cand # {} => cpb.slots \in cand)
    BY DEF erase_part, write_table, write_magic, Sequence, IInv, TypeOK, SeqInv
  <1>3. Unmarked.slots = cpb.slots /\ Marked.slots = cpb.slots
    BY <1>2, Forms
  <1>4. CASE erase_part \/ write_table
    BY <1>1, <1>3, <1>4 DEF erase_part, write_table, Kept, GoesOn, Sequence, lib
  <1>5. CASE write_magic
    <2>1. cpb'.slots = cpb.slots /\ saved' = saved
      BY <1>3, <1>5 DEF write_magic
    <2>2. CASE job = "restore" /\ LoadSucceeds /\ UNCHANGED lib
      <3>1. ~cpb_corrupted'
        BY <1>2, <2>2 DEF lib, IInv, FlagInv, Sequence
      <3>2. Settled
        BY <1>2, <2>1, <2>2, <3>1 DEF LoadSucceeds, Settled
      <3>3. GoesOn
        BY <1>2, <2>2 DEF LoadSucceeds, Done, GoesOn, IInv, TypeOK
      <3> QED
        BY <2>1, <3>2, <3>3 DEF Kept, Settled
    <2>3. CASE UNCHANGED <<lib, call, cand>> /\ pc' \in {"erase_part", "load_cpb"}
      BY <2>1, <2>3 DEF Kept, GoesOn, Sequence, lib
    <2>4. CASE cpb_corrupted' = FALSE /\ cand' = {cpb'.slots} /\ Done("ok")
      BY <1>2, <2>1, <2>4 DEF Settled, GoesOn, Done, Kept
    <2> QED
      BY <1>1, <1>5, <2>2, <2>3, <2>4 DEF write_magic
  <1> QED
    BY <1>4, <1>5

\* After a call load_cpb finds in flash what is in memory.
LEMMA LoadBuffer ==
  ASSUME StatusFaultsOnly, IInv, load_cpb, call.fn # "init"
  PROVE  cpb' = cpb
  <1>1. flash["CPB0"] = cpb /\ flash["CPB1"] = cpb
    BY DEF load_cpb, IInv, FlagInv, Sequence, SyncInv
  <1>2. CASE LoadReads(AllRead, TRUE)
    BY <1>1, <1>2 DEF LoadReads, LeftInBuffer, Copies
  <1> QED
    BY <1>2 DEF load_cpb, StatusFaultsOnly, Fault

\* load_cpb settles on a boot order a restart may come back with, or changes none of them;
\* after a call it loads what is in memory already.
LEMMA LoadCand ==
  ASSUME StatusFaultsOnly, IInv, load_cpb
  PROVE  saved' = saved /\ (Kept \/ Settled) /\ GoesOn /\ (call.fn # "init" => cpb' = cpb)
  <1>1. pc = "load_cpb" /\ ~cpb_corrupted /\ saved' = saved
        /\ (call.fn # "init" => flash["CPB0"] = cpb /\ flash["CPB1"] = cpb)
    BY DEF load_cpb, IInv, FlagInv, Sequence, SyncInv
  <1>2. CASE LoadFails
    <2>1. Kept
      BY <1>2 DEF LoadFails, Kept
    <2>2. GoesOn
      BY <1>2 DEF LoadFails, Done, GoesOn
    <2> QED
      BY <1>1, <2>1, <2>2, LoadBuffer
  <1>3. CASE LoadSucceeds /\ UNCHANGED lib /\ \A c \in Copies : Good(flash[c]) /\ cpb' = flash[c]
    <2>1. cand # {} => cpb'.slots \in cand
      BY <1>3 DEF IInv, Anchored, Copies
    <2>2. Settled
      BY <1>1, <1>3, <2>1 DEF LoadSucceeds, Settled, lib
    <2>3. GoesOn
      BY <1>1, <1>3 DEF LoadSucceeds, Done, GoesOn, IInv, TypeOK
    <2> QED
      BY <1>1, <2>2, <2>3, LoadBuffer
  <1>4. CASE UNCHANGED <<call, cand>> /\ pc' = "erase_part"
    BY <1>1, <1>4, LoadBuffer DEF Kept, GoesOn, Sequence
  <1>5. CASE LoadReads(AllRead, TRUE)
    BY <1>2, <1>3, <1>4, <1>5 DEF LoadReads, check_both_cpb, Passes, Copies
  <1> QED
    BY <1>2, <1>5 DEF load_cpb, StatusFaultsOnly, Fault
--------------------------------------------------------------------------------
\* Counting the members of a set of slots up to a slot.

Upto(T, x) == {y \in 1..x : y \in T}
Count(T, x) == Cardinality(Upto(T, x))

\* What is counted is finite.
LEMMA CountType ==
  ASSUME NEW T, NEW x \in Int
  PROVE  IsFiniteSet(Upto(T, x)) /\ Count(T, x) \in Nat
  <1>1. IsFiniteSet(1..x)
    BY FS_Interval
  <1>2. Upto(T, x) \in SUBSET (1..x)
    BY DEF Upto
  <1>3. IsFiniteSet(Upto(T, x))
    BY <1>1, <1>2, FS_Subset
  <1>4. Cardinality(Upto(T, x)) \in Nat
    BY <1>3, FS_CardinalityType
  <1> QED
    BY <1>3, <1>4 DEF Count

\* A slot counts when it is a member.
LEMMA CountNext ==
  ASSUME NEW T, NEW x \in Nat \ {0}
  PROVE  Count(T, 0) = 0 /\ Count(T, x) = Count(T, x - 1) + IF x \in T THEN 1 ELSE 0
  <1>1. Upto(T, 0) = {}
    BY DEF Upto
  <1>2. Count(T, 0) = 0
    BY <1>1, FS_EmptySet DEF Count
  <1> DEFINE S == Upto(T, x - 1)
  <1>3. IsFiniteSet(S) /\ Count(T, x - 1) \in Nat
    <2>1. x - 1 \in Int
      OBVIOUS
    <2> HIDE DEF S
    <2> QED
      BY <2>1, CountType DEF S
  <1>4. x \notin S /\ Upto(T, x) = IF x \in T THEN S \cup {x} ELSE S
    BY DEF Upto
  <1> HIDE DEF S
  <1>5. Cardinality(S \cup {x}) = Cardinality(S) + 1
    BY <1>3, <1>4, FS_AddElement
  <1>6. Count(T, x - 1) = Cardinality(S)
    BY DEF Count, S
  <1> QED
    BY <1>2, <1>3, <1>4, <1>5, <1>6 DEF Count

\* The count grows, and strictly where it meets a member.
LEMMA CountGrows ==
  ASSUME NEW T, NEW x \in Nat, NEW y \in Nat, x < y
  PROVE  Count(T, x) <= Count(T, y) /\ (y \in T => Count(T, x) < Count(T, y))
  <1>1. IsFiniteSet(Upto(T, y)) /\ Count(T, x) \in Nat /\ Count(T, y) \in Nat
    <2>1. x \in Int /\ y \in Int
      OBVIOUS
    <2> QED
      BY <2>1, CountType
  <1>2. Upto(T, x) \in SUBSET Upto(T, y)
    BY DEF Upto
  <1>3. /\ Cardinality(Upto(T, x)) <= Cardinality(Upto(T, y))
        /\ Cardinality(Upto(T, y)) = Cardinality(Upto(T, x)) => Upto(T, y) = Upto(T, x)
    BY <1>1, <1>2, FS_Subset
  <1>4. y \in T => y \in Upto(T, y) /\ y \notin Upto(T, x)
    BY DEF Upto
  <1> QED
    BY <1>1, <1>3, <1>4 DEF Count

\* Every number up to the count of all is the count of a member.
LEMMA CountOnto ==
  ASSUME NEW n \in Nat, NEW T \in SUBSET (1..n), NEW k \in 1..Count(T, n)
  PROVE  \E x \in T : Count(T, x) = k
  <1> DEFINE f == [x \in T |-> Count(T, x)]
             m == Count(T, n)
  <1>1. T = Upto(T, n)
    BY DEF Upto
  <1>2. IsFiniteSet(T) /\ Cardinality(T) = m /\ m \in Nat
    BY <1>1, CountType DEF Count
  <1>3. IsFiniteSet(1..m) /\ Cardinality(1..m) = m
    BY <1>2, FS_Interval
  <1>4. \A x \in T : Count(T, x) \in 1..m
    <2> SUFFICES ASSUME NEW x \in T PROVE Count(T, x) \in 1..m
      OBVIOUS
    <2>1. x \in Nat \ {0} /\ x \in Int /\ 0 < x /\ x <= n
      OBVIOUS
    <2>2. Count(T, 0) = 0 /\ Count(T, x) \in Nat
      BY <2>1, CountNext, CountType
    <2>3. Count(T, 0) < Count(T, x)
      BY <2>1, CountGrows
    <2>4. Count(T, x) <= m
      BY <1>2, <2>1, <2>2, CountGrows
    <2> QED
      BY <1>2, <2>2, <2>3, <2>4
  <1>5. \A x, y \in T : x # y => Count(T, x) # Count(T, y)
    <2> SUFFICES ASSUME NEW x \in T, NEW y \in T, x < y PROVE Count(T, x) # Count(T, y)
      OBVIOUS
    <2>1. x \in Nat /\ y \in Nat /\ x \in Int /\ y \in Int
      OBVIOUS
    <2>2. Count(T, x) \in Nat /\ Count(T, y) \in Nat
      BY <2>1, CountType
    <2>3. Count(T, x) < Count(T, y)
      BY <2>1, CountGrows
    <2> QED
      BY <2>2, <2>3
  <1>6. f \in Injection(T, 1..m)
    <2> HIDE DEF m
    <2> QED
      BY <1>4, <1>5 DEF Injection, IsInjective
  <1>7. f \in Surjection(T, 1..m)
    <2> HIDE DEF f, m
    <2> QED
      BY <1>2, <1>3, <1>6, FS_Injection
  <1> QED
    BY <1>7 DEF Surjection

\* A set of slots that is not empty has a last member.
LEMMA LastOf ==
  ASSUME NEW n \in Nat, NEW T \in SUBSET (1..n), T # {}
  PROVE  \E x \in T : \A y \in T : y <= x
  <1>1. Count(T, n) \in Nat /\ \A x \in T : x \in Int /\ Count(T, x) \in Nat
    <2>1. n \in Int /\ \A x \in T : x \in Int
      OBVIOUS
    <2> QED
      BY <2>1, CountType
  <1>2. PICK z \in T : TRUE
    OBVIOUS
  <1>3. Count(T, 0) = 0
    <2>1. 1 \in Nat \ {0}
      OBVIOUS
    <2> QED
      BY <2>1, CountNext
  <1>4. 0 < Count(T, z)
    BY <1>3, CountGrows
  <1>5. Count(T, z) <= Count(T, n)
    BY <1>1, CountGrows
  <1>6. PICK x \in T : Count(T, x) = Count(T, n)
    BY <1>1, <1>4, <1>5, CountOnto
  <1>7. ASSUME NEW y \in T, x < y PROVE FALSE
    <2>1. Count(T, x) < Count(T, y)
      BY <1>7, CountGrows
    <2>2. Count(T, y) <= Count(T, n)
      BY <1>1, CountGrows
    <2> QED
      BY <1>1, <1>6, <2>1, <2>2
  <1>8. \A y \in T : y <= x
    BY <1>7
  <1> QED
    BY <1>8
--------------------------------------------------------------------------------
\* The pointers of a block by their place in the boot order.

Used(s) == {x \in Slots : InUse(s[x])}

\* Rank counts the slots in use; each place in the order is that of one slot.
LEMMA RankIs ==
  ASSUME NEW s
  PROVE  /\ \A x \in 0..NSlots : Rank(s, x) = Count(Used(s), x) /\ Rank(s, x) \in Nat
         /\ Rank(s, NSlots) <= NSlots
         /\ \A x \in Used(s) : Rank(s, x) \in 1..Rank(s, NSlots)
         /\ \A k \in 1..Rank(s, NSlots) : \E x \in Used(s) : Rank(s, x) = k
         /\ \A x, y \in Used(s) : x < y => Rank(s, x) < Rank(s, y)
  <1>1. NSlots \in Nat /\ Slots = 1..NSlots
    BY CpbAssumption DEF Slots
  <1>2. ASSUME NEW x \in 0..NSlots
        PROVE  Rank(s, x) = Count(Used(s), x) /\ Rank(s, x) \in Nat
    <2>1. {y \in 1..x : InUse(s[y])} = Upto(Used(s), x)
      BY <1>1 DEF Upto, Used
    <2>2. Rank(s, x) = Count(Used(s), x)
      BY <2>1 DEF Rank, Count
    <2>3. x \in Int
      OBVIOUS
    <2> QED
      BY <2>2, <2>3, CountType
  <1>3. NSlots \in 0..NSlots /\ 0 \in 0..NSlots
    BY <1>1
  <1>4. Rank(s, NSlots) <= NSlots
    <2>1. {y \in 1..NSlots : InUse(s[y])} \in SUBSET (1..NSlots)
      OBVIOUS
    <2>2. IsFiniteSet(1..NSlots) /\ Cardinality(1..NSlots) = NSlots
      BY <1>1, FS_Interval
    <2> QED
      BY <2>1, <2>2, FS_Subset DEF Rank
  <1>5. \A x \in Used(s) : x \in Nat /\ x \in 0..NSlots /\ 0 < x /\ x <= NSlots
    BY <1>1 DEF Used
  <1>6. \A x, y \in Used(s) : x < y => Rank(s, x) < Rank(s, y)
    BY <1>2, <1>5, CountGrows
  <1>7. ASSUME NEW x \in Used(s)
        PROVE  Rank(s, x) \in 1..Rank(s, NSlots)
    <2>1. Rank(s, x) \in Nat /\ Rank(s, NSlots) \in Nat
      BY <1>2, <1>3, <1>5
    <2>2. Count(Used(s), 0) = 0
      <3>1. 1 \in Nat \ {0}
        OBVIOUS
      <3> QED
        BY <3>1, CountNext
    <2>3. Count(Used(s), 0) < Count(Used(s), x)
      BY <1>5, CountGrows
    <2>4. Count(Used(s), x) <= Count(Used(s), NSlots)
      <3>1. CASE x = NSlots
        BY <1>2, <1>3, <3>1
      <3>2. CASE x < NSlots
        BY <1>1, <1>5, <3>2, CountGrows
      <3> QED
        BY <1>1, <1>5, <3>1, <3>2
    <2>5. Rank(s, x) = Count(Used(s), x) /\ Rank(s, NSlots) = Count(Used(s), NSlots)
      BY <1>2, <1>3, <1>5
    <2> QED
      BY <2>1, <2>2, <2>3, <2>4, <2>5
  <1>8. ASSUME NEW k \in 1..Rank(s, NSlots)
        PROVE  \E x \in Used(s) : Rank(s, x) = k
    <2>1. Used(s) \in SUBSET (1..NSlots)
      BY <1>1 DEF Used
    <2>2. k \in 1..Count(Used(s), NSlots)
      BY <1>2, <1>3
    <2>3. PICK x \in Used(s) : Count(Used(s), x) = k
      BY <1>1, <2>1, <2>2, CountOnto
    <2> QED
      BY <1>2, <1>5, <2>3
  <1> QED
    BY <1>2, <1>4, <1>6, <1>7, <1>8

\* A slot is the only one of its rank.
LEMMA RankOne ==
  ASSUME NEW s, NEW x \in Used(s), NEW y \in Used(s), Rank(s, x) = Rank(s, y)
  PROVE  x = y
  <1>1. x \in Nat /\ y \in Nat /\ x \in 0..NSlots /\ y \in 0..NSlots
    BY CpbAssumption DEF Used, Slots
  <1>2. Rank(s, x) \in Nat /\ (x < y => Rank(s, x) < Rank(s, y)) /\ (y < x => Rank(s, y) < Rank(s, x))
    BY <1>1, RankIs
  <1> QED
    BY <1>1, <1>2

\* A slot that is not in use leaves room.
LEMMA RankRoom ==
  ASSUME NEW s, NEW z \in Slots, ~InUse(s[z])
  PROVE  Rank(s, NSlots) < NSlots
  <1>1. NSlots \in Nat /\ z \in 1..NSlots
    BY CpbAssumption DEF Slots
  <1>2. IsFiniteSet(1..NSlots) /\ Cardinality(1..NSlots) = NSlots
    BY <1>1, FS_Interval
  <1> DEFINE U == {y \in 1..NSlots : InUse(s[y])}
  <1>3. U \in SUBSET (1..NSlots) /\ U # 1..NSlots
    BY <1>1
  <1>4. Rank(s, NSlots) = Cardinality(U)
    BY DEF Rank
  <1>5. Rank(s, NSlots) \in Nat
    BY <1>1, RankIs
  <1> HIDE DEF U
  <1>6. Cardinality(U) <= NSlots /\ (Cardinality(U) = NSlots => U = 1..NSlots)
    BY <1>2, <1>3, FS_Subset
  <1> QED
    BY <1>1, <1>3, <1>4, <1>5, <1>6

\* What Compressed leaves behind: the pointers in their order, then the new one.
LEMMA CompressedIs ==
  ASSUME NEW s, NEW p
  PROVE  /\ \A x \in Used(s) : Compressed(s, p)[Rank(s, x)] = s[x]
         /\ \A k \in Slots : k = Rank(s, NSlots) + 1 => Compressed(s, p)[k] = p
         /\ \A k \in Slots : k > Rank(s, NSlots) + 1 => Compressed(s, p)[k] = ERASED_ENTRY
  <1> DEFINE n == Rank(s, NSlots)
             Holds(k, x) == InUse(s[x]) /\ Rank(s, x) = k
  <1>1. n \in Nat /\ n <= NSlots /\ NSlots \in Nat
    BY CpbAssumption, RankIs
  <1>2. ASSUME NEW x \in Used(s)
        PROVE  Compressed(s, p)[Rank(s, x)] = s[x]
    <2>1. x \in Slots /\ Holds(Rank(s, x), x) /\ Rank(s, x) \in 1..n
      BY RankIs DEF Used
    <2>2. Rank(s, x) \in Slots /\ Rank(s, x) <= n
      BY <1>1, <2>1 DEF Slots
    <2>3. \A y \in Slots : Holds(Rank(s, x), y) => y = x
      BY RankOne DEF Used
    <2>4. (CHOOSE y \in Slots : Holds(Rank(s, x), y)) = x
      BY <2>1, <2>3
    <2> QED
      BY <2>1, <2>2, <2>4 DEF Compressed
  <1>3. ASSUME NEW k \in Slots, k > n
        PROVE  Compressed(s, p)[k] = IF k = n + 1 THEN p ELSE ERASED_ENTRY
    <2>1. ~(k <= n)
      BY <1>1, <1>3, CpbAssumption DEF Slots
    <2> HIDE DEF n
    <2> QED
      BY <2>1 DEF Compressed, n
  <1>4. \A k \in Slots : k \in Nat
    BY <1>1 DEF Slots
  <1> QED
    BY <1>1, <1>2, <1>3, <1>4
--------------------------------------------------------------------------------
\* No partition is in the boot order twice.

\* rsu_create_empty_cpb replaces a table that was refused, and may leave the other copy,
\* with whatever is in it, as the only good one (see the README).
NeverEmptied == "empty" \notin Api

Distinct(s) == \A x, y \in Slots : InUse(s[x]) /\ s[x] = s[y] => x = y
Absent(s, p) == \A x \in Slots : s[x] # p

\* The call that takes a partition out has done so in memory, or one is about to be added.
Out ==
    \/ pc = "priority_add"
    \/ call.fn \in {"remove", "enable"} /\ pc \in {"update_cpb", "load_cpb"} \cup Sequence

\* No table that may come back holds a partition twice.
DupInv ==
    /\ cand # {} /\ \A s \in cand : Distinct(s)
    /\ saved.magic = "ok" => Distinct(saved.slots)
    /\ Out => Absent(cpb.slots, call.part)

\* A slot without a priority is not in the block.
LEMMA NoPriority ==
  ASSUME NEW s, NEW p \in Parts, priority_get(s, p) <= 0
  PROVE  Absent(s, p)
  <1> DEFINE holds == {x \in Slots : s[x] = p}
             last == CHOOSE x \in holds : \A y \in holds : y <= x
             S == {y \in last..NSlots : InUse(s[y])}
  <1>1. SUFFICES ASSUME holds # {} PROVE FALSE
    BY DEF Absent
  <1>2. NSlots \in Nat /\ holds \in SUBSET (1..NSlots)
    BY CpbAssumption DEF Slots
  <1>3. last \in holds
    <2>1. \E x \in holds : \A y \in holds : y <= x
      BY <1>1, <1>2, LastOf
    <2> QED
      BY <2>1
  <1>4. last \in 1..NSlots /\ s[last] = p
    <2> HIDE DEF last
    <2> QED
      BY <1>2, <1>3
  <1>5. InUse(p)
    BY CpbAssumption DEF InUse
  <1> HIDE DEF last
  <1>6. last \in S
    BY <1>2, <1>4, <1>5
  <1>7. IsFiniteSet(last..NSlots)
    BY <1>2, <1>4, FS_Interval
  <1>8. IsFiniteSet(S)
    BY <1>7, FS_Subset
  <1>9. Cardinality(S) \in Nat /\ Cardinality(S) # 0
    <2> HIDE DEF S
    <2> QED
      BY <1>6, <1>8, FS_CardinalityType, FS_EmptySet
  <1>10. priority_get(s, p) = Cardinality(S)
    <2>1. holds # {}
      BY <1>1
    <2> QED
      BY <2>1 DEF priority_get, last
  <1> QED
    BY <1>9, <1>10

\* A partition in no slot has no priority.
LEMMA NoneIsZero ==
  ASSUME NEW s, NEW p, Absent(s, p)
  PROVE  priority_get(s, p) = 0
  BY DEF Absent, priority_get

\* Adding a partition that is absent, in a free slot or by compressing, keeps the order
\* free of duplicates; spending its only entry leaves it absent.
LEMMA KeepsDistinct ==
  ASSUME NEW s \in [Slots -> Entry], NEW p \in Parts, NEW z \in Slots, Distinct(s)
  PROVE  /\ Absent(s, p) => Distinct([s EXCEPT ![z] = p])
         /\ Distinct([s EXCEPT ![z] = SPENT_ENTRY])
         /\ s[z] = p => Absent([s EXCEPT ![z] = SPENT_ENTRY], p)
         /\ Absent(s, p) => Distinct(Compressed(s, p))
  <1>1. InUse(p) /\ ~InUse(SPENT_ENTRY) /\ ~InUse(ERASED_ENTRY) /\ p # SPENT_ENTRY
    BY CpbAssumption DEF InUse
  <1>2. Absent(s, p) => Distinct([s EXCEPT ![z] = p])
    BY DEF Absent, Distinct
  <1>3. Distinct([s EXCEPT ![z] = SPENT_ENTRY])
    BY <1>1 DEF Distinct
  <1>4. s[z] = p => Absent([s EXCEPT ![z] = SPENT_ENTRY], p)
    BY <1>1 DEF Absent, Distinct
  <1>5. ASSUME Absent(s, p) PROVE Distinct(Compressed(s, p))
    <2> DEFINE c == Compressed(s, p)
               n == Rank(s, NSlots)
    <2>1. n \in Nat /\ NSlots \in Nat
      BY CpbAssumption, RankIs
    <2>2. ASSUME NEW k \in Slots, InUse(c[k])
          PROVE  \/ k = n + 1 /\ c[k] = p
                 \/ \E x \in Used(s) : Rank(s, x) = k /\ c[k] = s[x]
      <3>1. k \in Nat /\ k >= 1
        BY <2>1 DEF Slots
      <3>2. ~(k > n + 1)
        BY <1>1, <2>2, CompressedIs
      <3>3. CASE k = n + 1
        BY <3>3, CompressedIs
      <3>4. CASE k <= n
        <4>1. k \in 1..n
          BY <2>1, <3>1, <3>4
        <4>2. PICK x \in Used(s) : Rank(s, x) = k
          BY <4>1, RankIs
        <4>3. c[Rank(s, x)] = s[x]
          BY CompressedIs
        <4> QED
          BY <4>2, <4>3
      <3> HIDE DEF n, c
      <3> QED
        BY <2>1, <3>1, <3>2, <3>3, <3>4
    <2>3. \A x \in Used(s) : x \in Slots /\ InUse(s[x]) /\ s[x] # p
      BY <1>5 DEF Used, Absent
    <2> HIDE DEF n, c
    <2>4. SUFFICES ASSUME NEW k \in Slots, NEW l \in Slots, InUse(c[k]), c[k] = c[l]
                   PROVE  k = l
      BY DEF Distinct, c
    <2>5. InUse(c[l])
      BY <2>4
    <2>6. CASE c[k] = p
      BY <2>2, <2>3, <2>4, <2>5, <2>6
    <2>7. CASE c[k] # p
      <3>1. PICK x \in Used(s) : Rank(s, x) = k /\ c[k] = s[x]
        BY <2>2, <2>4, <2>7
      <3>2. PICK y \in Used(s) : Rank(s, y) = l /\ c[l] = s[y]
        BY <2>2, <2>4, <2>5, <2>7
      <3>3. x = y
        BY <2>3, <2>4, <3>1, <3>2 DEF Distinct
      <3> QED
        BY <3>1, <3>2, <3>3
    <2> QED
      BY <2>6, <2>7
  <1> QED
    BY <1>2, <1>3, <1>4, <1>5

DInv == IInv /\ DupInv

RemovedStep == call.fn = "remove" /\ pc' = "idle" /\ ret' = "ok" => Absent(cpb'.slots, call.part)

\* Calls keep the order free of duplicates: one is added where it was absent.
LEMMA DupCall ==
  ASSUME StatusFaultsOnly, NeverEmptied, DInv, rsu_qspi_open \/ Calls
  PROVE  DupInv' /\ RemovedStep
  <1> USE DEF DInv
  <1>1. CASE rsu_qspi_open
    BY <1>1 DEF rsu_qspi_open, DupInv, Out, RemovedStep, Distinct, Absent
  <1>2. ASSUME NEW p \in Parts, rsu_slot_program_buf(p)
        PROVE  DupInv' /\ RemovedStep
    <2>1. /\ pc' = "priority_add" /\ call'.part = p /\ UNCHANGED <<cpb, cand, saved>>
          /\ priority_get(cpb.slots, p) <= 0
      BY <1>2 DEF rsu_slot_program_buf, Call
    <2>2. Absent(cpb.slots, p)
      BY <2>1, NoPriority
    <2> QED
      BY <2>1, <2>2 DEF DupInv, RemovedStep, Distinct, Absent
  <1>3. ASSUME NEW p \in Parts, rsu_slot_disable(p) \/ rsu_slot_enable(p)
        PROVE  DupInv' /\ RemovedStep
    BY <1>3 DEF rsu_slot_disable, rsu_slot_enable, Call, DupInv, Out, RemovedStep, Sequence,
                Distinct, Absent
  <1>4. CASE rsu_restore_cpb_from_buf
    <2>1. /\ cand' = cand \cup {saved.slots} /\ saved' = saved /\ saved.magic = "ok"
          /\ pc' = "erase_part" /\ call'.fn = "restore"
      BY <1>4 DEF rsu_restore_cpb_from_buf, Replace
    <2> QED
      BY <2>1 DEF DupInv, Out, RemovedStep, Distinct
  <1>5. CASE rsu_save_cpb_to_buf
    <2>1. /\ saved' = flash["CPB0"] /\ UNCHANGED <<cpb, cand, call, pc>> /\ pc = "idle"
          /\ ~cpb_corrupted
      BY <1>5 DEF rsu_save_cpb_to_buf, task
    <2>2. flash["CPB0"] = cpb /\ cpb.slots \in cand
      BY <2>1 DEF IInv, SyncInv
    <2>3. call.fn # "remove"
      BY <2>1 DEF IInv, CallInv
    <2> QED
      BY <2>1, <2>2, <2>3 DEF DupInv, Out, RemovedStep, Sequence, Distinct, Absent
  <1> QED
    BY <1>1, <1>2, <1>3, <1>4, <1>5
       DEF Calls, StatusFaultsOnly, NeverEmptied, rsu_slot_program_callback, rsu_create_empty_cpb

\* The change in memory: one partition more, or one less.
LEMMA DupPriority ==
  ASSUME StatusFaultsOnly, DInv, priority_add \/ priority_remove
  PROVE  DupInv' /\ RemovedStep
  <1> USE DEF DInv
  <1>1. /\ pc \in {"priority_add", "priority_remove"} /\ ~cpb_corrupted /\ saved' = saved
        /\ call.part \in Parts
        /\ pc = "priority_add" => call.fn = "add"
    BY DEF priority_add, priority_remove, IInv, FlagInv, Sequence, CallInv
  <1>2. cpb.slots \in [Slots -> Entry] /\ cpb.slots \in cand /\ Distinct(cpb.slots) /\ cpb \in Block
    BY <1>1 DEF IInv, SyncInv, TypeOK, Block, DupInv
  <1>3. ASSUME NEW e, NEW z \in Slots, cpb' = [cpb EXCEPT !.slots[z] = e]
        PROVE  cpb'.slots = [cpb.slots EXCEPT ![z] = e]
    BY <1>2, <1>3 DEF Block
  <1>4. CASE priority_add
    <2>1. Absent(cpb.slots, call.part) /\ call.fn = "add"
      BY <1>1, <1>4 DEF DupInv, Out, priority_add
    <2>2. ~Out' /\ RemovedStep
      BY <1>4, <2>1 DEF priority_add, Out, RemovedStep, Done, NoCall, Sequence
    <2>3. CASE cand' = cand \cup {cpb'.slots}
      <3>1. Distinct(cpb'.slots)
        <4>1. CASE \E x \in Slots : cpb' = [cpb EXCEPT !.slots[x] = call.part]
          <5>1. PICK x \in Slots : cpb' = [cpb EXCEPT !.slots[x] = call.part]
            BY <4>1
          <5>2. cpb'.slots = [cpb.slots EXCEPT ![x] = call.part]
            BY <1>3, <5>1
          <5>3. call.part \in Parts
            BY <1>1
          <5>4. Distinct([cpb.slots EXCEPT ![x] = call.part])
            BY <1>2, <2>1, <5>3, KeepsDistinct
          <5> QED
            BY <5>2, <5>4
        <4>2. CASE cpb' = [cpb EXCEPT !.slots = Compressed(cpb.slots, call.part)]
          <5>1. cpb'.slots = Compressed(cpb.slots, call.part)
            BY <1>2, <4>2 DEF Block
          <5>2. PICK z \in Slots : TRUE
            BY CpbAssumption DEF Slots
          <5> QED
            BY <1>1, <1>2, <2>1, <5>1, <5>2, KeepsDistinct
        <4>3. CASE UNCHANGED cpb
          BY <1>2, <4>3
        <4> QED
          BY <1>4, <4>1, <4>2, <4>3 DEF priority_add
      <3> QED
        BY <1>1, <2>2, <2>3, <3>1 DEF DupInv, Distinct
    <2>4. CASE UNCHANGED cand
      BY <1>1, <2>2, <2>4 DEF DupInv, Distinct
    <2> QED
      BY <1>4, <2>3, <2>4 DEF priority_add
  <1>5. CASE priority_remove
    <2>1. UNCHANGED call /\ pc' \in {"update_cpb", "load_cpb"} /\ RemovedStep
      BY <1>5 DEF priority_remove, RemovedStep
    <2>2. CASE \E x \in Slots : /\ IsFirst(cpb.slots, call.part, x)
                                /\ cpb' = [cpb EXCEPT !.slots[x] = SPENT_ENTRY]
                                /\ cand' = cand \cup {cpb'.slots}
      <3>1. PICK x \in Slots : /\ IsFirst(cpb.slots, call.part, x)
                               /\ cpb' = [cpb EXCEPT !.slots[x] = SPENT_ENTRY]
                               /\ cand' = cand \cup {cpb'.slots}
        BY <2>2
      <3>2. cpb'.slots = [cpb.slots EXCEPT ![x] = SPENT_ENTRY] /\ cpb.slots[x] = call.part
        BY <1>3, <3>1 DEF IsFirst
      <3>3. Distinct(cpb'.slots) /\ Absent(cpb'.slots, call.part)
        BY <1>1, <1>2, <3>2, KeepsDistinct
      <3> QED
        BY <1>1, <2>1, <3>1, <3>3 DEF DupInv, Distinct, Absent
    <2>3. CASE UNCHANGED <<cpb, cand>> /\ \A x \in Slots : cpb.slots[x] # call.part
      BY <1>1, <2>1, <2>3 DEF DupInv, Distinct, Absent
    <2> QED
      BY <1>5, <2>2, <2>3 DEF priority_remove
  <1> QED
    BY <1>4, <1>5

\* The steps that write or load the block settle on what there is.
LEMMA DupRest ==
  ASSUME StatusFaultsOnly, DInv, update_cpb \/ erase_part \/ write_table \/ write_magic \/ load_cpb
  PROVE  DupInv' /\ RemovedStep
  <1> USE DEF DInv
  <1>1. pc \in {"update_cpb", "load_cpb"} \cup Sequence
    BY DEF update_cpb, erase_part, write_table, write_magic, load_cpb, Sequence
  <1>2. CASE update_cpb
    BY <1>1, <1>2 DEF update_cpb, DupInv, Out, RemovedStep, Distinct, Absent, Sequence
  <1>3. CASE ~update_cpb
    <2>1. /\ saved' = saved /\ (Kept \/ Settled) /\ GoesOn
          /\ call.fn # "init" => cpb'.slots = cpb.slots
      BY <1>3, RewriteCand, LoadCand
    <2>2. cand' # {} /\ \A s \in cand' : s \in cand
      BY <2>1 DEF Kept, Settled, DupInv
    <2>3. call.fn \in {"remove", "enable"} => Absent(cpb.slots, call.part)
      BY <1>1 DEF DupInv, Out
    <2>4. Out' => call.fn \in {"remove", "enable"} /\ call'.part = call.part
      BY <2>1 DEF GoesOn, Out, NoCall, Sequence
    <2>5. Out' => Absent(cpb'.slots, call'.part)
      BY <2>1, <2>3, <2>4
    <2>6. RemovedStep
      BY <2>1, <2>3 DEF RemovedStep
    <2> QED
      BY <2>1, <2>2, <2>5, <2>6 DEF DupInv, Distinct, Absent
  <1> QED
    BY <1>2, <1>3

\* Every step keeps the invariant, and a removal that ends well has taken the slot out.
LEMMA DupStep ==
  ASSUME StatusFaultsOnly, NeverEmptied, DInv, [Next]_vars
  PROVE  DInv' /\ (RemovedStep \/ UNCHANGED vars)
  <1>1. IInv'
    BY IStep DEF DInv
  <1>2. CASE UNCHANGED vars
    BY <1>1, <1>2 DEF DInv, vars, task, DupInv, Out, Distinct, Absent, Sequence
  <1>3. CASE PowerLoss \/ CpuReset
    <2>1. pc' = "closed" /\ call' = NoCall /\ UNCHANGED <<cpb, saved, cand>>
      BY <1>3 DEF PowerLoss, CpuReset, Stops
    <2> QED
      BY <1>1, <2>1 DEF DInv, DupInv, Out, RemovedStep, NoCall, Sequence, Distinct, Absent
  <1> QED
    BY <1>1, <1>2, <1>3, DupCall, DupPriority, DupRest DEF DInv, Next, Steps

\* The programming file's order has no duplicates.
LEMMA DupInit == Init => DInv
  <1> SUFFICES ASSUME Init PROVE DInv
    OBVIOUS
  <1>1. PICK s \in [Slots -> Parts \cup {ERASED_ENTRY}] :
           (\A x \in Slots : x > 1 => s[x] = ERASED_ENTRY) /\ cand = {s}
    BY DEF Init
  <1>2. Distinct(s)
    BY <1>1, CpbAssumption DEF Distinct, InUse, Slots
  <1>3. pc = "closed" /\ saved = Blank /\ call = NoCall
    BY DEF Init
  <1> QED
    BY <1>1, <1>2, <1>3, IInit, BlankType DEF DInv, DupInv, Out, NoCall, Sequence, Distinct

\* No partition is in the boot order twice, whatever is cut short: a partition is added
\* where it was looked for and not found, or after it was taken out.
THEOREM CpbNoDuplicate == StatusFaultsOnly /\ NeverEmptied => (Spec => []NoDuplicate)
  <1> SUFFICES ASSUME StatusFaultsOnly, NeverEmptied PROVE Spec => []NoDuplicate
    OBVIOUS
  <1>1. Init => DInv
    BY DupInit
  <1>2. DInv /\ [Next]_vars => DInv'
    BY DupStep
  <1>3. DInv => NoDuplicate
    BY DEF DInv, DupInv, IInv, SyncInv, NoDuplicate, Distinct
  <1> QED
    BY <1>1, <1>2, <1>3, PTL DEF Spec

\* A disable or erase that reports success has left the slot without a priority.
THEOREM CpbRemoved == StatusFaultsOnly /\ NeverEmptied => (Spec => Removed)
  <1> SUFFICES ASSUME StatusFaultsOnly, NeverEmptied PROVE Spec => Removed
    OBVIOUS
  <1>1. Init => DInv
    BY DupInit
  <1>2. DInv /\ [Next]_vars => DInv' /\ (RemovedStep \/ UNCHANGED vars)
    BY DupStep
  <1>3. RemovedStep => (call.fn = "remove" /\ pc' = "idle" /\ ret' = "ok"
                          => priority_get(cpb'.slots, call.part) = 0)
    BY NoneIsZero DEF RemovedStep
  <1> QED
    BY <1>1, <1>2, <1>3, PTL DEF Spec, Removed
--------------------------------------------------------------------------------
\* The boot order of a block, and what a change of the block does to it.

\* A boot order is as long as there are pointers, and each pointer stands at its rank.
LEMMA OrderIs ==
  ASSUME NEW s
  PROVE  /\ Rank(s, NSlots) \in Nat /\ Rank(s, NSlots) <= NSlots
         /\ DOMAIN BootOrder(s) = 1..Rank(s, NSlots)
         /\ Len(BootOrder(s)) = Rank(s, NSlots)
         /\ \A x \in Used(s) : BootOrder(s)[Rank(s, x)] = s[x]
         /\ \A k \in 1..Rank(s, NSlots) : \E x \in Used(s) : Rank(s, x) = k /\ BootOrder(s)[k] = s[x]
  <1> DEFINE n == Rank(s, NSlots)
  <1>1. n \in Nat /\ n <= NSlots
    BY CpbAssumption, RankIs
  <1>2. DOMAIN BootOrder(s) = 1..n
    BY DEF BootOrder
  <1>3. \E X : BootOrder(s) \in [1..n -> X]
    <2>1. BootOrder(s) \in [1..n -> {s[CHOOSE x \in Slots : InUse(s[x]) /\ Rank(s, x) = k] : k \in 1..n}]
      BY DEF BootOrder
    <2> QED
      BY <2>1
  <1>4. Len(BootOrder(s)) = n
    BY <1>1, <1>3
  <1>5. ASSUME NEW x \in Used(s)
        PROVE  BootOrder(s)[Rank(s, x)] = s[x]
    <2> DEFINE Holds(y) == InUse(s[y]) /\ Rank(s, y) = Rank(s, x)
    <2>1. x \in Slots /\ Holds(x) /\ Rank(s, x) \in 1..n
      BY RankIs DEF Used
    <2>2. \A y \in Slots : Holds(y) => y = x
      BY RankOne DEF Used
    <2>3. (CHOOSE y \in Slots : Holds(y)) = x
      BY <2>1, <2>2
    <2> QED
      BY <2>1, <2>3 DEF BootOrder
  <1>6. ASSUME NEW k \in 1..n
        PROVE  \E x \in Used(s) : Rank(s, x) = k /\ BootOrder(s)[k] = s[x]
    BY <1>5, RankIs
  <1> QED
    BY <1>1, <1>2, <1>4, <1>5, <1>6

\* A list that has each pointer at its rank is the boot order.
LEMMA OrderOnly ==
  ASSUME NEW s, NEW l, NEW X, l \in [1..Rank(s, NSlots) -> X],
         \A x \in Used(s) : l[Rank(s, x)] = s[x]
  PROVE  BootOrder(s) = l
  <1> DEFINE n == Rank(s, NSlots)
  <1>1. \A k \in 1..n : BootOrder(s)[k] = l[k]
    BY OrderIs
  <1>2. BootOrder(s) = [k \in 1..n |-> BootOrder(s)[k]]
    BY DEF BootOrder
  <1>3. l = [k \in 1..n |-> l[k]]
    OBVIOUS
  <1> QED
    BY <1>1, <1>2, <1>3

\* The boot order is a list of the block's pointers.
LEMMA OrderType ==
  ASSUME NEW s, NEW X, \A x \in Used(s) : s[x] \in X
  PROVE  BootOrder(s) \in [1..Rank(s, NSlots) -> X] /\ BootOrder(s) \in Seq(X)
  <1>1. \A k \in 1..Rank(s, NSlots) : BootOrder(s)[k] \in X
    BY OrderIs
  <1>2. BootOrder(s) = [k \in 1..Rank(s, NSlots) |-> BootOrder(s)[k]]
    BY DEF BootOrder
  <1>3. BootOrder(s) \in [1..Rank(s, NSlots) -> X]
    BY <1>1, <1>2
  <1>4. Rank(s, NSlots) \in Nat
    BY OrderIs
  <1> QED
    BY <1>3, <1>4

\* A block without pointers has the empty boot order.
LEMMA OrderEmpty ==
  ASSUME NEW s, Used(s) = {}
  PROVE  BootOrder(s) = <<>>
  <1>1. Rank(s, NSlots) \in Nat /\ ~(1 \in 1..Rank(s, NSlots))
    BY OrderIs
  <1>2. 1..Rank(s, NSlots) = {}
    BY <1>1
  <1>3. DOMAIN BootOrder(s) = {} /\ BootOrder(s) \in Seq({})
    BY <1>2, OrderIs, OrderType
  <1> QED
    BY <1>3

\* The rank depends on the slots before only.
LEMMA RankSame ==
  ASSUME NEW s, NEW t, NEW x, \A y \in 1..x : InUse(s[y]) <=> InUse(t[y])
  PROVE  Rank(s, x) = Rank(t, x)
  <1>1. {y \in 1..x : InUse(s[y])} = {y \in 1..x : InUse(t[y])}
    OBVIOUS
  <1> QED
    BY <1>1 DEF Rank

\* The rank goes up by one at a pointer.
LEMMA RankNext ==
  ASSUME NEW s, NEW x \in Slots
  PROVE  /\ Rank(s, 0) = 0 /\ Rank(s, x - 1) \in Nat
         /\ Rank(s, x) = Rank(s, x - 1) + IF InUse(s[x]) THEN 1 ELSE 0
  <1>1. x \in Nat \ {0} /\ x \in 0..NSlots /\ x - 1 \in 0..NSlots /\ 0 \in 0..NSlots
    BY CpbAssumption DEF Slots
  <1>2. /\ Rank(s, x) = Count(Used(s), x) /\ Rank(s, x - 1) = Count(Used(s), x - 1)
        /\ Rank(s, 0) = Count(Used(s), 0) /\ Rank(s, x - 1) \in Nat
    BY <1>1, RankIs
  <1>3. /\ Count(Used(s), 0) = 0
        /\ Count(Used(s), x) = Count(Used(s), x - 1) + IF x \in Used(s) THEN 1 ELSE 0
    BY <1>1, CountNext
  <1>4. x \in Used(s) <=> InUse(s[x])
    BY DEF Used
  <1> QED
    BY <1>2, <1>3, <1>4

\* What Append gives.
LEMMA Appended ==
  ASSUME NEW X, NEW v \in Seq(X), NEW p \in X
  PROVE  /\ Append(v, p) \in [1..(Len(v) + 1) -> X]
         /\ Append(v, p)[Len(v) + 1] = p
         /\ \A k \in 1..Len(v) : Append(v, p)[k] = v[k]
  <1> DEFINE l == Append(v, p)
  <1>1. l \in Seq(X) /\ Len(l) = Len(v) + 1 /\ Len(v) \in Nat
    OBVIOUS
  <1>2. l[Len(v) + 1] = p /\ \A k \in 1..Len(v) : l[k] = v[k]
    OBVIOUS
  <1> HIDE DEF l
  <1>3. l \in [1..(Len(v) + 1) -> X]
    BY <1>1
  <1> QED
    BY <1>2, <1>3 DEF l

\* The erased entries come last.
Packed(s) == \A x, y \in Slots : x < y /\ s[x] = ERASED_ENTRY => s[y] = ERASED_ENTRY

\* A pointer in the first erased entry is the last of the boot order.
LEMMA OrderAdd ==
  ASSUME NEW s \in [Slots -> Entry], NEW p \in Parts, NEW z \in Slots,
         Packed(s), IsFirst(s, ERASED_ENTRY, z)
  PROVE  BootOrder([s EXCEPT ![z] = p]) = Append(BootOrder(s), p)
  <1> DEFINE t == [s EXCEPT ![z] = p]
             n == Rank(s, NSlots)
             X == Entry \cup Parts
             l == Append(BootOrder(s), p)
  <1>1. NSlots \in Nat /\ Slots = 1..NSlots /\ z \in 1..NSlots /\ n \in Nat
    BY CpbAssumption, RankIs DEF Slots
  <1>2. InUse(p) /\ ~InUse(ERASED_ENTRY) /\ s[z] = ERASED_ENTRY
    BY CpbAssumption DEF InUse, IsFirst
  <1>3. t[z] = p /\ \A y \in Slots \ {z} : t[y] = s[y]
    OBVIOUS
  <1>4. \A y \in Slots : y > z => ~InUse(s[y]) /\ ~InUse(t[y])
    BY <1>1, <1>2, <1>3 DEF Packed
  <1> HIDE DEF t
  <1>5. Rank(t, z - 1) = Rank(s, z - 1)
    <2>1. \A y \in 1..(z - 1) : InUse(s[y]) <=> InUse(t[y])
      BY <1>1, <1>3
    <2> QED
      BY <2>1, RankSame
  <1>6. Rank(t, z) = Rank(s, z) + 1
    <2>1. Rank(s, z - 1) \in Nat /\ Rank(s, z) = Rank(s, z - 1)
      BY <1>2, RankNext
    <2>2. Rank(t, z) = Rank(t, z - 1) + 1
      BY <1>2, <1>3, RankNext
    <2> QED
      BY <1>5, <2>1, <2>2
  <1>7. Rank(s, z) = n /\ Rank(t, z) = Rank(t, NSlots)
    <2>1. {y \in 1..NSlots : InUse(s[y])} = {y \in 1..z : InUse(s[y])}
      BY <1>1, <1>4
    <2>2. {y \in 1..NSlots : InUse(t[y])} = {y \in 1..z : InUse(t[y])}
      BY <1>1, <1>4
    <2> QED
      BY <2>1, <2>2 DEF Rank
  <1>8. Rank(t, NSlots) = n + 1 /\ Rank(t, z) = n + 1
    BY <1>6, <1>7
  <1>9. BootOrder(s) \in Seq(X) /\ Len(BootOrder(s)) = n /\ DOMAIN BootOrder(s) = 1..n
    <2>1. \A x \in Used(s) : s[x] \in X
      BY DEF Used
    <2> QED
      BY <2>1, OrderType, OrderIs
  <1>10. l \in [1..(n + 1) -> X] /\ l[n + 1] = p /\ \A k \in 1..n : l[k] = BootOrder(s)[k]
    <2>1. p \in X
      OBVIOUS
    <2> HIDE DEF X, n
    <2> QED
      BY <1>9, <2>1, Appended
  <1>11. \A x \in Used(t) : l[Rank(t, x)] = t[x]
    <2> SUFFICES ASSUME NEW x \in Used(t) PROVE l[Rank(t, x)] = t[x]
      OBVIOUS
    <2>1. x \in Slots /\ InUse(t[x])
      BY DEF Used
    <2>2. CASE x = z
      BY <1>3, <1>8, <1>10, <2>2
    <2>3. CASE x # z
      <3>1. x < z /\ t[x] = s[x] /\ x \in Used(s)
        BY <1>1, <1>3, <1>4, <2>1, <2>3 DEF Used
      <3>2. \A y \in 1..x : InUse(s[y]) <=> InUse(t[y])
        BY <1>1, <1>3, <2>1, <3>1
      <3>3. Rank(t, x) = Rank(s, x)
        BY <3>2, RankSame
      <3>4. Rank(s, x) \in 1..n /\ BootOrder(s)[Rank(s, x)] = s[x]
        BY <3>1, RankIs, OrderIs
      <3> HIDE DEF n, l
      <3> QED
        BY <1>10, <3>1, <3>3, <3>4
    <2> QED
      BY <2>2, <2>3
  <1> HIDE DEF l, n, X
  <1>12. l \in [1..Rank(t, NSlots) -> X]
    BY <1>8, <1>10
  <1>13. BootOrder(t) = l
    BY <1>11, <1>12, OrderOnly
  <1> QED
    BY <1>13 DEF t, l

\* A compressed block has the same boot order, and the new pointer behind it.
LEMMA OrderCompressed ==
  ASSUME NEW s \in [Slots -> Entry], NEW p \in Parts, NEW z \in Slots, ~InUse(s[z])
  PROVE  /\ BootOrder(Compressed(s, p)) = Append(BootOrder(s), p)
         /\ Packed(Compressed(s, p))
  <1> DEFINE t == Compressed(s, p)
             n == Rank(s, NSlots)
             X == Entry \cup Parts
             l == Append(BootOrder(s), p)
  <1>1. NSlots \in Nat /\ Slots = 1..NSlots /\ n \in Nat /\ n + 1 \in Slots
    BY CpbAssumption, RankIs, RankRoom DEF Slots
  <1>2. InUse(p) /\ ~InUse(ERASED_ENTRY)
    BY CpbAssumption DEF InUse
  <1>3. t[n + 1] = p /\ (\A k \in Slots : k > n + 1 => t[k] = ERASED_ENTRY)
    BY <1>1, CompressedIs
  <1>4. ASSUME NEW k \in 1..n
        PROVE  InUse(t[k]) /\ t[k] = BootOrder(s)[k]
    <2>1. PICK x \in Used(s) : Rank(s, x) = k /\ BootOrder(s)[k] = s[x]
      BY OrderIs
    <2>2. t[Rank(s, x)] = s[x] /\ InUse(s[x])
      BY CompressedIs DEF Used
    <2> QED
      BY <2>1, <2>2
  <1> HIDE DEF t, n
  <1>5. \A k \in Slots : InUse(t[k]) <=> k <= n + 1
    <2> SUFFICES ASSUME NEW k \in Slots PROVE InUse(t[k]) <=> k <= n + 1
      OBVIOUS
    <2>1. k \in Nat /\ k >= 1
      BY <1>1
    <2>2. CASE k <= n
      BY <1>1, <1>4, <2>1, <2>2
    <2>3. CASE k = n + 1
      BY <1>2, <1>3, <2>3
    <2>4. CASE k > n + 1
      BY <1>1, <1>2, <1>3, <2>1, <2>4
    <2> QED
      BY <1>1, <2>1, <2>2, <2>3, <2>4
  <1>6. \A k \in 1..(n + 1) : Rank(t, k) = k
    <2> SUFFICES ASSUME NEW k \in 1..(n + 1) PROVE Rank(t, k) = k
      OBVIOUS
    <2>1. {y \in 1..k : InUse(t[y])} = 1..k
      BY <1>1, <1>5
    <2>2. Cardinality(1..k) = k
      BY <1>1, FS_Interval
    <2> QED
      BY <2>1, <2>2 DEF Rank
  <1>7. Rank(t, NSlots) = n + 1
    <2>1. {y \in 1..NSlots : InUse(t[y])} = 1..(n + 1)
      BY <1>1, <1>5
    <2>2. Cardinality(1..(n + 1)) = n + 1
      BY <1>1, FS_Interval
    <2> QED
      BY <2>1, <2>2 DEF Rank
  <1>8. BootOrder(s) \in Seq(X) /\ Len(BootOrder(s)) = n /\ DOMAIN BootOrder(s) = 1..n
    <2>1. \A x \in Used(s) : s[x] \in X
      BY DEF Used
    <2> QED
      BY <2>1, OrderType, OrderIs DEF n
  <1>9. l \in [1..(n + 1) -> X] /\ l[n + 1] = p /\ \A k \in 1..n : l[k] = BootOrder(s)[k]
    <2>1. p \in X
      OBVIOUS
    <2> HIDE DEF X
    <2> QED
      BY <1>8, <2>1, Appended
  <1>10. \A x \in Used(t) : l[Rank(t, x)] = t[x]
    <2> SUFFICES ASSUME NEW x \in Used(t) PROVE l[Rank(t, x)] = t[x]
      OBVIOUS
    <2>1. x \in 1..(n + 1) /\ Rank(t, x) = x
      BY <1>1, <1>5, <1>6 DEF Used
    <2> HIDE DEF l
    <2>2. l[x] = t[x]
      <3>1. CASE x = n + 1
        BY <1>3, <1>9, <3>1
      <3>2. CASE x \in 1..n
        BY <1>4, <1>9, <3>2
      <3> QED
        BY <1>1, <2>1, <3>1, <3>2
    <2> QED
      BY <2>1, <2>2
  <1> HIDE DEF l, X
  <1>11. BootOrder(t) = l
    <2>1. l \in [1..Rank(t, NSlots) -> X]
      BY <1>7, <1>9
    <2> QED
      BY <1>10, <2>1, OrderOnly
  <1>12. Packed(t)
    <2> SUFFICES ASSUME NEW x \in Slots, NEW y \in Slots, x < y, t[x] = ERASED_ENTRY
                 PROVE  t[y] = ERASED_ENTRY
      BY DEF Packed
    <2>1. ~(x <= n + 1)
      BY <1>2, <1>5
    <2> QED
      BY <1>1, <1>3, <2>1
  <1> QED
    BY <1>11, <1>12 DEF t, l

\* A sequence without its i-th member.
LEMMA CutOut ==
  ASSUME NEW X, NEW v \in Seq(X), NEW i \in 1..Len(v)
  PROVE  LET l == SubSeq(v, 1, i - 1) \o SubSeq(v, i + 1, Len(v))
         IN  /\ l \in [1..(Len(v) - 1) -> X]
             /\ \A j \in 1..(i - 1) : l[j] = v[j]
             /\ \A j \in i..(Len(v) - 1) : l[j] = v[j + 1]
  <1> DEFINE a == SubSeq(v, 1, i - 1)
             b == SubSeq(v, i + 1, Len(v))
             l == a \o b
  <1>1. Len(v) \in Nat /\ i \in Nat /\ i >= 1 /\ i <= Len(v)
    OBVIOUS
  <1>2. a \in Seq(X) /\ Len(a) = i - 1 /\ \A j \in 1..(i - 1) : a[j] = v[j]
    BY <1>1
  <1>3. b \in Seq(X) /\ Len(b) = Len(v) - i /\ \A j \in 1..(Len(v) - i) : b[j] = v[i + j]
    BY <1>1
  <1> HIDE DEF a, b
  <1>n. a \in Seq(X) /\ b \in Seq(X)
    BY <1>2, <1>3
  <1>4. l \in Seq(X) /\ Len(l) = Len(a) + Len(b)
    BY <1>n
  <1>5. \A j \in 1..Len(a) : l[j] = a[j]
    BY <1>n
  <1>6. \A j \in (Len(a) + 1)..(Len(a) + Len(b)) : l[j] = b[j - Len(a)]
    BY <1>n
  <1> HIDE DEF l
  <1>7. Len(l) = Len(v) - 1
    BY <1>1, <1>2, <1>3, <1>4
  <1>8. l \in [1..(Len(v) - 1) -> X]
    BY <1>4, <1>7
  <1>9. \A j \in 1..(i - 1) : l[j] = v[j]
    BY <1>2, <1>5
  <1>10. ASSUME NEW j \in i..(Len(v) - 1) PROVE l[j] = v[j + 1]
    <2>1. j \in (Len(a) + 1)..(Len(a) + Len(b)) /\ j - Len(a) = j - i + 1
      BY <1>1, <1>2, <1>3
    <2>2. j - i + 1 \in 1..(Len(v) - i) /\ i + (j - i + 1) = j + 1
      BY <1>1
    <2> QED
      BY <1>3, <1>6, <2>1, <2>2
  <1> QED
    BY <1>8, <1>9, <1>10 DEF l, a, b

\* Spending the first entry of a partition takes its first place out of the boot order.
LEMMA OrderRemove ==
  ASSUME NEW s \in [Slots -> Entry], NEW p \in Parts, NEW z \in Slots, IsFirst(s, p, z)
  PROVE  BootOrder([s EXCEPT ![z] = SPENT_ENTRY]) = Boot!Without(BootOrder(s), p)
  <1> DEFINE t == [s EXCEPT ![z] = SPENT_ENTRY]
             v == BootOrder(s)
             n == Rank(s, NSlots)
             i == Rank(s, z)
             l == SubSeq(v, 1, i - 1) \o SubSeq(v, i + 1, Len(v))
  <1>1. NSlots \in Nat /\ Slots = 1..NSlots /\ z \in 1..NSlots /\ n \in Nat
    BY CpbAssumption, RankIs DEF Slots
  <1>2. InUse(p) /\ ~InUse(SPENT_ENTRY) /\ s[z] = p
    BY CpbAssumption DEF InUse, IsFirst
  <1>3. t[z] = SPENT_ENTRY /\ \A y \in Slots \ {z} : t[y] = s[y]
    OBVIOUS
  <1>4. z \in Used(s) /\ i \in 1..n /\ v[i] = p
    BY <1>2, RankIs, OrderIs DEF Used
  <1>5. v \in Seq(Entry) /\ Len(v) = n /\ DOMAIN v = 1..n
    <2>1. \A x \in Used(s) : s[x] \in Entry
      BY DEF Used
    <2> QED
      BY <2>1, OrderType, OrderIs
  <1>6. \A j \in 1..(i - 1) : v[j] # p
    <2> SUFFICES ASSUME NEW j \in 1..(i - 1) PROVE v[j] # p
      OBVIOUS
    <2>1. j \in 1..n /\ j < i
      BY <1>1, <1>4
    <2>2. PICK x \in Used(s) : Rank(s, x) = j /\ v[j] = s[x]
      BY <2>1, OrderIs
    <2>3. x \in Slots /\ ~(z < x) /\ x # z
      <3>1. z < x => i < Rank(s, x)
        BY <1>4, RankIs
      <3>2. x = z => Rank(s, x) = i
        OBVIOUS
      <3> HIDE DEF i
      <3> QED
        BY <1>1, <1>4, <2>1, <2>2, <3>1, <3>2 DEF Used
    <2>4. x \in 1..(z - 1)
      BY <1>1, <2>3
    <2> QED
      BY <2>2, <2>4 DEF IsFirst
  <1>7. Boot!Without(v, p) = l
    <2>1. ~(\A j \in DOMAIN v : v[j] # p)
      BY <1>4, <1>5
    <2> DEFINE First1(j) == v[j] = p /\ \A k \in 1..(j - 1) : v[k] # p
    <2>2. i \in DOMAIN v /\ First1(i)
      BY <1>4, <1>5, <1>6
    <2>3. ASSUME NEW j \in DOMAIN v, First1(j) PROVE j = i
      <3>1. j \in 1..n /\ ~(j \in 1..(i - 1)) /\ ~(i \in 1..(j - 1))
        BY <1>4, <1>5, <1>6, <2>3
      <3> QED
        BY <1>1, <1>4, <3>1
    <2>4. (CHOOSE j \in DOMAIN v : First1(j)) = i
      BY <2>2, <2>3
    <2> QED
      BY <2>1, <2>4 DEF Boot!Without
  <1> HIDE DEF t, v, n, i
  <1>8. \A x \in 1..(z - 1) : Rank(t, x) = Rank(s, x)
    <2> SUFFICES ASSUME NEW x \in 1..(z - 1) PROVE Rank(t, x) = Rank(s, x)
      OBVIOUS
    <2>1. \A y \in 1..x : InUse(s[y]) <=> InUse(t[y])
      BY <1>1, <1>3
    <2> QED
      BY <2>1, RankSame
  <1>9. \A x \in z..NSlots : Rank(t, x) = Rank(s, x) - 1
    <2> SUFFICES ASSUME NEW x \in z..NSlots PROVE Rank(t, x) = Rank(s, x) - 1
      OBVIOUS
    <2> DEFINE S == {y \in 1..x : InUse(s[y])}
    <2>1. {y \in 1..x : InUse(t[y])} = S \ {z}
      BY <1>1, <1>2, <1>3
    <2>2. IsFiniteSet(1..x)
      BY <1>1, FS_Interval
    <2>3. IsFiniteSet(S) /\ z \in S
      BY <1>1, <1>2, <2>2, FS_Subset
    <2> HIDE DEF S
    <2>4. Cardinality(S \ {z}) = Cardinality(S) - 1
      BY <2>3, FS_RemoveElement
    <2> QED
      BY <2>1, <2>4 DEF Rank, S
  <1>10. Rank(t, NSlots) = n - 1
    BY <1>1, <1>9 DEF n
  <1>11. /\ l \in [1..(n - 1) -> Entry]
         /\ \A j \in 1..(i - 1) : l[j] = v[j]
         /\ \A j \in i..(n - 1) : l[j] = v[j + 1]
    BY <1>1, <1>4, <1>5, CutOut
  <1>12. \A x \in Used(t) : l[Rank(t, x)] = t[x]
    <2> SUFFICES ASSUME NEW x \in Used(t) PROVE l[Rank(t, x)] = t[x]
      OBVIOUS
    <2>1. x \in Slots /\ x # z /\ t[x] = s[x] /\ x \in Used(s) /\ x \in Nat
      BY <1>1, <1>2, <1>3 DEF Used
    <2>2. Rank(s, x) \in 1..n /\ v[Rank(s, x)] = s[x]
      BY <2>1, RankIs, OrderIs DEF v, n
    <2> HIDE DEF l
    <2>3. CASE x < z
      <3>1. Rank(s, x) < i
        BY <1>4, <2>1, <2>3, RankIs DEF i
      <3>2. x \in 1..(z - 1) /\ Rank(s, x) \in 1..(i - 1)
        BY <1>1, <1>4, <2>1, <2>2, <2>3, <3>1
      <3> QED
        BY <1>8, <1>11, <2>1, <2>2, <3>2
    <2>4. CASE x > z
      <3>1. i < Rank(s, x)
        BY <1>4, <2>1, <2>4, RankIs DEF i
      <3>2. x \in z..NSlots /\ Rank(s, x) - 1 \in i..(n - 1)
        BY <1>1, <1>4, <2>1, <2>2, <2>4, <3>1
      <3>3. l[Rank(s, x) - 1] = v[Rank(s, x) - 1 + 1]
        BY <1>11, <3>2
      <3>4. Rank(s, x) - 1 + 1 = Rank(s, x)
        BY <1>1, <2>2
      <3> QED
        BY <1>9, <2>1, <2>2, <3>2, <3>3, <3>4
    <2> QED
      BY <1>1, <2>1, <2>3, <2>4
  <1> HIDE DEF l
  <1>13. l \in [1..Rank(t, NSlots) -> Entry]
    BY <1>10, <1>11
  <1>14. BootOrder(t) = l
    BY <1>12, <1>13, OrderOnly
  <1> QED
    BY <1>7, <1>14 DEF t, v
--------------------------------------------------------------------------------
\* The pointer block implements BootList.

\* No good copy, and no block that is being written or was saved, has an erased entry in
\* front of a pointer: that is why the first erased entry is the end of the boot order.
PackedInv ==
    /\ \A c \in Copies : Good(flash[c]) => Packed(flash[c].slots)
    /\ pc \in Sequence \cup {"update_cpb"} => Packed(cpb.slots)
    /\ saved.magic = "ok" => Packed(saved.slots)

\* A change of one entry keeps the erased ones last.
LEMMA KeepsPacked ==
  ASSUME NEW s \in [Slots -> Entry], NEW p \in Parts, NEW z \in Slots, Packed(s)
  PROVE  /\ IsFirst(s, ERASED_ENTRY, z) => Packed([s EXCEPT ![z] = p])
         /\ s[z] = p => Packed([s EXCEPT ![z] = SPENT_ENTRY])
  <1>1. p # ERASED_ENTRY /\ SPENT_ENTRY # ERASED_ENTRY
    BY CpbAssumption
  <1>2. \A x \in Slots : x \in Nat /\ x >= 1
    BY CpbAssumption DEF Slots
  <1>3. ASSUME IsFirst(s, ERASED_ENTRY, z) PROVE Packed([s EXCEPT ![z] = p])
    <2> DEFINE t == [s EXCEPT ![z] = p]
    <2> SUFFICES ASSUME NEW x \in Slots, NEW y \in Slots, x < y, t[x] = ERASED_ENTRY
                 PROVE  t[y] = ERASED_ENTRY
      BY DEF Packed
    <2>1. x # z /\ s[x] = ERASED_ENTRY
      BY <1>1
    <2>2. ~(x < z)
      <3>1. x < z => x \in 1..(z - 1)
        BY <1>2
      <3> QED
        BY <1>3, <2>1, <3>1 DEF IsFirst
    <2>3. y # z /\ s[y] = ERASED_ENTRY
      BY <1>2, <2>1, <2>2 DEF Packed
    <2> QED
      BY <2>3
  <1>4. ASSUME s[z] = p PROVE Packed([s EXCEPT ![z] = SPENT_ENTRY])
    BY <1>1, <1>4 DEF Packed
  <1> QED
    BY <1>3, <1>4

\* What a reset of the CPU leaves is one of the things power loss may leave.
LEMMA CutTorn ==
  ASSUME TypeOK, AtFlash
  PROVE  Cut \subseteq Torn
  <1>1. flash[at] \in Block /\ Programming \in Block
    BY BlankType, Forms DEF TypeOK, Programming, MagicOnly, Block, Magic
  <1>2. CASE pc = "erase_part"
    BY <1>2 DEF Cut, Torn, TornErase
  <1>3. CASE pc # "erase_part"
    <2> SUFFICES ASSUME NEW t \in CutProgram(flash[at], Programming)
                 PROVE  t \in TornProgram(flash[at], Programming)
      BY <1>3 DEF Cut, Torn
    <2>1. t \in Block /\ t.magic \in {flash[at].magic, AndMagic(flash[at].magic, Programming.magic)}
      BY DEF CutProgram
    <2>2. \A x \in Slots : /\ (flash[at].slots[x] \cap Programming.slots[x]) \subseteq t.slots[x]
                           /\ t.slots[x] \subseteq flash[at].slots[x]
      BY DEF CutProgram
    <2> QED
      BY <2>1, <2>2 DEF TornProgram
  <1> QED
    BY <1>2, <1>3

\* A torn block that is good has its erased entries last: the entry that was cut short
\* cannot be erased unless it was so before.
LEMMA TornPacked ==
  ASSUME IInv, PackedInv, AtFlash, NEW t \in Torn, Good(t)
  PROVE  Packed(t.slots)
  <1> USE DEF IInv
  <1>1. /\ flash[at] \in Block /\ cpb \in Block /\ t \in Block /\ at \in Copies
        /\ Good(flash[at]) => Packed(flash[at].slots)
    BY TornType DEF TypeOK, PackedInv
  <1>2. CASE pc = "erase_part"
    BY <1>1, <1>2, Forms DEF Torn, TornErase, Good
  <1>3. ASSUME pc # "erase_part"
        PROVE  /\ t.magic \in {flash[at].magic, AndMagic(flash[at].magic, Programming.magic)} \cup
                              (IF flash[at].magic = Programming.magic THEN {} ELSE {"bad"})
               /\ \A x \in Slots : /\ flash[at].slots[x] \cap Programming.slots[x] \subseteq t.slots[x]
                                   /\ t.slots[x] \subseteq flash[at].slots[x]
    BY <1>3 DEF Torn, TornProgram
  <1>4. CASE pc = "write_table"
    <2>1. flash[at] = Blank /\ Programming = Unmarked
      BY <1>4 DEF SeqInv, Sequence, Programming
    <2> QED
      BY <1>1, <1>3, <1>4, <2>1, Forms, BlankType DEF AndMagic, Good
  <1>5. CASE pc = "write_magic"
    <2>1. flash[at] = Unmarked /\ Programming = MagicOnly /\ Packed(cpb.slots)
      BY <1>5 DEF SeqInv, Sequence, Programming, PackedInv
    <2>2. \A x \in Slots : t.slots[x] = cpb.slots[x]
      <3>1. MagicOnly.slots = Blank.slots /\ flash[at].slots = cpb.slots
        BY <1>1, <2>1, Forms DEF MagicOnly
      <3>2. \A x \in Slots : cpb.slots[x] \cap Blank.slots[x] = cpb.slots[x]
        BY <1>1 DEF Blank, Block, Entry, ERASED_ENTRY
      <3> QED
        BY <1>3, <1>5, <2>1, <3>1, <3>2
    <2> QED
      BY <2>1, <2>2 DEF Packed
  <1>6. CASE pc = "update_cpb"
    <2> DEFINE old == flash[Second].slots
               new == cpb.slots
    <2>1. /\ flash[at] = flash[Second] /\ Good(flash[Second]) /\ Programming = cpb
          /\ \A x \in Slots : new[x] \subseteq old[x]
      BY <1>6, Order DEF UpdateInv, Programming, TypeOK
    <2>2. PICK z \in Slots : \A x \in Slots \ {z} : new[x] = old[x]
      BY <1>6 DEF UpdateInv
    <2>3. Packed(old) /\ Packed(new)
      BY <1>1, <1>6, <2>1 DEF PackedInv
    <2>4. \A x \in Slots : new[x] \subseteq t.slots[x] /\ t.slots[x] \subseteq old[x]
      BY <1>3, <1>6, <2>1
    <2>5. \A x \in Slots : old[x] \subseteq Bits
      BY <1>1, <2>1 DEF Block, Entry
    <2> HIDE DEF old, new
    <2> SUFFICES ASSUME NEW x \in Slots, NEW y \in Slots, x < y, t.slots[x] = ERASED_ENTRY
                 PROVE  t.slots[y] = ERASED_ENTRY
      BY DEF Packed
    <2>6. CASE x = z
      <3>1. old[x] = ERASED_ENTRY
        BY <2>4, <2>5 DEF ERASED_ENTRY
      <3>2. old[y] = ERASED_ENTRY
        BY <2>3, <3>1 DEF Packed
      <3>3. y # z
        BY <2>6, CpbAssumption DEF Slots
      <3> QED
        BY <2>2, <2>4, <3>2, <3>3
    <2>7. CASE x # z
      <3>1. old[x] = ERASED_ENTRY /\ new[x] = ERASED_ENTRY
        BY <2>2, <2>4, <2>7
      <3>2. old[y] = ERASED_ENTRY /\ new[y] = ERASED_ENTRY
        BY <2>3, <3>1 DEF Packed
      <3> QED
        BY <2>4, <3>2
    <2> QED
      BY <2>6, <2>7
  <1> QED
    BY <1>2, <1>4, <1>5, <1>6 DEF AtFlash

\* A copy is replaced by one that is packed when it is good.
LEMMA PackedWrite ==
  ASSUME TypeOK, PackedInv, NEW b, Writes(b), Good(b) => Packed(b.slots)
  PROVE  \A c \in Copies : Good(flash'[c]) => Packed(flash'[c].slots)
  <1>1. \A c \in Copies : flash'[c] = IF c = at THEN b ELSE flash[c]
    BY DEF Writes, TypeOK
  <1> QED
    BY <1>1 DEF PackedInv

\* The calls and the changes in memory keep the erased entries last.
LEMMA PackedCall ==
  ASSUME StatusFaultsOnly, IInv, PackedInv,
         rsu_qspi_open \/ Calls \/ priority_add \/ priority_remove
  PROVE  PackedInv'
  <1> USE DEF IInv
  <1>a. flash' = flash /\ \A c \in Copies : Good(flash[c]) => Packed(flash[c].slots)
    BY DEF rsu_qspi_open, Calls, rsu_slot_program_buf, rsu_slot_program_callback,
           rsu_slot_disable, rsu_slot_enable, Call, rsu_create_empty_cpb,
           rsu_restore_cpb_from_buf, Replace, rsu_save_cpb_to_buf, priority_add,
           priority_remove, PackedInv
  <1>b. SUFFICES /\ pc' \in Sequence \cup {"update_cpb"} => Packed(cpb'.slots)
                 /\ saved'.magic = "ok" => Packed(saved'.slots)
    BY <1>a DEF PackedInv, Good, check_cpb, Packed
  <1>c. saved.magic = "ok" => Packed(saved.slots)
    BY DEF PackedInv
  <1>1. CASE saved' = saved /\ pc' \notin Sequence \cup {"update_cpb"}
    BY <1>c, <1>1
  <1>2. CASE rsu_create_empty_cpb
    <2>1. saved' = saved /\ cpb'.slots = Blank.slots
      BY <1>2 DEF rsu_create_empty_cpb, Replace
    <2>2. Packed(Blank.slots)
      BY DEF Packed, Blank
    <2> QED
      BY <1>c, <2>1, <2>2
  <1>3. CASE rsu_restore_cpb_from_buf
    <2>1. saved' = saved /\ cpb'.slots = saved.slots /\ saved.magic = "ok"
      BY <1>3 DEF rsu_restore_cpb_from_buf, Replace
    <2> QED
      BY <1>c, <2>1
  <1>4. CASE rsu_save_cpb_to_buf
    <2>1. saved' = flash["CPB0"] /\ pc = "idle" /\ pc' = pc /\ ~cpb_corrupted
      BY <1>4 DEF rsu_save_cpb_to_buf, task
    <2>2. Good(flash["CPB0"])
      BY <2>1 DEF SyncInv
    <2> QED
      BY <1>a, <2>1, <2>2 DEF Copies, Sequence
  <1>5. CASE priority_add \/ priority_remove
    <2>1. /\ saved' = saved /\ cpb.slots \in [Slots -> Entry] /\ cpb \in Block
          /\ call.part \in Parts /\ Packed(cpb.slots)
      <3>1. pc \in {"priority_add", "priority_remove"} /\ ~cpb_corrupted /\ saved' = saved
        BY <1>5 DEF priority_add, priority_remove, FlagInv, Sequence
      <3>2. Good(flash["CPB0"]) /\ flash["CPB0"] = cpb /\ call.part \in Parts
        BY <3>1 DEF SyncInv, CallInv
      <3> QED
        BY <1>a, <3>1, <3>2 DEF Copies, TypeOK, Block
    <2>2. ASSUME NEW e, NEW z \in Slots, cpb' = [cpb EXCEPT !.slots[z] = e]
          PROVE  cpb'.slots = [cpb.slots EXCEPT ![z] = e]
      BY <2>1, <2>2 DEF Block
    <2>3. ASSUME NEW z \in Slots, IsFirst(cpb.slots, ERASED_ENTRY, z),
                 cpb' = [cpb EXCEPT !.slots[z] = call.part]
          PROVE  Packed(cpb'.slots)
      <3>1. cpb'.slots = [cpb.slots EXCEPT ![z] = call.part]
        BY <2>2, <2>3
      <3>2. Packed([cpb.slots EXCEPT ![z] = call.part])
        BY <2>1, <2>3, KeepsPacked
      <3> QED
        BY <3>1, <3>2
    <2>4. ASSUME NEW z \in Slots, IsFirst(cpb.slots, call.part, z),
                 cpb' = [cpb EXCEPT !.slots[z] = SPENT_ENTRY]
          PROVE  Packed(cpb'.slots)
      <3>1. cpb'.slots = [cpb.slots EXCEPT ![z] = SPENT_ENTRY] /\ cpb.slots[z] = call.part
        BY <2>2, <2>4 DEF IsFirst
      <3>2. Packed([cpb.slots EXCEPT ![z] = SPENT_ENTRY])
        BY <2>1, <3>1, KeepsPacked
      <3> QED
        BY <3>1, <3>2
    <2>5. ASSUME NEW z \in Slots, ~InUse(cpb.slots[z]),
                 cpb' = [cpb EXCEPT !.slots = Compressed(cpb.slots, call.part)]
          PROVE  Packed(cpb'.slots)
      <3>1. cpb'.slots = Compressed(cpb.slots, call.part)
        BY <2>1, <2>5 DEF Block
      <3>2. Packed(Compressed(cpb.slots, call.part))
        BY <2>1, <2>5, OrderCompressed
      <3> QED
        BY <3>1, <3>2
    <2>6. pc' \in Sequence \cup {"update_cpb"} => Packed(cpb'.slots)
      <3>1. CASE priority_add
        BY <2>3, <2>5, <3>1 DEF priority_add, Done, Sequence
      <3>2. CASE priority_remove
        BY <2>4, <3>2 DEF priority_remove, Sequence
      <3> QED
        BY <1>5, <3>1, <3>2
    <2> QED
      BY <1>c, <2>1, <2>6
  <1> QED
    BY <1>1, <1>2, <1>3, <1>4, <1>5
       DEF Calls, rsu_qspi_open, rsu_slot_program_buf, rsu_slot_program_callback,
           rsu_slot_disable, rsu_slot_enable, Call, Sequence

\* So do the steps that write or load the block, and whatever cuts them short.
LEMMA PackedRest ==
  ASSUME StatusFaultsOnly, IInv, PackedInv, IInv',
         \/ update_cpb \/ erase_part \/ write_table \/ write_magic \/ load_cpb
         \/ PowerLoss \/ CpuReset
  PROVE  PackedInv'
  <1> USE DEF IInv
  <1>c. (saved.magic = "ok" => Packed(saved.slots)) /\ cpb \in Block /\ at \in Copies
        /\ \A c \in Copies : Good(flash[c]) => Packed(flash[c].slots)
    BY DEF PackedInv, TypeOK
  <1>d. pc \in Sequence \cup {"update_cpb"} => Packed(cpb.slots)
    BY DEF PackedInv
  <1>e. ASSUME saved' = saved,
               \A c \in Copies : Good(flash'[c]) => Packed(flash'[c].slots),
               pc' \in Sequence \cup {"update_cpb"} => Packed(cpb'.slots)
        PROVE  PackedInv'
    BY <1>c, <1>e DEF PackedInv, Good, check_cpb, Packed
  <1>f. ~SequenceFails
    BY DEF SequenceFails, StatusFaultsOnly, Fault
  <1>1. CASE update_cpb
    <2>1. /\ saved' = saved /\ cpb' = cpb /\ Packed(cpb.slots) /\ pc = "update_cpb"
          /\ Writes(Programmed(flash[at], cpb))
      BY <1>1, <1>d DEF update_cpb, StatusFaultsOnly, Fault
    <2>2. Programmed(flash[at], cpb) = cpb
      <3>1. /\ Good(cpb) /\ Good(flash[Second])
            /\ \A x \in Slots : cpb.slots[x] \subseteq flash[Second].slots[x]
            /\ flash[at] = flash[Second]
        BY <2>1, Order DEF UpdateInv, TypeOK
      <3>2. flash[Second] \in Block /\ cpb \in Block /\ flash[Second].magic = cpb.magic
        BY <3>1, Order DEF TypeOK, Good
      <3> QED
        BY <3>1, <3>2, OverlayIs
    <2>3. \A c \in Copies : Good(flash'[c]) => Packed(flash'[c].slots)
      BY <2>1, <2>2, PackedWrite
    <2> QED
      BY <1>e, <2>1, <2>3
  <1>2. CASE erase_part \/ write_table \/ write_magic
    <2>1. pc \in Sequence /\ Packed(cpb.slots) /\ saved' = saved /\ cpb'.slots = cpb.slots
      BY <1>2, <1>d, RewriteCand DEF erase_part, write_table, write_magic, Sequence
    <2>2. \E b : Writes(b) /\ (Good(b) => Packed(b.slots))
      <3>1. CASE erase_part
        BY <1>c, <1>f, <3>1, Forms DEF erase_part
      <3>2. CASE write_table
        <4>1. flash[at] = Blank /\ Writes(Programmed(flash[at], Unmarked))
          BY <1>f, <3>2 DEF write_table, SeqInv, Sequence
        <4>2. Programmed(flash[at], Unmarked) = Unmarked
          BY <1>c, <4>1, TableIs
        <4> QED
          BY <1>c, <4>1, <4>2, Forms
      <3>3. CASE write_magic
        <4>1. flash[at] = Unmarked /\ Writes(Programmed(flash[at], MagicOnly))
          BY <1>f, <3>3 DEF write_magic, SeqInv, Sequence
        <4>2. Programmed(flash[at], MagicOnly) = Marked
          BY <1>c, <4>1, MagicIs
        <4> QED
          BY <1>c, <2>1, <4>1, <4>2, Forms
      <3> QED
        BY <1>2, <3>1, <3>2, <3>3
    <2>3. \A c \in Copies : Good(flash'[c]) => Packed(flash'[c].slots)
      BY <2>2, PackedWrite
    <2> QED
      BY <1>e, <2>1, <2>3
  <1>3. CASE load_cpb
    <2>1. saved' = saved /\ flash' = flash
      BY <1>3 DEF load_cpb
    <2>2. pc' \in Sequence \cup {"update_cpb"} => Packed(cpb'.slots)
      <3>1. CASE LoadReads(AllRead, TRUE)
        <4>1. \/ LoadFails \/ LoadSucceeds
              \/ \E c \in Copies : Good(flash[c]) /\ cpb' = flash[c]
          BY <3>1 DEF LoadReads, Passes
        <4> QED
          BY <1>c, <4>1 DEF LoadFails, LoadSucceeds, Done, Sequence
      <3>2. CASE LoadFails
        BY <3>2 DEF LoadFails, Done, Sequence
      <3> QED
        BY <1>3, <3>1, <3>2 DEF load_cpb, StatusFaultsOnly, Fault
    <2> QED
      BY <1>c, <1>e, <2>1, <2>2
  <1>4. CASE PowerLoss \/ CpuReset
    <2>1. saved' = saved /\ pc' = "closed"
      BY <1>4 DEF PowerLoss, CpuReset, Stops
    <2>2. \A c \in Copies : Good(flash'[c]) => Packed(flash'[c].slots)
      <3>1. CASE AtFlash
        <4>1. PICK b \in Torn : Writes(b)
          <5>1. Cut \subseteq Torn
            BY <3>1, CutTorn
          <5> QED
            BY <1>4, <3>1, <5>1 DEF PowerLoss, CpuReset
        <4>2. Good(b) => Packed(b.slots)
          BY <3>1, TornPacked
        <4> QED
          BY <4>1, <4>2, PackedWrite
      <3>2. CASE ~AtFlash
        BY <1>4, <1>c, <3>2 DEF PowerLoss, CpuReset
      <3> QED
        BY <3>1, <3>2
    <2> QED
      BY <1>e, <2>1, <2>2 DEF Sequence
  <1> QED
    BY <1>1, <1>2, <1>3, <1>4

\* Every step keeps the erased entries last.
LEMMA PackedStep ==
  ASSUME StatusFaultsOnly, IInv, PackedInv, IInv', [Next]_vars
  PROVE  PackedInv'
  <1>1. CASE UNCHANGED vars
    BY <1>1 DEF vars, task, PackedInv, Packed, Good, check_cpb, Sequence
  <1> QED
    BY <1>1, PackedCall, PackedRest DEF Next, Steps

\* The programming file's table has at most one pointer, the first.
LEMMA PackedInit == Init => PackedInv
  <1> SUFFICES ASSUME Init PROVE PackedInv
    OBVIOUS
  <1>1. PICK s \in [Slots -> Parts \cup {ERASED_ENTRY}] :
           /\ \A x \in Slots : x > 1 => s[x] = ERASED_ENTRY
           /\ flash = [c \in Copies |-> [magic |-> "ok", slots |-> s]]
    BY DEF Init
  <1>2. Packed(s)
    BY <1>1, CpbAssumption DEF Packed, Slots
  <1>3. pc = "closed" /\ saved = Blank
    BY DEF Init
  <1> QED
    BY <1>1, <1>2, <1>3, BlankType DEF PackedInv, Sequence

\* A step that raises or lowers the flag only.
LEMMA MapRefuse ==
  ASSUME cpb_corrupted \in BOOLEAN, cpb_corrupted' \in BOOLEAN, cand' = cand, saved' = saved
  PROVE  Boot!Refuse \/ UNCHANGED Boot!vars
  <1>1. /\ {BootOrder(s) : s \in cand}' = {BootOrder(s) : s \in cand}
        /\ BootOrder(saved.slots)' = BootOrder(saved.slots)
    BY DEF BootOrder, Rank, InUse
  <1>2. cpb_corrupted' = ~cpb_corrupted \/ cpb_corrupted' = cpb_corrupted
    OBVIOUS
  <1> QED
    BY <1>1, <1>2 DEF Boot!vars, Boot!Refuse

\* A call begins to change one of the boot orders.
LEMMA MapChange ==
  ASSUME ~cpb_corrupted, cpb_corrupted' = cpb_corrupted, saved' = saved,
         NEW s \in cand, NEW t, cand' = cand \cup {t},
         BootOrder(t) \in Boot!Changes(BootOrder(s)), Len(BootOrder(t)) <= NSlots
  PROVE  Boot!Change
  <1>1. /\ {BootOrder(x) : x \in cand}' = {BootOrder(x) : x \in cand'}
        /\ BootOrder(saved.slots)' = BootOrder(saved.slots)
    BY DEF BootOrder, Rank, InUse
  <1>3. {BootOrder(x) : x \in cand'} = {BootOrder(x) : x \in cand} \cup {BootOrder(t)}
    OBVIOUS
  <1>2. BootOrder(s) \in {BootOrder(x) : x \in cand}
    OBVIOUS
  <1> QED
    BY <1>1, <1>2, <1>3 DEF Boot!Change

\* A call or a load settles on a boot order.
LEMMA MapSettle ==
  ASSUME cpb_corrupted' = FALSE, saved' = saved, NEW t, cand' = {t},
         cand # {} => t \in cand, BootOrder(t) \in Boot!Lists
  PROVE  Boot!Settle \/ Boot!Replaced
  <1>1. /\ {BootOrder(x) : x \in cand}' = {BootOrder(t)}
        /\ BootOrder(saved.slots)' = BootOrder(saved.slots)
    BY DEF BootOrder, Rank, InUse
  <1>2. CASE cand = {}
    <2>1. {BootOrder(x) : x \in cand} = {}
      BY <1>2
    <2> QED
      BY <1>1, <2>1 DEF Boot!Replaced
  <1>3. CASE cand # {}
    <2>1. BootOrder(t) \in {BootOrder(x) : x \in cand}
      BY <1>3
    <2> QED
      BY <1>1, <2>1 DEF Boot!Settle
  <1> QED
    BY <1>2, <1>3

\* A corrupted table is being replaced, or the boot order is saved.
LEMMA MapVoidSave ==
  ASSUME cpb_corrupted' = cpb_corrupted
  PROVE  /\ cpb_corrupted /\ cand' = {} /\ saved' = saved => Boot!Void
         /\ ~cpb_corrupted /\ cand' = cand /\ saved'.slots \in cand => Boot!Save
  <1>1. ASSUME cpb_corrupted, cand' = {}, saved' = saved PROVE Boot!Void
    <2>1. /\ {BootOrder(x) : x \in cand}' = {BootOrder(x) : x \in cand'}
          /\ BootOrder(saved.slots)' = BootOrder(saved.slots)
      BY <1>1 DEF BootOrder, Rank, InUse
    <2>2. {BootOrder(x) : x \in cand'} = {}
      BY <1>1
    <2> QED
      BY <1>1, <2>1, <2>2 DEF Boot!Void
  <1>2. ASSUME ~cpb_corrupted, cand' = cand, saved'.slots \in cand PROVE Boot!Save
    <2>1. /\ {BootOrder(x) : x \in cand}' = {BootOrder(x) : x \in cand}
          /\ BootOrder(saved.slots)' = BootOrder(saved'.slots)
      BY <1>2 DEF BootOrder, Rank, InUse
    <2>2. BootOrder(saved'.slots) \in {BootOrder(x) : x \in cand}
      BY <1>2
    <2> QED
      BY <1>2, <2>1, <2>2 DEF Boot!Save
  <1> QED
    BY <1>1, <1>2

\* The boot order of a block that passes check_cpb is a list of partitions.
LEMMA OrderList ==
  ASSUME NEW b, check_cpb(b)
  PROVE  BootOrder(b.slots) \in Boot!Lists
  <1> DEFINE n == Rank(b.slots, NSlots)
  <1>1. \A x \in Used(b.slots) : b.slots[x] \in Parts
    BY DEF check_cpb, Used, InUse
  <1>2. BootOrder(b.slots) \in [1..n -> Parts] /\ n \in Nat /\ n <= NSlots
    BY <1>1, OrderType, OrderIs
  <1>3. n \in 0..NSlots
    BY <1>2, CpbAssumption
  <1> HIDE DEF n
  <1> QED
    BY <1>2, <1>3 DEF Boot!Lists

\* A table without pointers has the empty boot order.
LEMMA OrderBlank == BootOrder(Blank.slots) = <<>>
  <1>1. Used(Blank.slots) = {}
    BY DEF Used, Blank, InUse
  <1> QED
    BY <1>1, OrderEmpty

\* The calls and the changes in memory are steps of BootList.
LEMMA BootCall ==
  ASSUME StatusFaultsOnly, IInv, PackedInv, IInv',
         rsu_qspi_open \/ Calls \/ priority_add \/ priority_remove
  PROVE  Boot!Next \/ UNCHANGED Boot!vars
  <1> USE DEF IInv
  <1>1. CASE cand' = cand /\ saved' = saved
    <2>1. cpb_corrupted \in BOOLEAN /\ cpb_corrupted' \in BOOLEAN
      BY DEF TypeOK
    <2> QED
      BY <1>1, <2>1, MapRefuse DEF Boot!Next
  <1>2. ASSUME ~cpb_corrupted, pc \in {"idle", "priority_add", "priority_remove"}
        PROVE  cpb.slots \in cand /\ Good(cpb) /\ flash["CPB0"] = cpb
    BY <1>2 DEF SyncInv
  <1>3. \A t : Len(BootOrder(t)) <= NSlots
    BY OrderIs
  <1>4. CASE rsu_create_empty_cpb
    <2>1. /\ pc = "idle" /\ saved' = saved /\ cpb_corrupted' = cpb_corrupted
          /\ cand' = IF cpb_corrupted THEN {} ELSE cand \cup {Blank.slots}
      BY <1>4 DEF rsu_create_empty_cpb, Replace, lib
    <2>2. CASE cpb_corrupted
      BY <2>1, <2>2, MapVoidSave DEF Boot!Next
    <2>3. CASE ~cpb_corrupted
      <3>1. BootOrder(Blank.slots) \in Boot!Changes(BootOrder(cpb.slots))
        BY OrderBlank DEF Boot!Changes
      <3>2. cpb.slots \in cand /\ cand' = cand \cup {Blank.slots} /\ Len(BootOrder(Blank.slots)) <= NSlots
        BY <1>2, <1>3, <2>1, <2>3
      <3>3. Boot!Change
        BY <2>1, <2>3, <3>1, <3>2, MapChange
      <3> QED
        BY <3>3 DEF Boot!Next
    <2> QED
      BY <2>2, <2>3
  <1>5. CASE rsu_restore_cpb_from_buf
    <2>1. /\ pc = "idle" /\ saved' = saved /\ cpb_corrupted' = cpb_corrupted /\ ~cpb_corrupted
          /\ cand' = cand \cup {saved.slots}
      BY <1>5 DEF rsu_restore_cpb_from_buf, Replace, lib
    <2>2. BootOrder(saved.slots) \in Boot!Changes(BootOrder(cpb.slots))
      BY DEF Boot!Changes
    <2>3. cpb.slots \in cand /\ Len(BootOrder(saved.slots)) <= NSlots
      BY <1>2, <1>3, <2>1
    <2>4. Boot!Change
      BY <2>1, <2>2, <2>3, MapChange
    <2> QED
      BY <2>4 DEF Boot!Next
  <1>6. CASE rsu_save_cpb_to_buf
    <2>1. /\ pc = "idle" /\ saved' = flash["CPB0"] /\ cpb_corrupted' = cpb_corrupted /\ ~cpb_corrupted
          /\ cand' = cand
      BY <1>6 DEF rsu_save_cpb_to_buf, lib
    <2>2. saved'.slots \in cand
      BY <1>2, <2>1
    <2> QED
      BY <2>1, <2>2, MapVoidSave DEF Boot!Next
  <1>7. CASE priority_add \/ priority_remove
    <2>1. /\ saved' = saved /\ cpb_corrupted' = cpb_corrupted /\ ~cpb_corrupted
          /\ cpb.slots \in [Slots -> Entry] /\ cpb \in Block /\ call.part \in Parts
          /\ cpb.slots \in cand /\ Packed(cpb.slots)
      <3>1. /\ pc \in {"priority_add", "priority_remove"} /\ ~cpb_corrupted
            /\ saved' = saved /\ cpb_corrupted' = cpb_corrupted
        BY <1>7 DEF priority_add, priority_remove, FlagInv, Sequence, lib
      <3>2. Packed(cpb.slots)
        BY <1>2, <3>1 DEF PackedInv, Copies
      <3> QED
        BY <1>2, <3>1, <3>2 DEF CallInv, TypeOK, Block
    <2> DEFINE v == BootOrder(cpb.slots)
               p == call.part
    <2>2. Append(v, p) \in Boot!Changes(v) /\ Boot!Without(v, p) \in Boot!Changes(v)
      BY <2>1 DEF Boot!Changes
    <2>3. ASSUME NEW e, NEW z \in Slots, cpb' = [cpb EXCEPT !.slots[z] = e]
          PROVE  cpb'.slots = [cpb.slots EXCEPT ![z] = e]
      BY <2>1, <2>3 DEF Block
    <2>4. ASSUME cand' = cand \cup {cpb'.slots}, BootOrder(cpb'.slots) \in Boot!Changes(v)
          PROVE  Boot!Change
      <3> DEFINE t == cpb'.slots
      <3>1. Len(BootOrder(t)) <= NSlots
        BY <1>3
      <3> HIDE DEF v
      <3> QED
        BY <2>1, <2>4, <3>1, MapChange DEF v
    <2>5. CASE priority_add
      <3>1. CASE \E x \in Slots : /\ IsFirst(cpb.slots, ERASED_ENTRY, x)
                                  /\ cpb' = [cpb EXCEPT !.slots[x] = p]
                                  /\ cand' = cand \cup {cpb'.slots}
        <4>1. PICK x \in Slots : /\ IsFirst(cpb.slots, ERASED_ENTRY, x)
                                 /\ cpb' = [cpb EXCEPT !.slots[x] = p]
                                 /\ cand' = cand \cup {cpb'.slots}
          BY <3>1
        <4>2. cpb'.slots = [cpb.slots EXCEPT ![x] = p]
          BY <2>3, <4>1
        <4>3. BootOrder([cpb.slots EXCEPT ![x] = p]) = Append(v, p)
          BY <2>1, <4>1, OrderAdd
        <4>4. Boot!Change
          BY <2>2, <2>4, <4>1, <4>2, <4>3
        <4> QED
          BY <4>4 DEF Boot!Next
      <3>2. CASE /\ \E x \in Slots : ~InUse(cpb.slots[x])
                 /\ cpb' = [cpb EXCEPT !.slots = Compressed(cpb.slots, p)]
                 /\ cand' = cand \cup {cpb'.slots}
        <4>1. cpb'.slots = Compressed(cpb.slots, p)
          BY <2>1, <3>2 DEF Block
        <4>2. BootOrder(Compressed(cpb.slots, p)) = Append(v, p)
          BY <2>1, <3>2, OrderCompressed
        <4>4. Boot!Change
          BY <2>2, <2>4, <3>2, <4>1, <4>2
        <4> QED
          BY <4>4 DEF Boot!Next
      <3> QED
        BY <1>1, <2>1, <2>5, <3>1, <3>2 DEF priority_add
    <2>6. CASE priority_remove
      <3>1. CASE \E x \in Slots : /\ IsFirst(cpb.slots, p, x)
                                  /\ cpb' = [cpb EXCEPT !.slots[x] = SPENT_ENTRY]
                                  /\ cand' = cand \cup {cpb'.slots}
        <4>1. PICK x \in Slots : /\ IsFirst(cpb.slots, p, x)
                                 /\ cpb' = [cpb EXCEPT !.slots[x] = SPENT_ENTRY]
                                 /\ cand' = cand \cup {cpb'.slots}
          BY <3>1
        <4>2. cpb'.slots = [cpb.slots EXCEPT ![x] = SPENT_ENTRY]
          BY <2>3, <4>1
        <4>3. BootOrder([cpb.slots EXCEPT ![x] = SPENT_ENTRY]) = Boot!Without(v, p)
          BY <2>1, <4>1, OrderRemove
        <4>4. Boot!Change
          BY <2>2, <2>4, <4>1, <4>2, <4>3
        <4> QED
          BY <4>4 DEF Boot!Next
      <3> QED
        BY <1>1, <2>1, <2>6, <3>1 DEF priority_remove
    <2> QED
      BY <1>7, <2>5, <2>6
  <1> QED
    BY <1>1, <1>4, <1>5, <1>6, <1>7
       DEF Calls, rsu_qspi_open, rsu_slot_program_buf, rsu_slot_program_callback,
           rsu_slot_disable, rsu_slot_enable, Call

\* So are the steps that write or load the block, and whatever cuts them short.
LEMMA BootRest ==
  ASSUME StatusFaultsOnly, IInv, IInv',
         \/ update_cpb \/ erase_part \/ write_table \/ write_magic \/ load_cpb
         \/ PowerLoss \/ CpuReset
  PROVE  Boot!Next \/ UNCHANGED Boot!vars
  <1> USE DEF IInv
  <1>1. CASE cand' = cand /\ saved' = saved
    <2>1. cpb_corrupted \in BOOLEAN /\ cpb_corrupted' \in BOOLEAN
      BY DEF TypeOK
    <2> QED
      BY <1>1, <2>1, MapRefuse DEF Boot!Next
  <1>2. CASE saved' = saved /\ Settled /\ check_cpb(cpb')
    <2> DEFINE t == cpb'.slots
    <2>1. BootOrder(t) \in Boot!Lists
      BY <1>2, OrderList
    <2>2. cpb_corrupted' = FALSE
      BY <1>2 DEF TypeOK, Settled
    <2>3. cand' = {t} /\ (cand # {} => t \in cand) /\ saved' = saved
      BY <1>2 DEF Settled
    <2> HIDE DEF t
    <2>4. Boot!Settle \/ Boot!Replaced
      BY <2>1, <2>2, <2>3, MapSettle
    <2> QED
      BY <2>4 DEF Boot!Next
  <1>3. CASE erase_part \/ write_table \/ write_magic
    <2>1. check_cpb(cpb)
      BY <1>3 DEF erase_part, write_table, write_magic, SeqInv, Sequence
    <2>2. cpb'.slots = cpb.slots /\ saved' = saved /\ (Kept \/ Settled)
      BY <1>3, RewriteCand
    <2>3. check_cpb(cpb')
      BY <2>1, <2>2 DEF check_cpb
    <2> QED
      BY <1>1, <1>2, <2>2, <2>3 DEF Kept
  <1>4. CASE load_cpb
    <2>1. saved' = saved /\ (Kept \/ Settled)
      BY <1>4, LoadCand
    <2>2. Kept \/ check_cpb(cpb')
      <3>1. CASE LoadReads(AllRead, TRUE)
        <4>1. \/ LoadFails \/ UNCHANGED cand
              \/ \E c \in Copies : Good(flash[c]) /\ cpb' = flash[c]
          BY <3>1 DEF LoadReads, Passes, Copies
        <4> QED
          BY <4>1 DEF LoadFails, Kept, Good
      <3>2. CASE LoadFails
        BY <3>2 DEF LoadFails, Kept
      <3> QED
        BY <1>4, <3>1, <3>2 DEF load_cpb, StatusFaultsOnly, Fault
    <2> QED
      BY <1>1, <1>2, <2>1, <2>2 DEF Kept
  <1>5. CASE update_cpb \/ PowerLoss \/ CpuReset
    BY <1>1, <1>5 DEF update_cpb, PowerLoss, CpuReset, Stops
  <1> QED
    BY <1>3, <1>4, <1>5

\* Every step is a step of BootList or leaves its variables alone.
LEMMA BootStep ==
  ASSUME StatusFaultsOnly, IInv, PackedInv, IInv', [Next]_vars
  PROVE  [Boot!Next]_Boot!vars
  <1>1. CASE UNCHANGED vars
    <2>1. cand' = cand /\ saved' = saved /\ cpb_corrupted \in BOOLEAN /\ cpb_corrupted' \in BOOLEAN
      BY <1>1 DEF vars, IInv, TypeOK
    <2> QED
      BY <2>1, MapRefuse DEF Boot!Next
  <1> QED
    BY <1>1, BootCall, BootRest DEF Next, Steps

\* The programming file's boot order is empty or has one partition.
LEMMA BootInit == Init => Boot!Init
  <1> SUFFICES ASSUME Init PROVE Boot!Init
    OBVIOUS
  <1>1. PICK s \in [Slots -> Parts \cup {ERASED_ENTRY}] :
           (\A x \in Slots : x > 1 => s[x] = ERASED_ENTRY) /\ cand = {s}
    BY DEF Init
  <1>2. saved = Blank /\ cpb_corrupted = FALSE
    BY DEF Init
  <1>3. {BootOrder(x) : x \in cand} = {BootOrder(s)}
    BY <1>1
  <1>4. 1 \in Slots /\ \A x \in Slots : x = 1 \/ x > 1
    BY CpbAssumption DEF Slots
  <1>5. BootOrder(s) = <<>> \/ \E p \in Parts : BootOrder(s) = <<p>>
    <2> DEFINE e == Blank.slots
    <2>1. e \in [Slots -> Entry] /\ \A x \in Slots : e[x] = ERASED_ENTRY
      BY BlankType DEF Blank
    <2>2. CASE s[1] = ERASED_ENTRY
      <3>1. Used(s) = {}
        BY <1>1, <1>4, <2>2 DEF Used, InUse
      <3> QED
        BY <3>1, OrderEmpty
    <2>3. CASE s[1] \in Parts
      <3> DEFINE p == s[1]
      <3>1. \A x \in Slots : s[x] = [e EXCEPT ![1] = p][x]
        BY <1>1, <1>4, <2>1
      <3>2. s = [e EXCEPT ![1] = p]
        BY <2>1, <3>1
      <3>3. Packed(e) /\ IsFirst(e, ERASED_ENTRY, 1)
        BY <1>4, <2>1 DEF Packed, IsFirst
      <3> HIDE DEF e
      <3>4. BootOrder([e EXCEPT ![1] = p]) = Append(BootOrder(e), p)
        BY <1>4, <2>1, <2>3, <3>3, OrderAdd
      <3>5. BootOrder(e) = <<>>
        BY OrderBlank DEF e
      <3>6. Append(<<>>, p) = <<p>>
        OBVIOUS
      <3> HIDE DEF p
      <3>7. BootOrder(s) = <<p>> /\ p \in Parts
        BY <2>3, <3>2, <3>4, <3>5, <3>6 DEF p
      <3> QED
        BY <3>7
    <2> QED
      BY <1>4, <2>2, <2>3
  <1> QED
    BY <1>2, <1>3, <1>5, OrderBlank DEF Boot!Init

\* Whatever power loss or a reset cuts short, the boot order is one list whose changes are
\* atomic: the pointer block implements BootList.
THEOREM CpbImplementsBootList == StatusFaultsOnly => (Spec => BootListSpec)
  <1> SUFFICES ASSUME StatusFaultsOnly PROVE Spec => Boot!Spec
    BY DEF BootListSpec
  <1>1. Init => IInv /\ PackedInv /\ Boot!Init
    BY IInit, PackedInit, BootInit
  <1>2. IInv /\ PackedInv /\ [Next]_vars => IInv' /\ PackedInv' /\ [Boot!Next]_Boot!vars
    BY IStep, PackedStep, BootStep
  <1> QED
    BY <1>1, <1>2, PTL DEF Spec, Boot!Spec
================================================================================
