------------------------------ MODULE Spt_proofs ------------------------------
(***************************************************************************)
(* Proofs about Spt, for every set of names, extents and programming       *)
(* files: types, no unsound table, a copy to come back to, memory and      *)
(* flash in step, boot pointers that name slots, and durable results.      *)
(***************************************************************************)
EXTENDS Spt, TLAPS

Changes == {"rename", "create", "delete", "restore"}

\* The block a sequence ends with.
Final == [magic |-> "ok", sum |-> "ok", tab |-> spt.tab]
InStep == spt = Final /\ \A c \in Copies : flash[c] = spt

\* Every table there is, in flash, in memory or in a call, passes check_spt.
AllSound == /\ Sound(spt.tab) /\ Sound(saved.tab) /\ Sound(call.tab)
            /\ \A c \in Copies : Sound(flash[c].tab)

\* Which function is in which step.
CallInv ==
    /\ pc \in {"idle", "closed"} => call.fn = "none"
    /\ pc \in {"priority_remove", "data_erase"} => call.fn = "delete"
    /\ pc = "load_spt" => call.fn \in {"init", "rename", "create", "delete"}
    /\ pc = "load_cpb" => call.fn \in {"init", "restore"}
    /\ AtFlash /\ job = "writeback" => call.fn \in Changes
    /\ AtFlash /\ job = "restore" => call.fn \in {"init", "rename", "create", "delete"}
    /\ call.fn = "delete" /\ pc # "priority_remove" => call.offset \notin boot

\* The sequence starts from a block that is good, or whose checksum will be.
Trusted == cand # {} \/ call.fn = "restore" \/ job = "restore"

\* What is written, and what the copy holds that is not being written.
SeqInv ==
    AtFlash =>
        /\ Trusted =>
             /\ job = "restore" => flash[Other(at)] = Final
             /\ job = "writeback" /\ at = Second => flash[First] = Final
             /\ pc # "write_magic" => spt.magic = "ok" /\ (job = "restore" => spt.sum = "ok")
             /\ pc = "write_magic" =>
                  spt = [magic |-> "none", sum |-> "ok", tab |-> spt.tab] /\ flash[at] = spt
        /\ cand # {} => spt.tab \in cand
        /\ cand # {} /\ job = "writeback" /\ at = First => Good(flash[Second])

\* The table that was asked for is the one in memory and in the copies already written.
CallTab ==
    /\ AtFlash /\ call.fn # "init" => spt.tab = call.tab
    /\ AtFlash /\ job = "writeback" /\ at = Second => flash[First].tab = call.tab
    /\ pc = "write_magic" /\ call.fn # "init" => flash[at].tab = call.tab
    /\ AtFlash /\ job = "restore" /\ call.fn # "init" => flash[Other(at)].tab = call.tab
    /\ pc = "load_spt" /\ call.fn # "init" => \A c \in Copies : flash[c].tab = call.tab
    /\ pc = "load_cpb" /\ call.fn # "init" => spt.tab = call.tab

SyncInv ==
    /\ pc \in {"idle", "priority_remove", "data_erase"} /\ ~spt_corrupted /\ cand # {} => InStep
    /\ pc = "load_spt" /\ call.fn # "init" /\ cand # {} => InStep
    /\ pc = "load_cpb" => InStep

CandInv ==
    cand # {} => /\ \E c \in Copies : Good(flash[c])
                 /\ \A c \in Copies : Good(flash[c]) => flash[c].tab \in cand

\* The pointers are offsets of slots in every table a restart may find.
BootInv ==
    cand # {} /\ saved.magic # "ok" =>
        /\ \A c \in Copies : Good(flash[c]) => boot \subseteq Offsets(flash[c].tab)
        /\ AtFlash => boot \subseteq Offsets(spt.tab)
        /\ pc = "data_erase" => boot \subseteq Offsets(call.tab)
        /\ pc = "priority_remove" => boot \ {call.offset} \subseteq Offsets(call.tab)

IInv == /\ TypeOK /\ AllSound /\ CallInv /\ SeqInv /\ CallTab /\ SyncInv /\ CandInv /\ BootInv
--------------------------------------------------------------------------------
LEMMA CopyFacts ==
    ASSUME SptAssumption
    PROVE  /\ First \in Copies /\ Second \in Copies /\ Second = Other(First) /\ Second # First
           /\ \A c \in Copies : Other(c) \in Copies /\ Other(c) # c /\ Other(Other(c)) = c
           /\ \A c, d \in Copies : d = c \/ d = Other(c)
BY DEF SptAssumption, Copies, Other, Second

LEMMA BlockFacts ==
    ASSUME NEW b \in Block
    PROVE  /\ b.magic \in Magic /\ b.sum \in {"ok", "bad"} /\ b.tab \in Table
           /\ b = [magic |-> b.magic, sum |-> b.sum, tab |-> b.tab]
           /\ \A m \in Magic : [b EXCEPT !.magic = m] = [magic |-> m, sum |-> b.sum, tab |-> b.tab]
           /\ \A t \in Table : [b EXCEPT !.tab = t] = [magic |-> b.magic, sum |-> b.sum, tab |-> t]
BY DEF Block

LEMMA MadeBlock ==
    ASSUME NEW m \in Magic, NEW s \in {"ok", "bad"}, NEW t \in Table
    PROVE  [magic |-> m, sum |-> s, tab |-> t] \in Block
BY DEF Block

LEMMA EmptyTable ==
    ASSUME SptAssumption
    PROVE  /\ << >> \in Table /\ Sound(<< >>)
           /\ Blank \in Block /\ ~Good(Blank) /\ Sound(Blank.tab)
           /\ Blank.magic = "none"
<1>1. MaxSlots \in Nat BY DEF SptAssumption
<1>2. << >> \in Seq(Entry) /\ Len(<< >>) = 0 /\ DOMAIN << >> = {} OBVIOUS
<1>3. << >> \in Table BY <1>1, <1>2 DEF Table
<1>4. Sound(<< >>)
  <2>1. Len(<< >>) <= MaxSlots BY <1>1, <1>2
  <2> QED BY <1>2, <2>1 DEF Sound
<1>5. Blank \in Block BY <1>3 DEF Block, Blank, Magic
<1>6. Blank.magic = "none" /\ Blank.tab = << >> BY DEF Blank
<1> QED BY <1>3, <1>4, <1>5, <1>6 DEF Good

\* A good block is the one with its table, and the other way round.
LEMMA GoodFacts ==
    ASSUME NEW b \in Block
    PROVE  /\ Good(b) => b = [magic |-> "ok", sum |-> "ok", tab |-> b.tab] /\ Sound(b.tab)
           /\ b.magic = "ok" /\ b.sum = "ok" /\ Sound(b.tab) => Good(b)
           /\ b.magic = "none" => ~Good(b)
BY BlockFacts DEF Good, check_spt

LEMMA FinalFacts ==
    ASSUME TypeOK, AllSound
    PROVE  /\ Final \in Block /\ Good(Final) /\ Final.tab = spt.tab
           /\ Final.magic = "ok" /\ Final.sum = "ok"
<1>1. spt.tab \in Table BY BlockFacts DEF TypeOK
<1>2. Final \in Block BY <1>1 DEF Final, Block, Magic
<1>3. Final.tab = spt.tab /\ Final.magic = "ok" /\ Final.sum = "ok" BY DEF Final
<1> QED BY <1>2, <1>3, GoodFacts DEF AllSound
--------------------------------------------------------------------------------
\* What the three functions do to a table.
LEMMA TableFacts ==
    ASSUME NEW t \in Table
    PROVE  /\ t \in Seq(Entry) /\ Len(t) <= MaxSlots /\ Len(t) \in Nat /\ DOMAIN t = 1..Len(t)
           /\ \A x \in DOMAIN t : /\ t[x] \in Entry /\ t[x].name \in Names
                                  /\ t[x].offset \in Nat /\ t[x].length \in Nat \ {0}
<1>1. t \in Seq(Entry) /\ Len(t) <= MaxSlots BY DEF Table
<1>2. \A x \in DOMAIN t : t[x] \in Entry BY <1>1
<1>3. \A e \in Entry : e.name \in Names /\ e.offset \in Nat /\ e.length \in Nat \ {0}
  BY DEF Entry
<1> QED BY <1>1, <1>2, <1>3

LEMMA RenameFacts ==
    ASSUME NEW t \in Table, Sound(t), NEW n \in DOMAIN t, NEW name \in Names,
           ~HasName(t, name), NEW u, u = [t EXCEPT ![n].name = name]
    PROVE  u \in Table /\ Sound(u) /\ Offsets(u) = Offsets(t)
<1>1. /\ t \in Seq(Entry) /\ Len(t) <= MaxSlots /\ Len(t) \in Nat /\ DOMAIN t = 1..Len(t)
      /\ \A x \in DOMAIN t : /\ t[x] \in Entry /\ t[x].name \in Names
                             /\ t[x].offset \in Nat /\ t[x].length \in Nat \ {0}
  BY TableFacts
<1>2. /\ DOMAIN u = DOMAIN t
      /\ \A x \in DOMAIN t : u[x] = IF x = n THEN [t[n] EXCEPT !.name = name] ELSE t[x]
  BY <1>1
<1>3. [t[n] EXCEPT !.name = name]
         = [name |-> name, offset |-> t[n].offset, length |-> t[n].length]
  BY <1>1 DEF Entry
<1>4. \A x \in DOMAIN t : /\ u[x] \in Entry /\ u[x].offset = t[x].offset
                          /\ u[x].length = t[x].length
                          /\ u[x].name = IF x = n THEN name ELSE t[x].name
  <2> SUFFICES ASSUME NEW x \in DOMAIN t
               PROVE  /\ u[x] \in Entry /\ u[x].offset = t[x].offset
                      /\ u[x].length = t[x].length
                      /\ u[x].name = IF x = n THEN name ELSE t[x].name
    OBVIOUS
  <2>1. CASE x = n BY <2>1, <1>1, <1>2, <1>3 DEF Entry
  <2>2. CASE x # n BY <2>2, <1>1, <1>2
  <2> QED BY <2>1, <2>2
<1>5. u \in Seq(Entry) /\ Len(u) = Len(t)
  <2>1. u \in [1..Len(t) -> Entry] BY <1>1, <1>2, <1>4
  <2> QED BY <2>1, <1>1
<1>6. Sound(u)
  <2>1. ASSUME NEW x \in DOMAIN u, NEW y \in DOMAIN u, x # y
        PROVE  u[x].name # u[y].name /\ ~Overlap(u[x], u[y])
    <3>1. t[x].name # t[y].name /\ ~Overlap(t[x], t[y])
          /\ t[x].name # name /\ t[y].name # name
      BY <1>2, <2>1 DEF Sound, HasName
    <3>2. u[x].name # u[y].name BY <1>2, <1>4, <2>1, <3>1
    <3>3. ~Overlap(u[x], u[y]) BY <1>2, <1>4, <3>1 DEF Overlap
    <3> QED BY <3>2, <3>3
  <2> QED BY <1>1, <1>5, <2>1 DEF Sound
<1>7. Offsets(u) = Offsets(t) BY <1>2, <1>4 DEF Offsets
<1> QED BY <1>1, <1>5, <1>6, <1>7 DEF Table

\* The table rsu_slot_create makes, and when it may.
Added(t, name, e) == Append(t, [name |-> name, offset |-> e.offset, length |-> e.length])
MayAdd(t, name, e) == /\ ~HasName(t, name) /\ Len(t) < MaxSlots
                      /\ \A x \in DOMAIN t : ~Overlap(t[x], e)

LEMMA CreateFacts ==
    ASSUME SptAssumption, NEW t \in Table, Sound(t), NEW name \in Names, NEW e \in Extent,
           MayAdd(t, name, e)
    PROVE  /\ Added(t, name, e) \in Table /\ Sound(Added(t, name, e))
           /\ Offsets(t) \subseteq Offsets(Added(t, name, e))
<1> DEFINE u == Added(t, name, e)
<1>0. /\ ~HasName(t, name) /\ Len(t) < MaxSlots /\ \A x \in DOMAIN t : ~Overlap(t[x], e)
      /\ u = Append(t, [name |-> name, offset |-> e.offset, length |-> e.length])
  BY DEF MayAdd, Added
<1> HIDE DEF u
<1> DEFINE new == [name |-> name, offset |-> e.offset, length |-> e.length]
<1>1. /\ t \in Seq(Entry) /\ Len(t) <= MaxSlots /\ Len(t) \in Nat /\ DOMAIN t = 1..Len(t)
      /\ \A x \in DOMAIN t : /\ t[x] \in Entry /\ t[x].name \in Names
                             /\ t[x].offset \in Nat /\ t[x].length \in Nat \ {0}
  BY TableFacts
<1>2. e.offset \in Nat /\ e.length \in Nat \ {0} BY DEF Extent
<1>3. new \in Entry /\ new.name = name /\ new.offset = e.offset /\ new.length = e.length
  BY <1>2 DEF Entry
<1> HIDE DEF new
<1>4. /\ u \in Seq(Entry) /\ Len(u) = Len(t) + 1 /\ DOMAIN u = 1..(Len(t) + 1)
      /\ \A x \in 1..Len(t) : u[x] = t[x]
      /\ u[Len(t) + 1] = new
  BY <1>0, <1>1, <1>3 DEF new
<1>5. MaxSlots \in Nat BY DEF SptAssumption
<1>6. Sound(u)
  <2>1. ASSUME NEW x \in DOMAIN u, NEW y \in DOMAIN u, x # y
        PROVE  u[x].name # u[y].name /\ ~Overlap(u[x], u[y])
    <3>1. CASE x \in 1..Len(t) /\ y \in 1..Len(t)
      BY <1>1, <1>4, <2>1, <3>1 DEF Sound
    <3>2. CASE x \in 1..Len(t) /\ y = Len(t) + 1
      <4>1. u[x] = t[x] /\ u[y] = new BY <1>4, <3>2
      <4>2. t[x].name # name /\ ~Overlap(t[x], e) BY <1>0, <1>1, <3>2 DEF HasName
      <4> QED BY <4>1, <4>2, <1>3 DEF Overlap
    <3>3. CASE x = Len(t) + 1 /\ y \in 1..Len(t)
      <4>1. u[y] = t[y] /\ u[x] = new BY <1>4, <3>3
      <4>2. t[y].name # name /\ ~Overlap(t[y], e) BY <1>0, <1>1, <3>3 DEF HasName
      <4>3. t[y].offset \in Nat /\ t[y].length \in Nat BY <1>1, <3>3
      <4> QED BY <4>1, <4>2, <4>3, <1>2, <1>3 DEF Overlap
    <3> QED BY <1>1, <1>4, <2>1, <3>1, <3>2, <3>3
  <2>2. Len(u) <= MaxSlots BY <1>0, <1>1, <1>4, <1>5
  <2> QED BY <2>1, <2>2 DEF Sound
<1>7. Offsets(t) \subseteq Offsets(u)
  <2>1. ASSUME NEW x \in DOMAIN t PROVE t[x].offset \in Offsets(u)
    <3>1. x \in DOMAIN u /\ u[x] = t[x] BY <1>1, <1>4
    <3> QED BY <3>1 DEF Offsets
  <2> QED BY <2>1 DEF Offsets
<1>8. u \in Table BY <1>0, <1>1, <1>4, <1>5 DEF Table
<1> QED BY <1>6, <1>7, <1>8 DEF u

LEMMA DeleteFacts ==
    ASSUME SptAssumption, NEW t \in Table, Sound(t), NEW n \in DOMAIN t,
           NEW u, u = Without(t, n)
    PROVE  u \in Table /\ Sound(u) /\ Offsets(t) \ {t[n].offset} \subseteq Offsets(u)
<1>1. /\ t \in Seq(Entry) /\ Len(t) <= MaxSlots /\ Len(t) \in Nat /\ DOMAIN t = 1..Len(t)
      /\ \A x \in DOMAIN t : /\ t[x] \in Entry /\ t[x].name \in Names
                             /\ t[x].offset \in Nat /\ t[x].length \in Nat \ {0}
  BY TableFacts
<1>2. n \in 1..Len(t) /\ Len(t) - 1 \in Nat BY <1>1
<1> DEFINE From(x) == IF x < n THEN x ELSE x + 1
<1>3. \A x \in 1..(Len(t) - 1) : From(x) \in 1..Len(t) /\ u[x] = t[From(x)]
  BY <1>1, <1>2 DEF Without
<1>4. \A x, y \in 1..(Len(t) - 1) : x # y => From(x) # From(y) BY <1>2
<1>5. DOMAIN u = 1..(Len(t) - 1) BY DEF Without
<1>6. u \in Seq(Entry) /\ Len(u) = Len(t) - 1
  <2>1. \A x \in 1..(Len(t) - 1) : u[x] \in Entry BY <1>1, <1>3
  <2>2. u \in [1..(Len(t) - 1) -> Entry] BY <2>1 DEF Without
  <2> QED BY <2>2, <1>2
<1>7. Len(u) <= MaxSlots BY <1>1, <1>6 DEF SptAssumption
<1>8. Sound(u)
  <2>1. ASSUME NEW x \in DOMAIN u, NEW y \in DOMAIN u, x # y
        PROVE  u[x].name # u[y].name /\ ~Overlap(u[x], u[y])
    <3>1. /\ From(x) \in DOMAIN t /\ From(y) \in DOMAIN t /\ From(x) # From(y)
          /\ u[x] = t[From(x)] /\ u[y] = t[From(y)]
      BY <1>1, <1>3, <1>4, <1>5, <2>1
    <3> HIDE DEF From
    <3> QED BY <3>1 DEF Sound
  <2> QED BY <1>7, <2>1 DEF Sound
<1>9. Offsets(t) \ {t[n].offset} \subseteq Offsets(u)
  <2>1. ASSUME NEW x \in DOMAIN t, x # n PROVE t[x].offset \in Offsets(u)
    <3>1. PICK y \in 1..(Len(t) - 1) : From(y) = x
      <4>1. CASE x < n BY <4>1, <1>1, <1>2
      <4>2. CASE x > n
        <5>1. x - 1 \in 1..(Len(t) - 1) /\ From(x - 1) = x BY <4>2, <1>1, <1>2
        <5> QED BY <5>1
      <4> QED BY <4>1, <4>2, <1>1, <1>2, <2>1
    <3> QED BY <3>1, <1>3, <1>5 DEF Offsets
  <2> QED BY <2>1 DEF Offsets
<1> QED BY <1>6, <1>7, <1>8, <1>9 DEF Table
--------------------------------------------------------------------------------
\* What holds of every state the invariant holds in.
LEMMA Types ==
    ASSUME IInv
    PROVE  /\ flash \in [Copies -> Block] /\ (\A c \in Copies : flash[c] \in Block)
           /\ spt \in Block /\ saved \in Block /\ spt.tab \in Table /\ saved.tab \in Table
           /\ call.tab \in Table /\ call.offset \in Nat /\ call.fn \in Fns
           /\ boot \in SUBSET Nat /\ at \in Copies /\ cand \in SUBSET Table
           /\ Final \in Block /\ Good(Final)
<1>1. call.tab \in Table /\ call.offset \in Nat /\ call.fn \in Fns BY DEF IInv, TypeOK
<1>2. spt.tab \in Table /\ saved.tab \in Table BY BlockFacts DEF IInv, TypeOK
<1>3. Final \in Block /\ Good(Final) BY FinalFacts DEF IInv
<1> QED BY <1>1, <1>2, <1>3 DEF IInv, TypeOK

LEMMA NoCallFacts ==
    ASSUME SptAssumption
    PROVE  /\ NoCall \in [fn : Fns, tab : Table, offset : Nat] /\ Sound(NoCall.tab)
           /\ NoCall.fn = "none"
           /\ [NoCall EXCEPT !.fn = "init"] \in [fn : Fns, tab : Table, offset : Nat]
           /\ [NoCall EXCEPT !.fn = "init"].fn = "init"
           /\ Sound([NoCall EXCEPT !.fn = "init"].tab)
<1>1. << >> \in Table /\ Sound(<< >>) BY EmptyTable
<1>2. /\ NoCall = [fn |-> "none", tab |-> << >>, offset |-> 0]
      /\ [NoCall EXCEPT !.fn = "init"] = [fn |-> "init", tab |-> << >>, offset |-> 0]
  BY DEF NoCall
<1> QED BY <1>1, <1>2 DEF Fns

\* A step after which no call is in progress.
LEMMA EndStep ==
    ASSUME IInv, SptAssumption, Ends, pc' \in {"idle", "closed"}, ret' \in {"ok", "err"},
           stable' \in BOOLEAN, UNCHANGED saved,
           spt_corrupted' \in BOOLEAN, cpb_corrupted' \in BOOLEAN,
           flash' \in [Copies -> Block], \A c \in Copies : Sound(flash'[c].tab),
           spt' \in Block, Sound(spt'.tab),
           boot' \subseteq boot, cand' \in SUBSET Table,
           pc' = "idle" /\ ~spt_corrupted' /\ cand' # {} => InStep',
           CandInv',
           cand' # {} /\ saved.magic # "ok" =>
               \A c \in Copies : Good(flash'[c]) => boot' \subseteq Offsets(flash'[c].tab)
    PROVE  IInv'
<1>1. call' = NoCall /\ at' = First /\ job' = "writeback" BY DEF Ends
<1>2. /\ call' \in [fn : Fns, tab : Table, offset : Nat] /\ Sound(call'.tab)
      /\ call'.fn = "none"
  BY <1>1, NoCallFacts
<1>3. First \in Copies BY CopyFacts
<1>4. saved' \in Block /\ Sound(saved'.tab) /\ boot' \in SUBSET Nat
  BY DEF IInv, TypeOK, AllSound
<1>5. TypeOK' BY <1>1, <1>2, <1>3, <1>4 DEF TypeOK, Pcs
<1>6. AllSound' BY <1>2, <1>4 DEF AllSound
<1>7. ~AtFlash' BY DEF AtFlash
<1>8. CallInv' BY <1>2, <1>7 DEF CallInv
<1>9. SeqInv' /\ CallTab' BY <1>7 DEF SeqInv, CallTab, AtFlash
<1>10. SyncInv' BY DEF SyncInv
<1>11. BootInv' BY <1>7 DEF BootInv
<1> QED BY <1>5, <1>6, <1>8, <1>9, <1>10, <1>11 DEF IInv

\* The table is changed in memory, and the sequence starts.
LEMMA ChangeStep ==
    ASSUME IInv, SptAssumption, NEW fn \in Changes, NEW b \in Block, Change(fn, b),
           pc \in {"idle", "data_erase"}, Sound(b.tab),
           b.magic = "ok" \/ (fn # "restore" /\ b.magic = spt.magic),
           fn = "delete" => call.offset \notin boot,
           cand # {} /\ saved.magic # "ok" /\ ~spt_corrupted => boot \subseteq Offsets(b.tab)
    PROVE  IInv'
<1>1. /\ spt' = b /\ call' = [fn |-> fn, tab |-> b.tab, offset |-> call.offset]
      /\ ret' = "ok"
      /\ cand' = IF spt_corrupted \/ cand = {} THEN {} ELSE cand \cup {b.tab}
      /\ pc' = "erase_part" /\ at' = First /\ job' = "writeback"
      /\ UNCHANGED <<flash, spt_corrupted, cpb_corrupted, boot, saved, stable>>
  BY DEF Change, lib
<1>2. call'.fn = fn /\ call'.tab = b.tab /\ call'.offset = call.offset BY <1>1
<1>3. b.tab \in Table /\ fn \in Fns BY BlockFacts DEF Changes, Fns
<1>4. call' \in [fn : Fns, tab : Table, offset : Nat] BY <1>1, <1>3, Types
<1>5. cand' \in SUBSET Table BY <1>1, <1>3, Types
<1>6. First \in Copies /\ Second \in Copies /\ First # Second BY CopyFacts
<1>7. TypeOK' BY <1>1, <1>4, <1>5, <1>6 DEF IInv, TypeOK, Pcs
<1>8. AllSound' BY <1>1, <1>2 DEF IInv, AllSound
<1>9. CallInv' BY <1>1, <1>2 DEF CallInv, AtFlash, Changes
<1>10. cand' # {} => cand # {} /\ ~spt_corrupted /\ InStep /\ cand' = cand \cup {b.tab}
  BY <1>1 DEF IInv, SyncInv
<1>11. InStep => spt.magic = "ok" /\ Good(flash[Second])
  <2>1. InStep => spt = Final /\ flash[Second] = Final BY <1>6 DEF InStep
  <2> QED BY <2>1, Types, FinalFacts DEF IInv
<1>12. SeqInv'
  <2>1. Trusted' => spt'.magic = "ok"
    <3>1. CASE b.magic = "ok" BY <3>1, <1>1
    <3>2. CASE fn # "restore" /\ b.magic = spt.magic
      <4>1. Trusted' => cand' # {} BY <3>2, <1>1, <1>2 DEF Trusted
      <4> QED BY <3>2, <4>1, <1>1, <1>10, <1>11
    <3> QED BY <3>1, <3>2
  <2>2. cand' # {} => spt'.tab \in cand' /\ Good(flash'[Second]) BY <1>1, <1>10, <1>11
  <2> QED BY <1>1, <1>6, <2>1, <2>2 DEF SeqInv
<1>13. CallTab' BY <1>1, <1>2, <1>6 DEF CallTab
<1>14. SyncInv' BY <1>1 DEF SyncInv
<1>15. CandInv' BY <1>1, <1>10 DEF IInv, CandInv
<1>16. BootInv' BY <1>1, <1>10 DEF IInv, BootInv
<1> QED BY <1>7, <1>8, <1>9, <1>12, <1>13, <1>14, <1>15, <1>16 DEF IInv
--------------------------------------------------------------------------------
\* The calls.

LEMMA OpenStep ==
    ASSUME IInv, SptAssumption, rsu_qspi_open
    PROVE  IInv'
<1>1. /\ pc = "closed" /\ pc' = "load_spt" /\ ret' = "ok"
      /\ call' = [NoCall EXCEPT !.fn = "init"]
      /\ spt' = Blank /\ spt_corrupted' = FALSE /\ cpb_corrupted' = FALSE
      /\ UNCHANGED <<flash, boot, at, job, saved, cand, stable>>
  BY DEF rsu_qspi_open, Freed
<1>2. /\ call' \in [fn : Fns, tab : Table, offset : Nat] /\ call'.fn = "init"
      /\ Sound(call'.tab)
  BY <1>1, NoCallFacts
<1>3. spt' \in Block /\ Sound(spt'.tab) BY <1>1, EmptyTable
<1>4. TypeOK' BY <1>1, <1>2, <1>3 DEF IInv, TypeOK, Pcs
<1>5. AllSound' BY <1>1, <1>2, <1>3 DEF IInv, AllSound
<1>6. ~AtFlash' BY <1>1 DEF AtFlash
<1>7. CallInv' /\ SeqInv' /\ CallTab' /\ SyncInv'
  BY <1>1, <1>2, <1>6 DEF CallInv, SeqInv, CallTab, SyncInv
<1>8. CandInv' BY <1>1 DEF IInv, CandInv
<1>9. BootInv' BY <1>1, <1>6 DEF IInv, BootInv
<1> QED BY <1>4, <1>5, <1>7, <1>8, <1>9 DEF IInv

LEMMA ExitStep ==
    ASSUME IInv, SptAssumption, librsu_exit
    PROVE  IInv'
<1>1. /\ Ends /\ pc' = "closed" /\ ret' = "err"
      /\ spt' = Blank /\ spt_corrupted' = FALSE /\ cpb_corrupted' = FALSE
      /\ UNCHANGED <<flash, boot, saved, cand, stable>>
  BY DEF librsu_exit, Closes, Freed
<1>2. spt' \in Block /\ Sound(spt'.tab) BY <1>1, EmptyTable
<1>3. /\ flash' \in [Copies -> Block] /\ \A c \in Copies : Sound(flash'[c].tab)
      /\ cand' \in SUBSET Table /\ stable' \in BOOLEAN
  BY <1>1 DEF IInv, TypeOK, AllSound
<1>4. CandInv' BY <1>1 DEF IInv, CandInv
<1>5. cand' # {} /\ saved.magic # "ok" =>
          \A c \in Copies : Good(flash'[c]) => boot' \subseteq Offsets(flash'[c].tab)
  BY <1>1 DEF IInv, BootInv
<1> QED BY <1>1, <1>2, <1>3, <1>4, <1>5, EndStep

LEMMA BootOffsets ==
    ASSUME IInv, SptAssumption, InStep, cand # {}, saved.magic # "ok"
    PROVE  boot \subseteq Offsets(spt.tab)
<1>1. First \in Copies BY CopyFacts
<1>2. flash[First] = spt /\ spt = Final BY <1>1 DEF InStep
<1>3. Good(flash[First]) BY <1>2, Types
<1> QED BY <1>1, <1>2, <1>3 DEF IInv, BootInv

LEMMA RenameStep ==
    ASSUME IInv, SptAssumption, NEW n, NEW name \in NewNames, rsu_slot_rename(n, name)
    PROVE  IInv'
<1> DEFINE b == [spt EXCEPT !.tab[n].name = name]
<1>1. /\ pc = "idle" /\ ~spt_corrupted /\ n \in DOMAIN spt.tab /\ name \notin ReservedNames
      /\ ~HasName(spt.tab, name)
      /\ Change("rename", b)
  BY DEF rsu_slot_rename
<1>2. name \in Names BY <1>1 DEF SptAssumption
<1>3. spt.tab \in Table /\ Sound(spt.tab) /\ spt \in Block BY Types DEF IInv, AllSound
<1> DEFINE u == [spt.tab EXCEPT ![n].name = name]
<1>4. u \in Table /\ Sound(u) /\ Offsets(u) = Offsets(spt.tab)
  <2> HIDE DEF b
  <2> QED BY <1>1, <1>2, <1>3, RenameFacts
<1>5. b = [spt EXCEPT !.tab = u] OBVIOUS
<1>6. b = [magic |-> spt.magic, sum |-> spt.sum, tab |-> u]
  <2> HIDE DEF b, u
  <2> QED BY <1>3, <1>4, <1>5, BlockFacts
<1> HIDE DEF b, u
<1>7. b \in Block /\ b.tab = u /\ b.magic = spt.magic BY <1>3, <1>4, <1>6, BlockFacts, MadeBlock
<1>8. cand # {} /\ saved.magic # "ok" /\ ~spt_corrupted => boot \subseteq Offsets(b.tab)
  <2>1. cand # {} /\ ~spt_corrupted => InStep BY <1>1 DEF IInv, SyncInv
  <2> QED BY <2>1, <1>4, <1>7, BootOffsets
<1>9. "rename" \in Changes BY DEF Changes
<1>10. Sound(b.tab) BY <1>4, <1>7
<1> QED BY <1>1, <1>7, <1>8, <1>9, <1>10, ChangeStep

LEMMA CreateStep ==
    ASSUME IInv, SptAssumption, NEW name \in NewNames, NEW e \in Extents,
           rsu_slot_create(name, e)
    PROVE  IInv'
<1> DEFINE u == Append(spt.tab, [name |-> name, offset |-> e.offset, length |-> e.length])
           b == [spt EXCEPT !.tab = u]
<1>1. /\ pc = "idle" /\ ~spt_corrupted /\ name \notin ReservedNames
      /\ ~HasName(spt.tab, name) /\ Len(spt.tab) < MaxSlots
      /\ \A x \in DOMAIN spt.tab : ~Overlap(spt.tab[x], e)
      /\ Change("create", b)
  BY DEF rsu_slot_create
<1>2. name \in Names /\ e \in Extent BY <1>1 DEF SptAssumption
<1>3. spt.tab \in Table /\ Sound(spt.tab) /\ spt \in Block BY Types DEF IInv, AllSound
<1>4. u \in Table /\ Sound(u) /\ Offsets(spt.tab) \subseteq Offsets(u)
  <2>1. MayAdd(spt.tab, name, e) BY <1>1 DEF MayAdd
  <2>2. u = Added(spt.tab, name, e) BY DEF Added
  <2> HIDE DEF u, b
  <2> QED BY <2>1, <2>2, <1>2, <1>3, CreateFacts
<1> HIDE DEF u
<1>5. b = [magic |-> spt.magic, sum |-> spt.sum, tab |-> u] BY <1>3, <1>4, BlockFacts
<1> HIDE DEF b
<1>6. b \in Block /\ b.tab = u /\ b.magic = spt.magic BY <1>3, <1>4, <1>5, BlockFacts, MadeBlock
<1>7. cand # {} /\ saved.magic # "ok" /\ ~spt_corrupted => boot \subseteq Offsets(b.tab)
  <2>1. cand # {} /\ ~spt_corrupted => InStep BY <1>1 DEF IInv, SyncInv
  <2> QED BY <2>1, <1>4, <1>6, BootOffsets
<1>8. "create" \in Changes BY DEF Changes
<1>9. Sound(b.tab) BY <1>4, <1>6
<1> QED BY <1>1, <1>6, <1>7, <1>8, <1>9, ChangeStep

LEMMA DeleteStep ==
    ASSUME IInv, SptAssumption, NEW n, rsu_slot_delete(n)
    PROVE  IInv'
<1>1. /\ pc = "idle" /\ ~spt_corrupted /\ n \in DOMAIN spt.tab
      /\ call' = [fn |-> "delete", tab |-> Without(spt.tab, n), offset |-> spt.tab[n].offset]
      /\ pc' = "priority_remove" /\ ret' = "ok"
      /\ UNCHANGED <<flash, spt, spt_corrupted, cpb_corrupted, boot, at, job, saved, cand, stable>>
  BY DEF rsu_slot_delete, lib
<1>2. spt.tab \in Table /\ Sound(spt.tab) BY Types DEF IInv, AllSound
<1>3. /\ Without(spt.tab, n) \in Table /\ Sound(Without(spt.tab, n))
      /\ Offsets(spt.tab) \ {spt.tab[n].offset} \subseteq Offsets(Without(spt.tab, n))
  BY <1>1, <1>2, DeleteFacts
<1>4. spt.tab[n].offset \in Nat BY <1>1, <1>2, TableFacts
<1>5. /\ call' \in [fn : Fns, tab : Table, offset : Nat] /\ call'.fn = "delete"
      /\ call'.tab = Without(spt.tab, n) /\ call'.offset = spt.tab[n].offset
  BY <1>1, <1>3, <1>4 DEF Fns
<1>6. TypeOK' BY <1>1, <1>5 DEF IInv, TypeOK, Pcs
<1>7. AllSound' BY <1>1, <1>3, <1>5 DEF IInv, AllSound
<1>8. ~AtFlash' BY <1>1 DEF AtFlash
<1>9. CallInv' /\ SeqInv' /\ CallTab' BY <1>1, <1>5, <1>8 DEF CallInv, SeqInv, CallTab
<1>10. SyncInv' BY <1>1 DEF IInv, SyncInv, InStep, Final
<1>11. CandInv' BY <1>1 DEF IInv, CandInv
<1>12. BootInv'
  <2>1. cand # {} /\ saved.magic # "ok" => boot \subseteq Offsets(spt.tab)
    <3>1. cand # {} => InStep BY <1>1 DEF IInv, SyncInv
    <3> QED BY <3>1, BootOffsets
  <2> QED BY <1>1, <1>3, <1>5, <1>8, <2>1 DEF IInv, BootInv
<1> QED BY <1>6, <1>7, <1>9, <1>10, <1>11, <1>12 DEF IInv

LEMMA SaveStep ==
    ASSUME IInv, SptAssumption, rsu_save_spt_to_buf
    PROVE  IInv'
<1>1. /\ pc = "idle" /\ ~spt_corrupted /\ saved' = flash["SPT0"]
      /\ UNCHANGED <<flash, spt, spt_corrupted, cpb_corrupted, boot, pc, at, job, call, ret,
                     cand, stable>>
  BY DEF rsu_save_spt_to_buf, lib, task
<1>2. "SPT0" \in Copies BY DEF Copies
<1>3. TypeOK' BY <1>1, <1>2, Types DEF IInv, TypeOK
<1>4. AllSound' BY <1>1, <1>2 DEF IInv, AllSound
<1>5. ~AtFlash' BY <1>1 DEF AtFlash
<1>6. CallInv' /\ SeqInv' /\ CallTab' BY <1>1, <1>5 DEF IInv, CallInv, SeqInv, CallTab
<1>7. SyncInv' BY <1>1 DEF IInv, SyncInv, InStep, Final
<1>8. CandInv' BY <1>1 DEF IInv, CandInv
<1>9. cand # {} => saved'.magic = "ok"
  <2>1. cand # {} => InStep BY <1>1 DEF IInv, SyncInv
  <2> QED BY <1>1, <1>2, <2>1, FinalFacts DEF IInv, InStep
<1>10. BootInv' BY <1>1, <1>9 DEF BootInv
<1> QED BY <1>3, <1>4, <1>6, <1>7, <1>8, <1>10 DEF IInv

LEMMA RestoreStep ==
    ASSUME IInv, SptAssumption, rsu_restore_spt_from_buf
    PROVE  IInv'
<1>1. pc = "idle" /\ saved.magic = "ok" /\ Change("restore", saved)
  BY DEF rsu_restore_spt_from_buf
<1>2. saved \in Block /\ Sound(saved.tab) BY DEF IInv, TypeOK, AllSound
<1>3. "restore" \in Changes BY DEF Changes
<1> QED BY <1>1, <1>2, <1>3, ChangeStep

LEMMA ProgramStep ==
    ASSUME IInv, SptAssumption, NEW n, rsu_slot_program_buf(n)
    PROVE  IInv'
<1>1. /\ pc = "idle" /\ ~spt_corrupted /\ n \in DOMAIN spt.tab
      /\ boot' = boot \cup {spt.tab[n].offset}
      /\ UNCHANGED <<flash, spt, spt_corrupted, cpb_corrupted, pc, at, job, call, ret, saved,
                     cand, stable>>
  BY DEF rsu_slot_program_buf, lib, task
<1>2. spt.tab[n].offset \in Nat BY <1>1, Types, TableFacts
<1>3. TypeOK' BY <1>1, <1>2 DEF IInv, TypeOK
<1>4. AllSound' BY <1>1 DEF IInv, AllSound
<1>5. ~AtFlash' BY <1>1 DEF AtFlash
<1>6. CallInv' /\ SeqInv' /\ CallTab' BY <1>1, <1>5 DEF IInv, CallInv, SeqInv, CallTab
<1>7. SyncInv' BY <1>1 DEF IInv, SyncInv, InStep, Final
<1>8. CandInv' BY <1>1 DEF IInv, CandInv
<1>9. BootInv'
  <2>1. SUFFICES ASSUME cand # {}, saved.magic # "ok"
                 PROVE  \A c \in Copies : boot' \subseteq Offsets(flash[c].tab)
    BY <1>1, <1>5 DEF BootInv
  <2>2. InStep BY <1>1, <2>1 DEF IInv, SyncInv
  <2>3. boot \subseteq Offsets(spt.tab) BY <2>1, <2>2, BootOffsets
  <2>4. spt.tab[n].offset \in Offsets(spt.tab) BY <1>1 DEF Offsets
  <2> QED BY <1>1, <2>2, <2>3, <2>4 DEF InStep
<1> QED BY <1>3, <1>4, <1>6, <1>7, <1>8, <1>9 DEF IInv

LEMMA CallsStep ==
    ASSUME IInv, SptAssumption, Calls
    PROVE  IInv'
BY RenameStep, CreateStep, DeleteStep, SaveStep, RestoreStep, ProgramStep, ExitStep DEF Calls
--------------------------------------------------------------------------------
\* The steps of a deletion before the table changes.

LEMMA PriorityRemoveStep ==
    ASSUME IInv, SptAssumption, priority_remove
    PROVE  IInv'
<1>1. pc = "priority_remove" /\ UNCHANGED <<flash, spt, saved, cand, stable>>
  BY DEF priority_remove
<1>2. CASE /\ boot' = boot \ {call.offset} /\ pc' = "data_erase"
           /\ UNCHANGED <<spt_corrupted, cpb_corrupted, at, job, call, ret>>
  <2>1. call.fn = "delete" BY <1>1 DEF IInv, CallInv
  <2>2. TypeOK' BY <1>1, <1>2 DEF IInv, TypeOK, Pcs
  <2>3. AllSound' BY <1>1, <1>2 DEF IInv, AllSound
  <2>4. ~AtFlash' BY <1>2 DEF AtFlash
  <2>5. CallInv' BY <1>2, <2>1, <2>4 DEF CallInv
  <2>6. SeqInv' /\ CallTab' BY <1>2, <2>4 DEF SeqInv, CallTab
  <2>7. SyncInv' BY <1>1, <1>2 DEF IInv, SyncInv, InStep, Final
  <2>8. CandInv' BY <1>1 DEF IInv, CandInv
  <2>9. BootInv' BY <1>1, <1>2, <2>4 DEF IInv, BootInv
  <2> QED BY <2>2, <2>3, <2>5, <2>6, <2>7, <2>8, <2>9 DEF IInv
<1>3. CASE /\ boot' \in {boot, boot \ {call.offset}} /\ cpb_corrupted' \in BOOLEAN
           /\ UNCHANGED spt_corrupted /\ Done("err")
  <2>1. Ends /\ pc' = "idle" /\ ret' = "err" BY <1>3 DEF Done
  <2>2. pc' = "idle" /\ ~spt_corrupted' /\ cand' # {} => InStep'
    BY <1>1, <1>3 DEF IInv, SyncInv, InStep, Final
  <2>3. CandInv' BY <1>1 DEF IInv, CandInv
  <2>4. boot' \subseteq boot BY <1>3
  <2>5. cand' # {} /\ saved.magic # "ok" =>
            \A c \in Copies : Good(flash'[c]) => boot' \subseteq Offsets(flash'[c].tab)
    BY <1>1, <2>4 DEF IInv, BootInv
  <2>6. /\ stable' \in BOOLEAN /\ spt_corrupted' \in BOOLEAN /\ cand' \in SUBSET Table
        /\ flash' \in [Copies -> Block] /\ (\A c \in Copies : Sound(flash'[c].tab))
        /\ spt' \in Block /\ Sound(spt'.tab)
    BY <1>1, <1>3 DEF IInv, TypeOK, AllSound
  <2> QED BY <1>1, <1>3, <2>1, <2>2, <2>3, <2>4, <2>5, <2>6, EndStep
<1> QED BY <1>2, <1>3 DEF priority_remove, lib

LEMMA DataEraseStep ==
    ASSUME IInv, SptAssumption, data_erase
    PROVE  IInv'
<1>1. pc = "data_erase" BY DEF data_erase
<1>2. CASE Change("delete", [spt EXCEPT !.tab = call.tab])
  <2> DEFINE b == [spt EXCEPT !.tab = call.tab]
  <2>1. call.tab \in Table /\ spt \in Block BY Types
  <2>2. b = [magic |-> spt.magic, sum |-> spt.sum, tab |-> call.tab] BY <2>1, BlockFacts
  <2> HIDE DEF b
  <2>3. b \in Block /\ b.tab = call.tab /\ b.magic = spt.magic
    BY <2>1, <2>2, BlockFacts, MadeBlock
  <2>4. Sound(b.tab) BY <2>3 DEF IInv, AllSound
  <2>5. call.offset \notin boot BY <1>1 DEF IInv, CallInv
  <2>6. cand # {} /\ saved.magic # "ok" /\ ~spt_corrupted => boot \subseteq Offsets(b.tab)
    BY <1>1, <2>3 DEF IInv, BootInv
  <2>7. "delete" \in Changes /\ "delete" # "restore" BY DEF Changes
  <2>8. Change("delete", b) BY <1>2 DEF b
  <2> QED BY <1>1, <2>3, <2>4, <2>5, <2>6, <2>7, <2>8, ChangeStep
<1>3. CASE Done("err") /\ UNCHANGED <<flash, spt, spt_corrupted, cpb_corrupted, boot, saved,
                                      cand, stable>>
  <2>1. Ends /\ pc' = "idle" /\ ret' = "err" BY <1>3 DEF Done
  <2>2. pc' = "idle" /\ ~spt_corrupted' /\ cand' # {} => InStep'
    BY <1>1, <1>3 DEF IInv, SyncInv, InStep, Final
  <2>3. CandInv' BY <1>3 DEF IInv, CandInv
  <2>4. cand' # {} /\ saved.magic # "ok" =>
            \A c \in Copies : Good(flash'[c]) => boot' \subseteq Offsets(flash'[c].tab)
    BY <1>3 DEF IInv, BootInv
  <2>5. /\ stable' \in BOOLEAN /\ spt_corrupted' \in BOOLEAN /\ cpb_corrupted' \in BOOLEAN
        /\ flash' \in [Copies -> Block] /\ (\A c \in Copies : Sound(flash'[c].tab))
        /\ spt' \in Block /\ Sound(spt'.tab) /\ cand' \in SUBSET Table /\ boot' \subseteq boot
    BY <1>3 DEF IInv, TypeOK, AllSound
  <2> QED BY <1>3, <2>1, <2>2, <2>3, <2>4, <2>5, EndStep
<1> QED BY <1>2, <1>3 DEF data_erase, lib
--------------------------------------------------------------------------------
\* The erase/table/magic sequence.

\* While one copy is rewritten the other one is good.
LEMMA Witness ==
    ASSUME IInv, SptAssumption, AtFlash, cand # {}
    PROVE  Other(at) \in Copies /\ Other(at) # at /\ Good(flash[Other(at)])
<1>1. at \in Copies /\ job \in {"writeback", "restore"} BY DEF IInv, TypeOK
<1>2. Other(at) \in Copies /\ Other(at) # at BY <1>1, CopyFacts
<1>3. Trusted BY DEF Trusted
<1>4. Good(Final) BY Types
<1>5. CASE job = "restore" BY <1>2, <1>3, <1>4, <1>5 DEF IInv, SeqInv
<1>6. CASE job = "writeback" /\ at = First BY <1>2, <1>6, CopyFacts DEF IInv, SeqInv
<1>7. CASE job = "writeback" /\ at = Second
  <2>1. Other(at) = First BY <1>7, CopyFacts
  <2> QED BY <1>2, <1>3, <1>4, <1>7, <2>1 DEF IInv, SeqInv
<1>8. at = First \/ at = Second BY <1>1, CopyFacts
<1> QED BY <1>1, <1>5, <1>6, <1>7, <1>8

\* What an interrupted step leaves is good only with a table that was there, or the one
\* that is being written.
LEMMA CutFacts ==
    ASSUME IInv, SptAssumption, AtFlash, NEW b \in Cut
    PROVE  /\ b \in Block /\ Sound(b.tab)
           /\ Good(b) => /\ b.tab = flash[at].tab
                         /\ Good(flash[at]) \/ pc = "write_magic"
<1>1. /\ at \in Copies /\ flash[at] \in Block /\ Sound(flash[at].tab)
  BY DEF IInv, TypeOK, AllSound
<1>2. Blank \in Block /\ ~Good(Blank) /\ Sound(Blank.tab) BY EmptyTable
<1>3. CASE pc = "erase_part"
  <2>1. b \in {flash[at], Blank} BY <1>3 DEF Cut
  <2> QED BY <1>1, <1>2, <2>1
<1>4. CASE pc = "write_table"
  <2>1. b = Blank BY <1>4 DEF Cut
  <2> QED BY <1>2, <2>1
<1>5. CASE pc = "write_magic"
  <2>1. b \in {Blank, [flash[at] EXCEPT !.magic = "ok"]} BY <1>5 DEF Cut
  <2>2. [flash[at] EXCEPT !.magic = "ok"]
           = [magic |-> "ok", sum |-> flash[at].sum, tab |-> flash[at].tab]
    BY <1>1, BlockFacts DEF Magic
  <2>3. [magic |-> "ok", sum |-> flash[at].sum, tab |-> flash[at].tab] \in Block
    BY <1>1, BlockFacts, MadeBlock DEF Magic
  <2> QED BY <1>1, <1>2, <1>5, <2>1, <2>2, <2>3
<1> QED BY <1>3, <1>4, <1>5 DEF AtFlash

\* An error or a reset in the middle of the sequence.
LEMMA Written ==
    ASSUME IInv, NEW b \in Block, Sound(b.tab), Writes(b)
    PROVE  /\ flash' \in [Copies -> Block] /\ (\A c \in Copies : Sound(flash'[c].tab))
           /\ flash'[at] = b
           /\ \A c \in Copies : c # at => flash'[c] = flash[c]
<1>1. /\ flash \in [Copies -> Block] /\ at \in Copies
      /\ (\A c \in Copies : Sound(flash[c].tab))
      /\ flash' = [flash EXCEPT ![at] = b]
  BY DEF IInv, TypeOK, AllSound, Writes
<1> QED BY <1>1

LEMMA FailStep ==
    ASSUME IInv, SptAssumption, AtFlash, SequenceFails, spt' \in Block, Sound(spt'.tab),
           UNCHANGED <<boot, saved, stable>>
    PROVE  IInv'
<1>1. cand' = {} /\ UNCHANGED <<spt_corrupted, cpb_corrupted>>
  BY DEF SequenceFails, lib
<1>2. PICK b \in Cut : Writes(b) BY DEF SequenceFails
<1>3. b \in Block /\ Sound(b.tab) BY <1>2, CutFacts
<1>4. flash' \in [Copies -> Block] /\ \A c \in Copies : Sound(flash'[c].tab)
  BY <1>2, <1>3, Written
<1>5. Ends /\ pc' \in {"idle", "closed"} /\ ret' \in {"ok", "err"}
  BY DEF SequenceFails, LoadFails, Done, Closes
<1>6. stable' \in BOOLEAN /\ spt_corrupted' \in BOOLEAN /\ cpb_corrupted' \in BOOLEAN
      /\ cand' \in SUBSET Table /\ boot' \subseteq boot
  BY <1>1 DEF IInv, TypeOK
<1>7. CandInv' BY <1>1 DEF CandInv
<1> QED BY <1>1, <1>4, <1>5, <1>6, <1>7, EndStep

\* What is known of a sequence that starts from something it can trust.
LEMMA SeqFacts ==
    ASSUME IInv, SptAssumption, AtFlash
    PROVE  /\ at \in Copies /\ job \in {"writeback", "restore"} /\ (at = First \/ at = Second)
           /\ Trusted /\ job = "restore" => flash[Other(at)] = Final
           /\ Trusted /\ job = "writeback" /\ at = Second => flash[First] = Final
           /\ cand # {} => Trusted /\ spt.tab \in cand /\ Good(flash[Other(at)])
           /\ cand # {} /\ saved.magic # "ok" => boot \subseteq Offsets(spt.tab)
<1>1. at \in Copies /\ job \in {"writeback", "restore"} BY DEF IInv, TypeOK
<1>2. at = First \/ at = Second BY <1>1, CopyFacts
<1>3. cand # {} => Trusted BY DEF Trusted
<1>4. cand # {} => spt.tab \in cand /\ Good(flash[Other(at)]) BY Witness DEF IInv, SeqInv
<1> QED BY <1>1, <1>2, <1>3, <1>4 DEF IInv, SeqInv, BootInv

LEMMA EraseStep ==
    ASSUME IInv, SptAssumption, erase_part
    PROVE  IInv'
<1>1. pc = "erase_part" /\ AtFlash /\ UNCHANGED <<spt, boot, saved, stable>>
  BY DEF erase_part, AtFlash
<1>2. CASE SequenceFails
  <2>1. spt' \in Block /\ Sound(spt'.tab) BY <1>1 DEF IInv, TypeOK, AllSound
  <2> QED BY <1>1, <1>2, <2>1, FailStep
<1>3. CASE /\ Writes(Blank) /\ pc' = "write_table"
           /\ UNCHANGED <<spt_corrupted, cpb_corrupted, at, job, call, ret, cand>>
  <2>1. Blank \in Block /\ ~Good(Blank) /\ Sound(Blank.tab) BY EmptyTable
  <2>2. /\ flash' \in [Copies -> Block] /\ (\A c \in Copies : Sound(flash'[c].tab))
        /\ flash'[at] = Blank
        /\ \A c \in Copies : c # at => flash'[c] = flash[c]
    BY <1>3, <2>1, Written
  <2>3. Other(at) \in Copies /\ Other(at) # at /\ First \in Copies /\ Second \in Copies
        /\ First # Second /\ (at = First => Other(at) = Second)
    BY SeqFacts, <1>1, CopyFacts
  <2>4. AtFlash' BY <1>3 DEF AtFlash
  <2>5. Trusted' <=> Trusted BY <1>3 DEF Trusted
  <2>6. Final' = Final BY <1>1 DEF Final
  <2>7. TypeOK' BY <1>1, <1>3, <2>2 DEF IInv, TypeOK, Pcs
  <2>8. AllSound' BY <1>1, <1>3, <2>2 DEF IInv, AllSound
  <2>9. CallInv' BY <1>1, <1>3, <2>4 DEF IInv, CallInv
  <2>10. SeqInv'
    <3>1. cand # {} /\ job = "writeback" /\ at = First => Good(flash'[Second])
      BY <1>1, <2>2, <2>3, SeqFacts
    <3>2. Trusted => /\ job = "restore" => flash'[Other(at)] = Final
                     /\ job = "writeback" /\ at = Second => flash'[First] = Final
      BY <1>1, <2>2, <2>3, SeqFacts
    <3>3. Trusted => spt.magic = "ok" /\ (job = "restore" => spt.sum = "ok")
      BY <1>1 DEF IInv, SeqInv
    <3>4. cand # {} => spt.tab \in cand BY <1>1, SeqFacts
    <3> QED BY <1>1, <1>3, <2>5, <2>6, <3>1, <3>2, <3>3, <3>4 DEF SeqInv
  <2>11. CallTab'
    <3>1. AtFlash /\ job = "writeback" /\ at = Second => flash'[First].tab = call.tab
      BY <2>2, <2>3 DEF IInv, CallTab
    <3>2. AtFlash /\ job = "restore" /\ call.fn # "init" => flash'[Other(at)].tab = call.tab
      BY <2>2, <2>3 DEF IInv, CallTab
    <3>3. AtFlash /\ call.fn # "init" => spt.tab = call.tab BY DEF IInv, CallTab
    <3> QED BY <1>1, <1>3, <3>1, <3>2, <3>3 DEF CallTab
  <2>12. SyncInv' BY <1>3 DEF SyncInv
  <2>13. \A c \in Copies : Good(flash'[c]) => c # at /\ flash'[c] = flash[c]
    BY <2>1, <2>2
  <2>14. CandInv'
    <3>1. cand # {} => Good(flash'[Other(at)]) BY <1>1, <2>2, <2>3, SeqFacts
    <3> QED BY <1>3, <2>3, <2>13, <3>1 DEF IInv, CandInv
  <2>15. BootInv' BY <1>1, <1>3, <2>4, <2>13 DEF IInv, BootInv
  <2> QED BY <2>7, <2>8, <2>9, <2>10, <2>11, <2>12, <2>14, <2>15 DEF IInv
<1> QED BY <1>2, <1>3 DEF erase_part, lib

LEMMA UnmarkedFacts ==
    ASSUME IInv, AtFlash
    PROVE  /\ Unmarked \in Block /\ Sound(Unmarked.tab) /\ ~Good(Unmarked)
           /\ Unmarked.tab = spt.tab
           /\ Trusted /\ pc # "write_magic"
                 => Unmarked = [magic |-> "none", sum |-> "ok", tab |-> spt.tab]
<1>1. spt \in Block /\ spt.tab \in Table /\ spt.sum \in {"ok", "bad"} /\ Sound(spt.tab)
  BY BlockFacts DEF IInv, TypeOK, AllSound
<1>2. Checksum \in {"ok", "bad"} BY <1>1 DEF Checksum
<1>3. Unmarked \in Block BY <1>1, <1>2, MadeBlock DEF Unmarked, Magic
<1>4. Unmarked.tab = spt.tab /\ Unmarked.magic = "none" BY DEF Unmarked
<1>5. Trusted /\ pc # "write_magic" => Checksum = "ok" BY DEF IInv, SeqInv, Checksum
<1> QED BY <1>1, <1>3, <1>4, <1>5, GoodFacts DEF Unmarked

LEMMA WriteTableStep ==
    ASSUME IInv, SptAssumption, write_table
    PROVE  IInv'
<1>1. pc = "write_table" /\ AtFlash /\ UNCHANGED <<boot, saved, stable>>
  BY DEF write_table, AtFlash
<1>2. /\ Unmarked \in Block /\ Sound(Unmarked.tab) /\ ~Good(Unmarked)
      /\ Unmarked.tab = spt.tab
      /\ Trusted => Unmarked = [magic |-> "none", sum |-> "ok", tab |-> spt.tab]
  BY <1>1, UnmarkedFacts
<1>3. CASE spt' = Unmarked /\ SequenceFails
  <2>1. spt' \in Block /\ Sound(spt'.tab) BY <1>2, <1>3
  <2> QED BY <1>1, <1>3, <2>1, FailStep
<1>4. CASE Done("err") /\ cand' = {} /\ UNCHANGED <<flash, spt, spt_corrupted, cpb_corrupted>>
  <2>1. Ends /\ pc' = "idle" /\ ret' = "err" BY <1>4 DEF Done
  <2>2. /\ stable' \in BOOLEAN /\ spt_corrupted' \in BOOLEAN /\ cpb_corrupted' \in BOOLEAN
        /\ flash' \in [Copies -> Block] /\ (\A c \in Copies : Sound(flash'[c].tab))
        /\ spt' \in Block /\ Sound(spt'.tab) /\ cand' \in SUBSET Table /\ boot' \subseteq boot
    BY <1>1, <1>4 DEF IInv, TypeOK, AllSound
  <2>3. CandInv' BY <1>4 DEF CandInv
  <2> QED BY <1>1, <1>4, <2>1, <2>2, <2>3, EndStep
<1>5. CASE /\ Writes(Unmarked) /\ spt' = Unmarked /\ pc' = "write_magic"
           /\ UNCHANGED <<spt_corrupted, cpb_corrupted, at, job, call, ret, cand>>
  <2>2. /\ flash' \in [Copies -> Block] /\ (\A c \in Copies : Sound(flash'[c].tab))
        /\ flash'[at] = Unmarked
        /\ \A c \in Copies : c # at => flash'[c] = flash[c]
    BY <1>2, <1>5, Written
  <2>3. Other(at) \in Copies /\ Other(at) # at /\ First \in Copies /\ Second \in Copies
        /\ First # Second /\ (at = First => Other(at) = Second) /\ at \in Copies
    BY SeqFacts, <1>1, CopyFacts
  <2>4. AtFlash' BY <1>5 DEF AtFlash
  <2>5. Trusted' <=> Trusted BY <1>5 DEF Trusted
  <2>6. Final' = Final /\ spt'.tab = spt.tab BY <1>2, <1>5 DEF Final
  <2>7. TypeOK' BY <1>1, <1>2, <1>5, <2>2 DEF IInv, TypeOK, Pcs
  <2>8. AllSound' BY <1>1, <1>2, <1>5, <2>2 DEF IInv, AllSound
  <2>9. CallInv' BY <1>1, <1>5, <2>4 DEF IInv, CallInv
  <2>10. SeqInv'
    <3>1. cand # {} /\ job = "writeback" /\ at = First => Good(flash'[Second])
      BY <1>1, <2>2, <2>3, SeqFacts
    <3>2. Trusted => /\ job = "restore" => flash'[Other(at)] = Final
                     /\ job = "writeback" /\ at = Second => flash'[First] = Final
      BY <1>1, <2>2, <2>3, SeqFacts
    <3>3. Trusted => spt' = [magic |-> "none", sum |-> "ok", tab |-> spt'.tab]
      BY <1>2, <1>5, <2>6
    <3>4. flash'[at] = spt' BY <1>5, <2>2
    <3>5. cand # {} => spt.tab \in cand BY <1>1, SeqFacts
    <3> QED BY <1>5, <2>5, <2>6, <3>1, <3>2, <3>3, <3>4, <3>5 DEF SeqInv
  <2>11. CallTab'
    <3>1. job = "writeback" /\ at = Second => flash'[First].tab = call.tab
      BY <1>1, <2>2, <2>3 DEF IInv, CallTab
    <3>2. job = "restore" /\ call.fn # "init" => flash'[Other(at)].tab = call.tab
      BY <1>1, <2>2, <2>3 DEF IInv, CallTab
    <3>3. call.fn # "init" => spt'.tab = call.tab /\ flash'[at].tab = call.tab
      BY <1>1, <1>2, <2>2, <2>6 DEF IInv, CallTab
    <3> QED BY <1>5, <3>1, <3>2, <3>3 DEF CallTab
  <2>12. SyncInv' BY <1>5 DEF SyncInv
  <2>13. \A c \in Copies : Good(flash'[c]) => c # at /\ flash'[c] = flash[c]
    BY <1>2, <2>2
  <2>14. CandInv'
    <3>1. cand # {} => Good(flash'[Other(at)]) BY <1>1, <2>2, <2>3, SeqFacts
    <3> QED BY <1>5, <2>3, <2>13, <3>1 DEF IInv, CandInv
  <2>15. BootInv' BY <1>1, <1>5, <2>4, <2>6, <2>13 DEF IInv, BootInv
  <2> QED BY <2>7, <2>8, <2>9, <2>10, <2>11, <2>12, <2>14, <2>15 DEF IInv
<1> QED BY <1>3, <1>4, <1>5 DEF write_table, lib

\* Both copies hold the table in memory: the pointer block comes next, or the call ends.
LEMMA SuccessStep ==
    ASSUME IInv, SptAssumption, InStep', cand' = Settled,
           flash' \in [Copies -> Block], \A c \in Copies : Sound(flash'[c].tab),
           spt' \in Block, Sound(spt'.tab), Good(spt'), spt'.tab \in Table,
           UNCHANGED <<boot, saved, stable>>,
           spt_corrupted' \in BOOLEAN, cpb_corrupted' \in BOOLEAN,
           cand # {} /\ saved.magic # "ok" => boot \subseteq Offsets(spt'.tab),
           \/ Done("ok")
           \/ /\ pc' = "load_cpb" /\ at' \in Copies /\ job' \in {"writeback", "restore"}
              /\ UNCHANGED <<call, ret>> /\ call.fn \in {"init", "restore"}
              /\ call.fn = "restore" => spt'.tab = call.tab
    PROVE  IInv'
<1>1. cand' \in SUBSET Table /\ (cand' # {} => cand # {} /\ cand' = {spt'.tab})
  BY DEF Settled
<1>2. \A c \in Copies : flash'[c] = spt' /\ Good(flash'[c]) BY DEF InStep
<1>3. CandInv' BY <1>1, <1>2, CopyFacts DEF CandInv
<1>4. cand' # {} /\ saved.magic # "ok" =>
          \A c \in Copies : Good(flash'[c]) => boot' \subseteq Offsets(flash'[c].tab)
  BY <1>1, <1>2
<1>5. stable' \in BOOLEAN BY DEF IInv, TypeOK
<1>6. CASE Done("ok")
  <2>1. Ends /\ pc' = "idle" /\ ret' = "ok" BY <1>6 DEF Done
  <2> QED BY <1>1, <1>3, <1>4, <1>5, <2>1, EndStep
<1>7. CASE /\ pc' = "load_cpb" /\ at' \in Copies /\ job' \in {"writeback", "restore"}
           /\ UNCHANGED <<call, ret>> /\ call.fn \in {"init", "restore"}
           /\ call.fn = "restore" => spt'.tab = call.tab
  <2>1. TypeOK' BY <1>1, <1>5, <1>7 DEF IInv, TypeOK, Pcs
  <2>2. AllSound' BY <1>7 DEF IInv, AllSound
  <2>3. ~AtFlash' BY <1>7 DEF AtFlash
  <2>4. CallInv' BY <1>7, <2>3 DEF CallInv
  <2>5. SeqInv' /\ CallTab' BY <1>7, <2>3 DEF SeqInv, CallTab
  <2>6. SyncInv' BY <1>7 DEF SyncInv
  <2>7. BootInv' BY <1>4, <1>7, <2>3 DEF BootInv
  <2> QED BY <1>3, <2>1, <2>2, <2>4, <2>5, <2>6, <2>7 DEF IInv
<1> QED BY <1>6, <1>7

LEMMA MarkedFacts ==
    ASSUME IInv, SptAssumption, pc = "write_magic"
    PROVE  /\ Marked \in Block /\ Sound(Marked.tab) /\ Marked.tab = spt.tab
           /\ [flash[at] EXCEPT !.magic = "ok"] \in Block
           /\ [flash[at] EXCEPT !.magic = "ok"].tab = flash[at].tab
           /\ Trusted => Marked = Final /\ [flash[at] EXCEPT !.magic = "ok"] = Final
<1>1. /\ at \in Copies /\ flash[at] \in Block /\ spt \in Block /\ Sound(spt.tab)
  BY DEF IInv, TypeOK, AllSound
<1>2. Marked = [magic |-> "ok", sum |-> spt.sum, tab |-> spt.tab]
  BY <1>1, BlockFacts DEF Marked, Magic
<1>3. [flash[at] EXCEPT !.magic = "ok"]
         = [magic |-> "ok", sum |-> flash[at].sum, tab |-> flash[at].tab]
  BY <1>1, BlockFacts DEF Magic
<1>4. /\ [magic |-> "ok", sum |-> spt.sum, tab |-> spt.tab] \in Block
      /\ [magic |-> "ok", sum |-> flash[at].sum, tab |-> flash[at].tab] \in Block
  BY <1>1, BlockFacts, MadeBlock DEF Magic
<1>5. ASSUME Trusted
      PROVE  spt.sum = "ok" /\ flash[at] = spt
  <2>1. spt = [magic |-> "none", sum |-> "ok", tab |-> spt.tab] /\ flash[at] = spt
    BY <1>5 DEF IInv, SeqInv, AtFlash
  <2>2. [magic |-> "none", sum |-> "ok", tab |-> spt.tab].sum = "ok" OBVIOUS
  <2> QED BY <2>1, <2>2
<1>6. Trusted => Marked = Final /\ [flash[at] EXCEPT !.magic = "ok"] = Final
  BY <1>2, <1>3, <1>5 DEF Final
<1> QED BY <1>1, <1>2, <1>3, <1>4, <1>6

\* The magic number of the last copy: the table is in memory and in both copies.
LEMMA BothWritten ==
    ASSUME IInv, SptAssumption, pc = "write_magic", spt' = Marked, Trusted,
           job = "restore" \/ at = Second, Writes([flash[at] EXCEPT !.magic = "ok"])
    PROVE  InStep' /\ Good(spt') /\ spt'.tab = spt.tab
<1> DEFINE b == [flash[at] EXCEPT !.magic = "ok"]
<1>1. AtFlash BY DEF AtFlash
<1>2. Marked.tab = spt.tab /\ Marked = Final /\ b \in Block /\ b.tab = flash[at].tab /\ b = Final
  BY MarkedFacts
<1>3. Sound(b.tab) BY <1>1, <1>2, SeqFacts DEF IInv, AllSound
<1>4. Writes(b) OBVIOUS
<1> HIDE DEF b
<1>5. flash'[at] = b /\ \A c \in Copies : c # at => flash'[c] = flash[c]
  BY <1>2, <1>3, <1>4, Written
<1>6. /\ Other(at) \in Copies /\ Other(at) # at /\ (at = Second => Other(at) = First)
      /\ \A c \in Copies : c = at \/ c = Other(at)
  BY SeqFacts, <1>1, CopyFacts
<1>7. flash[Other(at)] = Final BY <1>1, <1>6, SeqFacts
<1>8. flash'[at] = Final /\ flash'[Other(at)] = Final BY <1>2, <1>5, <1>6, <1>7
<1>9. spt' = Final /\ Final' = Final /\ Good(Final) BY <1>2, Types DEF Final
<1> QED BY <1>2, <1>6, <1>8, <1>9 DEF InStep

LEMMA WriteMagicStep ==
    ASSUME IInv, SptAssumption, write_magic
    PROVE  IInv'
<1> DEFINE b == [flash[at] EXCEPT !.magic = "ok"]
<1>1. pc = "write_magic" /\ AtFlash /\ spt' = Marked /\ UNCHANGED <<boot, saved, stable>>
  BY DEF write_magic, AtFlash
<1>2. /\ Marked \in Block /\ Sound(Marked.tab) /\ Marked.tab = spt.tab
      /\ b \in Block /\ b.tab = flash[at].tab
      /\ Trusted => Marked = Final /\ b = Final
  BY <1>1, MarkedFacts
<1>3. spt' \in Block /\ Sound(spt'.tab) /\ spt'.tab = spt.tab /\ Final' = Final
      /\ spt'.tab \in Table
  BY <1>1, <1>2, Types DEF Final
<1>4. CASE SequenceFails BY <1>1, <1>3, <1>4, FailStep
<1>5. \/ SequenceFails
      \/ /\ Writes(b)
         /\ \/ job = "restore" /\ LoadSucceeds
            \/ /\ job = "writeback" /\ at = First
               /\ at' = Second /\ pc' = "erase_part"
               /\ UNCHANGED <<spt_corrupted, cpb_corrupted, job, call, ret, cand>>
            \/ /\ job = "writeback" /\ at = Second /\ call.fn # "restore"
               /\ pc' = "load_spt"
               /\ UNCHANGED <<spt_corrupted, cpb_corrupted, at, job, call, ret, cand>>
            \/ /\ job = "writeback" /\ at = Second /\ call.fn = "restore"
               /\ spt_corrupted' = FALSE /\ cpb_corrupted' = FALSE
               /\ cand' = Settled
               /\ pc' = "load_cpb"
               /\ UNCHANGED <<at, job, call, ret>>
  BY DEF write_magic, lib
<1>6. ASSUME Writes(b)
      PROVE  /\ flash' \in [Copies -> Block] /\ (\A c \in Copies : Sound(flash'[c].tab))
             /\ flash'[at] = b
             /\ \A c \in Copies : c # at => flash'[c] = flash[c]
  <2>1. Sound(b.tab) BY <1>2, <1>1, SeqFacts DEF IInv, AllSound
  <2> HIDE DEF b
  <2> QED BY <1>2, <1>6, <2>1, Written
<1> HIDE DEF b
<1>7. /\ Other(at) \in Copies /\ Other(at) # at /\ First \in Copies /\ Second \in Copies
      /\ First # Second /\ (at = First => Other(at) = Second)
      /\ (at = Second => Other(at) = First) /\ at \in Copies
      /\ \A c \in Copies : c = at \/ c = Other(at)
  BY SeqFacts, <1>1, CopyFacts
<1>8. Good(Final) BY Types
<1>9. ASSUME Writes(b), Trusted, job = "restore" \/ at = Second
      PROVE  InStep' /\ Good(spt')
  BY <1>1, <1>9, BothWritten DEF b
<1>10. cand # {} /\ saved.magic # "ok" => boot \subseteq Offsets(spt'.tab)
  BY <1>1, <1>3, SeqFacts
<1>11. CASE Writes(b) /\ job = "restore" /\ LoadSucceeds
  <2>1. Trusted BY <1>11 DEF Trusted
  <2>2. InStep' /\ Good(spt') BY <1>9, <1>11, <2>1
  <2>3. /\ cand' = Settled /\ UNCHANGED <<spt_corrupted, cpb_corrupted>>
        /\ \/ Done("ok")
           \/ call.fn = "init" /\ pc' = "load_cpb" /\ UNCHANGED <<at, job, call, ret>>
    BY <1>11 DEF LoadSucceeds, lib
  <2>4. at \in Copies /\ job \in {"writeback", "restore"} /\ spt_corrupted \in BOOLEAN
        /\ cpb_corrupted \in BOOLEAN
    BY DEF IInv, TypeOK
  <2>5. spt_corrupted' \in BOOLEAN /\ cpb_corrupted' \in BOOLEAN BY <2>3, <2>4
  <2>6. \/ Done("ok")
        \/ /\ pc' = "load_cpb" /\ at' \in Copies /\ job' \in {"writeback", "restore"}
           /\ UNCHANGED <<call, ret>> /\ call.fn \in {"init", "restore"}
           /\ call.fn = "restore" => spt'.tab = call.tab
    BY <2>3, <2>4
  <2> QED BY <1>1, <1>3, <1>6, <1>10, <1>11, <2>2, <2>3, <2>5, <2>6, SuccessStep
<1>12. CASE /\ Writes(b) /\ job = "writeback" /\ at = Second /\ call.fn = "restore"
            /\ spt_corrupted' = FALSE /\ cpb_corrupted' = FALSE
            /\ cand' = Settled /\ pc' = "load_cpb" /\ UNCHANGED <<at, job, call, ret>>
  <2>1. Trusted BY <1>12 DEF Trusted
  <2>2. InStep' /\ Good(spt') BY <1>9, <1>12, <2>1
  <2>3. spt'.tab = call.tab BY <1>1, <1>3, <1>12 DEF IInv, CallTab
  <2>4. at \in Copies /\ job \in {"writeback", "restore"} BY DEF IInv, TypeOK
  <2>5. spt_corrupted' \in BOOLEAN /\ cpb_corrupted' \in BOOLEAN BY <1>12
  <2>6. /\ pc' = "load_cpb" /\ at' \in Copies /\ job' \in {"writeback", "restore"}
        /\ UNCHANGED <<call, ret>> /\ call.fn \in {"init", "restore"}
        /\ call.fn = "restore" => spt'.tab = call.tab
    BY <1>12, <2>3, <2>4
  <2> QED BY <1>1, <1>3, <1>6, <1>10, <1>12, <2>2, <2>5, <2>6, SuccessStep
<1>13. \A c \in Copies : Good(flash'[c]) /\ cand # {} /\ Writes(b) =>
            \/ c # at /\ flash'[c] = flash[c]
            \/ flash'[c].tab = spt.tab
  <2>1. cand # {} => b.tab = spt.tab BY <1>1, <1>2, <1>3, SeqFacts
  <2> QED BY <1>6, <1>7, <2>1
<1>14. ASSUME Writes(b), UNCHANGED cand
       PROVE  /\ CandInv'
              /\ cand # {} /\ saved.magic # "ok" =>
                   \A c \in Copies : Good(flash'[c]) => boot \subseteq Offsets(flash'[c].tab)
  <2>1. cand # {} => Good(flash'[Other(at)]) /\ spt.tab \in cand
    BY <1>1, <1>6, <1>7, <1>14, SeqFacts
  <2>2. cand # {} /\ saved.magic # "ok" => boot \subseteq Offsets(spt.tab) BY <1>3, <1>10
  <2>3. \A c \in Copies : cand # {} /\ Good(flash[c]) => flash[c].tab \in cand
    BY DEF IInv, CandInv
  <2>4. \A c \in Copies : cand # {} /\ saved.magic # "ok" /\ Good(flash[c])
                             => boot \subseteq Offsets(flash[c].tab)
    BY DEF IInv, BootInv
  <2> QED BY <1>7, <1>13, <1>14, <2>1, <2>2, <2>3, <2>4 DEF CandInv
<1>15. CASE /\ Writes(b) /\ job = "writeback" /\ at = First /\ at' = Second /\ pc' = "erase_part"
            /\ UNCHANGED <<spt_corrupted, cpb_corrupted, job, call, ret, cand>>
  <2>1. AtFlash' BY <1>15 DEF AtFlash
  <2>2. Trusted' <=> Trusted BY <1>15 DEF Trusted
  <2>3. TypeOK' BY <1>1, <1>3, <1>6, <1>7, <1>15 DEF IInv, TypeOK, Pcs
  <2>4. AllSound' BY <1>1, <1>3, <1>6, <1>15 DEF IInv, AllSound
  <2>5. CallInv' BY <1>1, <1>15, <2>1 DEF IInv, CallInv
  <2>6. SeqInv'
    <3>1. Trusted => flash'[First] = Final BY <1>2, <1>6, <1>15
    <3>2. Trusted => spt'.magic = "ok"
      <4>1. Final.magic = "ok" BY DEF Final
      <4> QED BY <1>1, <1>2, <4>1
    <3>3. cand # {} => spt'.tab \in cand BY <1>1, <1>3, SeqFacts
    <3> QED BY <1>3, <1>7, <1>15, <2>2, <3>1, <3>2, <3>3 DEF SeqInv
  <2>7. CallTab'
    <3>1. call.fn # "init" BY <1>1, <1>15 DEF IInv, CallInv, Changes
    <3>2. flash'[First].tab = call.tab /\ spt'.tab = call.tab
      BY <1>1, <1>2, <1>3, <1>6, <1>15, <3>1 DEF IInv, CallTab
    <3> QED BY <1>7, <1>15, <3>2 DEF CallTab
  <2>8. SyncInv' BY <1>15 DEF SyncInv
  <2>9. BootInv' BY <1>1, <1>10, <1>14, <1>15 DEF BootInv
  <2> QED BY <1>14, <1>15, <2>3, <2>4, <2>5, <2>6, <2>7, <2>8, <2>9 DEF IInv
<1>16. CASE /\ Writes(b) /\ job = "writeback" /\ at = Second /\ call.fn # "restore"
            /\ pc' = "load_spt"
            /\ UNCHANGED <<spt_corrupted, cpb_corrupted, at, job, call, ret, cand>>
  <2>1. ~AtFlash' BY <1>16 DEF AtFlash
  <2>2. call.fn \in {"rename", "create", "delete"} BY <1>1, <1>16 DEF IInv, CallInv, Changes
  <2>3. TypeOK' BY <1>1, <1>3, <1>6, <1>7, <1>16 DEF IInv, TypeOK, Pcs
  <2>4. AllSound' BY <1>1, <1>3, <1>6, <1>16 DEF IInv, AllSound
  <2>5. CallInv' BY <1>1, <1>16, <2>1, <2>2 DEF IInv, CallInv
  <2>6. SeqInv' BY <2>1 DEF SeqInv
  <2>7. CallTab'
    <3>1. flash'[First].tab = call.tab BY <1>1, <1>6, <1>7, <1>16 DEF IInv, CallTab
    <3>2. flash'[Second].tab = call.tab
      BY <1>1, <1>2, <1>6, <1>16, <2>2 DEF IInv, CallTab
    <3> QED BY <1>7, <1>16, <2>1, <3>1, <3>2 DEF CallTab
  <2>8. SyncInv'
    <3>1. cand # {} => InStep' BY <1>1, <1>9, <1>16, SeqFacts
    <3> QED BY <1>16, <3>1 DEF SyncInv
  <2>9. BootInv' BY <1>1, <1>14, <1>16, <2>1 DEF BootInv
  <2> QED BY <1>14, <1>16, <2>3, <2>4, <2>5, <2>6, <2>7, <2>8, <2>9 DEF IInv
<1> QED BY <1>4, <1>5, <1>11, <1>12, <1>15, <1>16
--------------------------------------------------------------------------------
\* Loading.

\* load_spt gives up, with one of the tables it has read or none.
LEMMA LoadFailsStep ==
    ASSUME IInv, SptAssumption, pc = "load_spt", LoadFails,
           spt' \in {spt, flash["SPT0"], flash["SPT1"]},
           UNCHANGED <<flash, boot, saved, cand, stable>>
    PROVE  IInv'
<1>1. Ends /\ pc' \in {"idle", "closed"} /\ ret' \in {"ok", "err"}
      /\ UNCHANGED <<spt_corrupted, cpb_corrupted>>
      /\ (pc' = "idle" => call.fn # "init")
  BY DEF LoadFails, Done, Closes, lib
<1>2. "SPT0" \in Copies /\ "SPT1" \in Copies BY DEF Copies
<1>3. spt' \in Block /\ Sound(spt'.tab) BY <1>2 DEF IInv, TypeOK, AllSound
<1>4. pc' = "idle" /\ ~spt_corrupted' /\ cand' # {} => InStep'
  <2>1. SUFFICES ASSUME pc' = "idle", cand # {} PROVE InStep' OBVIOUS
  <2>2. InStep BY <1>1, <2>1 DEF IInv, SyncInv
  <2>3. spt' = spt BY <1>2, <2>2 DEF InStep
  <2> QED BY <2>2, <2>3 DEF InStep, Final
<1>5. CandInv' BY DEF IInv, CandInv
<1>6. cand' # {} /\ saved.magic # "ok" =>
          \A c \in Copies : Good(flash'[c]) => boot' \subseteq Offsets(flash'[c].tab)
  BY DEF IInv, BootInv
<1>7. /\ stable' \in BOOLEAN /\ spt_corrupted' \in BOOLEAN /\ cpb_corrupted' \in BOOLEAN
      /\ flash' \in [Copies -> Block] /\ (\A c \in Copies : Sound(flash'[c].tab))
      /\ cand' \in SUBSET Table /\ boot' \subseteq boot
  BY <1>1 DEF IInv, TypeOK, AllSound
<1> QED BY <1>1, <1>3, <1>4, <1>5, <1>6, <1>7, EndStep

\* load_spt trusts neither copy.
LEMMA RefusedStep ==
    ASSUME IInv, SptAssumption, Refused, spt' = flash["SPT0"],
           UNCHANGED <<flash, boot, saved, stable>>
    PROVE  IInv'
<1>1. /\ Ends /\ pc' = "idle" /\ ret' \in {"ok", "err"}
      /\ spt_corrupted' = TRUE /\ cpb_corrupted' \in {TRUE, cpb_corrupted} /\ cand' = cand
  BY DEF Refused, Done
<1>2. "SPT0" \in Copies BY DEF Copies
<1>3. spt' \in Block /\ Sound(spt'.tab) BY <1>2 DEF IInv, TypeOK, AllSound
<1>4. CandInv' BY <1>1 DEF IInv, CandInv
<1>5. cand' # {} /\ saved.magic # "ok" =>
          \A c \in Copies : Good(flash'[c]) => boot' \subseteq Offsets(flash'[c].tab)
  BY <1>1 DEF IInv, BootInv
<1>6. /\ stable' \in BOOLEAN /\ spt_corrupted' \in BOOLEAN /\ cpb_corrupted' \in BOOLEAN
      /\ flash' \in [Copies -> Block] /\ (\A c \in Copies : Sound(flash'[c].tab))
      /\ cand' \in SUBSET Table /\ boot' \subseteq boot
  BY <1>1 DEF IInv, TypeOK, AllSound
<1> QED BY <1>1, <1>3, <1>4, <1>5, <1>6, EndStep

\* One copy passes: the other is written from it.
LEMMA RepairStep ==
    ASSUME IInv, SptAssumption, pc = "load_spt", NEW c \in Copies, Good(flash[c]),
           spt' = flash[c], pc' = "erase_part", job' = "restore", at' = Other(c),
           UNCHANGED <<spt_corrupted, cpb_corrupted, call, ret, cand>>,
           UNCHANGED <<flash, boot, saved, stable>>
    PROVE  IInv'
<1>1. /\ flash[c] \in Block /\ Sound(flash[c].tab) /\ flash[c].tab \in Table
      /\ flash[c] = [magic |-> "ok", sum |-> "ok", tab |-> flash[c].tab]
  BY Types, BlockFacts, GoodFacts DEF IInv, AllSound
<1>2. at' \in Copies /\ Other(at') = c BY CopyFacts
<1>3. AtFlash' BY DEF AtFlash
<1>4. Final' = flash[c] BY <1>1 DEF Final
<1>5. spt'.magic = "ok" /\ spt'.sum = "ok"
  <2>1. [magic |-> "ok", sum |-> "ok", tab |-> flash[c].tab].magic = "ok"
        /\ [magic |-> "ok", sum |-> "ok", tab |-> flash[c].tab].sum = "ok"
    OBVIOUS
  <2> QED BY <1>1, <2>1
<1>6. cand # {} => spt'.tab \in cand BY DEF IInv, CandInv
<1>7. TypeOK' BY <1>1, <1>2 DEF IInv, TypeOK, Pcs
<1>8. AllSound' BY <1>1 DEF IInv, AllSound
<1>9. CallInv' BY <1>3 DEF IInv, CallInv
<1>10. SeqInv' BY <1>2, <1>4, <1>5, <1>6 DEF SeqInv
<1>11. CallTab' BY <1>2 DEF IInv, CallTab
<1>12. SyncInv' BY DEF SyncInv
<1>13. CandInv' BY DEF IInv, CandInv
<1>14. BootInv' BY DEF IInv, BootInv
<1> QED BY <1>7, <1>8, <1>9, <1>10, <1>11, <1>12, <1>13, <1>14 DEF IInv

LEMMA LoadReadsStep ==
    ASSUME IInv, SptAssumption, pc = "load_spt", UNCHANGED <<flash, boot, saved, stable>>,
           NEW m, NEW again, LoadReads(m, again)
    PROVE  IInv'
<1>1. "SPT0" \in Copies /\ "SPT1" \in Copies /\ \A c \in Copies : c = "SPT0" \/ c = "SPT1"
  BY DEF Copies
<1>2. CASE /\ Passes("SPT0", m) /\ Passes("SPT1", m) /\ spt' = flash["SPT0"]
           /\ check_both_spt(again) /\ LoadSucceeds
  <2>1. flash["SPT0"] = flash["SPT1"] /\ Good(flash["SPT0"])
    BY <1>2 DEF check_both_spt, Passes
  <2>2. spt' \in Block /\ Sound(spt'.tab) /\ spt'.tab \in Table
        /\ spt' = [magic |-> "ok", sum |-> "ok", tab |-> spt'.tab]
    BY <1>1, <1>2, <2>1, Types, BlockFacts, GoodFacts DEF IInv, AllSound
  <2>3. InStep' /\ Good(spt') BY <1>1, <1>2, <2>1, <2>2 DEF InStep, Final
  <2>4. cand # {} /\ saved.magic # "ok" => boot \subseteq Offsets(spt'.tab)
    BY <1>1, <1>2, <2>1 DEF IInv, BootInv
  <2>5. /\ cand' = Settled /\ UNCHANGED <<spt_corrupted, cpb_corrupted>>
        /\ \/ Done("ok")
           \/ call.fn = "init" /\ pc' = "load_cpb" /\ UNCHANGED <<at, job, call, ret>>
    BY <1>2 DEF LoadSucceeds, lib
  <2>6. /\ at \in Copies /\ job \in {"writeback", "restore"}
        /\ flash' \in [Copies -> Block] /\ (\A c \in Copies : Sound(flash'[c].tab))
        /\ spt_corrupted \in BOOLEAN /\ cpb_corrupted \in BOOLEAN
    BY DEF IInv, TypeOK, AllSound
  <2>7. spt_corrupted' \in BOOLEAN /\ cpb_corrupted' \in BOOLEAN BY <2>5, <2>6
  <2>8. \/ Done("ok")
        \/ /\ pc' = "load_cpb" /\ at' \in Copies /\ job' \in {"writeback", "restore"}
           /\ UNCHANGED <<call, ret>> /\ call.fn \in {"init", "restore"}
           /\ call.fn = "restore" => spt'.tab = call.tab
    BY <2>5, <2>6
  <2> QED BY <2>2, <2>3, <2>4, <2>5, <2>6, <2>7, <2>8, SuccessStep
<1>3. CASE spt' = flash["SPT0"] /\ Refused BY <1>3, RefusedStep
<1>4. ASSUME NEW c \in Copies, Passes(c, m), spt' = flash[c], pc' = "erase_part",
             job' = "restore", at' = Other(c), UNCHANGED <<lib, call, ret, cand>>
      PROVE  IInv'
  <2>1. Good(flash[c]) BY <1>4 DEF Passes
  <2>2. UNCHANGED <<spt_corrupted, cpb_corrupted, call, ret, cand>> BY <1>4 DEF lib
  <2> QED BY <1>4, <2>1, <2>2, RepairStep
<1>5. CASE spt' \in {flash["SPT0"], flash["SPT1"]} /\ LoadFails /\ UNCHANGED cand
  BY <1>5, LoadFailsStep
<1> QED BY <1>2, <1>3, <1>4, <1>5 DEF LoadReads

LEMMA LoadSptStep ==
    ASSUME IInv, SptAssumption, load_spt
    PROVE  IInv'
<1>1. pc = "load_spt" /\ UNCHANGED <<flash, boot, saved, stable>> BY DEF load_spt
<1>2. CASE LoadReads(AllMemory, TRUE) BY <1>1, <1>2, LoadReadsStep
<1>3. CASE spt' \in {spt, flash["SPT0"], flash["SPT1"]} /\ LoadFails /\ UNCHANGED cand
  BY <1>1, <1>3, LoadFailsStep
<1>4. ASSUME NEW m \in [Copies -> BOOLEAN], NEW again \in BOOLEAN, LoadReads(m, again)
      PROVE  IInv'
  BY <1>1, <1>4, LoadReadsStep
<1> QED BY <1>2, <1>3, <1>4 DEF load_spt

LEMMA LoadCpbStep ==
    ASSUME IInv, SptAssumption, load_cpb
    PROVE  IInv'
<1>1. pc = "load_cpb" /\ UNCHANGED <<flash, spt, spt_corrupted, boot, saved, stable>>
  BY DEF load_cpb
<1>2. /\ Ends /\ pc' \in {"idle", "closed"} /\ ret' \in {"ok", "err"}
      /\ \/ cpb_corrupted' \in BOOLEAN /\ cand' = cand
         \/ /\ cpb_corrupted' = FALSE /\ boot \subseteq Offsets(spt.tab)
            /\ cand' = {spt.tab}
  <2>1. CASE /\ cpb_corrupted' = (~ boot \subseteq Offsets(spt.tab)) /\ Done("ok")
             /\ cand' = IF cpb_corrupted' THEN cand ELSE {spt.tab}
    BY <2>1 DEF Done
  <2>2. CASE /\ UNCHANGED cand
             /\ \/ cpb_corrupted' = TRUE /\ Done("ok")
                \/ call.fn = "init" /\ Closes /\ UNCHANGED cpb_corrupted
                \/ call.fn = "restore" /\ Done("ok") /\ UNCHANGED cpb_corrupted
    BY <2>2 DEF Done, Closes, IInv, TypeOK
  <2> QED BY <2>1, <2>2 DEF load_cpb
<1>3. InStep /\ InStep' BY <1>1 DEF IInv, SyncInv, InStep, Final
<1>4. spt.tab \in Table /\ Good(Final) BY Types
<1>5. \A c \in Copies : flash[c] = spt /\ Good(flash[c]) BY <1>3, <1>4 DEF InStep
<1>6. First \in Copies BY CopyFacts
<1>7. CandInv' BY <1>1, <1>2, <1>5, <1>6 DEF IInv, CandInv
<1>8. cand' # {} /\ saved.magic # "ok" =>
          \A c \in Copies : Good(flash'[c]) => boot' \subseteq Offsets(flash'[c].tab)
  BY <1>1, <1>2, <1>5 DEF IInv, BootInv
<1>9. /\ stable' \in BOOLEAN /\ spt_corrupted' \in BOOLEAN /\ cpb_corrupted' \in BOOLEAN
      /\ flash' \in [Copies -> Block] /\ (\A c \in Copies : Sound(flash'[c].tab))
      /\ spt' \in Block /\ Sound(spt'.tab) /\ boot' \subseteq boot
  BY <1>1, <1>2 DEF IInv, TypeOK, AllSound
<1>10. cand' \in SUBSET Table
  <2>1. cand \in SUBSET Table BY DEF IInv, TypeOK
  <2> QED BY <1>2, <1>4, <2>1
<1> QED BY <1>1, <1>2, <1>3, <1>7, <1>8, <1>9, <1>10, EndStep
--------------------------------------------------------------------------------
\* Power loss and CPU reset.
LEMMA RestartStep ==
    ASSUME IInv, SptAssumption, Restart
    PROVE  IInv'
<1>1. /\ Ends /\ pc' = "closed" /\ ret' = "err"
      /\ spt' = Blank /\ spt_corrupted' = FALSE /\ cpb_corrupted' = FALSE
      /\ UNCHANGED <<saved, cand, stable>>
  BY DEF Restart, Closes, Freed
<1>2. boot' \subseteq boot BY DEF Restart
<1>3. spt' \in Block /\ Sound(spt'.tab) BY <1>1, EmptyTable
<1>4. stable' \in BOOLEAN /\ cand' \in SUBSET Table BY <1>1 DEF IInv, TypeOK
<1>5. /\ flash' \in [Copies -> Block] /\ (\A c \in Copies : Sound(flash'[c].tab))
      /\ CandInv'
      /\ cand' # {} /\ saved.magic # "ok" =>
           \A c \in Copies : Good(flash'[c]) => boot' \subseteq Offsets(flash'[c].tab)
  <2>1. CASE ~AtFlash /\ UNCHANGED flash
    BY <1>1, <1>2, <2>1 DEF IInv, TypeOK, AllSound, CandInv, BootInv
  <2>2. CASE AtFlash /\ \E b \in Cut : Writes(b)
    <3>1. PICK b \in Cut : Writes(b) BY <2>2
    <3>2. /\ b \in Block /\ Sound(b.tab)
          /\ Good(b) => b.tab = flash[at].tab /\ (Good(flash[at]) \/ pc = "write_magic")
      BY <2>2, <3>1, CutFacts
    <3>3. /\ flash' \in [Copies -> Block] /\ (\A c \in Copies : Sound(flash'[c].tab))
          /\ flash'[at] = b /\ \A c \in Copies : c # at => flash'[c] = flash[c]
      BY <3>1, <3>2, Written
    <3>4. /\ cand # {} => /\ Other(at) \in Copies /\ Other(at) # at /\ Good(flash[Other(at)])
                          /\ Trusted /\ spt.tab \in cand
          /\ cand # {} /\ saved.magic # "ok" => boot \subseteq Offsets(spt.tab)
          /\ at \in Copies
      BY <2>2, Witness, SeqFacts
    <3>5. cand # {} /\ pc = "write_magic" => flash[at].tab = spt.tab
      BY <2>2, <3>4 DEF IInv, SeqInv
    <3>6. \A c \in Copies : Good(flash'[c]) =>
              \/ flash'[c].tab = flash[c].tab /\ Good(flash[c])
              \/ c = at /\ pc = "write_magic" /\ flash'[c].tab = flash[at].tab
      BY <3>2, <3>3
    <3>7. CandInv' BY <1>1, <3>3, <3>4, <3>5, <3>6 DEF IInv, CandInv
    <3>8. cand' # {} /\ saved.magic # "ok" =>
              \A c \in Copies : Good(flash'[c]) => boot' \subseteq Offsets(flash'[c].tab)
      BY <1>1, <1>2, <3>4, <3>5, <3>6 DEF IInv, BootInv
    <3> QED BY <3>3, <3>7, <3>8
  <2> QED BY <2>1, <2>2 DEF Restart
<1> QED BY <1>1, <1>2, <1>3, <1>4, <1>5, EndStep

LEMMA Start ==
    ASSUME Init, SptAssumption
    PROVE  IInv
<1>1. PICK t \in Tables :
         /\ flash = [c \in Copies |-> [magic |-> "ok", sum |-> "ok", tab |-> t]]
         /\ cand = {t} /\ boot \in SUBSET Offsets(t)
  BY DEF Init
<1>2. t \in Seq(Entry) /\ Sound(t) BY DEF SptAssumption
<1>3. t \in Table BY <1>2 DEF Table, Sound
<1>4. Offsets(t) \subseteq Nat BY <1>3, TableFacts DEF Offsets
<1>5. First \in Copies BY CopyFacts
<1>6. Blank \in Block /\ Sound(Blank.tab) BY EmptyTable
<1>7. NoCall \in [fn : Fns, tab : Table, offset : Nat] /\ Sound(NoCall.tab)
      /\ NoCall.fn = "none"
  BY NoCallFacts
<1>8. [magic |-> "ok", sum |-> "ok", tab |-> t] \in Block BY <1>3, MadeBlock DEF Magic
<1>9. TypeOK
  <2>1. flash \in [Copies -> Block] BY <1>1, <1>8
  <2>2. boot \in SUBSET Nat /\ cand \in SUBSET Table BY <1>1, <1>3, <1>4
  <2> QED BY <1>5, <1>6, <1>7, <2>1, <2>2 DEF Init, TypeOK, Pcs
<1>10. \A c \in Copies : flash[c].tab = t BY <1>1
<1>11. AllSound BY <1>2, <1>6, <1>7, <1>10 DEF Init, AllSound
<1>12. ~AtFlash /\ pc = "closed" /\ call.fn = "none" BY <1>7 DEF Init, AtFlash
<1>13. CallInv /\ SeqInv /\ CallTab /\ SyncInv
  BY <1>12 DEF CallInv, SeqInv, CallTab, SyncInv
<1>14. Good(flash[First])
  <2>1. flash[First].magic = "ok" /\ flash[First].sum = "ok" /\ flash[First].tab = t
    BY <1>1, <1>5
  <2> QED BY <1>2, <2>1 DEF Good, check_spt
<1>15. CandInv BY <1>1, <1>5, <1>10, <1>14 DEF CandInv
<1>16. BootInv BY <1>1, <1>10, <1>12 DEF BootInv
<1> QED BY <1>9, <1>11, <1>13, <1>15, <1>16 DEF IInv

LEMMA Step ==
    ASSUME IInv, SptAssumption, [Next]_vars
    PROVE  IInv'
<1>1. CASE Steps
  BY <1>1, PriorityRemoveStep, DataEraseStep, EraseStep, WriteTableStep, WriteMagicStep,
     LoadSptStep, LoadCpbStep
  DEF Steps
<1>2. CASE UNCHANGED vars
  BY <1>2 DEF vars, lib, task, IInv, TypeOK, AllSound, CallInv, SeqInv, CallTab, SyncInv, CandInv,
     BootInv, AtFlash, Trusted, Final, InStep
<1> QED BY <1>1, <1>2, OpenStep, CallsStep, RestartStep DEF Next

\* IInv holds in every state.
LEMMA Invariant == Spec => []IInv
<1>1. Init => IInv BY Start, SptAssumption
<1>2. IInv /\ [Next]_vars => IInv' BY Step, SptAssumption
<1> QED BY <1>1, <1>2, PTL DEF Spec
--------------------------------------------------------------------------------
\* Every variable holds a value of its kind, whatever the calls, failures and resets.
THEOREM SptTypeCorrect == Spec => []TypeOK
<1>1. IInv => TypeOK BY DEF IInv
<1> QED BY <1>1, Invariant, PTL

\* The library never marks a table in flash that its own check_spt refuses, with any
\* failing call and any reset: create and rename check against the table they extend, and
\* every table that reaches memory or flash comes from one that was sound.
THEOREM SptNeverWritesUnsound == Spec => []NeverWritesUnsound
<1>1. IInv => NeverWritesUnsound BY DEF IInv, AllSound, NeverWritesUnsound
<1> QED BY <1>1, Invariant, PTL

\* One copy of the table is always good and holds the table from before or after the
\* interrupted call, unless an erase or program failed earlier: writeback_spt and load_spt
\* work on one copy while the other is good.
THEOREM SptAnchored == Spec => []Anchored
<1>1. IInv => Anchored BY DEF IInv, CandInv, Anchored
<1> QED BY <1>1, Invariant, PTL

\* Between calls the table in memory and both copies are the same good table.
THEOREM SptInSync == Spec => []InSync
<1>1. IInv => InSync BY Types DEF IInv, SyncInv, InStep, InSync
<1> QED BY <1>1, Invariant, PTL

\* Every pointer of the boot order is the offset of a slot in every table a restart may
\* find: rsu_slot_delete removes the pointer before the slot.
THEOREM SptBootKnown == Spec => []BootKnown
<1>1. IInv => BootKnown BY DEF IInv, BootInv, BootKnown
<1> QED BY <1>1, Invariant, PTL
--------------------------------------------------------------------------------
Promised == /\ spt'.tab = call.tab
            /\ \A c \in Copies : Good(flash'[c]) /\ flash'[c].tab = call.tab
            /\ call.fn = "delete" => call.offset \notin boot'

\* The steps that end a change with success.
LEMMA DurableStep ==
    ASSUME IInv, SptAssumption, [Next]_vars,
           call.fn \in Changes, pc' = "idle", ret' = "ok"
    PROVE  Promised
<1>1. pc \notin {"idle", "closed"} /\ call.fn \notin {"none", "init"}
  BY DEF IInv, CallInv, Changes
<1>2. ~rsu_qspi_open /\ ~Calls /\ ~Restart /\ ~UNCHANGED vars
  <2>1. ~rsu_qspi_open BY <1>1 DEF rsu_qspi_open
  <2>2. ~Restart BY DEF Restart, Closes
  <2>3. ~UNCHANGED vars BY <1>1 DEF vars, task
  <2>4. ~Calls
    BY <1>1 DEF Calls, rsu_slot_rename, rsu_slot_create, rsu_slot_delete, rsu_slot_program_buf,
       rsu_save_spt_to_buf, rsu_restore_spt_from_buf, librsu_exit
  <2> QED BY <2>1, <2>2, <2>3, <2>4
<1>3. ~SequenceFails BY <1>1 DEF SequenceFails, LoadFails, Done
<1>4. ~priority_remove /\ ~data_erase /\ ~erase_part /\ ~write_table
  BY <1>3 DEF priority_remove, data_erase, erase_part, write_table, Done, Change
<1>5. call.fn = "delete" /\ pc # "priority_remove" => call.offset \notin boot
  BY DEF IInv, CallInv
<1>6. ASSUME write_magic PROVE Promised
  <2>1. /\ pc = "write_magic" /\ spt' = Marked /\ UNCHANGED boot
        /\ Writes([flash[at] EXCEPT !.magic = "ok"])
        /\ job = "restore"
    BY <1>3, <1>6 DEF write_magic
  <2>2. Trusted BY <2>1 DEF Trusted
  <2>3. InStep' /\ Good(spt') /\ spt'.tab = spt.tab BY <2>1, <2>2, BothWritten
  <2>4. spt.tab = call.tab BY <1>1, <2>1 DEF IInv, CallTab, AtFlash
  <2> QED BY <1>5, <2>1, <2>3, <2>4 DEF InStep, Promised
<1>7. ASSUME load_spt PROVE Promised
  <2>1. pc = "load_spt" /\ UNCHANGED <<flash, boot>> BY <1>7 DEF load_spt
  <2>2. ~LoadFails /\ ~Refused BY <1>1 DEF LoadFails, Refused, Done
  <2>3. PICK m, again : LoadReads(m, again) BY <1>7, <2>2 DEF load_spt
  <2>4. /\ Passes("SPT0", m) /\ Passes("SPT1", m) /\ spt' = flash["SPT0"]
        /\ check_both_spt(again)
    BY <2>2, <2>3 DEF LoadReads
  <2>5. "SPT0" \in Copies /\ \A c \in Copies : Good(flash[c])
    BY <2>4 DEF Copies, Passes
  <2>6. \A c \in Copies : flash[c].tab = call.tab BY <1>1, <2>1 DEF IInv, CallTab
  <2> QED BY <1>5, <2>1, <2>4, <2>5, <2>6 DEF Promised
<1>8. ASSUME load_cpb PROVE Promised
  <2>1. pc = "load_cpb" /\ UNCHANGED <<flash, spt, boot>> BY <1>8 DEF load_cpb
  <2>2. InStep /\ spt.tab = call.tab BY <1>1, <2>1 DEF IInv, SyncInv, CallTab
  <2>3. Good(Final) BY Types
  <2> QED BY <1>5, <2>1, <2>2, <2>3 DEF InStep, Promised
<1> QED BY <1>2, <1>4, <1>6, <1>7, <1>8 DEF Next, Steps

\* A rename, create, delete or restore that reports success is in memory and in both
\* copies, and a deleted slot has no pointer, whatever failed before and during the call.
THEOREM SptDurable == Spec => Durable
<1>1. IInv /\ [Next]_vars =>
        [call.fn \in {"rename", "create", "delete", "restore"} /\ pc' = "idle" /\ ret' = "ok"
           => /\ spt'.tab = call.tab
              /\ \A c \in Copies : Good(flash'[c]) /\ flash'[c].tab = call.tab
              /\ call.fn = "delete" => call.offset \notin boot']_vars
  BY DurableStep, SptAssumption DEF Promised, Changes
<1> QED BY <1>1, Invariant, PTL DEF Spec, Durable
================================================================================
