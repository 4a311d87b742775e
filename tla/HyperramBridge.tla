----------------------------- MODULE HyperramBridge -----------------------------
(***************************************************************************)
(* hyperram_axi4lite_bridge.vhd: two AXI4-Lite masters with 32-bit beats   *)
(* on the one address channel, 64-bit beats and tagged responses of        *)
(* hyperram_axi. A rising edge of the clock is one action, whichever       *)
(* handshakes it completes; what the masters drive and what the core does  *)
(* between two edges are actions of their own. The core carries out its    *)
(* commands in order. An address is that of a 32-bit word: its lowest bit  *)
(* is bit 2 of the byte address, the half of a 64-bit beat.                *)
(***************************************************************************)
EXTENDS Integers, Sequences, FiniteSets

CONSTANTS
    Readers, Writers, \* the masters that read and that write
    Beats,            \* the 64-bit beats of the memory
    Values,           \* 32-bit data
    read_fifo_depth,
    CoreDepth         \* commands hyperram_axi holds

ASSUME BridgeAssumption ==
    /\ Readers \subseteq {"d", "i"} /\ Writers \subseteq {"d", "i"} /\ Beats \subseteq Nat /\ 0 \in Values
    /\ read_fifo_depth \in Nat \ {0} /\ CoreDepth \in Nat \ {0}

VARIABLES
    w_pending, write_owner, write_bit2,
    read_bit2, read_head, read_tail, read_count,
    aw, ar,     \* each master's write and read address: none, or a set of one
    w,          \* each master's write data not sent yet
    cmds,       \* the core's command queue: writes, and reads by their place in reads
    wbuf,       \* the core's write buffer
    reads,      \* the reads accepted and not answered, in order
    b,          \* the core's B channel: none, or the tag of one response
    mem,        \* the memory
    words       \* ghost: the memory after every command accepted so far

fifo == <<read_bit2, read_head, read_tail, read_count>>
bridge == <<w_pending, write_owner, write_bit2, fifo>>
masters == <<aw, ar, w>>
vars == <<bridge, masters, cmds, wbuf, reads, b, mem, words>>

Owners == {"d", "i"}
Halves == {0, 1}
Word == [beat : Beats, half : Halves]
Beat == [Halves -> Values]
--------------------------------------------------------------------------------
\* The arbiter, combinational.

read_full == read_count = read_fifo_depth

\* Mutants: a write is not held back until the data of the one before is sent; a read is
\* held back one too late.
WriteNotHeld(m) == aw[m] # {}
FullTooLate(m) == ar[m] # {} /\ read_count <= read_fifo_depth

req_aw(m) == aw[m] # {} /\ ~w_pending
req_ar(m) == ar[m] # {} /\ ~read_full

\* The request on the address channel: data write, data read, instruction write,
\* instruction read.
Selected(m, write) ==
    /\ IF write THEN req_aw(m) ELSE req_ar(m) /\ ~req_aw(m)
    /\ m = "i" => ~req_aw("d") /\ ~req_ar("d")

\* hyperram_axi takes a request while it has room (external).
arw_ready == Len(cmds) < CoreDepth

w_valid == w_pending /\ w[write_owner] # <<>>
r_valid == reads # <<>> /\ Head(reads).done
--------------------------------------------------------------------------------
\* The rising edge of the clock: what each handshake does.

Wrap(i) == IF i = read_fifo_depth - 1 THEN 0 ELSE i + 1

\* Mutant: the half is stored whether a read is accepted or not.
StoresAlways(push, pop, half) ==
    /\ read_bit2' = [read_bit2 EXCEPT ![read_tail] = half]
    /\ read_tail' = IF push THEN Wrap(read_tail) ELSE read_tail
    /\ read_head' = IF pop THEN Wrap(read_head) ELSE read_head
    /\ read_count' = read_count + (IF push /\ ~pop THEN 1 ELSE IF pop /\ ~push THEN -1 ELSE 0)

ReadFifo(push, pop, half) ==
    /\ read_bit2' = IF push THEN [read_bit2 EXCEPT ![read_tail] = half] ELSE read_bit2
    /\ read_tail' = IF push THEN Wrap(read_tail) ELSE read_tail
    /\ read_head' = IF pop THEN Wrap(read_head) ELSE read_head
    /\ read_count' = read_count + (IF push /\ ~pop THEN 1 ELSE IF pop /\ ~push THEN -1 ELSE 0)

\* Mutant: the word always goes out in the low half.
LowHalfOnly(sent) ==
    IF sent THEN /\ w_valid
                 /\ wbuf' = Append(wbuf, [half |-> 0, v |-> Head(w[write_owner])])
                 /\ w' = [w EXCEPT ![write_owner] = Tail(@)]
            ELSE UNCHANGED <<wbuf, w>>

\* W: the owner's word in the half its address selected, the other half strobed off.
WritePhase(sent) ==
    IF sent THEN /\ w_valid
                 /\ wbuf' = Append(wbuf, [half |-> write_bit2, v |-> Head(w[write_owner])])
                 /\ w' = [w EXCEPT ![write_owner] = Tail(@)]
            ELSE UNCHANGED <<wbuf, w>>

\* R: the response's tag says whose ready signal counts; the master sees the half of the
\* oldest read. B: the same tag.
r_data == Head(reads).data[read_bit2[read_head]]

Responses(popR, popB) ==
    /\ popR => r_valid
    /\ popB => b # {}
    /\ b' = IF popB THEN {} ELSE b

Unanswered(popR) == IF popR THEN Tail(reads) ELSE reads

\* An edge at which no request is accepted.
EdgeIdle(sent, popR, popB) ==
    /\ sent \/ popR \/ popB
    /\ WritePhase(sent)
    /\ Responses(popR, popB)
    /\ ReadFifo(FALSE, popR, 0)
    /\ w_pending' = (w_pending /\ ~sent)
    /\ reads' = Unanswered(popR)
    /\ UNCHANGED <<write_owner, write_bit2, aw, ar, cmds, mem, words>>

\* An edge that accepts a write. Its data is the last word the master put out.
EdgeWrite(m, a, popR, popB) ==
    /\ arw_ready /\ Selected(m, TRUE) /\ a \in aw[m]
    /\ WritePhase(FALSE)
    /\ Responses(popR, popB)
    /\ ReadFifo(FALSE, popR, 0)
    /\ w_pending' = TRUE /\ write_owner' = m /\ write_bit2' = a.half
    /\ cmds' = Append(cmds, [write |-> TRUE, owner |-> m, beat |-> a.beat])
    /\ aw' = [aw EXCEPT ![m] = {}]
    /\ words' = [words EXCEPT ![a.beat] = [@ EXCEPT ![a.half] = w[m][Len(w[m])]]]
    /\ reads' = Unanswered(popR)
    /\ UNCHANGED <<ar, mem>>

EdgeRead(m, a, sent, popR, popB) ==
    /\ arw_ready /\ Selected(m, FALSE) /\ a \in ar[m]
    /\ WritePhase(sent)
    /\ Responses(popR, popB)
    /\ ReadFifo(TRUE, popR, a.half)
    /\ w_pending' = (w_pending /\ ~sent)
    /\ cmds' = Append(cmds, [write |-> FALSE, owner |-> m, beat |-> a.beat])
    /\ ar' = [ar EXCEPT ![m] = {}]
    /\ reads' = Append(Unanswered(popR), [half |-> a.half, want |-> words[a.beat][a.half],
                                          done |-> FALSE, data |-> mem[a.beat]])
    /\ UNCHANGED <<write_owner, write_bit2, aw, mem, words>>

rising_edge ==
    \E popR \in BOOLEAN, popB \in BOOLEAN :
        \/ \E sent \in BOOLEAN : EdgeIdle(sent, popR, popB)
        \/ \E m \in Owners, a \in Word : EdgeWrite(m, a, popR, popB)
        \/ \E m \in Owners, a \in Word, sent \in BOOLEAN : EdgeRead(m, a, sent, popR, popB)
--------------------------------------------------------------------------------
\* The masters: a request stays until it is accepted, responses come in order. Write data
\* may come before or after its address is accepted.

IssueWrite ==
    \E m \in Writers, a \in Word, v \in Values :
        /\ aw[m] = {} /\ Len(w[m]) < 2
        /\ aw' = [aw EXCEPT ![m] = {a}]
        /\ w' = [w EXCEPT ![m] = Append(@, v)]
        /\ UNCHANGED <<bridge, ar, cmds, wbuf, reads, b, mem, words>>

IssueRead ==
    \E m \in Readers, a \in Word :
        /\ ar[m] = {}
        /\ ar' = [ar EXCEPT ![m] = {a}]
        /\ UNCHANGED <<bridge, aw, w, cmds, wbuf, reads, b, mem, words>>

\* hyperram_axi (external): the oldest command. A write takes the oldest W beat.
core_write ==
    /\ cmds # <<>> /\ Head(cmds).write /\ wbuf # <<>> /\ b = {}
    /\ mem' = [mem EXCEPT ![Head(cmds).beat] = [@ EXCEPT ![Head(wbuf).half] = Head(wbuf).v]]
    /\ cmds' = Tail(cmds) /\ wbuf' = Tail(wbuf) /\ b' = {Head(cmds).owner}
    /\ UNCHANGED <<bridge, masters, reads, words>>

core_read ==
    /\ cmds # <<>> /\ ~Head(cmds).write
    /\ \E k \in DOMAIN reads :
         /\ ~reads[k].done /\ \A j \in 1..(k - 1) : reads[j].done
         /\ reads' = [reads EXCEPT ![k] = [@ EXCEPT !.done = TRUE, !.data = mem[Head(cmds).beat]]]
    /\ cmds' = Tail(cmds)
    /\ UNCHANGED <<bridge, masters, wbuf, b, mem, words>>
--------------------------------------------------------------------------------
Zero == [a \in Beats |-> [h \in Halves |-> 0]]

Init ==
    /\ w_pending = FALSE /\ write_owner = "d" /\ write_bit2 = 0
    /\ read_bit2 = [i \in 0..(read_fifo_depth - 1) |-> 0]
    /\ read_head = 0 /\ read_tail = 0 /\ read_count = 0
    /\ aw = [m \in Owners |-> {}] /\ ar = [m \in Owners |-> {}] /\ w = [m \in Owners |-> <<>>]
    /\ cmds = <<>> /\ wbuf = <<>> /\ reads = <<>> /\ b = {}
    /\ mem = Zero /\ words = Zero

Next == rising_edge \/ IssueWrite \/ IssueRead \/ core_write \/ core_read

Spec == Init /\ [][Next]_vars
--------------------------------------------------------------------------------
\* Every signal is in its range.
TypeOK ==
    /\ w_pending \in BOOLEAN /\ write_owner \in Owners /\ write_bit2 \in Halves
    /\ read_bit2 \in [0..(read_fifo_depth - 1) -> Halves]
    /\ read_head \in 0..(read_fifo_depth - 1) /\ read_tail \in 0..(read_fifo_depth - 1)
    /\ read_count \in 0..read_fifo_depth
    /\ aw \in [Owners -> SUBSET Word] /\ ar \in [Owners -> SUBSET Word]
    /\ w \in [Owners -> Seq(Values)]
    /\ cmds \in Seq([write : BOOLEAN, owner : Owners, beat : Beats])
    /\ wbuf \in Seq([half : Halves, v : Values])
    /\ reads \in Seq([half : Halves, want : Values, done : BOOLEAN, data : Beat])
    /\ b \in SUBSET Owners
    /\ mem \in [Beats -> Beat] /\ words \in [Beats -> Beat]

\* Whatever the masters have in flight, the half of the 64-bit beat that r_data shows is
\* the one the answered read's own address selected (the read_bit2 FIFO).
HalvesMatch == r_valid => read_bit2[read_head] = Head(reads).half

\* A master reads the last word written at the address before its read was accepted, by
\* either master: writes reach the core in order, in their own half and beat, and no
\* write touches the other half of its beat (arbitration, write serialisation, W phase).
ReadsLastWrite == r_valid => r_data = Head(reads).want

\* The core never holds a data beat without the write it belongs to (the file header:
\* "hyperram_axi's write buffer expects W beats in the same order its command queue was
\* given them").
WriteBeatsHaveCommands ==
    LET writes == {k \in DOMAIN cmds : cmds[k].write}
    IN  Cardinality(writes) = Len(wbuf) + (IF w_pending THEN 1 ELSE 0)
================================================================================
