-------------------------- MODULE HyperramBridge_proofs --------------------------
(***************************************************************************)
(* Proofs about HyperramBridge, for every FIFO depth, queue depth and      *)
(* memory: the signals stay in their ranges, the half of each R beat is    *)
(* its own read's, a read returns the last word written, and no data beat  *)
(* is without its write. One invariant says what the bit FIFO holds: its   *)
(* entries from read_head on are the halves of the reads in flight.        *)
(* Another, History, says what the commands not carried out yet will do.   *)
(***************************************************************************)
EXTENDS HyperramBridge, FiniteSetTheorems, TLAPS

\* The place of the read that has k others in front of it.
Pos(k) == IF read_head + k < read_fifo_depth THEN read_head + k
                                             ELSE read_head + k - read_fifo_depth

\* The FIFO's count, tail and entries against the reads in flight.
FifoInv ==
    /\ read_count = Len(reads)
    /\ read_tail = Pos(Len(reads))
    /\ \A k \in 1..Len(reads) : read_bit2[Pos(k - 1)] = reads[k].half

\* A master holds the data of its write that waits for acceptance and of its write whose
\* data phase is to come, and no other.
WInv ==
    \A m \in Owners :
        Len(w[m]) = (IF aw[m] # {} THEN 1 ELSE 0)
                    + (IF w_pending /\ write_owner = m THEN 1 ELSE 0)

IInv == TypeOK /\ FifoInv /\ WInv

CmdType == [write : BOOLEAN, owner : Owners, beat : Beats]
WBeatType == [half : Halves, v : Values]
ReadType == [half : Halves, want : Values, done : BOOLEAN, data : Beat]

\* What Append returns.
LEMMA AppendFacts ==
    ASSUME NEW S, NEW s \in Seq(S), NEW e \in S
    PROVE  /\ Append(s, e) \in Seq(S) /\ Len(Append(s, e)) = Len(s) + 1
           /\ \A k \in 1..Len(s) : Append(s, e)[k] = s[k]
           /\ Append(s, e)[Len(s) + 1] = e
OBVIOUS

\* The parts of rising_edge, each with what it keeps.

\* The data phase keeps the types and takes one word of the owner's.
LEMMA WritePhaseType ==
    ASSUME IInv, NEW sent \in BOOLEAN, WritePhase(sent)
    PROVE  /\ wbuf' \in Seq(WBeatType)
           /\ w' \in [Owners -> Seq(Values)]
           /\ \A m \in Owners : Len(w'[m]) = Len(w[m]) - (IF sent /\ m = write_owner THEN 1 ELSE 0)
           /\ sent => w_pending
<1>1. CASE sent
  <2>1. write_owner \in Owners /\ w[write_owner] \in Seq(Values) /\ w[write_owner] # <<>>
        /\ w_pending
    BY <1>1 DEF IInv, TypeOK, WritePhase, w_valid
  <2>2. /\ Head(w[write_owner]) \in Values /\ Tail(w[write_owner]) \in Seq(Values)
        /\ Len(Tail(w[write_owner])) = Len(w[write_owner]) - 1
    BY <2>1
  <2>3. [half |-> write_bit2, v |-> Head(w[write_owner])] \in WBeatType
    BY <2>2 DEF IInv, TypeOK, WBeatType
  <2>4. wbuf' \in Seq(WBeatType)
    <3>1. wbuf \in Seq(WBeatType) BY DEF IInv, TypeOK, WBeatType
    <3>2. wbuf' = Append(wbuf, [half |-> write_bit2, v |-> Head(w[write_owner])])
      BY <1>1 DEF WritePhase
    <3> HIDE DEF WBeatType
    <3> QED BY <2>3, <3>1, <3>2
  <2>5. w' = [w EXCEPT ![write_owner] = Tail(w[write_owner])]
    BY <1>1 DEF WritePhase
  <2>6. w' \in [Owners -> Seq(Values)]
    BY <2>5, <2>2, <2>1 DEF IInv, TypeOK
  <2>7. \A m \in Owners : Len(w'[m]) = Len(w[m]) - (IF sent /\ m = write_owner THEN 1 ELSE 0)
    <3> TAKE m \in Owners
    <3>1. w \in [Owners -> Seq(Values)] BY DEF IInv, TypeOK
    <3>2. Len(w[m]) \in Nat BY <3>1
    <3>3. CASE m = write_owner BY <3>3, <3>2, <3>1, <2>5, <2>2, <1>1
    <3>4. CASE m # write_owner BY <3>4, <3>2, <3>1, <2>5
    <3> QED BY <3>3, <3>4
  <2> QED BY <2>1, <2>4, <2>6, <2>7
<1>2. CASE ~sent
  <2>1. wbuf' = wbuf /\ w' = w BY <1>2 DEF WritePhase
  <2>2. \A m \in Owners : Len(w[m]) \in Nat BY DEF IInv, TypeOK
  <2> QED BY <1>2, <2>1, <2>2 DEF IInv, TypeOK, WBeatType
<1> QED BY <1>1, <1>2

\* Taking a response keeps the type and drops the oldest read.
LEMMA UnansweredType ==
    ASSUME IInv, NEW pop \in BOOLEAN, pop => r_valid
    PROVE  /\ Unanswered(pop) \in Seq(ReadType)
           /\ Len(Unanswered(pop)) = Len(reads) - (IF pop THEN 1 ELSE 0)
           /\ pop => Len(reads) > 0
           /\ \A k \in 1..Len(Unanswered(pop)) :
                Unanswered(pop)[k] = reads[IF pop THEN k + 1 ELSE k]
<1>1. reads \in Seq(ReadType) BY DEF IInv, TypeOK, ReadType
<1>2. CASE pop
  <2>1. reads # <<>> BY <1>2 DEF r_valid
  <2> QED BY <1>1, <1>2, <2>1 DEF Unanswered
<1>3. CASE ~pop BY <1>1, <1>3 DEF Unanswered
<1> QED BY <1>2, <1>3

\* The bit FIFO: a push when it is not full and a pop when it is not empty, together or
\* alone, keep it equal to the halves of the reads in flight.
LEMMA ReadFifoKeeps ==
    ASSUME IInv, NEW push \in BOOLEAN, NEW pop \in BOOLEAN, NEW half \in Halves,
           pop => r_valid, push => ~read_full, ReadFifo(push, pop, half),
           NEW r \in ReadType, push => r.half = half,
           reads' = IF push THEN Append(Unanswered(pop), r) ELSE Unanswered(pop)
    PROVE  /\ FifoInv'
           /\ read_bit2' \in [0..(read_fifo_depth - 1) -> Halves]
           /\ read_head' \in 0..(read_fifo_depth - 1)
           /\ read_tail' \in 0..(read_fifo_depth - 1)
           /\ read_count' \in 0..read_fifo_depth
           /\ reads' \in Seq(ReadType)
<1> DEFINE D == read_fifo_depth
           U == Unanswered(pop)
           n == Len(reads)
           p == IF pop THEN 1 ELSE 0
           q == IF push THEN 1 ELSE 0
<1>0. /\ p \in {0, 1} /\ (pop => p = 1) /\ (~pop => p = 0)
      /\ q \in {0, 1} /\ (push => q = 1) /\ (~push => q = 0)
  OBVIOUS
<1>1. /\ D \in Nat /\ D > 0 /\ n \in Nat /\ reads \in Seq(ReadType)
      /\ read_bit2 \in [0..(D - 1) -> Halves]
      /\ read_head \in 0..(D - 1) /\ read_tail \in 0..(D - 1) /\ n <= D
      /\ read_count = n /\ read_tail = Pos(n)
      /\ \A k \in 1..n : read_bit2[Pos(k - 1)] = reads[k].half
  BY BridgeAssumption DEF IInv, TypeOK, FifoInv, ReadType
<1>2. /\ U \in Seq(ReadType) /\ Len(U) = n - p /\ (pop => n > 0)
      /\ \A k \in 1..Len(U) : U[k] = reads[IF pop THEN k + 1 ELSE k]
  BY UnansweredType
<1>3. push => n < D BY <1>1 DEF read_full
<1> HIDE DEF U, ReadType, p, q
<1>4. /\ push => reads' = Append(U, r)
      /\ ~push => reads' = U
  BY DEF U
<1>5. /\ reads' \in Seq(ReadType)
      /\ Len(reads') = n - p + q
      /\ \A k \in 1..Len(U) : reads'[k] = U[k]
      /\ push => reads'[n - p + 1] = r
  <2>1. CASE push
    <3>1. reads' = Append(U, r) BY <1>4, <2>1
    <3>2. q = 1 BY <1>0, <2>1
    <3>3. n - p \in Nat /\ Len(U) = n - p BY <1>2
    <3>4. /\ Append(U, r) \in Seq(ReadType) /\ Len(Append(U, r)) = Len(U) + 1
          /\ \A k \in 1..Len(U) : Append(U, r)[k] = U[k]
          /\ Append(U, r)[Len(U) + 1] = r
      BY <1>2, AppendFacts
    <3> QED BY <3>1, <3>2, <3>3, <3>4
  <2>2. CASE ~push BY <1>0, <1>2, <1>4, <2>2
  <2> QED BY <2>1, <2>2
<1>6. read_count' = Len(reads') /\ read_count' \in 0..D
  <2>1. read_count' = read_count - p + q
    <3>1. CASE push /\ pop BY <1>0, <1>1, <3>1 DEF ReadFifo
    <3>2. CASE push /\ ~pop BY <1>0, <1>1, <3>2 DEF ReadFifo
    <3>3. CASE ~push /\ pop BY <1>0, <1>1, <3>3 DEF ReadFifo
    <3>4. CASE ~push /\ ~pop BY <1>0, <1>1, <3>4 DEF ReadFifo
    <3> QED BY <3>1, <3>2, <3>3, <3>4
  <2> QED BY <1>0, <1>1, <1>2, <1>3, <1>5, <2>1
<1>a. /\ pop => read_head' = Wrap(read_head)
      /\ ~pop => read_head' = read_head
      /\ push => read_tail' = Wrap(read_tail) /\ read_bit2' = [read_bit2 EXCEPT ![read_tail] = half]
      /\ ~push => read_tail' = read_tail /\ read_bit2' = read_bit2
  BY DEF ReadFifo
<1>b. /\ Wrap(read_head) \in 0..(D - 1)
      /\ Wrap(read_tail) \in 0..(D - 1)
  BY <1>1 DEF Wrap
<1>7. read_head' \in 0..(D - 1) BY <1>1, <1>a, <1>b
<1>8. read_tail' \in 0..(D - 1) BY <1>1, <1>a, <1>b
<1>9. read_bit2' \in [0..(D - 1) -> Halves] BY <1>1, <1>a
\* The place of every read after the edge, in terms of the places before.
<1>10. \A k \in Nat : k + p <= D /\ (k < D \/ ~pop) => Pos(k)' = Pos(k + p)
  <2> TAKE k \in Nat
  <2>1. CASE pop
    <3>1. p = 1 /\ read_head' = Wrap(read_head) BY <1>0, <1>a, <2>1, Zenon
    <3>2. ASSUME k + 1 <= D PROVE Pos(k)' = Pos(k + 1)
      BY <1>1, <3>1, <3>2 DEF Pos, Wrap
    <3> QED BY <3>1, <3>2
  <2>2. CASE ~pop BY <1>0, <1>1, <1>a, <2>2 DEF Pos
  <2> QED BY <2>1, <2>2
<1>11. read_tail' = Pos(Len(reads))'
  <2>1. read_tail = IF read_head + n < D THEN read_head + n ELSE read_head + n - D
    BY <1>1 DEF Pos
  <2>2. \A k : Pos(k)' = IF read_head' + k < D THEN read_head' + k ELSE read_head' + k - D
    BY DEF Pos
  <2>3. CASE pop /\ push
    <3>0. p = 1 /\ q = 1 /\ n > 0 /\ n < D BY <1>0, <1>2, <1>3, <2>3, Zenon
    <3>1. Len(reads') = n BY <1>1, <1>5, <3>0
    <3>2. read_head' = Wrap(read_head) /\ read_tail' = Wrap(read_tail) BY <1>a, <2>3, Zenon
    <3> QED BY <1>1, <2>1, <2>2, <3>0, <3>1, <3>2 DEF Wrap
  <2>4. CASE pop /\ ~push
    <3>0. p = 1 /\ q = 0 /\ n > 0 BY <1>0, <1>2, <2>4, Zenon
    <3>1. Len(reads') = n - 1 BY <1>1, <1>5, <3>0
    <3>2. read_head' = Wrap(read_head) /\ read_tail' = read_tail BY <1>a, <2>4, Zenon
    <3>3. Pos(Len(reads))' = IF read_head' + (n - 1) < D THEN read_head' + (n - 1)
                                                         ELSE read_head' + (n - 1) - D
      BY <2>2, <3>1
    <3>4. CASE read_head = D - 1 BY <1>1, <2>1, <3>0, <3>2, <3>3, <3>4 DEF Wrap
    <3>5. CASE read_head # D - 1 BY <1>1, <2>1, <3>0, <3>2, <3>3, <3>5 DEF Wrap
    <3> QED BY <3>4, <3>5
  <2>5. CASE ~pop /\ push
    <3>1. Len(reads') = n + 1 /\ n < D BY <1>0, <1>1, <1>3, <1>5, <2>5
    <3> QED BY <1>1, <1>a, <2>1, <2>2, <2>5, <3>1 DEF Wrap
  <2>6. CASE ~pop /\ ~push
    <3>1. Len(reads') = n BY <1>0, <1>1, <1>5, <2>6
    <3> QED BY <1>1, <1>a, <2>1, <2>2, <2>6, <3>1
  <2> QED BY <2>3, <2>4, <2>5, <2>6
<1>12. \A k \in 1..Len(reads') : read_bit2'[Pos(k - 1)'] = reads'[k].half
  <2> SUFFICES ASSUME NEW k \in 1..Len(reads')
               PROVE  read_bit2'[Pos(k - 1)'] = reads'[k].half
    OBVIOUS
  <2>0. k \in Nat /\ k >= 1 /\ k <= n - p + q BY <1>0, <1>5, <1>1, <1>2
  <2>1. CASE k <= Len(U)
    <3>1. reads'[k] = U[k] BY <1>5, <1>2, <1>1, <2>0, <2>1
    <3>2. U[k] = reads[k + p] BY <1>0, <1>2, <2>0, <2>1
    <3>3. k + p \in 1..n BY <1>0, <1>1, <1>2, <2>0, <2>1
    <3>4. Pos(k - 1)' = Pos((k + p) - 1)
      BY <1>0, <1>1, <1>10, <3>3, <2>0
    <3>5. read_bit2[Pos((k + p) - 1)] = reads[k + p].half BY <1>1, <3>3
    <3>6. push => Pos((k + p) - 1) # read_tail
      BY <1>1, <1>3, <3>3 DEF Pos
    <3>7. Pos((k + p) - 1) \in 0..(D - 1) BY <1>1, <3>3 DEF Pos
    <3>8. read_bit2'[Pos((k + p) - 1)] = read_bit2[Pos((k + p) - 1)]
      BY <1>1, <1>a, <3>6, <3>7
    <3> QED BY <3>1, <3>2, <3>4, <3>5, <3>8
  <2>2. CASE k > Len(U)
    <3>1. push /\ k = n - p + 1 BY <1>0, <1>1, <1>2, <2>0, <2>2
    <3>2. reads'[k] = r BY <3>1, <1>5
    <3>3. Pos(k - 1)' = Pos(n) BY <1>0, <1>1, <1>2, <1>3, <1>10, <3>1
    <3>4. read_bit2'[read_tail] = half BY <1>1, <1>a, <3>1
    <3> QED BY <1>1, <3>1, <3>2, <3>3, <3>4
  <2> QED BY <2>1, <2>2, <1>2, <2>0
<1>13. FifoInv'
  BY <1>6, <1>11, <1>12 DEF FifoInv
<1> QED BY <1>5, <1>6, <1>7, <1>8, <1>9, <1>13

\* The core's two actions keep the invariant; core_read changes no half.
LEMMA CoreKeeps ==
    ASSUME IInv, core_write \/ core_read
    PROVE  IInv'
<1> USE DEF Beat
<1>1. CASE core_write
  <2>1. /\ cmds \in Seq(CmdType) /\ cmds # <<>> /\ wbuf \in Seq(WBeatType) /\ wbuf # <<>>
    BY <1>1 DEF core_write, IInv, TypeOK, CmdType, WBeatType
  <2>2. /\ Head(cmds) \in CmdType /\ Tail(cmds) \in Seq(CmdType)
        /\ Head(wbuf) \in WBeatType /\ Tail(wbuf) \in Seq(WBeatType)
    BY <2>1
  <2>3. Head(cmds).beat \in Beats /\ Head(cmds).owner \in Owners
        /\ Head(wbuf).half \in Halves /\ Head(wbuf).v \in Values
    BY <2>2 DEF CmdType, WBeatType
  <2>4. mem' \in [Beats -> Beat] BY <1>1, <2>3 DEF core_write, IInv, TypeOK
  <2>5. b' \in SUBSET Owners BY <1>1, <2>3 DEF core_write
  <2>6. cmds' \in Seq(CmdType) /\ wbuf' \in Seq(WBeatType) BY <1>1, <2>2 DEF core_write
  <2>7. UNCHANGED <<bridge, masters, reads, words>> BY <1>1 DEF core_write
  <2>8. TypeOK'
    BY <2>4, <2>5, <2>6, <2>7
    DEF IInv, TypeOK, CmdType, WBeatType, bridge, fifo, masters
  <2>9. FifoInv' BY <2>7 DEF IInv, FifoInv, Pos, bridge, fifo
  <2>10. WInv' BY <2>7 DEF IInv, WInv, bridge, masters
  <2> QED BY <2>8, <2>9, <2>10 DEF IInv
<1>2. CASE core_read
  <2>1. /\ cmds \in Seq(CmdType) /\ cmds # <<>> /\ reads \in Seq(ReadType)
    BY <1>2 DEF core_read, IInv, TypeOK, CmdType, ReadType
  <2>2. Head(cmds) \in CmdType /\ Tail(cmds) \in Seq(CmdType) BY <2>1
  <2>3. mem[Head(cmds).beat] \in Beat BY <2>2 DEF CmdType, IInv, TypeOK
  <2>4. PICK k \in DOMAIN reads :
          reads' = [reads EXCEPT ![k] = [reads[k] EXCEPT !.done = TRUE, !.data = mem[Head(cmds).beat]]]
    BY <1>2 DEF core_read
  <2>5. k \in 1..Len(reads) /\ reads[k] \in ReadType BY <2>1, <2>4
  <2>6. /\ [reads[k] EXCEPT !.done = TRUE, !.data = mem[Head(cmds).beat]] \in ReadType
        /\ [reads[k] EXCEPT !.done = TRUE, !.data = mem[Head(cmds).beat]].half = reads[k].half
    BY <2>3, <2>5 DEF ReadType
  <2>7. reads' \in Seq(ReadType) /\ Len(reads') = Len(reads) BY <2>1, <2>4, <2>5, <2>6
  <2>8. \A j \in 1..Len(reads) : reads'[j].half = reads[j].half
    BY <2>1, <2>4, <2>5, <2>6
  <2>9. cmds' \in Seq(CmdType) /\ UNCHANGED <<bridge, masters, wbuf, b, mem, words>>
    BY <1>2, <2>2 DEF core_read
  <2>10. TypeOK' BY <2>7, <2>9 DEF IInv, TypeOK, CmdType, ReadType, bridge, fifo, masters
  <2>11. FifoInv' BY <2>7, <2>8, <2>9 DEF IInv, FifoInv, Pos, bridge, fifo
  <2>12. WInv' BY <2>9 DEF IInv, WInv, bridge, masters
  <2> QED BY <2>10, <2>11, <2>12 DEF IInv
<1> QED BY <1>1, <1>2

\* The masters' actions keep the invariant.
LEMMA MastersKeep ==
    ASSUME IInv, IssueWrite \/ IssueRead
    PROVE  IInv'
<1>1. CASE IssueWrite
  <2>1. PICK m \in Writers, a \in Word, v \in Values :
          /\ aw[m] = {}
          /\ aw' = [aw EXCEPT ![m] = {a}]
          /\ w' = [w EXCEPT ![m] = Append(w[m], v)]
    BY <1>1 DEF IssueWrite
  <2>2. m \in Owners BY BridgeAssumption DEF Owners
  <2>3. UNCHANGED <<bridge, ar, cmds, wbuf, reads, b, mem, words>> BY <1>1 DEF IssueWrite
  <2>4. w[m] \in Seq(Values) BY <2>2 DEF IInv, TypeOK
  <2>5. Append(w[m], v) \in Seq(Values) /\ Len(Append(w[m], v)) = Len(w[m]) + 1
    BY <2>4, AppendFacts
  <2>6. aw' \in [Owners -> SUBSET Word] /\ w' \in [Owners -> Seq(Values)]
    BY <2>1, <2>2, <2>5 DEF IInv, TypeOK
  <2>7. TypeOK' BY <2>3, <2>6 DEF IInv, TypeOK, bridge, fifo
  <2>8. FifoInv' BY <2>3 DEF IInv, FifoInv, Pos, bridge, fifo
  <2>9. WInv'
    <3> SUFFICES ASSUME NEW o \in Owners
                 PROVE Len(w'[o]) = (IF aw'[o] # {} THEN 1 ELSE 0)
                                    + (IF w_pending' /\ write_owner' = o THEN 1 ELSE 0)
      BY DEF WInv
    <3>0. w_pending' = w_pending /\ write_owner' = write_owner BY <2>3 DEF bridge
    <3>1. Len(w[o]) = (IF aw[o] # {} THEN 1 ELSE 0)
                      + (IF w_pending /\ write_owner = o THEN 1 ELSE 0)
      BY DEF IInv, WInv
    <3>2. CASE o = m
      <4>1. w'[o] = Append(w[m], v) /\ aw'[o] = {a} BY <2>1, <2>2, <3>2 DEF IInv, TypeOK
      <4> QED BY <4>1, <2>1, <2>5, <3>0, <3>1, <3>2
    <3>3. CASE o # m
      <4>1. w'[o] = w[o] /\ aw'[o] = aw[o] BY <2>1, <2>2, <3>3 DEF IInv, TypeOK
      <4> QED BY <4>1, <3>0, <3>1
    <3> QED BY <3>2, <3>3
  <2> QED BY <2>7, <2>8, <2>9 DEF IInv
<1>2. CASE IssueRead
  <2>1. PICK m \in Readers, a \in Word : ar' = [ar EXCEPT ![m] = {a}] BY <1>2 DEF IssueRead
  <2>2. m \in Owners BY BridgeAssumption DEF Owners
  <2>3. UNCHANGED <<bridge, aw, w, cmds, wbuf, reads, b, mem, words>> BY <1>2 DEF IssueRead
  <2>4. ar' \in [Owners -> SUBSET Word] BY <2>1, <2>2 DEF IInv, TypeOK
  <2>5. TypeOK' BY <2>3, <2>4 DEF IInv, TypeOK, bridge, fifo
  <2>6. FifoInv' BY <2>3 DEF IInv, FifoInv, Pos, bridge, fifo
  <2>7. WInv' BY <2>3 DEF IInv, WInv, bridge
  <2> QED BY <2>5, <2>6, <2>7 DEF IInv
<1> QED BY <1>1, <1>2

\* An edge that accepts nothing keeps the invariant.
LEMMA EdgeIdleKeeps ==
    ASSUME IInv, NEW sent \in BOOLEAN, NEW popR \in BOOLEAN, NEW popB \in BOOLEAN,
           EdgeIdle(sent, popR, popB)
    PROVE  IInv'
<1>1. /\ WritePhase(sent) /\ ReadFifo(FALSE, popR, 0) /\ (popR => r_valid)
      /\ reads' = Unanswered(popR)
      /\ w_pending' = (w_pending /\ ~sent)
      /\ b' = IF popB THEN {} ELSE b
      /\ UNCHANGED <<write_owner, write_bit2, aw, ar, cmds, mem, words>>
  BY DEF EdgeIdle, Responses
<1>2. /\ wbuf' \in Seq(WBeatType) /\ w' \in [Owners -> Seq(Values)]
      /\ \A m \in Owners : Len(w'[m]) = Len(w[m]) - (IF sent /\ m = write_owner THEN 1 ELSE 0)
      /\ sent => w_pending
  BY <1>1, WritePhaseType
<1>3. PICK r : r \in ReadType
  <2>1. [half |-> 0, want |-> 0, done |-> FALSE, data |-> [h \in Halves |-> 0]] \in ReadType
    BY BridgeAssumption DEF ReadType, Beat, Halves
  <2> QED BY <2>1
<1>4. reads' = IF FALSE THEN Append(Unanswered(popR), r) ELSE Unanswered(popR) BY <1>1
<1>5. /\ FifoInv' /\ read_bit2' \in [0..(read_fifo_depth - 1) -> Halves]
      /\ read_head' \in 0..(read_fifo_depth - 1) /\ read_tail' \in 0..(read_fifo_depth - 1)
      /\ read_count' \in 0..read_fifo_depth /\ reads' \in Seq(ReadType)
  <2>1. 0 \in Halves /\ FALSE \in BOOLEAN BY DEF Halves
  <2> QED BY <1>1, <1>3, <1>4, <2>1, ReadFifoKeeps
<1>6. TypeOK'
  <2>1. w_pending' \in BOOLEAN BY <1>1
  <2>2. b' \in SUBSET Owners BY <1>1 DEF IInv, TypeOK
  <2> QED BY <1>1, <1>2, <1>5, <2>1, <2>2 DEF IInv, TypeOK, WBeatType, ReadType
<1>7. WInv'
  <2> SUFFICES ASSUME NEW m \in Owners
               PROVE Len(w'[m]) = (IF aw'[m] # {} THEN 1 ELSE 0)
                                  + (IF w_pending' /\ write_owner' = m THEN 1 ELSE 0)
    BY DEF WInv
  <2>1. Len(w[m]) = (IF aw[m] # {} THEN 1 ELSE 0)
                    + (IF w_pending /\ write_owner = m THEN 1 ELSE 0)
    BY DEF IInv, WInv
  <2>2. aw' = aw /\ write_owner' = write_owner BY <1>1
  <2>3. CASE sent
    <3>1. w_pending /\ ~w_pending' BY <1>1, <1>2, <2>3
    <3>2. Len(w'[m]) = Len(w[m]) - (IF m = write_owner THEN 1 ELSE 0) BY <1>2, <2>3
    <3> QED BY <2>1, <2>2, <3>1, <3>2
  <2>4. CASE ~sent
    <3>1. w_pending' = w_pending BY <1>1, <2>4 DEF IInv, TypeOK
    <3>2. Len(w'[m]) = Len(w[m]) - 0 BY <1>2, <2>4
    <3>3. Len(w[m]) \in Nat BY DEF IInv, TypeOK
    <3> QED BY <2>1, <2>2, <3>1, <3>2, <3>3
  <2> QED BY <2>3, <2>4
<1> QED BY <1>5, <1>6, <1>7 DEF IInv

\* An edge that accepts a write keeps the invariant: its data is there.
LEMMA EdgeWriteKeeps ==
    ASSUME IInv, NEW m \in Owners, NEW a \in Word, NEW popR \in BOOLEAN, NEW popB \in BOOLEAN,
           EdgeWrite(m, a, popR, popB)
    PROVE  IInv'
<1>1. /\ ~w_pending /\ a \in aw[m]
      /\ ReadFifo(FALSE, popR, 0) /\ (popR => r_valid)
      /\ reads' = Unanswered(popR)
      /\ w_pending' = TRUE /\ write_owner' = m /\ write_bit2' = a.half
      /\ b' = IF popB THEN {} ELSE b
      /\ cmds' = Append(cmds, [write |-> TRUE, owner |-> m, beat |-> a.beat])
      /\ aw' = [aw EXCEPT ![m] = {}]
      /\ words' = [words EXCEPT ![a.beat] = [words[a.beat] EXCEPT ![a.half] = w[m][Len(w[m])]]]
      /\ UNCHANGED <<wbuf, w, ar, mem>>
  BY DEF EdgeWrite, Responses, WritePhase, Selected, req_aw
<1>2. a.beat \in Beats /\ a.half \in Halves BY DEF Word
<1>3. PICK r : r \in ReadType
  <2>1. [half |-> 0, want |-> 0, done |-> FALSE, data |-> [h \in Halves |-> 0]] \in ReadType
    BY BridgeAssumption DEF ReadType, Beat, Halves
  <2> QED BY <2>1
<1>4. reads' = IF FALSE THEN Append(Unanswered(popR), r) ELSE Unanswered(popR) BY <1>1
<1>5. /\ FifoInv' /\ read_bit2' \in [0..(read_fifo_depth - 1) -> Halves]
      /\ read_head' \in 0..(read_fifo_depth - 1) /\ read_tail' \in 0..(read_fifo_depth - 1)
      /\ read_count' \in 0..read_fifo_depth /\ reads' \in Seq(ReadType)
  <2>1. 0 \in Halves /\ FALSE \in BOOLEAN BY DEF Halves
  <2> QED BY <1>1, <1>3, <1>4, <2>1, ReadFifoKeeps
<1>6. w[m] \in Seq(Values) /\ Len(w[m]) = 1
  <2>1. w[m] \in Seq(Values) /\ aw[m] # {} BY <1>1 DEF IInv, TypeOK
  <2>2. Len(w[m]) = (IF aw[m] # {} THEN 1 ELSE 0)
                    + (IF w_pending /\ write_owner = m THEN 1 ELSE 0)
    BY DEF IInv, WInv
  <2> QED BY <1>1, <2>1, <2>2
<1>7. words' \in [Beats -> Beat]
  <2>1. w[m][Len(w[m])] \in Values BY <1>6
  <2>2. [words[a.beat] EXCEPT ![a.half] = w[m][Len(w[m])]] \in Beat
    BY <1>2, <2>1 DEF IInv, TypeOK, Beat
  <2> QED BY <1>1, <1>2, <2>2 DEF IInv, TypeOK
<1>8. cmds' \in Seq(CmdType)
  <2>1. cmds \in Seq(CmdType) /\ [write |-> TRUE, owner |-> m, beat |-> a.beat] \in CmdType
    BY <1>2 DEF IInv, TypeOK, CmdType
  <2> HIDE DEF CmdType
  <2> QED BY <1>1, <2>1, AppendFacts
<1>9. aw' \in [Owners -> SUBSET Word] BY <1>1 DEF IInv, TypeOK
<1>10. TypeOK'
  <2>1. b' \in SUBSET Owners BY <1>1 DEF IInv, TypeOK
  <2> QED BY <1>1, <1>2, <1>5, <1>7, <1>8, <1>9, <2>1 DEF IInv, TypeOK, CmdType, ReadType
<1>11. WInv'
  <2> SUFFICES ASSUME NEW o \in Owners
               PROVE Len(w'[o]) = (IF aw'[o] # {} THEN 1 ELSE 0)
                                  + (IF w_pending' /\ write_owner' = o THEN 1 ELSE 0)
    BY DEF WInv
  <2>1. Len(w[o]) = (IF aw[o] # {} THEN 1 ELSE 0)
                    + (IF w_pending /\ write_owner = o THEN 1 ELSE 0)
    BY DEF IInv, WInv
  <2>2. CASE o = m
    <3>1. aw'[o] = {} BY <1>1, <2>2 DEF IInv, TypeOK
    <3>2. w' = w /\ w_pending' /\ write_owner' = o BY <1>1, <2>2, Zenon
    <3> QED BY <1>6, <2>2, <3>1, <3>2
  <2>3. CASE o # m
    <3>1. aw'[o] = aw[o] BY <1>1, <2>3 DEF IInv, TypeOK
    <3> QED BY <1>1, <2>1, <2>3, <3>1
  <2> QED BY <2>2, <2>3
<1> QED BY <1>5, <1>10, <1>11 DEF IInv

\* An edge that accepts a read keeps the invariant: the FIFO has room.
LEMMA EdgeReadKeeps ==
    ASSUME IInv, NEW m \in Owners, NEW a \in Word, NEW sent \in BOOLEAN,
           NEW popR \in BOOLEAN, NEW popB \in BOOLEAN, EdgeRead(m, a, sent, popR, popB)
    PROVE  IInv'
<1> DEFINE r == [half |-> a.half, want |-> words[a.beat][a.half], done |-> FALSE,
                 data |-> mem[a.beat]]
<1>1. /\ ~read_full /\ WritePhase(sent) /\ ReadFifo(TRUE, popR, a.half) /\ (popR => r_valid)
      /\ reads' = Append(Unanswered(popR), r)
      /\ w_pending' = (w_pending /\ ~sent)
      /\ b' = IF popB THEN {} ELSE b
      /\ cmds' = Append(cmds, [write |-> FALSE, owner |-> m, beat |-> a.beat])
      /\ ar' = [ar EXCEPT ![m] = {}]
      /\ UNCHANGED <<write_owner, write_bit2, aw, mem, words>>
  BY DEF EdgeRead, Responses, Selected, req_ar
<1>2. a.beat \in Beats /\ a.half \in Halves BY DEF Word
<1>3. r \in ReadType /\ r.half = a.half BY <1>2 DEF IInv, TypeOK, ReadType, Beat
<1> HIDE DEF r
<1>4. reads' = IF TRUE THEN Append(Unanswered(popR), r) ELSE Unanswered(popR) BY <1>1
<1>5. /\ FifoInv' /\ read_bit2' \in [0..(read_fifo_depth - 1) -> Halves]
      /\ read_head' \in 0..(read_fifo_depth - 1) /\ read_tail' \in 0..(read_fifo_depth - 1)
      /\ read_count' \in 0..read_fifo_depth /\ reads' \in Seq(ReadType)
  BY <1>1, <1>2, <1>3, <1>4, ReadFifoKeeps
<1>6. /\ wbuf' \in Seq(WBeatType) /\ w' \in [Owners -> Seq(Values)]
      /\ \A o \in Owners : Len(w'[o]) = Len(w[o]) - (IF sent /\ o = write_owner THEN 1 ELSE 0)
      /\ sent => w_pending
  BY <1>1, WritePhaseType
<1>7. cmds' \in Seq(CmdType)
  <2>1. cmds \in Seq(CmdType) /\ [write |-> FALSE, owner |-> m, beat |-> a.beat] \in CmdType
    BY <1>2 DEF IInv, TypeOK, CmdType
  <2> HIDE DEF CmdType
  <2> QED BY <1>1, <2>1, AppendFacts
<1>8. ar' \in [Owners -> SUBSET Word] BY <1>1 DEF IInv, TypeOK
<1>9. TypeOK'
  <2>1. b' \in SUBSET Owners /\ w_pending' \in BOOLEAN BY <1>1 DEF IInv, TypeOK
  <2> QED BY <1>1, <1>5, <1>6, <1>7, <1>8, <2>1
      DEF IInv, TypeOK, CmdType, ReadType, WBeatType
<1>10. WInv'
  <2> SUFFICES ASSUME NEW o \in Owners
               PROVE Len(w'[o]) = (IF aw'[o] # {} THEN 1 ELSE 0)
                                  + (IF w_pending' /\ write_owner' = o THEN 1 ELSE 0)
    BY DEF WInv
  <2>1. Len(w[o]) = (IF aw[o] # {} THEN 1 ELSE 0)
                    + (IF w_pending /\ write_owner = o THEN 1 ELSE 0)
    BY DEF IInv, WInv
  <2>2. aw' = aw /\ write_owner' = write_owner BY <1>1
  <2>3. CASE sent
    <3>1. w_pending /\ ~w_pending' BY <1>1, <1>6, <2>3
    <3>2. Len(w'[o]) = Len(w[o]) - (IF o = write_owner THEN 1 ELSE 0) BY <1>6, <2>3
    <3> QED BY <2>1, <2>2, <3>1, <3>2
  <2>4. CASE ~sent
    <3>1. w_pending' = w_pending BY <1>1, <2>4 DEF IInv, TypeOK
    <3>2. Len(w'[o]) = Len(w[o]) - 0 BY <1>6, <2>4
    <3>3. Len(w[o]) \in Nat BY DEF IInv, TypeOK
    <3> QED BY <2>1, <2>2, <3>1, <3>2, <3>3
  <2> QED BY <2>3, <2>4
<1> QED BY <1>5, <1>9, <1>10 DEF IInv

\* The invariant holds after reset.
LEMMA InitIInv == Init => IInv
<1> SUFFICES ASSUME Init PROVE IInv OBVIOUS
<1>1. TypeOK
  <2>1. Zero \in [Beats -> Beat] BY BridgeAssumption DEF Zero, Beat
  <2>2. read_bit2 \in [0..(read_fifo_depth - 1) -> Halves] BY DEF Init, Halves
  <2>3. 0 \in 0..(read_fifo_depth - 1) /\ 0 \in 0..read_fifo_depth BY BridgeAssumption
  <2>4. /\ aw \in [Owners -> SUBSET Word] /\ ar \in [Owners -> SUBSET Word]
        /\ w \in [Owners -> Seq(Values)] /\ b \in SUBSET Owners
    BY DEF Init
  <2>5. "d" \in Owners /\ 0 \in Halves BY DEF Owners, Halves
  <2>6. cmds \in Seq(CmdType) /\ wbuf \in Seq(WBeatType) /\ reads \in Seq(ReadType)
    <3> HIDE DEF CmdType, WBeatType, ReadType
    <3> QED BY DEF Init
  <2>7. /\ w_pending \in BOOLEAN /\ write_owner \in Owners /\ write_bit2 \in Halves
        /\ mem \in [Beats -> Beat] /\ words \in [Beats -> Beat]
    BY <2>1, <2>5 DEF Init
  <2>8. /\ read_head \in 0..(read_fifo_depth - 1) /\ read_tail \in 0..(read_fifo_depth - 1)
        /\ read_count \in 0..read_fifo_depth
    BY <2>3 DEF Init
  <2> QED BY <2>2, <2>4, <2>6, <2>7, <2>8, Zenon DEF TypeOK, CmdType, WBeatType, ReadType
<1>2. FifoInv BY BridgeAssumption DEF Init, FifoInv, Pos
<1>3. WInv BY DEF Init, WInv
<1> QED BY <1>1, <1>2, <1>3 DEF IInv

\* Every step keeps it.
LEMMA NextIInv == IInv /\ [Next]_vars => IInv'
<1> SUFFICES ASSUME IInv, [Next]_vars PROVE IInv' OBVIOUS
<1>1. CASE rising_edge
  <2>1. PICK popR \in BOOLEAN, popB \in BOOLEAN :
          \/ \E sent \in BOOLEAN : EdgeIdle(sent, popR, popB)
          \/ \E m \in Owners, a \in Word : EdgeWrite(m, a, popR, popB)
          \/ \E m \in Owners, a \in Word, sent \in BOOLEAN : EdgeRead(m, a, sent, popR, popB)
    BY <1>1 DEF rising_edge
  <2> QED BY <2>1, EdgeIdleKeeps, EdgeWriteKeeps, EdgeReadKeeps
<1>2. CASE IssueWrite \/ IssueRead BY <1>2, MastersKeep
<1>3. CASE core_write \/ core_read BY <1>3, CoreKeeps
<1>4. CASE UNCHANGED vars
  BY <1>4 DEF vars, bridge, fifo, masters, IInv, TypeOK, FifoInv, WInv, Pos
<1> QED BY <1>1, <1>2, <1>3, <1>4 DEF Next

--------------------------------------------------------------------------------
\* The memory after a write.
After(memory, beat, x) == [memory EXCEPT ![beat] = [@ EXCEPT ![x.half] = x.v]]

Writes(cs) == {k \in DOMAIN cs : cs[k].write}

\* The memories m[0], ..., m[Len(cs)] that the commands cs lead to, c[k] of the first k being
\* writes, with data beats ds; rs are the reads, the first d of them done.
History(cs, ds, rs, from, to, c, m, d) ==
    /\ Cardinality(Writes(cs)) = Len(ds)
    /\ c[0] = 0 /\ c[Len(cs)] = Len(ds)
    /\ m[0] = from /\ m[Len(cs)] = to
    /\ \A k \in 0..Len(cs) : c[k] \in 0..k /\ c[k] <= Len(ds) /\ k - c[k] <= Len(cs) - Len(ds)
    /\ \A j, k \in 0..Len(cs) : j <= k => c[j] <= c[k] /\ j - c[j] <= k - c[k]
    /\ \A k \in 1..Len(cs) :
         IF cs[k].write
         THEN c[k] = c[k - 1] + 1 /\ m[k] = After(m[k - 1], cs[k].beat, ds[c[k]])
         ELSE c[k] = c[k - 1] /\ m[k] = m[k - 1]
    /\ d \in Nat /\ Len(rs) = d + Len(cs) - Len(ds)
    /\ \A j \in 1..Len(rs) : rs[j].done <=> j <= d
    /\ \A j \in 1..d : rs[j].data[rs[j].half] = rs[j].want
    /\ \A k \in 1..Len(cs) : ~cs[k].write =>
         rs[d + k - c[k]].want = m[k][cs[k].beat][rs[d + k - c[k]].half]

\* The counts and memories when a command is added, or is carried out.
Longer(f, n, x) == [k \in 0..n |-> IF k < n THEN f[k] ELSE x]
Shorter(f, n, e) == [k \in 0..n |-> f[k + 1] - e]
Behind(f, n) == [k \in 0..n |-> f[k + 1]]


\* What Tail returns.
LEMMA TailFacts ==
    ASSUME NEW S, NEW s \in Seq(S), s # <<>>
    PROVE  /\ Tail(s) \in Seq(S) /\ Len(Tail(s)) = Len(s) - 1 /\ Len(s) \in Nat /\ Len(s) >= 1
           /\ \A k \in 1..(Len(s) - 1) : Tail(s)[k] = s[k + 1]
           /\ Head(s) = s[1] /\ Head(s) \in S
OBVIOUS

\* The writes among the commands when one comes behind the others.
LEMMA WritesAppend ==
    ASSUME NEW cs \in Seq(CmdType), NEW e \in CmdType
    PROVE  /\ IsFiniteSet(Writes(cs))
           /\ e.write => Cardinality(Writes(Append(cs, e))) = Cardinality(Writes(cs)) + 1
           /\ ~e.write => Writes(Append(cs, e)) = Writes(cs)
<1> HIDE DEF CmdType
<1>1. /\ Append(cs, e) \in Seq(CmdType) /\ Len(Append(cs, e)) = Len(cs) + 1 /\ Len(cs) \in Nat
      /\ \A k \in 1..Len(cs) : Append(cs, e)[k] = cs[k]
      /\ Append(cs, e)[Len(cs) + 1] = e
  BY AppendFacts
<1>2. DOMAIN cs = 1..Len(cs) /\ DOMAIN Append(cs, e) = 1..(Len(cs) + 1) BY <1>1
<1>3. IsFiniteSet(Writes(cs))
  <2>1. IsFiniteSet(1..Len(cs)) BY <1>1, FS_Interval
  <2>2. Writes(cs) \in SUBSET (1..Len(cs)) BY <1>2 DEF Writes
  <2> QED BY <2>1, <2>2, FS_Subset
<1>4. CASE e.write
  <2>1. Writes(Append(cs, e)) = Writes(cs) \cup {Len(cs) + 1} BY <1>1, <1>2, <1>4 DEF Writes
  <2>2. Len(cs) + 1 \notin Writes(cs) BY <1>1, <1>2 DEF Writes
  <2>3. Cardinality(Writes(cs) \cup {Len(cs) + 1}) = Cardinality(Writes(cs)) + 1
    BY <1>3, <2>2, FS_AddElement
  <2> QED BY <1>3, <1>4, <2>1, <2>3
<1>5. CASE ~e.write
  <2>1. Writes(Append(cs, e)) = Writes(cs) BY <1>1, <1>2, <1>5 DEF Writes
  <2> QED BY <1>3, <1>5, <2>1
<1> QED BY <1>4, <1>5

\* The command in front goes.
LEMMA WritesTail ==
    ASSUME NEW cs \in Seq(CmdType), cs # <<>>
    PROVE  /\ Cardinality(Writes(cs)) \in Nat
           /\ Head(cs).write => Cardinality(Writes(Tail(cs))) = Cardinality(Writes(cs)) - 1
           /\ ~Head(cs).write => Cardinality(Writes(Tail(cs))) = Cardinality(Writes(cs))
<1> HIDE DEF CmdType
<1>1. /\ Tail(cs) \in Seq(CmdType) /\ Len(Tail(cs)) = Len(cs) - 1 /\ Len(cs) \in Nat /\ Len(cs) >= 1
      /\ \A k \in 1..(Len(cs) - 1) : Tail(cs)[k] = cs[k + 1]
      /\ Head(cs) = cs[1]
  BY TailFacts
<1>2. DOMAIN cs = 1..Len(cs) /\ DOMAIN Tail(cs) = 1..(Len(cs) - 1) BY <1>1
<1>3. IsFiniteSet(Writes(cs)) /\ Cardinality(Writes(cs)) \in Nat
  <2>1. IsFiniteSet(1..Len(cs)) BY <1>1, FS_Interval
  <2>2. Writes(cs) \in SUBSET (1..Len(cs)) BY <1>2 DEF Writes
  <2>3. IsFiniteSet(Writes(cs)) BY <2>1, <2>2, FS_Subset
  <2> QED BY <2>3, FS_CardinalityType
<1> DEFINE S == Writes(cs) \ {1}
           T == Writes(Tail(cs))
           f == [k \in S |-> k - 1]
<1>4. IsFiniteSet(S) BY <1>3, FS_RemoveElement
<1>5. \A k \in S : k \in 2..Len(cs) /\ cs[k].write BY <1>1, <1>2 DEF Writes
<1>6. \A k \in T : k \in 1..(Len(cs) - 1) /\ cs[k + 1].write BY <1>1, <1>2 DEF Writes
<1>7. \A k \in 1..(Len(cs) - 1) : k \in T <=> k + 1 \in S BY <1>1, <1>2 DEF Writes
<1>a. S \subseteq Int BY <1>5
<1> HIDE DEF S, T
<1>8. f \in [S -> T]
  <2> SUFFICES ASSUME NEW k \in S PROVE k - 1 \in T OBVIOUS
  <2>1. k \in 2..Len(cs) BY <1>5
  <2>2. k - 1 \in 1..(Len(cs) - 1) /\ (k - 1) + 1 = k BY <1>1, <2>1
  <2> QED BY <1>7, <2>2
<1>9. \A j, k \in S : f[j] = f[k] => j = k BY <1>a
<1>10. \A t \in T : \E k \in S : f[k] = t
  <2> TAKE t \in T
  <2>1. t \in 1..(Len(cs) - 1) BY <1>6
  <2>2. t + 1 \in S BY <1>7, <2>1
  <2>3. f[t + 1] = t BY <2>1, <2>2
  <2> QED BY <2>2, <2>3
<1>11. ExistsBijection(S, T)
  <2> HIDE DEF f
  <2>1. f \in Bijection(S, T)
    BY <1>8, <1>9, <1>10 DEF Bijection, Injection, Surjection, IsInjective
  <2> QED BY <2>1 DEF ExistsBijection
<1>12. Cardinality(T) = Cardinality(S) BY <1>4, <1>11, FS_Bijection
<1>13. Cardinality(S) = IF 1 \in Writes(cs) THEN Cardinality(Writes(cs)) - 1
                                           ELSE Cardinality(Writes(cs))
  BY <1>3, FS_RemoveElement DEF S
<1>14. 1 \in Writes(cs) <=> Head(cs).write BY <1>1, <1>2 DEF Writes
<1>15. CASE Head(cs).write BY <1>3, <1>12, <1>13, <1>14, <1>15 DEF T
<1>16. CASE ~Head(cs).write BY <1>3, <1>12, <1>13, <1>14, <1>16 DEF T
<1> QED BY <1>15, <1>16

\* The read that the k-th command carries out is one of those behind the answered ones.
LEMMA ReadPlace ==
    ASSUME NEW cs \in Seq(CmdType), NEW ds \in Seq(WBeatType), NEW rs \in Seq(ReadType),
           NEW from, NEW to, NEW c, NEW m, NEW d, History(cs, ds, rs, from, to, c, m, d)
    PROVE  /\ Len(cs) \in Nat /\ Len(ds) \in Nat /\ Len(rs) \in Nat /\ Len(ds) <= Len(cs)
           /\ d \in Nat /\ d <= Len(rs) /\ Len(rs) = d + Len(cs) - Len(ds)
           /\ \A k \in 1..Len(cs) : ~cs[k].write => d + k - c[k] \in (d + 1)..Len(rs)
<1> HIDE DEF CmdType, WBeatType, ReadType
<1>1. Len(cs) \in Nat /\ Len(ds) \in Nat /\ Len(rs) \in Nat OBVIOUS
<1>2. d \in Nat /\ Len(rs) = d + Len(cs) - Len(ds) BY DEF History
<1>3. \A k \in 0..Len(cs) : c[k] \in 0..k /\ c[k] <= Len(ds) /\ k - c[k] <= Len(cs) - Len(ds)
  BY DEF History
<1>4. Len(ds) <= Len(cs)
  <2>1. c[Len(cs)] = Len(ds) BY DEF History
  <2>2. Len(cs) \in 0..Len(cs) BY <1>1
  <2>3. c[Len(cs)] \in 0..Len(cs) BY <1>3, <2>2
  <2> QED BY <2>1, <2>3, <1>1
<1>5. ASSUME NEW k \in 1..Len(cs), ~cs[k].write PROVE d + k - c[k] \in (d + 1)..Len(rs)
  <2>1. k \in 0..Len(cs) /\ k - 1 \in 0..Len(cs) /\ k \in Nat BY <1>1
  <2>2. c[k] \in 0..k /\ k - c[k] <= Len(cs) - Len(ds) BY <1>3, <2>1
  <2>3. c[k] = c[k - 1] BY <1>5 DEF History
  <2>4. c[k - 1] \in 0..(k - 1) BY <1>3, <2>1
  <2>5. c[k] \in Nat /\ c[k] <= k - 1 BY <2>1, <2>3, <2>4
  <2> HIDE <2>3
  <2> QED BY <1>1, <1>2, <2>1, <2>2, <2>5
<1> QED BY <1>1, <1>2, <1>4, <1>5

\* A master takes the oldest answer.
LEMMA HistPop ==
    ASSUME NEW cs \in Seq(CmdType), NEW ds \in Seq(WBeatType), NEW rs \in Seq(ReadType),
           NEW from, NEW to, NEW c, NEW m, NEW d, History(cs, ds, rs, from, to, c, m, d),
           rs # <<>>, rs[1].done
    PROVE  History(cs, ds, Tail(rs), from, to, c, m, d - 1)
<1> HIDE DEF CmdType, WBeatType, ReadType
<1>1. /\ d \in Nat /\ Len(rs) = d + Len(cs) - Len(ds) /\ Len(rs) > 0 /\ Len(rs) \in Nat
      /\ Len(cs) \in Nat /\ Len(ds) \in Nat
      /\ \A j \in 1..Len(rs) : rs[j].done <=> j <= d
      /\ \A j \in 1..d : rs[j].data[rs[j].half] = rs[j].want
      /\ \A k \in 0..Len(cs) : c[k] \in 0..k /\ c[k] <= Len(ds) /\ k - c[k] <= Len(cs) - Len(ds)
      /\ \A k \in 1..Len(cs) : ~cs[k].write =>
         rs[d + k - c[k]].want = m[k][cs[k].beat][rs[d + k - c[k]].half]
      /\ c[0] = 0
      /\ \A k \in 1..Len(cs) : ~cs[k].write => c[k] = c[k - 1]
  <2>1. Len(rs) > 0 /\ Len(rs) \in Nat /\ Len(cs) \in Nat /\ Len(ds) \in Nat OBVIOUS
  <2>2. d \in Nat /\ Len(rs) = d + Len(cs) - Len(ds) /\ c[0] = 0 BY DEF History
  <2>3. /\ \A j \in 1..Len(rs) : rs[j].done <=> j <= d
        /\ \A j \in 1..d : rs[j].data[rs[j].half] = rs[j].want
    BY DEF History
  <2>4. \A k \in 0..Len(cs) : c[k] \in 0..k /\ c[k] <= Len(ds) /\ k - c[k] <= Len(cs) - Len(ds)
    BY DEF History
  <2>5. \A k \in 1..Len(cs) : ~cs[k].write =>
         rs[d + k - c[k]].want = m[k][cs[k].beat][rs[d + k - c[k]].half]
    BY DEF History
  <2>6. \A k \in 1..Len(cs) : ~cs[k].write => c[k] = c[k - 1] BY DEF History
  <2> QED BY <2>1, <2>2, <2>3, <2>4, <2>5, <2>6
<1>2. d >= 1
  <2>1. 1 \in 1..Len(rs) BY <1>1
  <2>2. 1 <= d BY <1>1, <2>1
  <2> QED BY <2>2, <1>1
<1>3. Len(Tail(rs)) = Len(rs) - 1 /\ \A j \in 1..(Len(rs) - 1) : Tail(rs)[j] = rs[j + 1]
  BY <1>1
<1>4. \A j \in 1..Len(Tail(rs)) : Tail(rs)[j].done <=> j <= d - 1
  <2> TAKE j \in 1..Len(Tail(rs))
  <2>1. j \in 1..(Len(rs) - 1) /\ j + 1 \in 1..Len(rs) /\ j \in Nat BY <1>1, <1>3
  <2>2. Tail(rs)[j] = rs[j + 1] BY <1>3, <2>1
  <2>3. rs[j + 1].done <=> j + 1 <= d BY <1>1, <2>1
  <2>4. j + 1 <= d <=> j <= d - 1 BY <1>1, <2>1
  <2> QED BY <2>2, <2>3, <2>4
<1>5. \A j \in 1..(d - 1) : Tail(rs)[j].data[Tail(rs)[j].half] = Tail(rs)[j].want
  <2> TAKE j \in 1..(d - 1)
  <2>0. Len(ds) <= Len(cs)
    <3>1. Len(cs) \in 0..Len(cs) BY <1>1
    <3>2. c[Len(cs)] = Len(ds) /\ c[Len(cs)] \in 0..Len(cs) BY <1>1, <3>1 DEF History
    <3> QED BY <3>2, <1>1
  <2>a. d \in Nat /\ d <= Len(rs) /\ Len(rs) \in Nat
    <3>1. Len(rs) = d + Len(cs) - Len(ds) /\ d \in Nat /\ Len(cs) \in Nat /\ Len(ds) \in Nat BY <1>1
    <3> QED BY <2>0, <3>1
  <2>1. j + 1 \in 1..d /\ j \in 1..(Len(rs) - 1) BY <2>a
  <2>2. Tail(rs)[j] = rs[j + 1] BY <1>3, <2>1
  <2>3. rs[j + 1].data[rs[j + 1].half] = rs[j + 1].want BY <1>1, <2>1
  <2> QED BY <2>2, <2>3
<1>6. \A k \in 1..Len(cs) : ~cs[k].write =>
         Tail(rs)[(d - 1) + k - c[k]].want = m[k][cs[k].beat][Tail(rs)[(d - 1) + k - c[k]].half]
  <2> SUFFICES ASSUME NEW k \in 1..Len(cs), ~cs[k].write
               PROVE Tail(rs)[(d - 1) + k - c[k]].want = m[k][cs[k].beat][Tail(rs)[(d - 1) + k - c[k]].half]
    OBVIOUS
  <2>1. d + k - c[k] \in (d + 1)..Len(rs) BY ReadPlace
  <2>2. c[k] \in Int
    <3>1. k \in 0..Len(cs) /\ k \in Nat BY <1>1
    <3> QED BY <1>1, <3>1
  <2>3. (d - 1) + k - c[k] = (d + k - c[k]) - 1 BY <1>1, <2>2
  <2> DEFINE p == d + k - c[k]
  <2>4. Tail(rs)[p - 1] = rs[p]
    <3>0. p \in (d + 1)..Len(rs) BY <2>1
    <3> HIDE DEF p
    <3>1. p - 1 \in 1..(Len(rs) - 1) /\ (p - 1) + 1 = p BY <1>1, <1>2, <3>0
    <3> QED BY <1>3, <3>1
  <2>5. rs[p].want = m[k][cs[k].beat][rs[p].half] BY <1>1
  <2> QED BY <2>3, <2>4, <2>5
<1>7. d - 1 \in Nat /\ Len(Tail(rs)) = (d - 1) + Len(cs) - Len(ds) BY <1>1, <1>2, <1>3
<1> QED BY <1>4, <1>5, <1>6, <1>7 DEF History

\* A write is accepted, and its data with it.
LEMMA HistWrite ==
    ASSUME NEW cs \in Seq(CmdType), NEW ds \in Seq(WBeatType), NEW rs \in Seq(ReadType),
           NEW from, NEW to, NEW c, NEW m, NEW d, History(cs, ds, rs, from, to, c, m, d),
           NEW e \in CmdType, e.write, NEW x \in WBeatType
    PROVE  \E cc, mm : History(Append(cs, e), Append(ds, x), rs, from, After(to, e.beat, x), cc, mm, d)
<1> HIDE DEF CmdType, WBeatType, ReadType
<1>1. /\ Len(cs) \in Nat /\ Len(ds) \in Nat /\ Len(rs) \in Nat /\ Len(ds) <= Len(cs)
      /\ d \in Nat /\ d <= Len(rs) /\ Len(rs) = d + Len(cs) - Len(ds)
      /\ \A k \in 1..Len(cs) : ~cs[k].write => d + k - c[k] \in (d + 1)..Len(rs)
  BY ReadPlace
<1>2. /\ c[0] = 0 /\ c[Len(cs)] = Len(ds) /\ m[0] = from /\ m[Len(cs)] = to
      /\ \A k \in 0..Len(cs) : c[k] \in 0..k /\ c[k] <= Len(ds) /\ k - c[k] <= Len(cs) - Len(ds)
  BY DEF History
<1>o. \A j, k \in 0..Len(cs) : j <= k => c[j] <= c[k] /\ j - c[j] <= k - c[k] BY DEF History
<1>3. /\ \A k \in 1..Len(cs) : cs[k].write =>
              c[k] = c[k - 1] + 1 /\ m[k] = After(m[k - 1], cs[k].beat, ds[c[k]])
      /\ \A k \in 1..Len(cs) : ~cs[k].write => c[k] = c[k - 1] /\ m[k] = m[k - 1]
  BY DEF History
<1>4. /\ \A j \in 1..Len(rs) : rs[j].done <=> j <= d
      /\ \A j \in 1..d : rs[j].data[rs[j].half] = rs[j].want
  BY DEF History
<1>5. \A k \in 1..Len(cs) : ~cs[k].write =>
         rs[d + k - c[k]].want = m[k][cs[k].beat][rs[d + k - c[k]].half]
  BY DEF History
<1> DEFINE n == Len(cs) + 1
           D == Append(ds, x)
           C == Append(cs, e)
           cc == Longer(c, n, Len(ds) + 1)
           mm == Longer(m, n, After(to, e.beat, x))
<1>6. /\ Len(C) = n /\ \A k \in 1..Len(cs) : C[k] = cs[k]
      /\ C[n] = e
  BY AppendFacts
<1>7. /\ Len(D) = Len(ds) + 1 /\ \A k \in 1..Len(ds) : D[k] = ds[k]
      /\ D[Len(ds) + 1] = x
  BY AppendFacts
<1>8. /\ \A k \in 0..Len(cs) : cc[k] = c[k] /\ mm[k] = m[k]
      /\ cc[n] = Len(ds) + 1 /\ mm[n] = After(to, e.beat, x)
  BY <1>1 DEF Longer
<1>n. n \in Nat /\ n = Len(cs) + 1 BY <1>1
<1> HIDE DEF n, C, D, cc, mm
<1>9. /\ cc[0] = 0 /\ cc[Len(C)] = Len(D) /\ mm[0] = from /\ mm[Len(C)] = After(to, e.beat, x)
  <2>1. 0 \in 0..Len(cs) BY <1>1
  <2> QED BY <1>2, <1>6, <1>7, <1>8, <2>1
<1>10. \A k \in 0..Len(C) : cc[k] \in 0..k /\ cc[k] <= Len(D) /\ k - cc[k] <= Len(C) - Len(D)
  <2> TAKE k \in 0..Len(C)
  <2>1. CASE k \in 0..Len(cs)
    <3>1. c[k] \in 0..k /\ c[k] <= Len(ds) /\ k - c[k] <= Len(cs) - Len(ds) BY <1>2, <2>1
    <3>2. cc[k] = c[k] BY <1>8, <2>1
    <3> QED BY <1>1, <1>6, <1>7, <1>n, <2>1, <3>1, <3>2
  <2>2. CASE k = n BY <1>1, <1>6, <1>7, <1>8, <1>n, <2>2
  <2>3. k \in 0..Len(cs) \/ k = n BY <1>1, <1>6, <1>n
  <2> QED BY <2>1, <2>2, <2>3
<1>p. ASSUME NEW j \in 0..Len(C), NEW k \in 0..Len(C), j <= k
      PROVE  cc[j] <= cc[k] /\ j - cc[j] <= k - cc[k]
  <2>1. CASE k \in 0..Len(cs)
    <3>1. j \in 0..Len(cs) BY <1>1, <1>6, <1>n, <1>p, <2>1
    <3>2. c[j] <= c[k] /\ j - c[j] <= k - c[k] BY <1>o, <1>p, <2>1, <3>1
    <3> QED BY <1>8, <2>1, <3>1, <3>2
  <2>2. CASE k = n /\ j # n
    <3>1. j \in 0..Len(cs) BY <1>1, <1>6, <1>n, <2>2
    <3>2. c[j] \in 0..j /\ c[j] <= Len(ds) /\ j - c[j] <= Len(cs) - Len(ds) BY <1>2, <3>1
    <3>3. cc[j] = c[j] BY <1>8, <3>1
    <3> QED BY <1>1, <1>8, <1>n, <2>2, <3>1, <3>2, <3>3
  <2>3. CASE k = n /\ j = n BY <1>1, <1>8, <1>n, <2>3
  <2>4. k \in 0..Len(cs) \/ k = n BY <1>1, <1>6, <1>n
  <2> QED BY <2>1, <2>2, <2>3, <2>4
<1>11. ASSUME NEW k \in 1..Len(C)
       PROVE  IF C[k].write
              THEN cc[k] = cc[k - 1] + 1 /\ mm[k] = After(mm[k - 1], C[k].beat, D[cc[k]])
              ELSE cc[k] = cc[k - 1] /\ mm[k] = mm[k - 1]
  <2>1. CASE k \in 1..Len(cs)
    <3>1. k \in 0..Len(cs) /\ k - 1 \in 0..Len(cs) /\ k \in Nat BY <1>1, <2>1
    <3>2. cc[k] = c[k] /\ mm[k] = m[k] /\ cc[k - 1] = c[k - 1] /\ mm[k - 1] = m[k - 1] BY <1>8, <3>1
    <3>3. C[k] = cs[k] BY <1>6, <2>1
    <3>4. CASE cs[k].write
      <4>1. c[k] = c[k - 1] + 1 /\ m[k] = After(m[k - 1], cs[k].beat, ds[c[k]]) BY <1>3, <2>1, <3>4
      <4>2. c[k - 1] \in Nat /\ c[k] <= Len(ds)
        <5>1. c[k - 1] \in 0..(k - 1) BY <1>2, <3>1
        <5> QED BY <1>2, <3>1, <5>1
      <4>3. c[k] \in 1..Len(ds) BY <1>1, <4>1, <4>2
      <4>4. D[c[k]] = ds[c[k]] BY <1>7, <4>3
      <4> QED BY <3>2, <3>3, <3>4, <4>1, <4>4
    <3>5. CASE ~cs[k].write BY <1>3, <2>1, <3>2, <3>3, <3>5
    <3> QED BY <3>4, <3>5
  <2>2. CASE k = n
    <3>1. k - 1 = Len(cs) /\ Len(cs) \in 0..Len(cs) BY <1>1, <1>n, <2>2
    <3>2. cc[k - 1] = Len(ds) /\ mm[k - 1] = to BY <1>2, <1>8, <3>1
    <3>3. C[k] = e BY <1>6, <2>2
    <3>4. cc[k] = Len(ds) + 1 /\ mm[k] = After(to, e.beat, x) BY <1>8, <2>2
    <3>5. D[cc[k]] = x BY <1>7, <3>4
    <3> QED BY <3>2, <3>3, <3>4, <3>5
  <2>3. k \in 1..Len(cs) \/ k = n BY <1>1, <1>6, <1>n
  <2> QED BY <2>1, <2>2, <2>3
<1>12. Len(rs) = d + Len(C) - Len(D) BY <1>1, <1>6, <1>7, <1>n
<1>13. ASSUME NEW k \in 1..Len(C), ~C[k].write
       PROVE  rs[d + k - cc[k]].want = mm[k][C[k].beat][rs[d + k - cc[k]].half]
  <2>1. k \in 1..Len(cs)
    <3>1. k # n BY <1>6, <1>13
    <3> QED BY <1>1, <1>6, <1>n, <3>1
  <2>2. C[k] = cs[k] BY <1>6, <2>1
  <2>3. k \in 0..Len(cs) BY <1>1, <2>1
  <2>4. cc[k] = c[k] /\ mm[k] = m[k] BY <1>8, <2>3
  <2> QED BY <1>5, <1>13, <2>1, <2>2, <2>4
<1>q. Cardinality(Writes(C)) = Len(D)
  <2>1. Cardinality(Writes(cs)) = Len(ds) BY DEF History
  <2>2. Cardinality(Writes(C)) = Cardinality(Writes(cs)) + 1 BY WritesAppend DEF C
  <2> QED BY <1>7, <2>1, <2>2
<1>14. History(C, D, rs, from, After(to, e.beat, x), cc, mm, d)
  BY <1>q, <1>1, <1>4, <1>9, <1>10, <1>p, <1>11, <1>12, <1>13 DEF History
<1> QED BY <1>14 DEF C, D

\* A read is accepted.
LEMMA HistRead ==
    ASSUME NEW cs \in Seq(CmdType), NEW ds \in Seq(WBeatType), NEW rs \in Seq(ReadType),
           NEW from, NEW to, NEW c, NEW m, NEW d, History(cs, ds, rs, from, to, c, m, d),
           NEW e \in CmdType, ~e.write, NEW r \in ReadType, ~r.done,
           r.want = to[e.beat][r.half]
    PROVE  \E cc, mm : History(Append(cs, e), ds, Append(rs, r), from, to, cc, mm, d)
<1> HIDE DEF CmdType, WBeatType, ReadType
<1>1. /\ Len(cs) \in Nat /\ Len(ds) \in Nat /\ Len(rs) \in Nat /\ Len(ds) <= Len(cs)
      /\ d \in Nat /\ d <= Len(rs) /\ Len(rs) = d + Len(cs) - Len(ds)
      /\ \A k \in 1..Len(cs) : ~cs[k].write => d + k - c[k] \in (d + 1)..Len(rs)
  BY ReadPlace
<1>2. /\ c[0] = 0 /\ c[Len(cs)] = Len(ds) /\ m[0] = from /\ m[Len(cs)] = to
      /\ \A k \in 0..Len(cs) : c[k] \in 0..k /\ c[k] <= Len(ds) /\ k - c[k] <= Len(cs) - Len(ds)
  BY DEF History
<1>o. \A j, k \in 0..Len(cs) : j <= k => c[j] <= c[k] /\ j - c[j] <= k - c[k] BY DEF History
<1>3. /\ \A k \in 1..Len(cs) : cs[k].write =>
              c[k] = c[k - 1] + 1 /\ m[k] = After(m[k - 1], cs[k].beat, ds[c[k]])
      /\ \A k \in 1..Len(cs) : ~cs[k].write => c[k] = c[k - 1] /\ m[k] = m[k - 1]
  BY DEF History
<1>4. /\ \A j \in 1..Len(rs) : rs[j].done <=> j <= d
      /\ \A j \in 1..d : rs[j].data[rs[j].half] = rs[j].want
  BY DEF History
<1>5. \A k \in 1..Len(cs) : ~cs[k].write =>
         rs[d + k - c[k]].want = m[k][cs[k].beat][rs[d + k - c[k]].half]
  BY DEF History
<1> DEFINE n == Len(cs) + 1
           R == Append(rs, r)
           C == Append(cs, e)
           cc == Longer(c, n, Len(ds))
           mm == Longer(m, n, to)
<1>6. /\ Len(C) = n /\ \A k \in 1..Len(cs) : C[k] = cs[k]
      /\ C[n] = e
  BY AppendFacts
<1>7. /\ Len(R) = Len(rs) + 1 /\ \A k \in 1..Len(rs) : R[k] = rs[k]
      /\ R[Len(rs) + 1] = r
  BY AppendFacts
<1>8. /\ \A k \in 0..Len(cs) : cc[k] = c[k] /\ mm[k] = m[k]
      /\ cc[n] = Len(ds) /\ mm[n] = to
  BY <1>1 DEF Longer
<1>n. n \in Nat /\ n = Len(cs) + 1 BY <1>1
<1> HIDE DEF n, C, R, cc, mm
<1>9. /\ cc[0] = 0 /\ cc[Len(C)] = Len(ds) /\ mm[0] = from /\ mm[Len(C)] = to
  <2>1. 0 \in 0..Len(cs) BY <1>1
  <2> QED BY <1>2, <1>6, <1>8, <2>1
<1>10. \A k \in 0..Len(C) : cc[k] \in 0..k /\ cc[k] <= Len(ds) /\ k - cc[k] <= Len(C) - Len(ds)
  <2> TAKE k \in 0..Len(C)
  <2>1. CASE k \in 0..Len(cs)
    <3>1. c[k] \in 0..k /\ c[k] <= Len(ds) /\ k - c[k] <= Len(cs) - Len(ds) BY <1>2, <2>1
    <3>2. cc[k] = c[k] BY <1>8, <2>1
    <3> QED BY <1>1, <1>6, <1>n, <2>1, <3>1, <3>2
  <2>2. CASE k = n BY <1>1, <1>6, <1>8, <1>n, <2>2
  <2>3. k \in 0..Len(cs) \/ k = n BY <1>1, <1>6, <1>n
  <2> QED BY <2>1, <2>2, <2>3
<1>p. ASSUME NEW j \in 0..Len(C), NEW k \in 0..Len(C), j <= k
      PROVE  cc[j] <= cc[k] /\ j - cc[j] <= k - cc[k]
  <2>1. CASE k \in 0..Len(cs)
    <3>1. j \in 0..Len(cs) BY <1>1, <1>6, <1>n, <1>p, <2>1
    <3>2. c[j] <= c[k] /\ j - c[j] <= k - c[k] BY <1>o, <1>p, <2>1, <3>1
    <3> QED BY <1>8, <2>1, <3>1, <3>2
  <2>2. CASE k = n /\ j # n
    <3>1. j \in 0..Len(cs) BY <1>1, <1>6, <1>n, <2>2
    <3>2. c[j] \in 0..j /\ c[j] <= Len(ds) /\ j - c[j] <= Len(cs) - Len(ds) BY <1>2, <3>1
    <3>3. cc[j] = c[j] BY <1>8, <3>1
    <3> QED BY <1>1, <1>8, <1>n, <2>2, <3>1, <3>2, <3>3
  <2>3. CASE k = n /\ j = n BY <1>1, <1>8, <1>n, <2>3
  <2>4. k \in 0..Len(cs) \/ k = n BY <1>1, <1>6, <1>n
  <2> QED BY <2>1, <2>2, <2>3, <2>4
<1>11. ASSUME NEW k \in 1..Len(C)
       PROVE  IF C[k].write
              THEN cc[k] = cc[k - 1] + 1 /\ mm[k] = After(mm[k - 1], C[k].beat, ds[cc[k]])
              ELSE cc[k] = cc[k - 1] /\ mm[k] = mm[k - 1]
  <2>1. CASE k \in 1..Len(cs)
    <3>1. k \in 0..Len(cs) /\ k - 1 \in 0..Len(cs) BY <1>1, <2>1
    <3>2. cc[k] = c[k] /\ mm[k] = m[k] /\ cc[k - 1] = c[k - 1] /\ mm[k - 1] = m[k - 1] BY <1>8, <3>1
    <3>3. C[k] = cs[k] BY <1>6, <2>1
    <3>4. CASE cs[k].write BY <1>3, <2>1, <3>2, <3>3, <3>4
    <3>5. CASE ~cs[k].write BY <1>3, <2>1, <3>2, <3>3, <3>5
    <3> QED BY <3>4, <3>5
  <2>2. CASE k = n
    <3>1. k - 1 = Len(cs) /\ Len(cs) \in 0..Len(cs) BY <1>1, <1>n, <2>2
    <3>2. cc[k - 1] = Len(ds) /\ mm[k - 1] = to BY <1>2, <1>8, <3>1
    <3>3. C[k] = e BY <1>6, <2>2
    <3>4. cc[k] = Len(ds) /\ mm[k] = to BY <1>8, <2>2
    <3> QED BY <3>2, <3>3, <3>4
  <2>3. k \in 1..Len(cs) \/ k = n BY <1>1, <1>6, <1>n
  <2> QED BY <2>1, <2>2, <2>3
<1>12. Len(R) = d + Len(C) - Len(ds) BY <1>1, <1>6, <1>7, <1>n
<1>13. ASSUME NEW j \in 1..Len(R) PROVE R[j].done <=> j <= d
  <2>1. CASE j \in 1..Len(rs) BY <1>4, <1>7, <2>1
  <2>2. CASE j = Len(rs) + 1
    <3>1. ~R[j].done BY <1>7, <2>2
    <3>2. ~(j <= d) BY <1>1, <2>2
    <3> QED BY <3>1, <3>2
  <2>3. j \in 1..Len(rs) \/ j = Len(rs) + 1 BY <1>1, <1>7
  <2> QED BY <2>1, <2>2, <2>3
<1>14. ASSUME NEW j \in 1..d PROVE R[j].data[R[j].half] = R[j].want
  <2>1. j \in 1..Len(rs) BY <1>1
  <2>2. R[j] = rs[j] BY <1>7, <2>1
  <2> QED BY <1>4, <2>2
<1>15. ASSUME NEW k \in 1..Len(C), ~C[k].write
       PROVE  R[d + k - cc[k]].want = mm[k][C[k].beat][R[d + k - cc[k]].half]
  <2>1. CASE k \in 1..Len(cs)
    <3>2. C[k] = cs[k] BY <1>6, <2>1
    <3>3. k \in 0..Len(cs) BY <1>1, <2>1
    <3>4. cc[k] = c[k] /\ mm[k] = m[k] BY <1>8, <3>3
    <3>5. d + k - c[k] \in (d + 1)..Len(rs) BY <1>1, <1>15, <2>1, <3>2
    <3>6. R[d + k - c[k]] = rs[d + k - c[k]]
      <4> DEFINE p == d + k - c[k]
      <4>1. p \in (d + 1)..Len(rs) BY <3>5
      <4> HIDE DEF p
      <4>2. p \in 1..Len(rs) BY <1>1, <4>1
      <4>3. R[p] = rs[p] BY <1>7, <4>2
      <4> QED BY <4>3 DEF p
    <3> QED BY <1>5, <1>15, <2>1, <3>2, <3>4, <3>6
  <2>2. CASE k = n
    <3>1. C[k] = e /\ cc[k] = Len(ds) /\ mm[k] = to BY <1>6, <1>8, <2>2
    <3>2. d + k - cc[k] = Len(rs) + 1 BY <1>1, <1>n, <2>2, <3>1
    <3> QED BY <1>7, <3>1, <3>2
  <2>3. k \in 1..Len(cs) \/ k = n BY <1>1, <1>6, <1>n
  <2> QED BY <2>1, <2>2, <2>3
<1>q. Cardinality(Writes(C)) = Len(ds)
  <2>1. Cardinality(Writes(cs)) = Len(ds) BY DEF History
  <2>2. Writes(C) = Writes(cs) BY WritesAppend DEF C
  <2> QED BY <2>1, <2>2
<1>16. History(C, ds, R, from, to, cc, mm, d)
  BY <1>q, <1>1, <1>9, <1>10, <1>p, <1>11, <1>12, <1>13, <1>14, <1>15 DEF History
<1> QED BY <1>16 DEF C, R


\* The counts of the writes when the first command, a write, is gone.
LEMMA CountShift ==
    ASSUME NEW k \in Nat, NEW x \in Int, NEW y \in Int, NEW l \in Nat, NEW e \in Nat,
           x \in 0..(k + 1), x >= 1, x <= e, (k + 1) - x <= l - e, y = x - 1
    PROVE  y \in 0..k /\ y <= e - 1 /\ k - y <= (l - 1) - (e - 1)
OBVIOUS

\* The core carries out a write.
LEMMA HistCoreWrite ==
    ASSUME NEW cs \in Seq(CmdType), NEW ds \in Seq(WBeatType), NEW rs \in Seq(ReadType),
           NEW from, NEW to, NEW c, NEW m, NEW d, History(cs, ds, rs, from, to, c, m, d),
           cs # <<>>, Head(cs).write, ds # <<>>
    PROVE  \E cc, mm : History(Tail(cs), Tail(ds), rs, After(from, Head(cs).beat, Head(ds)), to,
                               cc, mm, d)
<1> HIDE DEF CmdType, WBeatType, ReadType
<1>1. /\ Len(cs) \in Nat /\ Len(ds) \in Nat /\ Len(rs) \in Nat /\ Len(ds) <= Len(cs)
      /\ d \in Nat /\ d <= Len(rs) /\ Len(rs) = d + Len(cs) - Len(ds)
      /\ \A k \in 1..Len(cs) : ~cs[k].write => d + k - c[k] \in (d + 1)..Len(rs)
  BY ReadPlace
<1>2. /\ c[0] = 0 /\ c[Len(cs)] = Len(ds) /\ m[0] = from /\ m[Len(cs)] = to
      /\ \A k \in 0..Len(cs) : c[k] \in 0..k /\ c[k] <= Len(ds) /\ k - c[k] <= Len(cs) - Len(ds)
  BY DEF History
<1>o. \A j, k \in 0..Len(cs) : j <= k => c[j] <= c[k] /\ j - c[j] <= k - c[k] BY DEF History
<1>3. /\ \A k \in 1..Len(cs) : cs[k].write =>
              c[k] = c[k - 1] + 1 /\ m[k] = After(m[k - 1], cs[k].beat, ds[c[k]])
      /\ \A k \in 1..Len(cs) : ~cs[k].write => c[k] = c[k - 1] /\ m[k] = m[k - 1]
  BY DEF History
<1>4. /\ \A j \in 1..Len(rs) : rs[j].done <=> j <= d
      /\ \A j \in 1..d : rs[j].data[rs[j].half] = rs[j].want
  BY DEF History
<1>5. \A k \in 1..Len(cs) : ~cs[k].write =>
         rs[d + k - c[k]].want = m[k][cs[k].beat][rs[d + k - c[k]].half]
  BY DEF History
<1> DEFINE n == Len(cs) - 1
           C == Tail(cs)
           D == Tail(ds)
           cc == Shorter(c, n, 1)
           mm == Behind(m, n)
           first == After(from, Head(cs).beat, Head(ds))
<1>6. /\ Len(C) = n /\ \A k \in 1..n : C[k] = cs[k + 1]
      /\ Head(cs) = cs[1] /\ Len(cs) >= 1
  BY TailFacts
<1>7. /\ Len(D) = Len(ds) - 1 /\ \A k \in 1..(Len(ds) - 1) : D[k] = ds[k + 1]
      /\ Head(ds) = ds[1] /\ Len(ds) >= 1
  BY TailFacts
<1>8. \A k \in 0..n : cc[k] = c[k + 1] - 1 /\ mm[k] = m[k + 1] BY DEF Shorter, Behind
<1>n. n \in Nat /\ n = Len(cs) - 1 BY <1>1, <1>6
<1>f. first = After(from, cs[1].beat, ds[1]) BY <1>6, <1>7
<1> HIDE DEF n, C, D, cc, mm, first
<1>w. c[1] = 1 /\ m[1] = first
  <2>1. 1 \in 1..Len(cs) /\ 1 - 1 = 0 BY <1>1, <1>6
  <2>2. cs[1].write BY <1>6
  <2>3. c[1] = c[1 - 1] + 1 /\ m[1] = After(m[1 - 1], cs[1].beat, ds[c[1]]) BY <1>3, <2>1, <2>2
  <2>4. c[1] = 1 BY <1>2, <2>1, <2>3
  <2> QED BY <1>2, <1>f, <2>1, <2>3, <2>4
<1>m. ASSUME NEW k \in 1..Len(cs) PROVE c[k] >= 1
  <2>1. 1 \in 0..Len(cs) /\ k \in 0..Len(cs) /\ 1 <= k BY <1>1
  <2>2. c[1] <= c[k] BY <1>o, <2>1
  <2>3. c[k] \in 0..k BY <1>2, <2>1
  <2> QED BY <1>w, <2>1, <2>2, <2>3
\* The first command was a write: c counts it from there on.
<1>9. /\ cc[0] = 0 /\ cc[Len(C)] = Len(D) /\ mm[0] = first /\ mm[Len(C)] = to
  <2>1. 0 \in 0..n /\ n \in 0..n /\ 0 + 1 = 1 /\ n + 1 = Len(cs) BY <1>1, <1>n
  <2>2. cc[0] = c[1] - 1 /\ mm[0] = m[1] BY <1>8, <2>1
  <2>3. cc[n] = c[Len(cs)] - 1 /\ mm[n] = m[Len(cs)] BY <1>8, <2>1
  <2> QED BY <1>1, <1>2, <1>6, <1>7, <1>w, <2>2, <2>3
<1>10. \A k \in 0..Len(C) : cc[k] \in 0..k /\ cc[k] <= Len(D) /\ k - cc[k] <= Len(C) - Len(D)
  <2> TAKE k \in 0..Len(C)
  <2>1. k \in 0..n /\ k + 1 \in 0..Len(cs) /\ k \in Nat BY <1>1, <1>6, <1>n
  <2>2. c[k + 1] \in 0..(k + 1) /\ c[k + 1] <= Len(ds) /\ (k + 1) - c[k + 1] <= Len(cs) - Len(ds)
    BY <1>2, <2>1
  <2>3. cc[k] = c[k + 1] - 1 BY <1>8, <2>1
  <2>4. c[k + 1] >= 1 BY <1>1, <1>w, <1>m, <2>1
  <2>5. c[k + 1] \in Int /\ cc[k] \in Int BY <2>1, <2>2, <2>3
  <2>6. cc[k] \in 0..k /\ cc[k] <= Len(ds) - 1 /\ k - cc[k] <= (Len(cs) - 1) - (Len(ds) - 1)
    BY <1>1, <2>1, <2>2, <2>3, <2>4, <2>5, CountShift
  <2>7. Len(C) = Len(cs) - 1 /\ Len(D) = Len(ds) - 1 BY <1>6, <1>7, <1>n
  <2> QED BY <2>6, <2>7
<1>p. ASSUME NEW j \in 0..Len(C), NEW k \in 0..Len(C), j <= k
      PROVE  cc[j] <= cc[k] /\ j - cc[j] <= k - cc[k]
  <2>1. /\ j \in 0..n /\ k \in 0..n /\ j + 1 \in 0..Len(cs) /\ k + 1 \in 0..Len(cs)
        /\ j + 1 <= k + 1 /\ j \in Nat /\ k \in Nat
    BY <1>1, <1>6, <1>n, <1>p
  <2>2. c[j + 1] <= c[k + 1] /\ (j + 1) - c[j + 1] <= (k + 1) - c[k + 1] BY <1>o, <2>1
  <2>3. cc[j] = c[j + 1] - 1 /\ cc[k] = c[k + 1] - 1 BY <1>8, <2>1
  <2>4. c[j + 1] \in Int /\ c[k + 1] \in Int
    <3>1. c[j + 1] \in 0..(j + 1) /\ c[k + 1] \in 0..(k + 1) BY <1>2, <2>1
    <3> QED BY <2>1, <3>1
  <2>5. j \in Nat /\ k \in Nat BY <2>1
  <2> DEFINE x == c[j + 1]
             y == c[k + 1]
             u == cc[j]
             v == cc[k]
  <2>6. x \in Int /\ y \in Int /\ x <= y /\ (j + 1) - x <= (k + 1) - y BY <2>2, <2>4
  <2>7. u = x - 1 /\ v = y - 1 BY <2>3
  <2> HIDE DEF x, y, u, v
  <2>8. u <= v /\ j - u <= k - v BY <2>5, <2>6, <2>7
  <2> QED BY <2>8 DEF u, v
<1>11. ASSUME NEW k \in 1..Len(C)
       PROVE  IF C[k].write
              THEN cc[k] = cc[k - 1] + 1 /\ mm[k] = After(mm[k - 1], C[k].beat, D[cc[k]])
              ELSE cc[k] = cc[k - 1] /\ mm[k] = mm[k - 1]
  <2>1. /\ k \in 0..n /\ k - 1 \in 0..n /\ k + 1 \in 1..Len(cs) /\ (k - 1) + 1 = k /\ (k + 1) - 1 = k
        /\ k \in 1..n /\ k \in Nat /\ k + 1 \in 0..Len(cs) /\ k \in 0..Len(cs)
    BY <1>1, <1>6, <1>n
  <2>2. /\ cc[k] = c[k + 1] - 1 /\ mm[k] = m[k + 1] /\ cc[k - 1] = c[k] - 1 /\ mm[k - 1] = m[k]
        /\ C[k] = cs[k + 1]
    BY <1>6, <1>8, <2>1
  <2>3. c[k] \in 0..k /\ c[k + 1] \in 0..(k + 1) /\ c[k + 1] <= Len(ds) BY <1>2, <2>1
  <2>4. CASE cs[k + 1].write
    <3>1. c[k + 1] = c[k] + 1 /\ m[k + 1] = After(m[k], cs[k + 1].beat, ds[c[k + 1]])
      BY <1>3, <2>1, <2>4
    <3>2. c[k] >= 1 BY <1>m, <2>1
    <3>3. cc[k] \in 1..(Len(ds) - 1) /\ cc[k] + 1 = c[k + 1]
      <4>1. c[k] \in Int /\ c[k + 1] = c[k] + 1 /\ c[k] >= 1 /\ c[k + 1] <= Len(ds) /\ Len(ds) \in Nat
        BY <1>1, <2>1, <2>3, <3>1, <3>2
      <4>2. cc[k] = c[k + 1] - 1 BY <2>2
      <4> DEFINE x == c[k + 1]
                 y == c[k]
                 z == cc[k]
      <4>3. x \in Int /\ y \in Int /\ x = y + 1 /\ y >= 1 /\ x <= Len(ds) /\ z = x - 1 BY <4>1, <4>2
      <4> HIDE DEF x, y, z
      <4>4. z \in 1..(Len(ds) - 1) /\ z + 1 = x BY <1>1, <4>3
      <4> QED BY <4>4 DEF x, z
    <3>4. D[cc[k]] = ds[c[k + 1]] BY <1>7, <3>3
    <3>5. cc[k] = cc[k - 1] + 1 BY <2>2, <2>3, <3>1
    <3> QED BY <2>2, <2>4, <3>1, <3>4, <3>5
  <2>5. CASE ~cs[k + 1].write
    <3>1. c[k + 1] = c[k] /\ m[k + 1] = m[k] BY <1>3, <2>1, <2>5
    <3> QED BY <2>2, <2>5, <3>1
  <2> QED BY <2>4, <2>5
<1>12. Len(rs) = d + Len(C) - Len(D) BY <1>1, <1>6, <1>7, <1>n
<1>13. ASSUME NEW k \in 1..Len(C), ~C[k].write
       PROVE  rs[d + k - cc[k]].want = mm[k][C[k].beat][rs[d + k - cc[k]].half]
  <2>1. k \in 0..n /\ k \in 1..n /\ k + 1 \in 1..Len(cs) /\ k + 1 \in 0..Len(cs) /\ k \in Nat
    BY <1>1, <1>6, <1>n
  <2>2. C[k] = cs[k + 1] /\ cc[k] = c[k + 1] - 1 /\ mm[k] = m[k + 1] BY <1>6, <1>8, <2>1
  <2>3. c[k + 1] \in 0..(k + 1) BY <1>2, <2>1
  <2>4. d + k - cc[k] = d + (k + 1) - c[k + 1]
    <3>1. d \in Int /\ k \in Int /\ c[k + 1] \in Int BY <1>1, <2>1, <2>3
    <3>2. cc[k] = c[k + 1] - 1 BY <2>2
    <3> DEFINE x == c[k + 1]
               y == cc[k]
    <3>3. x \in Int /\ y = x - 1 BY <3>1, <3>2
    <3> HIDE DEF x, y
    <3>4. d + k - y = d + (k + 1) - x BY <3>1, <3>3
    <3> QED BY <3>4 DEF x, y
  <2>5. rs[d + (k + 1) - c[k + 1]].want = m[k + 1][cs[k + 1].beat][rs[d + (k + 1) - c[k + 1]].half]
    BY <1>5, <1>13, <2>1, <2>2
  <2> QED BY <2>2, <2>4, <2>5
<1>q. Cardinality(Writes(C)) = Len(D)
  <2>1. Cardinality(Writes(cs)) = Len(ds) BY DEF History
  <2>2. Cardinality(Writes(C)) = Cardinality(Writes(cs)) - 1 BY WritesTail DEF C
  <2> QED BY <1>7, <2>1, <2>2
<1>14. History(C, D, rs, first, to, cc, mm, d)
  BY <1>q, <1>1, <1>4, <1>9, <1>10, <1>p, <1>11, <1>12, <1>13 DEF History
<1> QED BY <1>14 DEF C, D, first

\* The core carries out a read.
LEMMA HistCoreRead ==
    ASSUME NEW cs \in Seq(CmdType), NEW ds \in Seq(WBeatType), NEW rs \in Seq(ReadType),
           NEW from, NEW to, NEW c, NEW m, NEW d, History(cs, ds, rs, from, to, c, m, d),
           cs # <<>>, ~Head(cs).write, NEW R \in Seq(ReadType), Len(R) = Len(rs),
           \A j \in 1..Len(rs) : j # d + 1 => R[j] = rs[j],
           d + 1 \in 1..Len(rs) => R[d + 1] = [rs[d + 1] EXCEPT !.done = TRUE, !.data = from[Head(cs).beat]]
    PROVE  \E cc, mm : History(Tail(cs), ds, R, from, to, cc, mm, d + 1)
<1> HIDE DEF CmdType, WBeatType, ReadType
<1>1. /\ Len(cs) \in Nat /\ Len(ds) \in Nat /\ Len(rs) \in Nat /\ Len(ds) <= Len(cs)
      /\ d \in Nat /\ d <= Len(rs) /\ Len(rs) = d + Len(cs) - Len(ds)
      /\ \A k \in 1..Len(cs) : ~cs[k].write => d + k - c[k] \in (d + 1)..Len(rs)
  BY ReadPlace
<1>2. /\ c[0] = 0 /\ c[Len(cs)] = Len(ds) /\ m[0] = from /\ m[Len(cs)] = to
      /\ \A k \in 0..Len(cs) : c[k] \in 0..k /\ c[k] <= Len(ds) /\ k - c[k] <= Len(cs) - Len(ds)
  BY DEF History
<1>o. \A j, k \in 0..Len(cs) : j <= k => c[j] <= c[k] /\ j - c[j] <= k - c[k] BY DEF History
<1>3. /\ \A k \in 1..Len(cs) : cs[k].write =>
              c[k] = c[k - 1] + 1 /\ m[k] = After(m[k - 1], cs[k].beat, ds[c[k]])
      /\ \A k \in 1..Len(cs) : ~cs[k].write => c[k] = c[k - 1] /\ m[k] = m[k - 1]
  BY DEF History
<1>4. /\ \A j \in 1..Len(rs) : rs[j].done <=> j <= d
      /\ \A j \in 1..d : rs[j].data[rs[j].half] = rs[j].want
  BY DEF History
<1>5. \A k \in 1..Len(cs) : ~cs[k].write =>
         rs[d + k - c[k]].want = m[k][cs[k].beat][rs[d + k - c[k]].half]
  BY DEF History
<1> DEFINE n == Len(cs) - 1
           C == Tail(cs)
           cc == Shorter(c, n, 0)
           mm == Behind(m, n)
           first == from[Head(cs).beat]
<1>6. /\ Len(C) = n /\ \A k \in 1..n : C[k] = cs[k + 1]
      /\ Head(cs) = cs[1] /\ Len(cs) >= 1
  BY TailFacts
<1>8a. \A k \in 0..n : cc[k] = c[k + 1] - 0 /\ mm[k] = m[k + 1] BY DEF Shorter, Behind
<1>n. n \in Nat /\ n = Len(cs) - 1 BY <1>1, <1>6
<1>f. first = from[cs[1].beat] BY <1>6
<1> HIDE DEF n, C, cc, mm, first
<1>8. \A k \in 0..n : cc[k] = c[k + 1] /\ mm[k] = m[k + 1]
  <2> TAKE k \in 0..n
  <2>1. k + 1 \in 0..Len(cs) BY <1>1, <1>n
  <2>2. c[k + 1] \in Int BY <1>2, <2>1
  <2> QED BY <1>8a, <2>2
<1>w. c[1] = 0 /\ m[1] = from /\ ~cs[1].write /\ 1 \in 1..Len(cs)
  <2>1. 1 \in 1..Len(cs) /\ 1 - 1 = 0 BY <1>1, <1>6
  <2>2. ~cs[1].write BY <1>6
  <2>3. c[1] = c[1 - 1] /\ m[1] = m[1 - 1] BY <1>3, <2>1, <2>2
  <2> QED BY <1>2, <2>1, <2>2, <2>3
<1>m. ASSUME NEW k \in 1..Len(cs) PROVE k - c[k] >= 1
  <2>1. 1 \in 0..Len(cs) /\ k \in 0..Len(cs) /\ 1 <= k BY <1>1
  <2>2. 1 - c[1] <= k - c[k] BY <1>o, <2>1
  <2>3. c[k] \in 0..k BY <1>2, <2>1
  <2> QED BY <1>w, <2>1, <2>2, <2>3
\* The first command's read is the first that is not done.
<1>r. /\ d + 1 \in 1..Len(rs)
      /\ rs[d + 1].want = from[cs[1].beat][rs[d + 1].half]
  <2>1. d + 1 - c[1] = d + 1 BY <1>1, <1>w
  <2>2. d + 1 - c[1] \in (d + 1)..Len(rs) BY <1>1, <1>w
  <2>3. d + 1 \in 1..Len(rs) BY <1>1, <2>1, <2>2
  <2>4. rs[d + 1 - c[1]].want = m[1][cs[1].beat][rs[d + 1 - c[1]].half] BY <1>5, <1>w
  <2> QED BY <1>w, <2>1, <2>3, <2>4
<1>s. /\ R[d + 1].done /\ R[d + 1].data = first
      /\ R[d + 1].want = rs[d + 1].want /\ R[d + 1].half = rs[d + 1].half
  <2>1. R[d + 1] = [rs[d + 1] EXCEPT !.done = TRUE, !.data = first] BY <1>r DEF first
  <2>2. rs[d + 1] \in ReadType BY <1>r
  <2> QED BY <2>1, <2>2 DEF ReadType
<1>9. /\ cc[0] = 0 /\ cc[Len(C)] = Len(ds) /\ mm[0] = from /\ mm[Len(C)] = to
  <2>1. 0 \in 0..n /\ n \in 0..n /\ 0 + 1 = 1 /\ n + 1 = Len(cs) BY <1>1, <1>n
  <2>2. cc[0] = c[1] /\ mm[0] = m[1] BY <1>8, <2>1
  <2>3. cc[n] = c[Len(cs)] /\ mm[n] = m[Len(cs)] BY <1>8, <2>1
  <2> QED BY <1>2, <1>6, <1>w, <2>2, <2>3
<1>10. \A k \in 0..Len(C) : cc[k] \in 0..k /\ cc[k] <= Len(ds) /\ k - cc[k] <= Len(C) - Len(ds)
  <2> TAKE k \in 0..Len(C)
  <2>1. k \in 0..n /\ k + 1 \in 0..Len(cs) /\ k + 1 \in 1..Len(cs) /\ k \in Nat BY <1>1, <1>6, <1>n
  <2>2. c[k + 1] \in 0..(k + 1) /\ c[k + 1] <= Len(ds) /\ (k + 1) - c[k + 1] <= Len(cs) - Len(ds)
    BY <1>2, <2>1
  <2>3. cc[k] = c[k + 1] BY <1>8, <2>1
  <2>4. (k + 1) - c[k + 1] >= 1 BY <1>1, <1>w, <1>m, <2>1
  <2> QED BY <1>1, <1>6, <1>n, <2>1, <2>2, <2>3, <2>4
<1>p. ASSUME NEW j \in 0..Len(C), NEW k \in 0..Len(C), j <= k
      PROVE  cc[j] <= cc[k] /\ j - cc[j] <= k - cc[k]
  <2>1. /\ j \in 0..n /\ k \in 0..n /\ j + 1 \in 0..Len(cs) /\ k + 1 \in 0..Len(cs)
        /\ j + 1 <= k + 1 /\ j \in Nat /\ k \in Nat
    BY <1>1, <1>6, <1>n, <1>p
  <2>2. c[j + 1] <= c[k + 1] /\ (j + 1) - c[j + 1] <= (k + 1) - c[k + 1] BY <1>o, <2>1
  <2>3. cc[j] = c[j + 1] /\ cc[k] = c[k + 1] BY <1>8, <2>1
  <2>4. c[j + 1] \in 0..(j + 1) /\ c[k + 1] \in 0..(k + 1) BY <1>2, <2>1
  <2> QED BY <2>1, <2>2, <2>3, <2>4
<1>11. ASSUME NEW k \in 1..Len(C)
       PROVE  IF C[k].write
              THEN cc[k] = cc[k - 1] + 1 /\ mm[k] = After(mm[k - 1], C[k].beat, ds[cc[k]])
              ELSE cc[k] = cc[k - 1] /\ mm[k] = mm[k - 1]
  <2>1. /\ k \in 0..n /\ k - 1 \in 0..n /\ k + 1 \in 1..Len(cs) /\ (k - 1) + 1 = k /\ (k + 1) - 1 = k
        /\ k \in 1..n
    BY <1>1, <1>6, <1>n
  <2>2. /\ cc[k] = c[k + 1] /\ mm[k] = m[k + 1] /\ cc[k - 1] = c[k] /\ mm[k - 1] = m[k]
        /\ C[k] = cs[k + 1]
    BY <1>6, <1>8, <2>1
  <2>4. CASE cs[k + 1].write
    <3>1. c[k + 1] = c[k] + 1 /\ m[k + 1] = After(m[k], cs[k + 1].beat, ds[c[k + 1]])
      BY <1>3, <2>1, <2>4
    <3> QED BY <2>2, <2>4, <3>1
  <2>5. CASE ~cs[k + 1].write
    <3>1. c[k + 1] = c[k] /\ m[k + 1] = m[k] BY <1>3, <2>1, <2>5
    <3> QED BY <2>2, <2>5, <3>1
  <2> QED BY <2>4, <2>5
<1>12. d + 1 \in Nat /\ Len(R) = (d + 1) + Len(C) - Len(ds) BY <1>1, <1>6, <1>n
<1>13. ASSUME NEW j \in 1..Len(R) PROVE R[j].done <=> j <= d + 1
  <2>1. CASE j = d + 1
    <3>1. R[j].done BY <1>s, <2>1
    <3>2. j <= d + 1 BY <1>1, <2>1
    <3> QED BY <3>1, <3>2
  <2>2. CASE j # d + 1
    <3>1. R[j] = rs[j] /\ j \in 1..Len(rs) BY <2>2
    <3>2. rs[j].done <=> j <= d BY <1>4, <3>1
    <3>3. j <= d <=> j <= d + 1 BY <1>1, <2>2
    <3> QED BY <3>1, <3>2, <3>3
  <2> QED BY <2>1, <2>2
<1>14. ASSUME NEW j \in 1..(d + 1) PROVE R[j].data[R[j].half] = R[j].want
  <2>1. CASE j = d + 1 BY <1>r, <1>s, <1>f, <2>1
  <2>2. CASE j # d + 1
    <3>1. j \in 1..d /\ j \in 1..Len(rs) BY <1>1, <2>2
    <3>2. R[j] = rs[j] BY <2>2, <3>1
    <3> QED BY <1>4, <3>1, <3>2
  <2> QED BY <2>1, <2>2
<1>15. ASSUME NEW k \in 1..Len(C), ~C[k].write
       PROVE  R[(d + 1) + k - cc[k]].want = mm[k][C[k].beat][R[(d + 1) + k - cc[k]].half]
  <2>1. k \in 0..n /\ k \in 1..n /\ k + 1 \in 1..Len(cs) /\ k + 1 \in 0..Len(cs) /\ k \in Nat
        /\ k \in 0..Len(cs) /\ k >= 1 /\ (k + 1) - 1 = k
    BY <1>1, <1>6, <1>n
  <2>2. C[k] = cs[k + 1] /\ cc[k] = c[k + 1] /\ mm[k] = m[k + 1] BY <1>6, <1>8, <2>1
  <2>3. c[k + 1] \in 0..(k + 1) /\ c[k + 1] = c[k] /\ k - c[k] >= 1 /\ c[k] \in 0..k
    <3>1. c[k + 1] = c[(k + 1) - 1] BY <1>3, <1>15, <2>1, <2>2
    <3>2. k \in 1..Len(cs) BY <1>1, <2>1
    <3>3. k - c[k] >= 1 BY <1>m, <3>2
    <3> QED BY <1>2, <2>1, <3>1, <3>3
  <2> DEFINE p == d + (k + 1) - c[k + 1]
  <2>i. d \in Int /\ k \in Int /\ c[k + 1] \in Int /\ c[k] \in Int BY <1>1, <2>1, <2>3
  <2>4. (d + 1) + k - cc[k] = p
    <3>1. cc[k] = c[k + 1] BY <2>2
    <3> DEFINE x == c[k + 1]
    <3>2. x \in Int BY <2>i
    <3> HIDE DEF x
    <3>3. (d + 1) + k - x = d + (k + 1) - x BY <2>i, <3>2
    <3> QED BY <3>1, <3>3 DEF x, p
  <2>5. rs[p].want = m[k + 1][cs[k + 1].beat][rs[p].half] BY <1>5, <1>15, <2>1, <2>2
  <2>6. p \in 1..Len(rs) /\ p # d + 1
    <3>1. p \in (d + 1)..Len(rs) BY <1>1, <1>15, <2>1, <2>2
    <3>2. p = (d + 1) + (k - c[k])
      <4> DEFINE x == c[k + 1]
                 y == c[k]
      <4>1. x = y /\ y \in Int BY <2>3, <2>i
      <4>2. p = d + (k + 1) - x OBVIOUS
      <4> HIDE DEF x, y, p
      <4>3. p = (d + 1) + (k - y) BY <2>i, <4>1, <4>2
      <4> QED BY <4>3 DEF y
    <3> HIDE DEF p
    <3> QED BY <1>1, <2>1, <2>3, <3>1, <3>2
  <2> HIDE DEF p
  <2>7. R[p] = rs[p] BY <2>6
  <2> QED BY <2>2, <2>4, <2>5, <2>7
<1>q. Cardinality(Writes(C)) = Len(ds)
  <2>1. Cardinality(Writes(cs)) = Len(ds) BY DEF History
  <2>2. Cardinality(Writes(C)) = Cardinality(Writes(cs)) BY WritesTail DEF C
  <2> QED BY <2>1, <2>2
<1>16. History(C, ds, R, from, to, cc, mm, d + 1)
  BY <1>q, <1>9, <1>10, <1>p, <1>11, <1>12, <1>13, <1>14, <1>15 DEF History
<1> QED BY <1>16 DEF C

\* The data of the writes in cmds, in order: what the core has, and the word to come.
DataBeats ==
    IF w_pending THEN Append(wbuf, [half |-> write_bit2, v |-> Head(w[write_owner])]) ELSE wbuf

LastInv == \E c, m, d : History(cmds, DataBeats, reads, mem, words, c, m, d)

\* The word to come is there.
LEMMA DataType ==
    ASSUME IInv
    PROVE  /\ DataBeats \in Seq(WBeatType) /\ cmds \in Seq(CmdType) /\ reads \in Seq(ReadType)
           /\ w_pending => w[write_owner] \in Seq(Values) /\ w[write_owner] # <<>>
           /\ Len(DataBeats) = Len(wbuf) + (IF w_pending THEN 1 ELSE 0)
<1>1. /\ cmds \in Seq(CmdType) /\ reads \in Seq(ReadType) /\ wbuf \in Seq(WBeatType)
      /\ write_owner \in Owners /\ w[write_owner] \in Seq(Values) /\ write_bit2 \in Halves
  BY DEF IInv, TypeOK, CmdType, ReadType, WBeatType
<1>2. CASE w_pending
  <2>1. Len(w[write_owner]) = (IF aw[write_owner] # {} THEN 1 ELSE 0) + 1
    BY <1>1, <1>2 DEF IInv, WInv
  <2>2. w[write_owner] # <<>> BY <1>1, <2>1
  <2> DEFINE x == [half |-> write_bit2, v |-> Head(w[write_owner])]
  <2>3. x \in WBeatType BY <1>1, <2>2 DEF WBeatType
  <2>4. DataBeats = Append(wbuf, x) BY <1>2 DEF DataBeats
  <2> HIDE DEF x, WBeatType, CmdType, ReadType
  <2>5. DataBeats \in Seq(WBeatType) /\ Len(DataBeats) = Len(wbuf) + 1
    BY <1>1, <2>3, <2>4, AppendFacts
  <2> QED BY <1>1, <1>2, <2>2, <2>5
<1>3. CASE ~w_pending
  <2> HIDE DEF WBeatType, CmdType, ReadType
  <2> QED BY <1>1, <1>3 DEF DataBeats
<1> QED BY <1>2, <1>3

\* The data phase adds and loses no data.
LEMMA PhaseKeepsData ==
    ASSUME IInv, NEW sent \in BOOLEAN, WritePhase(sent), w_pending' = (w_pending /\ ~sent),
           UNCHANGED <<write_owner, write_bit2>>
    PROVE  DataBeats' = DataBeats
<1>1. CASE sent
  <2>1. w_pending /\ wbuf' = Append(wbuf, [half |-> write_bit2, v |-> Head(w[write_owner])])
    BY <1>1 DEF WritePhase, w_valid
  <2>2. ~w_pending' BY <1>1
  <2> QED BY <2>1, <2>2 DEF DataBeats
<1>2. CASE ~sent
  <2>1. wbuf' = wbuf /\ w' = w BY <1>2 DEF WritePhase
  <2>2. w_pending' <=> w_pending BY <1>2
  <2> QED BY <2>1, <2>2 DEF DataBeats
<1> QED BY <1>1, <1>2

\* An edge at which a response may be taken, before what it accepts.
LEMMA PopKeepsHistory ==
    ASSUME IInv, LastInv, NEW pop \in BOOLEAN, pop => r_valid
    PROVE  \E c, m, d : History(cmds, DataBeats, Unanswered(pop), mem, words, c, m, d)
<1>1. PICK c, m, d : History(cmds, DataBeats, reads, mem, words, c, m, d) BY DEF LastInv
<1>2. CASE pop
  <2>1. reads # <<>> /\ Head(reads).done BY <1>2 DEF r_valid
  <2>2. Head(reads) = reads[1] BY <2>1, DataType
  <2>3. reads[1].done BY <2>1, <2>2
  <2>4. DataBeats \in Seq(WBeatType) /\ cmds \in Seq(CmdType) /\ reads \in Seq(ReadType) BY DataType
  <2>5. History(cmds, DataBeats, Tail(reads), mem, words, c, m, d - 1)
    BY <1>1, <2>1, <2>3, <2>4, HistPop
  <2> QED BY <1>2, <2>5 DEF Unanswered
<1>3. CASE ~pop BY <1>1, <1>3 DEF Unanswered
<1> QED BY <1>2, <1>3

\* Every edge keeps the history.
LEMMA EdgeKeepsLast ==
    ASSUME IInv, LastInv, rising_edge
    PROVE  LastInv'
<1>0. DataBeats \in Seq(WBeatType) /\ cmds \in Seq(CmdType) /\ reads \in Seq(ReadType) BY DataType
<1>1. ASSUME NEW popR \in BOOLEAN, NEW popB \in BOOLEAN, NEW sent \in BOOLEAN,
             EdgeIdle(sent, popR, popB)
      PROVE  LastInv'
  <2>2. /\ w_pending' = (w_pending /\ ~sent) /\ UNCHANGED <<write_owner, write_bit2>>
        /\ UNCHANGED <<cmds, mem, words>> /\ reads' = Unanswered(popR) /\ WritePhase(sent)
        /\ (popR => r_valid)
    BY <1>1 DEF EdgeIdle, Responses
  <2>3. DataBeats' = DataBeats BY <2>2, PhaseKeepsData
  <2>4. PICK c, m, d : History(cmds, DataBeats, Unanswered(popR), mem, words, c, m, d)
    BY <2>2, PopKeepsHistory
  <2>5. History(cmds', DataBeats', reads', mem', words', c, m, d) BY <2>2, <2>3, <2>4
  <2> QED BY <2>5 DEF LastInv
<1>2. ASSUME NEW popR \in BOOLEAN, NEW popB \in BOOLEAN, NEW o \in Owners, NEW a \in Word,
             EdgeWrite(o, a, popR, popB)
      PROVE  LastInv'
  <2>1. /\ ~w_pending /\ a \in aw[o] /\ (popR => r_valid)
        /\ w_pending' = TRUE /\ write_owner' = o /\ write_bit2' = a.half
        /\ reads' = Unanswered(popR)
        /\ cmds' = Append(cmds, [write |-> TRUE, owner |-> o, beat |-> a.beat])
        /\ words' = [words EXCEPT ![a.beat] = [words[a.beat] EXCEPT ![a.half] = w[o][Len(w[o])]]]
        /\ UNCHANGED <<wbuf, w, mem>>
    BY <1>2 DEF EdgeWrite, Responses, WritePhase, Selected, req_aw
  <2>2. w[o] \in Seq(Values) /\ Len(w[o]) = 1
    <3>1. w[o] \in Seq(Values) /\ aw[o] # {} BY <2>1 DEF IInv, TypeOK
    <3>2. Len(w[o]) = (IF aw[o] # {} THEN 1 ELSE 0)
                      + (IF w_pending /\ write_owner = o THEN 1 ELSE 0)
      BY DEF IInv, WInv
    <3> QED BY <2>1, <3>1, <3>2
  <2> DEFINE e == [write |-> TRUE, owner |-> o, beat |-> a.beat]
             x == [half |-> a.half, v |-> Head(w[o])]
  <2>3. e \in CmdType /\ e.write /\ e.beat = a.beat BY DEF CmdType, Word
  <2>4. Head(w[o]) \in Values /\ Head(w[o]) = w[o][Len(w[o])] BY <2>2
  <2>5. x \in WBeatType /\ x.half = a.half /\ x.v = w[o][Len(w[o])] BY <2>4 DEF WBeatType, Word
  <2>6. cmds' = Append(cmds, e) BY <2>1
  <2>7. DataBeats' = Append(DataBeats, x) BY <2>1 DEF DataBeats
  <2> HIDE DEF e, x
  <2>8. words' = After(words, e.beat, x) BY <2>1, <2>3, <2>5 DEF After
  <2>9. PICK c, m, d : History(cmds, DataBeats, Unanswered(popR), mem, words, c, m, d)
    BY <2>1, PopKeepsHistory
  <2>10. Unanswered(popR) \in Seq(ReadType) BY <2>1, UnansweredType
  <2>11. \E cc, mm : History(Append(cmds, e), Append(DataBeats, x), Unanswered(popR), mem,
                             After(words, e.beat, x), cc, mm, d)
    BY <1>0, <2>3, <2>5, <2>9, <2>10, HistWrite
  <2>12. reads' = Unanswered(popR) /\ mem' = mem BY <2>1
  <2> QED BY <2>6, <2>7, <2>8, <2>11, <2>12 DEF LastInv
<1>3. ASSUME NEW popR \in BOOLEAN, NEW popB \in BOOLEAN, NEW o \in Owners, NEW a \in Word,
             NEW sent \in BOOLEAN, EdgeRead(o, a, sent, popR, popB)
      PROVE  LastInv'
  <2> DEFINE r == [half |-> a.half, want |-> words[a.beat][a.half], done |-> FALSE,
                   data |-> mem[a.beat]]
             e == [write |-> FALSE, owner |-> o, beat |-> a.beat]
  <2>1. /\ w_pending' = (w_pending /\ ~sent) /\ UNCHANGED <<write_owner, write_bit2>>
        /\ UNCHANGED <<mem, words>> /\ WritePhase(sent) /\ (popR => r_valid)
    BY <1>3 DEF EdgeRead, Responses
  <2>2. reads' = Append(Unanswered(popR), r) /\ cmds' = Append(cmds, e)
    BY <1>3 DEF EdgeRead
  <2>3. e \in CmdType /\ ~e.write /\ e.beat = a.beat BY DEF CmdType, Word
  <2>4. r \in ReadType /\ ~r.done /\ r.half = a.half /\ r.want = words[a.beat][a.half]
    BY DEF IInv, TypeOK, ReadType, Beat, Word
  <2>5. DataBeats' = DataBeats BY <2>1, PhaseKeepsData
  <2> HIDE DEF r, e
  <2>6. PICK c, m, d : History(cmds, DataBeats, Unanswered(popR), mem, words, c, m, d)
    BY <2>1, PopKeepsHistory
  <2>7. Unanswered(popR) \in Seq(ReadType) BY <2>1, UnansweredType
  <2>8. r.want = words[e.beat][r.half] BY <2>3, <2>4
  <2>9. \E cc, mm : History(Append(cmds, e), DataBeats, Append(Unanswered(popR), r), mem, words,
                            cc, mm, d)
    BY <1>0, <2>3, <2>4, <2>6, <2>7, <2>8, HistRead
  <2>10. mem' = mem /\ words' = words BY <2>1
  <2> QED BY <2>2, <2>5, <2>9, <2>10 DEF LastInv
<1> QED BY <1>1, <1>2, <1>3 DEF rising_edge

\* Data that waits behind other data does not become the next.
LEMMA TailAppend ==
    ASSUME NEW S, NEW s \in Seq(S), s # <<>>, NEW e \in S
    PROVE  Tail(Append(s, e)) = Append(Tail(s), e) /\ Head(Append(s, e)) = Head(s)
           /\ Append(s, e) # <<>>
OBVIOUS

\* So does the core, whose writes take the data they belong to.
LEMMA CoreKeepsLast ==
    ASSUME IInv, LastInv, core_write \/ core_read
    PROVE  LastInv'
<1>0. DataBeats \in Seq(WBeatType) /\ cmds \in Seq(CmdType) /\ reads \in Seq(ReadType)
      /\ wbuf \in Seq(WBeatType)
  BY DataType DEF IInv, TypeOK, WBeatType
<1>1. PICK c, m, d : History(cmds, DataBeats, reads, mem, words, c, m, d) BY DEF LastInv
<1>2. CASE core_write
  <2>1. /\ cmds # <<>> /\ Head(cmds).write /\ wbuf # <<>>
        /\ mem' = After(mem, Head(cmds).beat, Head(wbuf))
        /\ cmds' = Tail(cmds) /\ wbuf' = Tail(wbuf)
        /\ UNCHANGED <<bridge, masters, reads, words>>
    BY <1>2 DEF core_write, After
  <2>2. DataBeats' = Tail(DataBeats) /\ Head(DataBeats) = Head(wbuf) /\ DataBeats # <<>>
    <3>1. w_pending' = w_pending /\ write_bit2' = write_bit2 /\ w' = w /\ write_owner' = write_owner
      BY <2>1 DEF bridge, masters
    <3>2. CASE w_pending
      <4> DEFINE x == [half |-> write_bit2, v |-> Head(w[write_owner])]
      <4>1. x \in WBeatType
        BY <3>2, DataType DEF IInv, TypeOK, WBeatType
      <4>2. x' = x BY <3>1
      <4>3. DataBeats = Append(wbuf, x) /\ DataBeats' = Append(Tail(wbuf), x')
        BY <2>1, <3>1, <3>2 DEF DataBeats
      <4> HIDE DEF x, WBeatType
      <4>4. Tail(Append(wbuf, x)) = Append(Tail(wbuf), x) /\ Head(Append(wbuf, x)) = Head(wbuf)
            /\ Append(wbuf, x) # <<>>
        BY <1>0, <2>1, <4>1, TailAppend
      <4> QED BY <4>2, <4>3, <4>4
    <3>3. CASE ~w_pending BY <2>1, <3>1, <3>3 DEF DataBeats
    <3> QED BY <3>2, <3>3
  <2>3. \E cc, mm : History(Tail(cmds), Tail(DataBeats), reads,
                            After(mem, Head(cmds).beat, Head(DataBeats)), words, cc, mm, d)
    BY <1>0, <1>1, <2>1, <2>2, HistCoreWrite
  <2>4. reads' = reads /\ words' = words BY <2>1
  <2> QED BY <2>1, <2>2, <2>3, <2>4 DEF LastInv
<1>3. CASE core_read
  <2>1. /\ cmds # <<>> /\ ~Head(cmds).write
        /\ cmds' = Tail(cmds)
        /\ UNCHANGED <<bridge, masters, wbuf, b, mem, words>>
    BY <1>3 DEF core_read
  <2>2. PICK k \in DOMAIN reads :
          /\ ~reads[k].done /\ \A j \in 1..(k - 1) : reads[j].done
          /\ reads' = [reads EXCEPT ![k] = [reads[k] EXCEPT !.done = TRUE, !.data = mem[Head(cmds).beat]]]
    BY <1>3 DEF core_read
  <2>3. k \in 1..Len(reads) /\ k \in Nat BY <1>0, <2>2
  <2>4. \A j \in 1..Len(reads) : reads[j].done <=> j <= d BY <1>1 DEF History
  <2>5. d \in Nat /\ d <= Len(reads)
    BY <1>0, <1>1, ReadPlace
  <2>6. k = d + 1
    <3>1. ~(k <= d) BY <2>2, <2>3, <2>4
    <3>2. ASSUME d + 1 < k PROVE FALSE
      <4>1. d + 1 \in 1..(k - 1) /\ d + 1 \in 1..Len(reads) BY <1>0, <2>3, <2>5, <3>2
      <4>2. reads[d + 1].done BY <2>2, <4>1
      <4>3. d + 1 <= d BY <2>4, <4>1, <4>2
      <4> QED BY <2>5, <4>3
    <3> QED BY <2>3, <2>5, <3>1, <3>2
  <2>7. /\ reads' \in Seq(ReadType) /\ Len(reads') = Len(reads)
        /\ \A j \in 1..Len(reads) : j # d + 1 => reads'[j] = reads[j]
        /\ reads'[d + 1] = [reads[d + 1] EXCEPT !.done = TRUE, !.data = mem[Head(cmds).beat]]
    <3>1. reads' \in Seq(ReadType)
      <4>1. IInv' BY <1>3, CoreKeeps
      <4> QED BY <4>1 DEF IInv, TypeOK, ReadType
    <3> HIDE DEF ReadType
    <3>2. Len(reads') = Len(reads) BY <1>0, <2>2
    <3>3. \A j \in 1..Len(reads) : j # k => reads'[j] = reads[j] BY <1>0, <2>2
    <3>4. reads'[k] = [reads[k] EXCEPT !.done = TRUE, !.data = mem[Head(cmds).beat]]
      BY <1>0, <2>2
    <3> QED BY <2>6, <3>1, <3>2, <3>3, <3>4
  <2>8. \E cc, mm : History(Tail(cmds), DataBeats, reads', mem, words, cc, mm, d + 1)
    BY <1>0, <1>1, <2>1, <2>7, HistCoreRead
  <2>9. DataBeats' = DataBeats BY <2>1 DEF DataBeats, bridge, masters
  <2> QED BY <2>1, <2>8, <2>9 DEF LastInv
<1> QED BY <1>2, <1>3

\* The masters add nothing to what the core has, and the word to come stays the first of
\* its master's.
LEMMA MastersKeepData ==
    ASSUME IInv, IssueWrite \/ IssueRead
    PROVE  DataBeats' = DataBeats /\ UNCHANGED <<cmds, reads, mem, words>>
<1>1. CASE IssueWrite
  <2>1. PICK m \in Writers, v \in Values : w' = [w EXCEPT ![m] = Append(w[m], v)]
    BY <1>1 DEF IssueWrite
  <2>2. UNCHANGED <<bridge, ar, cmds, wbuf, reads, b, mem, words>> BY <1>1 DEF IssueWrite
  <2>3. m \in Owners BY BridgeAssumption DEF Owners
  <2>4. w_pending => Head(w'[write_owner]) = Head(w[write_owner])
    <3> SUFFICES ASSUME w_pending PROVE Head(w'[write_owner]) = Head(w[write_owner]) OBVIOUS
    <3>1. w[write_owner] \in Seq(Values) /\ w[write_owner] # <<>> BY DataType
    <3>2. w \in [Owners -> Seq(Values)] /\ write_owner \in Owners BY DEF IInv, TypeOK
    <3>3. CASE m = write_owner
      <4>1. w'[write_owner] = Append(w[write_owner], v) BY <2>1, <2>3, <3>2, <3>3
      <4> QED BY <3>1, <4>1, TailAppend
    <3>4. CASE m # write_owner BY <2>1, <3>2, <3>4
    <3> QED BY <3>3, <3>4
  <2>5. w_pending' = w_pending /\ write_bit2' = write_bit2 /\ write_owner' = write_owner /\ wbuf' = wbuf
    BY <2>2 DEF bridge
  <2> QED BY <2>2, <2>4, <2>5 DEF DataBeats
<1>2. CASE IssueRead BY <1>2 DEF IssueRead, DataBeats, bridge
<1> QED BY <1>1, <1>2

\* The history holds after reset.
LEMMA InitLast == Init => LastInv
<1> SUFFICES ASSUME Init PROVE LastInv OBVIOUS
<1> DEFINE z == [k \in {0} |-> 0]
           m0 == [k \in {0} |-> Zero]
<1>1. cmds = <<>> /\ DataBeats = <<>> /\ reads = <<>> /\ mem = Zero /\ words = Zero
  BY DEF Init, DataBeats
<1>2. z[0] = 0 /\ m0[0] = Zero OBVIOUS
<1> HIDE DEF z, m0
<1>3. Len(<<>>) = 0 /\ 0..0 = {0} /\ 1..0 = {} OBVIOUS
<1>c. Cardinality(Writes(<<>>)) = 0
  <2>1. Writes(<<>>) = {} BY DEF Writes
  <2> QED BY <2>1, FS_EmptySet
<1>4. History(<<>>, <<>>, <<>>, Zero, Zero, z, m0, 0)
  BY <1>2, <1>3, <1>c DEF History
<1> QED BY <1>1, <1>4 DEF LastInv

\* Every step keeps the history.
LEMMA NextLast == IInv /\ LastInv /\ [Next]_vars => LastInv'
<1> SUFFICES ASSUME IInv, LastInv, [Next]_vars PROVE LastInv' OBVIOUS
<1>1. CASE rising_edge BY <1>1, EdgeKeepsLast
<1>2. CASE IssueWrite \/ IssueRead BY <1>2, MastersKeepData DEF LastInv
<1>3. CASE core_write \/ core_read BY <1>3, CoreKeepsLast
<1>4. CASE UNCHANGED vars
  <2>1. DataBeats' = DataBeats /\ UNCHANGED <<cmds, reads, mem, words>>
    BY <1>4 DEF vars, bridge, masters, DataBeats
  <2> QED BY <2>1 DEF LastInv
<1> QED BY <1>1, <1>2, <1>3, <1>4 DEF Next

\* No signal of the bridge leaves its range, the natural range of read_count included
\* (hyperram_axi4lite_bridge.vhd), for every FIFO depth.
THEOREM BridgeTypeCorrect == Spec => []TypeOK
<1>1. IInv => TypeOK BY DEF IInv
<1> QED BY <1>1, InitIInv, NextIInv, PTL DEF Spec

\* Every R beat shows the half that the answered read's own address selected, for every
\* FIFO depth and any number of reads in flight from either master.
THEOREM BridgeHalvesMatch == Spec => []HalvesMatch
<1>1. IInv => HalvesMatch
  <2> SUFFICES ASSUME IInv, r_valid PROVE read_bit2[read_head] = Head(reads).half
    BY DEF HalvesMatch
  <2>1. reads \in Seq(ReadType) /\ reads # <<>> BY DEF IInv, TypeOK, ReadType, r_valid
  <2>2. 1 \in 1..Len(reads) /\ Head(reads) = reads[1] BY <2>1
  <2>3. Pos(1 - 1) = read_head BY BridgeAssumption DEF IInv, TypeOK, Pos
  <2>4. read_bit2[Pos(1 - 1)] = reads[1].half BY <2>2 DEF IInv, FifoInv
  <2> QED BY <2>2, <2>3, <2>4
<1> QED BY <1>1, InitIInv, NextIInv, PTL DEF Spec

\* A read returns the last word written at its address before it was accepted, by either
\* master, for every memory, FIFO depth and queue depth.
THEOREM BridgeReadsLastWrite == Spec => []ReadsLastWrite
<1>1. IInv /\ LastInv => ReadsLastWrite
  <2> SUFFICES ASSUME IInv, LastInv, r_valid PROVE r_data = Head(reads).want
    BY DEF ReadsLastWrite
  <2>1. reads \in Seq(ReadType) /\ reads # <<>> /\ Head(reads).done BY DEF IInv, TypeOK, ReadType, r_valid
  <2>2. 1 \in 1..Len(reads) /\ Head(reads) = reads[1] BY <2>1
  <2>3. read_bit2[read_head] = reads[1].half
    <3>1. Pos(1 - 1) = read_head BY BridgeAssumption DEF IInv, TypeOK, Pos
    <3>2. read_bit2[Pos(1 - 1)] = reads[1].half BY <2>2 DEF IInv, FifoInv
    <3> QED BY <3>1, <3>2
  <2>4. PICK c, m, d : History(cmds, DataBeats, reads, mem, words, c, m, d) BY DEF LastInv
  <2>5. d \in Nat /\ (reads[1].done <=> 1 <= d) BY <2>2, <2>4 DEF History
  <2>6. 1 \in 1..d BY <2>1, <2>2, <2>5
  <2>7. reads[1].data[reads[1].half] = reads[1].want BY <2>4, <2>6 DEF History
  <2> QED BY <2>2, <2>3, <2>7 DEF r_data
<1> QED BY <1>1, InitIInv, NextIInv, InitLast, NextLast, PTL DEF Spec

\* The writes in the core's command queue are as many as the data beats it has and the one
\* to come: no beat reaches it before its write, none stays behind.
THEOREM BridgeWriteBeatsHaveCommands == Spec => []WriteBeatsHaveCommands
<1>1. IInv /\ LastInv => WriteBeatsHaveCommands
  <2> SUFFICES ASSUME IInv, LastInv PROVE WriteBeatsHaveCommands OBVIOUS
  <2>1. Cardinality(Writes(cmds)) = Len(DataBeats) BY DEF LastInv, History
  <2>2. Len(DataBeats) = Len(wbuf) + (IF w_pending THEN 1 ELSE 0) BY DataType
  <2> QED BY <2>1, <2>2 DEF WriteBeatsHaveCommands, Writes
<1> QED BY <1>1, InitIInv, NextIInv, InitLast, NextLast, PTL DEF Spec
================================================================================
