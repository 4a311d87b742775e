--------------------------- MODULE SdmMailbox_proofs ---------------------------
(***************************************************************************)
(* Proofs about SdmMailbox, for every depth of the FIFOs, every number of  *)
(* attempts and every number of faults: its types, and that the driver     *)
(* never takes one command's answer for another's unless an answer was     *)
(* late or a reset or reboot came in between.                              *)
(***************************************************************************)
EXTENDS SdmMailbox, SequenceTheorems, TLAPS

--------------------------------------------------------------------------------
\* The inductive invariant. First what holds whatever went wrong before.

Opening == {"drain", "close", "open", "set_cs", "read_id", "reclose"}
InFlash == Opening \cup {"cmd"}
Reboots == {"reboot_close", "reboot_status", "reboot_update", "spin"}

\* Where the driver is tells whose call it is in, and how far the call has come.
Shape ==
    /\ pc \in {"boot", "stopped", "idle"} => call.fn = "none"
    /\ pc \in {"rsu_close", "rsu"} => call.fn \in RsuOps
    /\ pc \in Reboots => call.fn \in {"warm", "cold"}
    /\ pc = "returned" => call.fn \in FlashOps \cup RsuOps
    /\ pc \in InFlash =>
          /\ call.fn \in FlashOps
          /\ 1 <= call.left /\ call.left <= call.chunks
          /\ call.addr = call.first + (call.chunks - call.left)
          /\ call.fn = "read" => Len(delivered) = call.chunks - call.left
    /\ pc = "returned" /\ ret = "ok" /\ call.fn = "read" => Len(delivered) = call.chunks
    /\ pc \in Opening \cup {"boot", "stopped"} => ~open

\* What is in the FIFOs when no stray answer is about.
Empty == cmdq = <<>> /\ out = <<>> /\ rsp = <<>>
Waiting == InMbox /\ step = "wait"
Reading == InMbox /\ step = "word"

\* The attempt under way has met a fault of its own (so far there is one for each before it).
Hit == call.fn \in FlashOps => hits > attempt

\* c is the command the driver is at; mbox_cmd has cleared the array an image update's
\* argument came from.
Sent(c) == c.op = Command.op /\ (pc # "reboot_update" => c = Command)

\* What a failed attempt means: a fault, or a close of a flash that was not open.
Failed == IF pc = "close" THEN ~sdm_open \/ Hit ELSE Hit

OneWord(w) == \/ out = <<w>> /\ rsp = <<>>
              \/ out = <<>> /\ rsp = <<w>>
TwoWords(w, v) == \/ out = <<w, v>> /\ rsp = <<>>
                  \/ out = <<v>> /\ rsp = <<w>>
                  \/ out = <<>> /\ rsp = <<w, v>>

Queued == /\ \E c \in Commands : Sent(c) /\ cmdq = <<c>>
          /\ out = <<>> /\ rsp = <<>>
          /\ pc = "open" => ~sdm_open \/ Hit
Lost == Empty /\ Failed
Refused == cmdq = <<>> /\ OneWord(Header(TRUE, 0)) /\ Failed
Accepted ==
    /\ cmdq = <<>> /\ OneWord(Header(FALSE, 0)) /\ Command.op \notin HasData
    /\ pc = "close" => ~sdm_open
    /\ pc = "open" => sdm_open
    /\ pc = "cmd" => Command \in executed
Answered ==
    cmdq = <<>> /\ TwoWords(Header(FALSE, 1), Data(Command)) /\ Command.op \in HasData

Piped ==
    /\ ~Waiting /\ ~Reading => Empty
    /\ Waiting => resp = Stale /\ (Queued \/ Lost \/ Refused \/ Accepted \/ Answered)
    /\ Reading => /\ cmdq = <<>> /\ OneWord(Data(Command)) /\ hdr = Header(FALSE, 1)
                  /\ Command.op \in HasData

\* The driver is right about the flash being open.
Known ==
    /\ open /\ pc \notin {"rsu_close", "reboot_close"} => sdm_open
    /\ pc \in {"set_cs", "read_id", "cmd"} => sdm_open
    /\ pc = "open" /\ step = "send" => ~sdm_open \/ Hit

\* Every attempt that failed had a fault of its own.
Counted ==
    /\ pc \in InFlash => hits >= attempt
    /\ pc = "reclose" => Hit
    /\ pc = "returned" /\ ret = "err" /\ call.fn \in FlashOps => hits >= QSPI_ATTEMPTS

\* What the call has done so far.
Carried(S) ==
    /\ call.fn = "write" => \A a \in S : [op |-> "QSPI_WRITE", arg |-> a] \in executed
    /\ call.fn = "erase" => \A a \in S : [op |-> "QSPI_ERASE", arg |-> a] \in executed
Served ==
    /\ pc \in InFlash \cup {"returned"} /\ call.fn = "read" =>
          \A i \in DOMAIN delivered :
              delivered[i] = [op |-> "QSPI_READ", arg |-> call.first + i - 1]
    /\ pc \in InFlash => Carried(call.first..(call.addr - 1))
    /\ pc = "returned" /\ ret = "ok" => Carried(Asked)

Clean ==
    /\ Piped /\ Known /\ Counted /\ Served
    /\ pc = "reboot_update" /\ step = "send" => resp.op = "RSU_STATUS"

Inv == TypeOK /\ Shape /\ (~strays => Clean)
--------------------------------------------------------------------------------
\* Short sequences.
LEMMA Short ==
    ASSUME NEW x, NEW y
    PROVE  /\ <<x>> # <<>> /\ <<x, y>> # <<>>
           /\ Head(<<x>>) = x /\ Tail(<<x>>) = <<>>
           /\ Head(<<x, y>>) = x /\ Tail(<<x, y>>) = <<y>>
           /\ Append(<<>>, x) = <<x>> /\ Append(<<x>>, y) = <<x, y>>
           /\ Len(<<>>) = 0
<1> DEFINE S == {x, y}
<1>1. <<>> \in Seq(S) /\ <<x>> \in Seq(S) /\ <<y>> \in Seq(S) /\ <<x, y>> \in Seq(S) OBVIOUS
<1>2. Len(<<>>) = 0 /\ Len(<<x>>) = 1 /\ Len(<<x, y>>) = 2 OBVIOUS
<1>3. <<x>> # <<>> /\ <<x, y>> # <<>> BY <1>2
<1>4. Head(<<x>>) = x OBVIOUS
<1>5. Head(<<x, y>>) = x OBVIOUS
<1>6. Tail(<<x>>) = <<>> BY <1>1, <1>2
<1>7. Tail(<<x, y>>) = <<y>> BY <1>1, <1>2
<1>8. Append(<<>>, x) = <<x>> BY <1>1, <1>2
<1>9. Append(<<x>>, y) = <<x, y>>
  <2> DEFINE t == Append(<<x>>, y)
  <2>1. t \in Seq(S) /\ Len(t) = 2 /\ t[1] = x /\ t[2] = y BY <1>1, <1>2
  <2>2. <<x, y>>[1] = x /\ <<x, y>>[2] = y OBVIOUS
  <2>3. \A i \in 1..Len(t) : t[i] = <<x, y>>[i]
    <3> TAKE i \in 1..Len(t)
    <3> HIDE DEF t
    <3>1. i = 1 \/ i = 2 BY <2>1
    <3> QED BY <2>1, <2>2, <3>1
  <2> HIDE DEF t
  <2> QED BY <1>1, <1>2, <2>1, <2>3, SeqEqual DEF t
<1> QED BY <1>2, <1>3, <1>4, <1>5, <1>6, <1>7, <1>8, <1>9

\* The commands the driver sends, by the place it is at.
LEMMA CommandFacts ==
    /\ pc \in {"close", "reclose", "rsu_close", "reboot_close"} =>
          Command = [op |-> "QSPI_CLOSE", arg |-> 0]
    /\ pc = "open" => Command = [op |-> "QSPI_OPEN", arg |-> 0]
    /\ pc = "set_cs" => Command = [op |-> "QSPI_SET_CS", arg |-> 0]
    /\ pc = "read_id" => Command = [op |-> "QSPI_READ_DEVICE_REG", arg |-> 0]
    /\ pc = "cmd" =>
          /\ call.fn = "read" => Command = [op |-> "QSPI_READ", arg |-> call.addr]
          /\ call.fn = "write" => Command = [op |-> "QSPI_WRITE", arg |-> call.addr]
          /\ call.fn = "erase" => Command = [op |-> "QSPI_ERASE", arg |-> call.addr]
    /\ pc = "reboot_status" => Command = [op |-> "RSU_STATUS", arg |-> 0]
    /\ pc = "reboot_update" =>
          Command = [op |-> "RSU_IMAGE_UPDATE",
                     arg |-> IF resp.op = "RSU_STATUS" THEN Image ELSE 0]
    /\ pc = "rsu" => Command = IF call.fn = "status" THEN [op |-> "RSU_STATUS", arg |-> 0]
                               ELSE [op |-> "RSU_IMAGE_UPDATE", arg |-> Image]
BY Zenon DEF Command

\* It stays the same command while mbox_cmd runs.
LEMMA CommandStays ==
    ASSUME pc' = pc, call' = call, resp' = resp \/ pc # "reboot_update"
    PROVE  Command' = Command
BY Zenon DEF Command

LEMMA CommandType == TypeOK => Command \in Commands
BY Zenon DEF Command, TypeOK, Commands, Ops, Image

\* What the SDM makes of a command.
LEMMA SdmFacts ==
    ASSUME NEW c \in Commands, sdm_open \in BOOLEAN
    PROVE  /\ Refuses(c) \in BOOLEAN
           /\ c.op = "QSPI_OPEN" => (Refuses(c) <=> sdm_open)
           /\ c.op = "RSU_STATUS" => ~Refuses(c)
           /\ c.op \in {"QSPI_CLOSE", "QSPI_SET_CS", "QSPI_READ_DEVICE_REG", "QSPI_READ",
                        "QSPI_WRITE", "QSPI_ERASE"} => (Refuses(c) <=> ~sdm_open)
BY Zenon DEF Refuses

LEMMA AnswerFacts ==
    ASSUME NEW c
    PROVE  /\ Answer(c, TRUE) = <<Header(TRUE, 0)>>
           /\ c.op \notin HasData => Answer(c, FALSE) = <<Header(FALSE, 0)>>
           /\ c.op \in HasData => Answer(c, FALSE) = <<Header(FALSE, 1), Data(c)>>
BY DEF Answer

LEMMA WordTypes ==
    ASSUME NEW c \in Commands
    PROVE  /\ Header(TRUE, 0) \in Words /\ Header(FALSE, 0) \in Words
           /\ Header(FALSE, 1) \in Words /\ Data(c) \in Words
BY DEF Words, Header, Data, Got, Stale

LEMMA AnswerType ==
    ASSUME NEW c \in Commands, NEW err \in BOOLEAN
    PROVE  Answer(c, err) \in Seq(Words)
<1> DEFINE e == Header(TRUE, 0)
           n == Header(FALSE, 0)
           h == Header(FALSE, 1)
           d == Data(c)
<1>0. /\ Answer(c, TRUE) = <<e>>
      /\ c.op \notin HasData => Answer(c, FALSE) = <<n>>
      /\ c.op \in HasData => Answer(c, FALSE) = <<h, d>>
  BY Zenon, AnswerFacts
<1>w. e \in Words /\ n \in Words /\ h \in Words /\ d \in Words BY WordTypes
<1> HIDE DEF e, n, h, d
<1>s. <<e>> \in Seq(Words) /\ <<n>> \in Seq(Words) /\ <<h, d>> \in Seq(Words) BY <1>w
<1>1. Answer(c, TRUE) \in Seq(Words) BY Zenon, <1>0, <1>s
<1>2. Answer(c, FALSE) \in Seq(Words) BY Zenon, <1>0, <1>s
<1>3. err = TRUE \/ err = FALSE OBVIOUS
<1> QED BY Zenon, <1>1, <1>2, <1>3
--------------------------------------------------------------------------------
\* Types.

CallType == [fn : Fns, addr : Nat, first : Nat, chunks : Nat, left : Nat]
DriverOK ==
    /\ pc \in Steps /\ step \in {"send", "wait", "word"} /\ ret \in {"ok", "err"}
    /\ call \in CallType
    /\ attempt \in 0..(QSPI_ATTEMPTS - 1)
    /\ open \in BOOLEAN
    /\ resp \in Got /\ delivered \in Seq(Got) /\ hdr \in Words
FifosOK ==
    /\ cmdq \in Seq(Commands) /\ Len(cmdq) <= CMD_FIFO
    /\ rsp \in Seq(Words) /\ Len(rsp) <= RSP_FIFO
    /\ out \in Seq(Words)
SdmOK == FifosOK /\ sdm_open \in BOOLEAN /\ executed \in SUBSET Changes
GhostsOK == strays \in BOOLEAN /\ faults \in 0..MaxFaults /\ hits \in 0..faults

LEMMA TypeParts == TypeOK <=> DriverOK /\ SdmOK /\ GhostsOK
BY DEF TypeOK, CallType, DriverOK, SdmOK, FifosOK, GhostsOK

LEMMA GhostTypes ==
    ASSUME SdmAssumption, GhostsOK
    PROVE  /\ NoFault => GhostsOK'
           /\ \A kind : Fault(kind) => GhostsOK' /\ hits' = hits + 1 /\ (strays => strays')
           /\ Reopens => GhostsOK' /\ hits' = hits
<1>1. faults \in Nat /\ hits \in Nat /\ hits <= faults /\ faults <= MaxFaults /\ MaxFaults \in Nat
  BY DEF GhostsOK, SdmAssumption
<1>2. NoFault => GhostsOK' BY DEF NoFault, ghosts, GhostsOK
<1>3. ASSUME NEW kind, Fault(kind)
      PROVE  GhostsOK' /\ hits' = hits + 1 /\ (strays => strays')
  <2>1. faults < MaxFaults /\ faults' = faults + 1 /\ hits' = hits + 1 BY <1>3 DEF Fault
  <2>2. strays' \in BOOLEAN /\ (strays => strays') BY Zenon, <1>3 DEF Fault
  <2>3. faults' \in 0..MaxFaults /\ hits' \in 0..faults' BY <1>1, <2>1
  <2> QED BY <2>1, <2>2, <2>3 DEF GhostsOK
<1>4. ASSUME Reopens PROVE GhostsOK' /\ hits' = hits
  <2>1. strays' \in BOOLEAN /\ faults' = faults /\ hits' = hits BY Zenon, <1>4 DEF Reopens
  <2> QED BY <2>1 DEF GhostsOK
<1> QED BY <1>2, <1>3, <1>4

\* The values a restart leaves, and a call whose next chunk it is.
LEMMA ValueTypes ==
    /\ NoHeader \in Words /\ Stale \in Got /\ NoCall \in CallType
    /\ \A got \in Got, d \in Seq(Got) : <<got>> \in Seq(Got) /\ Append(d, got) \in Seq(Got)
    /\ <<>> \in Seq(Got)
<1>1. NoHeader \in Words /\ Stale \in Got BY DEF NoHeader, Header, Words, Got, Stale
<1>2. NoCall \in CallType BY DEF NoCall, CallType, Fns
<1> QED BY <1>1, <1>2

NextCall == [call EXCEPT !.addr = @ + 1, !.left = @ - 1]
LEMMA NextCallFacts ==
    ASSUME call \in CallType, call.left > 1
    PROVE  /\ NextCall \in CallType
           /\ NextCall.fn = call.fn /\ NextCall.addr = call.addr + 1
           /\ NextCall.first = call.first /\ NextCall.chunks = call.chunks
           /\ NextCall.left = call.left - 1
<1> DEFINE x == call.addr + 1
           y == call.left - 1
           r == [call EXCEPT !.addr = x, !.left = y]
<1>1. x \in Nat /\ y \in Nat BY DEF CallType
<1>2. NextCall = r BY Zenon DEF NextCall
<1> HIDE DEF x, y
<1>3. r \in CallType BY <1>1 DEF CallType
<1>4. r.fn = call.fn /\ r.addr = x /\ r.first = call.first /\ r.chunks = call.chunks /\ r.left = y
  BY <1>1 DEF CallType
<1> QED BY <1>2, <1>3, <1>4 DEF x, y

\* What mbox_cmd's caller may do: go on in the same call, try again, go on to the next
\* chunk, return, or jump.
Moves ==
    /\ pc' \in Steps /\ step' \in {"send", step}
    /\ open' \in {TRUE, FALSE, open}
    /\ UNCHANGED <<call, attempt, ret, delivered>>

LEMMA ReturnCases ==
    ASSUME NEW ok, NEW got, MboxReturns(ok, got)
    PROVE  \/ RebootJumps(ok) /\ Restarts("boot")
           \/ /\ resp' = got /\ hdr' = NoHeader
              /\ \/ Moves
                 \/ TryAgain
                 \/ pc = "cmd" /\ ok /\ NextChunk(got)
                 \/ pc = "rsu" /\ RsuSequence(ok, got)
<1>1. CASE OpenSequence(ok, got) BY <1>1 DEF MboxReturns, OpenSequence, Moves, Goto, Steps
<1>2. CASE RsuSequence(ok, got) BY <1>2 DEF MboxReturns, RsuSequence, Moves, Goto, Steps
<1>3. CASE RebootSequence(ok) BY <1>3 DEF MboxReturns, RebootSequence, Moves, Goto, Steps
<1> QED BY <1>1, <1>2, <1>3 DEF MboxReturns

\* mbox_cmd's caller goes on with values of the right kinds.
LEMMA ReturnTypes ==
    ASSUME SdmAssumption, DriverOK, NEW ok, NEW got \in Got, MboxReturns(ok, got)
    PROVE  DriverOK'
<1> USE ValueTypes
<1>1. CASE Restarts("boot")
  <2>1. 0 \in 0..(QSPI_ATTEMPTS - 1) BY DEF SdmAssumption
  <2> QED BY <1>1, <2>1 DEF Restarts, DriverOK, Steps
<1>2. CASE resp' = got /\ hdr' = NoHeader /\ Moves
  BY <1>2 DEF Moves, DriverOK
<1>3. CASE resp' = got /\ hdr' = NoHeader /\ TryAgain
  <2>1. QSPI_ATTEMPTS \in Nat \ {0} BY DEF SdmAssumption
  <2>2. attempt' \in 0..(QSPI_ATTEMPTS - 1) BY <1>3, <2>1 DEF TryAgain, DriverOK
  <2>3. /\ pc' \in {"drain", "returned"} /\ step' \in {"send", step} /\ ret' \in {"err", ret}
        /\ open' \in {FALSE, open} /\ call' = call /\ delivered' = delivered
    BY <1>3 DEF TryAgain, Goto, Returns
  <2> QED BY <1>3, <2>2, <2>3 DEF DriverOK, Steps
<1>4. CASE resp' = got /\ hdr' = NoHeader /\ NextChunk(got)
  <2>1. QSPI_ATTEMPTS \in Nat \ {0} BY DEF SdmAssumption
  <2>2. delivered' \in Seq(Got) BY <1>4 DEF NextChunk, DriverOK
  <2>3. call' \in CallType
    <3>1. call.left > 1 => NextCall \in CallType BY NextCallFacts DEF DriverOK
    <3> QED BY <1>4, <3>1 DEF NextChunk, NextCall, DriverOK
  <2>4. pc' \in Steps /\ step' \in {"send", step} /\ ret' \in {ret, "ok"} /\ attempt' \in {attempt, 0}
        /\ open' = open
    BY <1>4 DEF NextChunk, Goto, Returns, Steps
  <2> QED BY <1>4, <2>1, <2>2, <2>3, <2>4 DEF DriverOK
<1>5. CASE resp' = got /\ hdr' = NoHeader /\ pc = "rsu" /\ RsuSequence(ok, got)
  <2>1. pc' = "returned" /\ step' = step /\ ret' \in {"ok", "err"} /\ delivered' = <<got>>
        /\ call' = call /\ attempt' = attempt /\ open' = open
    BY <1>5 DEF RsuSequence, Returns
  <2> QED BY <1>5, <2>1 DEF DriverOK, Steps
<1> QED BY <1>1, <1>2, <1>3, <1>4, <1>5, ReturnCases

\* Taking the first word of a FIFO, or adding one where there is room.
LEMMA FifoTypes ==
    ASSUME NEW S, NEW n \in Nat, NEW q \in Seq(S)
    PROVE  /\ q # <<>> => /\ Head(q) \in S /\ Tail(q) \in Seq(S)
                          /\ Len(q) <= n => Len(Tail(q)) <= n
           /\ \A w \in S : /\ Append(q, w) \in Seq(S)
                           /\ Len(q) < n => Len(Append(q, w)) <= n
<1>1. ASSUME q # <<>> PROVE Head(q) \in S /\ Tail(q) \in Seq(S) /\ Len(Tail(q)) = Len(q) - 1
  BY <1>1, HeadTailProperties
<1>2. ASSUME NEW w \in S PROVE Append(q, w) \in Seq(S) /\ Len(Append(q, w)) = Len(q) + 1
  BY AppendProperties
<1>3. Len(q) \in Nat OBVIOUS
<1> QED BY <1>1, <1>2, <1>3

LEMMA TimesOutTypes ==
    ASSUME SdmAssumption, TypeOK, TimesOut
    PROVE  TypeOK'
<1>1. DriverOK /\ SdmOK /\ GhostsOK BY TypeParts
<1>2. MboxReturns(FALSE, resp) /\ UNCHANGED sdm BY DEF TimesOut
<1>3. DriverOK'
  <2>1. resp \in Got BY <1>1 DEF DriverOK
  <2> QED BY <1>1, <1>2, <2>1, ReturnTypes
<1>4. SdmOK' BY <1>1, <1>2 DEF SdmOK, FifosOK, sdm
<1>5. GhostsOK'
  <2>1. CASE Fault("late") BY <1>1, <2>1, GhostTypes
  <2>2. CASE strays' = (strays \/ out # <<>>) /\ UNCHANGED <<faults, hits>>
    <3>1. strays' \in BOOLEAN BY Zenon, <2>2
    <3> QED BY <1>1, <2>2, <3>1 DEF GhostsOK
  <2> QED BY <2>1, <2>2 DEF TimesOut
<1>6. DriverOK' /\ SdmOK' /\ GhostsOK' => TypeOK'
  BY DEF TypeOK, CallType, DriverOK, SdmOK, FifosOK, GhostsOK
<1> QED BY <1>3, <1>4, <1>5, <1>6

\* A call starts with values of the right kinds.
LEMMA CallTypes ==
    ASSUME SdmAssumption, TypeOK, NEW fn \in Fns, NEW a \in Nat, NEW n \in Nat,
           NEW where \in Steps, Call(fn, a, n, where)
    PROVE  TypeOK'
<1>1. DriverOK /\ SdmOK /\ GhostsOK BY TypeParts
<1>2. call' \in CallType BY DEF Call, CallType
<1>3. 0 \in 0..(QSPI_ATTEMPTS - 1) BY DEF SdmAssumption
<1>4. DriverOK' BY <1>1, <1>2, <1>3 DEF Call, Goto, DriverOK
<1>5. SdmOK' BY <1>1 DEF Call, SdmOK, FifosOK
<1>6. strays' \in BOOLEAN BY Zenon DEF Call
<1>7. 0 \in 0..faults /\ hits' = 0 /\ faults' = faults BY <1>1 DEF Call, GhostsOK
<1>8. GhostsOK' BY <1>1, <1>6, <1>7 DEF GhostsOK
<1>9. DriverOK' /\ SdmOK' /\ GhostsOK' => TypeOK'
  BY DEF TypeOK, CallType, DriverOK, SdmOK, FifosOK, GhostsOK
<1> QED BY <1>4, <1>5, <1>8, <1>9

\* A restart leaves values of the right kinds.
LEMMA RestartTypes ==
    ASSUME SdmAssumption, NEW where \in Steps, Restarts(where)
    PROVE  DriverOK'
<1>1. 0 \in 0..(QSPI_ATTEMPTS - 1) BY DEF SdmAssumption
<1> QED BY <1>1, ValueTypes DEF Restarts, DriverOK

LEMMA SdmTypes ==
    ASSUME SdmAssumption, TypeOK, Sdm
    PROVE  TypeOK'
<1>0. DriverOK /\ SdmOK /\ GhostsOK BY TypeParts
<1> DEFINE c == Head(cmdq)
<1>a. CMD_FIFO \in Nat /\ RSP_FIFO \in Nat BY DEF SdmAssumption
<1>b. cmdq \in Seq(Commands) /\ rsp \in Seq(Words) /\ out \in Seq(Words)
      /\ Len(cmdq) <= CMD_FIFO /\ Len(rsp) <= RSP_FIFO /\ sdm_open \in BOOLEAN
      /\ executed \in SUBSET Changes
  BY <1>0 DEF SdmOK, FifosOK
<1>c. cmdq # <<>> => c \in Commands /\ Tail(cmdq) \in Seq(Commands) /\ Len(Tail(cmdq)) <= CMD_FIFO
  BY <1>a, <1>b, FifoTypes
<1>p. DriverOK' /\ SdmOK' /\ GhostsOK' => TypeOK'
  BY DEF TypeOK, CallType, DriverOK, SdmOK, FifosOK, GhostsOK
<1>1. ASSUME SdmExecutes PROVE TypeOK'
  <2>1. cmdq # <<>> /\ cmdq' = Tail(cmdq) /\ out' = Answer(c, Refuses(c)) /\ rsp' = rsp
        /\ executed' = executed \cup (IF Refuses(c) THEN {} ELSE {c} \cap Changes)
        /\ NoFault /\ UNCHANGED driver
    BY <1>1 DEF SdmExecutes
  <2>2. sdm_open' \in BOOLEAN BY Zenon, <1>1, <1>b DEF SdmExecutes
  <2>3. out' \in Seq(Words)
    <3>1. c \in Commands BY <1>c, <2>1
    <3>2. Refuses(c) \in BOOLEAN BY <1>b, <3>1, SdmFacts
    <3> QED BY <2>1, <3>1, <3>2, AnswerType
  <2>4. executed' \in SUBSET Changes BY <1>b, <2>1
  <2>5. SdmOK' BY <1>b, <1>c, <2>1, <2>2, <2>3, <2>4 DEF SdmOK, FifosOK
  <2>6. GhostsOK' BY <1>0, <2>1, GhostTypes
  <2>7. DriverOK' BY <1>0, <2>1 DEF DriverOK, driver
  <2> QED BY <1>p, <2>5, <2>6, <2>7
<1>2. ASSUME SdmFails PROVE TypeOK'
  <2>1. cmdq # <<>> /\ cmdq' = Tail(cmdq) /\ out' \in {<<>>, Answer(c, TRUE)}
        /\ UNCHANGED <<rsp, sdm_open, executed>> /\ UNCHANGED driver
    BY <1>2 DEF SdmFails
  <2>2. out' \in Seq(Words)
    <3>1. c \in Commands BY <1>c, <2>1
    <3>2. Answer(c, TRUE) \in Seq(Words) BY <3>1, AnswerType
    <3>3. <<>> \in Seq(Words) OBVIOUS
    <3> QED BY <2>1, <3>2, <3>3
  <2>3. SdmOK' BY <1>b, <1>c, <2>1, <2>2 DEF SdmOK, FifosOK
  <2>4. GhostsOK' BY <1>0, <1>2, GhostTypes DEF SdmFails
  <2>5. DriverOK' BY <1>0, <2>1 DEF DriverOK, driver
  <2> QED BY <1>p, <2>3, <2>4, <2>5
<1>3. ASSUME SdmDelivers PROVE TypeOK'
  <2>1. out # <<>> /\ Len(rsp) < RSP_FIFO /\ rsp' = Append(rsp, Head(out)) /\ out' = Tail(out)
        /\ UNCHANGED <<cmdq, sdm_open, executed>> /\ NoFault /\ UNCHANGED driver
    BY <1>3 DEF SdmDelivers
  <2>2. Head(out) \in Words /\ Tail(out) \in Seq(Words) BY <1>a, <1>b, <2>1, FifoTypes
  <2>3. Append(rsp, Head(out)) \in Seq(Words) /\ Len(Append(rsp, Head(out))) <= RSP_FIFO
    BY <1>a, <1>b, <2>1, <2>2, FifoTypes
  <2>4. SdmOK' BY <1>b, <2>1, <2>2, <2>3 DEF SdmOK, FifosOK
  <2>5. GhostsOK' BY <1>0, <2>1, GhostTypes
  <2>6. DriverOK' BY <1>0, <2>1 DEF DriverOK, driver
  <2> QED BY <1>p, <2>4, <2>5, <2>6
<1>4. ASSUME reconfigures PROVE TypeOK'
  <2>1. Restarts("boot") /\ cmdq' = <<>> /\ rsp' = <<>> /\ sdm_open' = FALSE
        /\ executed' = {} /\ out' = out /\ NoFault
    BY <1>4 DEF reconfigures
  <2>2. DriverOK' BY <2>1, RestartTypes DEF Steps
  <2>e. <<>> \in Seq(Commands) /\ <<>> \in Seq(Words) /\ Len(<<>>) = 0 BY Short
  <2>f. 0 <= CMD_FIFO /\ 0 <= RSP_FIFO /\ {} \in SUBSET Changes BY <1>a
  <2>3. SdmOK' BY <1>b, <2>1, <2>e, <2>f DEF SdmOK, FifosOK
  <2>4. GhostsOK' BY <1>0, <2>1, GhostTypes
  <2> QED BY <1>p, <2>2, <2>3, <2>4
<1> QED BY <1>1, <1>2, <1>3, <1>4 DEF Sdm

LEMMA DriverTypes ==
    ASSUME SdmAssumption, TypeOK, Driver
    PROVE  TypeOK'
<1>0. DriverOK /\ SdmOK /\ GhostsOK BY TypeParts
<1>a. CMD_FIFO \in Nat /\ RSP_FIFO \in Nat BY DEF SdmAssumption
<1>b. cmdq \in Seq(Commands) /\ rsp \in Seq(Words) /\ out \in Seq(Words)
      /\ Len(cmdq) <= CMD_FIFO /\ Len(rsp) <= RSP_FIFO /\ sdm_open \in BOOLEAN
      /\ executed \in SUBSET Changes
  BY <1>0 DEF SdmOK, FifosOK
<1>c. rsp # <<>> => Head(rsp) \in Words /\ Tail(rsp) \in Seq(Words) /\ Len(Tail(rsp)) <= RSP_FIFO
  BY <1>a, <1>b, FifoTypes
<1>d. resp \in Got /\ Stale \in Got BY <1>0, ValueTypes DEF DriverOK
<1>p. DriverOK' /\ SdmOK' /\ GhostsOK' => TypeOK'
  BY DEF TypeOK, CallType, DriverOK, SdmOK, FifosOK, GhostsOK
<1>1. ASSUME mbox_send PROVE TypeOK'
  <2>0. UNCHANGED <<out, rsp, sdm_open, executed>> BY <1>1 DEF mbox_send
  <2>1. CASE /\ Len(cmdq) < CMD_FIFO /\ cmdq' = Append(cmdq, Command)
             /\ step' = "wait" /\ resp' = Stale /\ NoFault
             /\ UNCHANGED <<pc, call, attempt, open, hdr, ret, delivered>>
    <3>1. Command \in Commands BY CommandType
    <3>2. cmdq' \in Seq(Commands) /\ Len(cmdq') <= CMD_FIFO
      BY <1>a, <1>b, <2>1, <3>1, FifoTypes
    <3>3. SdmOK' BY <1>b, <2>0, <3>2 DEF SdmOK, FifosOK
    <3>4. DriverOK' BY <1>0, <1>d, <2>1 DEF DriverOK
    <3>5. GhostsOK' BY <1>0, <2>1, GhostTypes
    <3> QED BY <1>p, <3>3, <3>4, <3>5
  <2>2. CASE (NoFault \/ Fault("no_room")) /\ MboxReturns(FALSE, Stale) /\ cmdq' = cmdq
    <3>1. DriverOK' BY <1>0, <1>d, <2>2, ReturnTypes
    <3>2. SdmOK' BY <1>b, <2>0, <2>2 DEF SdmOK, FifosOK
    <3>3. GhostsOK' BY <1>0, <2>2, GhostTypes
    <3> QED BY <1>p, <3>1, <3>2, <3>3
  <2> QED BY <1>1, <2>1, <2>2 DEF mbox_send
<1>2. ASSUME mbox_wait PROVE TypeOK'
  <2>1. CASE TimesOut BY <2>1, TimesOutTypes
  <2>2. CASE /\ Starts /\ rsp' = Tail(rsp) /\ NoFault
             /\ UNCHANGED <<cmdq, out, sdm_open, executed>>
             /\ \/ /\ hdr' = Head(rsp) /\ step' = "word"
                   /\ UNCHANGED <<pc, call, attempt, open, resp, ret, delivered>>
                \/ MboxReturns(~Head(rsp).err, resp)
    <3>1. rsp # <<>> BY <2>2 DEF Starts
    <3>2. SdmOK' BY <1>b, <1>c, <2>2, <3>1 DEF SdmOK, FifosOK
    <3>3. GhostsOK' BY <1>0, <2>2, GhostTypes
    <3>4. DriverOK'
      <4>1. CASE hdr' = Head(rsp) /\ step' = "word"
                 /\ UNCHANGED <<pc, call, attempt, open, resp, ret, delivered>>
        BY <1>0, <1>c, <3>1, <4>1 DEF DriverOK
      <4>2. CASE MboxReturns(~Head(rsp).err, resp) BY <1>0, <1>d, <4>2, ReturnTypes
      <4> QED BY <2>2, <4>1, <4>2
    <3> QED BY <1>p, <3>2, <3>3, <3>4
  <2> QED BY <1>2, <2>1, <2>2 DEF mbox_wait
<1>3. ASSUME mbox_word PROVE TypeOK'
  <2>1. CASE TimesOut BY <2>1, TimesOutTypes
  <2> DEFINE got == IF Command.op \in HasData THEN Head(rsp).of ELSE Stale
  <2>2. CASE rsp # <<>> /\ rsp' = Tail(rsp) /\ MboxReturns(~hdr.err, got) /\ NoFault
             /\ UNCHANGED <<cmdq, out, sdm_open, executed>>
    <3>1. Head(rsp).of \in Got BY <1>c, <2>2 DEF Words
    <3>2. got \in Got BY <1>d, <3>1
    <3> HIDE DEF got
    <3>3. DriverOK' BY <1>0, <2>2, <3>2, ReturnTypes
    <3>4. SdmOK' BY <1>b, <1>c, <2>2 DEF SdmOK, FifosOK
    <3>5. GhostsOK' BY <1>0, <2>2, GhostTypes
    <3> QED BY <1>p, <3>3, <3>4, <3>5
  <2> QED BY <1>3, <2>1, <2>2 DEF mbox_word
<1>4. ASSUME drain PROVE TypeOK'
  <2>1. /\ UNCHANGED <<call, attempt, open, resp, hdr, ret, delivered, cmdq, out, sdm_open, executed>>
        /\ \/ /\ rsp # <<>> /\ rsp' = Tail(rsp) /\ NoFault /\ UNCHANGED <<pc, step>>
           \/ /\ rsp' = rsp /\ pc' = "close" /\ step' = "send" /\ (Reopens \/ Fault("late"))
    BY <1>4 DEF drain, Goto
  <2>2. DriverOK' BY <1>0, <2>1 DEF DriverOK, Steps
  <2>3. SdmOK' BY <1>b, <1>c, <2>1 DEF SdmOK, FifosOK
  <2>4. GhostsOK' BY <1>0, <2>1, GhostTypes
  <2> QED BY <1>p, <2>2, <2>3, <2>4
<1>5. ASSUME return PROVE TypeOK'
  <2>1. 0 \in 0..(QSPI_ATTEMPTS - 1) BY DEF SdmAssumption
  <2>2. DriverOK' BY <1>0, <1>5, <2>1, ValueTypes DEF return, DriverOK, Steps
  <2>3. SdmOK' BY <1>b, <1>5 DEF return, SdmOK, FifosOK
  <2>4. 0 \in 0..faults BY <1>0 DEF GhostsOK
  <2>5. GhostsOK' BY <1>0, <1>5, <2>4 DEF return, GhostsOK
  <2> QED BY <1>p, <2>2, <2>3, <2>5
<1>6. ASSUME boots PROVE TypeOK'
  <2>1. ASSUME NEW a \in Addrs, Call("read", a, 1, "drain") PROVE TypeOK'
    <3>1. a \in Nat /\ "read" \in Fns /\ "drain" \in Steps
      BY DEF SdmAssumption, Fns, FlashOps, Steps
    <3> QED BY <2>1, <3>1, CallTypes
  <2>2. CASE pc' = "idle" /\ NoFault
             /\ UNCHANGED <<step, call, attempt, open, resp, hdr, ret, delivered, sdm>>
    <3>1. DriverOK' BY <1>0, <2>2 DEF DriverOK, Steps
    <3>2. SdmOK' BY <1>b, <2>2 DEF SdmOK, FifosOK, sdm
    <3>3. GhostsOK' BY <1>0, <2>2, GhostTypes
    <3> QED BY <1>p, <3>1, <3>2, <3>3
  <2> QED BY <1>6, <2>1, <2>2 DEF boots
<1> QED BY <1>1, <1>2, <1>3, <1>4, <1>5, <1>6 DEF Driver

LEMMA NextTypes ==
    ASSUME SdmAssumption, TypeOK, [Next]_vars
    PROVE  TypeOK'
<1>0. DriverOK /\ SdmOK /\ GhostsOK BY TypeParts
<1>p. DriverOK' /\ SdmOK' /\ GhostsOK' => TypeOK'
  BY DEF TypeOK, CallType, DriverOK, SdmOK, FifosOK, GhostsOK
<1>1. CASE Sdm BY <1>1, SdmTypes
<1>2. CASE Driver BY <1>2, DriverTypes
<1>3. ASSUME flash_call PROVE TypeOK'
  <2>1. PICK fn \in FlashOps \cap Calls, a \in Addrs, n \in 1..MaxChunks :
           Call(fn, a, n, IF open THEN "cmd" ELSE "drain")
    BY <1>3 DEF flash_call
  <2>2. fn \in Fns /\ a \in Nat /\ n \in Nat BY DEF SdmAssumption, Fns
  <2>3. (IF open THEN "cmd" ELSE "drain") \in Steps BY DEF Steps
  <2> QED BY <2>1, <2>2, <2>3, CallTypes
<1>4. ASSUME rsu_cmd PROVE TypeOK'
  <2>1. PICK fn \in RsuOps \cap Calls : Call(fn, 0, 1, IF open THEN "rsu_close" ELSE "rsu")
    BY <1>4 DEF rsu_cmd
  <2>2. fn \in Fns BY DEF Fns
  <2>3. (IF open THEN "rsu_close" ELSE "rsu") \in Steps BY DEF Steps
  <2> QED BY <2>1, <2>2, <2>3, CallTypes
<1>5. ASSUME sys_arch_reboot PROVE TypeOK'
  <2>1. GhostsOK' BY <1>0, <1>5, GhostTypes DEF sys_arch_reboot
  <2>2. SdmOK' BY <1>0, <1>5 DEF sys_arch_reboot, SdmOK, FifosOK, sdm
  <2>3. PICK type \in {"warm", "cold"} :
           \/ /\ call' = [NoCall EXCEPT !.fn = type]
              /\ Goto(IF open THEN "reboot_close" ELSE "reboot_status")
              /\ UNCHANGED <<attempt, open, resp, hdr, ret, delivered>>
           \/ Restarts("boot")
    BY <1>5 DEF sys_arch_reboot
  <2>4. [NoCall EXCEPT !.fn = type] \in CallType BY DEF NoCall, CallType, Fns
  <2>5. CASE Restarts("boot")
    <3>1. DriverOK' BY <2>5, RestartTypes DEF Steps
    <3> QED BY <1>p, <2>1, <2>2, <3>1
  <2>6. CASE /\ call' = [NoCall EXCEPT !.fn = type]
             /\ Goto(IF open THEN "reboot_close" ELSE "reboot_status")
             /\ UNCHANGED <<attempt, open, resp, hdr, ret, delivered>>
    <3>1. call' \in CallType BY <2>4, <2>6
    <3>2. pc' \in Steps /\ step' = "send" BY <2>6 DEF Goto, Steps
    <3>3. DriverOK' BY <1>0, <2>6, <3>1, <3>2 DEF DriverOK
    <3> QED BY <1>p, <2>1, <2>2, <3>3
  <2> QED BY <2>3, <2>5, <2>6
<1>6. ASSUME cpu_reset PROVE TypeOK'
  <2>1. Restarts("stopped") /\ Fault("cpu_reset") /\ UNCHANGED sdm BY <1>6 DEF cpu_reset
  <2>2. GhostsOK' BY <1>0, <2>1, GhostTypes
  <2>3. SdmOK' BY <1>0, <2>1 DEF SdmOK, FifosOK, sdm
  <2>4. DriverOK' BY <2>1, RestartTypes DEF Steps
  <2> QED BY <1>p, <2>2, <2>3, <2>4
<1>7. ASSUME UNCHANGED vars PROVE TypeOK'
  <2>1. UNCHANGED driver /\ UNCHANGED sdm /\ UNCHANGED ghosts BY <1>7 DEF vars
  <2>2. DriverOK' BY <1>0, <2>1 DEF DriverOK, driver
  <2>3. SdmOK' BY <1>0, <2>1 DEF SdmOK, FifosOK, sdm
  <2>4. GhostsOK' BY <1>0, <2>1 DEF GhostsOK, ghosts
  <2> QED BY <1>p, <2>2, <2>3, <2>4
<1> QED BY <1>1, <1>2, <1>3, <1>4, <1>5, <1>6, <1>7 DEF Next

--------------------------------------------------------------------------------
\* The shape of a call.

LEMMA ShapeStays ==
    ASSUME Shape, UNCHANGED <<pc, call, ret, delivered, open>>
    PROVE  Shape'
BY DEF Shape

\* A restart leaves no call.
LEMMA ShapeRestarts ==
    ASSUME NEW where \in {"boot", "stopped"}, Restarts(where)
    PROVE  Shape'
BY DEF Restarts, Shape, NoCall, Reboots, InFlash, Opening

\* A flash call's fields.
LEMMA FlashShape ==
    ASSUME TypeOK, Shape, pc \in InFlash
    PROVE  /\ call \in CallType /\ call.fn \in FlashOps
           /\ call.left \in Nat /\ call.chunks \in Nat /\ call.first \in Nat /\ call.addr \in Nat
           /\ 1 <= call.left /\ call.left <= call.chunks
           /\ call.addr = call.first + (call.chunks - call.left)
           /\ delivered \in Seq(Got) /\ Len(delivered) \in Nat
           /\ call.fn = "read" => Len(delivered) = call.chunks - call.left
<1>1. call \in CallType /\ delivered \in Seq(Got) BY DEF TypeOK, CallType
<1>2. call.left \in Nat /\ call.chunks \in Nat /\ call.first \in Nat /\ call.addr \in Nat
  BY <1>1 DEF CallType
<1>3. Len(delivered) \in Nat BY <1>1
<1> QED BY <1>1, <1>2, <1>3 DEF Shape

\* After a chunk the call is at the next one, or it returns with all of them.
LEMMA NextChunkShape ==
    ASSUME TypeOK, Shape, pc = "cmd", NEW got \in Got, NextChunk(got)
    PROVE  Shape'
<1>1. pc \in InFlash BY DEF InFlash, Opening
<1>2. /\ call \in CallType /\ call.fn \in FlashOps
      /\ call.left \in Nat /\ call.chunks \in Nat /\ call.first \in Nat /\ call.addr \in Nat
      /\ 1 <= call.left /\ call.left <= call.chunks
      /\ call.addr = call.first + (call.chunks - call.left)
      /\ delivered \in Seq(Got) /\ Len(delivered) \in Nat
      /\ call.fn = "read" => Len(delivered) = call.chunks - call.left
  BY <1>1, FlashShape
<1>3. call.fn = "read" => Len(delivered') = Len(delivered) + 1
  <2>1. Len(Append(delivered, got)) = Len(delivered) + 1 BY <1>2, AppendProperties
  <2> QED BY <2>1 DEF NextChunk
<1>4. CASE call.left > 1 /\ call' = NextCall /\ pc' = "cmd" /\ ret' = ret
  <2>1. /\ call'.fn = call.fn /\ call'.addr = call.addr + 1
        /\ call'.first = call.first /\ call'.chunks = call.chunks /\ call'.left = call.left - 1
    BY <1>2, <1>4, NextCallFacts
  <2>2. 1 <= call'.left /\ call'.left <= call'.chunks BY <1>2, <1>4, <2>1
  <2>3. call'.addr = call'.first + (call'.chunks - call'.left) BY <1>2, <2>1
  <2>4. call'.fn = "read" => Len(delivered') = call'.chunks - call'.left BY <1>2, <1>3, <2>1
  <2> QED BY <1>2, <1>4, <2>1, <2>2, <2>3, <2>4 DEF Shape, Reboots, InFlash, Opening
<1>5. CASE call.left = 1 /\ pc' = "returned" /\ ret' = "ok" /\ call' = call
  <2>1. call.fn = "read" => Len(delivered') = call.chunks BY <1>2, <1>3, <1>5
  <2> QED BY <1>2, <1>5, <2>1 DEF Shape, Reboots, InFlash, Opening
<1> QED BY <1>4, <1>5 DEF NextChunk, Goto, Returns, NextCall

\* mbox_cmd's caller keeps to the shape.
LEMMA ReturnShape ==
    ASSUME TypeOK, Shape, NEW ok, NEW got \in Got, MboxReturns(ok, got)
    PROVE  Shape'
<1>1. CASE Restarts("boot") BY <1>1, ShapeRestarts
<1>2. CASE OpenSequence(ok, got)
  <2>1. CASE pc = "cmd" /\ NextChunk(got) BY <2>1, NextChunkShape
  <2>2. CASE pc \in InFlash /\ TryAgain
    <3>1. CASE Goto("drain") /\ open' = FALSE /\ UNCHANGED <<call, ret, delivered>>
      BY <2>2, <3>1 DEF Goto, Shape, InFlash, Opening, Reboots
    <3>2. CASE Returns("err") /\ UNCHANGED <<call, open, delivered>>
      BY <2>2, <3>2 DEF Returns, Shape, InFlash, Opening, Reboots
    <3> QED BY <2>2, <3>1, <3>2 DEF TryAgain
  <2>3. CASE /\ pc \in Opening /\ UNCHANGED <<call, ret, delivered>>
             /\ \/ pc' \in Opening /\ open' = open
                \/ pc' = "cmd"
    BY <2>3 DEF Shape, InFlash, Opening, Reboots
  <2> QED BY <1>2, <2>1, <2>2, <2>3 DEF OpenSequence, Goto, InFlash, Opening
<1>3. CASE RsuSequence(ok, got)
  BY <1>3 DEF RsuSequence, Goto, Returns, Shape, InFlash, Opening, Reboots, RsuOps
<1>4. CASE RebootSequence(ok)
  BY <1>4 DEF RebootSequence, Goto, Shape, InFlash, Opening, Reboots
<1> QED BY <1>1, <1>2, <1>3, <1>4 DEF MboxReturns

LEMMA CallShape ==
    ASSUME NEW fn, NEW a \in Nat, NEW n \in Nat \ {0}, NEW where, Call(fn, a, n, where),
           \/ fn \in FlashOps /\ (where = "cmd" \/ (where = "drain" /\ ~open))
           \/ fn \in RsuOps /\ where \in {"rsu_close", "rsu"}
    PROVE  Shape'
<1>1. /\ pc' = where /\ open' = open /\ ret' = "ok" /\ delivered' = <<>> /\ Len(delivered') = 0
      /\ call'.fn = fn /\ call'.addr = a /\ call'.first = a /\ call'.chunks = n /\ call'.left = n
  BY DEF Call, Goto
<1>2. /\ 1 <= call'.left /\ call'.left <= call'.chunks
      /\ call'.addr = call'.first + (call'.chunks - call'.left)
      /\ Len(delivered') = call'.chunks - call'.left
  BY <1>1
<1> QED BY <1>1, <1>2 DEF Shape, InFlash, Opening, Reboots

LEMMA NextShape ==
    ASSUME SdmAssumption, TypeOK, Shape, [Next]_vars
    PROVE  Shape'
<1>d. resp \in Got /\ Stale \in Got BY ValueTypes DEF TypeOK
<1>t. ASSUME TimesOut PROVE Shape' BY <1>d, <1>t, ReturnShape DEF TimesOut
<1>1. CASE Sdm
  <2>1. CASE UNCHANGED driver BY <2>1, ShapeStays DEF driver
  <2>2. CASE Restarts("boot") BY <2>2, ShapeRestarts
  <2> QED BY <1>1, <2>1, <2>2 DEF Sdm, SdmExecutes, SdmFails, SdmDelivers, reconfigures
<1>2. CASE mbox_send
  <2>1. CASE MboxReturns(FALSE, Stale) BY <1>d, <2>1, ReturnShape
  <2>2. CASE UNCHANGED <<pc, call, ret, delivered, open>> BY <2>2, ShapeStays
  <2> QED BY <1>2, <2>1, <2>2 DEF mbox_send
<1>3. CASE mbox_wait
  <2>1. CASE TimesOut BY <1>t, <2>1
  <2>2. CASE UNCHANGED <<pc, call, ret, delivered, open>> BY <2>2, ShapeStays
  <2>3. CASE MboxReturns(~Head(rsp).err, resp) BY <1>d, <2>3, ReturnShape
  <2> QED BY <1>3, <2>1, <2>2, <2>3 DEF mbox_wait
<1>4. CASE mbox_word
  <2>1. CASE TimesOut BY <1>t, <2>1
  <2> DEFINE got == IF Command.op \in HasData THEN Head(rsp).of ELSE Stale
  <2>2. CASE rsp # <<>> /\ MboxReturns(~hdr.err, got)
    <3>1. Head(rsp) \in Words
      <4>1. rsp \in Seq(Words) BY DEF TypeOK
      <4> QED BY <2>2, <4>1, HeadTailProperties
    <3>2. got \in Got BY <1>d, <3>1 DEF Words
    <3> HIDE DEF got
    <3> QED BY <2>2, <3>2, ReturnShape
  <2> QED BY <1>4, <2>1, <2>2 DEF mbox_word
<1>5. CASE drain
  BY <1>5 DEF drain, Goto, Shape, InFlash, Opening, Reboots
<1>6. CASE return
  BY <1>6 DEF return, NoCall, Shape, InFlash, Opening, Reboots
<1>7. CASE boots
  <2>1. ASSUME NEW a \in Addrs, pc = "boot", Call("read", a, 1, "drain") PROVE Shape'
    <3>1. a \in Nat /\ ~open BY <2>1 DEF SdmAssumption, Shape
    <3> QED BY <2>1, <3>1, CallShape DEF FlashOps
  <2>2. CASE pc = "stopped" /\ pc' = "idle" /\ UNCHANGED <<call, open, ret, delivered>>
    BY <2>2 DEF Shape, InFlash, Opening, Reboots
  <2> QED BY <1>7, <2>1, <2>2 DEF boots
<1>8. CASE flash_call
  <2>1. PICK fn \in FlashOps \cap Calls, a \in Addrs, n \in 1..MaxChunks :
           Call(fn, a, n, IF open THEN "cmd" ELSE "drain")
    BY <1>8 DEF flash_call
  <2>2. a \in Nat /\ n \in Nat \ {0} BY DEF SdmAssumption
  <2>3. CASE open BY <2>1, <2>2, <2>3, CallShape
  <2>4. CASE ~open BY <2>1, <2>2, <2>4, CallShape
  <2> QED BY <2>3, <2>4
<1>9. CASE rsu_cmd
  <2>1. PICK fn \in RsuOps \cap Calls : Call(fn, 0, 1, IF open THEN "rsu_close" ELSE "rsu")
    BY <1>9 DEF rsu_cmd
  <2>2. CASE open BY <2>1, <2>2, CallShape
  <2>3. CASE ~open BY <2>1, <2>3, CallShape
  <2> QED BY <2>2, <2>3
<1>10. CASE sys_arch_reboot
  <2>1. PICK type \in {"warm", "cold"} :
           \/ /\ call' = [NoCall EXCEPT !.fn = type]
              /\ Goto(IF open THEN "reboot_close" ELSE "reboot_status")
           \/ Restarts("boot")
    BY <1>10 DEF sys_arch_reboot
  <2>2. CASE Restarts("boot") BY <2>2, ShapeRestarts
  <2>3. CASE /\ call' = [NoCall EXCEPT !.fn = type]
             /\ Goto(IF open THEN "reboot_close" ELSE "reboot_status")
    <3>1. call'.fn = type BY <2>3 DEF NoCall
    <3>2. pc' \in {"reboot_close", "reboot_status"} BY <2>3 DEF Goto
    <3> QED BY <3>1, <3>2 DEF Shape, InFlash, Opening, Reboots
  <2> QED BY <2>1, <2>2, <2>3
<1>11. CASE cpu_reset BY <1>11, ShapeRestarts DEF cpu_reset
<1>12. CASE UNCHANGED vars BY <1>12, ShapeStays DEF vars, driver
<1> QED
  BY <1>1, <1>2, <1>3, <1>4, <1>5, <1>6, <1>7, <1>8, <1>9, <1>10, <1>11, <1>12
     DEF Next, Driver

--------------------------------------------------------------------------------
\* No stray answers: what the caller of mbox_cmd may make of its result.

\* What a result tells, with the FIFOs empty again.
Ends(ok, got) ==
    /\ pc \in InFlash \ {"close"} /\ ~ok => hits' > attempt
    /\ pc = "close" => ~sdm_open \/ hits' > attempt
    /\ pc = "open" /\ ok => sdm_open
    /\ pc = "cmd" /\ ok => IF call.fn = "read" THEN got = Command ELSE Command \in executed
    /\ pc = "reboot_status" /\ ok => got.op = "RSU_STATUS"

\* Between two commands of the driver nothing is under way.
LEMMA BetweenCommands ==
    ASSUME NEW ok, NEW got, MboxReturns(ok, got)
    PROVE  ~Waiting' /\ ~Reading'
BY DEF MboxReturns, Restarts, OpenSequence, TryAgain, NextChunk, RsuSequence, RebootSequence,
       Goto, Returns, Waiting, Reading, InMbox

LEMMA HitFacts ==
    ASSUME TypeOK, Shape, pc \in InFlash
    PROVE  /\ Hit <=> hits > attempt
           /\ hits \in Nat /\ attempt \in Nat
<1>1. call.fn \in FlashOps BY FlashShape
<1>2. hits \in Nat /\ attempt \in Nat BY SdmAssumption DEF TypeOK, SdmAssumption
<1> QED BY <1>1, <1>2 DEF Hit

\* From one command of sdm_qspi_open to the next.
LEMMA OpensClean ==
    ASSUME SdmAssumption, TypeOK, Shape, Clean, NEW ok, NEW got \in Got, Ends(ok, got),
           hits' \in Nat, hits' >= hits, sdm_open' = sdm_open, executed' = executed,
           pc \in Opening, UNCHANGED <<call, attempt, ret, delivered>>, step' = "send",
           \/ pc = "close" /\ pc' = "open" /\ open' = open
           \/ pc = "open" /\ ok /\ pc' = "set_cs" /\ open' = open
           \/ pc = "set_cs" /\ ok /\ pc' = "read_id" /\ open' = open
           \/ pc = "read_id" /\ ok /\ pc' = "cmd" /\ open' = TRUE
           \/ pc \in {"set_cs", "read_id"} /\ ~ok /\ pc' = "reclose" /\ open' = open
    PROVE  Known' /\ Counted' /\ Served'
<1>1. pc \in InFlash /\ pc' \in InFlash /\ ~open /\ pc' # "returned"
  BY DEF InFlash, Opening, Shape
<1>2. (Hit <=> hits > attempt) /\ hits \in Nat /\ attempt \in Nat /\ call.fn \in FlashOps
  BY <1>1, HitFacts, FlashShape
<1>3. Hit' <=> hits' > attempt BY <1>2 DEF Hit
<1>4. Known'
  BY <1>1, <1>3 DEF Known, Clean, Ends
<1>5. Counted'
  <2>1. hits >= attempt BY <1>1 DEF Clean, Counted
  <2>2. hits' >= attempt BY <1>2, <2>1
  <2>3. pc' = "reclose" => Hit' BY <1>1, <1>3 DEF Ends
  <2> QED BY <1>1, <2>2, <2>3 DEF Counted
<1>6. Served' BY <1>1 DEF Clean, Served, Carried, Asked
<1> QED BY <1>4, <1>5, <1>6

\* A failed attempt, or the last one.
LEMMA TryAgainClean ==
    ASSUME SdmAssumption, TypeOK, Shape, Clean, NEW ok, NEW got \in Got, Ends(ok, got),
           hits' \in Nat, hits' >= hits, sdm_open' = sdm_open, executed' = executed,
           pc = "reclose" \/ (pc \in {"open", "cmd"} /\ ~ok), TryAgain
    PROVE  Known' /\ Counted' /\ Served'
<1>1. pc \in InFlash BY DEF InFlash, Opening
<1>2. (Hit <=> hits > attempt) /\ hits \in Nat /\ attempt \in Nat /\ call.fn \in FlashOps
  BY <1>1, HitFacts, FlashShape
<1>3. hits' > attempt
  <2>1. pc = "reclose" => hits > attempt BY <1>2 DEF Clean, Counted
  <2>2. pc \in {"open", "cmd"} /\ ~ok => hits' > attempt BY DEF Ends, InFlash, Opening
  <2> QED BY <1>2, <2>1, <2>2
<1>4. QSPI_ATTEMPTS \in Nat BY DEF SdmAssumption
<1>5. CASE attempt + 1 < QSPI_ATTEMPTS /\ attempt' = attempt + 1 /\ open' = FALSE
           /\ Goto("drain") /\ UNCHANGED <<call, ret, delivered>>
  <2>1. Known' BY <1>5 DEF Known, Goto
  <2>2. hits' >= attempt' BY <1>2, <1>3, <1>5
  <2>3. Counted' BY <1>5, <2>2 DEF Counted, Goto
  <2>4. pc' \in InFlash /\ pc' # "returned" BY <1>5 DEF Goto, InFlash, Opening
  <2>5. Served' BY <1>1, <1>5, <2>4 DEF Clean, Served, Carried, Asked
  <2> QED BY <2>1, <2>3, <2>5
<1>6. CASE attempt + 1 >= QSPI_ATTEMPTS /\ Returns("err")
           /\ UNCHANGED <<call, attempt, open, delivered>>
  <2>1. pc' = "returned" /\ ret' = "err" /\ pc' \notin InFlash
    BY <1>6 DEF Returns, InFlash, Opening
  <2>2. Known' BY <1>1, <1>6, <2>1 DEF Known, Clean, InFlash, Opening
  <2>3. hits' >= QSPI_ATTEMPTS BY <1>2, <1>3, <1>4, <1>6
  <2>4. Counted' BY <2>1, <2>3 DEF Counted
  <2>5. Served' BY <1>1, <1>6, <2>1 DEF Clean, Served
  <2> QED BY <2>2, <2>4, <2>5
<1> QED BY <1>5, <1>6 DEF TryAgain

\* Another chunk done: the words of a read are its own, a write or erase was carried out.
LEMMA NextChunkClean ==
    ASSUME SdmAssumption, TypeOK, Shape, Clean, NEW ok, NEW got \in Got, Ends(ok, got),
           hits' \in Nat, sdm_open' = sdm_open, executed' = executed,
           pc = "cmd", ok, NextChunk(got)
    PROVE  Known' /\ Counted' /\ Served'
<1>1. pc \in InFlash BY DEF InFlash, Opening
<1>2. /\ call \in CallType /\ call.fn \in FlashOps
      /\ call.left \in Nat /\ call.chunks \in Nat /\ call.first \in Nat /\ call.addr \in Nat
      /\ 1 <= call.left /\ call.left <= call.chunks
      /\ call.addr = call.first + (call.chunks - call.left)
      /\ delivered \in Seq(Got) /\ Len(delivered) \in Nat
      /\ call.fn = "read" => Len(delivered) = call.chunks - call.left
  BY <1>1, FlashShape
<1>3. sdm_open /\ open' = open BY DEF Clean, Known, NextChunk
<1>4. call.fn = "read" =>
         \A i \in DOMAIN delivered' :
            delivered'[i] = [op |-> "QSPI_READ", arg |-> call.first + i - 1]
  <2> SUFFICES ASSUME call.fn = "read", NEW i \in DOMAIN delivered'
               PROVE  delivered'[i] = [op |-> "QSPI_READ", arg |-> call.first + i - 1]
    OBVIOUS
  <2>1. got = [op |-> "QSPI_READ", arg |-> call.addr] BY CommandFacts DEF Ends
  <2>2. delivered' = Append(delivered, got) BY DEF NextChunk
  <2>3. /\ Len(delivered') = Len(delivered) + 1
        /\ delivered'[Len(delivered) + 1] = got
        /\ \A j \in 1..Len(delivered) : delivered'[j] = delivered[j]
        /\ delivered' \in Seq(Got)
    BY <1>2, <2>2, AppendProperties
  <2>4. i \in 1..(Len(delivered) + 1) BY <2>3
  <2>5. \A j \in DOMAIN delivered :
           delivered[j] = [op |-> "QSPI_READ", arg |-> call.first + j - 1]
    BY <1>1 DEF Clean, Served
  <2>6. CASE i = Len(delivered) + 1
    <3>1. call.addr = call.first + i - 1 BY <1>2, <2>6
    <3> QED BY <2>1, <2>3, <2>6, <3>1
  <2>7. CASE i # Len(delivered) + 1
    <3>1. i \in 1..Len(delivered) BY <1>2, <2>4, <2>7
    <3>2. i \in DOMAIN delivered BY <1>2, <3>1
    <3> QED BY <2>3, <2>5, <3>1, <3>2
  <2> QED BY <2>6, <2>7
<1>5. /\ call.fn = "write" =>
            \A a \in call.first..call.addr : [op |-> "QSPI_WRITE", arg |-> a] \in executed
      /\ call.fn = "erase" =>
            \A a \in call.first..call.addr : [op |-> "QSPI_ERASE", arg |-> a] \in executed
  <2>1. Carried(call.first..(call.addr - 1)) BY <1>1 DEF Clean, Served
  <2>2. \A a \in call.first..call.addr : a \in call.first..(call.addr - 1) \/ a = call.addr
    BY <1>2
  <2>3. call.fn # "read" => Command \in executed BY DEF Ends
  <2>4. /\ call.fn = "write" => [op |-> "QSPI_WRITE", arg |-> call.addr] \in executed
        /\ call.fn = "erase" => [op |-> "QSPI_ERASE", arg |-> call.addr] \in executed
    BY <2>3, CommandFacts
  <2> QED BY <2>1, <2>2, <2>4 DEF Carried
<1>6. CASE call.left > 1 /\ call' = NextCall /\ attempt' = 0 /\ pc' = "cmd" /\ ret' = ret
  <2>1. /\ call'.fn = call.fn /\ call'.addr = call.addr + 1 /\ call'.first = call.first
    BY <1>2, <1>6, NextCallFacts
  <2>2. call'.first..(call'.addr - 1) = call.first..call.addr BY <1>2, <2>1
  <2>3. Known' BY <1>3, <1>6 DEF Known
  <2>4. hits' >= attempt' BY <1>6
  <2>5. Counted' BY <1>6, <2>4 DEF Counted
  <2>6. Served'
    BY <1>4, <1>5, <1>6, <2>1, <2>2 DEF Served, Carried
  <2> QED BY <2>3, <2>5, <2>6
<1>7. CASE call.left = 1 /\ pc' = "returned" /\ ret' = "ok" /\ call' = call
  <2>1. Asked = call.first..call.addr
    <3>1. call.first + call.chunks - 1 = call.addr BY <1>2, <1>7
    <3> QED BY <3>1 DEF Asked
  <2>2. Known' BY <1>3, <1>7 DEF Known
  <2>3. pc' \notin InFlash BY <1>7 DEF InFlash, Opening
  <2>4. Counted' BY <1>7, <2>3 DEF Counted
  <2>5. Served'
    <3>1. Asked' = Asked BY <1>7 DEF Asked
    <3> QED BY <1>4, <1>5, <1>7, <2>1, <2>3, <3>1 DEF Served, Carried
  <2> QED BY <2>2, <2>4, <2>5
<1> QED BY <1>6, <1>7 DEF NextChunk, Goto, Returns, NextCall

\* The commands outside a flash call.
LEMMA OtherClean ==
    ASSUME SdmAssumption, TypeOK, Shape, Clean, NEW ok, NEW got \in Got,
           sdm_open' = sdm_open,
           RsuSequence(ok, got) \/ RebootSequence(ok)
    PROVE  Known' /\ Counted' /\ Served'
<1>1. call.fn \notin FlashOps /\ call' = call
  BY DEF RsuSequence, RebootSequence, Shape, Reboots, RsuOps, FlashOps
<1>2. pc' \notin InFlash \cup {"rsu_close", "reboot_close"}
  BY DEF RsuSequence, RebootSequence, Goto, Returns, InFlash, Opening
<1>3. Known'
  BY <1>2 DEF RsuSequence, RebootSequence, Goto, Returns, Known, Clean, InFlash, Opening
<1>4. Counted' BY <1>1, <1>2 DEF Counted, InFlash, Opening
<1>5. Served' BY <1>1, <1>2 DEF Served, Carried, FlashOps
<1> QED BY <1>3, <1>4, <1>5

LEMMA ReturnClean ==
    ASSUME SdmAssumption, TypeOK, Shape, Clean, NEW ok, NEW got \in Got, Ends(ok, got),
           hits' \in Nat, hits' >= hits, sdm_open' = sdm_open, executed' = executed, Empty',
           MboxReturns(ok, got)
    PROVE  Clean'
<1>1. Piped' BY BetweenCommands DEF Piped
<1>2. pc' = "reboot_update" => resp'.op = "RSU_STATUS"
  <2>1. pc' = "reboot_update" => pc = "reboot_status" /\ ok /\ resp' = got
    BY DEF MboxReturns, Restarts, OpenSequence, TryAgain, NextChunk, RsuSequence,
           RebootSequence, Goto, Returns
  <2> QED BY <2>1 DEF Ends
<1>3. CASE Restarts("boot")
  BY <1>1, <1>2, <1>3 DEF Restarts, Clean, Known, Counted, Served, NoCall, InFlash, Opening
<1>4. CASE OpenSequence(ok, got)
  <2>1. CASE TryAgain /\ (pc = "reclose" \/ (pc \in {"open", "cmd"} /\ ~ok))
    <3>1. Known' /\ Counted' /\ Served' BY <2>1, TryAgainClean
    <3> QED BY <1>1, <1>2, <3>1 DEF Clean
  <2>2. CASE pc = "cmd" /\ ok /\ NextChunk(got)
    <3>1. Known' /\ Counted' /\ Served' BY <2>2, NextChunkClean
    <3> QED BY <1>1, <1>2, <3>1 DEF Clean
  <2>3. CASE /\ pc \in Opening /\ UNCHANGED <<call, attempt, ret, delivered>> /\ step' = "send"
             /\ \/ pc = "close" /\ pc' = "open" /\ open' = open
                \/ pc = "open" /\ ok /\ pc' = "set_cs" /\ open' = open
                \/ pc = "set_cs" /\ ok /\ pc' = "read_id" /\ open' = open
                \/ pc = "read_id" /\ ok /\ pc' = "cmd" /\ open' = TRUE
                \/ pc \in {"set_cs", "read_id"} /\ ~ok /\ pc' = "reclose" /\ open' = open
    <3>1. Known' /\ Counted' /\ Served' BY <2>3, OpensClean
    <3> QED BY <1>1, <1>2, <3>1 DEF Clean
  <2> QED BY <1>4, <2>1, <2>2, <2>3 DEF OpenSequence, Goto, Opening
<1>5. CASE RsuSequence(ok, got) \/ RebootSequence(ok)
  <2>1. Known' /\ Counted' /\ Served' BY <1>5, OtherClean
  <2> QED BY <1>1, <1>2, <2>1 DEF Clean
<1> QED BY <1>3, <1>4, <1>5 DEF MboxReturns

--------------------------------------------------------------------------------
\* No stray answers: the SDM's steps.

LEMMA GhostFacts ==
    /\ NoFault => hits' = hits /\ strays' = strays
    /\ \A kind : Fault(kind) /\ ~strays' =>
          ~strays /\ hits' = hits + 1 /\ kind \notin {"late", "cpu_reset", "busy_reboot"}
    /\ strays \in BOOLEAN => (Reopens /\ ~strays' =>
          hits' = hits /\ (~strays \/ (cmdq = <<>> /\ ~(attempt > 0) /\ ~(call.left < call.chunks))))
<1>1. NoFault => hits' = hits /\ strays' = strays BY DEF NoFault, ghosts
<1>2. \A kind : Fault(kind) /\ ~strays' =>
          ~strays /\ hits' = hits + 1 /\ kind \notin {"late", "cpu_reset", "busy_reboot"}
  BY Zenon DEF Fault
<1>3. strays \in BOOLEAN => (Reopens /\ ~strays' =>
          hits' = hits /\ (~strays \/ (cmdq = <<>> /\ ~(attempt > 0) /\ ~(call.left < call.chunks))))
  BY Zenon DEF Reopens
<1> QED BY <1>1, <1>2, <1>3

\* A fault is one more than the attempts that failed before.
LEMMA FaultHits ==
    ASSUME SdmAssumption, TypeOK, Shape, Clean, InMbox, hits' = hits + 1
    PROVE  hits' \in Nat /\ (call.fn \in FlashOps => hits' > attempt)
<1>1. hits \in Nat /\ attempt \in Nat BY DEF TypeOK, SdmAssumption
<1>2. call.fn \in FlashOps => pc \in InFlash
  BY DEF TypeOK, Steps, Shape, InMbox, InFlash, Opening, Reboots, FlashOps, RsuOps
<1>3. call.fn \in FlashOps => hits >= attempt BY <1>2 DEF Clean, Counted
<1> QED BY <1>1, <1>3

LEMMA SameCommand ==
    ASSUME UNCHANGED driver
    PROVE  Command' = Command /\ (Waiting' <=> Waiting) /\ (Reading' <=> Reading)
<1>1. Command' = Command BY CommandStays DEF driver
<1> QED BY <1>1 DEF driver, Waiting, Reading, InMbox

\* What does not depend on the FIFOs, while mbox_cmd runs.
LEMMA RestStays ==
    ASSUME TypeOK, Shape, Clean, UNCHANGED driver, hits \in Nat, hits' \in Nat, attempt \in Nat,
           hits' >= hits, executed \subseteq executed',
           Waiting \/ Reading \/ (hits' = hits /\ sdm_open' = sdm_open),
           /\ open /\ pc \notin {"rsu_close", "reboot_close"} => sdm_open'
           /\ pc \in {"set_cs", "read_id", "cmd"} => sdm_open'
    PROVE  /\ Known' /\ Counted' /\ Served'
           /\ pc' = "reboot_update" /\ step' = "send" => resp'.op = "RSU_STATUS"
<1>1. UNCHANGED <<pc, step, call, attempt, open, resp, ret, delivered>> BY DEF driver
<1>2. Hit => Hit' BY <1>1 DEF Hit
<1>3. pc = "open" /\ step = "send" => ~Waiting /\ ~Reading BY DEF Waiting, Reading
<1>4. Known' BY <1>1, <1>2, <1>3 DEF Clean, Known
<1>5. Counted'
  <2>1. pc = "returned" => ~Waiting /\ ~Reading BY DEF Waiting, Reading, InMbox
  <2>2. pc \in InFlash => hits' >= attempt BY DEF Clean, Counted
  <2> QED BY <1>1, <1>2, <2>1, <2>2 DEF Clean, Counted
<1>6. Served' BY <1>1 DEF Clean, Served, Carried, Asked
<1> QED BY <1>1, <1>4, <1>5, <1>6 DEF Clean

\* The SDM takes a command: the one the driver waits for.
LEMMA TakesOwn ==
    ASSUME Clean, cmdq # <<>>
    PROVE  /\ Waiting /\ out = <<>> /\ rsp = <<>> /\ resp = Stale
           /\ pc = "open" => ~sdm_open \/ Hit
           /\ \E c \in Commands : Sent(c) /\ Head(cmdq) = c /\ Tail(cmdq) = <<>>
<1>1. Waiting /\ Queued /\ resp = Stale
  BY DEF Clean, Piped, Empty, Lost, Refused, Accepted, Answered
<1>2. PICK c \in Commands : Sent(c) /\ cmdq = <<c>> BY <1>1 DEF Queued
<1>3. Head(cmdq) = c /\ Tail(cmdq) = <<>> BY <1>2, Short
<1> QED BY <1>1, <1>2, <1>3 DEF Queued

LEMMA ExecutesClean ==
    ASSUME SdmAssumption, TypeOK, Shape, Clean, SdmExecutes
    PROVE  Clean'
<1>1. /\ cmdq # <<>> /\ UNCHANGED driver /\ hits' = hits /\ rsp' = rsp
      /\ cmdq' = Tail(cmdq)
  BY GhostFacts DEF SdmExecutes
<1>2. Waiting /\ rsp = <<>> /\ resp = Stale /\ (pc = "open" => ~sdm_open \/ Hit)
  BY <1>1, TakesOwn
<1>3. PICK c \in Commands : Sent(c) /\ Head(cmdq) = c /\ Tail(cmdq) = <<>> BY <1>1, TakesOwn
<1>4. /\ c.op = "RSU_IMAGE_UPDATE" => Refuses(c)
      /\ out' = Answer(c, Refuses(c))
      /\ executed' = executed \cup (IF Refuses(c) THEN {} ELSE {c} \cap Changes)
  BY <1>3 DEF SdmExecutes
<1>5. /\ c.op = "QSPI_OPEN" => sdm_open'
      /\ c.op = "QSPI_CLOSE" => ~sdm_open'
      /\ c.op \notin {"QSPI_OPEN", "QSPI_CLOSE"} => sdm_open' = sdm_open
  BY Zenon, <1>3 DEF SdmExecutes
<1>6. Command' = Command /\ Waiting' /\ ~Reading'
  BY <1>1, <1>2, SameCommand DEF Waiting, Reading
<1>7. hits \in Nat /\ attempt \in Nat /\ sdm_open \in BOOLEAN BY DEF TypeOK, SdmAssumption
<1>8. /\ Refuses(c) \in BOOLEAN
      /\ c.op = "QSPI_OPEN" => (Refuses(c) <=> sdm_open)
      /\ c.op = "RSU_STATUS" => ~Refuses(c)
      /\ c.op \in {"QSPI_CLOSE", "QSPI_SET_CS", "QSPI_READ_DEVICE_REG", "QSPI_READ",
                   "QSPI_WRITE", "QSPI_ERASE"} => (Refuses(c) <=> ~sdm_open)
  BY <1>7, SdmFacts
<1>9. /\ pc \in {"close", "open", "set_cs", "read_id", "reclose", "cmd", "rsu_close", "rsu",
                 "reboot_close", "reboot_status", "reboot_update"}
      /\ pc \in {"close", "reclose", "rsu_close", "reboot_close"} <=> c.op = "QSPI_CLOSE"
      /\ pc = "open" <=> c.op = "QSPI_OPEN"
      /\ pc \in {"set_cs", "read_id", "cmd"} =>
            c.op \in {"QSPI_SET_CS", "QSPI_READ_DEVICE_REG", "QSPI_READ", "QSPI_WRITE",
                      "QSPI_ERASE"}
      /\ pc = "reboot_update" => c.op = "RSU_IMAGE_UPDATE"
  <2>1. pc \in {"close", "open", "set_cs", "read_id", "reclose", "cmd", "rsu_close", "rsu",
                "reboot_close", "reboot_status", "reboot_update"}
    BY <1>2 DEF Waiting, InMbox, TypeOK, Steps
  <2>2. pc = "cmd" => call.fn \in {"read", "write", "erase"}
    BY DEF Shape, InFlash, Opening, FlashOps
  <2>3. c.op = Command.op BY <1>3 DEF Sent
  <2> QED BY <2>1, <2>2, <2>3, CommandFacts
<1>10. ~open \/ pc \notin {"close", "open", "reclose"} BY DEF Shape, Opening
<1>11. /\ open /\ pc \notin {"rsu_close", "reboot_close"} => sdm_open'
       /\ pc \in {"set_cs", "read_id", "cmd"} => sdm_open'
  BY <1>5, <1>9, <1>10 DEF Clean, Known
<1>12. /\ Known' /\ Counted' /\ Served'
       /\ pc' = "reboot_update" /\ step' = "send" => resp'.op = "RSU_STATUS"
  <2>1. hits' \in Nat /\ hits' >= hits /\ executed \subseteq executed' BY <1>1, <1>4, <1>7
  <2> QED BY <1>1, <1>2, <1>7, <1>11, <2>1, RestStays
<1>13. Hit' <=> Hit BY <1>1 DEF Hit, driver
<1>14. CASE Refuses(c)
  <2>1. out' = <<Header(TRUE, 0)>>
    <3>1. Refuses(c) = TRUE BY <1>8, <1>14
    <3> QED BY Zenon, <1>4, <3>1, AnswerFacts
  <2>2. pc = "close" => ~sdm_open' BY <1>5, <1>9
  <2>3. pc # "close" => Hit
    <3>1. CASE pc = "open" BY <1>2, <1>8, <1>9, <1>14, <3>1
    <3>2. CASE pc \in {"set_cs", "read_id", "cmd"}
      BY <1>8, <1>9, <1>14, <3>2 DEF Clean, Known
    <3>3. CASE pc = "reclose" BY <3>3 DEF Clean, Counted
    <3>4. CASE pc \in {"rsu_close", "rsu", "reboot_close", "reboot_status", "reboot_update"}
      BY <3>4 DEF Shape, Hit, Reboots, FlashOps, RsuOps
    <3> QED BY <1>9, <3>1, <3>2, <3>3, <3>4
  <2>4. Failed' BY <1>1, <1>13, <2>2, <2>3 DEF Failed, driver
  <2>5. Refused' BY <1>1, <1>2, <1>3, <2>1, <2>4 DEF Refused, OneWord
  <2>6. Piped' BY <1>1, <1>2, <1>6, <2>5 DEF Piped, driver
  <2> QED BY <1>12, <2>6 DEF Clean
<1>15. CASE ~Refuses(c)
  <2>1. Refuses(c) = FALSE BY <1>8, <1>15
  <2>2. c = Command BY <1>3, <1>4, <1>9, <1>15 DEF Sent
  <2>3. CASE c.op \in HasData
    <3>1. out' = <<Header(FALSE, 1), Data(Command)>> BY Zenon, <1>4, <2>1, <2>2, <2>3, AnswerFacts
    <3>2. Answered' BY <1>1, <1>2, <1>3, <1>6, <2>2, <2>3, <3>1 DEF Answered, TwoWords
    <3>3. Piped' BY <1>1, <1>2, <1>6, <3>2 DEF Piped, driver
    <3> QED BY <1>12, <3>3 DEF Clean
  <2>4. CASE c.op \notin HasData
    <3>1. out' = <<Header(FALSE, 0)>> BY Zenon, <1>4, <2>1, <2>4, AnswerFacts
    <3>2. pc = "close" => ~sdm_open' BY <1>5, <1>9
    <3>3. pc = "open" => sdm_open' BY <1>5, <1>9
    <3>4. pc = "cmd" => Command \in executed'
      <4> SUFFICES ASSUME pc = "cmd" PROVE Command \in executed' OBVIOUS
      <4>1. call.fn \in {"read", "write", "erase"} BY DEF Shape, InFlash, Opening, FlashOps
      <4>2. c.op \in {"QSPI_WRITE", "QSPI_ERASE"}
        BY <2>2, <2>4, <4>1, CommandFacts DEF HasData
      <4>3. c \in Changes BY <4>2 DEF Changes, Commands
      <4> QED BY <1>4, <1>15, <2>2, <4>3
    <3>5. Accepted'
      BY <1>1, <1>2, <1>3, <1>6, <2>2, <2>4, <3>1, <3>2, <3>3, <3>4
         DEF Accepted, OneWord, driver
    <3>6. Piped' BY <1>1, <1>2, <1>6, <3>5 DEF Piped, driver
    <3> QED BY <1>12, <3>6 DEF Clean
  <2> QED BY <2>3, <2>4
<1> QED BY <1>14, <1>15

\* The SDM drops or refuses it: a fault of this attempt.
LEMMA FailsClean ==
    ASSUME SdmAssumption, TypeOK, Shape, Clean, SdmFails, ~strays'
    PROVE  Clean'
<1>1. /\ cmdq # <<>> /\ cmdq' = Tail(cmdq) /\ out' \in {<<>>, Answer(Head(cmdq), TRUE)}
      /\ UNCHANGED driver /\ UNCHANGED <<rsp, sdm_open, executed>>
  BY DEF SdmFails
<1>2. hits' = hits + 1 BY GhostFacts DEF SdmFails
<1>3. Waiting /\ rsp = <<>> /\ resp = Stale /\ Tail(cmdq) = <<>> BY <1>1, TakesOwn
<1>4. hits' \in Nat /\ (call.fn \in FlashOps => hits' > attempt)
  BY <1>2, <1>3, FaultHits DEF Waiting
<1>5. Hit' BY <1>1, <1>4 DEF Hit, driver
<1>6. Failed' BY <1>5 DEF Failed
<1>7. Waiting' /\ ~Reading' BY <1>1, <1>3, SameCommand DEF Waiting, Reading
<1>8. out' = <<>> \/ out' = <<Header(TRUE, 0)>> BY <1>1, AnswerFacts
<1>9. Lost' \/ Refused' BY <1>1, <1>3, <1>6, <1>8 DEF Lost, Refused, Empty, OneWord
<1>10. Piped' BY <1>1, <1>3, <1>7, <1>9 DEF Piped, driver
<1>11. /\ Known' /\ Counted' /\ Served'
       /\ pc' = "reboot_update" /\ step' = "send" => resp'.op = "RSU_STATUS"
  <2>1. hits \in Nat /\ attempt \in Nat BY DEF TypeOK, SdmAssumption
  <2>2. hits' >= hits BY <1>2, <2>1
  <2>3. /\ open /\ pc \notin {"rsu_close", "reboot_close"} => sdm_open'
        /\ pc \in {"set_cs", "read_id", "cmd"} => sdm_open'
    BY <1>1 DEF Clean, Known
  <2> QED BY <1>1, <1>3, <1>4, <2>1, <2>2, <2>3, RestStays
<1> QED BY <1>10, <1>11 DEF Clean

\* The words of an answer move on in order.
LEMMA WordsMove ==
    ASSUME NEW w, NEW v, rsp' = Append(rsp, Head(out)), out' = Tail(out), out # <<>>
    PROVE  /\ OneWord(w) => out' = <<>> /\ rsp' = <<w>>
           /\ TwoWords(w, v) => \/ out' = <<v>> /\ rsp' = <<w>>
                                \/ out' = <<>> /\ rsp' = <<w, v>>
<1>1. ASSUME OneWord(w) PROVE out' = <<>> /\ rsp' = <<w>>
  <2>1. out = <<w>> /\ rsp = <<>> BY <1>1 DEF OneWord
  <2>2. Head(<<w>>) = w /\ Tail(<<w>>) = <<>> /\ Append(<<>>, w) = <<w>> BY Short
  <2> QED BY <2>1, <2>2
<1>2. ASSUME out = <<w, v>>, rsp = <<>> PROVE out' = <<v>> /\ rsp' = <<w>>
  <2>1. Head(<<w, v>>) = w /\ Tail(<<w, v>>) = <<v>> /\ Append(<<>>, w) = <<w>> BY Short
  <2> QED BY <1>2, <2>1
<1>3. ASSUME out = <<v>>, rsp = <<w>> PROVE out' = <<>> /\ rsp' = <<w, v>>
  <2>1. Head(<<v>>) = v /\ Tail(<<v>>) = <<>> /\ Append(<<w>>, v) = <<w, v>> BY Short
  <2> QED BY <1>3, <2>1
<1> QED BY <1>1, <1>2, <1>3 DEF TwoWords

LEMMA DeliversClean ==
    ASSUME SdmAssumption, TypeOK, Shape, Clean, SdmDelivers
    PROVE  Clean'
<1>1. /\ out # <<>> /\ rsp' = Append(rsp, Head(out)) /\ out' = Tail(out)
      /\ UNCHANGED driver /\ UNCHANGED <<cmdq, sdm_open, executed>> /\ hits' = hits
  BY GhostFacts DEF SdmDelivers
<1>2. Command' = Command /\ (Waiting' <=> Waiting) /\ (Reading' <=> Reading)
  BY <1>1, SameCommand
<1>3. \A w : OneWord(w) => OneWord(w)' BY <1>1, WordsMove DEF OneWord
<1>4. \A w, v : TwoWords(w, v) => TwoWords(w, v)' BY <1>1, WordsMove DEF TwoWords
<1>5. Waiting \/ Reading BY <1>1 DEF Clean, Piped, Empty
<1>6. Failed' <=> Failed BY <1>1 DEF Failed, Hit, driver
<1>7. ~(Waiting /\ Reading) BY DEF Waiting, Reading
<1>8. ASSUME Waiting PROVE Piped'
  <2>1. resp = Stale /\ (Refused \/ Accepted \/ Answered)
    BY <1>1, <1>8 DEF Clean, Piped, Queued, Lost, Empty
  <2>2. CASE Refused
    <3>1. Refused' BY <1>1, <1>3, <1>6, <2>2 DEF Refused, Header
    <3> QED BY <1>1, <1>2, <1>7, <1>8, <2>1, <3>1 DEF Piped, driver
  <2>3. CASE Accepted
    <3>1. Accepted' BY <1>1, <1>2, <1>3, <2>3 DEF Accepted, Header, driver
    <3> QED BY <1>1, <1>2, <1>7, <1>8, <2>1, <3>1 DEF Piped, driver
  <2>4. CASE Answered
    <3>1. Answered' BY <1>1, <1>2, <1>4, <2>4 DEF Answered, Header, Data
    <3> QED BY <1>1, <1>2, <1>7, <1>8, <2>1, <3>1 DEF Piped, driver
  <2> QED BY <2>1, <2>2, <2>3, <2>4
<1>9. ASSUME Reading PROVE Piped'
  <2>1. cmdq = <<>> /\ OneWord(Data(Command)) /\ hdr = Header(FALSE, 1) /\ Command.op \in HasData
    BY <1>9 DEF Clean, Piped
  <2> QED BY <1>1, <1>2, <1>3, <1>7, <1>9, <2>1 DEF Piped, Data, Header, driver
<1>10. /\ Known' /\ Counted' /\ Served'
       /\ pc' = "reboot_update" /\ step' = "send" => resp'.op = "RSU_STATUS"
  <2>1. hits \in Nat /\ attempt \in Nat BY DEF TypeOK, SdmAssumption
  <2>2. /\ open /\ pc \notin {"rsu_close", "reboot_close"} => sdm_open'
        /\ pc \in {"set_cs", "read_id", "cmd"} => sdm_open'
    BY <1>1 DEF Clean, Known
  <2> QED BY <1>1, <1>5, <2>1, <2>2, RestStays
<1> QED BY <1>5, <1>8, <1>9, <1>10 DEF Clean

--------------------------------------------------------------------------------
\* No stray answers: the driver's steps.

LEMMA Numbers ==
    ASSUME SdmAssumption, TypeOK
    PROVE  hits \in Nat /\ attempt \in Nat /\ sdm_open \in BOOLEAN /\ strays \in BOOLEAN
           /\ resp \in Got /\ Stale \in Got
BY ValueTypes DEF TypeOK, SdmAssumption

LEMMA CleanStays ==
    ASSUME SdmAssumption, TypeOK, Shape, Clean, UNCHANGED driver, UNCHANGED sdm, hits' = hits
    PROVE  Clean'
<1>1. Command' = Command /\ (Waiting' <=> Waiting) /\ (Reading' <=> Reading) BY SameCommand
<1>2. /\ pc' = pc /\ step' = step /\ call' = call /\ attempt' = attempt /\ resp' = resp
      /\ hdr' = hdr /\ open' = open /\ cmdq' = cmdq /\ out' = out /\ rsp' = rsp
      /\ sdm_open' = sdm_open /\ executed' = executed
  BY DEF driver, sdm
<1>3. (Failed' <=> Failed) /\ (Hit' <=> Hit) BY <1>2 DEF Failed, Hit
<1>4. Piped'
  BY <1>1, <1>2, <1>3 DEF Clean, Piped, Empty, Queued, Sent, Lost, Refused, Accepted, Answered,
                          OneWord, TwoWords
<1>5. /\ open /\ pc \notin {"rsu_close", "reboot_close"} => sdm_open'
      /\ pc \in {"set_cs", "read_id", "cmd"} => sdm_open'
  BY <1>2 DEF Clean, Known
<1>6. /\ Known' /\ Counted' /\ Served'
      /\ pc' = "reboot_update" /\ step' = "send" => resp'.op = "RSU_STATUS"
  <2>1. hits \in Nat /\ attempt \in Nat BY Numbers
  <2> QED BY <1>2, <1>5, <2>1, RestStays
<1> QED BY <1>4, <1>6 DEF Clean

\* A failure with Failed, or with a fault of its own, is one of the attempt.
LEMMA FailedEnds ==
    ASSUME SdmAssumption, TypeOK, Shape, NEW got, hits' \in Nat,
           \/ Failed /\ hits' = hits
           \/ call.fn \in FlashOps => hits' > attempt
    PROVE  Ends(FALSE, got)
<1>1. pc \in InFlash => call.fn \in FlashOps BY DEF Shape
<1>2. "close" \in InFlash BY DEF InFlash, Opening
<1> QED BY <1>1, <1>2 DEF Ends, Failed, Hit

LEMMA SendClean ==
    ASSUME SdmAssumption, TypeOK, Shape, Clean, mbox_send, ~strays'
    PROVE  Clean'
<1>1. InMbox /\ step = "send" /\ UNCHANGED <<out, rsp, sdm_open, executed>> BY DEF mbox_send
<1>2. Empty BY <1>1 DEF Clean, Piped, Waiting, Reading
<1>3. CASE /\ cmdq' = Append(cmdq, Command) /\ step' = "wait" /\ resp' = Stale /\ NoFault
           /\ UNCHANGED <<pc, call, attempt, open, hdr, ret, delivered>>
  <2>1. Command \in Commands BY CommandType
  <2>2. cmdq' = <<Command>> BY <1>2, <1>3, Short DEF Empty
  <2>3. Command.op = Command'.op /\ (pc # "reboot_update" => Command' = Command)
    <3>1. CASE pc # "reboot_update" BY <1>3, <3>1, CommandStays
    <3>2. CASE pc = "reboot_update"
      <4>1. Command.op = "RSU_IMAGE_UPDATE" BY <3>2, CommandFacts
      <4>2. Command'.op = "RSU_IMAGE_UPDATE"
        <5>1. pc' = "reboot_update" BY <1>3, <3>2
        <5> QED BY Zenon, <5>1 DEF Command
      <4> QED BY <3>2, <4>1, <4>2
    <3> QED BY <3>1, <3>2
  <2>4. hits' = hits BY <1>3, GhostFacts
  <2>5. Hit' <=> Hit BY <1>3, <2>4 DEF Hit
  <2>6. Queued'
    <3>1. pc = "open" => ~sdm_open \/ Hit BY <1>1 DEF Clean, Known
    <3>2. \E c \in Commands : Sent(c)' /\ cmdq' = <<c>>
      <4>1. Sent(Command)' <=> Sent(Command)' OBVIOUS
      <4>2. \A c \in Commands : c = Command => Sent(c)' BY <1>3, <2>3 DEF Sent
      <4> QED BY <2>1, <2>2, <4>2
    <3> QED BY <1>1, <1>2, <1>3, <2>5, <3>1, <3>2 DEF Queued, Empty
  <2>7. Waiting' /\ ~Reading' BY <1>1, <1>3 DEF Waiting, Reading, InMbox
  <2>8. Piped' BY <1>3, <2>6, <2>7 DEF Piped
  <2>9. Known' BY <1>1, <1>3 DEF Clean, Known
  <2>10. Counted' BY <1>3, <2>4, <2>5 DEF Clean, Counted
  <2>11. Served' BY <1>1, <1>3 DEF Clean, Served, Carried, Asked
  <2> QED BY <1>3, <2>8, <2>9, <2>10, <2>11 DEF Clean
<1>4. CASE /\ \/ Len(cmdq) = CMD_FIFO /\ NoFault
              \/ Fault("no_room")
           /\ MboxReturns(FALSE, Stale) /\ cmdq' = cmdq
  <2>1. Len(cmdq) = 0 /\ CMD_FIFO # 0 BY <1>2, Short DEF Empty, SdmAssumption
  <2>2. hits' = hits + 1 BY <1>4, <2>1, GhostFacts
  <2>3. hits' \in Nat /\ (call.fn \in FlashOps => hits' > attempt) BY <1>1, <2>2, FaultHits
  <2>4. Ends(FALSE, Stale) BY <2>3, FailedEnds
  <2>5. Empty' BY <1>1, <1>2, <1>4 DEF Empty
  <2>6. hits' >= hits /\ Stale \in Got BY <2>2, Numbers
  <2> QED BY <1>1, <1>4, <2>3, <2>4, <2>5, <2>6, ReturnClean
<1> QED BY <1>3, <1>4 DEF mbox_send

\* With nothing left to come and nothing read, the command was lost.
LEMMA TimesOutClean ==
    ASSUME SdmAssumption, TypeOK, Shape, Clean, TimesOut, ~strays',
           \/ Waiting /\ ~Starts
           \/ Reading /\ rsp = <<>>
    PROVE  Clean'
<1>1. Quiet /\ out = <<>> /\ hits' = hits
  <2>1. ~Fault("late") BY GhostFacts
  <2>2. Quiet /\ strays' = (strays \/ out # <<>>) /\ hits' = hits BY <2>1 DEF TimesOut
  <2>3. out = <<>> BY Zenon, <2>2
  <2> QED BY <2>2, <2>3
<1>2. cmdq = <<>> BY <1>1 DEF Quiet
<1>3. Waiting /\ ~Starts
  <2>1. ~(Reading /\ rsp = <<>>)
    <3>1. Reading => OneWord(Data(Command)) BY DEF Clean, Piped
    <3>2. <<Data(Command)>> # <<>> BY Short
    <3> QED BY <1>1, <3>1, <3>2 DEF OneWord
  <2> QED BY <2>1
<1>4. Lost /\ resp = Stale
  <2> DEFINE e == Header(TRUE, 0)
             n == Header(FALSE, 0)
             h == Header(FALSE, 1)
             d == Data(Command)
  <2>1. resp = Stale /\ (Queued \/ Lost \/ Refused \/ Accepted \/ Answered)
    BY <1>3 DEF Clean, Piped
  <2>2. ~Queued
    <3>1. \A c : <<c>> # <<>> BY Short
    <3> QED BY <1>2, <3>1 DEF Queued
  <2>3. \A w : (OneWord(w) => rsp = <<w>>) /\ (TwoWords(w, d) => rsp = <<w, d>>)
    <3>1. \A w, v : <<w>> # <<>> /\ <<w, v>> # <<>> BY Short
    <3> QED BY <1>1, <3>1 DEF OneWord, TwoWords
  <2>4. e.k = "hdr" /\ n.k = "hdr" /\ h.k = "hdr" BY DEF Header
  <2> HIDE DEF e, n, h, d
  <2>5. \A w, v : Head(<<w>>) = w /\ Head(<<w, v>>) = w /\ <<w>> # <<>> /\ <<w, v>> # <<>>
    BY Short
  <2>6. ~(rsp = <<e>>) /\ ~(rsp = <<n>>) /\ ~(rsp = <<h, d>>)
    BY <1>3, <2>4, <2>5 DEF Starts
  <2> QED BY <2>1, <2>2, <2>3, <2>6 DEF Refused, Accepted, Answered, e, n, h, d
<1>5. MboxReturns(FALSE, resp) /\ UNCHANGED sdm BY DEF TimesOut
<1>6. hits \in Nat /\ Stale \in Got BY Numbers
<1>7. Ends(FALSE, resp) BY <1>1, <1>4, <1>6, FailedEnds DEF Lost
<1>8. Empty' BY <1>1, <1>4, <1>5 DEF Lost, Empty, sdm
<1>9. sdm_open' = sdm_open /\ executed' = executed /\ hits' >= hits BY <1>1, <1>5, <1>6 DEF sdm
<1> QED BY <1>1, <1>4, <1>5, <1>6, <1>7, <1>8, <1>9, ReturnClean

LEMMA WaitClean ==
    ASSUME SdmAssumption, TypeOK, Shape, Clean, mbox_wait, ~strays'
    PROVE  Clean'
<1>1. InMbox /\ step = "wait" BY DEF mbox_wait
<1>2. Waiting BY <1>1 DEF Waiting
<1>3. CASE ~Starts /\ TimesOut BY <1>2, <1>3, TimesOutClean
<1>4. CASE Starts
  <2> DEFINE e == Header(TRUE, 0)
             n == Header(FALSE, 0)
             h == Header(FALSE, 1)
             d == Data(Command)
  <2>1. /\ rsp # <<>> /\ rsp' = Tail(rsp) /\ NoFault
        /\ UNCHANGED <<cmdq, out, sdm_open, executed>>
        /\ \/ /\ Head(rsp).len > 0
              /\ hdr' = Head(rsp) /\ step' = "word"
              /\ UNCHANGED <<pc, call, attempt, open, resp, ret, delivered>>
           \/ /\ Head(rsp).len = 0
              /\ MboxReturns(~Head(rsp).err, resp)
    BY <1>4 DEF mbox_wait, Starts
  <2>2. hits' = hits /\ hits \in Nat /\ Stale \in Got /\ attempt \in Nat
    BY <2>1, GhostFacts, Numbers
  <2>3. resp = Stale /\ cmdq = <<>>
        /\ (Refused \/ Accepted \/ Answered)
    BY <1>2, <2>1 DEF Clean, Piped, Queued, Lost, Empty, Refused, Accepted, Answered
  <2>w. \A w, v : /\ Head(<<w>>) = w /\ Head(<<w, v>>) = w
                  /\ Tail(<<w>>) = <<>> /\ Tail(<<w, v>>) = <<v>>
    BY Short
  <2>f. /\ e.len = 0 /\ e.err = TRUE /\ n.len = 0 /\ n.err = FALSE /\ h.len = 1
    BY DEF Header
  <2>4. CASE Refused
    <3>1. rsp = <<e>> /\ out = <<>> /\ Failed BY <2>1, <2>4 DEF Refused, OneWord
    <3>2. Head(rsp) = e /\ rsp' = <<>> BY <2>1, <2>w, <3>1
    <3>3. MboxReturns(FALSE, Stale)
      <4>1. Head(rsp).len = 0 /\ (~Head(rsp).err) = FALSE BY <2>f, <3>2
      <4>2. ~(Head(rsp).len > 0) BY <4>1
      <4>3. MboxReturns(~Head(rsp).err, Stale) BY <2>1, <2>3, <4>2
      <4> QED BY Zenon, <4>1, <4>3
    <3>4. Ends(FALSE, Stale) BY <2>2, <3>1, FailedEnds
    <3>5. Empty' BY <2>1, <2>3, <3>1, <3>2 DEF Empty
    <3>6. hits' \in Nat /\ hits' >= hits BY <2>2
    <3> QED BY <2>1, <2>2, <3>3, <3>4, <3>5, <3>6, ReturnClean
  <2>5. CASE Accepted
    <3>1. rsp = <<n>> /\ out = <<>> /\ Command.op \notin HasData
      BY <2>1, <2>5 DEF Accepted, OneWord
    <3>2. Head(rsp) = n /\ rsp' = <<>> BY <2>1, <2>w, <3>1
    <3>3. MboxReturns(TRUE, Stale)
      <4>1. Head(rsp).len = 0 /\ (~Head(rsp).err) = TRUE BY <2>f, <3>2
      <4>2. ~(Head(rsp).len > 0) BY <4>1
      <4>3. MboxReturns(~Head(rsp).err, Stale) BY <2>1, <2>3, <4>2
      <4> QED BY Zenon, <4>1, <4>3
    <3>4. Ends(TRUE, Stale)
      <4>1. pc = "cmd" => call.fn # "read" BY <3>1, CommandFacts DEF HasData
      <4>2. pc # "reboot_status" BY <3>1, CommandFacts DEF HasData
      <4> QED BY <2>5, <4>1, <4>2 DEF Ends, Accepted
    <3>5. Empty' BY <2>1, <2>3, <3>1, <3>2 DEF Empty
    <3>6. hits' \in Nat /\ hits' >= hits BY <2>2
    <3> QED BY <2>1, <2>2, <3>3, <3>4, <3>5, <3>6, ReturnClean
  <2>6. CASE Answered
    <3>1. \/ rsp = <<h>> /\ out = <<d>>
          \/ rsp = <<h, d>> /\ out = <<>>
      BY <2>1, <2>6 DEF Answered, TwoWords
    <3>2. Head(rsp) = h /\ \/ rsp' = <<>> /\ out' = <<d>>
                           \/ rsp' = <<d>> /\ out' = <<>>
      <4> HIDE DEF h, d
      <4>1. CASE rsp = <<h>> /\ out = <<d>>
        <5>1. Head(<<h>>) = h /\ Tail(<<h>>) = <<>> BY Short
        <5> QED BY <2>1, <4>1, <5>1
      <4>2. CASE rsp = <<h, d>> /\ out = <<>>
        <5>1. Head(<<h, d>>) = h /\ Tail(<<h, d>>) = <<d>> BY Short
        <5> QED BY <2>1, <4>2, <5>1
      <4> QED BY <3>1, <4>1, <4>2
    <3>3. hdr' = h /\ step' = "word"
          /\ UNCHANGED <<pc, call, attempt, open, resp, ret, delivered>>
      <4>1. Head(rsp).len = 1 BY <2>f, <3>2
      <4>2. ~(Head(rsp).len = 0) BY <4>1
      <4> QED BY <2>1, <3>2, <4>2
    <3>4. Command' = Command BY <3>3, CommandStays
    <3>5. Reading' /\ ~Waiting' BY <1>1, <3>3 DEF Reading, Waiting, InMbox
    <3>6. OneWord(Data(Command))' BY <3>2, <3>4 DEF OneWord, Data
    <3>7. Command.op \in HasData BY <2>6 DEF Answered
    <3>8. Piped' BY <2>1, <2>3, <3>3, <3>4, <3>5, <3>6, <3>7 DEF Piped, Header
    <3>9. Known' BY <2>1, <3>3 DEF Clean, Known
    <3>10. Counted' BY <1>1, <2>2, <3>3 DEF Clean, Counted, Hit
    <3>11. Served' BY <2>1, <3>3 DEF Clean, Served, Carried, Asked
    <3> QED BY <3>3, <3>8, <3>9, <3>10, <3>11 DEF Clean
  <2> QED BY <2>3, <2>4, <2>5, <2>6
<1> QED BY <1>3, <1>4 DEF mbox_wait

LEMMA WordClean ==
    ASSUME SdmAssumption, TypeOK, Shape, Clean, mbox_word, ~strays'
    PROVE  Clean'
<1>1. InMbox /\ step = "word" BY DEF mbox_word
<1>2. Reading BY <1>1 DEF Reading
<1>3. cmdq = <<>> /\ OneWord(Data(Command)) /\ hdr = Header(FALSE, 1) /\ Command.op \in HasData
  BY <1>2 DEF Clean, Piped
<1>4. CASE rsp = <<>> /\ TimesOut BY <1>2, <1>4, TimesOutClean
<1>5. CASE rsp # <<>>
  <2>1. /\ rsp' = Tail(rsp) /\ NoFault /\ UNCHANGED <<cmdq, out, sdm_open, executed>>
        /\ MboxReturns(~hdr.err, IF Command.op \in HasData THEN Head(rsp).of ELSE Stale)
    BY <1>5 DEF mbox_word
  <2>2. rsp = <<Data(Command)>> /\ out = <<>> BY <1>3, <1>5 DEF OneWord
  <2>3. Head(rsp) = Data(Command) /\ rsp' = <<>> BY <2>1, <2>2, Short
  <2>4. Head(rsp).of = Command BY <2>3 DEF Data
  <2>5. MboxReturns(TRUE, Command)
    <3>1. (~hdr.err) = TRUE BY <1>3 DEF Header
    <3>2. MboxReturns(~hdr.err, Command) BY <1>3, <2>1, <2>4
    <3> QED BY Zenon, <3>1, <3>2
  <2>6. Ends(TRUE, Command)
    <3>1. pc \in {"close", "open"} => Command.op \notin HasData BY CommandFacts DEF HasData
    <3>2. pc = "cmd" => call.fn = "read"
      <4>1. pc = "cmd" => call.fn \in {"read", "write", "erase"}
        BY DEF Shape, InFlash, Opening, FlashOps
      <4> QED BY <1>3, <4>1, CommandFacts DEF HasData
    <3>3. pc = "reboot_status" => Command.op = "RSU_STATUS" BY CommandFacts
    <3> QED BY <1>3, <3>1, <3>2, <3>3 DEF Ends
  <2>7. Empty' BY <1>3, <2>1, <2>2, <2>3 DEF Empty
  <2>8. hits' \in Nat /\ hits' >= hits BY <2>1, GhostFacts, Numbers
  <2>9. Command \in Got BY CommandType DEF Got
  <2> QED BY <2>1, <2>5, <2>6, <2>7, <2>8, <2>9, ReturnClean
<1> QED BY <1>4, <1>5 DEF mbox_word

LEMMA DrainClean ==
    ASSUME SdmAssumption, TypeOK, Shape, ~strays => Clean, drain, ~strays'
    PROVE  Clean'
<1>1. /\ pc = "drain" /\ pc \in InFlash /\ ~Waiting /\ ~Reading /\ ~open
      /\ UNCHANGED <<call, attempt, open, resp, hdr, ret, delivered, cmdq, out, sdm_open, executed>>
  BY DEF drain, Waiting, Reading, InMbox, InFlash, Opening, Shape
<1>2. ~strays => Empty BY <1>1 DEF Clean, Piped
<1>3. /\ rsp = <<>> /\ rsp' = rsp /\ pc' = "close" /\ step' = "send" /\ out = <<>> /\ Reopens
  <2>1. ~(rsp # <<>> /\ NoFault) BY <1>2, GhostFacts DEF Empty
  <2>2. ~Fault("late") BY GhostFacts
  <2> QED BY <2>1, <2>2 DEF drain, Goto
<1>4. hits' = hits /\ (~strays \/ (cmdq = <<>> /\ ~(attempt > 0) /\ ~(call.left < call.chunks)))
  BY <1>3, Numbers, GhostFacts
<1>5. /\ call.fn \in FlashOps
      /\ call.left \in Nat /\ call.chunks \in Nat /\ call.first \in Nat /\ call.addr \in Nat
      /\ call.left <= call.chunks
      /\ call.addr = call.first + (call.chunks - call.left)
      /\ delivered \in Seq(Got)
      /\ call.fn = "read" => Len(delivered) = call.chunks - call.left
  BY <1>1, FlashShape
<1>6. Empty' BY <1>1, <1>2, <1>3, <1>4 DEF Empty
<1>7. Piped'
  <2>1. ~Waiting' /\ ~Reading' BY <1>3 DEF Waiting, Reading
  <2> QED BY <1>6, <2>1 DEF Piped
<1>8. Known' BY <1>1, <1>3 DEF Known
<1>9. Counted'
  <2>1. hits \in Nat /\ attempt \in Nat BY Numbers
  <2>2. ~strays => hits >= attempt BY <1>1 DEF Clean, Counted
  <2>3. hits' >= attempt BY <1>4, <2>1, <2>2
  <2> QED BY <1>1, <1>3, <2>3 DEF Counted
<1>10. /\ call.fn = "read" => \A i \in DOMAIN delivered :
              delivered[i] = [op |-> "QSPI_READ", arg |-> call.first + i - 1]
       /\ Carried(call.first..(call.addr - 1))
  <2>1. CASE ~strays BY <1>1, <2>1 DEF Clean, Served
  <2>2. CASE ~(call.left < call.chunks)
    <3>1. call.left = call.chunks BY <1>5, <2>2
    <3>2. call.fn = "read" => DOMAIN delivered = {} BY <1>5, <3>1
    <3>3. call.first..(call.addr - 1) = {} BY <1>5, <3>1
    <3> QED BY <3>2, <3>3 DEF Carried
  <2> QED BY <1>4, <2>1, <2>2
<1>11. Served'
  <2>1. pc' # "returned" BY <1>3
  <2>2. Carried(call.first..(call.addr - 1))' BY <1>1, <1>10 DEF Carried
  <2> QED BY <1>1, <1>10, <2>1, <2>2 DEF Served
<1> QED BY <1>3, <1>7, <1>8, <1>9, <1>11 DEF Clean

\* A call begins with empty FIFOs, knowing whether the flash is open.
LEMMA CallClean ==
    ASSUME SdmAssumption, TypeOK, Shape, ~strays => Clean, pc \in {"idle", "boot"},
           NEW fn, NEW a \in Nat, NEW n \in Nat, NEW where, Call(fn, a, n, where), ~strays',
           \/ fn \in FlashOps /\ (where = "drain" \/ (where = "cmd" /\ open))
           \/ fn \in RsuOps /\ (where = "rsu_close" \/ (where = "rsu" /\ ~open))
    PROVE  Clean'
<1>1. /\ pc' = where /\ step' = "send" /\ call'.fn = fn /\ call'.addr = a /\ call'.first = a
      /\ attempt' = 0 /\ delivered' = <<>> /\ ret' = "ok" /\ executed' = {} /\ hits' = 0
      /\ UNCHANGED <<open, cmdq, out, rsp, sdm_open>>
  BY DEF Call, Goto
<1>2. ~strays \/ (<<cmdq, out, rsp>> = <<<<>>, <<>>, <<>>>> /\ ~(open /\ ~sdm_open))
  BY Zenon DEF Call
<1>3. Empty /\ (open => sdm_open)
  <2>1. CASE ~strays
    <3>1. ~Waiting /\ ~Reading BY DEF Waiting, Reading, InMbox
    <3> QED BY <2>1, <3>1 DEF Clean, Piped, Known
  <2>2. CASE <<cmdq, out, rsp>> = <<<<>>, <<>>, <<>>>> /\ ~(open /\ ~sdm_open)
    BY <2>2 DEF Empty
  <2> QED BY <1>2, <2>1, <2>2
<1>4. Empty' BY <1>1, <1>3 DEF Empty
<1>5. Piped'
  <2>1. ~Waiting' /\ ~Reading' BY <1>1 DEF Waiting, Reading
  <2> QED BY <1>4, <2>1 DEF Piped
<1>6. pc' \in {"drain", "cmd", "rsu_close", "rsu"} /\ (pc' = "cmd" => open) BY <1>1
<1>7. Known' BY <1>1, <1>3, <1>6 DEF Known
<1>8. Counted' BY <1>1, <1>6 DEF Counted
<1>9. Served'
  <2>1. (call'.first..(call'.addr - 1)) = {} BY <1>1
  <2>2. DOMAIN delivered' = {} BY <1>1
  <2> QED BY <1>6, <2>1, <2>2 DEF Served, Carried
<1> QED BY <1>5, <1>6, <1>7, <1>8, <1>9 DEF Clean

\* Outside the driver's commands nothing is under way.
LEMMA QuietClean ==
    ASSUME Empty', pc' \notin InFlash \cup {"returned", "reboot_update"},
           ~InMbox' \/ step' = "send", open' /\ pc' # "reboot_close" => sdm_open'
    PROVE  Clean'
<1>1. ~Waiting' /\ ~Reading' BY DEF Waiting, Reading
<1>2. pc' \notin {"set_cs", "read_id", "cmd", "open", "reclose"} BY DEF InFlash, Opening
<1>3. Piped' BY <1>1 DEF Piped
<1>4. Known' BY <1>2 DEF Known
<1>5. Counted' BY <1>2 DEF Counted
<1>6. Served' BY DEF Served
<1> QED BY <1>3, <1>4, <1>5, <1>6 DEF Clean

LEMMA NextClean ==
    ASSUME SdmAssumption, Inv, [Next]_vars, ~strays'
    PROVE  Clean'
<1>0. TypeOK /\ Shape /\ (~strays => Clean) BY DEF Inv
<1>1. ASSUME SdmExecutes PROVE Clean'
  <2>1. ~strays BY <1>1, GhostFacts DEF SdmExecutes
  <2> QED BY <1>0, <1>1, <2>1, ExecutesClean
<1>2. ASSUME SdmFails PROVE Clean'
  <2>1. ~strays BY <1>2, GhostFacts DEF SdmFails
  <2> QED BY <1>0, <1>2, <2>1, FailsClean
<1>3. ASSUME SdmDelivers PROVE Clean'
  <2>1. ~strays BY <1>3, GhostFacts DEF SdmDelivers
  <2> QED BY <1>0, <1>3, <2>1, DeliversClean
<1>4. ASSUME reconfigures PROVE Clean'
  <2>1. Empty' /\ pc' = "boot" /\ open' = FALSE
    BY <1>4 DEF reconfigures, Restarts, Empty
  <2> QED BY <2>1, QuietClean DEF InMbox, InFlash, Opening
<1>t. ASSUME TimesOut PROVE ~strays
  <2>1. CASE Fault("late") BY <2>1, GhostFacts
  <2>2. CASE strays' = (strays \/ out # <<>>) BY Zenon, <2>2
  <2> QED BY <1>t, <2>1, <2>2 DEF TimesOut
<1>5. ASSUME mbox_send PROVE Clean'
  <2>1. NoFault \/ Fault("no_room") BY <1>5 DEF mbox_send
  <2>2. ~strays BY <2>1, GhostFacts
  <2> QED BY <1>0, <1>5, <2>2, SendClean
<1>6. ASSUME mbox_wait PROVE Clean'
  <2>1. NoFault \/ TimesOut BY <1>6 DEF mbox_wait
  <2>2. ~strays BY <1>t, <2>1, GhostFacts
  <2> QED BY <1>0, <1>6, <2>2, WaitClean
<1>7. ASSUME mbox_word PROVE Clean'
  <2>1. NoFault \/ TimesOut BY <1>7 DEF mbox_word
  <2>2. ~strays BY <1>t, <2>1, GhostFacts
  <2> QED BY <1>0, <1>7, <2>2, WordClean
<1>8. ASSUME drain PROVE Clean' BY <1>0, <1>8, DrainClean
<1>9. ASSUME return PROVE Clean'
  <2>1. ~strays /\ pc = "returned" /\ pc' = "idle" /\ UNCHANGED <<open, cmdq, out, rsp, sdm_open>>
    BY <1>9 DEF return
  <2>2. Empty /\ (open => sdm_open)
    BY <1>0, <2>1 DEF Clean, Piped, Known, Waiting, Reading, InMbox
  <2>3. Empty' /\ (open' => sdm_open') BY <2>1, <2>2 DEF Empty
  <2> QED BY <2>1, <2>3, QuietClean DEF InMbox, InFlash, Opening
<1>10. ASSUME boots PROVE Clean'
  <2>1. ASSUME NEW a \in Addrs, pc = "boot", Call("read", a, 1, "drain") PROVE Clean'
    <3>1. a \in Nat BY DEF SdmAssumption
    <3> QED BY <1>0, <2>1, <3>1, CallClean DEF FlashOps
  <2>2. CASE pc = "stopped" /\ pc' = "idle" /\ NoFault
             /\ UNCHANGED <<step, call, attempt, open, resp, hdr, ret, delivered, sdm>>
    <3>1. ~strays /\ ~open BY <1>0, <2>2, GhostFacts DEF Shape
    <3>2. Empty BY <1>0, <2>2, <3>1 DEF Clean, Piped, Waiting, Reading, InMbox
    <3>3. Empty' /\ ~open' BY <2>2, <3>1, <3>2 DEF Empty, sdm
    <3> QED BY <2>2, <3>3, QuietClean DEF InMbox, InFlash, Opening
  <2> QED BY <1>10, <2>1, <2>2 DEF boots
<1>11. ASSUME flash_call PROVE Clean'
  <2>1. PICK fn \in FlashOps \cap Calls, a \in Addrs, n \in 1..MaxChunks :
           pc = "idle" /\ Call(fn, a, n, IF open THEN "cmd" ELSE "drain")
    BY <1>11 DEF flash_call
  <2>2. a \in Nat /\ n \in Nat BY DEF SdmAssumption
  <2>3. CASE open BY <1>0, <2>1, <2>2, <2>3, CallClean
  <2>4. CASE ~open BY <1>0, <2>1, <2>2, <2>4, CallClean
  <2> QED BY <2>3, <2>4
<1>12. ASSUME rsu_cmd PROVE Clean'
  <2>1. PICK fn \in RsuOps \cap Calls : Call(fn, 0, 1, IF open THEN "rsu_close" ELSE "rsu")
    BY <1>12 DEF rsu_cmd
  <2>2. pc = "idle" BY <1>12 DEF rsu_cmd
  <2>3. CASE open BY <1>0, <2>1, <2>2, <2>3, CallClean
  <2>4. CASE ~open BY <1>0, <2>1, <2>2, <2>4, CallClean
  <2> QED BY <2>3, <2>4
<1>13. ASSUME sys_arch_reboot PROVE Clean'
  <2>1. ~Fault("busy_reboot") BY GhostFacts
  <2>2. pc = "idle" /\ ~strays /\ UNCHANGED sdm BY <1>13, <2>1, GhostFacts DEF sys_arch_reboot
  <2>3. Empty /\ (open => sdm_open)
    BY <1>0, <2>2 DEF Clean, Piped, Known, Waiting, Reading, InMbox
  <2>4. Empty' BY <2>2, <2>3 DEF Empty, sdm
  <2>5. \/ /\ pc' = (IF open THEN "reboot_close" ELSE "reboot_status")
           /\ step' = "send" /\ open' = open
        \/ pc' = "boot" /\ open' = FALSE
    BY <1>13 DEF sys_arch_reboot, Goto, Restarts
  <2>6. sdm_open' = sdm_open BY <2>2 DEF sdm
  <2>7. open' /\ pc' # "reboot_close" => sdm_open' BY <2>3, <2>5, <2>6
  <2> QED BY <2>4, <2>5, <2>7, QuietClean DEF InMbox, InFlash, Opening
<1>14. ~cpu_reset BY GhostFacts DEF cpu_reset
<1>15. ASSUME UNCHANGED vars PROVE Clean'
  <2>1. UNCHANGED driver /\ UNCHANGED sdm /\ hits' = hits /\ strays' = strays
    BY <1>15 DEF vars, ghosts
  <2> QED BY <1>0, <2>1, CleanStays
<1> QED
  BY <1>1, <1>2, <1>3, <1>4, <1>5, <1>6, <1>7, <1>8, <1>9, <1>10, <1>11, <1>12, <1>13, <1>14,
     <1>15 DEF Next, Sdm, Driver
--------------------------------------------------------------------------------
\* The invariant, and what follows from it.

LEMMA InitInv == Init => Inv
<1> SUFFICES ASSUME Init PROVE Inv OBVIOUS
<1>1. /\ QSPI_ATTEMPTS \in Nat \ {0} /\ CMD_FIFO \in Nat /\ RSP_FIFO \in Nat /\ MaxFaults \in Nat
  BY SdmAssumption DEF SdmAssumption
<1>2. 0 \in 0..(QSPI_ATTEMPTS - 1) /\ 0 <= CMD_FIFO /\ 0 <= RSP_FIFO /\ 0 \in 0..MaxFaults
      /\ 0 \in 0..0 /\ Len(<<>>) = 0
  BY <1>1
<1>3. <<>> \in Seq(Commands) /\ <<>> \in Seq(Words) /\ {} \in SUBSET Changes OBVIOUS
<1>4. DriverOK BY <1>2, ValueTypes DEF Init, DriverOK, Steps
<1>5. SdmOK BY <1>2, <1>3 DEF Init, SdmOK, FifosOK
<1>6. GhostsOK BY <1>2 DEF Init, GhostsOK
<1>7. Shape BY DEF Init, Shape, NoCall, InFlash, Opening, Reboots
<1>8. Clean
  BY DEF Init, Clean, Piped, Waiting, Reading, InMbox, Empty, Known, Counted, Served,
         InFlash, Opening
<1> QED BY <1>4, <1>5, <1>6, <1>7, <1>8, TypeParts DEF Inv

LEMMA NextInv == Inv /\ [Next]_vars => Inv'
<1> SUFFICES ASSUME Inv, [Next]_vars PROVE Inv' OBVIOUS
<1>1. TypeOK /\ Shape BY DEF Inv
<1>2. TypeOK' BY <1>1, SdmAssumption, NextTypes
<1>3. Shape' BY <1>1, SdmAssumption, NextShape
<1>4. ~strays' => Clean' BY SdmAssumption, NextClean
<1> QED BY <1>2, <1>3, <1>4 DEF Inv

LEMMA AlwaysInv == Spec => []Inv
BY InitInv, NextInv, PTL DEF Spec

\* Every variable of the driver and of the mailbox keeps to its kind, no FIFO overflows and
\* the loop counter of qspi_cmd stays below QSPI_ATTEMPTS.
THEOREM MailboxTypes == Spec => []TypeOK
<1>1. Inv => TypeOK BY DEF Inv
<1> QED BY <1>1, AlwaysInv, PTL

\* A flash call that succeeds without a stray answer did what it was asked for, for every
\* number of chunks, attempts and faults.
THEOREM MailboxServes == Spec => []FlashServed
<1>1. Inv => FlashServed
  <2> SUFFICES ASSUME Inv, pc = "returned", ret = "ok", ~strays
               PROVE  /\ call.fn = "read" =>
                            /\ Len(delivered) = call.chunks
                            /\ \A i \in DOMAIN delivered :
                                  delivered[i] = [op |-> "QSPI_READ", arg |-> call.first + i - 1]
                      /\ call.fn = "write" =>
                            \A a \in Asked : [op |-> "QSPI_WRITE", arg |-> a] \in executed
                      /\ call.fn = "erase" =>
                            \A a \in Asked : [op |-> "QSPI_ERASE", arg |-> a] \in executed
    BY DEF FlashServed
  <2> QED BY DEF Inv, Shape, Clean, Served, Carried
<1> QED BY <1>1, AlwaysInv, PTL

\* A flash call fails only after a fault in each of its attempts: one hiccup, and every
\* number below QSPI_ATTEMPTS, is tolerated.
THEOREM MailboxTolerates == Spec => []HiccupTolerated
<1>1. Inv => HiccupTolerated BY DEF Inv, Clean, Counted, HiccupTolerated
<1> QED BY <1>1, AlwaysInv, PTL

\* A cold reboot that takes over no unanswered command asks for the bitstream that runs.
THEOREM MailboxReboots == Spec => []RebootsRunning
<1>1. Inv => RebootsRunning
  <2> SUFFICES ASSUME Inv, pc = "reboot_update", step = "send", ~strays
               PROVE  Command.arg = Image
    BY DEF RebootsRunning
  <2>1. resp.op = "RSU_STATUS" BY DEF Inv, Clean
  <2> QED BY <2>1, CommandFacts
<1> QED BY <1>1, AlwaysInv, PTL

================================================================================
