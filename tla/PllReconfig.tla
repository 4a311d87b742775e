------------------------------ MODULE PllReconfig ------------------------------
(* hyperram_pll_reconfig.vhd: the HyperRAM core asks for a phase of the read clock   *)
(* across a clock domain crossing; the state machine reads counter C1 of the PLL over *)
(* AXI4-Lite, writes it back with the new phase, and toggles dps_done. Between two     *)
(* clocks the core works at four times the rate. The bridge to the PLL is as the       *)
(* test bench has it: one transaction at a time, a write's response is up for one      *)
(* clock, a read's until it is taken.                                                   *)
EXTENDS Naturals, Sequences

CONSTANTS
    Phases,
    MaxAhead,    \* requests the core makes before it has an answer
    MaxLosses    \* bound on how often the PLL loses its lock

ASSUME PllAssumption ==
    /\ 0 \in Phases /\ Phases \subseteq Nat
    /\ MaxAhead \in Nat \ {0} /\ MaxLosses \in Nat

Fields == "fields"   \* what C1 holds besides its phase
Word(other, phase) == [other |-> other, phase |-> phase]
ENABLE == Word("enable", 0)

VARIABLES
    pll_locked, losses,
    core, age,               \* the core's request, and the clocks since it got there
    dps_shift, dps_shift_enable,
    lock_sync, enable_sync, shift_sync0, shift_sync1,
    step, axil_phase,
    w_v, ar_v, r_r,          \* AWVALID and WVALID; ARVALID; RREADY
    bus_addr, bus_wdata,
    pending_phase, request,  \* request: the newest phase not yet started, or none
    done_toggle,
    bridge, addr, wdata, bvalid, rvalid, rdata, c1,
    unanswered               \* ghost: the phases asked for and not answered, the newest last

pll == <<pll_locked, losses>>
dps == <<core, dps_shift, dps_shift_enable>>
sync == <<lock_sync, enable_sync, shift_sync0, shift_sync1>>
master == <<step, axil_phase, w_v, ar_v, r_r, bus_addr, bus_wdata, pending_phase, request, done_toggle>>
slave == <<bridge, addr, wdata, bvalid, rvalid, rdata, c1>>
vars == <<pll, dps, age, sync, master, slave, unanswered>>
--------------------------------------------------------------------------------
\* The core and the PLL's lock (external). The phase is up four core clocks before
\* dps_shift_enable, which is up for ten. It does not ask again for what it waits for.

CoreSets ==
    /\ pll_locked /\ core = "idle" /\ Len(unanswered) < MaxAhead
    /\ dps_shift' \in Phases \ {unanswered[i] : i \in DOMAIN unanswered}
    /\ core' = "set" /\ age' = 0
    /\ UNCHANGED <<pll, dps_shift_enable, sync, master, slave, unanswered>>

CoreRaises ==
    /\ core = "set" /\ age = 1
    /\ dps_shift_enable' = TRUE
    /\ core' = "pulse" /\ age' = 0
    /\ unanswered' = Append(unanswered, dps_shift)
    /\ UNCHANGED <<pll, dps_shift, sync, master, slave>>

CoreLowers ==
    /\ core = "pulse" /\ age \in {2, 3}
    /\ dps_shift_enable' = FALSE
    /\ core' = "idle" /\ age' = 0
    /\ UNCHANGED <<pll, dps_shift, sync, master, slave, unanswered>>

\* The core is held in reset without the lock.
LosesLock ==
    /\ pll_locked /\ losses < MaxLosses
    /\ pll_locked' = FALSE /\ losses' = losses + 1
    /\ core' = "idle" /\ age' = 0 /\ dps_shift_enable' = FALSE
    /\ unanswered' = <<>>
    /\ UNCHANGED <<dps_shift, sync, master, slave>>

\* To lock takes thousands of clocks: the loss has got through.
Locks ==
    /\ ~pll_locked /\ lock_sync = <<FALSE, FALSE>> /\ step = "start"
    /\ pll_locked' = TRUE
    /\ UNCHANGED <<losses, dps, age, sync, master, slave, unanswered>>
--------------------------------------------------------------------------------
\* The synchronisers. A phase that changes as it is sampled comes out as any.

Synchronises ==
    /\ lock_sync' = <<pll_locked, lock_sync[1]>>
    /\ enable_sync' = <<dps_shift_enable>> \o SubSeq(enable_sync, 1, 3)
    /\ IF core = "set" /\ age = 0 THEN shift_sync0' \in Phases ELSE shift_sync0' = dps_shift
    /\ shift_sync1' = shift_sync0

Held == ~lock_sync[2]

\* Mutant: the edge is taken off the first flop.
FirstFlop == enable_sync[1] /\ ~enable_sync[2]

NewRequest == enable_sync[3] /\ ~enable_sync[4]

\* Mutant: a request that arrives as another one starts is lost.
StartWins(started) ==
    request' = IF Held \/ started THEN {} ELSE IF NewRequest THEN {shift_sync1} ELSE request

\* A request that arrives as another one starts stays.
Requested(started) ==
    request' = IF Held THEN {}
               ELSE IF NewRequest THEN {shift_sync1}
               ELSE IF started THEN {} ELSE request
--------------------------------------------------------------------------------
\* The state machine, clock by clock. What a clock under the hold still assigns to the bus
\* is assigned again before it is used.

Hold ==
    /\ Held
    /\ step' = "start" /\ axil_phase' = "req"
    /\ w_v' = FALSE /\ ar_v' = FALSE /\ r_r' = FALSE
    /\ Requested(FALSE)
    /\ UNCHANGED <<bus_addr, bus_wdata, pending_phase>>

Start ==
    /\ step = "start"
    /\ bus_addr' = "enable" /\ bus_wdata' = ENABLE
    /\ w_v' = TRUE /\ axil_phase' = "req" /\ step' = "enable_reconfig"
    /\ Requested(FALSE)
    /\ UNCHANGED <<ar_v, r_r, pending_phase>>

WaitDps ==
    /\ step = "wait_dps"
    /\ \/ /\ request # {}
          /\ Requested(TRUE)
          /\ pending_phase' \in request
          /\ bus_addr' = "c1" /\ axil_phase' = "req"
          /\ ar_v' = TRUE /\ r_r' = TRUE
          /\ step' = "read_c1"
       \/ /\ request = {}
          /\ Requested(FALSE)
          /\ UNCHANGED <<pending_phase, bus_addr, axil_phase, ar_v, r_r, step>>
    /\ UNCHANGED <<w_v, bus_wdata>>

Request ==
    /\ step \in {"enable_reconfig", "read_c1", "write_c1"} /\ axil_phase = "req"
    /\ Requested(FALSE)
    /\ IF bridge = "idle"
       THEN axil_phase' = "resp" /\ w_v' = FALSE /\ ar_v' = FALSE
       ELSE UNCHANGED <<axil_phase, w_v, ar_v>>
    /\ UNCHANGED <<step, r_r, bus_addr, bus_wdata, pending_phase>>

WriteResponse ==
    /\ step \in {"enable_reconfig", "write_c1"} /\ axil_phase = "resp"
    /\ Requested(FALSE)
    /\ step' = IF bvalid THEN "wait_dps" ELSE step
    /\ UNCHANGED <<axil_phase, w_v, ar_v, r_r, bus_addr, bus_wdata, pending_phase>>

ReadResponse ==
    /\ step = "read_c1" /\ axil_phase = "resp"
    /\ Requested(FALSE)
    /\ IF rvalid
       THEN /\ r_r' = FALSE
            /\ bus_wdata' = Word(rdata.other, pending_phase)
            /\ w_v' = TRUE /\ axil_phase' = "req" /\ step' = "write_c1"
       ELSE UNCHANGED <<r_r, bus_wdata, w_v, axil_phase, step>>
    /\ UNCHANGED <<ar_v, bus_addr, pending_phase>>

\* The toggle is assigned in front of the hold, which leaves it alone.
Toggles == step = "write_c1" /\ axil_phase = "resp" /\ bvalid

Master ==
    /\ Hold \/ (~Held /\ (Start \/ WaitDps \/ Request \/ WriteResponse \/ ReadResponse))
    /\ done_toggle' = IF Toggles THEN ~done_toggle ELSE done_toggle
--------------------------------------------------------------------------------
\* The bridge to the PLL (external).

Bridge ==
    \/ /\ bridge = "idle" /\ w_v
       /\ bridge' = "write" /\ addr' = bus_addr /\ wdata' = bus_wdata
       /\ bvalid' = FALSE
       /\ UNCHANGED <<rvalid, rdata, c1>>
    \/ /\ bridge = "idle" /\ ~w_v /\ ar_v
       /\ bridge' = "read" /\ addr' = bus_addr
       /\ bvalid' = FALSE
       /\ UNCHANGED <<wdata, rvalid, rdata, c1>>
    \/ /\ \/ bridge = "idle" /\ ~w_v /\ ~ar_v
          \/ bridge \in {"write", "read"}
          \/ bridge = "answer" /\ ~r_r
       /\ bvalid' = FALSE
       /\ UNCHANGED <<bridge, addr, wdata, rvalid, rdata, c1>>
    \/ /\ bridge = "write"
       /\ bridge' = "idle" /\ bvalid' = TRUE
       /\ c1' = IF addr = "c1" THEN wdata ELSE c1
       /\ UNCHANGED <<addr, wdata, rvalid, rdata>>
    \/ /\ bridge = "read"
       /\ bridge' = "answer" /\ rvalid' = TRUE /\ rdata' = c1
       /\ bvalid' = FALSE
       /\ UNCHANGED <<addr, wdata, c1>>
    \/ /\ bridge = "answer" /\ r_r
       /\ bridge' = "idle" /\ rvalid' = FALSE
       /\ bvalid' = FALSE
       /\ UNCHANGED <<addr, wdata, rdata, c1>>

\* An answer is for the request of its phase and for those before it.
Answered ==
    unanswered' =
        IF done_toggle' = done_toggle THEN unanswered
        ELSE SelectSeq(unanswered, LAMBDA p : \E i, j \in DOMAIN unanswered :
                 i < j /\ unanswered[i] = c1.phase /\ unanswered[j] = p)

\* What the core is about to do comes first.
Clock ==
    /\ ~(core = "set" /\ age = 1) /\ ~(core = "pulse" /\ age = 3)
    /\ age' = IF core = "idle" THEN 0 ELSE age + 1
    /\ Synchronises /\ Master /\ Bridge /\ Answered
    /\ UNCHANGED <<pll, dps>>
--------------------------------------------------------------------------------
Init ==
    /\ pll_locked = FALSE /\ losses = 0
    /\ core = "idle" /\ age = 0
    /\ dps_shift = 0 /\ dps_shift_enable = FALSE
    /\ lock_sync = <<FALSE, FALSE>> /\ enable_sync = <<FALSE, FALSE, FALSE, FALSE>>
    /\ shift_sync0 = 0 /\ shift_sync1 = 0
    /\ step = "start" /\ axil_phase = "req"
    /\ w_v = FALSE /\ ar_v = FALSE /\ r_r = FALSE
    /\ bus_addr = "enable" /\ bus_wdata = ENABLE
    /\ pending_phase = 0 /\ request = {} /\ done_toggle = FALSE
    /\ bridge = "idle" /\ addr = "enable" /\ wdata = ENABLE
    /\ bvalid = FALSE /\ rvalid = FALSE
    /\ c1 \in {Word(Fields, p) : p \in Phases} /\ rdata = c1
    /\ unanswered = <<>>

Next == CoreSets \/ CoreRaises \/ CoreLowers \/ LosesLock \/ Locks \/ Clock

Spec == Init /\ [][Next]_vars

\* Clocks run, and the bridge answers after some time.
FairSpec ==
    /\ Spec
    /\ WF_vars(Clock) /\ WF_vars(CoreRaises) /\ WF_vars(CoreLowers)
    /\ SF_vars(Clock /\ bridge' # bridge)
--------------------------------------------------------------------------------
\* dps_done toggles only when C1 holds a phase that was asked for and not answered yet,
\* its other fields as they were: the core, which waits for the toggle, uses no phase
\* that is not there yet, whatever the crossing sampled and when the lock was lost.
DoneHonest ==
    [][pll_locked /\ done_toggle' # done_toggle =>
         /\ c1.other = Fields
         /\ \E i \in DOMAIN unanswered : unanswered[i] = c1.phase]_vars

\* The bridge holds the answer to a read that a loss of lock cut off: nobody takes it.
Abandoned == bridge = "answer" /\ ~r_r

\* A request is not dropped, the newest wins: its phase gets into C1, and the core gets a
\* toggle, unless the lock is lost.
Applied ==
    /\ \A p \in Phases :
          (unanswered # <<>> /\ unanswered[Len(unanswered)] = p) ~>
              \/ c1.phase = p \/ Abandoned
              \/ unanswered = <<>> \/ unanswered[Len(unanswered)] # p
    /\ \A d \in BOOLEAN :
          (unanswered # <<>> /\ done_toggle = d) ~>
              (done_toggle # d \/ unanswered = <<>> \/ Abandoned)
================================================================================
