--------------------------------- MODULE Pio ---------------------------------
(***************************************************************************)
(* The two 8255 chips between the main and the sub CPU (pio.c) and the way *)
(* emu_main shares the emulator's one thread between the CPUs: with        *)
(* -cpu 0 one CPU runs until it has polled port C twice, with -cpu 1 the   *)
(* sub CPU runs for a while after the main CPU touched the link, with      *)
(* -cpu 2 both run in slices of CPU cycles.                                *)
(*                                                                         *)
(* The programs of the CPUs are not part of the emulator.  Either they do  *)
(* the handshake of the disk system (`wild' is FALSE): the sender waits    *)
(* for RFD, puts the byte, raises DAV, waits for DAC, drops DAV, waits     *)
(* for DAC to drop; the receiver answers; then they change roles.  Or they *)
(* do whatever they like (`wild').                                         *)
(*                                                                         *)
(* A nibble of port C is the set of its bits that are up.  CPU time is     *)
(* counted in states (clock cycles), the accounts of -cpu 2 in fractions   *)
(* of a state: JACKUP of them are one state (256 in the code).             *)
(***************************************************************************)
EXTENDS Integers, Sequences

CONSTANTS
  Timings,         \* values of cpu_timing to start with: a subset of 0..2
  Bytes, None,     \* data bytes, and no byte
  CPU_1_COUNT,     \* steps the sub CPU is given with -cpu 1
  JACKUP,          \* fractions of a state in the accounts of -cpu 2
  MainSlice, SubSlice,  \* fractions granted to the two CPUs for cpu_slice_us
  Costs,           \* states an instruction may take
  IntCosts,        \* states taking an interrupt may take
  Icount,          \* states between two calls of the interrupt update
  state_of_vsync,  \* states of the main CPU in a frame
  sub_load_rate,   \* frames of sub CPU time between two updates of the screen
  ModeBytes,       \* the port functions a wild program may set
  MaxResets        \* bound on the resets of the machine

ASSUME PioConstants ==
  /\ Timings \subseteq 0..2
  /\ None \notin Bytes
  /\ Bytes # {}
  /\ CPU_1_COUNT \in Nat \ {0}
  /\ JACKUP \in Nat \ {0}
  /\ MainSlice \in Nat \ {0} /\ SubSlice \in Nat \ {0}
  /\ Costs \subseteq Nat \ {0}
  /\ Costs # {}
  /\ IntCosts \subseteq Nat
  /\ Icount \in Nat
  /\ state_of_vsync \in Nat \ {0}
  /\ sub_load_rate \in Nat
  /\ MaxResets \in Nat

VARIABLES
  pio_AB,          \* the data ports A and B of both sides
  pio_C,           \* the halves CH and CL of port C of both sides
  cpu_timing,      \* the -cpu option
  select_main_cpu, \* -cpu 0: the main CPU is the one that runs
  dual_cpu_count,  \* -cpu 1: steps the sub CPU still runs
  state,           \* -cpu 2: main_state and sub_state, what is still granted
  plan,            \* the calls of z80_emu left in this pass of emu_main
  done,            \* total_state of the call under way
  state0,          \* states since the last interrupt update, per CPU
  lapse,           \* states since the last frame event, per CPU
  frame,           \* EVENT_FRAME_UPDATE is up
  guest,           \* the programs: where they are and the byte they hold
  got,             \* the last byte each program has received
  wild,            \* the programs do not keep to the handshake
  resets

pioVars == <<pio_AB, pio_C, cpu_timing, select_main_cpu, dual_cpu_count, state,
             plan, done, state0, lapse, frame, guest, got, wild, resets>>
chips == <<pio_AB, pio_C>>
program == <<guest, got>>

Sides == {"M", "S"}
Ports == {"A", "B"}
Halves == {"CH", "CL"}
Peer(s) == IF s = "M" THEN "S" ELSE "M"
Opposite(p) == IF p = "A" THEN "B" ELSE "A"
Lines == 0..2                     \* of the four lines of a half, those used
DAV == 0
RFD == 1
DAC == 2

-----------------------------------------------------------------------------
(* The chips: pio.c                                                        *)

ResetAB == [s \in Sides |-> [p \in Ports |->
              [type |-> IF p = "A" THEN "READ" ELSE "WRITE",
               exist |-> FALSE, data |-> 0]]]
ResetC == [s \in Sides |-> [h \in Halves |->
             [type |-> IF h = "CH" THEN "WRITE" ELSE "READ",
              cont_f |-> TRUE, data |-> {}]]]

pio_init == pio_AB' = ResetAB /\ pio_C' = ResetC

(* With -cpu 1, an access of the main CPU to the link sets dual_cpu_count   *)
(* and breaks off its call of z80_emu: `brk' of an access says that it     *)
(* does (and, with -cpu 0, that it hands over to the other CPU); Step      *)
(* carries it out.                                                         *)
WakesBug(s) == cpu_timing = 1 /\ s = "S"
Wakes(s) == cpu_timing = 1 /\ s = "M"

(* Reading a port set to WRITE gives its own data back; else the other     *)
(* side's opposite port is read and marked empty.  A second read without a *)
(* write between is the kind of access that wakes the sub CPU.             *)
OwnPort(s, p) == pio_AB[s][p].type = "WRITE"
ReadABValueBug(s, p) ==
  IF OwnPort(s, p) THEN pio_AB[s][p].data ELSE pio_AB[Peer(s)][p].data
ReadABValue(s, p) ==
  IF OwnPort(s, p) THEN pio_AB[s][p].data ELSE pio_AB[Peer(s)][Opposite(p)].data
ReadAgain(s, p) == ~OwnPort(s, p) /\ ~pio_AB[Peer(s)][Opposite(p)].exist
pio_read_AB(s, p, brk) ==
  /\ brk = (Wakes(s) /\ ReadAgain(s, p))
  /\ pio_AB' = IF OwnPort(s, p) THEN pio_AB
               ELSE [pio_AB EXCEPT ![Peer(s)][Opposite(p)].exist = FALSE]
  /\ UNCHANGED <<pio_C, select_main_cpu>>

(* A byte written over one that was not read wakes the sub CPU as well.    *)
pio_write_AB(s, p, b, brk) ==
  /\ brk = (Wakes(s) /\ pio_AB[s][p].exist)
  /\ pio_AB' = [pio_AB EXCEPT ![s][p].exist = TRUE, ![s][p].data = b]
  /\ UNCHANGED <<pio_C, select_main_cpu>>

(* Half h of port C as side s reads it: the other side's opposite half, or  *)
(* its own when it is an output.                                           *)
ReadHalf(s, h) ==
  IF pio_C[s][h].type = "READ"
    THEN pio_C[Peer(s)][IF h = "CH" THEN "CL" ELSE "CH"].data
    ELSE pio_C[s][h].data

(* Every second read of port C hands over: -cpu 0 runs the other CPU, and   *)
(* -cpu 1 lets the sub CPU run.                                            *)
SecondRead(s) == pio_C[s]["CL"].cont_f
pio_read_C(s, brk) ==
  /\ brk = (SecondRead(s) /\ (cpu_timing = 0 \/ Wakes(s)))
  /\ pio_C' = [pio_C EXCEPT ![s]["CL"].cont_f = ~@]
  /\ select_main_cpu' = IF cpu_timing = 0 /\ SecondRead(s) THEN ~select_main_cpu
                        ELSE select_main_cpu
  /\ UNCHANGED pio_AB

pio_write_C(s, h, bit, up, brk) ==
  /\ brk = Wakes(s)
  /\ pio_C' = [pio_C EXCEPT ![s][h].data = IF up THEN @ \union {bit} ELSE @ \ {bit}]
  /\ UNCHANGED <<pio_AB, select_main_cpu>>

pio_write_C_direct(s, high, low, brk) ==
  /\ brk = Wakes(s)
  /\ pio_C' = [pio_C EXCEPT ![s]["CH"].data = high, ![s]["CL"].data = low]
  /\ UNCHANGED <<pio_AB, select_main_cpu>>

(* The mode word sets the functions of the side's ports and clears them.   *)
pio_set_mode(s, m, brk) ==
  /\ ~brk
  /\ pio_AB' = [pio_AB EXCEPT ![s] =
                  [p \in Ports |-> [type |-> m[p], exist |-> FALSE, data |-> 0]]]
  /\ pio_C' = [pio_C EXCEPT ![s] =
                 [h \in Halves |-> [type |-> m[h], cont_f |-> TRUE, data |-> {}]]]
  /\ UNCHANGED select_main_cpu

-----------------------------------------------------------------------------
(* The programs                                                            *)

SendPcs == {"wantRFD", "put", "DAVup", "wantDAC", "DAVdown", "wantNoDAC"}
RecvPcs == {"RFDup", "wantDAV", "RFDdown", "get", "DACup", "wantNoDAV", "DACdown"}
Pcs == SendPcs \union RecvPcs

Goto(s, pc) == guest' = [guest EXCEPT ![s].pc = pc]

(* A poll of line l: go on when it is as wanted, else poll again.          *)
Poll(s, brk, pc, l, up, next) ==
  /\ guest[s].pc = pc
  /\ pio_read_C(s, brk)
  /\ Goto(s, IF (l \in ReadHalf(s, "CL")) = up THEN next ELSE pc)
  /\ UNCHANGED got

(* Raise or drop line l.                                                   *)
Signal(s, brk, pc, l, up, next) ==
  /\ guest[s].pc = pc
  /\ pio_write_C(s, "CH", l, up, brk)
  /\ Goto(s, next)
  /\ UNCHANGED got

Put(s, brk) ==
  /\ guest[s].pc = "put"
  /\ \E b \in Bytes :
       /\ pio_write_AB(s, "B", b, brk)
       /\ guest' = [guest EXCEPT ![s] = [pc |-> "DAVup", byte |-> b]]
  /\ UNCHANGED got

Get(s, brk) ==
  /\ guest[s].pc = "get"
  /\ pio_read_AB(s, "A", brk)
  /\ got' = [got EXCEPT ![s] = ReadABValue(s, "A")]
  /\ Goto(s, "DACup")

(* One instruction of a program that keeps to the handshake.               *)
Handshake(s, brk) ==
  \/ Poll(s, brk, "wantRFD", RFD, TRUE, "put")
  \/ Put(s, brk)
  \/ Signal(s, brk, "DAVup", DAV, TRUE, "wantDAC")
  \/ Poll(s, brk, "wantDAC", DAC, TRUE, "DAVdown")
  \/ Signal(s, brk, "DAVdown", DAV, FALSE, "wantNoDAC")
  \/ Poll(s, brk, "wantNoDAC", DAC, FALSE, "RFDup")
  \/ Signal(s, brk, "RFDup", RFD, TRUE, "wantDAV")
  \/ Poll(s, brk, "wantDAV", DAV, TRUE, "RFDdown")
  \/ Signal(s, brk, "RFDdown", RFD, FALSE, "get")
  \/ Get(s, brk)
  \/ Signal(s, brk, "DACup", DAC, TRUE, "wantNoDAV")
  \/ Poll(s, brk, "wantNoDAV", DAV, FALSE, "DACdown")
  \/ Signal(s, brk, "DACdown", DAC, FALSE, "wantRFD")

(* One instruction of any other program: an access of the chips or, the    *)
(* last disjunct, any other instruction.  It writes only outputs, one byte *)
(* value, and drops lines: what it writes does not matter to the thread.   *)
AnyAccess(s, brk) ==
  /\ UNCHANGED program
  /\ \/ pio_read_C(s, brk)
     \/ \E p \in Ports : pio_read_AB(s, p, brk)
     \/ \E p \in Ports : /\ pio_AB[s][p].type = "WRITE"
                         /\ pio_write_AB(s, p, 0, brk)
     \/ pio_write_C(s, "CL", DAV, FALSE, brk)
     \/ pio_write_C_direct(s, {}, {}, brk)
     \/ \E m \in ModeBytes : pio_set_mode(s, m, brk)
     \/ ~brk /\ UNCHANGED <<chips, select_main_cpu>>

Instruction(s, brk) == IF wild THEN AnyAccess(s, brk) ELSE Handshake(s, brk)

-----------------------------------------------------------------------------
(* The thread: emu_main, z80_emu and the interrupt updates                 *)

Call(s, goal) == [cpu |-> s, goal |-> goal]    \* goal 0: no limit
Granted(s) == IF s = "M" THEN MainSlice ELSE SubSlice

(* A pass of emu_main: which CPUs are called and for how long.  With        *)
(* -cpu 2 a CPU is called for the whole states of its account; the         *)
(* fraction stays in the account and goes into the next grant.             *)
GrantBug(st) == IF \E s \in Sides : st[s] < JACKUP
                  THEN [s \in Sides |-> st[s] + Granted(s)] ELSE st
Grant(st) == IF \A s \in Sides : st[s] < JACKUP
               THEN [s \in Sides |-> st[s] + Granted(s)] ELSE st
Calls(st, s) ==
  IF st[s] >= JACKUP THEN <<Call(s, st[s] \div JACKUP)>> ELSE <<>>
Pass ==
  /\ plan = <<>> /\ ~frame
  /\ \/ /\ cpu_timing = 0
        /\ plan' = <<Call(IF select_main_cpu THEN "M" ELSE "S", 0)>>
        /\ UNCHANGED <<dual_cpu_count, state>>
     \/ /\ cpu_timing = 1 /\ dual_cpu_count = 0
        /\ plan' = <<Call("M", 0)>>
        /\ UNCHANGED <<dual_cpu_count, state>>
     \/ /\ cpu_timing = 1 /\ dual_cpu_count # 0
        /\ plan' = <<Call("M", 1), Call("S", 1)>>
        /\ UNCHANGED <<dual_cpu_count, state>>
     \/ /\ cpu_timing = 2
        /\ state' = Grant(state)
        /\ plan' = Calls(Grant(state), "M") \o Calls(Grant(state), "S")
        /\ UNCHANGED dual_cpu_count
  /\ UNCHANGED <<chips, cpu_timing, select_main_cpu, done, state0, lapse, frame,
                 program, wild, resets>>

(* The interrupt updates ask for a new frame: the main CPU's after every    *)
(* state_of_vsync states, the sub CPU's only with -cpu 0 and 1, and after   *)
(* sub_load_rate frames of its own time.                                   *)
FrameDue(s, t) ==
  IF s = "M" THEN t >= state_of_vsync
  ELSE cpu_timing < 2 /\ sub_load_rate > 0 /\ t >= sub_load_rate * state_of_vsync
RestBug(s, t) == IF s = "M" /\ ~FrameDue(s, t) THEN t ELSE 0
Rest(s, t) ==
  IF FrameDue(s, t) THEN IF s = "M" THEN t - state_of_vsync ELSE 0
  ELSE IF s = "S" /\ ~(cpu_timing < 2 /\ sub_load_rate > 0) THEN lapse[s] ELSE t

(* dual_cpu_count after an instruction of s: set by an access that wakes   *)
(* the sub CPU, and counted down when the sub CPU's turn is over.          *)
DualCountBug(s, brk, ends) ==
  IF cpu_timing # 1 THEN dual_cpu_count
  ELSE IF brk THEN CPU_1_COUNT
  ELSE IF ends THEN dual_cpu_count - 1
  ELSE dual_cpu_count
DualCount(s, brk, ends) ==
  IF cpu_timing # 1 THEN dual_cpu_count
  ELSE IF brk THEN CPU_1_COUNT
  ELSE IF s = "S" /\ ends THEN dual_cpu_count - 1
  ELSE dual_cpu_count

(* The interrupt update is due at the end of the interval, at the goal of    *)
(* the call, after a break-off, or because the instruction asked for it.   *)
(* The call of z80_emu ends broken off, with a frame, or at its goal.      *)
Goal == Head(plan).goal
UpdateDue(t0, asked) ==
  asked \/ t0 >= Icount \/ (Goal # 0 /\ t0 >= Goal - done)
EmuEnds(s, t0, brk, update) ==
  brk \/ (update /\ (FrameDue(s, lapse[s] + t0) \/ (Goal # 0 /\ Goal <= done + t0)))

(* The states used by an instruction of s, t0 since the last update, go     *)
(* into the frame's count at an update, and into the account of -cpu 2     *)
(* when the call ends.  An interrupt taken after the update (`taken' states)*)
(* counts towards the next one, also when the call ends here.              *)
Settle(s, t0, brk, update, ends, taken) ==
  /\ state0' = [state0 EXCEPT ![s] = IF update THEN taken ELSE t0]
  /\ lapse' = [lapse EXCEPT ![s] = IF update THEN Rest(s, lapse[s] + t0) ELSE @]
  /\ frame' = (frame \/ (update /\ FrameDue(s, lapse[s] + t0)))
  /\ plan' = IF ends THEN Tail(plan) ELSE plan
  /\ done' = IF ends \/ Goal = 0 THEN 0 ELSE IF update THEN done + t0 ELSE done
  /\ state' = IF ends /\ cpu_timing = 2 THEN [state EXCEPT ![s] = @ - (done + t0) * JACKUP]
              ELSE state
  /\ dual_cpu_count' = DualCount(s, brk, ends)

(* One instruction of the CPU that runs; `refresh': it asks for an update.  *)
Step(s) ==
  /\ plan # <<>> /\ Head(plan).cpu = s
  /\ \E brk, refresh \in BOOLEAN, cost \in Costs, taken \in {0} \union IntCosts :
       LET t0 == state0[s] + cost
           update == UpdateDue(t0, brk \/ refresh)
       IN /\ Instruction(s, brk)
          /\ Settle(s, t0, brk, update, EmuEnds(s, t0, brk, update), taken)
  /\ UNCHANGED <<cpu_timing, wild, resets>>

(* The frame event takes emu_main back to the loop, which draws and polls   *)
(* the keys; there the user may reset the machine.  sub_total_state is     *)
(* static in sub_INT_update and keeps its value.                           *)
Redraw ==
  /\ frame /\ plan = <<>>
  /\ frame' = FALSE
  /\ UNCHANGED <<chips, cpu_timing, select_main_cpu, dual_cpu_count, state, plan,
                 done, state0, lapse, program, wild, resets>>

StartPrograms ==
  /\ guest' = [s \in Sides |-> [pc |-> IF s = "M" THEN "wantRFD" ELSE "RFDup",
                                byte |-> None]]
  /\ got' = [s \in Sides |-> None]

emu_reset ==
  /\ select_main_cpu' = TRUE
  /\ dual_cpu_count' = 0
  /\ state' = [s \in Sides |-> 0]

quasi88_reset ==
  /\ frame /\ plan = <<>>
  /\ resets < MaxResets
  /\ resets' = resets + 1
  /\ frame' = FALSE
  /\ pio_init
  /\ emu_reset
  /\ StartPrograms
  /\ state0' = [s \in Sides |-> 0]
  /\ lapse' = [lapse EXCEPT !["M"] = 0]
  /\ UNCHANGED <<cpu_timing, plan, done, wild>>

PioInit ==
  /\ pio_AB = ResetAB /\ pio_C = ResetC
  /\ cpu_timing \in Timings
  /\ select_main_cpu = TRUE /\ dual_cpu_count = 0
  /\ state = [s \in Sides |-> 0]
  /\ plan = <<>> /\ done = 0
  /\ state0 = [s \in Sides |-> 0] /\ lapse = [s \in Sides |-> 0]
  /\ frame = FALSE
  /\ guest = [s \in Sides |-> [pc |-> IF s = "M" THEN "wantRFD" ELSE "RFDup",
                               byte |-> None]]
  /\ got = [s \in Sides |-> None]
  /\ wild \in BOOLEAN
  /\ resets = 0

(* The emulator's thread: it never stops between resets.                   *)
Thread == Pass \/ Redraw \/ \E s \in Sides : Step(s)
PioNext == Thread \/ quasi88_reset

PioSpec == PioInit /\ [][PioNext]_pioVars /\ WF_pioVars(Thread)

-----------------------------------------------------------------------------
(* Properties                                                              *)

(* Type invariant of the chips, the scheduling state and the programs.     *)
PioTypeOK ==
  /\ pio_AB \in [Sides -> [Ports -> [type : {"READ", "WRITE"}, exist : BOOLEAN,
                                   data : Bytes \union {0}]]]
  /\ pio_C \in [Sides -> [Halves -> [type : {"READ", "WRITE"}, cont_f : BOOLEAN,
                                   data : SUBSET Lines]]]
  /\ cpu_timing \in 0..2
  /\ select_main_cpu \in BOOLEAN
  /\ dual_cpu_count \in 0..CPU_1_COUNT
  /\ state \in [Sides -> Int]
  /\ done \in Nat /\ state0 \in [Sides -> Nat] /\ lapse \in [Sides -> Nat]
  /\ frame \in BOOLEAN
  /\ guest \in [Sides -> [pc : Pcs, byte : Bytes \union {None}]]
  /\ got \in [Sides -> Bytes \union {0, None}]
  /\ wild \in BOOLEAN /\ resets \in 0..MaxResets

(* With -cpu 2 the two CPUs stay in step: however their calls are broken    *)
(* off and whatever fraction of a state each grant leaves over, no account *)
(* ever holds a whole state more than one grant, or owes a whole           *)
(* instruction and an interrupt taken.  A CPU that was broken off keeps    *)
(* what it has not used and catches up (emu_main and z80_emu).             *)
CreditsBounded ==
  \A s \in Sides : /\ state[s] < Granted(s) + JACKUP
                   /\ \E c \in Costs, i \in {0} \union IntCosts :
                        state[s] >= (1 - c - i) * JACKUP

(* What the link promises, seen in the state of the chips' users: a byte    *)
(* is on its way from the write of the port until the other side has read  *)
(* it.                                                                     *)
Taken(s) == guest[Peer(s)].pc \in {"DACup", "wantNoDAV"}
OnItsWay ==
  [s \in Sides |-> IF /\ ~wild
                     /\ guest[s].pc \in {"DAVup", "wantDAC"}
                     /\ ~Taken(s)
                  THEN guest[s].byte ELSE None]
L == INSTANCE Link WITH held <- OnItsWay

(* pio.c and the scheduling of emu.c implement the link: with each -cpu     *)
(* option, wherever the CPUs are interrupted and whenever the machine is   *)
(* reset, a byte sent with the handshake is received once and unchanged.   *)
LinkImplemented == L!LinkSpec

(* With each -cpu option both programs get on: each keeps sending for ever, *)
(* so a CPU that waits for the other one always lets it run.               *)
TransfersContinue == \A s \in Sides : []<>(wild \/ guest[s].pc = "put")

(* The screen and the keys are served again and again, also when the CPU   *)
(* that runs never gives way to the other one.                             *)
FramesKeepComing == []<>frame
=============================================================================
