------------------------------- MODULE Sound -------------------------------
(***************************************************************************)
(* The sound board (soundbd.c) as far as the main CPU can tell: its two    *)
(* timers, the ADPCM memory of sound board II, the flags they set, and the *)
(* interrupt made of them (main_INT_update and check_sound_parm_update in  *)
(* intr.c).  Tones, periods and prescalers are left out: a timer that is   *)
(* loaded runs over some time or other.                                    *)
(***************************************************************************)
EXTENDS Intr

CONSTANTS
  SoundII,     \* whether sound board II is in
  AdpcmTop     \* last address of the ADPCM memory: 3FFFFH in the code

ASSUME SoundAssumption == SoundII \in BOOLEAN /\ AdpcmTop \in Nat \ {0}

VARIABLES
  intr_sound_enable,
  LOAD, ENABLE,     \* timers that run, that set their flag
  FLAG,             \* flags that are up: "A", "B", "BRDY", "EOS"
  EN, MSK,          \* flags that may interrupt, that are held down
  SOUND_level,
  sound_flags_update,  \* register whose write the next update takes in, or 0
  reg,              \* reg[r]: what was written there last
  PCMBSY, notice_EOS, repeat,
  stat,             \* the ADPCM unit: "HALT", "PLAY", "WRITE", "READ"
  data_addr, start_addr, stop_addr, limit_addr,
  read_dummy, delay \* reads still to ignore; flags the next status read raises

adpcmVars == <<PCMBSY, notice_EOS, repeat, stat, data_addr, start_addr,
               stop_addr, limit_addr, read_dummy, delay>>
timerVars == <<LOAD, ENABLE, EN, MSK, sound_flags_update, reg>>
soundVars == <<intr_sound_enable, timerVars, FLAG, SOUND_level, adpcmVars>>

Timers == {"A", "B"}
Flags  == {"A", "B", "BRDY", "EOS"}
Addrs  == 0..AdpcmTop
Next1(a) == (a + 1) % (AdpcmTop + 1)

SoundInit ==
  /\ intr_sound_enable = FALSE
  /\ LOAD = {} /\ ENABLE = {} /\ FLAG = {} /\ EN = Timers /\ MSK = {}
  /\ SOUND_level = FALSE /\ sound_flags_update = 0
  /\ reg = [r27 |-> [load |-> {}, enable |-> {}, reset |-> {}],
            r29 |-> Timers, r10 |-> [irq_reset |-> FALSE, masks |-> {}]]
  /\ PCMBSY = FALSE /\ notice_EOS = FALSE /\ repeat = FALSE
  /\ stat = "HALT" /\ data_addr = 0 /\ start_addr = 0 /\ stop_addr = 0
  /\ limit_addr = 0 /\ read_dummy = 2 /\ delay = {}

(* The program's accesses. *)

\* A write that the next update must look at asks for it at once.
Written(refresh) ==
  /\ Running /\ After(refresh)
  /\ UNCHANGED <<flags, enabled, intr_level, INT_active, IFF, skip_intr_chk,
                 taken>>

\* Port AAH: the sound interrupt on or off.  A request that waits stays.
OutSoundEnable(on) ==
  /\ intr_sound_enable' = on
  /\ Written(TRUE)
  /\ UNCHANGED <<timerVars, FLAG, SOUND_level, adpcmVars>>

\* Registers 27H, 29H and, of board II, 10H: the data waits for the update.
OutReg(r, name, data) ==
  /\ reg' = [reg EXCEPT ![name] = data]
  /\ sound_flags_update' = r
  /\ Written(TRUE)
  /\ UNCHANGED <<intr_sound_enable, LOAD, ENABLE, EN, MSK, FLAG, SOUND_level,
                 adpcmVars>>
OutTimers(load, enable, reset) ==
  OutReg(39, "r27", [load |-> load, enable |-> enable, reset |-> reset])
OutEnables(set) == SoundII /\ OutReg(41, "r29", set)
\* With irq_reset all flags go down, else the masks are set.
OutFlagControl(irq_reset, masks) ==
  SoundII /\ OutReg(16, "r10", [irq_reset |-> irq_reset, masks |-> masks])

\* The length main_INT_update counts down to the end of a replay, less 1;
\* 0 when the end lies behind the limit and is never met.
ReplayLength(S, E, L) ==
  CASE E = L            -> IF S < E THEN E - S ELSE AdpcmTop - S
    [] S < E /\ S < L   -> IF E < L THEN E - S ELSE 0
    [] E < S /\ E < L   -> IF S < L THEN L - S + E ELSE AdpcmTop - S
    [] OTHER            -> IF S < E THEN E - S ELSE AdpcmTop - S

\* Register 00H of board II: start, repeat, memory, record, reset.
OutControl(start, again, mem, rec, rst) ==
  /\ SoundII
  /\ repeat' = (again /\ ~rst)
  /\ LET begins == ~PCMBSY /\ mem
         plays == begins /\ start
     IN /\ PCMBSY' = (~rst /\ (plays \/ (PCMBSY /\ mem)))
        /\ notice_EOS' = IF plays
                         THEN ReplayLength(start_addr, stop_addr, limit_addr) # 0
                         ELSE notice_EOS
        /\ stat' = CASE ~mem -> "HALT"
                     [] plays -> "PLAY"
                     [] begins /\ rec -> "WRITE"
                     [] begins -> "READ"
                     [] OTHER -> stat
        /\ data_addr' = IF begins /\ ~start THEN start_addr ELSE data_addr
        /\ delay' = IF begins /\ ~start /\ rec THEN delay \cup {"BRDY"} ELSE delay
        /\ read_dummy' = IF begins /\ ~start /\ ~rec THEN 2 ELSE read_dummy
  /\ Written(FALSE)
  /\ UNCHANGED <<intr_sound_enable, timerVars, FLAG, SOUND_level, start_addr,
                 stop_addr, limit_addr>>

\* Registers 02H to 05H, 0CH and 0DH.
OutAddress(which, a) ==
  /\ SoundII
  /\ start_addr' = IF which = "start" THEN a ELSE start_addr
  /\ data_addr' = IF which = "start" THEN a ELSE data_addr
  /\ stop_addr' = IF which = "stop" THEN a ELSE stop_addr
  /\ limit_addr' = IF which = "limit" THEN a ELSE limit_addr
  /\ Written(FALSE)
  /\ UNCHANGED <<intr_sound_enable, timerVars, FLAG, SOUND_level, PCMBSY,
                 notice_EOS, repeat, stat, read_dummy, delay>>

\* Register 08H: one byte into the memory.
OutAdpcm ==
  /\ SoundII
  /\ IF stat # "WRITE" THEN UNCHANGED <<data_addr, delay>>
     ELSE /\ delay' = delay \cup {"BRDY"} \cup
                      (IF data_addr \in {stop_addr, AdpcmTop} THEN {"EOS"} ELSE {})
          /\ data_addr' = Next1(data_addr)
  /\ Written(FALSE)
  /\ UNCHANGED <<intr_sound_enable, timerVars, FLAG, SOUND_level, PCMBSY,
                 notice_EOS, repeat, stat, start_addr, stop_addr, limit_addr,
                 read_dummy>>

\* Register 08H, read: two reads for nothing, then the bytes before the last.
InAdpcm ==
  /\ SoundII /\ stat = "READ"
  /\ read_dummy' = IF read_dummy > 0 THEN read_dummy - 1 ELSE 0
  /\ data_addr' = IF read_dummy = 0 /\ data_addr # stop_addr
                  THEN Next1(data_addr) ELSE data_addr
  /\ FLAG' = IF data_addr' = stop_addr THEN FLAG
             ELSE IF "BRDY" \in MSK THEN FLAG \ {"BRDY"} ELSE FLAG \cup {"BRDY"}
  /\ Written(FALSE)
  /\ UNCHANGED <<intr_sound_enable, timerVars, SOUND_level, PCMBSY, notice_EOS,
                 repeat, stat, start_addr, stop_addr, limit_addr, delay>>

\* The status of board II: raises the flags that were delayed.
InStatus2 ==
  /\ SoundII
  /\ FLAG' = FLAG \cup (delay \ MSK)
  /\ delay' = {}
  /\ Written(FALSE)
  /\ UNCHANGED <<intr_sound_enable, timerVars, SOUND_level, PCMBSY, notice_EOS,
                 repeat, stat, data_addr, start_addr, stop_addr, limit_addr,
                 read_dummy>>

(* The update. *)

\* The flags after the timers in `over' have run over: a masked one drops.
Raised(over) == (FLAG \cup over) \ (MSK \cap over)

\* Mutant: the reset of register 10H leaves the flags alone.
FlagsUpdatedBug(fl) == IF sound_flags_update = 39 THEN fl \ reg.r27.reset ELSE fl

\* check_sound_parm_update, on the flags fl.
FlagsUpdated(fl) ==
  CASE sound_flags_update = 39 -> fl \ reg.r27.reset
    [] sound_flags_update = 16 /\ reg.r10.irq_reset -> {}
    [] OTHER -> fl
check_sound_parm_update ==
  /\ IF sound_flags_update = 39
     THEN LOAD' = reg.r27.load /\ ENABLE' = reg.r27.enable
     ELSE UNCHANGED <<LOAD, ENABLE>>
  /\ EN' = IF sound_flags_update = 41 THEN reg.r29 ELSE EN
  /\ MSK' = IF sound_flags_update = 16 /\ ~reg.r10.irq_reset
            THEN reg.r10.masks ELSE MSK
  /\ sound_flags_update' = 0

\* The sound part of main_INT_update: `over' are the counters that have run
\* over.  The request is made where the level rises.
CanBeOver == LOAD \cup (IF PCMBSY THEN {"BRDY"} ELSE {})
                  \cup (IF PCMBSY /\ notice_EOS THEN {"EOS"} ELSE {})
LevelUnmasked == FLAG' \cap EN' # {}
Level == FLAG' \cap EN' # {} /\ intr_sound_enable
BusyForever(over) == PCMBSY
BusyAfter(over) == PCMBSY /\ ("EOS" \in over => repeat)
sound_intr(over) ==
  /\ over \subseteq CanBeOver
  /\ FLAG' = FlagsUpdated(Raised(over \cap (ENABLE \cup {"BRDY", "EOS"})))
  /\ check_sound_parm_update
  /\ PCMBSY' = BusyAfter(over)
  /\ notice_EOS' = (notice_EOS /\ "EOS" \notin over)
  /\ SOUND_level' = Level
  /\ UNCHANGED <<intr_sound_enable, reg, repeat, stat, data_addr, start_addr,
                 stop_addr, limit_addr, read_dummy, delay>>
SoundRequest == IF SOUND_level' /\ ~SOUND_level THEN {"SOUND"} ELSE {}

\* sound_board_init: of the ADPCM unit only the flags and the read counter;
\* the masks of board II's own flags stay.
SoundReset ==
  /\ intr_sound_enable' = FALSE
  /\ LOAD' = {} /\ ENABLE' = {} /\ FLAG' = {} /\ EN' = Timers
  /\ MSK' = MSK \ Timers
  /\ SOUND_level' = FALSE
  /\ reg' = [r27 |-> [load |-> {}, enable |-> {}, reset |-> {}],
             r29 |-> Timers, r10 |-> [irq_reset |-> FALSE, masks |-> {}]]
  /\ PCMBSY' = FALSE /\ read_dummy' = 2
  /\ UNCHANGED <<sound_flags_update, notice_EOS, repeat, stat, data_addr,
                 start_addr, stop_addr, limit_addr, delay>>
=============================================================================
