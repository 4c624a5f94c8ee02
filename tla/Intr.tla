-------------------------------- MODULE Intr --------------------------------
(***************************************************************************)
(* The interrupt controller of the main CPU (intr.c) and the way z80_emu   *)
(* takes its interrupts (z80.c).                                           *)
(*                                                                         *)
(* z80_emu runs instructions until the next interrupt is due or one of     *)
(* them asks for an update (CPU_REFRESH_INTERRUPT); then main_INT_update   *)
(* looks at the timers, and then an interrupt may be taken.  `pc' is the   *)
(* place in that loop.  Times are abstract: any instruction may be the     *)
(* last before an update, and an update may find any running timer over.   *)
(*                                                                         *)
(* The sources are composed with their devices in Interrupts: the serial   *)
(* port in Sio, the sound chip in Sound; VSYNC and RTC only count time.    *)
(* The high-speed BASIC mode, in which ports ask for no update, is left    *)
(* out.                                                                    *)
(***************************************************************************)
EXTENDS Integers, FiniteSets

VARIABLES
  pc,             \* place in the loop of z80_emu: "run" (instructions),
                  \* "single" (one instruction: icount is 0), "update", "check"
  flags,          \* sources with a request: RS232C_flag, VSYNC_flag, ...
  enabled,        \* intr_sio_enable, intr_vsync_enable, intr_rtc_enable
  intr_level,
  INT_active, IFF, skip_intr_chk,
  taken           \* the source taken by the last check, or "none"

intrVars == <<pc, flags, enabled, intr_level, INT_active, IFF, skip_intr_chk,
              taken>>

Masked  == {"RS232C", "VSYNC", "RTC"}      \* the sources port E6H masks
Sources == Masked \cup {"SOUND"}

\* The lowest level at which a source is let through.
Threshold == [s \in Sources |-> CASE s = "RS232C" -> 1 [] s = "VSYNC" -> 2
                                  [] s = "RTC" -> 3    [] OTHER -> 5]

Requests(fl, level) == {s \in fl : Threshold[s] <= level}

\* RS232C first, SOUND last.
Highest(S) == CHOOSE s \in S : \A t \in S : Threshold[s] <= Threshold[t]

IntrInit ==
  /\ pc = "run"
  /\ flags = {} /\ enabled = {} /\ intr_level = 7
  /\ INT_active = FALSE /\ IFF = FALSE /\ skip_intr_chk = FALSE
  /\ taken = "none"

\* After an instruction: on to the next one, unless time is up or the
\* instruction has asked for an update.
Running == pc \in {"run", "single"}
After(refresh) ==
  pc' \in (IF refresh \/ pc = "single" THEN {"update"} ELSE {"run", "update"})

(* Instructions of the program. *)
Plain ==
  /\ Running /\ After(FALSE)
  /\ UNCHANGED <<flags, enabled, intr_level, INT_active, IFF, skip_intr_chk,
                 taken>>

DI ==
  /\ Running /\ After(FALSE)
  /\ IFF' = FALSE
  /\ UNCHANGED <<flags, enabled, intr_level, INT_active, skip_intr_chk, taken>>

\* EI puts the interrupt off for one instruction, if one is waiting or the
\* check comes next.
EI ==
  /\ Running
  /\ IFF' = TRUE
  /\ \/ pc' = "update" /\ skip_intr_chk' = TRUE
     \/ pc = "run" /\ ~INT_active /\ UNCHANGED <<pc, skip_intr_chk>>
  /\ UNCHANGED <<flags, enabled, intr_level, INT_active, taken>>

\* Port E4H: the level; 7 with the priority bit.
OutLevel(level) ==
  /\ Running /\ After(TRUE)
  /\ intr_level' = level
  /\ skip_intr_chk' = TRUE
  /\ UNCHANGED <<flags, enabled, INT_active, IFF, taken>>

\* Port E6H: the masks; a masked request is forgotten.  (Sio drops the byte
\* that came in as well.)
OutMaskKeeps(set) ==
  /\ Running /\ After(TRUE)
  /\ enabled' = set
  /\ UNCHANGED flags
  /\ UNCHANGED <<intr_level, INT_active, IFF, skip_intr_chk, taken>>
OutMask(set) ==
  /\ Running /\ After(TRUE)
  /\ enabled' = set
  /\ flags' = flags \ (Masked \ set)
  /\ UNCHANGED <<intr_level, INT_active, IFF, skip_intr_chk, taken>>

\* main_INT_update, but for the devices: `requests' are theirs.
INT_update(requests) ==
  /\ pc = "update" /\ pc' = "check"
  /\ \E over \in SUBSET {"VSYNC", "RTC"} :
       flags' = flags \cup requests \cup (over \cap enabled)
  /\ INT_active' = (Requests(flags', intr_level) # {})
  /\ UNCHANGED <<enabled, intr_level, IFF, skip_intr_chk, taken>>

\* main_INT_chk: the answer to the CPU.  set_INT_active comes before the
\* level drops to 0.
INT_chk ==
  LET due == Requests(flags, intr_level)
  IN IF due = {}
     THEN /\ INT_active' = FALSE /\ taken' = "none"
          /\ UNCHANGED <<flags, intr_level, IFF>>
     ELSE /\ taken' = Highest(due)
          /\ flags' = flags \ {taken'}
          /\ INT_active' = (Requests(flags', intr_level) # {})
          /\ intr_level' = 0
          /\ IFF' = FALSE

\* The end of a turn of z80_emu's loop.
Check ==
  /\ pc = "check"
  /\ skip_intr_chk' = FALSE
  /\ pc' = IF skip_intr_chk /\ IFF /\ INT_active THEN "single" ELSE "run"
  /\ IF ~skip_intr_chk /\ IFF /\ INT_active
     THEN INT_chk
     ELSE taken' = "none" /\ UNCHANGED <<flags, intr_level, INT_active, IFF>>
  /\ UNCHANGED enabled

\* z80_reset and main_INT_init.
IntrReset ==
  /\ pc' = "run"
  /\ flags' = {} /\ enabled' = {} /\ intr_level' = 7
  /\ INT_active' = FALSE /\ IFF' = FALSE /\ skip_intr_chk' = FALSE
  /\ taken' = "none"

\* The controller's part of a state file, and back: statesave_intr and
\* stateload_intr, with the CPU's own bits.
IntrKept == [pc |-> pc, flags |-> flags, enabled |-> enabled, level |-> intr_level,
             active |-> INT_active, IFF |-> IFF, skip |-> skip_intr_chk,
             taken |-> taken]
IntrRestore(k) ==
  /\ pc' = k.pc /\ flags' = k.flags /\ enabled' = k.enabled
  /\ intr_level' = k.level /\ INT_active' = k.active
  /\ IFF' = k.IFF /\ skip_intr_chk' = k.skip /\ taken' = k.taken
=============================================================================
