------------------------------ MODULE MainLoop ------------------------------
(***************************************************************************)
(* The main loop of the emulator: quasi88_loop and its modes               *)
(* (quasi88.cpp), the emulation of one field (emu_main in emu.c, z80_emu   *)
(* in z80.c, main_INT_update in intr.c, sub_INT_update in pc88sub.c),      *)
(* the pause (pause.c), and the polling of the user (event_update).        *)
(*                                                                         *)
(* It starts where quasi88_start ends.  Which CPU emu_main runs is left    *)
(* open: the schedules of -cpu 0 (the default) and -cpu 1 are all allowed, *)
(* whatever the programs do with the PIO.  -cpu 2 alternates the CPUs by   *)
(* itself.  EVENT_DEBUG and EVENT_QUIT, and the modes MONITOR and QUIT,    *)
(* are left out: without USE_MONITOR quasi88_debug pauses, and nothing in  *)
(* this port calls quasi88_quit.                                           *)
(***************************************************************************)
EXTENDS Integers

CONSTANTS
  Keys,        \* what the user can do between two polls
  VsyncBase,   \* vsync_intr_base, in CPU states
  VrtcBase,    \* vrtc_base: from the VSYNC to the display period
  VrtcBase2,   \* vrtc_base2: the display period
  RtcBase,     \* rtc_intr_base, the longest slice of the main CPU
  SubSlice,    \* the longest slice of the sub CPU, between FDC events
  Over,        \* by how much the last instruction may overrun a slice
  Boost,       \* boost: fields per picture
  SubLoad      \* sub_load_rate; it may be set to 0, but then nothing ends a
               \* field that the sub CPU does not hand back

ASSUME KeysAssumption == Keys \subseteq {"menu", "pause", "esc", "reset"}
ASSUME BasesAssumption ==
  /\ {VsyncBase, VrtcBase, VrtcBase2, RtcBase, SubSlice, Boost, SubLoad}
       \subseteq Nat \ {0}
  /\ Over \in Nat /\ Over + Over <= VrtcBase2
  /\ VrtcBase + VrtcBase2 <= VsyncBase

VARIABLES
  step, stepAfterWait,   \* the static variables of quasi88_loop
  mode, nextMode,
  flags,                 \* quasi88_event_flags
  pc,                    \* where the thread is: between two calls of
                         \* quasi88_loop ("loop"), or in emu_main, about to
                         \* run a CPU ("emu"), in z80_emu ("z80"), or back
                         \* from it ("ran")
  cpu, goal,             \* z80_emu: the CPU, and z80_state_goal (0: no limit)
  vsyncTimer, ctrlVrtc, vrtcTimer, boostCnt,   \* intr.c
  subTotal,              \* sub_total_state
  key,                   \* what the user did and no poll has seen yet
  picture                \* has the last emulated state been drawn?

loop  == <<step, stepAfterWait>>
modes == <<mode, nextMode>>
z80   == <<cpu, goal>>
clock == <<vsyncTimer, ctrlVrtc, vrtcTimer, boostCnt>>
vars  == <<loop, modes, flags, pc, z80, clock, subTotal, key, picture>>

Modes == {"EXEC", "MENU", "PAUSE"}
Flags == {"FRAME_UPDATE", "AUDIO_UPDATE", "MODE_CHANGED"}
NoKey == "none"

Init ==
  /\ step = "INIT" /\ stepAfterWait = "INIT"
  /\ mode = "EXEC" /\ nextMode = "EXEC"
  /\ flags = {"MODE_CHANGED"} /\ pc = "loop"
  /\ cpu = "main" /\ goal = 0
  /\ vsyncTimer = VsyncBase /\ ctrlVrtc = 1 /\ vrtcTimer = VrtcBase
  /\ boostCnt = 0 /\ subTotal = 0
  /\ key = NoKey /\ picture = "current"

-----------------------------------------------------------------------------
(* The user, and event_update                                              *)

Press == /\ key = NoKey /\ key' \in Keys
         /\ UNCHANGED <<loop, modes, flags, pc, z80, clock, subTotal, picture>>

\* The mode a poll made in mode m asks set_mode for.  quasi88_key serves keys
\* in EXEC only: its branches for MENU and PAUSE are commented out.
Asked(m) == CASE m = "EXEC" /\ key = "menu"  -> "MENU"
              [] m = "EXEC" /\ key = "pause" -> "PAUSE"
              [] OTHER -> m

\* The flags after that poll, if they were f.  (set_mode also calls
\* CPU_BREAKOFF, which does nothing outside z80_emu.)
Polled(m, f) == IF Asked(m) # m THEN f \union {"MODE_CHANGED"} ELSE f

\* main_INT_init, which a reset from the system menu calls
INTInit == /\ vsyncTimer' = VsyncBase /\ ctrlVrtc' = 1
           /\ vrtcTimer' = VrtcBase /\ boostCnt' = 0

\* The rest of the poll.  The device's buttons, and so the system menu, work
\* wherever event_update is called.
EventUpdate(m) ==
  /\ key' = NoKey
  /\ nextMode' = IF Asked(m) # m THEN Asked(m) ELSE nextMode
  /\ IF key = "reset" THEN INTInit ELSE UNCHANGED clock

NoPoll == UNCHANGED <<key, nextMode, clock>>

-----------------------------------------------------------------------------
(* quasi88_loop                                                            *)

\* Step INIT: the mode asked for becomes the mode.  emu_init polls the user,
\* pause_init does not.
LoopInit ==
  /\ step = "INIT" /\ mode' = nextMode
  /\ LET f == flags \ {"MODE_CHANGED"} IN
     IF mode' = "EXEC" THEN EventUpdate(mode') /\ flags' = Polled(mode', f)
                       ELSE NoPoll /\ flags' = f
  /\ step' = "MAIN"
  /\ UNCHANGED <<stepAfterWait, pc, z80, subTotal, picture>>

\* Mutant: a request is looked at only when no picture is due.
AfterMainBug(f) ==
  /\ flags' = f \ {"FRAME_UPDATE"}
  /\ IF "FRAME_UPDATE" \in f
     THEN step' = "WAIT" /\ stepAfterWait' = "MAIN" /\ picture' = "current"
     ELSE /\ stepAfterWait' = IF "MODE_CHANGED" \in f THEN "INIT" ELSE "MAIN"
          /\ step' = stepAfterWait' /\ UNCHANGED picture

\* Mutant: the request for a picture is left standing.
AfterMainStaleBug(f) ==
  /\ flags' = f
  /\ stepAfterWait' = IF "MODE_CHANGED" \in f THEN "INIT" ELSE "MAIN"
  /\ IF "FRAME_UPDATE" \in f THEN step' = "WAIT" /\ picture' = "current"
                             ELSE step' = stepAfterWait' /\ UNCHANGED picture

\* The end of step MAIN, when the main function of the mode has left the
\* flags f: a picture that is due is drawn (screen_update) and waited for.
AfterMain(f) ==
  /\ flags' = f \ {"FRAME_UPDATE"}
  /\ stepAfterWait' = IF "MODE_CHANGED" \in f THEN "INIT" ELSE "MAIN"
  /\ IF "FRAME_UPDATE" \in f THEN step' = "WAIT" /\ picture' = "current"
                             ELSE step' = stepAfterWait' /\ UNCHANGED picture

\* Step MAIN in PAUSE: pause_main polls the user and asks for a picture.
PauseMain ==
  /\ step = "MAIN" /\ mode = "PAUSE"
  /\ EventUpdate(mode)
  /\ LET f == Polled(mode, flags) IN
     AfterMain(IF "MODE_CHANGED" \in f THEN f ELSE f \union {"FRAME_UPDATE"})
  /\ UNCHANGED <<mode, pc, z80, subTotal>>

\* Step MAIN in MENU, whose main function is commented out: nothing.
MenuMain ==
  /\ step = "MAIN" /\ mode = "MENU"
  /\ AfterMain(flags) /\ NoPoll
  /\ UNCHANGED <<mode, pc, z80, subTotal>>

\* Step WAIT: this port's wait_vsync_update never waits.
Wait == /\ step = "WAIT" /\ step' = stepAfterWait
        /\ UNCHANGED <<stepAfterWait, modes, flags, pc, z80, clock, subTotal,
                       key, picture>>

-----------------------------------------------------------------------------
(* Step MAIN in EXEC: emu_main                                             *)

EmuMain == /\ pc = "loop" /\ step = "MAIN" /\ mode = "EXEC" /\ pc' = "emu"
           /\ UNCHANGED <<loop, modes, flags, z80, clock, subTotal, key, picture>>

\* z80_emu is called for either CPU, without limit or for one step.
Z80Emu == /\ pc = "emu" /\ pc' = "z80"
          /\ cpu' \in {"main", "sub"} /\ goal' \in {0, 1}
          /\ UNCHANGED <<loop, modes, flags, clock, subTotal, key, picture>>

\* A slice ends and raises the flags e.  z80_emu goes on unless its goal is
\* set, as CPU_BREAKOFF does: for e, for a mode change that is pending (the
\* check at the end of main_INT_update and sub_INT_update), or in the program,
\* which may have read port C of the PIO.
SliceEnds(e) ==
  /\ flags' = flags \union e /\ picture' = "stale"
  /\ \E breakoff \in BOOLEAN :
       goal' = IF breakoff \/ e # {} \/ "MODE_CHANGED" \in flags THEN 1 ELSE goal
  /\ pc' = IF goal' = 0 THEN "z80" ELSE "ran"
  /\ UNCHANGED <<loop, modes, cpu, key>>

\* What vsync() and the display period ask for, at the count b of fields.
IfPicture(b, e) == IF b = 0 THEN {e} ELSE {}

\* Mutant: the countdown to the display period starts from the wrong base.
VsyncBug(s) == /\ vsyncTimer - s < 0
               /\ vsyncTimer' = vsyncTimer - s + VsyncBase
               /\ ctrlVrtc' = 1 /\ vrtcTimer' = VsyncBase
               /\ boostCnt' = (boostCnt + 1) % Boost
               /\ SliceEnds(IfPicture(boostCnt', "AUDIO_UPDATE"))

\* main_INT_update, after a slice of s states: the VSYNC, with vsync(), which
\* asks for sound and a poll ...
Vsync(s) == /\ vsyncTimer - s < 0
            /\ vsyncTimer' = vsyncTimer - s + VsyncBase
            /\ ctrlVrtc' = 1 /\ vrtcTimer' = VrtcBase
            /\ boostCnt' = (boostCnt + 1) % Boost
            /\ SliceEnds(IfPicture(boostCnt', "AUDIO_UPDATE"))

\* Mutant: the count of fields is compared with boost, which it never reaches.
DisplayBug(s) == /\ vsyncTimer - s >= 0 /\ ctrlVrtc = 1 /\ vrtcTimer - s < 0
                 /\ vsyncTimer' = vsyncTimer - s
                 /\ ctrlVrtc' = 2 /\ vrtcTimer' = vrtcTimer - s + VrtcBase2
                 /\ SliceEnds(IfPicture(boostCnt - Boost, "FRAME_UPDATE"))
                 /\ UNCHANGED boostCnt

\* ... the start of the display period, which asks for a picture ...
Display(s) == /\ vsyncTimer - s >= 0 /\ ctrlVrtc = 1 /\ vrtcTimer - s < 0
              /\ vsyncTimer' = vsyncTimer - s
              /\ ctrlVrtc' = 2 /\ vrtcTimer' = vrtcTimer - s + VrtcBase2
              /\ SliceEnds(IfPicture(boostCnt, "FRAME_UPDATE"))
              /\ UNCHANGED boostCnt

\* ... its end, after which the timer is not looked at ...
Blank(s) == /\ vsyncTimer - s >= 0 /\ ctrlVrtc = 2 /\ vrtcTimer - s < 0
            /\ vsyncTimer' = vsyncTimer - s
            /\ ctrlVrtc' = 3 /\ vrtcTimer' = 0
            /\ SliceEnds({}) /\ UNCHANGED boostCnt

\* ... or none of them.
Quiet(s) == /\ vsyncTimer - s >= 0 /\ (ctrlVrtc = 3 \/ vrtcTimer - s >= 0)
            /\ vsyncTimer' = vsyncTimer - s
            /\ vrtcTimer' = IF ctrlVrtc = 3 THEN 0 ELSE vrtcTimer - s
            /\ SliceEnds({}) /\ UNCHANGED <<ctrlVrtc, boostCnt>>

\* Mutant: the display period does not bound the slice.
IcountBug == IF vsyncTimer < RtcBase THEN vsyncTimer ELSE RtcBase

\* The bound of a slice of the main CPU: icount, but for the timers of the
\* sound and the serial line, which only shorten it.
Icount == LET c == IF vsyncTimer < RtcBase THEN vsyncTimer ELSE RtcBase
          IN  IF ctrlVrtc < 3 /\ vrtcTimer < c THEN vrtcTimer ELSE c

MainSlice == /\ pc = "z80" /\ cpu = "main"
             /\ \E s \in 1 .. Icount + Over :
                  Vsync(s) \/ Display(s) \/ Blank(s) \/ Quiet(s)
             /\ UNCHANGED subTotal

\* Mutant: a poll is not asked for.
SubEventsBug == {"FRAME_UPDATE"}

\* What the sub CPU asks for when it has run for long.
SubEvents == {"FRAME_UPDATE", "AUDIO_UPDATE"}

\* sub_INT_update: every sub_load_rate fields' worth of states the sub CPU
\* stands in for the main CPU's timers.
SubCpuSlice ==
  /\ pc = "z80" /\ cpu = "sub"
  /\ \E s \in 1 .. SubSlice + Over :
       IF subTotal + s >= SubLoad * VsyncBase
       THEN subTotal' = 0 /\ SliceEnds(SubEvents)
       ELSE subTotal' = subTotal + s /\ SliceEnds({})
  /\ UNCHANGED clock

\* Mutant: a mode change ends the loop too.
RanBug ==
  /\ pc = "ran"
  /\ LET f == IF "AUDIO_UPDATE" \in flags
              THEN Polled(mode, flags \ {"AUDIO_UPDATE"}) ELSE flags
     IN  IF f # {}
         THEN pc' = "loop" /\ AfterMain(f)
         ELSE pc' = "emu" /\ flags' = f /\ UNCHANGED <<loop, picture>>
  /\ IF "AUDIO_UPDATE" \in flags THEN EventUpdate(mode) ELSE NoPoll
  /\ UNCHANGED <<mode, z80, subTotal>>

\* Back in emu_main: sound and poll, then either the return for a picture or
\* the next CPU.  A mode change alone does not end the loop.
Ran ==
  /\ pc = "ran"
  /\ LET f == IF "AUDIO_UPDATE" \in flags
              THEN Polled(mode, flags \ {"AUDIO_UPDATE"}) ELSE flags
     IN  IF "FRAME_UPDATE" \in f
         THEN pc' = "loop" /\ AfterMain(f)
         ELSE pc' = "emu" /\ flags' = f /\ UNCHANGED <<loop, picture>>
  /\ IF "AUDIO_UPDATE" \in flags THEN EventUpdate(mode) ELSE NoPoll
  /\ UNCHANGED <<mode, z80, subTotal>>

-----------------------------------------------------------------------------

\* One step of the emulator's thread.
Run == \/ LoopInit \/ PauseMain \/ MenuMain \/ Wait
       \/ EmuMain \/ Z80Emu \/ MainSlice \/ SubCpuSlice \/ Ran

Next == Press \/ Run

Spec == Init /\ [][Next]_vars

\* The emulator's thread runs for ever: quasi88_main calls quasi88_loop until
\* it says EXIT.  Nothing makes the user press a key.
FairSpec == Spec /\ WF_vars(Run)

-----------------------------------------------------------------------------
(* Properties                                                              *)

\* Every variable stays in its domain, and the timers within their periods:
\* no slice overruns one by more than the next period makes good.
TypeOK ==
  /\ step \in {"INIT", "MAIN", "WAIT"} /\ stepAfterWait \in {"INIT", "MAIN"}
  /\ mode \in Modes /\ nextMode \in Modes
  /\ flags \in SUBSET Flags
  /\ pc \in {"loop", "emu", "z80", "ran"}
  /\ cpu \in {"main", "sub"} /\ goal \in {0, 1}
  /\ vsyncTimer \in 0 .. VsyncBase /\ ctrlVrtc \in 1 .. 3
  /\ vrtcTimer \in 0 .. VsyncBase /\ boostCnt \in 0 .. Boost - 1
  /\ subTotal \in 0 .. SubLoad * VsyncBase
  /\ key \in Keys \union {NoKey} /\ picture \in {"current", "stale"}

\* The events of a slice are dealt with before anything else runs: no picture
\* and no poll that was asked for is left to another CPU, pass or mode.
EventsConsumed ==
  pc # "ran" => flags \subseteq {"MODE_CHANGED"}

\* No mode is entered or left before the picture of the last emulated state
\* is drawn: a mode change waits for the end of the field, so that "emulate,
\* draw, wait" keeps its order (the comment at the end of emu_main's loop).
PictureCurrent == step = "INIT" => picture = "current"

\* Each field shows its picture: when the VSYNC comes, the display period of
\* the field before it has begun.
FieldOrder ==
  [][pc = "z80" /\ vsyncTimer' > vsyncTimer => ctrlVrtc # 1]_vars

\* A mode change that is asked for is made, whichever CPU is running and
\* however it was called.
ModeTakesEffect == "MODE_CHANGED" \in flags ~> mode = nextMode

\* What the user does is seen, outside the menu: in EXEC by the poll that
\* comes with the sound, even while the sub CPU hogs the emulation, in PAUSE
\* by pause_main.
KeysPolled == key # NoKey ~> key = NoKey \/ mode = "MENU"

\* What is emulated is drawn, sooner or later, with whatever boost.
PictureRefreshed == picture = "stale" ~> picture = "current"

\* event_update is called about every 1/60 s (the comment above it in
\* event.cpp), so that what the user does is seen in every mode.
EveryKeyPolled == key # NoKey ~> key = NoKey

=============================================================================
