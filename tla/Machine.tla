------------------------------ MODULE Machine -------------------------------
(***************************************************************************)
(* A program on the main CPU, the frames of the main loop, and the user:   *)
(* the ports of Memory, Crtc and Screen as main_io_out serves them, a      *)
(* reset and the options changed while running (pc88main.c, quasi88.cpp).  *)
(*                                                                         *)
(* A program of the scene "map" moves memory about, one of the scene       *)
(* "vram" works with the banks of video RAM and the ALU, one of the scene  *)
(* "screen" on the picture, one of "crtc" on its format; in the scene      *)
(* "user" the machine is the user's.  In the scene "state" states are      *)
(* saved and loaded while it runs; one of the scene "clock" sets and reads *)
(* the date, and the picture stands still.                                 *)
(* Each takes at most MaxActs[scene] steps; frames go on.                  *)
(***************************************************************************)
EXTENDS Suspend, Calendar

CONSTANTS
  Scenes,        \* the scenes to run
  Windows,       \* pages sent to port 70H
  AluOps,        \* what port 34H is told to do with each plane
  MaxActs        \* steps of the program and the user in each scene

ASSUME MachineAssumption ==
  /\ Scenes \subseteq DOMAIN MaxActs /\ \A s \in Scenes : MaxActs[s] \in Nat
  /\ Windows \subseteq 0..255
  /\ AluOps \subseteq [Planes -> {"none", "set", "reset", "invert"}]

VARIABLES scene, acts

machineVars == <<memoryVars, crtcVars, screenVars>>

Acts == step = "MAIN" /\ acts < MaxActs[scene] /\ acts' = acts + 1
Act(s) == scene = s /\ Exec /\ Acts
Stays == UNCHANGED scene

(***************************************************************************)
(* The program.                                                            *)
(***************************************************************************)
NoCalls == last' = Nothing /\ UNCHANGED <<sound_board, age, file_disk, open_disk,
                                           file_state, card, resumed>>
NoClock == UNCHANGED calendarVars
Silent == MarkNone /\ UNCHANGED crtcVars

MapPorts ==
  /\ Act("map") /\ Stays /\ NoCalls /\ NoClock
  /\ \/ \E b \in SUBSET {"64RAM", "N"} : OutGrphCtrl(b \cup {"200", "COLOR"})
     \/ \E b \in SUBSET {"TEXT_MAIN", "EVRAM"}, k \in {0, 3} : OutMiscCtrl(b, k)
     \/ \E w \in Windows \cup {NextWindow} : OutWindow(w) /\ Silent
     \/ \E n \in BOOLEAN : OutExtRom(n) /\ Silent
     \/ \E rw \in SUBSET {"R", "W"} : OutExtCtrl(rw) /\ Silent
     \/ \E d \in ExtBytes : OutExtBank(d) /\ Silent
     \/ \E n \in BOOLEAN, b \in {0, 31} : OutJisho(n, b) /\ Silent

VramPorts ==
  /\ Act("vram") /\ Stays /\ NoCalls /\ NoClock
  /\ \/ \E b \in SUBSET {"EVRAM"} : OutMiscCtrl(b, 0)
     \/ \E op \in AluOps : OutAlu1(op) /\ Silent
     \/ \E d \in {{}, {1}}, m \in {"op", "restore", "r2b", "b2r"}, a \in BOOLEAN :
          OutAlu2(d, m, a) /\ Silent
     \/ \E b \in 0..3 : OutBank(b) /\ Silent
     \/ \E bit \in {0, 1} : VramWrite(bit)
     \/ ALU_read /\ Silent

CrtcDisplay ==
  \/ /\ CrtcReset(Color) /\ MarkAll
  \/ /\ \E r \in BOOLEAN : CrtcStart(r, Color)
     /\ MarkPalette

CrtcCommands ==
  \/ CrtcDisplay
  \/ /\ \E m \in {0, 3} : CrtcMask(m, Color)
     /\ MarkAll
  \/ /\ \/ \E on \in BOOLEAN : CrtcLoadCursor(on)
        \/ \E c \in {READ_LIGHT_PEN, RESET_INTERRUPT, RESET_COUNTERS} : CrtcOther(c)
        \/ \E d \in {0, 1} : CursorByte(d)
     /\ MarkNone

Dmac ==
  \/ (\E on \in BOOLEAN : dmac_out_mode(on, Color)) /\ MarkAll
  \/ (\E p \in TextPages : dmac_out_address(p)) /\ MarkAll
  \/ dmac_touch /\ MarkNone
  \/ (\E pile \in BOOLEAN : grph_pile_out(pile, Color)) /\ MarkAll

ScreenPorts ==
  /\ Act("screen") /\ Stays /\ NoCalls /\ NoClock
  /\ \/ \E w \in BOOLEAN : OutSys(w)
     \/ \E b \in SUBSET {"200", "VDISP", "COLOR"} : OutGrphCtrl(b)
     \/ \E b \in {{}, {"ANALOG"}} : OutMiscCtrl(b, 0)
     \/ \E bg \in BOOLEAN, ink \in Inks : OutPalette(bg, ink)
     \/ (CrtcCommands \/ Dmac) /\ UNCHANGED memoryVars
     \/ FormatOut
     \/ \E b \in {0, MAIN} : OutBank(b) /\ Silent
     \/ \E bit \in {0, 1} : VramWrite(bit)
     \/ \E p \in TextPages : TextWrite(p)

\* The CRTC alone: a new format takes a reset, five bytes and a start.
CrtcPorts ==
  /\ Act("crtc") /\ Stays /\ NoCalls /\ NoClock
  /\ (CrtcDisplay /\ UNCHANGED memoryVars) \/ FormatOut

\* In the scene "state" calls come only while nothing blinks.
Still == blink_counter = 0 /\ text_attr_flipflop = 0

\* Any step of the program is a step for the parts that have only an age.
StatePorts ==
  /\ Act("state") /\ Still /\ Stays /\ Ages(acts') /\ NoClock
  /\ \/ OutMiscCtrl({"EVRAM"}, 0)
     \/ OutPalette(FALSE, 7)
     \/ CrtcReset(Color) /\ MarkAll /\ UNCHANGED memoryVars

(***************************************************************************)
(* The user.                                                               *)
(***************************************************************************)
UserAct == scene \in {"screen", "user", "clock"} /\ Acts
Hardware == UNCHANGED <<memoryVars, crtcVars>>

resetMachine ==
  \E hi \in HighModes : MemoryReset(hi) /\ CrtcBoot /\ ScreenReset /\ CalendarReset

User ==
  /\ UserAct /\ Stays /\ NoCalls
  /\ \/ resetMachine
     \/ /\ Hardware /\ NoClock /\ scene # "clock"
        /\ \/ \E m \in {"EXEC", "PAUSE"} : SetMode(m)
           \/ \E r \in Rates : quasi88_cfg_set_frameskip_rate(r)
           \/ \E e \in BOOLEAN : quasi88_cfg_set_no_wait(e)
           \/ \E s \in BOOLEAN : quasi88_cfg_set_showstatus(s)

\* Resetting may change the sound board.
quasi88_reset == resetMachine /\ \E b \in {"I", "II"} : ResetBoard(b)

StateCalls ==
  /\ scene = "state" /\ Still /\ Acts /\ Stays
  /\ \/ quasi88_reset
     \/ \E n \in Serials, fault \in Faults \cup {"none"}, opens \in BOOLEAN :
          quasi88_stateload(n, fault, opens) /\ NoClock
     \/ /\ UNCHANGED machineVars /\ NoClock
        /\ \/ \E n \in Serials, opens \in BOOLEAN, cut \in Cuts \cup {"none"} :
               quasi88_statesave(n, opens, cut)
           \/ \E n \in Serials : StateNotFound(n)
           \/ \E d \in StateDisks : InsertImage(d)

ClockPorts ==
  /\ scene = "clock" /\ Stays /\ NoCalls /\ UNCHANGED machineVars
  /\ \/ StartJob /\ Acts
     \/ (Access \/ Tick) /\ UNCHANGED acts

\* A program that has nothing more to do goes on.
Halted ==
  /\ scene = "clock" /\ done > LastAccess(job)
  /\ UNCHANGED <<machineVars, suspendVars, calendarVars, scene, acts>>

Frame ==
  /\ scene # "clock" /\ NoClock
  /\ screen_update \/ NoFrame \/ Wait \/ Switch
  /\ Hardware
  /\ last' = Nothing /\ resumed' = (resumed /\ step # "INIT")
  /\ UNCHANGED <<scene, acts, sound_board, age, file_disk, open_disk, file_state, card>>

\* quasi88_loop goes round: of its steps one can always be taken, and only
\* they change `step'.
Loop == step' \in {"MAIN", "WAIT", "INIT"} \ {step}

FirstPage == CHOOSE p \in TextPages : TRUE

MachineInit ==
  /\ MemoryInit /\ CrtcInit /\ ScreenInit /\ SuspendInit /\ CalendarInit
  /\ scene \in Scenes /\ acts = 0
  /\ scene # "user" => frameskip_rate = 1 /\ ~use_auto_skip /\ ~no_wait
  /\ scene \notin {"screen", "user"} => crtc_active
  /\ scene \in {"clock", "crtc"} => high_mode /\ text_page = FirstPage
  /\ IF scene = "state" THEN high_mode /\ text_page = FirstPage
     ELSE sound_board = "I" /\ card[file_state] = NoFile

vars == <<machineVars, suspendVars, calendarVars, scene, acts>>

Next == \/ MapPorts \/ VramPorts \/ ScreenPorts \/ CrtcPorts \/ StatePorts
        \/ ClockPorts \/ Halted
        \/ User \/ StateCalls
        \/ Frame

Spec == MachineInit /\ [][Next]_vars /\ WF_step(Loop)

(***************************************************************************)
(* Properties.                                                             *)
(***************************************************************************)

\* The pointers main_mem_read follows are those the registers ask for, whatever
\* ports and resets came before: the bank is a plane whenever it
\* stands before C000H, the ALU compares with the colour set, and a window
\* that runs over F000H reads on in the memory behind that address.  Port E3H
\* answers with a byte that names the same bank again, but for the first eight
\* banks of a board of 1 MByte, which are set by 00H-07H and read as F0H-F7H.
MapRight ==
  /\ map = Mapping(io, high_mode)
  /\ map.way = "BANK" => io.memory_bank # MAIN
  /\ map.way = "ALU" => ALU_comp = set_ALU_comp(io) /\ io.memory_bank = MAIN
  /\ (high_mode /\ io.grph_ctrl \cap {"64RAM", "N"} = {}) =>
       \A k \in 0..3 :
         LET far == (io.window_offset + k) % Top
         IN  main_mem_read(P8000 + k) = IF far < PF000 THEN Ram(far) ELSE High(far)
  /\ (io.ext_ram_bank < UseExtram * 4 /\ (LinearExt \/ UseExtram # 8 \/ io.ext_ram_bank >= 8)) =>
       ExtBank(ExtRead(io.ext_ram_bank)) = io.ext_ram_bank

\* A drawn frame shows what a drawing of everything would show: nothing the
\* picture depends on changes without a mark.  Two things are not marked: the
\* palette of a reset, until the next mark of the palette, and a loaded state,
\* until the loop has gone through INIT.
PictureFresh ==
  (drawn /\ ~resumed) => \A p \in CellsOf(crtc_format) :
             LET now == Picture(IF resetPalette THEN color_pixel ELSE EmuPalette)
             IN  screen_buf[p] = now[p]

\* What is marked comes to be drawn, however late the frames are.
FrameDrawn == []<>(drawn \/ scene = "clock")

=============================================================================
