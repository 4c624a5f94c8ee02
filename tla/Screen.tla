------------------------------- MODULE Screen -------------------------------
(***************************************************************************)
(* The emulator's screen (screen.c): what a program's writes mark as       *)
(* changed, the picture drawn from it, the frames left out, the blinking,  *)
(* and the screen's part in the main loop (quasi88.cpp).                   *)
(*                                                                         *)
(* The picture has a cell for each character; the byte of video RAM lies   *)
(* in the first one.  A cell as drawn is its text, the dots under it and   *)
(* the palette it was drawn with.  Two frames are compared at each drawing *)
(* as in the code: a cell is drawn again if its text differs from that of  *)
(* the last drawing, if its video RAM was written, or if all is dirty.     *)
(***************************************************************************)
EXTENDS Memory, Crtc, FiniteSetsExt

CONSTANTS
  Rates,         \* the -frameskip options tried
  SkipMax,       \* skip_count_max: 15
  Inks           \* colours a palette entry may have

ASSUME ScreenAssumption ==
  /\ Rates \subseteq Nat \ {0} /\ Rates # {} /\ SkipMax \in Nat \ {0} /\ Inks # {}

VARIABLES
  sys80,                     \* SYS_CTRL_80
  vram_palette, bg_palette,
  screen_dirty_flag, screen_dirty_all, screen_dirty_palette, screen_dirty_frame,
  text_attr_buf, text_attr_flipflop,
  screen_buf, color_pixel,   \* the picture, and the pixels of the palette
  drawn,                     \* the last screen_update drew
  resetPalette,              \* a reset changed the palette, unmarked
  frameskip_rate, use_auto_skip, no_wait,
  do_skip_draw, already_skip_draw, skip_counter,
  frame_counter,             \* modulo frameskip_rate
  blink_ctrl_cycle, blink_ctrl_counter, blink_counter,
  show_status, now_status,
  mode, next_mode, mode_changed, step

paletteVars == <<sys80, vram_palette, bg_palette, resetPalette>>
dirtyVars == <<screen_dirty_flag, screen_dirty_all, screen_dirty_palette,
               screen_dirty_frame>>
drawnVars == <<text_attr_buf, text_attr_flipflop, screen_buf, color_pixel, drawn>>
optionVars == <<frameskip_rate, use_auto_skip, no_wait>>
skipVars == <<do_skip_draw, already_skip_draw, skip_counter, frame_counter>>
blinkVars == <<blink_ctrl_cycle, blink_ctrl_counter, blink_counter>>
statusVars == <<show_status, now_status>>
loopVars == <<mode, next_mode, mode_changed, step>>
screenVars == <<paletteVars, dirtyVars, drawnVars, optionVars, skipVars,
                blinkVars, statusVars, loopVars>>

Color == "COLOR" \in io.grph_ctrl

(***************************************************************************)
(* The picture.                                                            *)
(***************************************************************************)

\* vram2screen's choice of drawing function.
VramMode ==
  IF "VDISP" \notin io.grph_ctrl THEN "UNDISP"
  ELSE IF Color THEN "COLOR"
  ELSE IF "200" \in io.grph_ctrl THEN "MONO" ELSE "HIRESO"
TextGeometry == <<sys80, CRTC_SZ_LINES(crtc_format)>>

FirstInk == CHOOSE x \in Inks : TRUE
NoPalette == [kind |-> "none", bg |-> FirstInk, ink |-> FirstInk]

\* screen_get_emu_palette, with an analog monitor.
EmuPalette ==
  IF Color THEN [kind |-> "color", bg |-> FirstInk, ink |-> vram_palette]
  ELSE IF "ANALOG" \in io.misc_ctrl
    THEN [kind |-> "analog", bg |-> bg_palette, ink |-> vram_palette]
  ELSE [kind |-> "mono", bg |-> bg_palette, ink |-> FirstInk]

NoGeometry == <<FALSE, 0>>
NoText == [cell |-> [ch |-> 0, at |-> {}], as |-> NoGeometry]

\* get_font_gryph: a cell without character and lines has no dots, or all.
Solid(cell) == cell.ch = 0 /\ cell.at \cap {"UP", "LO", "GR"} = {}
TextPart(cell) ==
  IF ~Solid(cell) THEN [cell |-> cell, as |-> TextGeometry]
  ELSE IF "RV" \in cell.at
    THEN [cell |-> [ch |-> 0, at |-> cell.at \cap Colours], as |-> NoGeometry]
  ELSE NoText

\* Fewer lines fill the screen as well: the last one reaches down to its end.
Covering(p) == IF p[1] <= CRTC_SZ_LINES(crtc_format) THEN p
            ELSE <<CRTC_SZ_LINES(crtc_format), p[2]>>

CellsOf(f) == (1..CRTC_SZ_LINES(f)) \X (0..(Columns - 1))
AllCells == (1..Rows[25]) \X (0..(Columns - 1))
VramCell == <<1, 0>>

Black == <<"UNDISP", [i \in Planes |-> 0]>>
\* The bits of the planes at this cell, which each mode puts together its way.
Dots(p) == IF p # VramCell \/ VramMode = "UNDISP" THEN Black
           ELSE <<VramMode, main_vram>>
\* A dot of the text over those of the video RAM, in the colours of the palette.
Rendered(cell, p, pal) == [text |-> TextPart(cell), dots |-> Dots(p), pal |-> pal]

\* The attributes of this frame.
TextAttr(blink) ==
  MakeTextAttr(text_page, crtc_format, text_display,
               crtc_reverse_display /\ Color, crtc_cursor, blink)

Paint(blink, pal) ==
  LET Cells(t) == [p \in CellsOf(crtc_format) |-> Rendered(t[p[1]][p[2]], p, pal)]
  IN  Cells(TextAttr(blink))

(***************************************************************************)
(* Marking.                                                                *)
(***************************************************************************)
screen_set_dirty_all == screen_dirty_all' = TRUE
screen_set_dirty_palette ==
  /\ screen_dirty_palette' = TRUE /\ screen_dirty_all' = TRUE
  /\ resetPalette' = FALSE

KeepFrame == UNCHANGED <<drawnVars, skipVars, optionVars, blinkVars, statusVars,
                         loopVars, screen_dirty_frame>>
NoPaletteMark == UNCHANGED <<screen_dirty_palette, resetPalette>>

MarkAll ==
  /\ screen_set_dirty_all
  /\ NoPaletteMark
  /\ UNCHANGED <<screen_dirty_flag, sys80, vram_palette, bg_palette>>
  /\ KeepFrame

MarkNone ==
  /\ UNCHANGED <<paletteVars, screen_dirty_flag, screen_dirty_all,
                 screen_dirty_palette>>
  /\ KeepFrame

MarkPalette ==
  /\ screen_set_dirty_palette
  /\ UNCHANGED <<screen_dirty_flag, sys80, vram_palette, bg_palette>>
  /\ KeepFrame

MarkByte ==
  /\ screen_dirty_flag' = TRUE
  /\ UNCHANGED <<screen_dirty_all, screen_dirty_palette, paletteVars>>
  /\ KeepFrame

\* OUT 30H marks when the width of the text changes.
OutSys(w80) ==
  /\ sys80' = w80
  /\ screen_dirty_all' = (screen_dirty_all \/ w80 # sys80)
  /\ UNCHANGED <<screen_dirty_flag, screen_dirty_palette, vram_palette,
                 bg_palette, resetPalette>>
  /\ KeepFrame
  /\ UNCHANGED <<memoryVars, crtcVars>>

\* Mutant: a change of the display mode marks all, but not the palette.
OutGrphCtrlPale(bits) ==
  /\ OutGrph(bits)
  /\ CrtcColor("COLOR" \in bits)
  /\ IF bits # io.grph_ctrl THEN MarkAll ELSE MarkNone

\* OUT 31H.
OutGrphCtrl(bits) ==
  LET chg == SymDiff(bits, io.grph_ctrl) IN
  /\ OutGrph(bits)
  /\ CrtcColor("COLOR" \in bits)
  /\ IF "COLOR" \in chg THEN MarkPalette
     ELSE IF chg \cap {"200", "VDISP"} # {} THEN MarkAll ELSE MarkNone

\* OUT 32H.
OutMiscCtrl(bits, bank) ==
  /\ OutMisc(bits, bank)
  /\ IF "ANALOG" \in SymDiff(bits, io.misc_ctrl) THEN MarkPalette ELSE MarkNone
  /\ UNCHANGED crtcVars

\* OUT 52H-5BH: a palette entry, or the background, if it is another colour.
\* 54H with bit 7 is the background's too, when the palette is analog.
OutPalette(isBg, ink) ==
  /\ vram_palette' = IF isBg THEN vram_palette ELSE ink
  /\ bg_palette' = IF isBg THEN ink ELSE bg_palette
  /\ IF ink # (IF isBg THEN bg_palette ELSE vram_palette)
       THEN screen_set_dirty_palette
       ELSE UNCHANGED <<screen_dirty_all, screen_dirty_palette, resetPalette>>
  /\ UNCHANGED <<screen_dirty_flag, sys80>>
  /\ KeepFrame
  /\ UNCHANGED <<memoryVars, crtcVars>>

\* A write to video RAM, by the bank or the ALU.
VramWrite(bit) ==
  /\ BankWrite(bit) \/ ALU_write(bit)
  /\ MarkByte
  /\ UNCHANGED crtcVars

\* The Z80 writes text: nothing is marked, the drawing compares.
TextWrite(page) ==
  /\ text_page' = page
  /\ MarkNone
  /\ UNCHANGED <<memoryVars, crtc_command, crtc_param_num, crtc_active,
                 crtc_intr_mask, crtc_format, crtc_reverse_display, crtc_cursor,
                 load_cursor, crtc_status, dma2, dmac_flipflop, text_pile,
                 text_display>>

\* frameskip_blink_reset: the number of drawn frames nearest to the cycle.
BlinkFrames(cycle, rate) ==
  LET wk == cycle \div rate
  IN  IF wk = 0 \/ ~(cycle - wk * rate < (wk + 1) * rate - cycle) THEN wk + 1 ELSE wk

frameskip_blink_reset(f) ==
  /\ blink_ctrl_cycle' = BlinkFrames(BlinkCycle(f), frameskip_rate)
  /\ blink_ctrl_counter' = blink_ctrl_cycle'

\* A byte of the CRTC's format: decoded, and the blinking starts again.
FormatOut ==
  /\ FormatByte
  /\ frameskip_blink_reset(crtc_format')
  /\ UNCHANGED <<memoryVars, paletteVars, dirtyVars, drawnVars, optionVars,
                 skipVars, blink_counter, statusVars, loopVars>>

(***************************************************************************)
(* Frames.                                                                 *)
(***************************************************************************)
Exec == mode = "EXEC"
Due == frame_counter = 0
Skip == ~Due \/ (~no_wait /\ use_auto_skip /\ do_skip_draw)

BlinkTick ==
  IF Due /\ Exec
    THEN IF blink_ctrl_counter = 1
           THEN /\ blink_ctrl_counter' = blink_ctrl_cycle
                /\ blink_counter' = (blink_counter + 1) % 4
           ELSE /\ blink_ctrl_counter' = blink_ctrl_counter - 1
                /\ UNCHANGED blink_counter
    ELSE UNCHANGED <<blink_ctrl_counter, blink_counter>>

\* The cells a drawing puts: all of them, or those that changed.
Changed(t, p) ==
  \/ screen_dirty_all \/ screen_dirty_frame \/ screen_dirty_palette
  \/ t[p[1]][p[2]] # text_attr_buf[1 - text_attr_flipflop][p]
  \/ p = VramCell /\ screen_dirty_flag /\ VramMode # "UNDISP"

DrawCells(t, pal) ==
  LET C == CellsOf(crtc_format)
  IN  /\ color_pixel' = pal
      /\ screen_buf' = [p \in AllCells |->
                          IF Changed(t, Covering(p))
                            THEN Rendered(t[Covering(p)[1]][p[2]], p, pal) ELSE screen_buf[p]]
      /\ text_attr_buf' =
           [text_attr_buf EXCEPT ![text_attr_flipflop] =
              [p \in AllCells |-> IF p \in C THEN t[p[1]][p[2]] ELSE @[p]]]
      /\ text_attr_flipflop' = 1 - text_attr_flipflop
      /\ drawn' = TRUE
      /\ screen_dirty_flag' = FALSE /\ screen_dirty_all' = FALSE
      /\ screen_dirty_palette' = FALSE /\ screen_dirty_frame' = FALSE
DrawFrame ==
  DrawCells(TextAttr(blink_counter'),
            IF screen_dirty_palette THEN EmuPalette ELSE color_pixel)

screen_update ==
  /\ step = "MAIN"
  /\ step' = "WAIT"
  /\ BlinkTick
  /\ IF Skip
       THEN drawn' = FALSE /\ UNCHANGED <<text_attr_buf, text_attr_flipflop,
                                          screen_buf, color_pixel, dirtyVars>>
       ELSE DrawFrame
  /\ already_skip_draw' = (already_skip_draw \/ (Due /\ Skip))
  /\ frame_counter' = IF Exec THEN (frame_counter + 1) % frameskip_rate ELSE 0
  /\ UNCHANGED <<paletteVars, optionVars, do_skip_draw, skip_counter,
                 blink_ctrl_cycle, statusVars, mode, next_mode, mode_changed>>

frameskip_counter_reset ==
  frame_counter' = 0 /\ do_skip_draw' = FALSE /\ already_skip_draw' = FALSE

\* Mutant: late frames are left out without a limit.
frameskip_checkEndless(on_time) ==
  IF ~use_auto_skip THEN UNCHANGED skipVars
  ELSE /\ do_skip_draw' = ~on_time
       /\ UNCHANGED <<skip_counter, frame_counter, already_skip_draw>>

frameskip_check(on_time) ==
  IF ~use_auto_skip THEN UNCHANGED skipVars
  ELSE IF on_time
    THEN /\ skip_counter' = 0
         /\ do_skip_draw' = FALSE
         /\ IF already_skip_draw THEN frame_counter' = 0 /\ already_skip_draw' = FALSE
            ELSE UNCHANGED <<frame_counter, already_skip_draw>>
    ELSE /\ skip_counter' = IF skip_counter < SkipMax THEN skip_counter + 1 ELSE SkipMax
         /\ IF skip_counter + 1 >= SkipMax THEN frameskip_counter_reset
            ELSE do_skip_draw' = TRUE /\ UNCHANGED <<frame_counter, already_skip_draw>>

\* WAIT: wait_vsync_update always answers WAIT_OVER, so that a frame is on
\* time only if the program does not wait at all.
Wait ==
  /\ step = "WAIT"
  /\ step' = IF mode_changed THEN "INIT" ELSE "MAIN"
  /\ IF Exec THEN frameskip_check(no_wait) ELSE UNCHANGED skipVars
  /\ drawn' = FALSE
  /\ UNCHANGED <<paletteVars, dirtyVars, text_attr_buf, text_attr_flipflop,
                 screen_buf, color_pixel, optionVars, blinkVars, statusVars,
                 mode, next_mode, mode_changed>>

\* A pass without a frame: the mode changes before the next one.
NoFrame ==
  /\ step = "MAIN" /\ mode_changed
  /\ step' = "INIT" /\ drawn' = FALSE
  /\ UNCHANGED <<paletteVars, dirtyVars, text_attr_buf, text_attr_flipflop,
                 screen_buf, color_pixel, optionVars, skipVars, blinkVars,
                 statusVars, mode, next_mode, mode_changed>>

\* screen_switch, from open_window or at INIT.
screen_switch ==
  /\ screen_dirty_frame' = TRUE
  /\ screen_set_dirty_palette
  /\ frameskip_counter_reset

Switch ==
  /\ step = "INIT"
  /\ step' = "MAIN" /\ mode' = next_mode /\ mode_changed' = FALSE
  /\ screen_switch
  /\ UNCHANGED <<sys80, vram_palette, bg_palette, screen_dirty_flag, drawnVars,
                 optionVars, skip_counter, blinkVars, statusVars, next_mode>>

\* quasi88_exec, quasi88_pause: a request, served after the frame.
SetMode(m) ==
  /\ m # mode
  /\ next_mode' = m /\ mode_changed' = TRUE
  /\ UNCHANGED <<paletteVars, dirtyVars, drawnVars, optionVars, skipVars,
                 blinkVars, statusVars, mode, step>>

(***************************************************************************)
(* Options changed while running.                                          *)
(***************************************************************************)
quasi88_cfg_set_frameskip_rate(rate) ==
  /\ rate # frameskip_rate
  /\ frameskip_rate' = rate
  /\ blink_ctrl_cycle' = BlinkFrames(BlinkCycle(crtc_format), rate)
  /\ blink_ctrl_counter' = blink_ctrl_cycle'
  /\ frameskip_counter_reset
  /\ UNCHANGED <<paletteVars, dirtyVars, drawnVars, use_auto_skip, no_wait,
                 skip_counter, blink_counter, statusVars, loopVars>>

quasi88_cfg_set_no_wait(enable) ==
  /\ no_wait' = enable
  /\ UNCHANGED <<paletteVars, dirtyVars, drawnVars, frameskip_rate,
                 use_auto_skip, skipVars, blinkVars, statusVars, loopVars>>

\* quasi88_cfg_set_showstatus: the window is opened again, with the status
\* line or without; on the M5Stack it is always of half size.
open_window ==
  /\ now_status' = show_status'
  /\ screen_switch

quasi88_cfg_set_showstatus(show) ==
  /\ now_status # show
  /\ show_status' = show
  /\ open_window
  /\ UNCHANGED <<sys80, vram_palette, bg_palette, screen_dirty_flag, drawnVars,
                 optionVars, skip_counter, blinkVars, loopVars>>

(***************************************************************************)
(* Reset: the palette goes back without a mark (emu_init's are commented   *)
(* out), and all is marked by crtc_init.                                   *)
(***************************************************************************)
ScreenReset ==
  /\ sys80' = TRUE /\ vram_palette' = FirstInk /\ bg_palette' = FirstInk
  /\ resetPalette' = TRUE
  /\ screen_set_dirty_all
  /\ frameskip_blink_reset(DefaultFormat)
  /\ UNCHANGED <<screen_dirty_flag, screen_dirty_palette, screen_dirty_frame,
                 drawnVars, optionVars, skipVars, blink_counter, statusVars,
                 loopVars>>

ScreenInit ==
  /\ sys80 = TRUE /\ vram_palette = FirstInk /\ bg_palette = FirstInk
  /\ resetPalette = FALSE
  /\ screen_dirty_flag = FALSE /\ screen_dirty_all = TRUE
  /\ screen_dirty_palette = TRUE /\ screen_dirty_frame = TRUE
  /\ text_attr_buf = [i \in 0..1 |-> [p \in AllCells |-> [ch |-> 0, at |-> {}]]]
  /\ text_attr_flipflop = 0 /\ color_pixel = NoPalette /\ drawn = FALSE
  /\ screen_buf = [p \in AllCells |-> [text |-> NoText, dots |-> Black, pal |-> NoPalette]]
  /\ frameskip_rate \in Rates /\ use_auto_skip \in BOOLEAN /\ no_wait \in BOOLEAN
  /\ do_skip_draw = FALSE /\ already_skip_draw = FALSE
  /\ skip_counter = 0 /\ frame_counter = 0
  /\ blink_ctrl_cycle = BlinkFrames(BlinkCycle(DefaultFormat), frameskip_rate)
  /\ blink_ctrl_counter = blink_ctrl_cycle /\ blink_counter = 0
  /\ show_status = TRUE /\ now_status = TRUE
  /\ mode = "EXEC" /\ next_mode = "EXEC" /\ mode_changed = FALSE /\ step = "MAIN"

\* What the screen should show: the picture painted afresh.
Picture(pal) == Paint(blink_counter, pal)
=============================================================================
