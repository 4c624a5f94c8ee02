-------------------------------- MODULE Crtc --------------------------------
(***************************************************************************)
(* The text screen (crtcdmac.c): the CRT controller, the DMA controller    *)
(* that feeds it, and the attributes of every character cell.              *)
(*                                                                         *)
(* The screen is scaled down: Columns stands for the 80 columns, Rows[20], *)
(* Rows[24] and Rows[25] for the numbers of lines.  The text RAM is what   *)
(* DMA channel 2 points at: one of TextPages, each a function from line to *)
(* [chars, attrs] - Columns characters, and pairs of a column and an       *)
(* attribute (in the other format, an attribute for every two columns).    *)
(* An attribute is a set of flags, plus "switch" when it sets colours.     *)
(***************************************************************************)
EXTENDS Integers, Sequences, FiniteSets

CONSTANTS
  Columns,       \* CRTC_SZ_COLUMNS
  Rows,          \* the lines of a screen of 20, 24 and 25
  TextPages,     \* text RAM contents
  Formats,       \* [k : 0..4, v : ...] : the bytes a program follows a reset with
  BlinkUnit      \* 8 in the code

ASSUME CrtcAssumption ==
  /\ Columns \in Nat \ {0} /\ BlinkUnit \in Nat \ {0}
  /\ Rows[20] \in Nat \ {0} /\ Rows[24] \in Nat /\ Rows[25] \in Nat
  /\ Rows[20] <= Rows[24] /\ Rows[24] <= Rows[25]

VARIABLES
  crtc_command, crtc_param_num, crtc_active, crtc_intr_mask,
  crtc_format,          \* a record, a field for each thing a byte holds
  crtc_reverse_display,
  crtc_cursor,          \* <<column, line>>, or <<-1, -1>>
  load_cursor,          \* crtc_load_cursor_position
  crtc_status,          \* bits of the status port
  dma2,                 \* bit 2 of dmac_mode
  dmac_flipflop,
  text_page,            \* what dmac_address[2] points at
  text_pile,            \* GRPH_PILE_TEXT
  text_display

crtcVars == <<crtc_command, crtc_param_num, crtc_active, crtc_intr_mask,
              crtc_format, crtc_reverse_display, crtc_cursor, load_cursor,
              crtc_status, dma2, dmac_flipflop, text_page, text_pile,
              text_display>>
dmaVars == <<dma2, dmac_flipflop, text_page>>

\* What crtc_init sends: 80 columns, 25 lines, attribute list in colour.
DefaultFormat ==
  [cols |-> Columns, lines |-> 25, blink |-> 2, skip |-> FALSE,
   style |-> "RV", cblink |-> TRUE, nonsep |-> FALSE, color |-> TRUE,
   special |-> TRUE]

SzLines(f) == Rows[f.lines]
\* CRTC_SZ_LINES: 24 lines are shown as 25.
CRTC_SZ_LINES(f) == IF f.lines = 20 THEN Rows[20] ELSE Rows[25]
BlinkCycle(f) == BlinkUnit * f.blink

TextMode(active, mask, dma, pile, color) ==
  IF ~(dma /\ active /\ mask = 3) THEN "DISABLE"
  ELSE IF ~pile THEN "ENABLE"
  ELSE IF color THEN "DISABLE" ELSE "ATTR_ONLY"

set_text_display(color) ==
  text_display' = TextMode(crtc_active', crtc_intr_mask', dma2', text_pile', color)

\* At power on, or when the ROM has started the display.
CrtcInit ==
  /\ crtc_format = DefaultFormat /\ crtc_reverse_display = FALSE
  /\ crtc_cursor = <<-1, -1>> /\ load_cursor = FALSE
  /\ dmac_flipflop = 0 /\ text_page \in TextPages /\ text_pile = FALSE
  /\ \/ /\ crtc_active = FALSE /\ crtc_intr_mask = 0 /\ dma2 = FALSE
        /\ crtc_status = {} /\ crtc_command = 4 /\ crtc_param_num = 2
     \/ /\ crtc_active = TRUE /\ crtc_intr_mask = 3 /\ dma2 = TRUE
        /\ crtc_status = {"VE"} /\ crtc_command = 1 /\ crtc_param_num = 0
  /\ text_display = TextMode(crtc_active, crtc_intr_mask, dma2, FALSE, TRUE)

(***************************************************************************)
(* OUT 51H: commands.  RESET stops the display until START; only after it  *)
(* are the five bytes of the format taken.                                 *)
(***************************************************************************)

RESET == 0
START == 1
INTR_MASK == 2
READ_LIGHT_PEN == 3
LOAD_CURSOR == 4
RESET_INTERRUPT == 5
RESET_COUNTERS == 6

Command(c) == crtc_command' = c /\ crtc_param_num' = 0

CrtcReset(color) ==
  /\ Command(RESET)
  /\ crtc_status' = crtc_status \ {"VE", "N", "E"}
  /\ crtc_active' = FALSE
  /\ UNCHANGED <<crtc_intr_mask, crtc_format, crtc_reverse_display,
                 crtc_cursor, load_cursor, dmaVars, text_pile>>
  /\ set_text_display(color)

CrtcStart(reverse, color) ==
  /\ Command(START)
  /\ crtc_reverse_display' = reverse
  /\ crtc_status' = (crtc_status \cup {"VE"}) \ {"U"}
  /\ crtc_active' = TRUE
  /\ UNCHANGED <<crtc_intr_mask, crtc_format, crtc_cursor, load_cursor,
                 dmaVars, text_pile>>
  /\ set_text_display(color)

CrtcMask(m, color) ==
  /\ Command(INTR_MASK)
  /\ crtc_intr_mask' = m
  /\ UNCHANGED <<crtc_active, crtc_format, crtc_reverse_display, crtc_cursor,
                 load_cursor, crtc_status, dmaVars, text_pile>>
  /\ set_text_display(color)

CrtcLoadCursor(on) ==
  /\ Command(LOAD_CURSOR)
  /\ load_cursor' = on
  /\ crtc_cursor' = <<-1, -1>>
  /\ UNCHANGED <<crtc_active, crtc_intr_mask, crtc_format, crtc_status,
                 crtc_reverse_display, dmaVars, text_pile, text_display>>

\* The light pen, and the two commands that clear interrupts.
CrtcOther(c) ==
  /\ c \in {READ_LIGHT_PEN, RESET_INTERRUPT, RESET_COUNTERS}
  /\ Command(c)
  /\ crtc_status' = crtc_status \ (IF c = READ_LIGHT_PEN THEN {"LP"} ELSE {"N", "E"})
  /\ UNCHANGED <<crtc_active, crtc_intr_mask, crtc_format, crtc_cursor,
                 load_cursor, crtc_reverse_display, dmaVars, text_pile,
                 text_display>>

(***************************************************************************)
(* OUT 50H: a parameter of the last command.  After RESET the code decodes *)
(* the whole format again at each byte; a sixth byte is not kept.          *)
(***************************************************************************)
FormatByte ==
  /\ crtc_command = RESET
  /\ IF crtc_param_num < 5
       THEN \E b \in {x \in Formats : x.k = crtc_param_num} :
              /\ crtc_format' = [f \in DOMAIN crtc_format |->
                                   IF f \in DOMAIN b.v THEN b.v[f] ELSE crtc_format[f]]
              /\ crtc_param_num' = crtc_param_num + 1
       ELSE UNCHANGED <<crtc_format, crtc_param_num>>
  /\ UNCHANGED <<crtc_command, crtc_active, crtc_intr_mask, crtc_cursor,
                 crtc_reverse_display, load_cursor, crtc_status, dmaVars,
                 text_pile, text_display>>

CursorByte(d) ==
  /\ crtc_command = LOAD_CURSOR /\ crtc_param_num < 2
  /\ crtc_cursor' = [crtc_cursor EXCEPT ![crtc_param_num + 1] =
                       IF load_cursor THEN d ELSE -1]
  /\ crtc_param_num' = crtc_param_num + 1
  /\ UNCHANGED <<crtc_command, crtc_active, crtc_intr_mask, crtc_format,
                 crtc_reverse_display, load_cursor, crtc_status, dmaVars,
                 text_pile, text_display>>

(***************************************************************************)
(* The DMA controller: OUT 68H, OUT 64H (an address, low byte then high),  *)
(* and OUT 53H, which hides the text.                                      *)
(***************************************************************************)
dmac_out_mode(on, color) ==
  /\ dmac_flipflop' = 0
  /\ dma2' = on
  /\ UNCHANGED <<crtc_command, crtc_param_num, crtc_active, crtc_intr_mask,
                 crtc_format, crtc_reverse_display, crtc_cursor, load_cursor,
                 crtc_status, text_page, text_pile>>
  /\ set_text_display(color)

\* The high byte chooses the page.
dmac_out_address(page) ==
  /\ text_page' = IF dmac_flipflop = 1 THEN page ELSE text_page
  /\ dmac_flipflop' = 1 - dmac_flipflop
  /\ UNCHANGED <<crtc_command, crtc_param_num, crtc_active, crtc_intr_mask,
                 crtc_format, crtc_reverse_display, crtc_cursor, load_cursor,
                 crtc_status, dma2, text_pile, text_display>>

\* The other ports of the controller, read or written.
dmac_touch ==
  /\ dmac_flipflop' = 1 - dmac_flipflop
  /\ UNCHANGED <<crtc_command, crtc_param_num, crtc_active, crtc_intr_mask,
                 crtc_format, crtc_reverse_display, crtc_cursor, load_cursor,
                 crtc_status, dma2, text_page, text_pile, text_display>>

grph_pile_out(pile, color) ==
  /\ text_pile' = pile
  /\ UNCHANGED <<crtc_command, crtc_param_num, crtc_active, crtc_intr_mask,
                 crtc_format, crtc_reverse_display, crtc_cursor, load_cursor,
                 crtc_status, dmaVars>>
  /\ set_text_display(color)

\* OUT 31H calls set_text_display with the new colour bit.
CrtcColor(color) ==
  /\ UNCHANGED <<crtc_command, crtc_param_num, crtc_active, crtc_intr_mask,
                 crtc_format, crtc_reverse_display, crtc_cursor, load_cursor,
                 crtc_status, dmaVars, text_pile>>
  /\ set_text_display(color)

\* crtc_init, dmac_init and the end of pc88main_init: the interrupt mask, the
\* DMA mode and the status are not reset, and text_display is made anew.
CrtcBoot ==
  /\ crtc_command' = LOAD_CURSOR /\ crtc_param_num' = 2
  /\ crtc_format' = DefaultFormat
  /\ crtc_active' = FALSE
  /\ crtc_status' = crtc_status \ {"VE", "N", "E"}
  /\ crtc_cursor' = <<-1, -1>> /\ load_cursor' = FALSE
  /\ dmac_flipflop' = 0 /\ text_pile' = FALSE /\ text_page' \in TextPages
  /\ UNCHANGED <<crtc_intr_mask, crtc_reverse_display, dma2>>
  /\ set_text_display(TRUE)

(***************************************************************************)
(* crtc_make_text_attr.  A cell is [ch, at]: a character, 0 for none, and  *)
(* its flags: "RV", "SC", "UP", "LO", "GR" and a colour.                   *)
(***************************************************************************)
Flags == {"RV", "SC", "UP", "LO"}
White == {"col7"}
Colours == {"col2", "col7"}
NoAttr == [set |-> FALSE, v |-> {}]

Blank == [ch |-> 0, at |-> White]

\* The attribute list of a line, as the code's scan of it leaves it: marks in
\* columns 0..Columns, and the attribute of the rest of the line.  `128' marks
\* the rest; a second column 0 means the same; the first mark of a column wins.
Marks(attrs) ==
  LET col(j) == IF j # 1 /\ attrs[j][1] = 0 THEN 128
                ELSE IF j = 1 /\ attrs[j][1] = 128 THEN 0 ELSE attrs[j][1]
      N == 1..Len(attrs)
      rest == {j \in N : col(j) = 128}
      First(S) == CHOOSE j \in S : \A i \in S : j <= i
      at(c) == {j \in N : col(j) = c}
  IN  [rest |-> IF rest = {} THEN NoAttr
                ELSE [set |-> TRUE, v |-> attrs[First(rest)][2]],
       m |-> [c \in 0..Columns |->
                IF at(c) = {} THEN NoAttr
                ELSE [set |-> TRUE, v |-> attrs[First(at(c))][2]]]]

\* With a rest and no mark at column 0 the attributes hold up to their column:
\* each mark takes the next one's attribute, the last one the rest.
Shifted(mk) ==
  IF mk.m[0].set \/ ~mk.rest.set THEN mk.m
  ELSE LET S == {c \in 1..Columns : mk.m[c].set}
           after(c) == {d \in S : d > c}
           least(T) == CHOOSE d \in T : \A e \in T : d <= e
           next(c) == IF after(c) = {} THEN mk.rest ELSE mk.m[least(after(c))]
       IN  [c \in 0..Columns |-> IF c = 0 \/ c \in S THEN next(c) ELSE NoAttr]

\* What one attribute does to the attributes in force.
Apply(g, v, f, blinkOff) ==
  LET colours == g.at \cap Colours
      graph == g.at \cap {"GR"}
      mono == v \cap Flags
      at == IF ~f.color THEN colours \cup mono \cup (v \cap {"GR"})
            ELSE IF "switch" \in v
              THEN (g.at \cap Flags) \cup (v \cap (Colours \cup {"GR"}))
            ELSE colours \cup graph \cup mono
      blink == IF f.color /\ "switch" \in v THEN g.blink ELSE "BL" \in v
  IN  [blink |-> blink, at |-> IF blink /\ blinkOff THEN at \cup {"SC"} ELSE at]

\* The attributes in force at each column of a line that starts with g.
InForce(m, g, f, off) ==
  LET At(before, mark) == IF mark.set THEN Apply(before, mark.v, f, off) ELSE before
      go[c \in 0..(Columns - 1)] == At(IF c = 0 THEN g ELSE go[c - 1], m[c])
  IN  go

Secret(g) == [c \in 0..(Columns - 1) |-> [ch |-> 0, at |-> g.at \cup {"SC"}]]

\* A line in the format of an attribute for every two characters.
PairLine(line, g, off) ==
  LET bl(v) == IF "BL" \in v /\ off THEN {"SC"} ELSE {}
  IN  [c \in 0..(Columns - 1) |->
         LET v == line.attrs[(c \div 2) + 1][2]
         IN  [ch |-> line.chars[c + 1],
              at |-> (g.at \cap Colours) \cup (v \cap (Flags \cup {"GR"})) \cup bl(v)]]

\* What a line of the text RAM shows, and the attributes it leaves in force.
ShownLine(line, g, f, off) ==
  LET Pairs(l) == [cells |-> l, g |-> [g EXCEPT !.at = l[Columns - 1].at]]
      List(a) == [cells |-> [c \in 0..(Columns - 1) |->
                               [ch |-> line.chars[c + 1], at |-> a[c].at]],
                  g |-> a[Columns - 1]]
  IN  IF f.nonsep THEN Pairs(PairLine(line, g, off))
      ELSE List(InForce(Shifted(Marks(IF f.special THEN line.attrs ELSE <<>>)), g, f, off))

\* The lines, with the skipped ones and those past the last line hidden.
TextLines(page, f, off) ==
  LET Hidden(b) == [g |-> b.g, cells |-> Append(b.cells, Secret(b.g))]
      With(s, cells) == [g |-> s.g, cells |-> Append(cells, s.cells)]
      Line(b, i) ==
        IF i > SzLines(f) \/ (f.skip /\ i % 2 = 0) THEN Hidden(b)
        ELSE With(ShownLine(page[IF f.skip THEN (i + 1) \div 2 ELSE i], b.g, f, off), b.cells)
      go[i \in 0..Rows[25]] ==
        IF i = 0 THEN [g |-> [at |-> White, blink |-> FALSE], cells |-> <<>>]
        ELSE Line(go[i - 1], i)
  IN  go[CRTC_SZ_LINES(f)].cells

Flip(at, fl) == IF fl \in at THEN at \ {fl} ELSE at \cup {fl}

\* blink: blink_counter.  Off phases: one in four for text, every other for
\* the cursor.
MakeTextAttr(page, f, display, reverse, cursor, blink) ==
  LET cursorOn == /\ cursor[1] \in 0..(f.cols - 1) /\ cursor[2] \in 0..(SzLines(f) - 1)
                  /\ ~f.cblink \/ blink % 2 = 1
      Reversed(at) == IF reverse THEN Flip(at, "RV") ELSE at
      Cursor(at, p) == IF cursorOn /\ cursor = p THEN Flip(at, f.style) ELSE at
      Secretly(ch, at) ==
        IF "SC" \in at THEN [ch |-> 0, at |-> at \ {"SC", "GR"}] ELSE [ch |-> ch, at |-> at]
      Cell(x, p) ==
        CASE display = "DISABLE" -> Blank
          [] display = "ATTR_ONLY" -> [ch |-> 0, at |-> x.at \cap Colours]
          [] OTHER -> Secretly(x.ch, Cursor(Reversed(x.at), p))
      Cells(raw) == [i \in 1..CRTC_SZ_LINES(f) |->
                       [c \in 0..(Columns - 1) |-> Cell(raw[i][c], <<c, i - 1>>)]]
  IN  Cells(TextLines(page, f, blink % 4 = 0))
=============================================================================
