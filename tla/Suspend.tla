------------------------------- MODULE Suspend -------------------------------
(***************************************************************************)
(* State files (suspend.c): the state of the machine as a file of blocks,  *)
(* each found by its name; a block for each table of a component, and for  *)
(* each memory.  Saving may stop before any block, reading may fail at     *)
(* any; a block is written and read whole.                                 *)
(*                                                                         *)
(* The state is seen here as the code's tables see it, as a function from  *)
(* the name of a block to what it holds: the parts that Memory, Crtc and   *)
(* Screen model have their values, every other one its age, the number of  *)
(* program steps behind it.                                                *)
(***************************************************************************)
EXTENDS Screen, SequencesExt

CONSTANTS
  StateDisks,    \* images that may be put in drive 1
  NoDisk, NoFile,
  Serials,       \* numbers of state files, -1 for the current one
  StemLen,       \* how long the name of a state file is, by its disk
  NameMax,       \* QUASI88_MAX_FILENAME
  Cuts,          \* blocks before which a save may run out of space
  Faults,        \* blocks which a load may fail to read
  resume_force   \* the option of this name

ASSUME SuspendAssumption ==
  /\ NoDisk \notin StateDisks /\ StemLen \in [StateDisks \cup {NoDisk} -> Nat]
  /\ Serials \subseteq Int /\ NameMax \in Nat /\ resume_force \in BOOLEAN

VARIABLES
  sound_board,   \* "I" or "II"
  age,           \* of the blocks nothing else here models
  file_disk,     \* the name of the image in drive 1
  open_disk,     \* the image that is open in it
  file_state,    \* [stem, serial]: the name of the state file
  card,          \* the state files
  last,          \* what the last step did to them
  resumed        \* a state was loaded and the screen not switched since

suspendVars == <<sound_board, age, file_disk, open_disk, file_state, card, last,
                 resumed>>

(***************************************************************************)
(* The blocks, by the component that saves and loads them.  An optional    *)
(* one was added by a later revision: the code takes what is missing, for  *)
(* whatever reason, for an older file.  The third and fourth tables of a   *)
(* component are not looked for when an earlier one is missing.            *)
(***************************************************************************)
EmuBlocks == <<"EMU">>
MemoryBlocks ==
  <<"MEM", "MEM5", "MEM0", "MEM1", "MEM2", "MEM3", "MEM4", "MEMA">>
    \o IF UseExtram > 0 THEN <<"MEMB">> ELSE <<>>
MainBlocks == <<"MAIN", "MAI2">>
CrtcBlocks == <<"CRTC">>
SoundBlocks == <<"SND", "SND2", "SND3">>
PioBlocks == <<"PIO">>
ScreenBlocks == <<"SCRN">>
IntrBlocks == <<"INTR", "INT2", "INT3", "INT4">>
KeyboardBlocks == <<"KYBD", "KYB2", "KYB3", "KYB4">>
SubBlocks == <<"SUB">>
FdcBlocks == <<"FDC", "FDC0", "FDC2">>

SaveOrder ==
  EmuBlocks \o MemoryBlocks \o MainBlocks \o CrtcBlocks \o SoundBlocks \o PioBlocks
    \o ScreenBlocks \o IntrBlocks \o KeyboardBlocks \o SubBlocks \o FdcBlocks

\* Mutant: in the order they are saved, as the code once had it.
LoadOrderOfSave == SaveOrder

\* The sound board comes first: it decides whether there is ADPCM memory.
LoadOrder ==
  EmuBlocks \o SoundBlocks \o MemoryBlocks \o MainBlocks \o CrtcBlocks \o PioBlocks
    \o ScreenBlocks \o IntrBlocks \o KeyboardBlocks \o SubBlocks \o FdcBlocks

Ids == {SaveOrder[i] : i \in DOMAIN SaveOrder}
Optional == {"MEM5", "MAI2", "SND2", "SND3", "INT2", "INT3", "INT4", "KYB2", "KYB3",
             "KYB4", "FDC2"}
After(id) ==
  CASE id = "INT3" -> {"INT2"} [] id = "INT4" -> {"INT2", "INT3"}
    [] id = "KYB3" -> {"KYB2"} [] id = "KYB4" -> {"KYB2", "KYB3"} [] OTHER -> {}

\* The second board has a memory of its own.
Present(id, board) == id = "MEMA" => board = "II"

\* For each block, those before it.
Preceding(order) ==
  [id \in Ids |-> {order[i] : i \in {j \in DOMAIN order :
                                       \E k \in DOMAIN order : j < k /\ order[k] = id}}]
SavedBefore == Preceding(SaveOrder)
LoadedBefore == Preceding(LoadOrder)

Modelled == {"SND", "MEM0", "MEM3", "MAIN", "CRTC", "SCRN", "INTR", "FDC"}
Aged == Ids \ Modelled
\* Contents that are no age.
Default == -1
Initial == -2
Cleared == -3

(***************************************************************************)
(* What the tables hold.                                                   *)
(***************************************************************************)
\* What f holds, and elsewhere what g does.
Over(f, g) == [x \in DOMAIN f \cup DOMAIN g |-> IF x \in DOMAIN f THEN f[x] ELSE g[x]]

CrtcTable ==
  [command |-> crtc_command, num |-> crtc_param_num, active |-> crtc_active,
   mask |-> crtc_intr_mask, format |-> crtc_format, reverse |-> crtc_reverse_display,
   cursor |-> crtc_cursor, load |-> load_cursor, status |-> crtc_status,
   dma2 |-> dma2, flipflop |-> dmac_flipflop, blink |-> blink_counter]
ScreenTable ==
  [pal |-> vram_palette, bg |-> bg_palette, sys80 |-> sys80, grph |-> io.grph_ctrl,
   pile |-> text_pile, rate |-> frameskip_rate, auto |-> use_auto_skip]
MainTable == [io |-> io, hi |-> high_mode, buf |-> ALU_buf, comp |-> ALU_comp]

Parts ==
  Over([SND |-> sound_board, MEM0 |-> text_page, MEM3 |-> main_vram, MAIN |-> MainTable,
        CRTC |-> CrtcTable, SCRN |-> ScreenTable, INTR |-> no_wait, FDC |-> file_disk], age)

\* The machine that m describes, its pointers and display made anew by the end
\* of pc88main_init; the picture is not marked.
Becomes(m) ==
  LET c == m["CRTC"]  s == m["SCRN"]  r == [m["MAIN"].io EXCEPT !.grph_ctrl = s.grph]
      bank == [r EXCEPT !.memory_bank = BankAfter(r)]
  IN  /\ sound_board' = m["SND"] /\ age' = Restrict(m, Aged)
      /\ high_mode' = m["MAIN"].hi /\ io' = bank /\ map' = Mapping(r, high_mode')
      /\ main_vram' = m["MEM3"] /\ ALU_buf' = m["MAIN"].buf /\ ALU_comp' = m["MAIN"].comp
      /\ crtc_command' = c.command /\ crtc_param_num' = c.num /\ crtc_active' = c.active
      /\ crtc_intr_mask' = c.mask /\ crtc_format' = c.format
      /\ crtc_reverse_display' = c.reverse /\ crtc_cursor' = c.cursor
      /\ load_cursor' = c.load /\ crtc_status' = c.status /\ dma2' = c.dma2
      /\ dmac_flipflop' = c.flipflop /\ blink_counter' = c.blink
      /\ text_page' = m["MEM0"] /\ text_pile' = s.pile
      /\ set_text_display("COLOR" \in s.grph)
      /\ sys80' = s.sys80 /\ vram_palette' = s.pal /\ bg_palette' = s.bg
      /\ frameskip_rate' = s.rate /\ use_auto_skip' = s.auto /\ no_wait' = m["INTR"]
      /\ blink_ctrl_cycle' = BlinkFrames(BlinkCycle(c.format), s.rate)
      /\ blink_ctrl_counter' = blink_ctrl_cycle'

\* quasi88_reset over m: what it leaves alone stays as m has it.
ResetDevices == Aged \cap {"SND2", "PIO", "INT2", "INT3", "SUB", "FDC0", "FDC2", "MEM4"}
ResetOf(m, hi, page) ==
  [id \in Ids |->
     CASE id \in ResetDevices -> Initial
       [] id = "MEMA" /\ m["SND"] = "II" -> Cleared
       [] id = "MAIN" -> [m["MAIN"] EXCEPT !.io = ResetIo, !.hi = hi]
       [] id = "MEM0" -> page
       [] id = "CRTC" -> [m["CRTC"] EXCEPT !.command = LOAD_CURSOR, !.num = 2,
                            !.active = FALSE, !.format = DefaultFormat,
                            !.cursor = <<-1, -1>>, !.load = FALSE, !.flipflop = 0,
                            !.status = @ \ {"VE", "N", "E"}]
       [] id = "SCRN" -> [m["SCRN"] EXCEPT !.pal = FirstInk, !.bg = FirstInk,
                            !.sys80 = TRUE, !.grph = ResetIo.grph_ctrl, !.pile = FALSE]
       [] OTHER -> m[id]]

(***************************************************************************)
(* statesave and stateload.                                                *)
(***************************************************************************)
\* What stands in for a table that is missing: a default, or what was there.
AsItWas == {"SND3", "KYB2", "KYB3", "KYB4"}

\* read_id looks for the name from the first block on; a read that fails is
\* like a name that is not there.
CanRead(id, blocks, fault) ==
  \A x \in {id} \cup After(id) : x \in DOMAIN blocks /\ x # fault

\* The blocks are read in the order of loading, up to the first that is needed
\* and not there.  memory_allocate_additional comes before the first memory it
\* may allocate: all of the additional memories are cleared.
stateload(m, blocks, fault) ==
  LET board(id) == IF "SND" \in LoadedBefore[id] /\ "SND" \in DOMAIN blocks
                     THEN blocks["SND"] ELSE m["SND"]
      found == {id \in Ids : Present(id, board(id)) /\ CanRead(id, blocks, fault)}
      failing == {id \in Ids \ Optional : Present(id, board(id))} \ found
      reached(id) == LoadedBefore[id] \cap failing = {}
      cleared == {"MEMB"} \cup IF board("MEMA") = "II" THEN {"MEMA"} ELSE {}
      Loaded(id) ==
        IF reached(id) /\ id \in found THEN blocks[id]
        ELSE IF reached(id) /\ id \in Optional \ AsItWas THEN Default
        ELSE IF reached("MEMA") /\ id \in cleared THEN Cleared
        ELSE m[id]
  IN  [failing |-> failing, m |-> [id \in Ids |-> Loaded(id)]]

\* The blocks of a save that ends before block `cut'.
SavedBlocks(cut) ==
  Restrict(Parts, {id \in Ids : Present(id, sound_board) /\ id # cut
                                /\ cut \notin SavedBefore[id]})

(***************************************************************************)
(* Names: the disk's, with .sta or -N.sta; a serial of -1 is another name. *)
(***************************************************************************)
SuffixLen(serial) == IF serial < 0 THEN 0 ELSE IF serial = 0 THEN 4 ELSE 6

\* filename_set_state_serial: a name that would be too long stays.
filename_set_state_serial(n, serial) ==
  LET fits == StemLen[n.stem] + SuffixLen(serial) < NameMax
  IN  IF n.serial > 0 THEN [n EXCEPT !.serial = IF serial <= 0 THEN 0 ELSE serial]
      ELSE IF serial < 0 \/ (n.serial = 0 /\ serial = 0) \/ ~fits THEN n
      ELSE [n EXCEPT !.serial = serial]

Asked(serial) == IF serial >= 0 THEN filename_set_state_serial(file_state, serial)
                 ELSE file_state
Slot(serial) == <<file_state.stem, IF serial >= 0 THEN serial ELSE file_state.serial>>
Fits == \A s \in Serials : StemLen[file_state.stem] + SuffixLen(s) < NameMax

(***************************************************************************)
(* The calls.                                                              *)
(***************************************************************************)
Nothing == [did |-> "nothing"]

\* quasi88_statesave: the file is cut short before anything is written to it.
\* `from' and `slot' remember the machine and the number that were saved.
quasi88_statesave(serial, opens, cut) ==
  /\ file_state' = Asked(serial)
  /\ card' = IF opens
               THEN [card EXCEPT ![file_state'] =
                       [header |-> "good", blocks |-> SavedBlocks(cut), from |-> Parts,
                        slot |-> Slot(serial), whole |-> cut \notin Ids]]
               ELSE card
  /\ last' = Nothing
  /\ UNCHANGED <<sound_board, age, file_disk, open_disk, resumed>>

HeaderOk(f) == f # NoFile /\ (f.header = "good" \/ (f.header = "version" /\ resume_force))

\* quasi88_stateload where there is no state file.
StateNotFound(serial) ==
  /\ file_state' = Asked(serial)
  /\ ~HeaderOk(card[file_state'])
  /\ last' = Nothing
  /\ UNCHANGED <<sound_board, age, file_disk, open_disk, card, resumed>>

ScreenStays == UNCHANGED <<screen_dirty_flag, drawnVars, skipVars, statusVars, mode,
                           next_mode, step, screen_dirty_frame, screen_dirty_palette>>

\* quasi88_stateload: the images are closed, the state is read, and either the
\* images it names are opened or the machine is reset.  In the mode EXEC the
\* loop starts again from INIT.
quasi88_stateload(serial, fault, imageOpens) ==
  /\ file_state' = Asked(serial)
  /\ HeaderOk(card[file_state'])
  /\ \E f \in {card[file_state']} :
       \E r \in {stateload([Parts EXCEPT !["FDC"] = NoDisk], f.blocks, fault)} :
         \/ /\ r.failing = {}
            /\ Becomes(r.m)
            /\ open_disk' = IF imageOpens THEN r.m["FDC"] ELSE NoDisk
            /\ file_disk' = open_disk'
            /\ resumed' = TRUE
            /\ UNCHANGED <<screen_dirty_all, resetPalette>>
            /\ last' = [did |-> "load", file |-> f, slot |-> Slot(serial),
                        fits |-> Fits, clean |-> f.whole /\ fault \notin Ids]
         \/ /\ r.failing # {}
            /\ \E hi \in HighModes, page \in TextPages :
                 \E m \in {ResetOf(r.m, hi, page)} : Becomes(m)
            /\ open_disk' = NoDisk /\ file_disk' = r.m["FDC"]
            /\ screen_dirty_all' = TRUE /\ resetPalette' = TRUE
            /\ last' = [did |-> "reset", clean |-> f.whole /\ fault \notin Ids]
            /\ UNCHANGED resumed
  /\ mode_changed' = (mode_changed \/ Exec)
  /\ ScreenStays
  /\ UNCHANGED card

\* quasi88_disk_insert, which names the state file after the disk.
InsertImage(d) ==
  /\ file_disk' = d /\ open_disk' = d
  /\ file_state' = [stem |-> d, serial |-> 0]
  /\ last' = Nothing
  /\ UNCHANGED <<sound_board, age, card, resumed>>

\* quasi88_reset with another sound board.
ResetBoard(board) ==
  /\ sound_board' = board
  /\ age' = [id \in Aged |-> CASE id \in ResetDevices -> Initial
                               [] id = "MEMA" /\ board = "II" -> Cleared
                               [] id = "MEMB" -> Cleared
                               [] OTHER -> age[id]]
  /\ last' = Nothing
  /\ UNCHANGED <<file_disk, open_disk, file_state, card, resumed>>

\* A step of the program, which works on all of the machine.
Ages(n) ==
  /\ age' = [id \in Aged |-> n]
  /\ last' = Nothing
  /\ UNCHANGED <<sound_board, file_disk, open_disk, file_state, card, resumed>>

\* The card has nothing, a file of another version, one that is none, or one
\* of the first revision.
Names == [stem : StateDisks \cup {NoDisk}, serial : {0} \cup {s \in Serials : s > 0}]
OldBlocks == Ids \ (Optional \cup {"MEMA"})
OldFile ==
  [header |-> "good", from |-> [Parts EXCEPT !["SND"] = "I"], slot |-> <<NoDisk, 0>>,
   blocks |-> Restrict([Parts EXCEPT !["SND"] = "I"], OldBlocks), whole |-> FALSE]

SuspendInit ==
  /\ sound_board \in {"I", "II"} /\ age = [id \in Aged |-> 0]
  /\ file_disk = NoDisk /\ open_disk = NoDisk
  /\ file_state = [stem |-> NoDisk, serial |-> 0]
  /\ \E first \in {NoFile, OldFile, [OldFile EXCEPT !.header = "version"],
                   [OldFile EXCEPT !.header = "foreign"]} :
       card = [n \in Names |-> IF n = file_state THEN first ELSE NoFile]
  /\ last = Nothing /\ resumed = FALSE

(***************************************************************************)
(* What must hold.                                                         *)
(***************************************************************************)

\* A load succeeds if the file was written and is read to its end, whichever
\* sound board it is for.  One that succeeds gives the state that was saved under
\* the number asked for (if the disk's name leaves room for it): every part that
\* must be in a file is as it was, and from a whole file every other one, too.
LoadGives ==
  /\ last.did = "reset" => ~last.clean
  /\ last.did = "load" =>
    LET from == last.file.from
        needed == {id \in Ids : Present(id, from["SND"]) /\ (id \in Optional => last.clean)}
    IN  /\ last.fits => last.slot = last.file.slot
        /\ \A id \in needed \ {"FDC"} : Parts[id] = from[id]
        /\ open_disk \in {from["FDC"], NoDisk}

=============================================================================
