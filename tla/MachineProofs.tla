--------------------------- MODULE MachineProofs ---------------------------
(***************************************************************************)
(* The memory map for every -extram option, every ROM, every window and    *)
(* every sequence of ports, resets and options of the user.                *)
(*                                                                         *)
(* The pointers are remade piece by piece: a port calls only the functions *)
(* of the pieces its register is read by.  The invariant says that all of  *)
(* them are always what pc88main_init would make of the registers, and two *)
(* things of the registers themselves: a bank is never chosen beside the   *)
(* extended mode, and the ALU's comparison is made where it is turned on.  *)
(*                                                                         *)
(* A loaded state brings registers of its own.  That they are those of a   *)
(* machine is an invariant of the files on the card: what a file holds was *)
(* saved together, and a load that succeeds takes both tables that hold    *)
(* port 31H from the same file; one that fails ends in a reset.            *)
(*                                                                         *)
(* The picture is proved from what is drawn already: a cell that nothing   *)
(* marks is as the last drawing left it, and the attributes compared at    *)
(* the next one are those it was drawn from.  The CRTC need not mark a new *)
(* format, because it takes one only after a reset, while no text is       *)
(* shown; this is an invariant of the controller, and of the files.        *)
(*                                                                         *)
(* The date is proved from what a job half done leaves in the register:    *)
(* the bits sent are its top, the bits to be read its bottom, one place    *)
(* lower after each access; and the difference to the host's clock is      *)
(* always that of what the chip was last told.                             *)
(***************************************************************************)
EXTENDS Machine, TLAPS

IsIo(r) ==
  r = [grph_ctrl |-> r.grph_ctrl, misc_ctrl |-> r.misc_ctrl, ebank |-> r.ebank,
       vaccess |-> r.vaccess, aluData |-> r.aluData, aluMode |-> r.aluMode,
       ALU1_ctrl |-> r.ALU1_ctrl, memory_bank |-> r.memory_bank,
       window_offset |-> r.window_offset, ext_rom_not |-> r.ext_rom_not,
       ext_ram_ctrl |-> r.ext_ram_ctrl, ext_ram_bank |-> r.ext_ram_bank,
       jisho_not |-> r.jisho_not, jisho_bank |-> r.jisho_bank]

Registers ==
  /\ IsIo(io)
  /\ io.window_offset \in 0..255 /\ io.ext_ram_bank \in 0..255
  /\ "EVRAM" \in io.misc_ctrl => io.memory_bank = MAIN
  /\ io.vaccess => ALU_comp = set_ALU_comp(io)

Mapped == map = Mapping(io, high_mode)
Inv == Registers /\ Mapped

\* The text is shown if the controller, the DMA and the mode say so; the format
\* of the text changes only while the controller is stopped.
Controller ==
  /\ text_display = TextMode(crtc_active, crtc_intr_mask, dma2, text_pile, Color)
  /\ crtc_command = RESET => ~crtc_active

-----------------------------------------------------------------------------
(* The ports                                                               *)

LEMMA BankAfterIs ==
  ASSUME NEW r
  PROVE  "EVRAM" \in r.misc_ctrl => BankAfter(r) = MAIN
BY DEF BankAfter

LEMMA ExtBankIsByte ==
  ASSUME NEW d \in 0..255
  PROVE  ExtBank(d) \in 0..255
BY MemoryAssumption, SMTT(60)
   DEF ExtBank, NoBank, Nibble, BitOf, Row, MemoryAssumption

LEMMA InitInv == ASSUME MemoryInit PROVE Inv
BY DEF MemoryInit, Inv, Registers, Mapped, ResetIo, IsIo

LEMMA ResetInv == ASSUME NEW hi, MemoryReset(hi) PROVE Inv'
BY DEF MemoryReset, Inv, Registers, Mapped, ResetIo, IsIo

\* A step that leaves the memory alone.
LEMMA StaysInv == ASSUME Inv, UNCHANGED memoryVars PROVE Inv'
BY DEF Inv, Registers, Mapped, memoryVars

LEMMA GrphInv == ASSUME Inv, NEW b, OutGrph(b) PROVE Inv'
<1>1. Registers'
  BY DEF Inv, Registers, OutGrph, IsIo, set_ALU_comp
<1>2. Mapped'
  BY DEF Inv, Registers, Mapped, OutGrph, IsIo, Mapping,
         main_memory_mapping_c000_ffff, main_memory_vram_mapping
<1> QED BY <1>1, <1>2 DEF Inv

LEMMA MiscInv == ASSUME Inv, NEW b, NEW k, OutMisc(b, k) PROVE Inv'
<1> DEFINE r == [io EXCEPT !.misc_ctrl = b, !.ebank = k]
<1>1. Registers'
  BY DEF Inv, Registers, OutMisc, IsIo, set_ALU_comp, BankAfter
<1>2. io' = [r EXCEPT !.memory_bank = BankAfter(r)] /\ IsIo(io) /\ high_mode' = high_mode
  BY DEF Inv, Registers, OutMisc
<1>3. /\ Rom(io') = Rom(r)
      /\ Bank(io') = Bank(r)
      /\ io'.ext_ram_ctrl = r.ext_ram_ctrl
  BY <1>2 DEF Rom, Bank, IsIo
<1>4. main_memory_mapping_0000_7fff(io') = main_memory_mapping_0000_7fff(r)
  BY <1>3 DEF main_memory_mapping_0000_7fff
<1>5. main_memory_mapping_8000_83ff(io', high_mode)
        = main_memory_mapping_8000_83ff(io, high_mode)
  BY <1>2 DEF main_memory_mapping_8000_83ff, IsIo
<1>6. main_memory_mapping_c000_ffff(io', high_mode)
        = main_memory_mapping_c000_ffff(r, high_mode)
  BY <1>2 DEF main_memory_mapping_c000_ffff, IsIo
<1>7. main_memory_vram_mapping(io') = main_memory_vram_mapping(r)
  BY <1>2 DEF main_memory_vram_mapping, BankAfter, IsIo
<1>8. map' = [map EXCEPT !.low = main_memory_mapping_0000_7fff(r),
                         !.top = main_memory_mapping_c000_ffff(r, high_mode),
                         !.way = main_memory_vram_mapping(r)]
  BY DEF OutMisc
<1>9. map = Mapping(io, high_mode)
  BY DEF Inv, Mapped
<1>10. Mapped'
  BY <1>2, <1>4, <1>5, <1>6, <1>7, <1>8, <1>9 DEF Mapped, Mapping
<1> QED BY <1>1, <1>10 DEF Inv

LEMMA Alu1Inv == ASSUME Inv, NEW op, OutAlu1(op) PROVE Inv'
<1>1. Registers'
  BY DEF Inv, Registers, OutAlu1, IsIo, set_ALU_comp, BankAfter
<1>2. Mapped'
  BY DEF Inv, Registers, Mapped, OutAlu1, IsIo, Mapping, BankAfter,
         main_memory_mapping_0000_7fff, main_memory_mapping_8000_83ff,
         main_memory_mapping_c000_ffff,
         main_memory_vram_mapping, Bank, Rom
<1> QED BY <1>1, <1>2 DEF Inv

LEMMA Alu2Inv == ASSUME Inv, NEW d, NEW m, NEW a, OutAlu2(d, m, a) PROVE Inv'
<1>1. Registers'
  BY DEF Inv, Registers, OutAlu2, IsIo, set_ALU_comp, BankAfter
<1>2. Mapped'
  BY DEF Inv, Registers, Mapped, OutAlu2, IsIo, Mapping, BankAfter,
         main_memory_mapping_0000_7fff, main_memory_mapping_8000_83ff,
         main_memory_mapping_c000_ffff,
         main_memory_vram_mapping, Bank, Rom
<1> QED BY <1>1, <1>2 DEF Inv

LEMMA BankInv == ASSUME Inv, NEW b, OutBank(b) PROVE Inv'
<1>1. Registers'
  BY DEF Inv, Registers, OutBank, IsIo, set_ALU_comp, BankAfter
<1>2. Mapped'
  BY DEF Inv, Registers, Mapped, OutBank, IsIo, Mapping, BankAfter,
         main_memory_mapping_0000_7fff, main_memory_mapping_8000_83ff,
         main_memory_mapping_c000_ffff,
         main_memory_vram_mapping, Bank, Rom
<1> QED BY <1>1, <1>2 DEF Inv

LEMMA WindowInv == ASSUME Inv, NEW w \in 0..255, OutWindow(w) PROVE Inv'
<1>1. Registers'
  BY DEF Inv, Registers, OutWindow, IsIo, set_ALU_comp, BankAfter
<1>2. Mapped'
  BY DEF Inv, Registers, Mapped, OutWindow, IsIo, Mapping, BankAfter,
         main_memory_mapping_0000_7fff, main_memory_mapping_c000_ffff,
         main_memory_vram_mapping, Bank, Rom
<1> QED BY <1>1, <1>2 DEF Inv

LEMMA ExtRomInv == ASSUME Inv, NEW n, OutExtRom(n) PROVE Inv'
<1>1. Registers'
  BY DEF Inv, Registers, OutExtRom, IsIo, set_ALU_comp, BankAfter
<1>2. Mapped'
  BY DEF Inv, Registers, Mapped, OutExtRom, IsIo, Mapping, BankAfter,
         main_memory_mapping_8000_83ff, main_memory_mapping_c000_ffff,
         main_memory_vram_mapping
<1> QED BY <1>1, <1>2 DEF Inv

LEMMA ExtCtrlInv == ASSUME Inv, NEW rw, OutExtCtrl(rw) PROVE Inv'
<1>1. Registers'
  BY DEF Inv, Registers, OutExtCtrl, IsIo, set_ALU_comp, BankAfter
<1>2. Mapped'
  BY DEF Inv, Registers, Mapped, OutExtCtrl, IsIo, Mapping, BankAfter,
         main_memory_mapping_8000_83ff, main_memory_mapping_c000_ffff,
         main_memory_vram_mapping
<1> QED BY <1>1, <1>2 DEF Inv

LEMMA ExtBankInv == ASSUME Inv, NEW d \in 0..255, OutExtBank(d) PROVE Inv'
<1>1. Registers'
  BY ExtBankIsByte DEF Inv, Registers, OutExtBank, IsIo, set_ALU_comp, BankAfter
<1>2. Mapped'
  BY DEF Inv, Registers, Mapped, OutExtBank, IsIo, Mapping, BankAfter,
         main_memory_mapping_8000_83ff, main_memory_mapping_c000_ffff,
         main_memory_vram_mapping
<1> QED BY <1>1, <1>2 DEF Inv

LEMMA JishoInv == ASSUME Inv, NEW n, NEW b, OutJisho(n, b) PROVE Inv'
<1>1. Registers'
  BY DEF Inv, Registers, OutJisho, IsIo, set_ALU_comp, BankAfter
<1>2. Mapped'
  BY DEF Inv, Registers, Mapped, OutJisho, IsIo, Mapping, BankAfter,
         main_memory_mapping_0000_7fff, main_memory_mapping_8000_83ff,
         main_memory_vram_mapping, Bank, Rom
<1> QED BY <1>1, <1>2 DEF Inv

LEMMA BankWriteInv == ASSUME Inv, NEW bit, BankWrite(bit) PROVE Inv'
<1>1. Registers'
  BY DEF Inv, Registers, BankWrite, IsIo, set_ALU_comp, BankAfter
<1>2. Mapped'
  BY DEF Inv, Registers, Mapped, BankWrite, IsIo, Mapping, BankAfter,
         main_memory_mapping_0000_7fff, main_memory_mapping_8000_83ff
<1> QED BY <1>1, <1>2 DEF Inv

LEMMA AluInv == ASSUME Inv, NEW bit, ALU_read \/ ALU_write(bit) PROVE Inv'
BY DEF Inv, Registers, Mapped, ALU_read, ALU_write

-----------------------------------------------------------------------------
(* The controller                                                          *)

LEMMA InitControl == ASSUME MemoryInit, CrtcInit PROVE Controller
<1>1. "COLOR" \in io.grph_ctrl
  BY DEF MemoryInit, ResetIo
<1> QED BY <1>1 DEF CrtcInit, Controller, Color, TextMode, RESET

\* A step that leaves the controller alone, and the colour.
LEMMA StaysControl ==
  ASSUME Controller, Color' = Color, UNCHANGED crtcVars
  PROVE  Controller'
BY DEF Controller, crtcVars, dmaVars

\* A command, or a port of the DMA controller: the display is made anew, or does
\* not change.
LEMMA CrtcControl ==
  ASSUME Controller, UNCHANGED io, CrtcCommands \/ Dmac \/ FormatByte
  PROVE  Controller'
<1>1. Color' = Color
  BY DEF Color
<1>2. ASSUME set_text_display(Color), crtc_command' = RESET => ~crtc_active'
      PROVE  Controller'
  BY <1>1, <1>2 DEF set_text_display, Controller
<1>3. ASSUME UNCHANGED <<crtc_active, crtc_intr_mask, dma2, text_pile, text_display>>,
             crtc_command' = RESET => crtc_command = RESET
      PROVE  Controller'
  BY <1>1, <1>3 DEF Controller
<1>4. CrtcReset(Color) => Controller'
  BY <1>2 DEF CrtcReset
<1>5. \A r : CrtcStart(r, Color) => Controller'
  BY <1>2 DEF CrtcStart, Command, START, RESET
<1>6. \A k : CrtcMask(k, Color) => Controller'
  BY <1>2 DEF CrtcMask, Command, INTR_MASK, RESET
<1>7. \A on : CrtcLoadCursor(on) => Controller'
  BY <1>3 DEF CrtcLoadCursor, Command, LOAD_CURSOR, RESET, dmaVars
<1>8. \A k : CrtcOther(k) => Controller'
  BY <1>3 DEF CrtcOther, Command, READ_LIGHT_PEN, RESET_INTERRUPT, RESET_COUNTERS, RESET,
              dmaVars
<1>9. \A d : CursorByte(d) => Controller'
  BY <1>3 DEF CursorByte, dmaVars
<1>10. \A on : dmac_out_mode(on, Color) => Controller'
  BY <1>2 DEF dmac_out_mode, Controller
<1>11. \A g : dmac_out_address(g) => Controller'
  BY <1>3 DEF dmac_out_address
<1>12. dmac_touch => Controller'
  BY <1>3 DEF dmac_touch
<1>13. \A pile : grph_pile_out(pile, Color) => Controller'
  BY <1>2 DEF grph_pile_out, dmaVars, Controller
<1>14. FormatByte => Controller'
  BY <1>3 DEF FormatByte, dmaVars
<1> QED BY <1>4, <1>5, <1>6, <1>7, <1>8, <1>9, <1>10, <1>11, <1>12, <1>13, <1>14
        DEF CrtcCommands, CrtcDisplay, Dmac

\* OUT 31H.
LEMMA GrphControl == ASSUME Inv, Controller, NEW b, OutGrphCtrl(b) PROVE Controller'
<1>1. io'.grph_ctrl = b
  BY DEF OutGrphCtrl, OutGrph, Inv, Registers, IsIo
<1> QED BY <1>1 DEF OutGrphCtrl, CrtcColor, set_text_display, Controller, Color

LEMMA MiscControl == ASSUME Inv, Controller, NEW b, NEW k, OutMiscCtrl(b, k) PROVE Controller'
<1>1. Color' = Color
  BY DEF OutMiscCtrl, OutMisc, Inv, Registers, IsIo, Color
<1> QED BY <1>1, StaysControl DEF OutMiscCtrl

LEMMA ResetControl == ASSUME NEW hi, MemoryReset(hi), CrtcBoot PROVE Controller'
BY DEF MemoryReset, CrtcBoot, set_text_display, Controller, Color, ResetIo, LOAD_CURSOR,
       RESET

-----------------------------------------------------------------------------
(* The steps of the machine                                                *)

LEMMA MapPortsInv == ASSUME Inv, MapPorts PROVE Inv'
<1>1. CASE \E b \in SUBSET {"64RAM", "N"} : OutGrphCtrl(b \cup {"200", "COLOR"})
  BY <1>1, GrphInv DEF OutGrphCtrl
<1>2. CASE \E b \in SUBSET {"TEXT_MAIN", "EVRAM"}, k \in {0, 3} : OutMiscCtrl(b, k)
  BY <1>2, MiscInv DEF OutMiscCtrl
<1>3. CASE \E w \in Windows \cup {NextWindow} : OutWindow(w)
  <2>1. Windows \subseteq 0..255
    BY MachineAssumption DEF MachineAssumption
  <2>2. NextWindow \in 0..255
    BY DEF Inv, Registers, NextWindow, Top
  <2> QED BY <1>3, <2>1, <2>2, WindowInv
<1>4. CASE \E n \in BOOLEAN : OutExtRom(n)
  BY <1>4, ExtRomInv
<1>5. CASE \E rw \in SUBSET {"R", "W"} : OutExtCtrl(rw)
  BY <1>5, ExtCtrlInv
<1>6. CASE \E d \in ExtBytes : OutExtBank(d)
  <2>1. ExtBytes \subseteq 0..255
    BY MemoryAssumption DEF MemoryAssumption
  <2> QED BY <1>6, <2>1, ExtBankInv
<1>7. CASE \E n \in BOOLEAN, b \in {0, 31} : OutJisho(n, b)
  BY <1>7, JishoInv
<1> QED BY <1>1, <1>2, <1>3, <1>4, <1>5, <1>6, <1>7 DEF MapPorts

LEMMA VramWriteInv == ASSUME Inv, NEW bit, VramWrite(bit) PROVE Inv'
BY BankWriteInv, AluInv DEF VramWrite

LEMMA VramPortsInv == ASSUME Inv, VramPorts PROVE Inv'
<1>1. CASE \E b \in SUBSET {"EVRAM"} : OutMiscCtrl(b, 0)
  BY <1>1, MiscInv DEF OutMiscCtrl
<1>2. CASE \E op \in AluOps : OutAlu1(op)
  BY <1>2, Alu1Inv
<1>3. CASE \E d \in {{}, {1}}, m \in {"op", "restore", "r2b", "b2r"}, a \in BOOLEAN :
             OutAlu2(d, m, a)
  BY <1>3, Alu2Inv
<1>4. CASE \E b \in 0..3 : OutBank(b)
  BY <1>4, BankInv
<1>5. CASE \E bit \in {0, 1} : VramWrite(bit)
  BY <1>5, VramWriteInv
<1>6. CASE ALU_read
  BY <1>6, AluInv
<1> QED BY <1>1, <1>2, <1>3, <1>4, <1>5, <1>6 DEF VramPorts

LEMMA ScreenPortsInv == ASSUME Inv, ScreenPorts PROVE Inv'
<1>1. CASE \E b \in SUBSET {"200", "VDISP", "COLOR"} : OutGrphCtrl(b)
  BY <1>1, GrphInv DEF OutGrphCtrl
<1>2. CASE \E b \in {{}, {"ANALOG"}} : OutMiscCtrl(b, 0)
  BY <1>2, MiscInv DEF OutMiscCtrl
<1>3. CASE \E b \in {0, MAIN} : OutBank(b)
  BY <1>3, BankInv
<1>4. CASE \E bit \in {0, 1} : VramWrite(bit)
  BY <1>4, VramWriteInv
<1>5. CASE UNCHANGED memoryVars
  BY <1>5, StaysInv
<1> QED BY <1>1, <1>2, <1>3, <1>4, <1>5
        DEF ScreenPorts, OutSys, OutPalette, FormatOut, TextWrite

LEMMA CrtcPortsInv == ASSUME Inv, CrtcPorts PROVE Inv'
BY StaysInv DEF CrtcPorts, FormatOut

LEMMA UserInv == ASSUME Inv, User PROVE Inv'
<1>1. CASE resetMachine
  BY <1>1, ResetInv DEF resetMachine
<1>2. CASE Hardware
  BY <1>2, StaysInv DEF Hardware
<1> QED BY <1>1, <1>2 DEF User

-----------------------------------------------------------------------------
(* The blocks of a state file                                              *)

\* The blocks the proofs name are blocks, and the board is read before the
\* memory that only one of the boards has.
LEMMA Order ==
  /\ {"SND", "MAIN", "SCRN", "CRTC", "MEM0", "MEM3", "INTR", "FDC", "INT2", "INT3",
      "KYB2", "KYB3", "MEMA"} \subseteq Ids
  /\ "SND" \in LoadedBefore["MEMA"]
<1> USE DEF EmuBlocks, MemoryBlocks, MainBlocks, CrtcBlocks, SoundBlocks, PioBlocks,
            ScreenBlocks, IntrBlocks, KeyboardBlocks, SubBlocks, FdcBlocks
<1>1. {"SND", "MAIN", "SCRN", "CRTC", "MEM0", "MEM3", "INTR", "FDC", "INT2", "INT3",
      "KYB2", "KYB3", "MEMA"} \subseteq Ids
  <2>1. CASE UseExtram > 0
    <3>1. /\ \A i \in 1..29 : i \in DOMAIN SaveOrder
          /\ SaveOrder[9] = "MEMA" /\ SaveOrder[11] = "MAIN" /\ SaveOrder[13] = "CRTC"
          /\ SaveOrder[14] = "SND" /\ SaveOrder[18] = "SCRN" /\ SaveOrder[19] = "INTR"
          /\ SaveOrder[20] = "INT2" /\ SaveOrder[21] = "INT3" /\ SaveOrder[24] = "KYB2"
          /\ SaveOrder[25] = "KYB3" /\ SaveOrder[28] = "FDC" /\ SaveOrder[4] = "MEM0"
          /\ SaveOrder[7] = "MEM3"
      BY <2>1, SMTT(60) DEF SaveOrder
    <3> HIDE DEF EmuBlocks, MemoryBlocks, MainBlocks, CrtcBlocks, SoundBlocks, PioBlocks,
            ScreenBlocks, IntrBlocks, KeyboardBlocks, SubBlocks, FdcBlocks
    <3>2. \A i \in 1..29 : SaveOrder[i] \in Ids
      BY <3>1 DEF Ids
    <3> QED BY <3>1, <3>2
  <2>2. CASE ~(UseExtram > 0)
    <3>1. /\ \A i \in 1..28 : i \in DOMAIN SaveOrder
          /\ SaveOrder[9] = "MEMA" /\ SaveOrder[10] = "MAIN" /\ SaveOrder[12] = "CRTC"
          /\ SaveOrder[13] = "SND" /\ SaveOrder[17] = "SCRN" /\ SaveOrder[18] = "INTR"
          /\ SaveOrder[19] = "INT2" /\ SaveOrder[20] = "INT3" /\ SaveOrder[23] = "KYB2"
          /\ SaveOrder[24] = "KYB3" /\ SaveOrder[27] = "FDC" /\ SaveOrder[4] = "MEM0"
          /\ SaveOrder[7] = "MEM3"
      BY <2>2, SMTT(60) DEF SaveOrder
    <3> HIDE DEF EmuBlocks, MemoryBlocks, MainBlocks, CrtcBlocks, SoundBlocks, PioBlocks,
            ScreenBlocks, IntrBlocks, KeyboardBlocks, SubBlocks, FdcBlocks
    <3>2. \A i \in 1..28 : SaveOrder[i] \in Ids
      BY <3>1 DEF Ids
    <3> QED BY <3>1, <3>2
  <2> QED BY <2>1, <2>2
<1>2. 2 \in DOMAIN LoadOrder /\ LoadOrder[2] = "SND"
  BY SMTT(60) DEF LoadOrder
<1>3. 12 \in DOMAIN LoadOrder /\ LoadOrder[12] = "MEMA"
  BY SMTT(60) DEF LoadOrder
<1> HIDE DEF EmuBlocks, MemoryBlocks, MainBlocks, CrtcBlocks, SoundBlocks, PioBlocks,
            ScreenBlocks, IntrBlocks, KeyboardBlocks, SubBlocks, FdcBlocks
<1>4. "SND" \in LoadedBefore["MEMA"]
  BY <1>1, <1>2, <1>3 DEF LoadedBefore, Preceding
<1> QED BY <1>1, <1>4

-----------------------------------------------------------------------------
(* Tables and files                                                        *)

\* The registers of a table, and the comparison that goes with them.
MainRight(t) ==
  /\ t = [io |-> t.io, hi |-> t.hi, buf |-> t.buf, comp |-> t.comp]
  /\ IsIo(t.io)
  /\ t.io.window_offset \in 0..255 /\ t.io.ext_ram_bank \in 0..255
  /\ "EVRAM" \in t.io.misc_ctrl => t.io.memory_bank = MAIN
  /\ t.io.vaccess => t.comp = set_ALU_comp(t.io)

IsScreen(t) ==
  t = [pal |-> t.pal, bg |-> t.bg, sys80 |-> t.sys80, grph |-> t.grph, pile |-> t.pile,
       rate |-> t.rate, auto |-> t.auto]

\* A reset stops the controller, and only a start ends that.
CrtcRight(t) ==
  /\ t.command = RESET => ~t.active
  /\ t = [command |-> t.command, num |-> t.num, active |-> t.active, mask |-> t.mask,
          format |-> t.format, reverse |-> t.reverse, cursor |-> t.cursor, load |-> t.load,
          status |-> t.status, dma2 |-> t.dma2, flipflop |-> t.flipflop, blink |-> t.blink]

\* A machine as tables, of one save or of several.
IsMachine(p) ==
  /\ p = [id \in Ids |-> p[id]]
  /\ MainRight(p["MAIN"]) /\ IsScreen(p["SCRN"]) /\ CrtcRight(p["CRTC"])

\* The tables of one save agree about port 31H, which two of them have.
OneMachine(p) == IsMachine(p) /\ p["SCRN"].grph = p["MAIN"].io.grph_ctrl

FitsName(stem) == \A s \in Serials : StemLen[stem] + SuffixLen(s) < NameMax

FileRight(f, n) ==
  /\ OneMachine(f.from)
  /\ f.blocks = Restrict(f.from, DOMAIN f.blocks) /\ DOMAIN f.blocks \subseteq Ids
  /\ f.whole => {id \in Ids : Present(id, f.from["SND"])} \subseteq DOMAIN f.blocks
  /\ FitsName(n.stem) => f.slot = <<n.stem, n.serial>>

Files ==
  /\ age = [id \in Aged |-> age[id]]
  /\ file_state \in Names
  /\ card = [n \in Names |-> card[n]]
  /\ \A n \in Names : card[n] # NoFile => FileRight(card[n], n)

StateInv == Inv /\ Controller /\ Files

LEMMA AgedIs ==
  /\ Modelled = {"SND", "MEM0", "MEM3", "MAIN", "CRTC", "SCRN", "INTR", "FDC"}
  /\ Modelled \subseteq Ids /\ Aged = Ids \ Modelled
BY Order DEF Modelled, Aged

LEMMA OverIs ==
  ASSUME NEW h, DOMAIN h = Modelled, NEW a, a = [id \in Aged |-> a[id]]
  PROVE  /\ Over(h, a) = [id \in Ids |-> Over(h, a)[id]]
         /\ \A id \in Modelled : Over(h, a)[id] = h[id]
         /\ \A id \in Aged : Over(h, a)[id] = a[id]
<1>1. DOMAIN a = Aged
  OBVIOUS
<1>2. Modelled \cup Aged = Ids /\ Modelled \cap Aged = {}
  BY AgedIs
<1>3. Over(h, a) = [id \in Ids |-> IF id \in Modelled THEN h[id] ELSE a[id]]
  BY <1>1, <1>2 DEF Over
<1> QED BY <1>2, <1>3

LEMMA PartsAre ==
  ASSUME age = [id \in Aged |-> age[id]]
  PROVE  /\ Parts = [id \in Ids |-> Parts[id]]
         /\ Parts["SND"] = sound_board /\ Parts["MEM0"] = text_page
         /\ Parts["MEM3"] = main_vram /\ Parts["MAIN"] = MainTable
         /\ Parts["CRTC"] = CrtcTable /\ Parts["SCRN"] = ScreenTable
         /\ Parts["INTR"] = no_wait /\ Parts["FDC"] = file_disk
         /\ \A id \in Aged : Parts[id] = age[id]
<1> DEFINE h == [SND |-> sound_board, MEM0 |-> text_page, MEM3 |-> main_vram,
                 MAIN |-> MainTable, CRTC |-> CrtcTable, SCRN |-> ScreenTable,
                 INTR |-> no_wait, FDC |-> file_disk]
<1>1. DOMAIN h = Modelled /\ Parts = Over(h, age)
  BY AgedIs DEF Parts
<1>2. /\ Parts = [id \in Ids |-> Parts[id]]
      /\ \A id \in Modelled : Parts[id] = h[id]
      /\ \A id \in Aged : Parts[id] = age[id]
  <2> HIDE DEF h
  <2> QED BY <1>1, OverIs
<1> QED BY <1>2, AgedIs

\* The same of the state after a step.
LEMMA PartsWillBe ==
  ASSUME age' = [id \in Aged |-> age'[id]]
  PROVE  /\ Parts' = [id \in Ids |-> Parts'[id]]
         /\ Parts'["SND"] = sound_board' /\ Parts'["MEM0"] = text_page'
         /\ Parts'["MEM3"] = main_vram' /\ Parts'["MAIN"] = MainTable'
         /\ Parts'["CRTC"] = CrtcTable' /\ Parts'["SCRN"] = ScreenTable'
         /\ Parts'["INTR"] = no_wait' /\ Parts'["FDC"] = file_disk'
         /\ \A id \in Aged : Parts'[id] = age'[id]
<1> DEFINE h == [SND |-> sound_board', MEM0 |-> text_page', MEM3 |-> main_vram',
                 MAIN |-> MainTable', CRTC |-> CrtcTable', SCRN |-> ScreenTable',
                 INTR |-> no_wait', FDC |-> file_disk']
<1>1. DOMAIN h = Modelled /\ Parts' = Over(h, age')
  BY AgedIs DEF Parts
<1>2. /\ Parts' = [id \in Ids |-> Parts'[id]]
      /\ \A id \in Modelled : Parts'[id] = h[id]
      /\ \A id \in Aged : Parts'[id] = age'[id]
  <2> HIDE DEF h
  <2> QED BY <1>1, OverIs
<1> QED BY <1>2, AgedIs

LEMMA PartsOneMachine == ASSUME StateInv PROVE OneMachine(Parts)
<1>1. MainRight(MainTable) /\ IsScreen(ScreenTable) /\ CrtcRight(CrtcTable)
  BY DEF StateInv, Inv, Controller, Registers, MainTable, ScreenTable, CrtcTable, MainRight,
         IsScreen, CrtcRight
<1>2. ScreenTable.grph = MainTable.io.grph_ctrl
  BY DEF ScreenTable, MainTable
<1> QED BY <1>1, <1>2, PartsAre DEF StateInv, Files, OneMachine, IsMachine

-----------------------------------------------------------------------------
(* What is read of a file                                                  *)

Complete(from, blocks) == {id \in Ids : Present(id, from["SND"])} \subseteq DOMAIN blocks

LEMMA StateLoaded ==
  ASSUME NEW from, OneMachine(from), NEW m, IsMachine(m), NEW blocks, NEW fault,
         blocks = Restrict(from, DOMAIN blocks), DOMAIN blocks \subseteq Ids
  PROVE  LET r == stateload(m, blocks, fault)
         IN  /\ IsMachine(r.m)
             /\ r.failing = {} =>
                  /\ OneMachine(r.m)
                  /\ \A id \in Ids \ Optional : Present(id, from["SND"]) => r.m[id] = from[id]
             /\ (Complete(from, blocks) /\ fault \notin Ids) =>
                  /\ r.failing = {}
                  /\ \A id \in Ids : Present(id, from["SND"]) => r.m[id] = from[id]
<1> DEFINE board(id) == IF "SND" \in LoadedBefore[id] /\ "SND" \in DOMAIN blocks
                          THEN blocks["SND"] ELSE m["SND"]
           found == {id \in Ids : Present(id, board(id)) /\ CanRead(id, blocks, fault)}
           failing == {id \in Ids \ Optional : Present(id, board(id))} \ found
           reached(id) == LoadedBefore[id] \cap failing = {}
           cleared == {"MEMB"} \cup IF board("MEMA") = "II" THEN {"MEMA"} ELSE {}
           Loaded(id) ==
             IF reached(id) /\ id \in found THEN blocks[id]
             ELSE IF reached(id) /\ id \in Optional \ AsItWas THEN Default
             ELSE IF reached("MEMA") /\ id \in cleared THEN Cleared
             ELSE m[id]
           r == stateload(m, blocks, fault)
<1>1. r = [failing |-> failing, m |-> [id \in Ids |-> Loaded(id)]]
  BY DEF stateload
<1>2. \A id \in Ids : r.m[id] = Loaded(id)
  BY <1>1
<1>3. \A id \in DOMAIN blocks : blocks[id] = from[id]
  <2>1. \A id \in DOMAIN blocks : Restrict(from, DOMAIN blocks)[id] = from[id]
    BY DEF Restrict
  <2> QED BY <2>1
<1>4. \A id \in found : id \in DOMAIN blocks
  BY DEF CanRead
<1>5. \A id \in {"MAIN", "SCRN", "CRTC"} : r.m[id] = from[id] \/ r.m[id] = m[id]
  <2> SUFFICES ASSUME NEW id \in {"MAIN", "SCRN", "CRTC"}
               PROVE  Loaded(id) = from[id] \/ Loaded(id) = m[id]
    BY <1>2, Order
  <2>1. id \notin Optional /\ id \notin cleared
    BY DEF Optional
  <2>2. CASE reached(id) /\ id \in found
    BY <1>3, <1>4, <2>2
  <2>3. CASE ~(reached(id) /\ id \in found)
    BY <2>1, <2>3
  <2> QED BY <2>2, <2>3
<1>6. IsMachine(r.m)
  <2>1. r.m = [id \in Ids |-> r.m[id]]
    BY <1>1
  <2>2. MainRight(from["MAIN"]) /\ MainRight(m["MAIN"]) /\ IsScreen(from["SCRN"])
        /\ IsScreen(m["SCRN"]) /\ CrtcRight(from["CRTC"]) /\ CrtcRight(m["CRTC"])
    BY DEF OneMachine, IsMachine
  <2>3. (r.m["MAIN"] = from["MAIN"] \/ r.m["MAIN"] = m["MAIN"])
        /\ (r.m["SCRN"] = from["SCRN"] \/ r.m["SCRN"] = m["SCRN"])
        /\ (r.m["CRTC"] = from["CRTC"] \/ r.m["CRTC"] = m["CRTC"])
    BY <1>5
  <2>4. MainRight(r.m["MAIN"]) /\ IsScreen(r.m["SCRN"]) /\ CrtcRight(r.m["CRTC"])
    BY <2>2, <2>3
  <2> QED BY <2>1, <2>4 DEF IsMachine
\* A board that is read is the one of the file.
<1>7. ASSUME "SND" \in found
      PROVE  \A id \in Ids : Present(id, from["SND"]) <=> Present(id, board(id))
  <2>1. board("MEMA") = from["SND"]
    BY <1>3, <1>4, <1>7, Order
  <2> QED BY <2>1 DEF Present
<1>8. ASSUME failing = {}
      PROVE  "SND" \in found
  BY <1>8, Order DEF Optional, Present
<1>9. ASSUME failing = {}, NEW id \in found
      PROVE  r.m[id] = from[id]
  <2>1. reached(id) /\ id \in Ids
    BY <1>9
  <2> HIDE DEF failing, found
  <2>2. Loaded(id) = blocks[id]
    BY <1>9, <2>1
  <2> QED BY <1>2, <1>3, <1>4, <2>1, <2>2
<1>10. ASSUME r.failing = {}
       PROVE  /\ OneMachine(r.m)
              /\ \A id \in Ids \ Optional : Present(id, from["SND"]) => r.m[id] = from[id]
  <2>1. failing = {}
    <3> HIDE DEF failing
    <3> QED BY <1>1, <1>10
  <2>2. \A id \in Ids \ Optional : Present(id, from["SND"]) => r.m[id] = from[id]
    BY <1>7, <1>8, <1>9, <2>1
  <2>3. r.m["MAIN"] = from["MAIN"] /\ r.m["SCRN"] = from["SCRN"]
    BY <2>2, Order DEF Optional, Present
  <2> QED BY <1>6, <2>2, <2>3 DEF OneMachine
<1>11. ASSUME Complete(from, blocks), fault \notin Ids
       PROVE  /\ r.failing = {}
              /\ \A id \in Ids : Present(id, from["SND"]) => r.m[id] = from[id]
  <2>1. \A id \in Ids : After(id) \subseteq {"INT2", "INT3", "KYB2", "KYB3"}
    BY DEF After
  <2>2. \A x \in {"INT2", "INT3", "KYB2", "KYB3"} : x \in DOMAIN blocks
    BY <1>11, Order DEF Complete, Present
  <2>3. \A id \in Ids : Present(id, from["SND"]) => CanRead(id, blocks, fault)
    <3> SUFFICES ASSUME NEW id \in Ids, Present(id, from["SND"]), NEW x \in {id} \cup After(id)
                 PROVE  x \in DOMAIN blocks /\ x # fault
      BY DEF CanRead
    <3>1. x \in DOMAIN blocks
      BY <1>11, <2>1, <2>2 DEF Complete
    <3> QED BY <1>11, <3>1
  <2>4. "SND" \in found
    BY <2>3, Order DEF Present
  <2>5. \A id \in Ids : Present(id, from["SND"]) => id \in found
    BY <1>7, <2>3, <2>4
  <2>6. \A id \in Ids \ Optional : Present(id, board(id)) => id \in found
    <3> HIDE DEF found, board
    <3> QED BY <1>7, <2>4, <2>5
  <2>7. failing = {}
    <3> HIDE DEF found, board
    <3> QED BY <2>6
  <2>8. \A id \in Ids : Present(id, from["SND"]) => r.m[id] = from[id]
    <3> HIDE DEF found, failing
    <3> QED BY <1>9, <2>5, <2>7
  <2>9. r.failing = {}
    <3> HIDE DEF failing
    <3> QED BY <1>1, <2>7
  <2> QED BY <2>8, <2>9
<1> QED BY <1>6, <1>10, <1>11

-----------------------------------------------------------------------------
(* A machine made of tables                                                *)

\* What is made of the tables of one machine is that machine, with its pointers
\* as its registers ask for.
LEMMA BecomesIt ==
  ASSUME NEW m, OneMachine(m), Becomes(m)
  PROVE  /\ Inv' /\ Controller'
         /\ age' = [id \in Aged |-> age'[id]]
         /\ \A id \in Ids \ {"FDC"} : Parts'[id] = m[id]
<1> DEFINE t == m["MAIN"]
           s == m["SCRN"]
           c == m["CRTC"]
<1>1. MainRight(t) /\ IsScreen(s) /\ CrtcRight(c) /\ s.grph = t.io.grph_ctrl
  BY DEF OneMachine, IsMachine
<1>2. [t.io EXCEPT !.grph_ctrl = s.grph] = t.io
  BY <1>1 DEF MainRight, IsIo
<1>3. [t.io EXCEPT !.memory_bank = BankAfter(t.io)] = t.io
  BY <1>1 DEF MainRight, IsIo, BankAfter
<1>4. /\ io' = t.io /\ high_mode' = t.hi /\ map' = Mapping(t.io, t.hi)
      /\ ALU_buf' = t.buf /\ ALU_comp' = t.comp /\ main_vram' = m["MEM3"]
  BY <1>2, <1>3 DEF Becomes
<1>5. Inv'
  BY <1>1, <1>4 DEF Inv, Registers, Mapped, MainRight
<1>6. age' = [id \in Aged |-> m[id]]
  BY DEF Becomes, Restrict
<1>7. age' = [id \in Aged |-> age'[id]]
  BY <1>6
<1>8. MainTable' = t
  BY <1>1, <1>4 DEF MainTable, MainRight
<1>9. CrtcTable' = c
  BY <1>1 DEF CrtcTable, CrtcRight, Becomes
<1>10. ScreenTable' = s
  <2>1. io'.grph_ctrl = s.grph
    BY <1>1, <1>4
  <2> QED BY <1>1, <2>1 DEF ScreenTable, IsScreen, Becomes
<1>11. ASSUME NEW id \in Ids \ {"FDC"}
       PROVE  Parts'[id] = m[id]
  <2>1. CASE id \in Aged
    BY <1>6, <1>7, <2>1, PartsWillBe
  <2>2. CASE id \notin Aged
    <3>1. id \in {"SND", "MEM0", "MEM3", "MAIN", "CRTC", "SCRN", "INTR"}
      BY <2>2, AgedIs
    <3>2. sound_board' = m["SND"] /\ text_page' = m["MEM0"] /\ no_wait' = m["INTR"]
      BY DEF Becomes
    <3> QED BY <1>4, <1>7, <1>8, <1>9, <1>10, <3>1, <3>2, PartsWillBe
  <2> QED BY <2>1, <2>2
<1>12. Controller'
  <2>1. io'.grph_ctrl = s.grph /\ (c.command = RESET => ~c.active)
    BY <1>1, <1>4 DEF CrtcRight
  <2>2. set_text_display("COLOR" \in s.grph) /\ crtc_command' = c.command
        /\ crtc_active' = c.active
    BY DEF Becomes
  <2> QED BY <2>1, <2>2 DEF Controller, set_text_display, Color
<1> QED BY <1>5, <1>7, <1>11, <1>12

LEMMA ResetOneMachine ==
  ASSUME NEW m, IsMachine(m), NEW hi, NEW page
  PROVE  OneMachine(ResetOf(m, hi, page))
<1> DEFINE q == ResetOf(m, hi, page)
<1>1. q = [id \in Ids |-> q[id]]
  BY DEF ResetOf
<1>2. {"MAIN", "SCRN", "CRTC"} \cap ResetDevices = {} /\ {"MAIN", "SCRN", "CRTC"} \subseteq Ids
  BY AgedIs DEF ResetDevices
<1>3. q["MAIN"] = [m["MAIN"] EXCEPT !.io = ResetIo, !.hi = hi]
  BY <1>2 DEF ResetOf
<1>4. q["CRTC"] = [m["CRTC"] EXCEPT !.command = LOAD_CURSOR, !.num = 2,
                            !.active = FALSE, !.format = DefaultFormat,
                            !.cursor = <<-1, -1>>, !.load = FALSE, !.flipflop = 0,
                            !.status = @ \ {"VE", "N", "E"}]
  BY <1>2 DEF ResetOf
<1>5. q["SCRN"] = [m["SCRN"] EXCEPT !.pal = FirstInk, !.bg = FirstInk,
                            !.sys80 = TRUE, !.grph = ResetIo.grph_ctrl, !.pile = FALSE]
  BY <1>2 DEF ResetOf
<1>6. MainRight(m["MAIN"]) /\ IsScreen(m["SCRN"]) /\ CrtcRight(m["CRTC"])
  BY DEF IsMachine
<1>7. MainRight(q["MAIN"]) /\ q["MAIN"].io.grph_ctrl = ResetIo.grph_ctrl
  <2>1. /\ IsIo(ResetIo) /\ ResetIo.window_offset \in 0..255
        /\ ResetIo.ext_ram_bank \in 0..255 /\ ResetIo.memory_bank = MAIN
        /\ ~ResetIo.vaccess
    BY DEF ResetIo, IsIo
  <2>2. q["MAIN"] = [io |-> ResetIo, hi |-> hi, buf |-> m["MAIN"].buf,
                     comp |-> m["MAIN"].comp]
    BY <1>3, <1>6 DEF MainRight
  <2> HIDE DEF q
  <2> QED BY <2>1, <2>2 DEF MainRight
<1>8. IsScreen(q["SCRN"]) /\ q["SCRN"].grph = ResetIo.grph_ctrl
  BY <1>5, <1>6 DEF IsScreen
<1>9. CrtcRight(q["CRTC"])
  BY <1>4, <1>6 DEF CrtcRight, LOAD_CURSOR, RESET
<1> QED BY <1>1, <1>7, <1>8, <1>9 DEF OneMachine, IsMachine

-----------------------------------------------------------------------------
(* Names of state files                                                    *)

LEMMA AskedIsName ==
  ASSUME file_state \in Names, NEW serial \in Serials
  PROVE  /\ Asked(serial) \in Names /\ Asked(serial).stem = file_state.stem
         /\ FitsName(file_state.stem) => Slot(serial) = <<file_state.stem, Asked(serial).serial>>
<1> DEFINE n == file_state
<1>1. /\ n = [stem |-> n.stem, serial |-> n.serial] /\ n.stem \in StateDisks \cup {NoDisk}
      /\ n.serial \in Nat /\ (n.serial > 0 => n.serial \in Serials) /\ serial \in Int
  <2>1. /\ n = [stem |-> n.stem, serial |-> n.serial] /\ n.stem \in StateDisks \cup {NoDisk}
        /\ n.serial \in {0} \cup {s \in Serials : s > 0}
    BY DEF Names
  <2>2. Serials \subseteq Int
    BY SuspendAssumption DEF SuspendAssumption
  <2> QED BY <2>1, <2>2
<1>2. /\ Asked(serial) = [stem |-> n.stem, serial |-> Asked(serial).serial]
      /\ Asked(serial).serial \in {n.serial, 0, serial} /\ Asked(serial).serial >= 0
  BY <1>1 DEF Asked, filename_set_state_serial
<1>3. Asked(serial) \in Names
  BY <1>1, <1>2 DEF Names
<1>4. ASSUME FitsName(n.stem), serial >= 0
      PROVE  Asked(serial).serial = serial
  <2>1. StemLen[n.stem] + SuffixLen(serial) < NameMax
    BY <1>4 DEF FitsName
  <2> QED BY <1>1, <1>4, <2>1 DEF Asked, filename_set_state_serial
<1>5. ASSUME ~(serial >= 0)
      PROVE  Asked(serial) = n
  BY <1>5 DEF Asked
<1> QED BY <1>2, <1>3, <1>4, <1>5 DEF Slot

LEMMA InitFiles == ASSUME MachineInit PROVE Files
<1>1. age = [id \in Aged |-> age[id]]
  BY DEF MachineInit, SuspendInit
<1>2. file_state = [stem |-> NoDisk, serial |-> 0] /\ file_state \in Names
  BY DEF MachineInit, SuspendInit, Names
<1>3. Inv /\ Controller
  BY InitInv, InitControl DEF MachineInit
<1>4. PICK first \in {NoFile, OldFile, [OldFile EXCEPT !.header = "version"],
                      [OldFile EXCEPT !.header = "foreign"]} :
        card = [n \in Names |-> IF n = file_state THEN first ELSE NoFile]
  BY DEF MachineInit, SuspendInit
<1> DEFINE from == [Parts EXCEPT !["SND"] = "I"]
<1>5. OneMachine(from)
  <2>1. MainRight(MainTable) /\ IsScreen(ScreenTable) /\ CrtcRight(CrtcTable)
        /\ ScreenTable.grph = MainTable.io.grph_ctrl
    BY <1>3 DEF Inv, Controller, Registers, MainTable, ScreenTable, CrtcTable, MainRight,
                IsScreen, CrtcRight
  <2>2. from = [id \in Ids |-> from[id]] /\ from["MAIN"] = MainTable
        /\ from["SCRN"] = ScreenTable /\ from["CRTC"] = CrtcTable
    BY <1>1, PartsAre, Order
  <2> HIDE DEF from
  <2> QED BY <2>1, <2>2 DEF OneMachine, IsMachine
<1>6. OldFile = [header |-> "good", from |-> from, slot |-> <<NoDisk, 0>>,
                 blocks |-> Restrict(from, OldBlocks), whole |-> FALSE]
  BY DEF OldFile
<1>7. /\ DOMAIN Restrict(from, OldBlocks) = OldBlocks /\ OldBlocks \subseteq Ids
  BY DEF Restrict, OldBlocks
<1>8. ASSUME first # NoFile
      PROVE  FileRight(first, file_state)
  <2>1. /\ first.from = from /\ first.blocks = Restrict(from, OldBlocks)
        /\ first.whole = FALSE /\ first.slot = <<NoDisk, 0>>
    <3> HIDE DEF from
    <3> QED BY <1>6, <1>8
  <2> HIDE DEF from
  <2> QED BY <1>2, <1>5, <1>7, <2>1 DEF FileRight
<1>9. \A n \in Names : card[n] # NoFile => FileRight(card[n], n)
  BY <1>4, <1>8
<1> QED BY <1>1, <1>2, <1>4, <1>9 DEF Files

\* A step that leaves the files alone.
LEMMA KeepsFiles ==
  ASSUME Files, UNCHANGED <<file_state, card>>, age' = [id \in Aged |-> age'[id]]
  PROVE  Files'
BY DEF Files

LEMMA SaveFiles ==
  ASSUME StateInv, NEW serial \in Serials, NEW opens, NEW cut,
         quasi88_statesave(serial, opens, cut)
  PROVE  Files'
<1> DEFINE n == file_state'
           D == {id \in Ids : Present(id, sound_board) /\ id # cut /\ cut \notin SavedBefore[id]}
           f == [header |-> "good", blocks |-> SavedBlocks(cut), from |-> Parts,
                 slot |-> Slot(serial), whole |-> cut \notin Ids]
<1>1. n = Asked(serial) /\ n \in Names /\ age' = age
  BY AskedIsName DEF StateInv, Files, quasi88_statesave
<1>2. FileRight(f, n)
  <2>1. OneMachine(f.from)
    BY PartsOneMachine
  <2>2. f.blocks = Restrict(f.from, D) /\ DOMAIN f.blocks = D /\ D \subseteq Ids
    BY DEF SavedBlocks, Restrict
  <2>3. f.whole => cut \notin Ids
    OBVIOUS
  <2>4. ASSUME cut \notin Ids
        PROVE  {id \in Ids : Present(id, Parts["SND"])} \subseteq D
    <3>1. \A id \in Ids : SavedBefore[id] \subseteq Ids
      BY DEF SavedBefore, Preceding, Ids
    <3>2. Parts["SND"] = sound_board
      BY PartsAre DEF StateInv, Files
    <3> QED BY <2>4, <3>1, <3>2
  <2>5. FitsName(n.stem) => f.slot = <<n.stem, n.serial>>
    <3>1. n.stem = file_state.stem
      BY <1>1, AskedIsName DEF StateInv, Files
    <3> QED BY <1>1, <3>1, AskedIsName DEF StateInv, Files
  <2>6. f.from = Parts
    OBVIOUS
  <2> HIDE DEF f, D, n
  <2> QED BY <2>1, <2>2, <2>3, <2>4, <2>5, <2>6 DEF FileRight
<1>3. card' = IF opens THEN [card EXCEPT ![n] = f] ELSE card
  BY DEF quasi88_statesave
<1>4. \A x \in Names : card'[x] = card[x] \/ (x = n /\ card'[x] = f)
  <2> HIDE DEF f
  <2> QED BY <1>1, <1>3 DEF StateInv, Files
<1>5. card' = [x \in Names |-> card'[x]]
  <2> HIDE DEF f
  <2> QED BY <1>3 DEF StateInv, Files
<1>6. \A x \in Names : card'[x] # NoFile => FileRight(card'[x], x)
  <2> HIDE DEF f
  <2> QED BY <1>2, <1>4 DEF StateInv, Files
<1> QED BY <1>1, <1>5, <1>6 DEF StateInv, Files

LEMMA LoadInv ==
  ASSUME StateInv, NEW serial \in Serials, NEW fault, NEW opens,
         quasi88_stateload(serial, fault, opens)
  PROVE  StateInv' /\ LoadGives'
<1> DEFINE n == file_state'
           f == card[n]
           p == [Parts EXCEPT !["FDC"] = NoDisk]
           r == stateload(p, f.blocks, fault)
<1>1. n = Asked(serial) /\ n \in Names /\ n.stem = file_state.stem
  BY AskedIsName DEF StateInv, Files, quasi88_stateload
<1>2. FileRight(f, n)
  BY <1>1 DEF StateInv, Files, quasi88_stateload, HeaderOk
<1>3. IsMachine(p)
  <2>1. IsMachine(Parts)
    BY PartsOneMachine DEF OneMachine
  <2> QED BY <2>1, Order DEF IsMachine
<1>4. /\ IsMachine(r.m)
      /\ r.failing = {} =>
           /\ OneMachine(r.m)
           /\ \A id \in Ids \ Optional : Present(id, f.from["SND"]) => r.m[id] = f.from[id]
      /\ (Complete(f.from, f.blocks) /\ fault \notin Ids) =>
           /\ r.failing = {}
           /\ \A id \in Ids : Present(id, f.from["SND"]) => r.m[id] = f.from[id]
  <2> HIDE DEF p, f
  <2> QED BY <1>2, <1>3, StateLoaded DEF FileRight
<1>5. (f.whole /\ fault \notin Ids) => (Complete(f.from, f.blocks) /\ fault \notin Ids)
  BY <1>2 DEF FileRight, Complete
<1>6. card' = card
  BY DEF quasi88_stateload
<1> HIDE DEF f, p, r
<1>7. CASE /\ r.failing = {}
           /\ Becomes(r.m)
           /\ open_disk' = IF opens THEN r.m["FDC"] ELSE NoDisk
           /\ last' = [did |-> "load", file |-> f, slot |-> Slot(serial),
                       fits |-> Fits, clean |-> f.whole /\ fault \notin Ids]
  <2>1. /\ Inv' /\ Controller' /\ age' = [id \in Aged |-> age'[id]]
        /\ \A id \in Ids \ {"FDC"} : Parts'[id] = r.m[id]
    BY <1>4, <1>7, BecomesIt
  <2>2. Files'
    BY <1>1, <1>6, <2>1 DEF StateInv, Files
  <2>3. last'.did = "load" /\ last'.file = f /\ last'.slot = Slot(serial)
        /\ (last'.fits => Fits) /\ (last'.clean => f.whole /\ fault \notin Ids)
    BY <1>7
  <2>4. last'.fits => last'.slot = last'.file.slot
    <3>1. Fits => FitsName(n.stem)
      BY <1>1 DEF Fits, FitsName
    <3>2. FitsName(n.stem) => Slot(serial) = <<n.stem, n.serial>>
      BY <1>1, AskedIsName DEF StateInv, Files
    <3> QED BY <1>2, <2>3, <3>1, <3>2 DEF FileRight
  <2>5. ASSUME NEW id \in Ids \ {"FDC"}, Present(id, f.from["SND"]), id \in Optional => last'.clean
        PROVE  Parts'[id] = f.from[id]
    BY <1>4, <1>5, <1>7, <2>1, <2>3, <2>5
  <2>6. open_disk' \in {f.from["FDC"], NoDisk}
    <3>1. r.m["FDC"] = f.from["FDC"]
      BY <1>4, <1>7, Order DEF Optional, Present
    <3> QED BY <1>7, <3>1
  <2> QED BY <2>1, <2>2, <2>3, <2>4, <2>5, <2>6 DEF StateInv, LoadGives
<1>8. CASE /\ r.failing # {}
           /\ \E hi \in HighModes, page \in TextPages :
                \E m \in {ResetOf(r.m, hi, page)} : Becomes(m)
           /\ last' = [did |-> "reset", clean |-> f.whole /\ fault \notin Ids]
  <2>1. Inv' /\ Controller' /\ age' = [id \in Aged |-> age'[id]]
    BY <1>4, <1>8, ResetOneMachine, BecomesIt
  <2>2. Files'
    BY <1>1, <1>6, <2>1 DEF StateInv, Files
  <2>3. last'.did = "reset" /\ (last'.clean => f.whole /\ fault \notin Ids)
    BY <1>8
  <2> QED BY <1>4, <1>5, <1>8, <2>1, <2>2, <2>3 DEF StateInv, LoadGives
<1> QED BY <1>7, <1>8 DEF quasi88_stateload, f, p, r

-----------------------------------------------------------------------------
(* The picture                                                             *)

Dirty == screen_dirty_all \/ screen_dirty_frame \/ screen_dirty_palette
VramMarked(p) == p = VramCell /\ screen_dirty_flag /\ VramMode # "UNDISP"
Right(p, cell) == VramMarked(p) \/ screen_buf[p] = Rendered(cell, p, color_pixel)
LastText(p) == text_attr_buf[1 - text_attr_flipflop][p]

\* What is not marked is as it was last drawn: all blank while no text is shown,
\* for any format of the text; what the last drawing compared otherwise.
DrawnRight ==
  (~resumed /\ ~Dirty) =>
     IF text_display = "DISABLE" THEN \A p \in AllCells : Right(p, Blank)
     ELSE \A p \in CellsOf(crtc_format) : Right(p, LastText(p))

PaletteRight ==
  (~resumed /\ ~screen_dirty_palette /\ ~resetPalette) => color_pixel = EmuPalette

PictureInv ==
  /\ text_attr_flipflop \in {0, 1} /\ text_attr_buf = [i \in {0, 1} |-> text_attr_buf[i]]
  /\ drawn => step = "WAIT"
  /\ DrawnRight
  /\ PaletteRight

SameMode == \A b \in {"VDISP", "COLOR", "200"} : b \in io'.grph_ctrl <=> b \in io.grph_ctrl
SameInk ==
  /\ UNCHANGED <<vram_palette, bg_palette>>
  /\ "COLOR" \in io'.grph_ctrl <=> "COLOR" \in io.grph_ctrl
  /\ "ANALOG" \in io'.misc_ctrl <=> "ANALOG" \in io.misc_ctrl

\* A step that draws nothing and marks what it changes.
Marked ==
  /\ UNCHANGED <<text_attr_buf, text_attr_flipflop, screen_buf, color_pixel>>
  /\ resumed => resumed'
  /\ drawn' => step' = "WAIT"
  /\ \/ Dirty'
     \/ /\ ~Dirty /\ SameMode /\ UNCHANGED text_display
        /\ text_display = "DISABLE" \/ UNCHANGED <<crtc_format, sys80>>
        /\ screen_dirty_flag' \/ UNCHANGED <<screen_dirty_flag, main_vram>>
  /\ \/ screen_dirty_palette' \/ resetPalette'
     \/ ~screen_dirty_palette /\ ~resetPalette /\ SameInk

LEMMA BlankPart ==
  TextPart(Blank) = NoText /\ TextPart(Blank)' = NoText
BY DEF TextPart, Solid, Blank, White

LEMMA SameModes == ASSUME SameMode PROVE VramMode' = VramMode
BY DEF SameMode, VramMode, Color

LEMMA SameInks == ASSUME SameInk PROVE EmuPalette' = EmuPalette
BY DEF SameInk, EmuPalette, Color

LEMMA MarksRight == ASSUME PictureInv, Marked PROVE PictureInv'
<1>1. CASE Dirty' \/ resumed'
  <2>1. DrawnRight'
    BY <1>1 DEF DrawnRight
  <2>2. PaletteRight'
    BY SameInks DEF Marked, PictureInv, PaletteRight
  <2> QED BY <2>1, <2>2 DEF PictureInv, Marked
<1>2. CASE ~Dirty' /\ ~resumed'
  <2>1. /\ ~Dirty /\ SameMode /\ text_display' = text_display /\ ~resumed
        /\ text_display = "DISABLE" \/ (crtc_format' = crtc_format /\ sys80' = sys80)
        /\ screen_dirty_flag' \/ (screen_dirty_flag' = screen_dirty_flag /\ main_vram' = main_vram)
        /\ screen_buf' = screen_buf /\ color_pixel' = color_pixel
        /\ text_attr_buf' = text_attr_buf /\ text_attr_flipflop' = text_attr_flipflop
    BY <1>2 DEF Marked
  <2>2. VramMode' = VramMode
    BY <2>1, SameModes
  <2>3. ASSUME NEW p, NEW cell, Right(p, cell), TextPart(cell)' = TextPart(cell)
        PROVE  Right(p, cell)'
    <3>1. CASE VramMarked(p)'
      BY <3>1 DEF Right
    <3>2. CASE ~VramMarked(p)'
      <4>1. ~VramMarked(p)
        BY <2>1, <2>2, <3>2 DEF VramMarked
      <4>2. screen_buf[p] = Rendered(cell, p, color_pixel)
        BY <2>3, <4>1 DEF Right
      <4>3. p = VramCell /\ VramMode # "UNDISP" => main_vram' = main_vram
        BY <2>1, <2>2, <3>2 DEF VramMarked
      <4>4. Rendered(cell, p, color_pixel)' = Rendered(cell, p, color_pixel)
        BY <2>1, <2>2, <2>3, <4>3 DEF Rendered, Dots
      <4> QED BY <2>1, <4>2, <4>4 DEF Right
    <3> QED BY <3>1, <3>2
  <2>4. DrawnRight'
    <3>1. CASE text_display = "DISABLE"
      <4>1. \A p \in AllCells : Right(p, Blank)
        BY <2>1, <3>1 DEF PictureInv, DrawnRight
      <4>2. \A p \in AllCells : Right(p, Blank)'
        BY <2>3, <4>1, BlankPart
      <4> QED BY <2>1, <3>1, <4>2 DEF DrawnRight
    <3>2. CASE text_display # "DISABLE"
      <4>1. \A p \in CellsOf(crtc_format) : Right(p, LastText(p))
        BY <2>1, <3>2 DEF PictureInv, DrawnRight
      <4>2. CellsOf(crtc_format)' = CellsOf(crtc_format) /\ TextGeometry' = TextGeometry
        BY <2>1, <3>2 DEF CellsOf, CRTC_SZ_LINES, TextGeometry
      <4>3. \A cell : TextPart(cell)' = TextPart(cell)
        BY <4>2 DEF TextPart
      <4>4. \A p : LastText(p)' = LastText(p)
        BY <2>1 DEF LastText
      <4>5. \A p \in CellsOf(crtc_format)' : Right(p, LastText(p))'
        BY <2>3, <4>1, <4>2, <4>3, <4>4
      <4> QED BY <2>1, <3>2, <4>5 DEF DrawnRight
    <3> QED BY <3>1, <3>2
  <2>5. PaletteRight'
    BY SameInks DEF Marked, PictureInv, PaletteRight
  <2> QED BY <2>4, <2>5 DEF PictureInv, Marked
<1> QED BY <1>1, <1>2

-----------------------------------------------------------------------------
(* What the ports mark                                                     *)

\* A port leaves the picture to the next frame.
Undrawn ==
  /\ drawn => step = "WAIT"
  /\ UNCHANGED resumed

SameIo ==
  /\ UNCHANGED io.grph_ctrl
  /\ "ANALOG" \in io'.misc_ctrl <=> "ANALOG" \in io.misc_ctrl

LEMMA MarksAll ==
  ASSUME Undrawn, MarkAll,
         "COLOR" \in io'.grph_ctrl <=> "COLOR" \in io.grph_ctrl,
         "ANALOG" \in io'.misc_ctrl <=> "ANALOG" \in io.misc_ctrl
  PROVE  Marked
BY DEF Undrawn, MarkAll, screen_set_dirty_all, NoPaletteMark, KeepFrame, drawnVars, loopVars,
       Marked, Dirty, SameInk

LEMMA MarksPalette == ASSUME Undrawn, MarkPalette PROVE Marked
BY DEF Undrawn, MarkPalette, screen_set_dirty_palette, KeepFrame, drawnVars, loopVars,
       Marked, Dirty

LEMMA MarksNone ==
  ASSUME Undrawn, MarkNone, SameMode, UNCHANGED text_display,
         text_display = "DISABLE" \/ UNCHANGED crtc_format,
         UNCHANGED main_vram,
         "ANALOG" \in io'.misc_ctrl <=> "ANALOG" \in io.misc_ctrl
  PROVE  Marked
BY DEF Undrawn, MarkNone, paletteVars, KeepFrame, drawnVars, loopVars, Marked, Dirty, SameInk,
       SameMode

LEMMA SilentMarks ==
  ASSUME Undrawn, Silent, SameMode, UNCHANGED main_vram,
         "ANALOG" \in io'.misc_ctrl <=> "ANALOG" \in io.misc_ctrl
  PROVE  Marked
BY MarksNone DEF Silent, crtcVars

LEMMA GrphMarks == ASSUME Inv, Controller, Undrawn, NEW b, OutGrphCtrl(b) PROVE Marked
<1>1. io'.grph_ctrl = b /\ io'.misc_ctrl = io.misc_ctrl /\ main_vram' = main_vram
  BY DEF OutGrphCtrl, OutGrph, Inv, Registers, IsIo
<1> DEFINE chg == SymDiff(b, io.grph_ctrl)
<1>2. \A x \in {"COLOR", "200", "VDISP"} :
         x \notin chg => (x \in io'.grph_ctrl <=> x \in io.grph_ctrl)
  BY <1>1 DEF SymDiff
<1>3. CASE "COLOR" \in chg
  BY <1>3, MarksPalette DEF OutGrphCtrl
<1>4. CASE "COLOR" \notin chg /\ chg \cap {"200", "VDISP"} # {}
  BY <1>1, <1>2, <1>4, MarksAll DEF OutGrphCtrl
<1>5. CASE "COLOR" \notin chg /\ chg \cap {"200", "VDISP"} = {}
  <2>1. SameMode /\ Color' = Color
    BY <1>2, <1>5 DEF SameMode, Color
  <2>2. UNCHANGED <<crtc_active, crtc_intr_mask, crtc_format, dma2, text_pile>>
    BY DEF OutGrphCtrl, CrtcColor, dmaVars
  <2>3. text_display' = text_display
    BY <2>1, <2>2, GrphControl DEF Controller
  <2> QED BY <1>1, <1>5, <2>1, <2>2, <2>3, MarksNone DEF OutGrphCtrl
<1> QED BY <1>3, <1>4, <1>5

LEMMA MiscMarks == ASSUME Inv, Undrawn, NEW b, NEW k, OutMiscCtrl(b, k) PROVE Marked
<1>1. io'.misc_ctrl = b /\ io'.grph_ctrl = io.grph_ctrl /\ main_vram' = main_vram
  BY DEF OutMiscCtrl, OutMisc, Inv, Registers, IsIo
<1>2. CASE "ANALOG" \in SymDiff(b, io.misc_ctrl)
  BY <1>2, MarksPalette DEF OutMiscCtrl
<1>3. CASE "ANALOG" \notin SymDiff(b, io.misc_ctrl)
  <2>1. "ANALOG" \in io'.misc_ctrl <=> "ANALOG" \in io.misc_ctrl
    BY <1>1, <1>3 DEF SymDiff
  <2>2. MarkNone /\ UNCHANGED <<text_display, crtc_format>>
    BY <1>3 DEF OutMiscCtrl, crtcVars
  <2> QED BY <1>1, <2>1, <2>2, MarksNone DEF SameMode
<1> QED BY <1>2, <1>3

\* The other ports of the memory leave the picture's bits of 31H and 32H alone.
LEMMA MapMarks ==
  ASSUME Inv, Undrawn, Silent,
         \/ \E w : OutWindow(w)
         \/ \E n : OutExtRom(n)
         \/ \E rw : OutExtCtrl(rw)
         \/ \E d : OutExtBank(d)
         \/ \E n, b : OutJisho(n, b)
         \/ \E op : OutAlu1(op)
         \/ \E d, m, a : OutAlu2(d, m, a)
         \/ \E b : OutBank(b)
         \/ ALU_read
  PROVE  Marked
<1>1. io'.grph_ctrl = io.grph_ctrl /\ io'.misc_ctrl = io.misc_ctrl /\ main_vram' = main_vram
  <2>1. IsIo(io)
    BY DEF Inv, Registers
  <2> QED BY <2>1 DEF IsIo, OutWindow, OutExtRom, OutExtCtrl, OutExtBank, OutJisho, OutAlu1, OutAlu2,
                OutBank, ALU_read
<1> QED BY <1>1, SilentMarks DEF SameMode

LEMMA VramWriteMarks == ASSUME Inv, Undrawn, NEW bit, VramWrite(bit) PROVE Marked
<1>1. UNCHANGED io
  BY DEF VramWrite, BankWrite, ALU_write
<1>2. MarkByte /\ UNCHANGED crtcVars
  BY DEF VramWrite
<1> QED BY <1>1, <1>2 DEF Undrawn, MarkByte, paletteVars, KeepFrame, drawnVars, loopVars, Marked,
                         Dirty, SameInk, SameMode, crtcVars

LEMMA TextWriteMarks == ASSUME Undrawn, NEW g, TextWrite(g) PROVE Marked
BY MarksNone DEF TextWrite, memoryVars, SameMode

LEMMA SysMarks == ASSUME Undrawn, NEW w, OutSys(w) PROVE Marked
BY DEF OutSys, Undrawn, KeepFrame, drawnVars, loopVars, Marked, Dirty, SameInk, SameMode,
       memoryVars, crtcVars

LEMMA PaletteMarks == ASSUME Undrawn, NEW isBg, NEW ink, OutPalette(isBg, ink) PROVE Marked
<1>1. UNCHANGED <<text_attr_buf, text_attr_flipflop, screen_buf, color_pixel, resumed, drawn,
                  step, io, main_vram, text_display, crtc_format, sys80,
                  screen_dirty_flag, screen_dirty_frame>>
  BY DEF OutPalette, Undrawn, KeepFrame, drawnVars, loopVars, memoryVars, crtcVars
<1>2. CASE ink # (IF isBg THEN bg_palette ELSE vram_palette)
  BY <1>1, <1>2 DEF OutPalette, screen_set_dirty_palette, Undrawn, Marked, Dirty
<1>3. CASE ink = (IF isBg THEN bg_palette ELSE vram_palette)
  <2>1. UNCHANGED <<vram_palette, bg_palette, screen_dirty_all, screen_dirty_palette, resetPalette>>
    BY <1>3 DEF OutPalette
  <2> QED BY <1>1, <2>1 DEF Undrawn, Marked, Dirty, SameInk, SameMode
<1> QED BY <1>2, <1>3

\* The CRTC marks what may change the display; its format is sent while no text
\* is shown.
LEMMA CommandMarks ==
  ASSUME Undrawn, UNCHANGED memoryVars, CrtcCommands \/ Dmac
  PROVE  Marked
<1>1. UNCHANGED io /\ UNCHANGED main_vram
  BY DEF memoryVars
<1>2. MarkAll => Marked
  BY <1>1, MarksAll
<1>3. MarkPalette => Marked
  BY MarksPalette
<1>4. MarkNone /\ UNCHANGED <<text_display, crtc_format>> => Marked
  BY <1>1, MarksNone DEF SameMode
<1>5. \A on : CrtcLoadCursor(on) => UNCHANGED <<text_display, crtc_format>>
  BY DEF CrtcLoadCursor
<1>6. \A k : CrtcOther(k) => UNCHANGED <<text_display, crtc_format>>
  BY DEF CrtcOther
<1>7. \A d : CursorByte(d) => UNCHANGED <<text_display, crtc_format>>
  BY DEF CursorByte
<1>8. dmac_touch => UNCHANGED <<text_display, crtc_format>>
  BY DEF dmac_touch
<1> QED BY <1>2, <1>3, <1>4, <1>5, <1>6, <1>7, <1>8 DEF CrtcCommands, CrtcDisplay, Dmac

LEMMA FormatMarks == ASSUME Undrawn, Controller, FormatOut PROVE Marked
<1>1. text_display = "DISABLE" /\ text_display' = text_display
  BY DEF FormatOut, FormatByte, Controller, TextMode
<1> QED BY <1>1 DEF FormatOut, Undrawn, paletteVars, dirtyVars, drawnVars, loopVars, Marked,
                   Dirty, SameInk, SameMode, memoryVars

LEMMA FormatShown ==
  ASSUME Undrawn, Controller, PictureInv, FormatOut
  PROVE  Controller' /\ PictureInv'
<1>1. Controller'
  BY CrtcControl DEF FormatOut, memoryVars
<1> QED BY <1>1, FormatMarks, MarksRight

\* The ports that say nothing to the controller.
LEMMA SilentControl ==
  ASSUME Inv, Controller, Silent,
         \/ \E w : OutWindow(w)
         \/ \E n : OutExtRom(n)
         \/ \E rw : OutExtCtrl(rw)
         \/ \E d : OutExtBank(d)
         \/ \E n, b : OutJisho(n, b)
         \/ \E op : OutAlu1(op)
         \/ \E d, m, a : OutAlu2(d, m, a)
         \/ \E b : OutBank(b)
         \/ ALU_read
  PROVE  Controller'
<1>1. io'.grph_ctrl = io.grph_ctrl
  <2>1. IsIo(io)
    BY DEF Inv, Registers
  <2> QED BY <2>1 DEF IsIo, OutWindow, OutExtRom, OutExtCtrl, OutExtBank, OutJisho, OutAlu1, OutAlu2,
                OutBank, ALU_read
<1> QED BY <1>1, StaysControl DEF Silent, Color

LEMMA VramWriteControl == ASSUME Controller, NEW bit, VramWrite(bit) PROVE Controller'
BY StaysControl DEF VramWrite, BankWrite, ALU_write, Color

-----------------------------------------------------------------------------
(* A drawing                                                               *)

LEMMA Cells ==
  /\ CRTC_SZ_LINES(crtc_format) \in Nat \ {0}
  /\ CellsOf(crtc_format) \subseteq AllCells
  /\ \A p \in CellsOf(crtc_format) : Covering(p) = p
  /\ \A p \in AllCells : Covering(p) \in CellsOf(crtc_format) /\ Covering(p)[2] = p[2]
  /\ \A p \in AllCells : p = VramCell => Covering(p) = p
<1>1. CRTC_SZ_LINES(crtc_format) \in 1..Rows[25] /\ Rows[25] \in Nat
  BY CrtcAssumption DEF CrtcAssumption, CRTC_SZ_LINES
<1> DEFINE n == CRTC_SZ_LINES(crtc_format)
<1>2. \A p \in CellsOf(crtc_format) : p[1] \in 1..n
  BY DEF CellsOf
<1>3. \A p \in AllCells : p = <<p[1], p[2]>> /\ p[1] \in 1..Rows[25] /\ p[2] \in 0..(Columns - 1)
  BY DEF AllCells
<1> HIDE DEF n
<1>4. CellsOf(crtc_format) \subseteq AllCells
  BY <1>1 DEF CellsOf, AllCells, n
<1>5. \A p \in CellsOf(crtc_format) : Covering(p) = p
  BY <1>1, <1>2 DEF Covering, n
<1>6. \A p \in AllCells : Covering(p) \in CellsOf(crtc_format) /\ Covering(p)[2] = p[2]
  BY <1>1, <1>3 DEF Covering, CellsOf, n
<1>7. \A p \in AllCells : p = VramCell => Covering(p) = p
  BY <1>1 DEF Covering, VramCell, n
<1> QED BY <1>1, <1>4, <1>5, <1>6, <1>7 DEF n

\* Text that is not shown is blank.
LEMMA DisabledBlank ==
  ASSUME text_display = "DISABLE", NEW blink, NEW p \in CellsOf(crtc_format)
  PROVE  TextAttr(blink)[p[1]][p[2]] = Blank
<1>1. p[1] \in 1..CRTC_SZ_LINES(crtc_format) /\ p[2] \in 0..(Columns - 1)
  BY DEF CellsOf
<1> QED BY <1>1 DEF TextAttr, MakeTextAttr

\* Nothing is left marked, and the attributes drawn are those compared with next
\* time.
LEMMA DrawingIs ==
  ASSUME PictureInv, UNCHANGED <<memoryVars, crtcVars, sys80>>, NEW t, NEW pal,
         DrawCells(t, pal), resumed' => resumed, resumed => resumed',
         pal = IF screen_dirty_palette THEN EmuPalette ELSE color_pixel,
         text_display = "DISABLE" => \A p \in CellsOf(crtc_format) : t[p[1]][p[2]] = Blank
  PROVE  /\ ~resumed => \A p \in CellsOf(crtc_format) :
                           screen_buf'[p] = Rendered(t[p[1]][p[2]], p, pal)
         /\ DrawnRight'
         /\ text_attr_flipflop' \in {0, 1}
         /\ text_attr_buf' = [i \in {0, 1} |-> text_attr_buf'[i]]
<1> DEFINE c(p) == t[Covering(p)[1]][p[2]]
<1>1. \A p \in AllCells :
         screen_buf'[p] = IF Changed(t, Covering(p)) THEN Rendered(c(p), p, pal) ELSE screen_buf[p]
  <2>1. screen_buf' = [p \in AllCells |->
                         IF Changed(t, Covering(p)) THEN Rendered(c(p), p, pal) ELSE screen_buf[p]]
    BY DEF DrawCells
  <2> QED BY <2>1, Zenon
<1>2. color_pixel' = pal /\ ~screen_dirty_flag'
  BY DEF DrawCells
<1>3. \A p \in CellsOf(crtc_format) : LastText(p)' = t[p[1]][p[2]]
  <2>1. text_attr_flipflop \in {0, 1} /\ text_attr_buf = [i \in {0, 1} |-> text_attr_buf[i]]
    BY DEF PictureInv
  <2>2. text_attr_flipflop' = 1 - text_attr_flipflop
    BY DEF DrawCells
  <2>3. 1 - text_attr_flipflop' = text_attr_flipflop
    BY <2>1, <2>2
  <2>4. text_attr_buf'[text_attr_flipflop] =
          [p \in AllCells |-> IF p \in CellsOf(crtc_format) THEN t[p[1]][p[2]]
                              ELSE text_attr_buf[text_attr_flipflop][p]]
    BY <2>1 DEF DrawCells
  <2> QED BY <2>3, <2>4, Cells DEF LastText
<1>4. /\ \A p : VramMarked(p)' = FALSE
      /\ text_display' = text_display /\ CellsOf(crtc_format)' = CellsOf(crtc_format)
  BY <1>2 DEF VramMarked, crtcVars, CellsOf, CRTC_SZ_LINES
<1>5. VramMode' = VramMode /\ TextGeometry' = TextGeometry /\ main_vram' = main_vram
  BY DEF memoryVars, crtcVars, VramMode, Color, TextGeometry, CRTC_SZ_LINES
<1>6. ASSUME NEW p, NEW cell
      PROVE  Rendered(cell, p, color_pixel)' = Rendered(cell, p, pal)
  <2>1. TextPart(cell)' = TextPart(cell)
    BY <1>5 DEF TextPart
  <2> QED BY <1>2, <1>5, <2>1 DEF Rendered, Dots
<1>9. /\ text_attr_flipflop' \in {0, 1}
      /\ text_attr_buf' = [i \in {0, 1} |-> text_attr_buf'[i]]
  <2>1. text_attr_flipflop \in {0, 1} /\ text_attr_buf = [i \in {0, 1} |-> text_attr_buf[i]]
    BY DEF PictureInv
  <2>2. PICK x : text_attr_buf' = [text_attr_buf EXCEPT ![text_attr_flipflop] = x]
    BY DEF DrawCells
  <2>3. text_attr_flipflop' = 1 - text_attr_flipflop
    BY DEF DrawCells
  <2>4. text_attr_flipflop' \in {0, 1}
    BY <2>1, <2>3
  <2>5. text_attr_buf' = [i \in {0, 1} |-> text_attr_buf'[i]]
    <3>1. DOMAIN text_attr_buf' = {0, 1}
      BY <2>1, <2>2
    <3>2. text_attr_buf' = [i \in DOMAIN text_attr_buf |-> IF i = text_attr_flipflop THEN x ELSE text_attr_buf[i]]
      BY <2>1, <2>2
    <3> QED BY <3>1, <3>2
  <2> QED BY <2>4, <2>5
<1>7. CASE text_display = "DISABLE"
  <2>1. \A p \in AllCells : c(p) = Blank
    BY <1>7, Cells
  <2>2. ASSUME NEW p \in AllCells, ~resumed
        PROVE  screen_buf'[p] = Rendered(Blank, p, pal)
    <3>1. CASE Changed(t, Covering(p))
      BY <1>1, <2>1, <3>1
    <3>2. CASE ~Changed(t, Covering(p))
      <4>1. ~Dirty /\ pal = color_pixel /\ ~VramMarked(Covering(p))
        BY <3>2 DEF Changed, Dirty, VramMarked
      <4>2. Right(p, Blank)
        BY <1>7, <2>2, <4>1 DEF PictureInv, DrawnRight
      <4>3. ~VramMarked(p)
        BY <4>1, Cells DEF VramMarked
      <4> QED BY <1>1, <3>2, <4>1, <4>2, <4>3 DEF Right
    <3> QED BY <3>1, <3>2
  <2>3. DrawnRight'
    BY <1>4, <1>6, <1>7, <2>2 DEF DrawnRight, Right
  <2>4. ASSUME NEW p \in CellsOf(crtc_format), ~resumed
        PROVE  screen_buf'[p] = Rendered(t[p[1]][p[2]], p, pal)
    BY <1>7, <2>2, <2>4, Cells
  <2> QED BY <1>9, <2>3, <2>4
<1>8. CASE text_display # "DISABLE"
  <2>1. ASSUME NEW p \in CellsOf(crtc_format), ~resumed
        PROVE  screen_buf'[p] = Rendered(t[p[1]][p[2]], p, pal)
    <3>1. p \in AllCells /\ Covering(p) = p
      BY Cells
    <3>2. CASE Changed(t, p)
      BY <1>1, <3>1, <3>2
    <3>3. CASE ~Changed(t, p)
      <4>1. /\ ~Dirty /\ pal = color_pixel /\ ~VramMarked(p)
            /\ t[p[1]][p[2]] = LastText(p)
        BY <3>3 DEF Changed, Dirty, VramMarked, LastText
      <4>2. Right(p, LastText(p))
        BY <1>8, <2>1, <4>1 DEF PictureInv, DrawnRight
      <4> QED BY <1>1, <3>1, <3>3, <4>1, <4>2 DEF Right
    <3> QED BY <3>2, <3>3
  <2>2. DrawnRight'
    BY <1>3, <1>4, <1>6, <1>8, <2>1 DEF DrawnRight, Right
  <2> QED BY <1>9, <2>1, <2>2
<1> QED BY <1>7, <1>8

LEMMA FrameDraws ==
  ASSUME PictureInv, screen_update, Hardware, resumed' = (resumed /\ step # "INIT")
  PROVE  PictureInv' /\ PictureFresh'
<1> DEFINE blink == blink_counter'
           t == TextAttr(blink)
           pal == IF screen_dirty_palette THEN EmuPalette ELSE color_pixel
<1>1. /\ step' = "WAIT" /\ (resumed' <=> resumed)
      /\ UNCHANGED <<sys80, vram_palette, bg_palette, resetPalette>>
  BY DEF screen_update, paletteVars
<1>2. EmuPalette' = EmuPalette
  BY <1>1 DEF EmuPalette, Color, Hardware, memoryVars
<1>3. CASE drawn' = FALSE /\ UNCHANGED <<text_attr_buf, text_attr_flipflop, screen_buf, color_pixel,
                                        dirtyVars>>
  <2>1. Marked
    BY <1>1, <1>3 DEF Marked, Dirty, dirtyVars, SameMode, SameInk, Hardware, memoryVars, crtcVars
  <2> QED BY <1>3, <2>1, MarksRight DEF PictureFresh
<1>4. CASE DrawFrame
  <2>1. DrawCells(t, pal)
    BY <1>4 DEF DrawFrame
  <2>2. UNCHANGED <<memoryVars, crtcVars, sys80>>
    BY <1>1 DEF Hardware
  <2>3. text_display = "DISABLE" => \A p \in CellsOf(crtc_format) : t[p[1]][p[2]] = Blank
    BY DisabledBlank
  <2>4. /\ ~resumed => \A p \in CellsOf(crtc_format) :
                         screen_buf'[p] = Rendered(t[p[1]][p[2]], p, pal)
        /\ DrawnRight'
        /\ text_attr_flipflop' \in {0, 1}
        /\ text_attr_buf' = [i \in {0, 1} |-> text_attr_buf'[i]]
    <3> HIDE DEF t, pal
    <3>1. pal = IF screen_dirty_palette THEN EmuPalette ELSE color_pixel
      BY DEF pal
    <3> QED BY <1>1, <2>1, <2>2, <2>3, <3>1, DrawingIs
  <2>5. color_pixel' = pal /\ ~screen_dirty_palette'
    BY <2>1 DEF DrawCells
  <2>6. PaletteRight'
    BY <1>1, <1>2, <2>5 DEF PictureInv, PaletteRight
  <2>7. PictureInv'
    BY <1>1, <2>4, <2>6 DEF PictureInv
  <2>8. TextAttr(blink_counter)' = t
    BY <2>2 DEF TextAttr, crtcVars, memoryVars, Color
  <2>9. /\ VramMode' = VramMode /\ TextGeometry' = TextGeometry /\ main_vram' = main_vram
        /\ CellsOf(crtc_format)' = CellsOf(crtc_format)
    BY <2>2 DEF memoryVars, crtcVars, VramMode, Color, TextGeometry, CRTC_SZ_LINES, CellsOf
  <2>10. ASSUME NEW p, NEW cell, NEW q
         PROVE  Rendered(cell, p, q)' = Rendered(cell, p, q)
    <3>1. TextPart(cell)' = TextPart(cell)
      BY <2>9 DEF TextPart
    <3> QED BY <2>9, <3>1 DEF Rendered, Dots
  <2>11. ASSUME ~resumed'
         PROVE  (IF resetPalette THEN color_pixel ELSE EmuPalette)' = pal
    BY <2>5, <2>6, <2>11 DEF PaletteRight
  <2>12. PictureFresh'
    <3> SUFFICES ASSUME ~resumed', NEW p \in CellsOf(crtc_format)
                 PROVE  screen_buf'[p] = Picture(IF resetPalette THEN color_pixel ELSE EmuPalette)'[p]
      BY <2>9 DEF PictureFresh
    <3> HIDE DEF t, pal
    <3>1. Picture(IF resetPalette THEN color_pixel ELSE EmuPalette)'[p] = Rendered(t[p[1]][p[2]], p, pal)
      BY <2>8, <2>9, <2>10, <2>11 DEF Picture, Paint
    <3> QED BY <1>1, <2>4, <3>1
  <2> QED BY <2>7, <2>12
<1> QED BY <1>3, <1>4 DEF screen_update

-----------------------------------------------------------------------------
(* Every step marks or draws                                               *)

PictureKept == Controller /\ PictureInv /\ PictureFresh

\* The program and the user act before a frame is drawn.
LEMMA ActsShown ==
  ASSUME PictureInv, Acts, UNCHANGED <<drawn, resumed>>
  PROVE  Undrawn /\ PictureFresh'
BY DEF PictureInv, Acts, Undrawn, PictureFresh

LEMMA MapPortsShown == ASSUME Inv, PictureKept, MapPorts PROVE PictureKept'
<1>1. Acts /\ UNCHANGED resumed
  BY DEF MapPorts, Act, NoCalls
<1>2. UNCHANGED drawn
  BY DEF MapPorts, OutGrphCtrl, OutMiscCtrl, Silent, MarkNone, MarkAll, MarkPalette, KeepFrame,
         drawnVars
<1>3. Undrawn /\ PictureFresh'
  BY <1>1, <1>2, ActsShown DEF PictureKept
<1>4. CASE \E b : OutGrphCtrl(b)
  BY <1>3, <1>4, GrphControl, GrphMarks, MarksRight DEF PictureKept
<1>5. CASE \E b, k : OutMiscCtrl(b, k)
  BY <1>3, <1>5, MiscControl, MiscMarks, MarksRight DEF PictureKept
<1>6. CASE /\ Silent
           /\ \/ \E w : OutWindow(w)
              \/ \E n : OutExtRom(n)
              \/ \E rw : OutExtCtrl(rw)
              \/ \E d : OutExtBank(d)
              \/ \E n, b : OutJisho(n, b)
  <2>1. Marked
    BY <1>3, <1>6, MapMarks
  <2>2. Controller'
    BY <1>6, SilentControl DEF PictureKept
  <2> QED BY <1>3, <2>1, <2>2, MarksRight DEF PictureKept
<1> QED BY <1>4, <1>5, <1>6 DEF MapPorts

LEMMA VramPortsShown == ASSUME Inv, PictureKept, VramPorts PROVE PictureKept'
<1>1. Acts /\ UNCHANGED resumed
  BY DEF VramPorts, Act, NoCalls
<1>2. UNCHANGED drawn
  BY DEF VramPorts, VramWrite, MarkByte, OutMiscCtrl, Silent, MarkNone, MarkPalette, KeepFrame,
         drawnVars
<1>3. Undrawn /\ PictureFresh'
  BY <1>1, <1>2, ActsShown DEF PictureKept
<1>4. CASE \E b, k : OutMiscCtrl(b, k)
  BY <1>3, <1>4, MiscControl, MiscMarks, MarksRight DEF PictureKept
<1>5. CASE \E bit : VramWrite(bit)
  BY <1>3, <1>5, VramWriteControl, VramWriteMarks, MarksRight DEF PictureKept
<1>6. CASE /\ Silent
           /\ \/ \E op : OutAlu1(op)
              \/ \E d, m, a : OutAlu2(d, m, a)
              \/ \E b : OutBank(b)
              \/ ALU_read
  <2>1. Marked
    BY <1>3, <1>6, MapMarks
  <2>2. Controller'
    BY <1>6, SilentControl DEF PictureKept
  <2> QED BY <1>3, <2>1, <2>2, MarksRight DEF PictureKept
<1> QED BY <1>4, <1>5, <1>6 DEF VramPorts

LEMMA ScreenPortsShown == ASSUME Inv, PictureKept, ScreenPorts PROVE PictureKept'
<1>1. Acts /\ UNCHANGED resumed
  BY DEF ScreenPorts, Act, NoCalls
<1>2. UNCHANGED drawn
  BY DEF ScreenPorts, OutSys, OutPalette, CrtcCommands, CrtcDisplay, Dmac, FormatOut, TextWrite,
         OutGrphCtrl, VramWrite, MarkByte, OutMiscCtrl, Silent, MarkAll, MarkNone, MarkPalette,
         KeepFrame, drawnVars
<1>3. Undrawn /\ PictureFresh'
  BY <1>1, <1>2, ActsShown DEF PictureKept
<1>4. CASE \E b : OutGrphCtrl(b)
  BY <1>3, <1>4, GrphControl, GrphMarks, MarksRight DEF PictureKept
<1>5. CASE \E b, k : OutMiscCtrl(b, k)
  BY <1>3, <1>5, MiscControl, MiscMarks, MarksRight DEF PictureKept
<1>6. CASE \E bit : VramWrite(bit)
  BY <1>3, <1>6, VramWriteControl, VramWriteMarks, MarksRight DEF PictureKept
<1>7. CASE Silent /\ \E b : OutBank(b)
  <2>1. Marked
    BY <1>3, <1>7, MapMarks
  <2>2. Controller'
    BY <1>7, SilentControl DEF PictureKept
  <2> QED BY <1>3, <2>1, <2>2, MarksRight DEF PictureKept
<1>8. CASE \E w : OutSys(w)
  <2>1. Controller'
    BY <1>8, StaysControl DEF OutSys, memoryVars, Color, PictureKept
  <2> QED BY <1>3, <1>8, <2>1, SysMarks, MarksRight DEF PictureKept
<1>9. CASE \E bg, ink : OutPalette(bg, ink)
  <2>1. Controller'
    BY <1>9, StaysControl DEF OutPalette, memoryVars, Color, PictureKept
  <2> QED BY <1>3, <1>9, <2>1, PaletteMarks, MarksRight DEF PictureKept
<1>10. CASE (CrtcCommands \/ Dmac) /\ UNCHANGED memoryVars
  <2>1. Controller'
    BY <1>10, CrtcControl DEF memoryVars, PictureKept
  <2> QED BY <1>3, <1>10, <2>1, CommandMarks, MarksRight DEF PictureKept
<1>11. CASE FormatOut
  BY <1>3, <1>11, FormatShown DEF PictureKept
<1>12. CASE \E g : TextWrite(g)
  <2>1. Controller'
    BY <1>12 DEF TextWrite, memoryVars, Color, Controller, PictureKept
  <2> QED BY <1>3, <1>12, <2>1, TextWriteMarks, MarksRight DEF PictureKept
<1> QED BY <1>4, <1>5, <1>6, <1>7, <1>8, <1>9, <1>10, <1>11, <1>12 DEF ScreenPorts

LEMMA CrtcPortsShown == ASSUME Inv, PictureKept, CrtcPorts PROVE PictureKept'
<1>1. Acts /\ UNCHANGED resumed
  BY DEF CrtcPorts, Act, NoCalls
<1>2. UNCHANGED drawn
  BY DEF CrtcPorts, CrtcDisplay, FormatOut, MarkAll, MarkPalette, KeepFrame, drawnVars
<1>3. Undrawn /\ PictureFresh'
  BY <1>1, <1>2, ActsShown DEF PictureKept
<1>4. CASE CrtcDisplay /\ UNCHANGED memoryVars
  <2>1. Controller'
    BY <1>4, CrtcControl DEF CrtcCommands, memoryVars, PictureKept
  <2> QED BY <1>3, <1>4, <2>1, CommandMarks, MarksRight DEF CrtcCommands, PictureKept
<1>5. CASE FormatOut
  BY <1>3, <1>5, FormatShown DEF PictureKept
<1> QED BY <1>4, <1>5 DEF CrtcPorts

LEMMA StatePortsShown == ASSUME Inv, PictureKept, StatePorts PROVE PictureKept'
<1>1. Acts /\ UNCHANGED resumed
  BY DEF StatePorts, Act, Ages
<1>2. UNCHANGED drawn
  BY DEF StatePorts, OutMiscCtrl, OutPalette, MarkAll, MarkNone, MarkPalette, KeepFrame, drawnVars
<1>3. Undrawn /\ PictureFresh'
  BY <1>1, <1>2, ActsShown DEF PictureKept
<1>4. CASE OutMiscCtrl({"EVRAM"}, 0)
  BY <1>3, <1>4, MiscControl, MiscMarks, MarksRight DEF PictureKept
<1>5. CASE OutPalette(FALSE, 7)
  <2>1. Controller'
    BY <1>5, StaysControl DEF OutPalette, memoryVars, Color, PictureKept
  <2> QED BY <1>3, <1>5, <2>1, PaletteMarks, MarksRight DEF PictureKept
<1>6. CASE CrtcReset(Color) /\ MarkAll /\ UNCHANGED memoryVars
  <2>1. Controller'
    BY <1>6, CrtcControl DEF CrtcCommands, CrtcDisplay, memoryVars, PictureKept
  <2> QED BY <1>3, <1>6, <2>1, CommandMarks, MarksRight DEF CrtcCommands, CrtcDisplay, PictureKept
<1> QED BY <1>4, <1>5, <1>6 DEF StatePorts

\* A reset marks all, and the palette as one that waits for its mark.
LEMMA ResetShown ==
  ASSUME PictureInv, resetMachine, Acts, UNCHANGED resumed PROVE PictureKept'
<1>1. PICK hi : MemoryReset(hi) /\ CrtcBoot /\ ScreenReset
  BY DEF resetMachine
<1>2. Undrawn /\ PictureFresh'
  BY <1>1, ActsShown DEF ScreenReset, drawnVars
<1>3. Marked
  BY <1>1, <1>2 DEF ScreenReset, screen_set_dirty_all, drawnVars, loopVars, Undrawn, Marked, Dirty
<1> QED BY <1>1, <1>2, <1>3, ResetControl, MarksRight DEF PictureKept

LEMMA UserShown == ASSUME Inv, PictureKept, User PROVE PictureKept'
<1>1. Acts /\ UNCHANGED resumed
  BY DEF User, UserAct, NoCalls
<1>2. CASE resetMachine
  BY <1>1, <1>2, ResetShown DEF PictureKept
<1>3. CASE /\ Hardware
           /\ \/ \E m : SetMode(m)
              \/ \E r : quasi88_cfg_set_frameskip_rate(r)
              \/ \E e : quasi88_cfg_set_no_wait(e)
              \/ \E s : quasi88_cfg_set_showstatus(s)
  <2>1. UNCHANGED drawnVars /\ UNCHANGED step
    BY <1>3 DEF SetMode, quasi88_cfg_set_frameskip_rate, quasi88_cfg_set_no_wait,
                quasi88_cfg_set_showstatus, loopVars
  <2>2. Undrawn /\ PictureFresh'
    BY <1>1, <2>1, ActsShown DEF drawnVars, PictureKept
  <2>3. \/ UNCHANGED <<paletteVars, dirtyVars>>
        \/ screen_dirty_frame' /\ screen_dirty_palette'
    BY <1>3 DEF SetMode, quasi88_cfg_set_frameskip_rate, quasi88_cfg_set_no_wait,
                quasi88_cfg_set_showstatus, open_window, screen_switch, screen_set_dirty_palette
  <2>4. Marked
    BY <1>3, <2>1, <2>2, <2>3
       DEF Hardware, memoryVars, crtcVars, paletteVars, dirtyVars, drawnVars, Undrawn, Marked,
           Dirty, SameMode, SameInk
  <2>5. Controller'
    BY <1>3, StaysControl DEF Hardware, memoryVars, Color, PictureKept
  <2> QED BY <2>2, <2>4, <2>5, MarksRight DEF PictureKept
<1> QED BY <1>2, <1>3 DEF User

\* A machine that stands still.
LEMMA StaysShown ==
  ASSUME PictureKept, UNCHANGED <<machineVars, resumed>>
  PROVE  PictureKept'
<1>1. UNCHANGED <<memoryVars, crtcVars, paletteVars, dirtyVars, drawnVars, step, blink_counter>>
  BY DEF machineVars, screenVars, loopVars, blinkVars
<1>2. Controller'
  BY <1>1, StaysControl DEF memoryVars, Color, PictureKept
<1>3. Marked
  BY <1>1 DEF memoryVars, crtcVars, paletteVars, dirtyVars, drawnVars, PictureKept, PictureInv, Marked,
              Dirty, SameMode, SameInk
<1>4. CellsOf(crtc_format)' = CellsOf(crtc_format)
  BY <1>1 DEF crtcVars, CellsOf, CRTC_SZ_LINES
<1>5. \A q : Picture(q)' = Picture(q)
  <2>1. TextAttr(blink_counter)' = TextAttr(blink_counter)
    BY <1>1 DEF TextAttr, crtcVars, memoryVars, Color
  <2>2. /\ VramMode' = VramMode /\ TextGeometry' = TextGeometry /\ main_vram' = main_vram
    BY <1>1 DEF memoryVars, crtcVars, paletteVars, VramMode, Color, TextGeometry, CRTC_SZ_LINES
  <2>3. \A cell, p, q : Rendered(cell, p, q)' = Rendered(cell, p, q)
    BY <2>2 DEF Rendered, Dots, TextPart
  <2> QED BY <1>4, <2>1, <2>3 DEF Picture, Paint
<1>6. EmuPalette' = EmuPalette
  BY <1>1 DEF memoryVars, paletteVars, EmuPalette, Color
<1>7. PictureFresh'
  BY <1>1, <1>4, <1>5, <1>6 DEF PictureKept, PictureFresh, paletteVars, drawnVars
<1> QED BY <1>2, <1>3, <1>7, MarksRight DEF PictureKept

LEMMA FrameShown == ASSUME PictureKept, Frame PROVE PictureKept'
<1>1. Controller'
  BY StaysControl DEF Frame, Hardware, memoryVars, Color, PictureKept
<1>2. CASE screen_update
  BY <1>1, <1>2, FrameDraws DEF Frame, PictureKept
<1>3. CASE NoFrame \/ Wait
  <2>1. Marked
    <3>1. drawn' = FALSE /\ UNCHANGED <<paletteVars, dirtyVars, text_attr_buf, text_attr_flipflop,
                                         screen_buf, color_pixel>>
      BY <1>3 DEF NoFrame, Wait
    <3>2. resumed' = (resumed /\ step # "INIT") /\ step # "INIT" /\ Hardware
      BY <1>3 DEF NoFrame, Wait, Frame
    <3> QED BY <3>1, <3>2 DEF Hardware, memoryVars, crtcVars, paletteVars, dirtyVars,
                              Marked, Dirty, SameMode, SameInk
  <2>2. PictureFresh'
    BY <1>3 DEF NoFrame, Wait, PictureFresh
  <2> QED BY <1>1, <2>1, <2>2, MarksRight DEF PictureKept
<1>4. CASE Switch
  <2>1. UNCHANGED drawnVars /\ screen_dirty_frame' /\ screen_dirty_palette' /\ ~drawn'
    BY <1>4 DEF Switch, screen_switch, screen_set_dirty_palette, PictureKept, PictureInv, drawnVars
  <2> QED BY <1>1, <2>1 DEF PictureKept, PictureInv, PictureFresh, DrawnRight, PaletteRight, Dirty,
             drawnVars
<1> QED BY <1>2, <1>3, <1>4 DEF Frame

\* A loaded state is not marked, but remembered until the screen is switched; one
\* that fails ends in a reset, which marks.
LEMMA LoadShown ==
  ASSUME StateInv, PictureInv, Acts, NEW serial \in Serials, NEW fault, NEW opens,
         quasi88_stateload(serial, fault, opens)
  PROVE  PictureKept'
<1>1. UNCHANGED <<drawnVars, step>>
  BY DEF quasi88_stateload, ScreenStays
<1>2. resumed' \/ (screen_dirty_all' /\ resetPalette')
  BY DEF quasi88_stateload
<1>3. ~drawn'
  BY <1>1 DEF PictureInv, Acts, drawnVars
<1>4. PictureInv'
  BY <1>1, <1>2, <1>3 DEF PictureInv, DrawnRight, PaletteRight, Dirty, drawnVars
<1>5. Controller'
  BY LoadInv DEF StateInv
<1> QED BY <1>3, <1>4, <1>5 DEF PictureKept, PictureFresh

LEMMA StateCallsShown == ASSUME StateInv, PictureKept, StateCalls PROVE PictureKept'
<1>1. CASE quasi88_reset
  BY <1>1, ResetShown DEF StateCalls, quasi88_reset, ResetBoard, PictureKept
<1>2. CASE \E n \in Serials, fault \in Faults \cup {"none"}, opens \in BOOLEAN :
             quasi88_stateload(n, fault, opens)
  BY <1>2, LoadShown DEF StateCalls, PictureKept
<1>3. CASE /\ UNCHANGED machineVars
           /\ \/ \E n, opens, cut : quasi88_statesave(n, opens, cut)
              \/ \E n : StateNotFound(n)
              \/ \E d : InsertImage(d)
  <2>1. UNCHANGED resumed
    BY <1>3 DEF quasi88_statesave, StateNotFound, InsertImage
  <2> QED BY <1>3, <2>1, StaysShown
<1> QED BY <1>1, <1>2, <1>3 DEF StateCalls

-----------------------------------------------------------------------------
(* Every step                                                              *)

LEMMA QuietGives == ASSUME last' = Nothing PROVE LoadGives'
BY DEF LoadGives, Nothing

LEMMA StaysGives == ASSUME LoadGives, UNCHANGED vars PROVE LoadGives'
<1>1. MainTable' = MainTable
  BY DEF vars, machineVars, memoryVars, MainTable
<1>2. CrtcTable' = CrtcTable
  BY DEF vars, machineVars, crtcVars, dmaVars, screenVars, blinkVars, CrtcTable
<1>3. ScreenTable' = ScreenTable
  BY DEF vars, machineVars, memoryVars, crtcVars, screenVars, paletteVars, optionVars,
         ScreenTable
<1>4. UNCHANGED <<sound_board, text_page, main_vram, no_wait, file_disk, age>>
  BY DEF vars, machineVars, memoryVars, crtcVars, dmaVars, screenVars, optionVars, suspendVars
<1>5. Parts' = Parts
  BY <1>1, <1>2, <1>3, <1>4 DEF Parts, Over
<1>6. last' = last /\ open_disk' = open_disk
  BY DEF vars, suspendVars
<1> QED BY <1>5, <1>6 DEF LoadGives

\* A step that calls nothing of suspend.c.
LEMMA NoCallsFiles == ASSUME Files, NoCalls PROVE Files' /\ LoadGives'
<1>1. age' = [id \in Aged |-> age'[id]]
  BY DEF NoCalls, Files
<1> QED BY <1>1, KeepsFiles, QuietGives DEF NoCalls

LEMMA StatePortsInv == ASSUME StateInv, StatePorts PROVE Inv' /\ Files' /\ LoadGives'
<1>1. OutMiscCtrl({"EVRAM"}, 0) => Inv'
  BY MiscInv DEF OutMiscCtrl, StateInv
<1>2. UNCHANGED memoryVars => Inv'
  BY StaysInv DEF StateInv
<1>3. Inv'
  BY <1>1, <1>2 DEF StatePorts, OutPalette
<1>4. UNCHANGED <<file_state, card>> /\ age' = [id \in Aged |-> acts'] /\ last' = Nothing
  BY DEF StatePorts, Ages
<1>5. age' = [id \in Aged |-> age'[id]]
  BY <1>4
<1> QED BY <1>3, <1>4, <1>5, KeepsFiles, QuietGives DEF StateInv

LEMMA StateCallsInv == ASSUME StateInv, StateCalls PROVE Inv' /\ Files' /\ LoadGives'
<1>1. CASE quasi88_reset
  <2>1. PICK b \in {"I", "II"} : ResetBoard(b)
    BY <1>1 DEF quasi88_reset
  <2>2. age' = [id \in Aged |-> age'[id]] /\ UNCHANGED <<file_state, card>>
    BY <2>1 DEF ResetBoard
  <2>3. last' = Nothing
    BY <2>1 DEF ResetBoard
  <2>4. Inv'
    BY <1>1, ResetInv DEF quasi88_reset, resetMachine
  <2> QED BY <2>2, <2>3, <2>4, KeepsFiles, QuietGives DEF StateInv
<1>2. CASE \E n \in Serials, fault \in Faults \cup {"none"}, opens \in BOOLEAN :
             quasi88_stateload(n, fault, opens)
  BY <1>2, LoadInv DEF StateInv
<1>3. CASE /\ UNCHANGED machineVars
           /\ \E n \in Serials, opens \in BOOLEAN, cut \in Cuts \cup {"none"} :
                quasi88_statesave(n, opens, cut)
  <2>1. Inv' /\ last' = Nothing
    BY <1>3, StaysInv DEF machineVars, StateInv, quasi88_statesave
  <2>2. Files'
    BY <1>3, SaveFiles
  <2> QED BY <2>1, <2>2, QuietGives DEF StateInv
<1>4. CASE UNCHANGED machineVars /\ \E n \in Serials : StateNotFound(n)
  <2>1. PICK n \in Serials : StateNotFound(n)
    BY <1>4
  <2>2. file_state' \in Names /\ age' = age /\ card' = card /\ last' = Nothing
    BY <2>1, AskedIsName DEF StateNotFound, StateInv, Files
  <2>3. Files'
    BY <2>2 DEF StateInv, Files
  <2>4. Inv'
    BY <1>4, StaysInv DEF machineVars, StateInv
  <2> QED BY <2>2, <2>3, <2>4, QuietGives DEF StateInv
<1>5. CASE UNCHANGED machineVars /\ \E d \in StateDisks : InsertImage(d)
  <2>1. PICK d \in StateDisks : InsertImage(d)
    BY <1>5
  <2>2. file_state' \in Names /\ age' = age /\ card' = card /\ last' = Nothing
    BY <2>1 DEF InsertImage, Names
  <2>3. Files'
    BY <2>2 DEF StateInv, Files
  <2>4. Inv'
    BY <1>5, StaysInv DEF machineVars, StateInv
  <2> QED BY <2>2, <2>3, <2>4, QuietGives DEF StateInv
<1> QED BY <1>1, <1>2, <1>3, <1>4, <1>5 DEF StateCalls

LEMMA NextInv ==
  ASSUME StateInv, LoadGives, PictureKept, [Next]_vars
  PROVE  StateInv' /\ LoadGives' /\ PictureKept'
<1> SUFFICES Inv' /\ Files' /\ LoadGives' /\ PictureKept'
  BY DEF StateInv, PictureKept
<1> USE DEF StateInv
<1>1. NoCalls /\ Inv' => Inv' /\ Files' /\ LoadGives'
  BY NoCallsFiles
<1>2. CASE MapPorts
  BY <1>1, <1>2, MapPortsInv, MapPortsShown DEF MapPorts
<1>3. CASE VramPorts
  BY <1>1, <1>3, VramPortsInv, VramPortsShown DEF VramPorts
<1>4. CASE ScreenPorts
  BY <1>1, <1>4, ScreenPortsInv, ScreenPortsShown DEF ScreenPorts
<1>5. CASE CrtcPorts
  BY <1>1, <1>5, CrtcPortsInv, CrtcPortsShown DEF CrtcPorts
<1>6. CASE StatePorts
  BY <1>6, StatePortsInv, StatePortsShown
<1>7. CASE StateCalls
  BY <1>7, StateCallsInv, StateCallsShown
<1>8. CASE User
  BY <1>1, <1>8, UserInv, UserShown DEF User
<1>9. CASE ClockPorts
  <2>1. UNCHANGED memoryVars /\ UNCHANGED <<machineVars, resumed>> /\ NoCalls
    BY <1>9 DEF ClockPorts, machineVars, NoCalls
  <2> QED BY <1>1, <2>1, StaysInv, StaysShown
<1>10. CASE Frame
  <2>1. Inv'
    BY <1>10, StaysInv DEF Frame, Hardware
  <2>2. age' = [id \in Aged |-> age'[id]] /\ UNCHANGED <<file_state, card>> /\ last' = Nothing
    BY <1>10 DEF Frame, Files
  <2> QED BY <1>10, <2>1, <2>2, KeepsFiles, QuietGives, FrameShown
<1>11. CASE UNCHANGED vars
  <2>1. UNCHANGED memoryVars /\ UNCHANGED <<file_state, card, age>>
        /\ UNCHANGED <<machineVars, resumed>>
    BY <1>11 DEF vars, machineVars, suspendVars
  <2>2. age' = [id \in Aged |-> age'[id]]
    BY <2>1 DEF Files
  <2> QED BY <1>11, <2>1, <2>2, StaysInv, StaysGives, StaysShown, KeepsFiles
<1>12. CASE Halted
  BY <1>11, <1>12 DEF Halted, vars
<1> QED BY <1>2, <1>3, <1>4, <1>5, <1>6, <1>7, <1>8, <1>9, <1>10, <1>11, <1>12 DEF Next

-----------------------------------------------------------------------------
(* What the invariant says of accesses                                     *)

\* A byte of the window comes from the memory behind the address it shows,
\* whether there is a pointer or not.
LEMMA WindowShows ==
  ASSUME Inv, high_mode, io.grph_ctrl \cap {"64RAM", "N"} = {}, NEW k \in 0..3
  PROVE  LET far == (io.window_offset + k) % Top
         IN  main_mem_read(P8000 + k) = IF far < PF000 THEN Ram(far) ELSE High(far)
<1> DEFINE w == io.window_offset
           far == (w + k) % 256
<1>1. w \in 0..255 /\ main_mem_read(P8000 + k) = WindowPage(128 + k)
  BY DEF main_mem_read, P6000, P8000, P8400, Inv, Registers
<1>2. map.win = main_memory_mapping_8000_83ff(io, high_mode)
  BY DEF Inv, Mapped, Mapping
<1>3. CASE w <= 236
  <2>1. map.win = [mem |-> "main_ram", base |-> w]
    BY <1>1, <1>2, <1>3 DEF main_memory_mapping_8000_83ff, PF000
  <2>2. far = w + k /\ far < 240
    BY <1>1, <1>3
  <2> QED BY <1>1, <1>3, <2>1, <2>2 DEF WindowPage, P8000, Top, PF000
<1>4. CASE w \in 240..252
  <2>1. map.win = [mem |-> "high_ram", base |-> w - 240]
    BY <1>1, <1>2, <1>4 DEF main_memory_mapping_8000_83ff, PF000, Top
  <2>2. far = w + k /\ far >= 240
    BY <1>1, <1>4
  <2> QED BY <1>1, <1>4, <2>1, <2>2 DEF WindowPage, P8000, Top, PF000, High
<1>5. CASE w \in 237..239 \cup 253..255
  <2>1. map.win.mem = "split"
    BY <1>1, <1>2, <1>5 DEF main_memory_mapping_8000_83ff, PF000, Top
  <2>2. (k + w) % 256 = far
    BY <1>1
  <2> QED BY <1>1, <2>1, <2>2 DEF WindowPage, P8000, Top
<1>6. w <= 236 \/ w \in 240..252 \/ w \in 237..239 \cup 253..255
  BY <1>1
<1> QED BY <1>3, <1>4, <1>5, <1>6 DEF Top

\* The byte port E3H answers with names the bank it was asked of.
LEMMA BankNamed ==
  ASSUME NEW b \in 0..255, b < UseExtram * 4, LinearExt \/ UseExtram # 8 \/ b >= 8
  PROVE  ExtBank(ExtRead(b)) = b
<1>1. UseExtram \in 0..64 /\ (LinearExt \/ UseExtram \in (0..4) \cup {8, 9, 10, 16})
  BY MemoryAssumption DEF MemoryAssumption
<1>2. CASE LinearExt
  BY <1>1, <1>2 DEF ExtBank, ExtRead, NoBank
<1>3. CASE ~LinearExt /\ UseExtram \in 0..4
  BY <1>1, <1>3 DEF ExtBank, ExtRead, NoBank, Nibble
<1>4. CASE ~LinearExt /\ UseExtram = 8
  BY <1>1, <1>4 DEF ExtBank, ExtRead, NoBank, Spread, Row, BitOf
<1>5. CASE ~LinearExt /\ UseExtram \in 9..10
  BY <1>1, <1>5 DEF ExtBank, ExtRead, NoBank, Spread, Row, BitOf, Nibble
<1>6. CASE ~LinearExt /\ UseExtram = 16
  BY <1>1, <1>6 DEF ExtBank, ExtRead, NoBank, Spread, Row, BitOf
<1> QED BY <1>1, <1>2, <1>3, <1>4, <1>5, <1>6

LEMMA InvMapRight == ASSUME Inv PROVE MapRight
<1>1. map = Mapping(io, high_mode) /\ map.way = main_memory_vram_mapping(io)
  BY DEF Inv, Mapped, Mapping
<1>2. map.way = "BANK" => io.memory_bank # MAIN
  BY <1>1 DEF main_memory_vram_mapping
<1>3. map.way = "ALU" => ALU_comp = set_ALU_comp(io) /\ io.memory_bank = MAIN
  BY <1>1 DEF main_memory_vram_mapping, Inv, Registers
<1>4. io.ext_ram_bank \in 0..255
  BY DEF Inv, Registers
<1> QED BY <1>1, <1>2, <1>3, <1>4, WindowShows, BankNamed DEF MapRight

LEMMA InitShown == ASSUME MachineInit PROVE PictureKept
<1>1. Controller
  BY InitControl DEF MachineInit
<1>2. /\ screen_dirty_all /\ screen_dirty_palette /\ drawn = FALSE /\ text_attr_flipflop = 0
      /\ text_attr_buf = [i \in 0..1 |-> [p \in AllCells |-> [ch |-> 0, at |-> {}]]]
  BY DEF MachineInit, ScreenInit
<1>3. text_attr_buf = [i \in {0, 1} |-> text_attr_buf[i]]
  <2>1. 0..1 = {0, 1}
    OBVIOUS
  <2> QED BY <1>2, <2>1
<1> QED BY <1>1, <1>2, <1>3
        DEF PictureKept, PictureInv, PictureFresh, DrawnRight, PaletteRight, Dirty

LEMMA InvHolds == Spec => [](StateInv /\ LoadGives /\ PictureKept)
<1>1. MachineInit => StateInv /\ LoadGives /\ PictureKept
  <2> SUFFICES ASSUME MachineInit PROVE StateInv /\ LoadGives /\ PictureKept
    OBVIOUS
  <2>1. last = [did |-> "nothing"]
    BY DEF MachineInit, SuspendInit, Nothing
  <2>2. LoadGives
    BY <2>1 DEF LoadGives
  <2>3. Inv
    BY InitInv DEF MachineInit
  <2> QED BY <2>2, <2>3, InitShown, InitFiles DEF StateInv, PictureKept
<1>2. StateInv /\ LoadGives /\ PictureKept /\ [Next]_vars => StateInv' /\ LoadGives' /\ PictureKept'
  BY NextInv
<1> QED BY <1>1, <1>2, PTL DEF Spec

\* The pointers of main_mem_read and main_mem_write (pc88main.c) are right for
\* every board of extended RAM, window and bank, with or without a dictionary
\* ROM, whatever ports, resets, options and state files come in whatever order.
THEOREM MapRightHolds == Spec => []MapRight
<1>1. StateInv => MapRight
  BY InvMapRight DEF StateInv
<1> QED BY <1>1, InvHolds, PTL

\* A state that was written whole, on either sound board, is loaded whole
\* (suspend.c): for every set of numbers, names of disks and length of a name,
\* wherever saves are cut short and whichever block cannot be read.
THEOREM LoadGivesHolds == Spec => []LoadGives
BY InvHolds, PTL

\* Whatever ports, resets, options, late frames and modes come in whatever order,
\* a drawn frame (screen.c) is the picture painted afresh: for every text, format
\* and number of lines and columns, every palette and every rate of frames.
THEOREM PictureFreshHolds == Spec => []PictureFresh
<1>1. PictureKept => PictureFresh
  BY DEF PictureKept
<1> QED BY <1>1, InvHolds, PTL

-----------------------------------------------------------------------------
(* The clock: a job half done                                              *)

Chips == [reg : [0..Top52 -> {0, 1}], cdo : {0, 1}, diff : Int, cmd : 0..7, bit : {0, 1},
          ctrl : {{}, {"stb", "clk"}}]
JobTypes == [kind : {"set", "read", "none"}, wide : BOOLEAN, date : Int]
\* The chip goes by what it was last told.
Clock ==
  /\ rtc \in Chips /\ host \in Int /\ rtc.diff = told.date - told.at
  /\ told.date \in Int /\ told.at \in Int /\ readAt \in Int
  /\ job \in JobTypes
  /\ job.kind = "set" => job.date \in Dates
  /\ done \in 0..(LastAccess(job) + 1)
  /\ done > 0 => rtc.ctrl = {}

\* The last n bits sent, those of the accesses from `from' on, are the top of the register.
Sent(from, n) == \A m \in 0..(n - 1) : rtc.reg[52 - n + m] = AccessAt(job, from + m).v
Setting == job.kind = "set" /\ done <= LastAccess(job) => Sent(0, done)

\* The bits a program that reads is to get, and how far down they have come.
Wanted(i) == Serial(Digits(localtime(Shown(readAt))), i)
Off == done - (IF job.wide THEN 9 ELSE 1)
Reading ==
  job.kind = "read" =>
    /\ job.wide /\ done \in 0..4 => Sent(0, done)
    /\ job.wide /\ done \in 5..9 => Sent(5, done - 5)
    /\ done >= (IF job.wide THEN 5 ELSE 1) =>
         \A k \in 0..Top52 : k + Off \in 0..47 => rtc.reg[k] = Wanted(k + Off)
    /\ Off \in 1..48 => rtc.cdo = Wanted(Off - 1)
    /\ taken \in Seq({0, 1}) /\ Len(taken) = (IF Off < 1 THEN 0 ELSE Off - 1)
    /\ \A n \in 1..Len(taken) : taken[n] = Wanted(n - 1)

ClockInv == Clock /\ Setting /\ Reading

-----------------------------------------------------------------------------
(* Digits and bits                                                         *)
LEMMA BitIs ==
  ASSUME NEW d \in 0..15
  PROVE  /\ \A i \in 0..3 : Bit4(d, i) \in {0, 1}
         /\ Bit4(d, 0) + 2 * Bit4(d, 1) + 4 * Bit4(d, 2) + 8 * Bit4(d, 3) = d
<1>1. /\ Bit4(d, 0) = (d \div 1) % 2 /\ Bit4(d, 1) = (d \div 2) % 2
      /\ Bit4(d, 2) = (d \div 4) % 2 /\ Bit4(d, 3) = (d \div 8) % 2
  BY DEF Bit4
<1>2. ((d \div 1) % 2) + 2 * ((d \div 2) % 2) + 4 * ((d \div 4) % 2) + 8 * ((d \div 8) % 2) = d
  OBVIOUS
<1>3. \A i \in 0..3 : i = 0 \/ i = 1 \/ i = 2 \/ i = 3
  OBVIOUS
<1> QED BY <1>1, <1>2, <1>3

\* The digits of a moment are nibbles.
LEMMA DigitsAreNibbles ==
  ASSUME NEW t \in Int
  PROVE  \A k \in 1..12 : Digits(localtime(t))[k] \in 0..15
<1> DEFINE d == localtime(t)
<1>1. d.sec \in 0..59 /\ d.min \in 0..59 /\ d.hour \in 0..23 /\ d.mday \in 1..31
      /\ d.mon \in 1..12 /\ d.wday \in 0..6 /\ d.year \in Int
  BY DEF localtime, Year, NewYear
<1> HIDE DEF d
<1>2. /\ d.sec % 10 \in 0..15 /\ d.sec \div 10 \in 0..15
      /\ d.min % 10 \in 0..15 /\ d.min \div 10 \in 0..15
      /\ d.hour % 10 \in 0..15 /\ d.hour \div 10 \in 0..15
      /\ d.mday % 10 \in 0..15 /\ d.mday \div 10 \in 0..15
      /\ d.year % 10 \in 0..15 /\ (d.year % 100) \div 10 \in 0..15
  BY <1>1
<1>3. \A k \in 1..12 : Digits(d)[k] \in 0..15
  BY <1>1, <1>2 DEF Digits
<1> QED BY <1>3 DEF d

LEMMA SerialIs ==
  ASSUME NEW t \in Int
  PROVE  \A i \in 0..47 : Serial(Digits(localtime(t)), i) \in {0, 1}
<1> DEFINE s == Digits(localtime(t))
<1>1. \A k \in 1..12 : s[k] \in 0..15
  BY DigitsAreNibbles
<1> HIDE DEF s
<1>2. ASSUME NEW i \in 0..47 PROVE Serial(s, i) \in {0, 1}
  <2>1. i \div 4 + 1 \in 1..12 /\ i % 4 \in 0..3
    OBVIOUS
  <2> QED BY <1>1, <2>1, BitIs DEF Serial
<1> QED BY <1>2 DEF s

\* The register holds a digit in each four bits.
LEMMA DigitIs ==
  ASSUME NEW s, NEW reg, NEW n \in Nat, \A k \in 1..n : s[k] \in 0..15,
         \A k \in 0..(4 * n - 1) : reg[k] = Serial(s, k)
  PROVE  \A k \in 0..(n - 1) : Digit(reg, k) = s[k + 1]
<1> TAKE k \in 0..(n - 1)
<1>1. /\ 4 * k \in 0..(4 * n - 1) /\ 4 * k + 1 \in 0..(4 * n - 1)
      /\ 4 * k + 2 \in 0..(4 * n - 1) /\ 4 * k + 3 \in 0..(4 * n - 1)
  OBVIOUS
<1>2. /\ (4 * k) \div 4 = k /\ (4 * k) % 4 = 0
      /\ (4 * k + 1) \div 4 = k /\ (4 * k + 1) % 4 = 1
      /\ (4 * k + 2) \div 4 = k /\ (4 * k + 2) % 4 = 2
      /\ (4 * k + 3) \div 4 = k /\ (4 * k + 3) % 4 = 3
  OBVIOUS
<1>3. /\ Serial(s, 4 * k) = Bit4(s[k + 1], 0) /\ Serial(s, 4 * k + 1) = Bit4(s[k + 1], 1)
      /\ Serial(s, 4 * k + 2) = Bit4(s[k + 1], 2) /\ Serial(s, 4 * k + 3) = Bit4(s[k + 1], 3)
  BY <1>2 DEF Serial
<1>4. s[k + 1] \in 0..15
  OBVIOUS
<1>5. /\ reg[4 * k] = Bit4(s[k + 1], 0) /\ reg[4 * k + 1] = Bit4(s[k + 1], 1)
      /\ reg[4 * k + 2] = Bit4(s[k + 1], 2) /\ reg[4 * k + 3] = Bit4(s[k + 1], 3)
  BY <1>1, <1>3
<1> QED BY <1>4, <1>5, BitIs DEF Digit

\* mktime finds the moment whose date it is given.
LEMMA mktimeIs ==
  ASSUME NEW t \in Int, NEW d, d.year = Year(t), SameDate(localtime(t), d)
  PROVE  mktime(d) = t
<1>1. t \in (4 * d.year)..(4 * d.year + 3)
  BY DEF Year
<1>2. ASSUME NEW u \in (4 * d.year)..(4 * d.year + 3), SameDate(localtime(u), d)
      PROVE  u = t
  <2>1. localtime(u).sec = localtime(t).sec
    <3>1. "sec" \in DOMAIN localtime(u) \ {"wday"} /\ "sec" \in DOMAIN localtime(t) \ {"wday"}
      BY DEF localtime
    <3> QED BY <1>2, <3>1 DEF SameDate
  <2>2. u \div 4 = t \div 4
    BY DEF Year
  <2>3. u % 4 = t % 4
    BY <2>1 DEF localtime, NewYear, Year
  <2> QED BY <2>2, <2>3, <1>1 DEF Year
<1> QED BY <1>1, <1>2 DEF mktime

-----------------------------------------------------------------------------
(* The chip                                                                *)
Regs == [0..Top52 -> {0, 1}]
Wired == [reg : Regs, cdo : {0, 1}, diff : Int, cmd : 0..7, bit : {0, 1},
          ctrl : SUBSET {"stb", "clk"}]
\* A shift by one.
ShiftedOne(c, r) ==
  /\ r.reg \in Regs /\ r.cdo = c.reg[0] /\ r.diff = c.diff /\ r.cmd = c.cmd /\ r.bit = c.bit
  /\ \A k \in 0..50 : r.reg[k] = c.reg[k + 1]
  /\ r.reg[51] = c.bit

LEMMA ShiftIs ==
  ASSUME NEW c \in Wired
  PROVE  /\ ShiftedOne(c, calendar_shift_clock(c, 1))
         /\ calendar_shift_clock(c, 1).ctrl = c.ctrl
         /\ calendar_shift_clock(c, 1) \in Wired
<1> DEFINE r == calendar_shift_clock(c, 1)
<1>1. \A i \in 0..Top52 : (IF i + 1 <= Top52 THEN c.reg[i + 1] ELSE c.bit) \in {0, 1}
  BY DEF Regs, Top52, Wired
<1>2. r = [c EXCEPT !.reg = [i \in 0..Top52 |-> IF i + 1 <= Top52 THEN c.reg[i + 1] ELSE c.bit],
                    !.cdo = c.reg[0]]
  BY DEF calendar_shift_clock
<1>3. r.reg = [i \in 0..Top52 |-> IF i + 1 <= Top52 THEN c.reg[i + 1] ELSE c.bit]
  BY <1>2 DEF Wired
<1>4. r.reg \in Regs
  BY <1>1, <1>3 DEF Regs
<1>5. (\A k \in 0..50 : r.reg[k] = c.reg[k + 1]) /\ r.reg[51] = c.bit
  BY <1>3 DEF Top52
<1>6. c.reg[0] \in {0, 1}
  BY DEF Regs, Top52, Wired
<1>7. /\ r.cdo = c.reg[0] /\ r.diff = c.diff /\ r.cmd = c.cmd /\ r.bit = c.bit
      /\ r.ctrl = c.ctrl
  BY <1>2 DEF Wired
<1>8. r \in Wired
  BY <1>2, <1>3, <1>4, <1>6 DEF Wired
<1> HIDE DEF r
<1> QED BY <1>4, <1>5, <1>7, <1>8 DEF ShiftedOne, r

\* The clock line shifts once.
LEMMA PulseClock ==
  ASSUME NEW c \in Chips, NEW now, c.ctrl = {} \/ c.cmd = 0
  PROVE  /\ ShiftedOne(c, Pulse(c, "clk", now))
         /\ Pulse(c, "clk", now) \in Chips /\ Pulse(c, "clk", now).ctrl = {}
<1> DEFINE up == [c EXCEPT !.ctrl = {"clk"}]
           r == calendar_shift_clock(up, 1)
<1>1. c \in Wired
  BY DEF Chips, Regs, Wired
<1>2. c.cmd = 0 => calendar_stlobe(c, now) = c
  BY DEF calendar_stlobe
<1>3. out_ctrl_signal(c, {"clk"}, now) = up
  <2>1. "clk" \notin c.ctrl \ {"clk"} /\ ("stb" \in c.ctrl \ {"clk"} => c.cmd = 0)
    OBVIOUS
  <2> QED BY <1>2, <2>1 DEF out_ctrl_signal
<1>4. up \in Wired /\ up.ctrl = {"clk"} /\ up.reg = c.reg /\ up.bit = c.bit /\ up.diff = c.diff
      /\ up.cmd = c.cmd /\ up.cdo = c.cdo
  BY <1>1 DEF Wired
<1> HIDE DEF up
<1>5. out_ctrl_signal(up, {}, now) = [r EXCEPT !.ctrl = {}]
  BY <1>4 DEF out_ctrl_signal
<1>6. r \in Wired /\ ShiftedOne(up, r)
  BY <1>4, ShiftIs
<1> HIDE DEF r
<1>7. ShiftedOne(c, [r EXCEPT !.ctrl = {}])
  BY <1>4, <1>6 DEF ShiftedOne
<1>8. [r EXCEPT !.ctrl = {}] \in Chips
  BY <1>6 DEF Chips, Regs, Wired
<1>9. Pulse(c, "clk", now) = [r EXCEPT !.ctrl = {}]
  BY <1>3, <1>5 DEF Pulse
<1> QED BY <1>6, <1>7, <1>8, <1>9 DEF Wired

\* The strobe line gives the command, behind a shift if the line of the clock
\* was left up by a reset.
LEMMA PulseStrobe ==
  ASSUME NEW c \in Chips, NEW now
  PROVE  \E d \in Wired :
           /\ d.cmd = c.cmd /\ d.diff = c.diff
           /\ c.ctrl = {} => d.reg = c.reg /\ d.bit = c.bit /\ d.cdo = c.cdo
           /\ Pulse(c, "stb", now) = [calendar_stlobe(d, now) EXCEPT !.ctrl = {}]
<1> DEFINE r == calendar_shift_clock(c, 1)
           d == [(IF c.ctrl = {} THEN c ELSE r) EXCEPT !.ctrl = {"stb"}]
<1>1. c \in Wired
  BY DEF Chips, Regs, Wired
<1>2. r \in Wired /\ ShiftedOne(c, r)
  BY <1>1, ShiftIs
<1>3. out_ctrl_signal(c, {"stb"}, now) = d
  BY DEF out_ctrl_signal, Chips
<1> HIDE DEF r
<1>4. d \in Wired /\ d.ctrl = {"stb"} /\ d.cmd = c.cmd /\ d.diff = c.diff
      /\ (c.ctrl = {} => d.reg = c.reg /\ d.bit = c.bit /\ d.cdo = c.cdo)
  BY <1>1, <1>2 DEF ShiftedOne, Wired
<1> HIDE DEF d
<1>5. out_ctrl_signal(d, {}, now) = [calendar_stlobe(d, now) EXCEPT !.ctrl = {}]
  BY <1>4 DEF out_ctrl_signal
<1>6. Pulse(c, "stb", now) = [calendar_stlobe(d, now) EXCEPT !.ctrl = {}]
  BY <1>3, <1>5 DEF Pulse
<1> QED BY <1>4, <1>6

\* The time is copied in front of four bits.
LEMMA CopyIs ==
  ASSUME NEW d \in Wired, NEW now \in Int
  PROVE  LET r == get_calendar_work(d, now)
         IN  /\ r \in Wired /\ r.diff = d.diff /\ r.cdo = d.cdo /\ r.bit = d.bit /\ r.cmd = d.cmd
             /\ \A k \in 4..51 : r.reg[k] = Serial(Digits(localtime(now + d.diff)), k - 4)
<1> DEFINE W(i) == Serial(Digits(localtime(now + d.diff)), i)
           reg == [i \in 0..Top52 |-> IF i < 4 THEN 0 ELSE W(i - 4)]
<1>0. now + d.diff \in Int
  BY DEF Wired
<1>1. \A i \in 0..47 : W(i) \in {0, 1}
  BY <1>0, SerialIs
<1>2. get_calendar_work(d, now) = [d EXCEPT !.reg = reg]
  BY DEF get_calendar_work
<1>3. \A k \in 4..51 : reg[k] = W(k - 4)
  BY DEF Top52
<1> HIDE DEF W
<1>4. \A i \in 0..51 : (IF i < 4 THEN 0 ELSE W(i - 4)) \in {0, 1}
  BY <1>1
<1>5. reg \in Regs
  BY <1>4 DEF Regs, Top52
<1> HIDE DEF reg
<1>6. [d EXCEPT !.reg = reg] \in Wired /\ [d EXCEPT !.reg = reg].reg = reg
  BY <1>5 DEF Wired
<1> QED BY <1>2, <1>3, <1>6 DEF W, Wired

\* Telling the chip a date makes it show that date, in the year of the clock
\* if none is sent.
LEMMA SetWideIs ==
  ASSUME NEW d \in Wired, NEW now \in Int, NEW t \in Dates,
         \A k \in 0..47 : d.reg[k] = Serial(Digits(localtime(t)), k)
  PROVE  set_calendar_work(d, TRUE, now) = [d EXCEPT !.diff = t - now]
<1> DEFINE s == Digits(localtime(t))  c == Told(d, TRUE, now)
<1>1. t \in (1938 * 4)..(2037 * 4 + 3) /\ t \in Int
  BY CalendarAssumption
<1>2. \A k \in 0..11 : Digit(d.reg, k) = s[k + 1]
  <2>1. \A k \in 1..12 : s[k] \in 0..15
    BY <1>1, DigitsAreNibbles
  <2>2. \A k \in 0..(4 * 12 - 1) : d.reg[k] = Serial(s, k)
    OBVIOUS
  <2> HIDE DEF s
  <2>3. \A k \in 0..(12 - 1) : Digit(d.reg, k) = s[k + 1]
    BY <2>1, <2>2, DigitIs
  <2> QED BY <2>3
<1>3. /\ BCD2INT(d.reg, 0) = localtime(t).sec /\ BCD2INT(d.reg, 2) = localtime(t).min
      /\ BCD2INT(d.reg, 4) = localtime(t).hour /\ BCD2INT(d.reg, 6) = localtime(t).mday
      /\ Digit(d.reg, 9) = localtime(t).mon /\ BCD2INT(d.reg, 10) = Year(t) % 100
  <2>1. /\ localtime(t).sec \in 0..59 /\ localtime(t).min \in 0..59
        /\ localtime(t).hour \in 0..23 /\ localtime(t).mday \in 1..31
        /\ localtime(t).year = Year(t) /\ Year(t) \in Int
    BY <1>1 DEF localtime, Year, NewYear
  <2>2. /\ Digit(d.reg, 0) = localtime(t).sec % 10 /\ Digit(d.reg, 1) = localtime(t).sec \div 10
        /\ Digit(d.reg, 2) = localtime(t).min % 10 /\ Digit(d.reg, 3) = localtime(t).min \div 10
        /\ Digit(d.reg, 4) = localtime(t).hour % 10 /\ Digit(d.reg, 5) = localtime(t).hour \div 10
        /\ Digit(d.reg, 6) = localtime(t).mday % 10 /\ Digit(d.reg, 7) = localtime(t).mday \div 10
        /\ Digit(d.reg, 9) = localtime(t).mon /\ Digit(d.reg, 10) = localtime(t).year % 10
        /\ Digit(d.reg, 11) = (localtime(t).year % 100) \div 10
    BY <1>2 DEF Digits
  <2>3. \A y \in Int : (y % 10) + 10 * ((y % 100) \div 10) = y % 100
    OBVIOUS
  <2>4. \A x \in 0..59 : (x % 10) + 10 * (x \div 10) = x
    OBVIOUS
  <2> QED BY <2>1, <2>2, <2>3, <2>4 DEF BCD2INT
<1>4. c.year = Year(t)
  <2>1. Year(t) \in 1938..2037
    BY <1>1 DEF Year
  <2>2. c.year = IF Year(t) % 100 >= 38 THEN 1900 + (Year(t) % 100) ELSE 2000 + (Year(t) % 100)
    BY <1>3 DEF Told
  <2>3. \A y \in 1938..2037 :
          y = IF y % 100 >= 38 THEN 1900 + (y % 100) ELSE 2000 + (y % 100)
    OBVIOUS
  <2> HIDE DEF c
  <2> QED BY <2>1, <2>2, <2>3
<1>5. SameDate(localtime(t), c)
  <2>1. /\ c.sec = localtime(t).sec /\ c.min = localtime(t).min /\ c.hour = localtime(t).hour
        /\ c.mday = localtime(t).mday /\ c.mon = localtime(t).mon /\ c.year = localtime(t).year
    BY <1>3, <1>4 DEF Told, localtime
  <2>2. DOMAIN localtime(t) \ {"wday"} = {"year", "sec", "min", "hour", "mday", "mon"}
    BY DEF localtime
  <2> HIDE DEF c
  <2> QED BY <2>1, <2>2 DEF SameDate
<1> HIDE DEF c
<1>6. mktime(c) = t
  BY <1>1, <1>4, <1>5, mktimeIs
<1> QED BY <1>6 DEF set_calendar_work, c

LEMMA SetNarrowIs ==
  ASSUME NEW d \in Wired, NEW now \in Int, NEW t \in Int,
         \A k \in 0..39 : d.reg[k] = Serial(Digits(localtime(t)), k)
  PROVE  set_calendar_work(d, FALSE, now) =
           [d EXCEPT !.diff = (4 * Year(now + d.diff) + (t % 4)) - now]
<1> DEFINE s == Digits(localtime(t))  c == Told(d, FALSE, now)
           u == 4 * Year(now + d.diff) + (t % 4)
<1>1. now + d.diff \in Int
  BY DEF Wired
<1>2. \A k \in 0..9 : Digit(d.reg, k) = s[k + 1]
  <2>1. \A k \in 1..10 : s[k] \in 0..15
    BY DigitsAreNibbles
  <2>2. \A k \in 0..(4 * 10 - 1) : d.reg[k] = Serial(s, k)
    OBVIOUS
  <2> HIDE DEF s
  <2>3. \A k \in 0..(10 - 1) : Digit(d.reg, k) = s[k + 1]
    BY <2>1, <2>2, DigitIs
  <2> QED BY <2>3
<1>3. /\ BCD2INT(d.reg, 0) = localtime(t).sec /\ BCD2INT(d.reg, 2) = localtime(t).min
      /\ BCD2INT(d.reg, 4) = localtime(t).hour /\ BCD2INT(d.reg, 6) = localtime(t).mday
      /\ Digit(d.reg, 9) = localtime(t).mon
  <2>1. /\ localtime(t).sec \in 0..59 /\ localtime(t).min \in 0..59
        /\ localtime(t).hour \in 0..23 /\ localtime(t).mday \in 1..31
    BY DEF localtime, Year, NewYear
  <2>2. /\ Digit(d.reg, 0) = localtime(t).sec % 10 /\ Digit(d.reg, 1) = localtime(t).sec \div 10
        /\ Digit(d.reg, 2) = localtime(t).min % 10 /\ Digit(d.reg, 3) = localtime(t).min \div 10
        /\ Digit(d.reg, 4) = localtime(t).hour % 10 /\ Digit(d.reg, 5) = localtime(t).hour \div 10
        /\ Digit(d.reg, 6) = localtime(t).mday % 10 /\ Digit(d.reg, 7) = localtime(t).mday \div 10
        /\ Digit(d.reg, 9) = localtime(t).mon
    BY <1>2 DEF Digits
  <2>3. \A x \in 0..59 : (x % 10) + 10 * (x \div 10) = x
    OBVIOUS
  <2> QED BY <2>1, <2>2, <2>3 DEF BCD2INT
<1>4. u \in Int /\ u % 4 = t % 4 /\ Year(u) = Year(now + d.diff)
  <2>1. Year(now + d.diff) \in Int /\ t % 4 \in 0..3
    BY <1>1 DEF Year
  <2>2. \A y \in Int, m \in 0..3 :
          4 * y + m \in Int /\ (4 * y + m) % 4 = m /\ (4 * y + m) \div 4 = y
    OBVIOUS
  <2>3. u = 4 * Year(now + d.diff) + (t % 4)
    OBVIOUS
  <2> HIDE DEF u
  <2>4. u \in Int /\ u % 4 = t % 4 /\ u \div 4 = Year(now + d.diff)
    BY <2>1, <2>2, <2>3
  <2> QED BY <2>4 DEF Year
<1>5. c.year = Year(u)
  BY <1>4 DEF Told
<1>6. SameDate(localtime(u), c)
  <2>1. /\ localtime(u).sec = localtime(t).sec /\ localtime(u).min = localtime(t).min
        /\ localtime(u).hour = localtime(t).hour /\ localtime(u).mday = localtime(t).mday
        /\ localtime(u).mon = localtime(t).mon /\ localtime(u).year = Year(u)
    BY <1>4 DEF localtime, NewYear
  <2>2. /\ c.sec = localtime(u).sec /\ c.min = localtime(u).min /\ c.hour = localtime(u).hour
        /\ c.mday = localtime(u).mday /\ c.mon = localtime(u).mon /\ c.year = localtime(u).year
    BY <1>3, <1>5, <2>1 DEF Told
  <2>3. DOMAIN localtime(u) \ {"wday"} = {"year", "sec", "min", "hour", "mday", "mon"}
    BY DEF localtime
  <2> HIDE DEF c, u
  <2> QED BY <2>2, <2>3 DEF SameDate
<1> HIDE DEF c, u
<1>7. mktime(c) = u
  BY <1>4, <1>5, <1>6, mktimeIs
<1>8. set_calendar_work(d, FALSE, now) = [d EXCEPT !.diff = mktime(c) - now]
  BY DEF set_calendar_work, c
<1> QED BY <1>7, <1>8, Zenon DEF u

-----------------------------------------------------------------------------
(* The accesses of a job, by their places                                  *)
LEMMA LastIs ==
  ASSUME NEW j \in JobTypes
  PROVE  /\ j.kind = "set" => LastAccess(j) = (IF j.wide THEN 52 ELSE 40)
         /\ j.kind = "read" => LastAccess(j) = (IF j.wide THEN 57 ELSE 41)
         /\ j.kind = "none" => LastAccess(j) = -1
         /\ LastAccess(j) \in -1..57
         /\ Moves(j) = (IF j.wide THEN 48 ELSE 40)
BY DEF LastAccess, Moves, JobTypes

LEMMA SetAccess ==
  ASSUME NEW j \in JobTypes, j.kind = "set"
  PROVE  /\ \A n \in 0..(Moves(j) - 1) :
              AccessAt(j, n) = Send(Serial(Digits(localtime(j.date)), n))
         /\ j.wide => \A n \in 48..51 : AccessAt(j, n) = Send(Bit4(2, n - 48))
         /\ AccessAt(j, LastAccess(j)) = Strobe(IF j.wide THEN 7 ELSE 2)
<1>1. Moves(j) = (IF j.wide THEN 48 ELSE 40)
      /\ LastAccess(j) = (IF j.wide THEN 52 ELSE 40)
  BY LastIs
<1>2. \A n \in 0..(Moves(j) - 1) :
        AccessAt(j, n) = Send(Serial(Digits(localtime(j.date)), n))
  BY <1>1 DEF AccessAt
<1>3. j.wide => \A n \in 48..51 : AccessAt(j, n) = Send(Bit4(2, n - 48))
  BY <1>1 DEF AccessAt, WideCommand
<1>4. AccessAt(j, LastAccess(j)) = Strobe(IF j.wide THEN 7 ELSE 2)
  BY <1>1 DEF AccessAt, WideCommand
<1> QED BY <1>2, <1>3, <1>4

LEMMA ReadAccess ==
  ASSUME NEW j \in JobTypes, j.kind = "read"
  PROVE  /\ j.wide =>
              /\ \A n \in 0..3 : AccessAt(j, n) = Send(Bit4(3, n))
              /\ AccessAt(j, 4) = Strobe(7)
              /\ \A n \in 5..8 : AccessAt(j, n) = Send(Bit4(1, n - 5))
              /\ AccessAt(j, 9) = Strobe(7)
              /\ \A n \in 10..57 : AccessAt(j, n) = Take
         /\ ~j.wide =>
              /\ AccessAt(j, 0) = Strobe(3) /\ AccessAt(j, 1) = Strobe(1)
              /\ \A n \in 2..41 : AccessAt(j, n) = Take
BY DEF AccessAt, WideCommand, JobTypes

\* One more bit is sent.
LEMMA SendIs ==
  ASSUME rtc \in Chips, NEW b \in {0, 1}, NEW from \in Nat, NEW n \in 0..51,
         Sent(from, n), AccessAt(job, from + n) = Send(b), job' = job,
         rtc' = Pulse(OutCommon(rtc, 0, b), "clk", host)
  PROVE  /\ rtc' \in Chips /\ rtc'.ctrl = {} /\ rtc'.diff = rtc.diff
         /\ \A m \in 0..n : rtc'.reg[(51 - n) + m] = AccessAt(job, from + m).v
<1> DEFINE c == OutCommon(rtc, 0, b)
<1>1. c \in Chips /\ c.cmd = 0 /\ c.reg = rtc.reg /\ c.bit = b /\ c.diff = rtc.diff
  <2>1. c = [rtc EXCEPT !.cmd = 0, !.bit = b] /\ 0 \in 0..7
    BY DEF OutCommon
  <2> HIDE DEF c
  <2> QED BY <2>1 DEF Chips
<1> HIDE DEF c
<1>2. ShiftedOne(c, rtc') /\ rtc' \in Chips /\ rtc'.ctrl = {}
  BY <1>1, PulseClock DEF c
<1>3. Send(b).v = b
  BY DEF Send
<1>4. ASSUME NEW m \in 0..n PROVE rtc'.reg[(51 - n) + m] = AccessAt(job, from + m).v
  <2>1. CASE m < n
    <3>1. (51 - n) + m \in 0..50 /\ (51 - n) + m + 1 = 52 - n + m /\ m \in 0..(n - 1)
      BY <2>1
    <3>2. rtc'.reg[(51 - n) + m] = rtc.reg[52 - n + m]
      BY <1>1, <1>2, <3>1 DEF ShiftedOne
    <3> QED BY <3>1, <3>2 DEF Sent
  <2>2. CASE m = n
    <3>1. (51 - n) + m = 51
      BY <2>2
    <3> QED BY <1>1, <1>2, <1>3, <2>2, <3>1 DEF ShiftedOne
  <2> QED BY <2>1, <2>2
<1> QED BY <1>1, <1>2, <1>4 DEF ShiftedOne

\* A shift brings the next bit wanted down.
LEMMA DownIs ==
  ASSUME NEW c, ShiftedOne(c, rtc'), c.reg = rtc.reg, job \in JobTypes, done \in Nat,
         done >= (IF job.wide THEN 5 ELSE 1),
         \A k \in 0..Top52 : k + Off \in 0..47 => rtc.reg[k] = Wanted(k + Off),
         job' = job, done' = done + 1, told' = told, readAt' = readAt
  PROVE  /\ \A k \in 0..Top52 : k + Off' \in 0..47 => rtc'.reg[k] = Wanted(k + Off)'
         /\ Off' \in 1..48 => rtc'.cdo = Wanted(Off - 1)'
<1>1. Off \in Int /\ Off >= -4 /\ Off' = Off + 1
  BY DEF Off, JobTypes
<1>2. \A i : Wanted(i)' = Wanted(i)
  BY DEF Wanted, Shown
<1> HIDE DEF Off, Wanted
<1>3. ASSUME NEW k \in 0..51, k + Off' \in 0..47 PROVE rtc'.reg[k] = Wanted(k + Off)'
  <2>1. k \in 0..50 /\ k + 1 \in 0..51 /\ (k + 1) + Off \in 0..47 /\ k + Off' = (k + 1) + Off
    BY <1>1, <1>3
  <2>2. rtc'.reg[k] = rtc.reg[k + 1]
    BY <2>1 DEF ShiftedOne
  <2>3. rtc.reg[k + 1] = Wanted((k + 1) + Off)
    BY <2>1 DEF Top52
  <2>4. Wanted(k + Off)' = Wanted(k + Off')
    BY <1>2
  <2> QED BY <2>1, <2>2, <2>3, <2>4
<1>4. ASSUME Off' \in 1..48 PROVE rtc'.cdo = Wanted(Off - 1)'
  <2>1. Off' - 1 = 0 + Off /\ 0 + Off \in 0..47 /\ 0 \in 0..51
    BY <1>1, <1>4
  <2>2. rtc'.cdo = rtc.reg[0]
    BY DEF ShiftedOne
  <2> QED BY <1>2, <2>1, <2>2 DEF Top52
<1> QED BY <1>3, <1>4 DEF Top52

LEMMA ShiftBy ==
  ASSUME NEW c \in Wired, NEW n \in 1..51
  PROVE  LET r == calendar_shift_clock(c, n)
         IN  /\ r \in Wired /\ r.diff = c.diff
             /\ \A k \in 0..(51 - n) : r.reg[k] = c.reg[k + n]
<1> DEFINE reg == [i \in 0..Top52 |-> IF i + n <= Top52 THEN c.reg[i + n] ELSE c.bit]
<1>1. c.reg \in Regs /\ c.bit \in {0, 1} /\ n - 1 \in 0..51
  BY DEF Wired
<1>2. \A i \in 0..51 : (IF i + n <= 51 THEN c.reg[i + n] ELSE c.bit) \in {0, 1}
  BY <1>1 DEF Regs, Top52
<1>3. reg \in Regs
  BY <1>2 DEF Regs, Top52
<1>4. \A k \in 0..(51 - n) : reg[k] = c.reg[k + n]
  BY DEF Top52
<1>5. c.reg[n - 1] \in {0, 1}
  BY <1>1 DEF Regs, Top52
<1>6. calendar_shift_clock(c, n) = [c EXCEPT !.reg = reg, !.cdo = c.reg[n - 1]]
  BY DEF calendar_shift_clock
<1> HIDE DEF reg
<1>7. [c EXCEPT !.reg = reg, !.cdo = c.reg[n - 1]] \in Wired
      /\ [c EXCEPT !.reg = reg, !.cdo = c.reg[n - 1]].reg = reg
      /\ [c EXCEPT !.reg = reg, !.cdo = c.reg[n - 1]].diff = c.diff
  BY <1>3, <1>5 DEF Wired
<1> QED BY <1>4, <1>6, <1>7

\* A strobe of the program; when both lines are low it is the command alone.
LEMMA StrobeIs ==
  ASSUME rtc \in Chips, NEW cmd \in 0..7,
         rtc' = Pulse(OutCommon(rtc, cmd, 0), "stb", host)
  PROVE  \E d \in Wired : /\ d.cmd = cmd /\ d.diff = rtc.diff
                          /\ rtc.ctrl = {} => d.reg = rtc.reg
                          /\ rtc' = [calendar_stlobe(d, host) EXCEPT !.ctrl = {}]
<1> DEFINE c == OutCommon(rtc, cmd, 0)
<1>1. c = [rtc EXCEPT !.cmd = cmd, !.bit = 0]
  BY DEF OutCommon
<1>2. c \in Chips /\ c.cmd = cmd /\ c.reg = rtc.reg /\ c.diff = rtc.diff /\ c.ctrl = rtc.ctrl
  <2> HIDE DEF c
  <2> QED BY <1>1 DEF Chips
<1> HIDE DEF c
<1>3. PICK d \in Wired :
           /\ d.cmd = c.cmd /\ d.diff = c.diff
           /\ c.ctrl = {} => d.reg = c.reg /\ d.bit = c.bit /\ d.cdo = c.cdo
           /\ Pulse(c, "stb", host) = [calendar_stlobe(d, host) EXCEPT !.ctrl = {}]
  BY <1>2, PulseStrobe
<1>4. d \in Wired /\ d.cmd = cmd /\ d.diff = rtc.diff /\ (rtc.ctrl = {} => d.reg = rtc.reg)
  BY <1>2, <1>3 DEF Wired
<1> QED BY <1>3, <1>4 DEF c

\* The lines of a wired chip, lowered.
LEMMA Lowered ==
  ASSUME NEW r \in Wired
  PROVE  LET low == [r EXCEPT !.ctrl = {}]
         IN  /\ low \in Chips /\ low.ctrl = {} /\ low.reg = r.reg /\ low.diff = r.diff
             /\ low.cdo = r.cdo
BY DEF Wired, Chips, Regs

\* The command digit, as it was sent.
LEMMA CommandIs ==
  ASSUME NEW reg, NEW cmd \in 0..15, \A i \in 0..3 : reg[48 + i] = Bit4(cmd, i)
  PROVE  Digit(reg, 12) = cmd
<1>1. /\ reg[48] = Bit4(cmd, 0) /\ reg[49] = Bit4(cmd, 1)
      /\ reg[50] = Bit4(cmd, 2) /\ reg[51] = Bit4(cmd, 3)
  <2>1. 0 \in 0..3 /\ 1 \in 0..3 /\ 2 \in 0..3 /\ 3 \in 0..3
    OBVIOUS
  <2>2. reg[48 + 0] = Bit4(cmd, 0) /\ reg[48 + 1] = Bit4(cmd, 1)
        /\ reg[48 + 2] = Bit4(cmd, 2) /\ reg[48 + 3] = Bit4(cmd, 3)
    BY <2>1
  <2> QED BY <2>2
<1>2. Digit(reg, 12) = reg[48] + 2 * reg[49] + 4 * reg[50] + 8 * reg[51]
  BY DEF Digit
<1> QED BY <1>1, <1>2, BitIs

\* What every access leaves.
LEMMA ClockKept ==
  ASSUME Clock, Access, rtc' \in Chips, rtc'.ctrl = {}, rtc'.diff = told'.date - told'.at,
         told'.date \in Int, told'.at \in Int
  PROVE  Clock'
<1>1. host' = host /\ job' = job /\ done' = done + 1 /\ readAt' \in Int
  BY DEF Access, Clock
<1>2. done' \in 0..(LastAccess(job') + 1)
  <2>1. LastAccess(job) \in Int
    BY LastIs DEF Clock, JobTypes
  <2> QED BY <1>1, <2>1 DEF Access, Clock
<1> QED BY <1>1, <1>2 DEF Clock

\* An access that is not the last of a setting.
LEMMA SetSendStep ==
  ASSUME ClockInv, Access, job.kind = "set", done < LastAccess(job)
  PROVE  ClockInv'
<1>1. job \in JobTypes /\ job.date \in Int /\ done \in Nat /\ rtc \in Chips
  BY DEF ClockInv, Clock, JobTypes
<1>2. LastAccess(job) = (IF job.wide THEN 52 ELSE 40)
      /\ Moves(job) = (IF job.wide THEN 48 ELSE 40)
  BY <1>1, LastIs
<1>3. \E b \in {0, 1} : AccessAt(job, done) = Send(b)
  <2>1. CASE done < Moves(job)
    <3>1. Serial(Digits(localtime(job.date)), done) \in {0, 1}
      BY <1>1, <1>2, <2>1, SerialIs
    <3>2. AccessAt(job, done) = Send(Serial(Digits(localtime(job.date)), done))
      BY <1>1, <1>2, <2>1, SetAccess
    <3> QED BY <3>1, <3>2
  <2>2. CASE ~(done < Moves(job))
    <3>1. job.wide /\ done \in 48..51 /\ done - 48 \in 0..3 /\ 2 \in 0..15
      BY <1>1, <1>2, <2>2
    <3>2. Bit4(2, done - 48) \in {0, 1}
      BY <3>1, BitIs
    <3> QED BY <1>1, <3>1, <3>2, SetAccess
  <2> QED BY <2>1, <2>2
<1>4. PICK b \in {0, 1} : AccessAt(job, done) = Send(b)
  BY <1>3
<1>5. Sent(0, done) /\ done \in 0..51 /\ 0 + done = done
  BY <1>1, <1>2 DEF ClockInv, Setting
<1>6. /\ rtc' = Pulse(OutCommon(rtc, 0, b), "clk", host)
      /\ job' = job /\ host' = host /\ done' = done + 1 /\ told' = told
  <2>1. done # LastAccess(job)
    BY <1>1, <1>2
  <2> QED BY <1>4, <2>1 DEF Access, Send
<1>7. /\ rtc' \in Chips /\ rtc'.ctrl = {} /\ rtc'.diff = rtc.diff
      /\ \A m \in 0..done : rtc'.reg[(51 - done) + m] = AccessAt(job, 0 + m).v
  <2>1. AccessAt(job, 0 + done) = Send(b)
    BY <1>4, <1>5
  <2> QED BY <1>1, <1>5, <1>6, <2>1, SendIs
<1>8. Clock'
  BY <1>6, <1>7, ClockKept DEF ClockInv, Clock
<1>9. Setting'
  <2>1. \A m \in 0..(done' - 1) : rtc'.reg[52 - done' + m] = AccessAt(job', 0 + m).v
    <3>1. done' - 1 = done /\ 52 - done' = 51 - done
      BY <1>1, <1>6
    <3> QED BY <1>6, <1>7, <3>1
  <2> QED BY <2>1 DEF Setting, Sent
<1>10. Reading'
  BY <1>6 DEF Reading
<1> QED BY <1>8, <1>9, <1>10 DEF ClockInv

\* The last access of a setting sets the difference.
LEMMA SetLastStep ==
  ASSUME ClockInv, Access, job.kind = "set", done = LastAccess(job)
  PROVE  ClockInv'
<1>1. /\ job \in JobTypes /\ job.date \in Dates /\ job.date \in Int /\ rtc \in Chips
      /\ host \in Int /\ rtc.diff \in Int
      /\ rtc.diff = told.date - told.at /\ told.date \in Int /\ told.at \in Int
  BY DEF ClockInv, Clock, JobTypes, Chips
<1>2. LastAccess(job) = (IF job.wide THEN 52 ELSE 40)
      /\ Moves(job) = (IF job.wide THEN 48 ELSE 40)
  BY <1>1, LastIs
<1>3. Sent(0, done) /\ done > 0 /\ rtc.ctrl = {}
  BY <1>2 DEF ClockInv, Setting, Clock
<1>4. \A k \in 0..(Moves(job) - 1) :
        rtc.reg[52 - done + k] = Serial(Digits(localtime(job.date)), k)
  <2> TAKE k \in 0..(Moves(job) - 1)
  <2>1. k \in 0..(done - 1) /\ 0 + k = k
    BY <1>2
  <2>2. AccessAt(job, k).v = Serial(Digits(localtime(job.date)), k)
    BY <1>1, SetAccess DEF Send
  <2> QED BY <1>3, <2>1, <2>2 DEF Sent
<1> DEFINE cmd == IF job.wide THEN 7 ELSE 2
<1>5. /\ rtc' = Pulse(OutCommon(rtc, cmd, 0), "stb", host)
      /\ job' = job /\ host' = host /\ done' = done + 1
      /\ told' = [date |-> Meant, at |-> host]
  <2>1. AccessAt(job, done) = Strobe(cmd)
    BY <1>1, SetAccess
  <2> HIDE DEF cmd
  <2> QED BY <2>1 DEF Access, Strobe
<1>6. cmd \in 0..7
  OBVIOUS
<1>7. PICK d \in Wired : /\ d.cmd = cmd /\ d.reg = rtc.reg /\ d.diff = rtc.diff
                         /\ rtc' = [calendar_stlobe(d, host) EXCEPT !.ctrl = {}]
  <2> HIDE DEF cmd
  <2> QED BY <1>1, <1>3, <1>5, <1>6, StrobeIs
<1>8. \E e \in Wired : calendar_stlobe(d, host) = [e EXCEPT !.diff = Meant - host] /\ Meant \in Int
  <2>1. CASE job.wide
    <3>1. \A k \in 0..47 : d.reg[k] = Serial(Digits(localtime(job.date)), k)
      BY <1>2, <1>4, <1>7, <2>1
    <3>2. Digit(d.reg, 12) = 2
      <4>1. \A i \in 0..3 : d.reg[48 + i] = Bit4(2, i)
        <5> TAKE i \in 0..3
        <5>1. 48 + i \in 0..51 /\ 52 - done + (48 + i) = 48 + i /\ 0 + (48 + i) = 48 + i
              /\ (48 + i) - 48 = i /\ 48 + i \in 48..51 /\ 48 + i \in 0..(done - 1)
          BY <1>2, <2>1
        <5>2. AccessAt(job, 48 + i).v = Bit4(2, i)
          BY <1>1, <2>1, <5>1, SetAccess DEF Send
        <5> QED BY <1>3, <1>7, <5>1, <5>2 DEF Sent
      <4> QED BY <4>1, CommandIs
    <3>3. calendar_stlobe(d, host) = set_calendar_work(d, TRUE, host)
      <4>1. d.cmd = 7
        BY <1>7, <2>1
      <4>2. d.cmd # 1 /\ d.cmd # 2 /\ d.cmd # 3 /\ Digit(d.reg, 12) # 1
        BY <3>2, <4>1
      <4> QED BY <3>2, <4>1, <4>2, Zenon DEF calendar_stlobe
    <3>4. set_calendar_work(d, TRUE, host) = [d EXCEPT !.diff = job.date - host]
      BY <1>1, <3>1, SetWideIs
    <3>5. Meant = job.date
      BY <2>1 DEF Meant
    <3> QED BY <1>1, <3>3, <3>4, <3>5
  <2>2. CASE ~job.wide
    <3> DEFINE e == calendar_shift_clock(d, 12)
    <3>1. e \in Wired /\ e.diff = d.diff /\ \A k \in 0..39 : e.reg[k] = d.reg[k + 12]
      BY ShiftBy
    <3>2. calendar_stlobe(d, host) = set_calendar_work(e, FALSE, host)
      BY <1>7, <2>2 DEF calendar_stlobe
    <3> HIDE DEF e
    <3>3. \A k \in 0..39 : e.reg[k] = Serial(Digits(localtime(job.date)), k)
      <4> TAKE k \in 0..39
      <4>1. 52 - done + k = k + 12 /\ k \in 0..(Moves(job) - 1)
        BY <1>2, <2>2
      <4> QED BY <1>4, <1>7, <3>1, <4>1
    <3>4. set_calendar_work(e, FALSE, host) =
            [e EXCEPT !.diff = (4 * Year(host + e.diff) + (job.date % 4)) - host]
      <4>1. host \in Int /\ job.date \in Int /\ e \in Wired
        BY <1>1, <3>1
      <4> QED BY <3>3, <4>1, SetNarrowIs, Zenon
    <3>5. Shown(host) = host + e.diff
      BY <1>1, <1>7, <3>1 DEF Shown
    <3>6. Meant = 4 * Year(host + e.diff) + (job.date % 4)
      BY <2>2, <3>5 DEF Meant
    <3>7. Meant \in Int
      BY <1>1, <1>7, <3>1, <3>6 DEF Year
    <3> QED BY <3>1, <3>2, <3>4, <3>6, <3>7
  <2> QED BY <2>1, <2>2
<1>9. PICK e \in Wired : calendar_stlobe(d, host) = [e EXCEPT !.diff = Meant - host] /\ Meant \in Int
  BY <1>8
<1> DEFINE r == [e EXCEPT !.diff = Meant - host]
<1>10. r \in Wired /\ r.diff = Meant - host
  <2>1. Meant - host \in Int
    BY <1>1, <1>9
  <2> QED BY <2>1 DEF Wired
<1>11. rtc' = [r EXCEPT !.ctrl = {}]
  BY <1>7, <1>9
<1> HIDE DEF r
<1>12. rtc' \in Chips /\ rtc'.ctrl = {} /\ rtc'.diff = Meant - host
  BY <1>10, <1>11, Lowered
<1>13. Clock'
  <2>1. told'.date = Meant /\ told'.at = host
    BY <1>5
  <2> QED BY <1>1, <1>9, <1>12, <2>1, ClockKept DEF ClockInv
<1>14. Setting'
  BY <1>2, <1>5 DEF Setting
<1>15. Reading'
  BY <1>5 DEF Reading
<1> QED BY <1>13, <1>14, <1>15 DEF ClockInv

\* A reading access, whatever it is.
LEMMA ReadKeeps ==
  ASSUME ClockInv, Access, job.kind = "read"
  PROVE  /\ job \in JobTypes /\ done \in Nat /\ rtc \in Chips /\ host \in Int
         /\ job' = job /\ host' = host /\ done' = done + 1 /\ told' = told
         /\ readAt' = (IF done = (IF job.wide THEN 4 ELSE 0) THEN host ELSE readAt)
         /\ LastAccess(job) = (IF job.wide THEN 57 ELSE 41) /\ done <= LastAccess(job)
         /\ done > 0 => rtc.ctrl = {}
         /\ rtc.diff = told.date - told.at /\ told.date \in Int /\ told.at \in Int
         /\ Off \in Int /\ Off = done - (IF job.wide THEN 9 ELSE 1) /\ Off' = Off + 1
         /\ Setting' 
         /\ rtc' \in Chips /\ rtc'.ctrl = {} /\ rtc'.diff = rtc.diff => Clock'
<1>1. job \in JobTypes /\ done \in Nat /\ rtc \in Chips /\ host \in Int
      /\ (done > 0 => rtc.ctrl = {})
      /\ rtc.diff = told.date - told.at /\ told.date \in Int /\ told.at \in Int
  BY DEF ClockInv, Clock, JobTypes
<1>2. LastAccess(job) = (IF job.wide THEN 57 ELSE 41) /\ done <= LastAccess(job)
  BY <1>1, LastIs DEF Access
<1>3. job' = job /\ host' = host /\ done' = done + 1 /\ told' = told
      /\ readAt' = (IF done = (IF job.wide THEN 4 ELSE 0) THEN host ELSE readAt)
  BY DEF Access, Copies
<1>4. Off \in Int /\ Off = done - (IF job.wide THEN 9 ELSE 1) /\ Off' = Off + 1
  BY <1>1, <1>3 DEF Off, JobTypes
<1>5. Setting'
  BY <1>3 DEF Setting
<1>6. rtc' \in Chips /\ rtc'.ctrl = {} /\ rtc'.diff = rtc.diff => Clock'
  BY <1>1, <1>3, ClockKept DEF ClockInv
<1> QED BY <1>1, <1>2, <1>3, <1>4, <1>5, <1>6

\* The digit of a command goes in: behind it, after the copy, the bits come down.
LEMMA ReadSendStep ==
  ASSUME ClockInv, Access, job.kind = "read", job.wide, done \in (0..3) \cup (5..8)
  PROVE  ClockInv'
<1> DEFINE from == IF done < 5 THEN 0 ELSE 5
           cmd == IF done < 5 THEN 3 ELSE 1
           n == done - from
<1>1. from \in Nat /\ n \in 0..3 /\ from + n = done /\ cmd \in 0..15 /\ done \in Nat
  OBVIOUS
<1>2. AccessAt(job, done) = Send(Bit4(cmd, n)) /\ Bit4(cmd, n) \in {0, 1}
  <2>1. Bit4(cmd, n) \in {0, 1}
    <3> HIDE DEF cmd, n
    <3> QED BY <1>1, BitIs
  <2>2. AccessAt(job, done) = Send(Bit4(cmd, n))
    <3>1. CASE done \in 0..3
      <4>1. cmd = 3 /\ n = done
        BY <3>1
      <4> HIDE DEF cmd, n
      <4> QED BY <3>1, <4>1, ReadKeeps, ReadAccess
    <3>2. CASE done \in 5..8
      <4>1. cmd = 1 /\ n = done - 5
        BY <3>2
      <4> HIDE DEF cmd, n
      <4> QED BY <3>2, <4>1, ReadKeeps, ReadAccess
    <3> QED BY <3>1, <3>2
  <2> QED BY <2>1, <2>2
<1> DEFINE b == Bit4(cmd, n)
<1>3. b \in {0, 1} /\ AccessAt(job, done) = Send(b)
  BY <1>2
<1>4. Sent(from, n)
  <2>1. CASE done \in 0..3
    <3>1. from = 0 /\ n = done /\ done \in 0..4
      BY <2>1
    <3> HIDE DEF from, n
    <3> QED BY <3>1 DEF ClockInv, Reading
  <2>2. CASE done \in 5..8
    <3>1. from = 5 /\ n = done - 5 /\ done \in 5..9
      BY <2>2
    <3> HIDE DEF from, n
    <3> QED BY <3>1 DEF ClockInv, Reading
  <2> QED BY <2>1, <2>2
<1>5. from = (IF done < 5 THEN 0 ELSE 5)
  OBVIOUS
<1> HIDE DEF from, n, cmd, b
<1>6. /\ rtc' = Pulse(OutCommon(rtc, 0, b), "clk", host) /\ taken' = taken
  BY <1>3 DEF Access, Send
<1>7. job' = job /\ done' = done + 1 /\ told' = told /\ readAt' = readAt
      /\ rtc \in Chips /\ job \in JobTypes /\ Off \in Int /\ Off = done - 9 /\ Off' = Off + 1
  BY ReadKeeps
<1>8. /\ rtc' \in Chips /\ rtc'.ctrl = {} /\ rtc'.diff = rtc.diff
      /\ \A m \in 0..n : rtc'.reg[(51 - n) + m] = AccessAt(job, from + m).v
  <2>1. AccessAt(job, from + n) = Send(b) /\ n \in 0..51
    BY <1>1, <1>3
  <2> QED BY <1>1, <1>3, <1>4, <1>6, <1>7, <2>1, SendIs
<1>9. Clock'
  BY <1>8, ReadKeeps
<1>10. Reading'
  <2>1. done' \in 0..4 => from = 0 /\ n = done /\ done' - 1 = n /\ 52 - done' = 51 - n
    BY <1>1, <1>5, <1>7
  <2>2. done' \in 5..9 => from = 5 /\ n = done - 5 /\ (done' - 5) - 1 = n
                          /\ 52 - (done' - 5) = 51 - n
    BY <1>1, <1>5, <1>7
  <2>3. done' \in 0..4 => Sent(0, done)'
    BY <1>7, <1>8, <2>1 DEF Sent
  <2>4. done' \in 5..9 => Sent(5, done - 5)'
    BY <1>7, <1>8, <2>2 DEF Sent
  <2>5. done' >= 5 => /\ \A k \in 0..Top52 : k + Off' \in 0..47 => rtc'.reg[k] = Wanted(k + Off)'
                      /\ Off' \in 1..48 => rtc'.cdo = Wanted(Off - 1)'
    <3> SUFFICES ASSUME done' >= 5
                 PROVE  /\ \A k \in 0..Top52 : k + Off' \in 0..47 => rtc'.reg[k] = Wanted(k + Off)'
                        /\ Off' \in 1..48 => rtc'.cdo = Wanted(Off - 1)'
      OBVIOUS
    <3> DEFINE c == OutCommon(rtc, 0, b)
    <3>1. c = [rtc EXCEPT !.cmd = 0, !.bit = b] /\ 0 \in 0..7
      BY DEF OutCommon
    <3>2. c \in Chips /\ c.cmd = 0 /\ c.reg = rtc.reg
      <4> HIDE DEF c
      <4> QED BY <1>3, <1>7, <3>1 DEF Chips
    <3>3. ShiftedOne(c, rtc')
      <4> HIDE DEF c
      <4> QED BY <1>6, <3>2, PulseClock DEF c
    <3>4. done >= 5 /\ \A k \in 0..Top52 : k + Off \in 0..47 => rtc.reg[k] = Wanted(k + Off)
      BY <1>1, <1>7 DEF ClockInv, Reading
    <3> HIDE DEF c
    <3> QED BY <1>1, <1>7, <3>2, <3>3, <3>4, DownIs
  <2>6. Off' <= 0 /\ Off <= 0 /\ ~(Off' \in 1..48)
    BY <1>7
  <2>7. taken \in Seq({0, 1}) /\ Len(taken) = 0
    BY <1>7, <2>6 DEF ClockInv, Reading
  <2> HIDE DEF Off
  <2>8. job'.wide /\ job'.kind = "read"
    BY <1>7
  <2>9. taken' = taken /\ ~(Off' >= 1)
    BY <1>6, <1>7
  <2>10. /\ taken' \in Seq({0, 1}) /\ Len(taken') = (IF Off' < 1 THEN 0 ELSE Off' - 1)
         /\ (\A i \in 1..Len(taken) : taken[i] = Wanted(i - 1))'
    <3>1. Len(taken') = 0 /\ 1..Len(taken') = {}
      BY <2>7, <2>9
    <3> QED BY <1>7, <2>7, <2>9, <3>1
  <2> QED BY <2>3, <2>4, <2>5, <2>6, <2>8, <2>10 DEF Reading
<1> QED BY <1>9, <1>10, ReadKeeps DEF ClockInv

\* The access that copies the time.
LEMMA ReadCopyStep ==
  ASSUME ClockInv, Access, job.kind = "read", done = (IF job.wide THEN 4 ELSE 0)
  PROVE  ClockInv'
<1> DEFINE cmd == IF job.wide THEN 7 ELSE 3
<1>1. AccessAt(job, done) = Strobe(cmd) /\ cmd \in 0..7
  BY ReadKeeps, ReadAccess
<1>2. cmd = (IF job.wide THEN 7 ELSE 3)
  OBVIOUS
<1> HIDE DEF cmd
<1>3. rtc' = Pulse(OutCommon(rtc, cmd, 0), "stb", host) /\ taken' = taken
  BY <1>1 DEF Access, Strobe
<1>4. job' = job /\ done' = done + 1 /\ told' = told /\ readAt' = host /\ host \in Int
      /\ rtc \in Chips /\ job \in JobTypes /\ Off \in Int
      /\ Off' = (IF job.wide THEN -4 ELSE 0)
      /\ rtc.diff = told.date - told.at /\ told.date \in Int /\ told.at \in Int
  BY ReadKeeps
<1>5. PICK d \in Wired : /\ d.cmd = cmd /\ d.diff = rtc.diff
                         /\ rtc.ctrl = {} => d.reg = rtc.reg
                         /\ rtc' = [calendar_stlobe(d, host) EXCEPT !.ctrl = {}]
  BY <1>1, <1>3, <1>4, StrobeIs
<1> DEFINE g == get_calendar_work(d, host)
           r == calendar_stlobe(d, host)
           W(i) == Serial(Digits(localtime(host + d.diff)), i)
<1>6. g \in Wired /\ g.diff = d.diff /\ \A k \in 4..51 : g.reg[k] = W(k - 4)
  BY <1>4, CopyIs
<1>7. /\ r \in Wired /\ r.diff = d.diff
      /\ \A k \in 0..51 : k + Off' \in 0..47 => r.reg[k] = W(k + Off')
  <2>1. CASE job.wide
    <3>1. Digit(d.reg, 12) = 3
      <4>1. \A i \in 0..3 : d.reg[48 + i] = Bit4(3, i)
        <5> TAKE i \in 0..3
        <5>1. Sent(0, 4) /\ i \in 0..(4 - 1) /\ 52 - 4 + i = 48 + i /\ 0 + i = i
          BY <2>1 DEF ClockInv, Reading
        <5>2. AccessAt(job, i).v = Bit4(3, i)
          BY <1>4, <2>1, ReadAccess DEF Send
        <5>3. d.reg = rtc.reg
          BY <1>5, <2>1, ReadKeeps
        <5> QED BY <5>1, <5>2, <5>3 DEF Sent
      <4> QED BY <4>1, CommandIs
    <3>2. d.cmd = 7
      BY <1>2, <1>5, <2>1
    <3>3. r = g
      <4>1. d.cmd # 1 /\ d.cmd # 2 /\ d.cmd # 3 /\ Digit(d.reg, 12) # 1 /\ Digit(d.reg, 12) # 2
        BY <3>1, <3>2
      <4> QED BY <3>1, <3>2, <4>1, Zenon DEF calendar_stlobe
    <3> HIDE DEF r, g, W
    <3>4. \A k \in 0..51 : k + Off' \in 0..47 => k \in 4..51 /\ k + Off' = k - 4
      BY <1>4, <2>1
    <3> QED BY <1>6, <3>3, <3>4
  <2>2. CASE ~job.wide
    <3>1. d.cmd = 3
      BY <1>2, <1>5, <2>2
    <3>2. r = calendar_shift_clock(g, 4)
      BY <3>1 DEF calendar_stlobe
    <3> HIDE DEF r, g, W
    <3>3. r \in Wired /\ r.diff = g.diff /\ \A k \in 0..47 : r.reg[k] = g.reg[k + 4]
      <4>1. 4 \in 1..51 /\ 51 - 4 = 47
        OBVIOUS
      <4>2. \A k \in 0..(51 - 4) : calendar_shift_clock(g, 4).reg[k] = g.reg[k + 4]
        BY <1>6, <4>1, ShiftBy
      <4>3. calendar_shift_clock(g, 4) \in Wired /\ calendar_shift_clock(g, 4).diff = g.diff
        BY <1>6, <4>1, ShiftBy
      <4> QED BY <3>2, <4>1, <4>2, <4>3
    <3>4. \A k \in 0..51 : k + Off' \in 0..47 =>
            k \in 0..47 /\ k + 4 \in 4..51 /\ (k + 4) - 4 = k + Off'
      BY <1>4, <2>2
    <3> QED BY <1>6, <3>3, <3>4
  <2> QED BY <2>1, <2>2
<1>8. \A i : Wanted(i)' = W(i)
  <2>1. told'.date + (readAt' - told'.at) = host + d.diff
    BY <1>4, <1>5
  <2> QED BY <2>1 DEF Wanted, Shown
<1> HIDE DEF r, g, W
<1>9. /\ rtc' \in Chips /\ rtc'.ctrl = {} /\ rtc'.diff = rtc.diff
      /\ \A k \in 0..51 : k + Off' \in 0..47 => rtc'.reg[k] = W(k + Off')
  <2>1. rtc' = [r EXCEPT !.ctrl = {}]
    BY <1>5 DEF r
  <2> QED BY <1>5, <1>7, <2>1, Lowered
<1>10. Clock'
  BY <1>9, ReadKeeps
<1>11. Reading'
  <2>1. job'.wide => done' = 5
    BY <1>4
  <2>2. Sent(5, done - 5)' <=> \A m \in 0..((done' - 5) - 1) : rtc'.reg[52 - (done' - 5) + m] = AccessAt(job', 5 + m).v
    BY DEF Sent
  <2>3. job'.wide => Sent(5, done - 5)' /\ ~(done' \in 0..4)
    <3>1. job'.wide => 0..((done' - 5) - 1) = {}
      BY <2>1
    <3> QED BY <2>1, <2>2, <3>1
  <2>4. /\ \A k \in 0..Top52 : k + Off' \in 0..47 => rtc'.reg[k] = Wanted(k + Off)'
        /\ ~(Off' \in 1..48)
    BY <1>4, <1>8, <1>9 DEF Top52
  <2>5. taken' \in Seq({0, 1}) /\ Len(taken') = 0 /\ Off' < 1
    <3>1. Off < 1
      BY ReadKeeps
    <3> QED BY <1>3, <1>4, <3>1 DEF ClockInv, Reading
  <2>6. (\A i \in 1..Len(taken) : taken[i] = Wanted(i - 1))'
    <3>1. 1..Len(taken') = {}
      BY <2>5
    <3> QED BY <3>1
  <2> HIDE DEF Off
  <2> QED BY <2>3, <2>4, <2>5, <2>6 DEF Reading
<1> QED BY <1>10, <1>11, ReadKeeps DEF ClockInv

\* An access that shifts once the time is in the register.
LEMMA ReadDown ==
  ASSUME ClockInv, Access, job.kind = "read", done >= (IF job.wide THEN 9 ELSE 1),
         NEW c, ShiftedOne(c, rtc'), c.reg = rtc.reg, c.diff = rtc.diff,
         rtc' \in Chips, rtc'.ctrl = {},
         taken' = (IF Off = 0 THEN taken ELSE Append(taken, rtc.cdo))
  PROVE  ClockInv'
<1>1. job' = job /\ done' = done + 1 /\ told' = told /\ readAt' = readAt
      /\ rtc \in Chips /\ job \in JobTypes /\ Off \in 0..48 /\ Off' = Off + 1
      /\ done \in Nat /\ done >= (IF job.wide THEN 5 ELSE 1)
  <2>1. /\ job' = job /\ done' = done + 1 /\ told' = told
        /\ readAt' = (IF done = (IF job.wide THEN 4 ELSE 0) THEN host ELSE readAt)
        /\ rtc \in Chips /\ job \in JobTypes /\ done \in Nat
        /\ LastAccess(job) = (IF job.wide THEN 57 ELSE 41) /\ done <= LastAccess(job)
        /\ Off = done - (IF job.wide THEN 9 ELSE 1) /\ Off' = Off + 1
    BY ReadKeeps
  <2> HIDE DEF Off
  <2>2. Off \in 0..48 /\ done # (IF job.wide THEN 4 ELSE 0)
        /\ done >= (IF job.wide THEN 5 ELSE 1)
    <3>1. CASE job.wide
      <4>1. LastAccess(job) = 57 /\ Off = done - 9 /\ done >= 9
        BY <2>1, <3>1
      <4> QED BY <2>1, <3>1, <4>1
    <3>2. CASE ~job.wide
      <4>1. LastAccess(job) = 41 /\ Off = done - 1 /\ done >= 1
        BY <2>1, <3>2
      <4> QED BY <2>1, <3>2, <4>1
    <3> QED BY <3>1, <3>2
  <2> QED BY <2>1, <2>2
<1>2. Clock'
  BY ReadKeeps DEF ShiftedOne
<1>3. \A i : Wanted(i)' = Wanted(i)
  BY <1>1 DEF Wanted, Shown
<1>4. /\ \A k \in 0..Top52 : k + Off' \in 0..47 => rtc'.reg[k] = Wanted(k + Off)'
      /\ Off' \in 1..48 => rtc'.cdo = Wanted(Off - 1)'
  <2>1. \A k \in 0..Top52 : k + Off \in 0..47 => rtc.reg[k] = Wanted(k + Off)
    BY <1>1 DEF ClockInv, Reading
  <2> QED BY <1>1, <2>1, DownIs
<1>5. /\ taken \in Seq({0, 1}) /\ Len(taken) = (IF Off < 1 THEN 0 ELSE Off - 1)
      /\ \A n \in 1..Len(taken) : taken[n] = Wanted(n - 1)
      /\ Off \in 1..48 => rtc.cdo = Wanted(Off - 1)
  BY DEF ClockInv, Reading
<1>6. /\ taken' \in Seq({0, 1}) /\ Len(taken') = (IF Off' < 1 THEN 0 ELSE Off' - 1)
      /\ \A n \in 1..Len(taken') : taken'[n] = Wanted(n - 1)
  <2>1. CASE Off = 0
    BY <1>1, <1>5, <2>1
  <2>2. CASE Off # 0
    <3>1. taken' = Append(taken, rtc.cdo) /\ rtc.cdo \in {0, 1} /\ Len(taken) = Off - 1
          /\ rtc.cdo = Wanted(Off - 1) /\ Off - 1 = Len(taken)
      BY <1>1, <1>5, <2>2 DEF Chips
    <3>2. taken' \in Seq({0, 1}) /\ Len(taken') = Off
      BY <1>1, <1>5, <3>1
    <3>3. \A n \in 1..Len(taken') : taken'[n] = Wanted(n - 1)
      <4> TAKE n \in 1..Len(taken')
      <4>1. CASE n \in 1..Len(taken)
        BY <1>5, <3>1, <4>1
      <4>2. CASE n \notin 1..Len(taken)
        <5>1. n = Len(taken) + 1 /\ n - 1 = Off - 1
          BY <1>1, <3>1, <3>2, <4>2
        <5> QED BY <1>5, <3>1, <5>1
      <4> QED BY <4>1, <4>2
    <3> QED BY <1>1, <3>2, <3>3
  <2> QED BY <2>1, <2>2
<1>7. Reading'
  <2>1. (\A n \in 1..Len(taken) : taken[n] = Wanted(n - 1))'
    BY <1>3, <1>6
  <2>2. job'.wide => ~(done' \in 0..4) /\ ~(done' \in 5..9)
    BY <1>1
  <2> HIDE DEF Off
  <2> QED BY <1>4, <1>6, <2>1, <2>2 DEF Reading
<1> QED BY <1>2, <1>7, ReadKeeps DEF ClockInv

\* The access that takes a bit, or that has the first one put out.
LEMMA ReadDownStep ==
  ASSUME ClockInv, Access, job.kind = "read", done >= (IF job.wide THEN 9 ELSE 1)
  PROVE  ClockInv'
<1>1. /\ rtc \in Chips /\ job \in JobTypes /\ done \in Nat /\ rtc.ctrl = {}
      /\ LastAccess(job) = (IF job.wide THEN 57 ELSE 41) /\ done <= LastAccess(job)
      /\ Off = done - (IF job.wide THEN 9 ELSE 1)
  BY ReadKeeps
<1>2. CASE Off = 0
  <2> DEFINE cmd == IF job.wide THEN 7 ELSE 1
  <2>1. done = (IF job.wide THEN 9 ELSE 1)
    BY <1>1, <1>2
  <2>2. AccessAt(job, done) = Strobe(cmd) /\ cmd \in 0..7
    BY <1>1, <2>1, ReadAccess
  <2>3. cmd = (IF job.wide THEN 7 ELSE 1)
    OBVIOUS
  <2> HIDE DEF cmd
  <2>4. rtc' = Pulse(OutCommon(rtc, cmd, 0), "stb", host) /\ taken' = taken
    BY <2>2 DEF Access, Strobe
  <2>5. PICK d \in Wired : /\ d.cmd = cmd /\ d.diff = rtc.diff
                           /\ rtc.ctrl = {} => d.reg = rtc.reg
                           /\ rtc' = [calendar_stlobe(d, host) EXCEPT !.ctrl = {}]
    BY <1>1, <2>2, <2>4, StrobeIs
  <2> DEFINE r == calendar_shift_clock(d, 1)
  <2>6. calendar_stlobe(d, host) = r
    <3>1. CASE job.wide
      <4>1. Digit(d.reg, 12) = 1
        <5>1. \A i \in 0..3 : d.reg[48 + i] = Bit4(1, i)
          <6> TAKE i \in 0..3
          <6>1. Sent(5, done - 5) /\ done - 5 = 4
            BY <2>1, <3>1 DEF ClockInv, Reading
          <6>2. i \in 0..(4 - 1) /\ 52 - 4 + i = 48 + i
            OBVIOUS
          <6>3. AccessAt(job, 5 + i).v = Bit4(1, i)
            <7>1. 5 + i \in 5..8 /\ (5 + i) - 5 = i
              OBVIOUS
            <7> QED BY <1>1, <3>1, <7>1, ReadAccess DEF Send
          <6>4. rtc.reg[52 - 4 + i] = AccessAt(job, 5 + i).v
            BY <6>1, <6>2 DEF Sent
          <6> QED BY <1>1, <2>5, <6>2, <6>3, <6>4
        <5> QED BY <5>1, CommandIs
      <4>2. d.cmd = 7 /\ d.cmd # 1 /\ d.cmd # 2 /\ d.cmd # 3
        BY <2>3, <2>5, <3>1
      <4> QED BY <4>1, <4>2, Zenon DEF calendar_stlobe
    <3>2. CASE ~job.wide
      <4>1. d.cmd = 1
        BY <2>3, <2>5, <3>2
      <4> QED BY <4>1 DEF calendar_stlobe
    <3> QED BY <3>1, <3>2
  <2>7. ShiftedOne(d, r) /\ r \in Wired
    BY ShiftIs DEF Wired
  <2>8. rtc' = [r EXCEPT !.ctrl = {}]
    BY <2>5, <2>6
  <2> HIDE DEF r
  <2>9. rtc' \in Chips /\ rtc'.ctrl = {}
    BY <2>7, <2>8, Lowered
  <2>10. ShiftedOne(d, rtc')
    BY <2>7, <2>8 DEF ShiftedOne, Wired
  <2>11. d.reg = rtc.reg
    BY <1>1, <2>5
  <2> QED BY <1>2, <2>4, <2>5, <2>9, <2>10, <2>11, ReadDown
<1>3. CASE Off # 0
  <2>1. AccessAt(job, done) = Take
    <3>1. done >= (IF job.wide THEN 10 ELSE 2)
      BY <1>1, <1>3
    <3> HIDE DEF Off
    <3> QED BY <1>1, <3>1, ReadAccess
  <2>2. rtc' = Pulse(rtc, "clk", host) /\ taken' = Append(taken, rtc.cdo)
    BY <2>1 DEF Access, Take
  <2>3. ShiftedOne(rtc, rtc') /\ rtc' \in Chips /\ rtc'.ctrl = {}
    BY <1>1, <2>2, PulseClock
  <2> QED BY <1>3, <2>2, <2>3, ReadDown
<1> QED BY <1>2, <1>3

LEMMA AccessClock ==
  ASSUME ClockInv, Access
  PROVE  ClockInv'
<1>1. job \in JobTypes /\ done \in Nat /\ done <= LastAccess(job)
  BY DEF ClockInv, Clock, JobTypes, Access
<1>2. CASE job.kind = "set"
  <2>1. LastAccess(job) \in Int
    BY <1>1, LastIs
  <2> QED BY <1>1, <1>2, <2>1, SetSendStep, SetLastStep
<1>3. CASE job.kind = "read"
  <2>1. \/ job.wide /\ done \in (0..3) \cup (5..8)
        \/ done = (IF job.wide THEN 4 ELSE 0)
        \/ done >= (IF job.wide THEN 9 ELSE 1)
    BY <1>1
  <2> QED BY <1>3, <2>1, ReadSendStep, ReadCopyStep, ReadDownStep
<1>4. CASE job.kind = "none"
  BY <1>1, <1>4, LastIs
<1> QED BY <1>1, <1>2, <1>3, <1>4 DEF JobTypes

LEMMA DatesAreInt == Dates \subseteq Int /\ HostStart \in Int
BY CalendarAssumption

\* A job begins.
LEMMA StartJobClock ==
  ASSUME ClockInv, StartJob
  PROVE  ClockInv'
<1>1. /\ job' \in Jobs /\ done' = 0 /\ taken' = <<>> /\ rtc' = rtc /\ host' = host
      /\ told' = told /\ readAt' = readAt
  BY DEF StartJob
<1>2. job' \in JobTypes /\ job'.kind # "none" /\ (job'.kind = "set" => job'.date \in Dates)
  BY <1>1, DatesAreInt DEF Jobs, JobTypes
<1>3. LastAccess(job') \in -1..57 /\ 0 \in 0..(LastAccess(job') + 1)
  BY <1>2, LastIs
<1>4. Clock'
  BY <1>1, <1>2, <1>3 DEF ClockInv, Clock, JobTypes
<1>5. Setting'
  BY <1>1 DEF Setting, Sent
<1>6. Off' < 1 /\ (Off' \in 1..48 <=> FALSE)
  BY <1>1 DEF Off
<1>7. Reading'
  <2>1. Sent(0, done)'
    BY <1>1 DEF Sent
  <2>2. taken' \in Seq({0, 1}) /\ Len(taken') = 0 /\ 1..Len(taken') = {}
    BY <1>1
  <2>3. ~(done' \in 5..9) /\ ~(done' >= 5) /\ ~(done' >= 1)
    BY <1>1
  <2> HIDE DEF Off
  <2> QED BY <1>6, <2>1, <2>2, <2>3 DEF Reading
<1> QED BY <1>4, <1>5, <1>7 DEF ClockInv

\* A second passes: the bits on their way are those of the moment of the copy.
LEMMA TickClock ==
  ASSUME ClockInv, UNCHANGED <<rtc, job, done, taken, told, readAt>>, host' \in Int
  PROVE  ClockInv'
<1>1. UNCHANGED <<rtc, job, done, taken, told, readAt>> /\ host' \in Int
  OBVIOUS
<1>2. Clock'
  BY <1>1 DEF ClockInv, Clock
<1>3. Setting'
  BY <1>1 DEF ClockInv, Setting, Sent
<1>4. Reading'
  <2>1. Off' = Off /\ (\A i : Wanted(i)' = Wanted(i))
    BY <1>1 DEF Off, Wanted, Shown
  <2>2. \A m, n : Sent(m, n)' <=> Sent(m, n)
    BY <1>1 DEF Sent
  <2>3. Reading
    BY DEF ClockInv
  <2> QED BY <1>1, <2>1, <2>2, <2>3 DEF Reading
<1> QED BY <1>2, <1>3, <1>4 DEF ClockInv

\* A chip after a reset, whatever port 10H was left with.
LEMMA ResetIs ==
  ASSUME NEW reg, NEW cdo, NEW diff, NEW cmd \in 0..7, NEW bit \in {0, 1}, NEW ctrl
  PROVE  LET r == calendar_init([reg |-> reg, cdo |-> cdo, diff |-> diff, cmd |-> cmd,
                                 bit |-> bit, ctrl |-> ctrl])
         IN  r \in Chips /\ r.diff = 0
<1> DEFINE zero == [i \in 0..Top52 |-> 0]
           c == [reg |-> reg, cdo |-> cdo, diff |-> diff, cmd |-> cmd, bit |-> bit, ctrl |-> ctrl]
<1>1. zero \in [0..Top52 -> {0, 1}]
  OBVIOUS
<1>2. calendar_init(c) = [c EXCEPT !.reg = zero, !.cdo = 0, !.diff = 0, !.ctrl = {"stb", "clk"}]
  BY DEF calendar_init
<1> HIDE DEF zero
<1>3. calendar_init(c) = [reg |-> zero, cdo |-> 0, diff |-> 0, cmd |-> cmd, bit |-> bit,
                          ctrl |-> {"stb", "clk"}]
  BY <1>2
<1> QED BY <1>1, <1>3 DEF Chips

\* No job is under way.
LEMMA IdleClock ==
  ASSUME rtc \in Chips, rtc.diff = told.date - told.at, host \in Int, readAt \in Int,
         told.date \in Int, told.at \in Int, job \in JobTypes, job.kind = "none", done = 0
  PROVE  ClockInv
<1>1. 0 \in 0..(LastAccess(job) + 1)
  BY LastIs
<1>2. Clock
  BY <1>1 DEF Clock, JobTypes
<1> QED BY <1>2 DEF ClockInv, Setting, Reading

LEMMA CalendarResetClock ==
  ASSUME ClockInv, CalendarReset
  PROVE  ClockInv'
<1>1. /\ rtc' = calendar_init(rtc) /\ job' = [job EXCEPT !.kind = "none"] /\ done' = 0
      /\ told' = [date |-> host, at |-> host] /\ host' = host /\ readAt' = readAt
  BY DEF CalendarReset
<1>2. rtc \in Chips /\ host \in Int /\ readAt \in Int /\ job \in JobTypes
  BY DEF ClockInv, Clock, JobTypes
<1>3. rtc' \in Chips /\ rtc'.diff = 0
  <2>1. /\ rtc = [reg |-> rtc.reg, cdo |-> rtc.cdo, diff |-> rtc.diff, cmd |-> rtc.cmd,
                  bit |-> rtc.bit, ctrl |-> rtc.ctrl]
        /\ rtc.cmd \in 0..7 /\ rtc.bit \in {0, 1}
    BY <1>2 DEF Chips
  <2> QED BY <1>1, <2>1, ResetIs
<1>4. told'.date \in Int /\ told'.at \in Int /\ told'.date - told'.at = 0
  BY <1>1, <1>2
<1>5. job' \in JobTypes /\ job'.kind = "none"
  BY <1>1, <1>2 DEF JobTypes
<1>6. Clock'
  <2>1. 0 \in 0..(LastAccess(job') + 1)
    BY <1>5, LastIs
  <2> QED BY <1>1, <1>2, <1>3, <1>4, <1>5, <2>1 DEF Clock, JobTypes
<1> QED BY <1>5, <1>6 DEF ClockInv, Setting, Reading

LEMMA InitClock ==
  ASSUME CalendarInit
  PROVE  ClockInv
<1> DEFINE c == [reg |-> <<>>, cdo |-> 0, diff |-> 0, cmd |-> 0, bit |-> 0, ctrl |-> {}]
<1>1. rtc = calendar_init(c) /\ host = HostStart /\ readAt = HostStart /\ done = 0
      /\ told = [date |-> HostStart, at |-> HostStart]
      /\ job = [kind |-> "none", wide |-> FALSE, date |-> HostStart]
  BY DEF CalendarInit
<1>2. calendar_init(c) \in Chips /\ calendar_init(c).diff = 0
  BY ResetIs
<1>3. job \in JobTypes /\ job.kind = "none"
  BY <1>1, DatesAreInt DEF JobTypes
<1> QED BY <1>1, <1>2, <1>3, DatesAreInt, IdleClock

\* A date read whole is the one wanted.
LEMMA ClockIsKept ==
  ASSUME ClockInv
  PROVE  DateKept
<1> SUFFICES ASSUME job.kind = "read", done > LastAccess(job)
             PROVE  taken = [i \in 1..Moves(job) |-> Wanted(i - 1)]
  BY DEF DateKept, Wanted
<1>1. /\ job \in JobTypes /\ done \in 0..(LastAccess(job) + 1)
      /\ LastAccess(job) = (IF job.wide THEN 57 ELSE 41)
      /\ Moves(job) = (IF job.wide THEN 48 ELSE 40)
  BY LastIs DEF ClockInv, Clock, JobTypes
<1>2. Off = Moves(job) + 1 /\ Moves(job) \in {40, 48}
  BY <1>1 DEF Off
<1>3. /\ taken \in Seq({0, 1}) /\ Len(taken) = Moves(job)
      /\ \A n \in 1..Len(taken) : taken[n] = Wanted(n - 1)
  BY <1>2 DEF ClockInv, Reading
<1> QED BY <1>3

\* Every step of the machine: only a program of the clock, and a reset, touch it.
LEMMA NextClock ==
  ASSUME ClockInv, [Next]_vars
  PROVE  ClockInv'
<1>1. ASSUME UNCHANGED calendarVars PROVE ClockInv'
  <2>1. host' \in Int /\ UNCHANGED <<rtc, job, done, taken, told, readAt>>
    BY <1>1 DEF calendarVars, ClockInv, Clock
  <2> QED BY <2>1, TickClock
<1>2. CASE CalendarReset
  BY <1>2, CalendarResetClock
<1>3. CASE ClockPorts
  <2>1. CASE StartJob
    BY <2>1, StartJobClock
  <2>2. CASE Access
    BY <2>2, AccessClock
  <2>3. CASE Tick
    <3>1. host' \in Int /\ UNCHANGED <<rtc, job, done, taken, told, readAt>>
      BY <2>3 DEF Tick, ClockInv, Clock
    <3> QED BY <3>1, TickClock
  <2> QED BY <1>3, <2>1, <2>2, <2>3 DEF ClockPorts
<1>4. CASE MapPorts \/ VramPorts \/ ScreenPorts \/ CrtcPorts \/ StatePorts \/ Halted \/ Frame
  <2>1. UNCHANGED calendarVars
    BY <1>4 DEF MapPorts, VramPorts, ScreenPorts, CrtcPorts, StatePorts, Halted, Frame, NoClock,
                calendarVars
  <2> QED BY <1>1, <2>1
<1>5. CASE User
  <2>1. CalendarReset \/ UNCHANGED calendarVars
    BY <1>5 DEF User, resetMachine, NoClock
  <2> QED BY <1>1, <1>2, <2>1
<1>6. CASE StateCalls
  <2>1. CalendarReset \/ UNCHANGED calendarVars
    BY <1>6 DEF StateCalls, quasi88_reset, resetMachine, NoClock
  <2> QED BY <1>1, <1>2, <2>1
<1>7. CASE UNCHANGED vars
  <2>1. UNCHANGED calendarVars
    BY <1>7 DEF vars
  <2> QED BY <1>1, <2>1
<1> QED BY <1>3, <1>4, <1>5, <1>6, <1>7 DEF Next

\* A program that sets the date by either set of commands and reads it by
\* either (ports 10H and 40H, pc88main.c) reads the date that was set and the
\* seconds since: for every date, however the host's clock ticks between two
\* accesses and whenever the machine is reset.
THEOREM DateKeptHolds == Spec => []DateKept
<1>1. MachineInit => ClockInv
  BY InitClock DEF MachineInit
<1>2. ClockInv /\ [Next]_vars => ClockInv'
  BY NextClock
<1>3. ClockInv => DateKept
  BY ClockIsKept
<1> QED BY <1>1, <1>2, <1>3, PTL DEF Spec

=============================================================================
