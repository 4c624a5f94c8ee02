------------------------------- MODULE Memory -------------------------------
(***************************************************************************)
(* The memory of the main CPU (pc88main.c): the ports that choose what the *)
(* Z80 sees in each part of its 64 Kbytes, the pointers the emulator keeps *)
(* so as not to decode them at every access, the window, the banks of      *)
(* video RAM and the logic unit (ALU) that stands before them.             *)
(*                                                                         *)
(* An address is its number of 256-byte page.  A port of bits is the set   *)
(* of its bits that are up.  What an access finds is a pair <<memory,      *)
(* page>>; `OutOfArray' is a page past the end of the emulator's array.    *)
(* Video RAM has one byte of one dot here, a bit in each of three planes.  *)
(***************************************************************************)
EXTENDS Integers, FiniteSets, TLC

CONSTANTS
  UseExtram,     \* the -extram option: banks of 128 KBytes
  LinearExt,     \* linear_ext_ram
  UseJisho,      \* the dictionary ROM is there
  HighModes,     \* what a reset may set high_mode to
  ExtBytes       \* the bytes a program sends to port E3H

ASSUME MemoryAssumption ==
  /\ UseExtram \in 0..64 /\ LinearExt \in BOOLEAN /\ UseJisho \in BOOLEAN
  /\ LinearExt \/ UseExtram \in (0..4) \cup {8, 9, 10, 16}
  /\ HighModes \subseteq BOOLEAN /\ HighModes # {}
  /\ ExtBytes \subseteq 0..255

MAIN == 3        \* MEMORY_BANK_MAIN; 0, 1 and 2 are the planes
Planes == 0..2

VARIABLES
  high_mode,
  io,            \* the registers behind the ports
  map,           \* read_mem_*, write_mem_*, vram_access_way
  main_vram, ALU_buf, ALU_comp

memoryVars == <<high_mode, io, map, main_vram, ALU_buf, ALU_comp>>

\* Pages: where each region starts.
P6000 == 96
P8000 == 128
P8400 == 132
PC000 == 192
PF000 == 240
Top == 256

Ram(p) == <<"main_ram", p>>
High(p) == <<"high_ram", p - PF000>>

(***************************************************************************)
(* The four mappings.  `low' serves 0000H-7FFFH, `win' 8000H-83FFH, `top'  *)
(* C000H-FFFFH, `way' tells whether C000H is video RAM.                    *)
(***************************************************************************)

\* A memory, and its bank where it has several.
Whole(memory) == <<memory, 0>>

Bank(r) == IF r.ext_ram_bank < UseExtram * 4
             THEN <<"ext_ram", r.ext_ram_bank>> ELSE Whole("dummy")

Rom(r) ==
  IF "64RAM" \in r.grph_ctrl THEN [r0 |-> Whole("main_ram"), r6 |-> Whole("main_ram"), fast |-> FALSE]
  ELSE IF "N" \in r.grph_ctrl THEN [r0 |-> Whole("rom_n"), r6 |-> Whole("rom_n"), fast |-> FALSE]
  ELSE [r0 |-> Whole("rom"), r6 |-> IF r.ext_rom_not THEN Whole("rom") ELSE <<"rom_ext", r.ebank>>,
        fast |-> r.ext_rom_not]

main_memory_mapping_0000_7fff(r) ==
  LET out == "W" \in r.ext_ram_ctrl
      rd  == "R" \in r.ext_ram_ctrl
      rom == Rom(r)
  IN  [r0 |-> IF rd THEN Bank(r) ELSE rom.r0,
       r6 |-> IF rd THEN Bank(r) ELSE rom.r6,
       w0 |-> IF out THEN Bank(r) ELSE Whole("main_ram"),
       highspeed_n88rom |-> ~rd /\ rom.fast]

\* `base' is the page of the array the pointer shows, or -1: no pointer.
main_memory_mapping_8000_83ff(r, hi) ==
  IF r.grph_ctrl \cap {"64RAM", "N"} # {} THEN [mem |-> "main_ram", base |-> P8000]
  ELSE IF ~hi THEN [mem |-> "main_ram", base |-> r.window_offset]
  ELSE IF r.window_offset <= PF000 - 4
    THEN [mem |-> "main_ram", base |-> r.window_offset]
  ELSE IF r.window_offset \in PF000..(Top - 4)
    THEN [mem |-> "high_ram", base |-> r.window_offset - PF000]
  ELSE [mem |-> "split", base |-> -1]

main_memory_mapping_c000_ffff(r, hi) ==
  LET high == hi /\ "TEXT_MAIN" \in r.misc_ctrl
      jisho == ~r.jisho_not
  IN  [rc |-> IF jisho THEN <<"jisho", r.jisho_bank>> ELSE Whole("main_ram"),
       rf |-> IF jisho THEN <<"jisho", r.jisho_bank>>
              ELSE Whole(IF high THEN "high_ram" ELSE "main_ram"),
       wf |-> Whole(IF high THEN "high_ram" ELSE "main_ram"),
       mem_wait_highram |-> high]

\* In the extended mode the bank goes back to main RAM.
BankAfter(r) == IF "EVRAM" \in r.misc_ctrl THEN MAIN ELSE r.memory_bank

main_memory_vram_mapping(r) ==
  IF "EVRAM" \in r.misc_ctrl
    THEN IF r.vaccess THEN "ALU" ELSE "NOT"
    ELSE IF r.memory_bank = MAIN THEN "NOT" ELSE "BANK"

\* All of them, as pc88main_init makes them.
Mapping(r, hi) ==
  [low |-> main_memory_mapping_0000_7fff(r),
   win |-> main_memory_mapping_8000_83ff(r, hi),
   top |-> main_memory_mapping_c000_ffff(r, hi),
   way |-> main_memory_vram_mapping(r)]

set_ALU_comp(r) == [i \in Planes |-> IF i \in r.aluData THEN 0 ELSE 1]

ResetIo ==
  [grph_ctrl |-> {"200", "COLOR"}, misc_ctrl |-> {"TEXT_MAIN"}, ebank |-> 0,
   vaccess |-> FALSE, aluData |-> {}, aluMode |-> "op", ALU1_ctrl |-> [i \in Planes |-> "none"],
   memory_bank |-> MAIN, window_offset |-> 0, ext_rom_not |-> TRUE,
   ext_ram_ctrl |-> {}, ext_ram_bank |-> 0, jisho_not |-> TRUE,
   jisho_bank |-> 0]

MemoryInit ==
  /\ high_mode \in HighModes
  /\ io = ResetIo
  /\ map = Mapping(ResetIo, high_mode)
  /\ main_vram = [i \in Planes |-> 0]
  /\ ALU_buf = [i \in Planes |-> 0]
  /\ ALU_comp = [i \in Planes |-> 0]

\* pc88main_init(INIT_RESET): the registers and the maps, not the ALU's buffers.
MemoryReset(hi) ==
  /\ high_mode' = hi
  /\ io' = ResetIo
  /\ map' = Mapping(ResetIo, hi)
  /\ UNCHANGED <<main_vram, ALU_buf, ALU_comp>>

(***************************************************************************)
(* Ports that change what is mapped.                                       *)
(***************************************************************************)

\* OUT 31H.
OutGrph(bits) ==
  /\ io' = [io EXCEPT !.grph_ctrl = bits]
  /\ map' = [map EXCEPT !.low = main_memory_mapping_0000_7fff(io'),
                        !.win = main_memory_mapping_8000_83ff(io', high_mode)]
  /\ UNCHANGED <<high_mode, main_vram, ALU_buf, ALU_comp>>

\* Mutant: the extension ROM's bank is latched, not mapped.
OutMiscNotMapped(bits, bank) ==
  LET r == [io EXCEPT !.misc_ctrl = bits, !.ebank = bank] IN
  /\ io' = [r EXCEPT !.memory_bank = BankAfter(r)]
  /\ map' = [map EXCEPT !.top = main_memory_mapping_c000_ffff(r, high_mode),
                        !.way = main_memory_vram_mapping(r)]
  /\ UNCHANGED <<high_mode, main_vram, ALU_buf, ALU_comp>>

\* OUT 32H.
OutMisc(bits, bank) ==
  LET r == [io EXCEPT !.misc_ctrl = bits, !.ebank = bank] IN
  /\ io' = [r EXCEPT !.memory_bank = BankAfter(r)]
  /\ map' = [map EXCEPT !.low = main_memory_mapping_0000_7fff(r),
                        !.top = main_memory_mapping_c000_ffff(r, high_mode),
                        !.way = main_memory_vram_mapping(r)]
  /\ UNCHANGED <<high_mode, main_vram, ALU_buf, ALU_comp>>

\* OUT 34H: an operation for each plane.
OutAlu1(op) ==
  /\ io' = [io EXCEPT !.ALU1_ctrl = op]
  /\ UNCHANGED <<high_mode, map, main_vram, ALU_buf, ALU_comp>>

\* OUT 35H: choosing the ALU leaves the bank at main RAM, whatever the mode.
OutAlu2(data, mode, acc) ==
  LET r == [io EXCEPT !.aluData = data, !.aluMode = mode, !.vaccess = acc,
                      !.memory_bank = IF acc THEN MAIN ELSE @]
  IN  /\ io' = [r EXCEPT !.memory_bank = BankAfter(r)]
      /\ ALU_comp' = set_ALU_comp(r)
      /\ map' = [map EXCEPT !.way = main_memory_vram_mapping(r)]
      /\ UNCHANGED <<high_mode, main_vram, ALU_buf>>

\* OUT 5CH-5FH.
OutBank(b) ==
  LET r == [io EXCEPT !.memory_bank = b] IN
  /\ io' = [r EXCEPT !.memory_bank = BankAfter(r)]
  /\ map' = [map EXCEPT !.way = main_memory_vram_mapping(r)]
  /\ UNCHANGED <<high_mode, main_vram, ALU_buf, ALU_comp>>

\* OUT 70H, and OUT 78H, which adds a page to a 16-bit register.
OutWindow(w) ==
  /\ io' = [io EXCEPT !.window_offset = w]
  /\ map' = [map EXCEPT !.win = main_memory_mapping_8000_83ff(io', high_mode)]
  /\ UNCHANGED <<high_mode, main_vram, ALU_buf, ALU_comp>>

NextWindow == (io.window_offset + 1) % Top

\* OUT 71H.
OutExtRom(not) ==
  /\ io' = [io EXCEPT !.ext_rom_not = not]
  /\ map' = [map EXCEPT !.low = main_memory_mapping_0000_7fff(io')]
  /\ UNCHANGED <<high_mode, main_vram, ALU_buf, ALU_comp>>

\* OUT E2H and E3H; without extended RAM they do nothing.
OutExtCtrl(rw) ==
  /\ UseExtram > 0
  /\ io' = [io EXCEPT !.ext_ram_ctrl = rw]
  /\ map' = [map EXCEPT !.low = main_memory_mapping_0000_7fff(io')]
  /\ UNCHANGED <<high_mode, main_vram, ALU_buf, ALU_comp>>

NoBank == 255

\* The bank a byte names: each size of RAM board decodes its own bits.
\* Row(d) squeezes bits 4 and up (`keep' of them) against the low three.
Row(d, keep) == 8 * ((d \div 16) % keep) + (d % 8)
Nibble(d) == d % 16
BitOf(d, b) == (d \div b) % 2

ExtBank(d) ==
  IF LinearExt THEN d
  ELSE IF UseExtram <= 4
    THEN IF Nibble(d) < UseExtram * 4 THEN Nibble(d) ELSE NoBank
  ELSE IF UseExtram = 8
    THEN IF d \div 64 = 0 /\ BitOf(d, 8) = 0 THEN Row(d, 4) ELSE NoBank
  ELSE IF UseExtram \in 9..10
    THEN IF d \div 64 = 0 /\ BitOf(d, 8) = 1 THEN Row(d, 4)
         ELSE IF Nibble(d) < (UseExtram - 8) * 4 THEN Nibble(d) + 32
         ELSE NoBank
  ELSE IF UseExtram = 16
    THEN IF d \div 128 = 0 /\ BitOf(d, 8) = 1 THEN Row(d, 8) ELSE NoBank
  ELSE NoBank

\* What port E3H answers for a bank.
Spread(b) == 16 * (b \div 8) + (b % 8)
ExtRead(b) ==
  IF UseExtram = 0 \/ b = NoBank THEN 255
  ELSE IF LinearExt THEN IF b < UseExtram * 4 THEN b ELSE 255
  ELSE IF UseExtram <= 4 THEN 240 + b
  ELSE IF UseExtram = 8 THEN IF b < 8 THEN 240 + b ELSE Spread(b)
  ELSE IF UseExtram <= 10 THEN IF b < 32 THEN Spread(b) + 8 ELSE 240 + (b - 32)
  ELSE IF UseExtram = 16 THEN Spread(b) + 8 ELSE 255

OutExtBank(d) ==
  /\ UseExtram > 0
  /\ io' = [io EXCEPT !.ext_ram_bank = ExtBank(d)]
  /\ map' = [map EXCEPT !.low = main_memory_mapping_0000_7fff(io')]
  /\ UNCHANGED <<high_mode, main_vram, ALU_buf, ALU_comp>>

\* OUT F0H and F1H.
OutJisho(not, bank) ==
  /\ UseJisho
  /\ io' = [io EXCEPT !.jisho_not = not, !.jisho_bank = bank]
  /\ map' = [map EXCEPT !.top = main_memory_mapping_c000_ffff(io', high_mode)]
  /\ UNCHANGED <<high_mode, main_vram, ALU_buf, ALU_comp>>

(***************************************************************************)
(* Accesses, through the pointers.                                         *)
(***************************************************************************)

\* A page of the window: main_mem_read adds the offset in 16 bits when there
\* is no pointer, and runs on in the array when there is one.
WindowPage(p) ==
  LET k == p - P8000
      far == (k + io.window_offset) % Top
  IN  IF map.win.mem = "split"
        THEN IF far < PF000 THEN Ram(far) ELSE High(far)
      ELSE IF map.win.mem = "high_ram" THEN <<"high_ram", map.win.base + k>>
      ELSE IF map.win.base + k >= Top THEN <<"OutOfArray", map.win.base + k>>
      ELSE Ram(map.win.base + k)

Vram == <<"vram", map.way>>

main_mem_read(p) ==
  IF p < P6000 THEN <<map.low.r0, p>>
  ELSE IF p < P8000 THEN <<map.low.r6, p>>
  ELSE IF p < P8400 THEN WindowPage(p)
  ELSE IF p < PC000 THEN Ram(p)
  ELSE IF map.way # "NOT" THEN Vram
  ELSE IF p < PF000 THEN <<map.top.rc, p>>
  ELSE IF map.top.rf = Whole("high_ram") THEN High(p) ELSE <<map.top.rf, p>>

main_mem_write(p) ==
  IF p < P8000 THEN <<map.low.w0, p>>
  ELSE IF p < P8400 THEN WindowPage(p)
  ELSE IF p < PC000 THEN Ram(p)
  ELSE IF map.way # "NOT" THEN Vram
  ELSE IF p >= PF000 /\ map.top.wf = Whole("high_ram") THEN High(p) ELSE Ram(p)

\* vram_write, through the bank.
BankWrite(bit) ==
  /\ map.way = "BANK"
  /\ main_vram' = [main_vram EXCEPT ![io.memory_bank] = bit]
  /\ UNCHANGED <<high_mode, io, map, ALU_buf, ALU_comp>>

\* ALU_read keeps the planes it saw.
ALU_read ==
  /\ map.way = "ALU"
  /\ ALU_buf' = main_vram
  /\ UNCHANGED <<high_mode, io, map, main_vram, ALU_comp>>

ALU_write(bit) ==
  /\ map.way = "ALU"
  /\ main_vram' =
       CASE io.aluMode = "op" ->
              [i \in Planes |->
                 CASE io.ALU1_ctrl[i] = "reset" -> IF bit = 1 THEN 0 ELSE main_vram[i]
                   [] io.ALU1_ctrl[i] = "set" -> IF bit = 1 THEN 1 ELSE main_vram[i]
                   [] io.ALU1_ctrl[i] = "invert" -> (main_vram[i] + bit) % 2
                   [] OTHER -> main_vram[i]]
         [] io.aluMode = "restore" -> ALU_buf
         [] io.aluMode = "r2b" -> [main_vram EXCEPT ![0] = ALU_buf[1]]
         [] io.aluMode = "b2r" -> [main_vram EXCEPT ![1] = ALU_buf[0]]
  /\ UNCHANGED <<high_mode, io, map, ALU_buf, ALU_comp>>

=============================================================================
