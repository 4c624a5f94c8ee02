# QUASI88 on M5Stack: a verification project

m5n88Q is a port of QUASI88, an emulator of the NEC PC-8801, to the M5Stack and
its relatives (ESP32, two cores, an SD card and an LCD on one bus). This
directory holds TLA+ models of its parts, the TLC runs that check them on small
instances, and proofs, checked by TLAPS, of the results that matter most. Source
paths below are under `src/m5n88Q/src/`. The build modelled is the default one of
`platformio.ini` (`m5stack-fireLGFX`): no `USE_SOUND`, no `USE_MONITOR`, no
options on the command line (`config_init` is called with `argc` 0 and the reading of
its file is commented out). Where an option still makes a branch of modelled code
reachable in another build, the option is a constant or an initial choice of the model.

| file | what it is |
|---|---|
| `Fdc`, `FdcProofs`, `MCFdc` | the µPD765 disk controller |
| `DiskFiles`, `DiskFilesProofs`, `MCDiskFiles` | streams, drives, image names |
| `Draw`, `DeviceProofs`, `MCDraw` | the LCD thread and everyone who stops it |
| `MainLoop`, `MainLoopProofs`, `MCMainLoop` | modes, slices, pictures and polls |
| `Link`; `Pio`, `PioProofs`, `MCPio` | what the link of the two CPUs promises; the 8255s and the scheduling that implement it |
| `Intr`, `Sio`, `Sound`; `Interrupts`, `InterruptsProofs`, `MCInterrupts` | interrupt controller, serial port and tape, sound board; their composition with programs that serve them |
| `Z80`; `Cpu`, `CpuProofs`; `Undisturbed`, `MCCpu` | every instruction; the loop of the interpreter and its interrupts; the same program without them |
| `Memory`, `Crtc`, `Screen`, `Suspend`, `Calendar`; `Machine`, `MachineProofs`, `MCMachine` | memory map, text display, picture, state files, clock chip; their composition with the frames and the user |
| `Romaji`, `Keyboard`; `Inputs`, `DeviceProofs`, `MCInputs` | kana typed in letters, the key matrix; the sources of keys |
| `*.cfg` | one configuration for each run of section 3, and six of section 5 |
| `PROJECT.json` | components, runs, mutants, source map, hazards, theorems |

To check: `tlc -config Pio.cfg MCPio.tla` (section 3 names module and configuration of
each run); `tlapm PioProofs.tla` (and the other seven proof modules).

## 1. Inventory

One thread, the emulator's, runs everything but the drawing thread (core 0) and
the keyboard's host stack. So most parts interact by calls and shared globals, and
their hard behaviours are orders of calls, stale globals and half-failed
sequences; the one real race is with the LCD.

| component (source) | state and operations | what is hard | correct when | model |
|---|---|---|---|---|
| Main loop and modes (`quasi88.cpp`, `pause.c`, `emu.c`) | mode, next mode, step of the loop, event flags; mode switches, one turn, start, stop | a mode set before the loop looks; a change in the middle of a field | no request outlives its place; the mode asked for comes, after the picture | `MainLoop` |
| CPU scheduling and 8255 link (`emu.c`, `pio.c`, `z80.c`) | which CPU runs, states left, ports A, B, C of two chips | a slice that ends in the middle of a handshake, a signal read before the other side has run | no byte is lost or seen twice, neither CPU starves | `Pio`, `Link` |
| Z80 (`z80*.c`, `z80-code*.h`) | registers, states; one instruction, the loop, interrupts | EI, HALT, interrupts within repeated instructions, lengths and states in seven tables of codes | arithmetic is right, an interrupt leaves no trace | `Z80`, `Cpu` |
| Main CPU ports, memory (`pc88main.c`, `memory.c`) | bank registers, pointers made of them, ALU, clock chip, serial port | pointers cached from nine registers; a copy of the serial clock | each pointer and rate follows the registers, after any order of ports, resets, loads | `Memory`, `Sio`, `Calendar`, `Machine` |
| Sub CPU (`pc88sub.c`) | memory, FDC interrupt line | calls of `fdc_ctrl` that come late | as Fdc and Pio | `Fdc`, `Pio` |
| Disk controller (`fdc.c`) | command, phase, step, wait, counters, per-unit seeks, one ID buffer | overlapped seeks on one line; TC at any moment; disks changed; image errors | every command ends, a normal end means it, every seek is reported | `Fdc` |
| Drives, images, open files (`drive.h`, `fdc.c`, `image.c`, `fname.h`, `file-op.cpp`) | eight streams, two drives, tables of images, names | two drives on one stream, an insert that fails after the eject | no stream leaks, drive, name and protection agree | `DiskFiles` |
| LCD thread (`graph.cpp`) | three flags | test and set on two cores, nested stops, a missing restart | drawing keeps off the card, is not left stopped | `Draw` |
| Interrupt controller, timers (`intr.c`) | level, masks, requests, INT line, counters | sources masked while pending; edges between two updates | what is pending is real, what is due comes | `Intr`, `Interrupts` |
| Sound board (`soundbd.c`, `audio.c`) | timers, flags, masks, ADPCM addresses | two timers on one edge; an end noticed once | the interrupt keeps coming, the end of each replay is told | `Sound` |
| CRTC and DMAC (`crtcdmac.c`) | command phase, format, channel, attributes | formats changed piecewise | as Screen | `Crtc` |
| Screen (`screen*.c`) | picture, dirty flags, skip counters, blinking | a port that changes what is shown without a mark; frames left out | a drawn frame is what a full drawing would be; frames come | `Screen` |
| Keyboard, romaji (`keyboard.c`, `romaji.c`) | matrix, function keys, romaji automaton | keys released in another state than they were pressed in | no key sticks, letters mean their kana | `Keyboard`, `Romaji` |
| Events and menus (`event.cpp`) | auto-typed file, last USB key, kana mode | several sources in one poll | a file is typed whole | `Inputs`, and the menus' calls in `Draw`, `DiskFiles`, `Fdc` |
| State files (`suspend.c`) | a file of named blocks | failures at any block, older files, a changed board | a load gives what was saved, or a reset | `Suspend` |
| Options (`getconf.c`), status line, fonts, help, BASIC lister, snapshots, monitor, `hid_server/` | – | – | – | section 7 |

The hazards, at their lines and with the properties about them, are in `PROJECT.json`.

## 2. The models

Common conventions. A call of the single thread is one action, named after the function;
`Init` is the state after the program's start or a reset. Variables keep the source's
names. Values a program inside the emulator sends are small sets; a register of bits is
the set of bits that are up. Ghost variables are named where they are declared. Operators
ending in `Bug` are the mistakes by which the properties were tried out (`PROJECT.json`,
"mutants"); nothing else uses them.

### Fdc: the floppy disk controller

`Fdc` keeps the fields of `fdc` by name (`command`, `phase`, `step`, `wait`,
`limit`, `TC`, `counter`, `data_ptr`, `seek_stat`, `ncn`, `pcn`, `intr_unit`, ...),
the disks in the drives, `sec_buf` as the drive it is labelled with and the disk it
was read from, and `ctrl`, where the program is: the CPU runs ("out"), a call of
`fdc_ctrl` is due ("call"), or its loop is in its first or a later pass.

| code | model |
|---|---|
| `fdc_write`, `fdc_read`, `fdc_status`, `fdc_TC` | `OutData`, `InData`, `Poll`, `RaiseTC` |
| `fdc_ctrl`: elapsed time, then the do-while loop | `CtrlEnter`, then one action per pass (`Pass`; those of the E-phase are `EPhase`) |
| WAIT branch (moving heads, accepting a byte) | `WaitReceive`, `WaitIdle` |
| `c_phase` | `CPhaseHold`, `CPhaseByte`, `CPhaseLast`, `CPhaseScan`, with `TakeIntr` |
| `e_phase_seek` | `SeekPass` |
| `e_phase_read_search`, `_send`, `_recv`, `_end` | `SearchNoDisk`, `SearchFails`, `ReadIdFound`, `ReadDiagHang`, `ReadSkip`, `ReadFound`, `SendByte`, `RecvDone`, `TransferCut`, `TransferHold`, `ReadEnd*` |
| `e_phase_write*`, `fdc_write_data`, `fdc_write_id`, `e_phase_finish` | `WriteFound`, `RequestByte`, `RespondDone`, `WriteIdTrack` (with `fdc_write_id`), `WriteSector`, `WriteEndLate`, `EPhaseFinish` |
| `r_phase` | `RStart`, `RNext`, `RDone`, `RHold` |
| `disk_insert`, `disk_eject`, `drive_reset` as the controller sees them | `DiskInsert`, `DiskEject`, `Reset` |

Abstracted: times are zero, some, or for ever; `fdc.limit` counts calls; sector
contents, CRC and the comparison of C, H and N are the choice between a search that
finds a sector, finds a deleted one, and fails; the head load delay is left out.
Ghost variables: `tcSeen`, `ic` (the interrupt code of ST0), `failed`, `target`.
The SCAN commands are modelled as what they are: the code has no execution phase
for them, and the next byte is stored through the null pointer that ends the table
row. The model stops there, so `FdcLive` allows deadlock. READ DIAGNOSTIC
at a sector without data mark starts its search over for ever (`fdc.c:1359`, whose comment asks whether it hangs).

Why the bounds suffice: a controller keeps state of one command and of each unit's
seek. Two drives and one unit without a drive show every interaction of seeks; two
sectors are the first, a middle-or-last and the change between them, on both heads;
two bytes let TC come before, between and after; `r` wraps at 4 instead of 256, which
the runs never reach from 1 and 2 but through the end-of-track rules. `Menu` says when
disks may change: "idle" (between commands) for the properties that need it.

`SeekIntrPending` is checked and proved with `fdc_wait` off, which is the default. With
it on two seeks may raise one interrupt and the first command lowers the line for
both.

*Fairness* (`FdcLive`): the sub CPU keeps polling and time passes (`Poll`, `Enter`,
and again and again a call that finds the wait over and the heads arrived); a pass that
is begun is finished, since `fdc_ctrl` is a loop on one thread; and the software moves a
byte it is asked for over and over (strong fairness of `InData` and `OutData`). The last
is an assumption on the program inside the emulator, not on the code: without it a
command waits for its data for ever, as on the real machine. Nothing is assumed of TC.
`CommandEnds` excepts behaviours that stay for ever in SCAN or in the search of READ DIAGNOSTIC (`Stuck`): of every other
command it says that it ends.

### DiskFiles: the streams, the drives and the names

A call of the emulator's thread is one action (`Insert`, `InsertAll`, `SelectImage`,
`SelectBoth`, `Eject`, `EjectAll`, `KeyEmpty`, `KeyNext`, `KeyPrev`, `Reset`,
`Playback`, `KeyFileEnds`, `Stop`, and the steps of the start). The functions below it
(`osd_fopen`, `osd_fclose`, `disk_insert`, `disk_insert_A_to_B`, `disk_change_image`,
`disk_eject`, `quasi88_disk_insert`, ...) are operators from a record of the structures
(streams, drives, names, state name) to another, with the names of the code, composed
in the code's order; so a failure inside `disk_insert` leaves what the code leaves.

Run `DiskFiles` has three streams, so that a tape and a key file leave one and inserts
fail for want of a stream; a table of two images, and files with none, one, two and three; a
missing and an unwritable file. Two drives are all the program has. The run allows deadlock:
after `Stop` the program is over. That an image stays in its file's range and that closed
streams have no name is part of the proved invariant.

### Draw: the drawing thread

Two processes, one action per access to a flag. The thread tests
`needDrawUpdateFlag` and `stopDrawingFlag`, marks itself (`nowDrawingFlag`), draws,
takes the mark down and the request back, sleeps. The flags are plain globals, so the
two loads and the two stores come in either order; the calls between them
(`delay`, the LCD library) keep the compiler from caching them. The emulator's thread
works off `todo`, the list of what a call does: `FileOp` for the eleven functions that
wait, stop, use the card and restart; `OsdFopen`, which does not stop and, with no free
stream, does not restart; `Rewind`, which nests; `Snapshot`, in which `osd_file_stat`
of a missing name leaves the drawing stopped; `Menu`, with the file operations that end
by restarting the drawing under it.

The code does not keep drawing and card apart altogether: the wait can pass between the
thread's test and its mark. What it does ensure, `OnlyDecidedDrawings`, is that the one
drawing that may overlap had been decided on before the stop, and that none follows.
`StopReleased`: between calls the drawing is not left stopped, but for the one call that
found the stream table full. Under weak fairness of each thread (two cores, both tasks
run; `waitDrawing` sleeps between looks) `WaitEnds`, since only the waiting thread asks
for pictures.

What becomes of a request is two properties about `owed`, a history variable: a picture was
asked for while the thread was not between its mark and the store that takes the request
back, and no drawing has begun since. `RequestKept`: such a request is not withdrawn
(`needDrawUpdateFlag` stays up). `RequestServed`: it is drawn, by a drawing that begins after
it, whatever calls go on, unless calls stop the drawing again and again or a refused open has
left it stopped. That exception is needed: the stop flag goes up and down with every file
operation, and weak fairness lets the thread look only while it is up. A request made
*during* a drawing has no such promise: `graph.cpp:282` takes it back with the one that was
drawn, though the buffer may have been read before the new pixels came. On the screen the
change then waits for the next one. The module has no constants; the calls enumerated are all
the shapes that occur.

Not checked because the code does not ensure them: the emulator writes the buffer while it is
sent, and a menu may be drawn over after a nested file operation.

### MainLoop: modes, fields and polls

`MainLoop` follows the emulator's thread from the end of `quasi88_start` on. `pc` is
where the thread is (between two calls of `quasi88_loop`, in `emu_main`, in `z80_emu`,
back from it); the static variables of `quasi88_loop`, the modes, the event flags and
the counters of `intr.c` keep their names.

| code | model |
|---|---|
| `quasi88_loop`, step INIT (`emu_init`, `pause_init`) | `LoopInit` |
| step MAIN: `emu_main`, `pause_main`, the menu's missing function | `EmuMain`, `PauseMain`, `MenuMain`; what follows each is `AfterMain` |
| step WAIT (`wait_vsync_update`, which does not wait in this port) | `Wait` |
| `emu_main`: the call of a CPU, and the return from it | `Z80Emu`, `Ran` |
| a slice of the main CPU and `main_INT_update` | `MainSlice` = `Vsync`, `Display`, `Blank` or `Quiet` |
| a slice of the sub CPU and `sub_INT_update` | `SubCpuSlice` |
| the end of a slice in `z80_emu`, `CPU_BREAKOFF` | `SliceEnds` |
| `event_update`, `quasi88_key`, `set_mode`; reset from the system menu | `Press`, `Asked`, `Polled`, `EventUpdate`, `INTInit` |

Which CPU `z80_emu` is called for (`Pio` has the rule), and whether without limit or for one step, is left
open, and a program may break a slice off at any time (the PIO does). That allows every
schedule of `-cpu 0`, the default, and of `-cpu 1`, whatever the two CPUs say to each
other, so the invariants hold without any assumption on the programs. Abstracted: the timers of sound
and serial line only shorten a slice; the `vrtc` counter of the vertical blank, 0xffff in
the code, is 0. Left out: `-cpu 2`, which alternates the CPUs by itself; `EVENT_DEBUG`,
`EVENT_QUIT` and the modes MONITOR and QUIT, which nothing in this build raises; the
staged start and the exit list; the five polls for which `checkKeyboard` holds a key
(`Press` is what a poll sees); the frame skip inside `screen_update`.

Why the bounds suffice: an overrun of 2 is half the display period, the most the
assumption allows, so each timer may be overrun by up to the limit and meet the next one; slices of 1
to 5 states put each timer's end before, at and after a slice's; two fields per picture
tell the field with a picture from the one without; a sub CPU that hogs the emulation for
ever is one of the schedules, and it passes the limit of one field of 7 in two slices.

*Fairness*: `WF_vars(Run)` alone. `quasi88_main` calls `quasi88_loop` until it says EXIT,
and `Run` is always possible. The user owes nothing. With it `ModeTakesEffect`,
`KeysPolled` and `PictureRefreshed` hold under every schedule; `SubLoad` must not be 0
(`-subload 0`), for then nothing ends a field the sub CPU keeps.


### Link and Pio: the 8255s, and the thread the CPUs share

`Link` is the abstract specification: each CPU has one outgoing place; a byte put there is
taken by the other side, once and unchanged, before the next is put; a reset empties both.
`Pio` is `pio.c` (ports A and B with `exist`, the halves of port C with `cont_f`, mode and
bit-set bytes) together with `emu_main`'s rule for sharing the thread: with `-cpu 0` one CPU
runs until it has read port C twice, with `-cpu 1` the sub CPU runs `CPU_1_COUNT` steps after
the main CPU touched the link, with `-cpu 2` both have accounts (`main_state`,
`sub_state`) in fractions of a state, `JACKUP` of them to the state (256 in `emu.c:46`), refilled when
neither holds a whole state; a call is for the whole states of the account (the division truncates), and
the rest goes into the next grant.

| code | model |
|---|---|
| `pio_read_AB`, `pio_write_AB`, `pio_read_C`, `pio_write_C_direct`, `pio_set_mode` | the operators of the same names |
| a pass of `emu_main` | `Pass`, which fills `plan` with the calls of `z80_emu` |
| an instruction in `z80_emu`, its accounts, `CPU_BREAKOFF` | `Step(s)` with `UpdateDue`, `EmuEnds`, `Settle` |
| `main_INT_update`, `sub_INT_update` as far as they end a frame | `FrameDue`, `Rest` |
| the frame event: draw, poll; reset | `Redraw`, `quasi88_reset` |

The two programs are part of the model, since the emulator does not fix them: either both
do the disk system's handshake (one action per port access; the main CPU sends first, then they
change roles, again and again), or they are `wild` and make any access, mode bytes included.
`LinkImplemented` is the refinement, with `held` mapped to the byte between the write of the
port and its read. `CreditsBounded` speaks of wild programs too.
Bounds: two bytes tell one from the next; with `JACKUP` 2, grants of one and a half states and of one,
instructions of 1 and 2 and an interrupt of 1 state (the states of an interrupt taken after the last
update of a call are charged to the next call, as `z80.c` leaves them in `state0`), accounts are used
up exactly, overdrawn, left with a fraction that makes the next grant larger, and broken off with
something left. Frames of 4 states do not fall into step with the grants (frames of 3 do: the main CPU
would then never be broken off with a whole state left).
*Fairness*: weak fairness of `Thread`; there is one thread and it always has a step.
Left out: the debugger's steps; the PIO's block of the state file.

### Intr, Sio, Sound and Interrupts

`Intr` has the level, the masks (`enabled`), the requests (`flags`), the INT line and the
loop of `z80_emu` around them: instructions, `main_INT_update`, check, acknowledge. `Sio` is
the USART with its two sources, a tape (plain or T88: an image is a sequence of tokens, so
a byte is known by its place) and an RS-232C file; `sio_getc` with its tags, pauses and the
byte held back in `cmt_skip_data`; the copy of the clock rate (`rate`), motor and line,
the menu's insert, rewind and eject, save and load. `Sound` is the board as the CPU sees it
without `USE_SOUND`: timers A and B, flags, their masks, the level, and the ADPCM unit with its
addresses. Each is a module of actions; `Interrupts` composes them: every action of `Next` is
an instruction of a driver (five programs that set a device up and serve it as the machine's own
software does), a stray access, an update with any set of counters run out, an answer, or a call of the
user (tape, line, reset, save, load whole or cut off).

Two runs, since they ask different things: `Interrupts` lets two strays or acts happen anywhere and checks
the two invariants of the programs that wait for a byte or a timer; `Drivers` has none (`MaxActs` 0) and checks what a driver gets. The T88 tape has
every kind of tag, an empty block, a pause before a byte, and an end.

The "play" driver plays pieces one after another: it lets in the interrupt at the end, sets three
addresses, starts the piece with or without repeat, and on the interrupt turns the interrupt off,
takes the flags down (register 10H), stops a piece that repeats by a reset, and starts the next.
`ReplaysGoOn`: it is told the end of one piece after another. With three addresses all the orders
of start, stop and limit occur, and two of them have no end in the code (`ReplayLength` 0, `soundbd.c:351-378`),
which the property names: the limit between start and stop, and a start at the last address of the
memory. `NextIsHeard`: no flag of one piece is taken for the end of the next, whose start would then be
ignored. A piece that repeats announces its first end only (`sound2_notice_EOS`, `intr.c:545-556`), so the
driver acts on that; a program that waits for a later end, or takes the repeat off without a reset, waits
for ever.
*Fairness* (`Drivers`): weak for the program's next step and for update and answer (one
thread); strong for the end of a run of instructions and for each counter: a run of
instructions is bounded by `icount`, and a counter that is on only counts states.
High-speed BASIC mode asks for no updates and is left out.

### Z80 and Cpu

`Z80` has the whole instruction set as operators on a CPU record: `Step` is one pass of the
inner loop, decoded by the fields x, y, z of a code instead of one case per code, with the
flags of each macro; the states of each table; the lengths the disassembler gives
(`z80_line_disasm`). `Cpu` is `z80_emu`: outer loop, `icount`, EI and `skip_intr_chk`, HALT, the taking of an
interrupt in modes 0, 1 and 2, the break-off.

Run `Cpu` executes some 7,000 programs: arithmetic at the edges of bytes and words against integer
arithmetic (`Result` is written with numbers, the model with bits as in the code), decimal
addition and subtraction with DAA, shifts of pairs, repeated instructions with up to two
interrupts at any of their steps and calls of 30 states or without limit, and every
code behind every prefix with flags down and up. `ResultRight` compares each with its meaning,
`NoTrace` with the same program undisturbed (`Undisturbed`), `StepsAccount` with the disassembler. Not compared with a
reference: the rotates and bit operations (their effect is in the model and runs, but
only their length and states are checked), undocumented bits 3 and 5.

### Memory, Crtc, Screen, Suspend, Calendar and Machine

- `Memory`: the registers (`io`) and what the code makes of them (`map`): which memory each
  part of the 64 KB points at, and which routine an access goes through. `Mapping(io, high)` is what
  `pc88main_init` would make; each port action calls only the `main_memory_mapping_*` functions the
  code calls. Video RAM is one byte of one dot per plane; the ALU compares and writes as the code.
- `Crtc`: commands, parameter bytes, the DMA channel, and the making of text attributes for
  both formats, blinking and styles included.
- `Screen`: the dirty flags, the palette, the drawing (`screen_update` compares two frames of
  text as the code does), frame skip, and `quasi88_loop` as far as it draws. A cell on the screen is
  what it was made of: the text, the bits of the planes (`Dots`, put together in the way of the
  mode), the colours (`Rendered`).
- `Suspend`: the blocks of a file in the order of saving and of loading; which are needed (the others
  are `Optional`) and under which condition (`Present`); save cut off before a block, load failing at
  one; names and numbers. A file is a function from the names of its blocks to what they hold, since
  `read_id` looks for each name from the start; `stateload` says for each block whether it was
  reached, found, missing or cleared, by the blocks that are loaded before it (`LoadedBefore`).
  Parts that no other module has are represented by their age.
- `Calendar`: the 52-bit register behind ports 10H and 40H, a function of the position of a bit; both command
  sets, the difference to the host's clock. A program sets or reads a date in a `job` of single accesses, of which
  `done` are over; the host's seconds pass between any two.

`Machine` composes them. A behaviour is of one scene, which says what the program and the user
do: move memory, use video RAM, change the picture, change the format, set options, save and load, set and
read the clock; frames go on in all but the last. The scenes keep the product finite; steps of different
scenes meet only where the code shares state, and the scene "screen" has those ports of
the others that mark the picture. `MaxActs` bounds the steps: two ports
for the map (a mapping is a function of the registers, so a port that forgets a piece shows after one
step, and one that depends on another register after two), eight for a format (reset, five bytes, start,
twice overlapping), three for files. The screen is 2 by 2 characters, scaled
in columns, lines, blink unit and `SkipMax` (2 for 15); longer random walks of the scene "screen" found nothing more.
The ALU is told four of its 64 combinations (`AluOps`): all three planes alike, or each another operation. Extended RAM is `-extram 9` without linear addressing in the run; the theorem has every size.

*Fairness*: the loop of `quasi88_main` (`WF_step(Loop)`): it goes round whatever the program does.

Two things are not marked by the code, and `PictureFresh` says so: the palette after a reset
(`emu.c:173-174` are commented out), until the next mark of the palette, and a loaded state, until the
loop has gone through INIT (`resumed`).

### Romaji, Keyboard and Inputs

`Romaji` turns letters into kana with the four tables (of rows that behave alike, one is
kept) and presses queued keys four frames down and four up; `Meaning` is the reference: the letters read as
a whole, against the tables of kana behind the lists (`romaji-table.h:884` to the end), not against the rows. `Keyboard` is `quasi88_key` with its function keys, the matrix,
reset and mode changes; an assignment of the function keys (`Functions`) may give one a function, or
another key of the matrix, as `-kanjikey` does (`Assigned`). A poll that presses several keys is written as the
composition of its calls of `quasi88_key`, in their order. `Inputs` is `checkKeyboard`, once a frame: the serial line's characters
and escape sequences, the USB keyboard's reports, a text file that types itself (a line of options,
delays, `#` lines), five looks until a key is let go.

Eight scenes: serial with USB, USB with function keys, three of romaji (a letter of each way to go
on, to fail, and to double, and TSA), two of a file with the serial line and the USB keyboard, one of
files alone. The queue is 32 for 64. It has no test for full in the code, so `Room` says
that there is always place for what one poll can bring, `PollKeys`: three letters, one of each source,
with up to six keys each. The run keeps `Room` (added to it as an invariant it holds). `KeyPolls` 6–7 is 100 ms at 60 frames.

Nothing restrains who types; where the code fails, the property names the case. `NoStuck` has
two: `overlooked`, the key of a serial character that came in the poll in which a file typed one (`checkKeyboard`
remembers one key to let go), and `Frozen`, the kana key that was down when the romaji mode was left
(`romaji_output` is no longer called). `Converted` has one, `Misprinted`: the row TSA of MS-IME.
`Typed` has one, `Lost`: behind a first line with `#` and no number the delay is 0 (`event.cpp:2406`), and then the RETURN of
an empty line is let go and pressed in one poll. Without each of these exceptions the run finds the property violated.
*Fairness*: weak for `Poll` where a file is typed alone, and for the choice of a file; `Typed` is about such a file.

## 3. The runs

| run | module | properties | bounds |
|---|---|---|---|
| `FdcSeek` | `MCFdc` | `BusyMatchesSeek`, `IntrHasSource`, `SeekIntrPending` | 4 units, 2 drives, 2 cylinders, a host that ignores the handshake, resets and disk changes between commands |
| `FdcData` | `MCFdc` | `NormalEndNeedsTC`, `BufferCursor`, `SecBufCoherent` | 2 drives, 2 disks, one protected, image errors, 1–2 sectors of 2 bytes, multi-track, deleted data, WRITE ID of one sector (4 bytes) |
| `FdcLive` | `MCFdc` | `CommandEnds` | 1 drive, all kinds of commands, SCAN and READ DIAGNOSTIC among them, 2 sectors, `fdc_wait` on |
| `DiskFiles` | `MCDiskFiles` | `HandlesOwned`, `NamesMatch`, `StateNameFollowsDisk` | 3 streams, table of 2 images, 2 drives |
| `Draw` | `MCDraw` | `OnlyDecidedDrawings`, `StopReleased`, `RequestKept`, `WaitEnds`, `RequestServed` | none: the model is finite |
| `MainLoop` | `MCMainLoop` | `EventsConsumed`, `PictureCurrent`, `ModeTakesEffect`, `KeysPolled`, `PictureRefreshed` | VSYNC every 7 states, display 2–6, slices up to 3 and 4, overrun 2, a picture every second field |
| `Pio` | `MCPio` | `CreditsBounded`, `LinkImplemented`, `TransfersContinue` | all three `-cpu`, 2 bytes, `JACKUP` 2, grants of 3/2 and 2/2 states, costs 1–2, one reset |
| `Drivers` | `MCInterrupts` | `Loaded`, `SoundKeepsComing`, `ReplaysGoOn`, `NextIsHeard` | 2 tapes, a line of 2 bytes, 3 ADPCM addresses |
| `Interrupts` | `MCInterrupts` | `PendingIsReal`, `RateFollows` | a T88 tape, the line, a sound program, up to 2 strays or acts |
| `Cpu` | `MCCpu` | `ResultRight`, `NoTrace`, `StepsAccount` | 7,000 programs, up to 2 interrupts |
| `Machine` | `MCMachine` | `MapRight`, `PictureFresh`, `LoadGives`, `DateKept`, `FrameDrawn` | 7 scenes of 2, 3 or 8 steps, a screen of 2×2 |
| `Inputs` | `MCInputs` | `NoStuck`, `Converted`, `Typed` | 8 scenes of up to 6 events, a queue of 32, which keeps `Room` |

What each shows is its `about` in `PROJECT.json`. Every property has a mutant there: a mistake in a
definition with which the run finds the property violated. The type invariants of `Fdc`, `DiskFiles`, `Draw` and
`MainLoop` are proved, so the runs do not repeat them; `PioTypeOK` holds in run `Pio` when added to it; in
the other modules the types a result depends on are part of its inductive invariant.

## 4. What is proved

| theorem | states, for every value of the constants |
|---|---|
| `FdcProofs!TypeCorrect` | `Fdc`'s variables keep their types |
| `FdcProofs!BufferCursorHolds` | data pointer and counter add up, for every sector length |
| `FdcProofs!BusyMatchesSeekHolds`, `IntrHasSourceHolds`, `SeekIntrPendingHolds` | busy bits, interrupt line and seek states agree (the last with `fdc_wait` off) |
| `FdcProofs!NormalEndNeedsTCHolds` | a normal end of a sector read or write was given TC |
| `FdcProofs!SecBufCoherentHolds` | the ID buffer belongs to the disk in its drive, if disks change between commands |
| `FdcProofs!ParamSlotInTableHolds` | only SCAN runs past its parameter table |
| `DiskFilesProofs!TypeCorrect`, `StreamsOwned`, `NamesAreRight`, `ImagesInRange`, `ReadOnlyIsProtected`, `StateNameIsRight` | the invariants of run `DiskFiles` and three more, for any number of streams, images, files, start files |
| `DeviceProofs!DrawTypeCorrect`, `StopIsObeyed`, `StopIsReleased`, `RequestsAreKept` | the invariants of run `Draw` |
| `MainLoopProofs!TypeCorrect`, `EventsAreConsumed`, `PictureIsCurrent`, `FieldsInOrder` | the invariants of run `MainLoop`, and that the display period of a field precedes its VSYNC, for every clock that meets the assumptions |
| `PioProofs!LinkHolds` | `PioSpec => LinkImplemented`: the chips and the scheduling implement `Link` |
| `PioProofs!CreditsHold` | for every `JACKUP`, no account of `-cpu 2` is ever a whole state above a grant or owes a whole instruction and an interrupt |
| `InterruptsProofs!PendingIsRealHolds`, `RateFollowsHolds` | the two invariants of run `Interrupts`, for all tapes, programs, numbers of strays and acts |
| `CpuProofs!StepsAccountHolds` | the action property `StepsAccount` of run `Cpu` for every CPU, memory and program: an instruction that is no jump goes on behind the bytes the disassembler shows, whichever table has its code, and each takes at least 4 states |
| `CpuProofs!CpuTypeHolds` | registers and memory stay bytes, PC and SP words, whatever runs and whenever it is interrupted |
| `CpuProofs!AluRight` | result, carry, zero, overflow and sign of ADD, ADC, SUB, SBC and CP are those of signed and unsigned arithmetic, for all bytes; likewise the lemmas `AddWordRight` and `SubWordRight` for ADC HL and SBC HL and all words |
| `CpuProofs!DecimalRight`, `DecimalSubRight` | DAA behind ADC and behind SBC of two bytes of decimal digits gives their decimal sum and carry, difference and borrow |
| `MachineProofs!MapRightHolds` | the memory map follows the registers for every `-extram`, ROM, window, bank and order of ports, resets and state files |
| `MachineProofs!LoadGivesHolds` | a load gives the machine that was saved, or a reset; a whole file loads, for either board, any names, any place where a save ends or a read fails |
| `MachineProofs!PictureFreshHolds` | a drawn frame is the picture painted afresh, for every text, format, number of lines and columns, palette, frame rate and order of ports, resets and options |
| `MachineProofs!DateKeptHolds` | a program that sets the date by either command set and reads it by either reads the date it set and the seconds since, for every date of the model's calendar (1938–2037), however the host's clock ticks between two accesses |
| `DeviceProofs!NoStuckHolds` | under `[]Room`, no key is down that nobody holds, but what was `overlooked` or `Frozen`: for everything the sources may bring and in every order, all tables of the romaji mode, assignments of the function keys, text files and sizes of the queue |

*Assumptions.* The named `ASSUME`s of the modules (bytes are bytes, there is at least one drive and
stream, an instruction overruns a slice by at most half a display period, `-extram` is a size
the code accepts, a program starts with a CPU whose registers and memory are bytes, ...), all of which TLC evaluates in the runs; in three theorems the
stated hypothesis on `fdc_wait` or `Menu`; and in `NoStuckHolds` `[]Room`, that the queue of keys is not overtaken,
which the code does not test and run `Inputs` meets.

*Arguments.*
- `Fdc`. `BufferCursor` is not inductive alone: a write of the buffer needs the drive of
  the command to exist, which was tested in step 0. `Cursor` = `TypeOK` ∧ `BufferCursor` ∧
  `WriteUnit` is. `SeekInv` = `BusyMatchesSeek` ∧ `IntrHasSource` ∧ `QuietLine` (where the
  line is down: during a seek, in results of sense commands, from the second result byte on)
  ∧ `ResultCommand` (which commands have results): `c_phase` may rely on a source for the
  interrupt only because every other command lowers the line it raised. `OneSeek`: with
  `fdc_wait` off a seek ends in the call that began it and is announced in the next pass, so at
  most one is between its end and its take-over, and none while a command runs. `NormalEnd`
  carries "TC was seen" from the end of a sector to the result; `IdBuffer` ties `sec_buf` to the
  drive of a write while the bytes come in; `RowLeft` leaves a free entry in the row of every
  command but SCAN. Each step proof has one step per action.
- `DiskFiles`. `IInv` = `Good` of the structures ∧ the handles ∧ the state name. `Good` =
  types ∧ `ClosedUnnamed` ∧ `Owned` (used streams are the drives' and the handles') ∧ `Held`
  (what a drive with a stream knows of it) ∧ `Ready` (what a drive that is not empty has).
  Each function has a lemma "from `Good` to `Good`, changing only ..."; `disk_insert` breaks
  `Held` on the way (it ejects, opens, reads headers and names last), so its lemmas carry the
  half-done states explicitly. An action's proof composes the lemmas of its calls.
- `Draw`. `Guarded` extends `OnlyDecidedDrawings` to a thread that is bound to draw but has
  not marked itself; `Closing` says that what is left of a call ends by restarting the drawing
  or by a refusal, `Unreleased` that a stop outlives its call only in that case. That every call ends
  so is proved from its construction by `\o`.
- `MainLoop`. `Inv` = `ClockOK` ∧ `ThreadOK` ∧ `RestOK`. `ClockOK` keeps the slack between the
  two timers: while the display period has not begun, the VSYNC is at least the display period,
  less one overrun, further away than it. So a slice that runs past the VSYNC would have had to
  run past the display period by more than an overrun, which its bound `Icount` excludes: that is
  `FieldOrder`, and it is where the assumption on `Over` is used. `ThreadOK` says what the flags
  and the picture are at each place of the thread: outside `emu_main` the picture is current, and
  only between the return from a CPU and the look at the flags may a request stand.
- `Pio`. `Kept`, for programs that keep to the handshake: types, no mode byte is sent, `LinesUp` (a
  line is up exactly at the places of its writer named by `LinesAt`), `InStep` (the places of the
  two programs are one of thirteen pairs, either way round), `Carried` (the byte between write and
  read is in the port and, once read, with the receiver). A poll can only succeed in a pair that expects it, so each
  step goes from pair to pair; the schedule does not enter, which is why the result holds for all three
  timings. A put is then `Offer`, a get `Take`, every other step a stutter, a reset `Restart`. With wild
  programs both places stay empty. `Accounts` bounds what is left of a call together with the account it is charged
  to, at every place of `emu_main`; a grant comes only when neither account holds a whole state. The bounds of
  `CreditsBounded` are reached: an account holds `JACKUP - 1` fractions more than a grant, and owes
  one state less than an instruction and an interrupt.
- `Interrupts`. `Inv` says of a saved state what it says of the present one (`SavedOK`), or a load could
  break it; `IsTape` and `BoolsOK` are the types the steps need. A lemma per port and per call of the user.
- `Cpu`. The invariant is `CpuInv`, that `z80` is a CPU (`IsCpu`: fields, bytes, words); all the rest is about one `Step`.
  `Moves(s, n, k)` says that `n` is a CPU again, `k` bytes further and no fewer states on; every operator of `Z80` has a lemma
  of this form (`GetIs` and `PutMoves` for an operand, with its displacement), which the decoding adds up: a code without
  prefix (`Runs`, by its quarter and column), behind CB, ED, DD and FD, and DD CB with the displacement before the
  code. `Length` of the disassembler is a table of its own, so `StepRuns` is two independent readings of the same bytes
  brought together. The rows of states are at least 4 (0 for the prefixes that hand over to another table).
  For the results, overflow is the comparison of sign bits in the code and a range of signed numbers in `Says`; for DAA the half
  carry is bit 4 of a sum, from which the lower digit's carry is recovered.
- `Machine`, map. `Inv` = `Registers` ∧ `Mapped`. The pointers are remade piece by piece: each port's lemma shows that the pieces
  it does not remake do not read the register it changed. `MapRight` follows by arithmetic of the window
  (modulo 64 KB) and of the bank names.
- `Machine`, state files. A load brings registers of its own, so `StateInv` = `Inv` ∧ `Controller` ∧ `Files`, and
  `Files` says of every file on the card that its blocks are those of one machine at one moment (`OneMachine`: the tables
  MAIN and SCRN agree about port 31H, a CRTC that was reset last is stopped), and which blocks it has if it is whole.
  A load that succeeds read every needed block, so the tables that share a port come from the same save (`StateLoaded`,
  `BecomesIt`); one that fails may mix two machines, and the reset that follows is shown to overwrite what the mixture
  could spoil (`ResetOneMachine`). `LoadGives` needs of the code's order only `Order`: the sound board is
  loaded before the memory that one of the boards has. With the order of saving that lemma is false, and so is the property.
- `Machine`, picture. A mark is a promise about the next frame, so the invariant is about frames to come: `PictureInv` =
  `DrawnRight` (each cell is on the screen as the palette and its text have it, or something is marked that will draw it;
  the attributes the next drawing compares with are those the cell was drawn from) ∧ `PaletteRight` (the colours are those of
  the registers, or the palette is marked, or a reset has left it). `Marked` is what a step that draws nothing must do to keep it,
  proved of each port; `DrawingIs` what a drawing leaves. The bytes of a format are sent without a mark: that is sound because
  `Controller` says that a CRTC whose last command is the reset, the only one that takes a format, is stopped and shows no text, and the
  start that ends this marks.
- `Machine`, date. `ClockInv` = `Clock` (types, and that the difference to the host's clock gives the date the chip was
  told) ∧ `Setting` ∧ `Reading`, which say of each moment of a job which bits are where: after `done` accesses of a job that
  sets, the bits sent are the last `done` of the register, in order (`Sent`); of one that reads, position `k` holds bit
  `k + Off` of the date wanted, the line shows the one before and the program has taken those before that. An
  access is a shift by one and moves each of these by one; so the register after 48 accesses needs no induction beyond that of
  the behaviour. The strobe that sets then reads the digits back: `Told` of the digits of a date is the date
  and `mktime` of it the moment, for the hundred years that two digits of a year can name.
- `Inputs`. `Inv` = `Wired` (the ring's indices) ∧ `Good` (nothing is down but what the last report, the count of five
  looks and `romaji_output` hold, what was overlooked, and the locks). Inside a poll neither can be
  stated of the variables, so each function has a lemma about records: from `Good(k, X)` to `Good` of its result for
  the keys `X` held at that place, and from room for `n` keys to room for `n` less what it queues. A letter takes at most six
  (`CollectIs`: up to three letters dropped, which may speak one key each, and a row of at most three), a poll brings three letters (`LookKeys`). Releases are where it could
  fail: `quasi88_key` translates a code by the state of the moment, so that a press and its release agree only if neither
  the assignment changes between them (`Kept`), and if what enters a mode or resets clears what is down
  (`ResetIs`, `ClearIs`); leaving the romaji mode does not, which is why `Frozen` is in the property.

*Only model-checked*, and why:
- liveness (`CommandEnds`, `WaitEnds`, `RequestServed`, `ModeTakesEffect`, `KeysPolled`, `PictureRefreshed`,
  `TransfersContinue`, `Loaded`, `SoundKeepsComing`, `ReplaysGoOn`, `FrameDrawn`, `Typed`): fairness and ENABLED are beyond the prover;
- `NoTrace` compares with the same program run alone, by recursion, so it is in a module of its own (`Undisturbed`);
- `ResultRight` is about what a program of some number of steps has computed at its end, for the programs of the run; for every number,
  the arithmetic in it is `AluRight`, `AddWordRight`, `SubWordRight`, `DecimalRight` and `DecimalSubRight`. The shifts of pairs and the blocks
  are only checked;
- `Converted` compares an automaton with the reading of a whole word, both recursions over sequences;
- the statements of section 5.

## 5. Where the code and its words disagree

Six configurations check something a comment or declaration says and the code does not do. They are
expected to end with a counterexample and are run by hand, for instance
`tlc -config FdcSwap.cfg MCFdc.tla`.

| configuration (module) | property | what happens |
|---|---|---|
| `FdcSeekTwice` (`MCFdc`) | `SeekReportKept` | two overlapped seeks: a command takes the second end over and writes `fdc.intr_unit` before the first was read (`fdc.c:2240`, whose comment says the drive is reported by SENSE INT) |
| `FdcSwap` (`MCFdc`) | `WriteHitsSearchedDisk` | a sector is written onto a disk put in after the search (`fdc.c:1662` promises an abnormal end) |
| `FdcWriteError` (`MCFdc`) | `FailedWriteReported` | a write of two sectors whose first failed ends normally (`fdc.c:3130`: no error is possible) |
| `DiskFilesTwice` (`MCDiskFiles`) | `NoDoubleOpen` | a disk file is opened twice: the search at `file-op.cpp:170` looks at the free entries, against `file-op.h:202-204` |
| `MainLoopMenu` (`MCMainLoop`) | `EveryKeyPolled` | F12 enters MENU (`keyboard.c:138`, `:1726-1728`), whose functions are commented out (`quasi88.cpp:368`, `:401`): nothing polls any more, against `event.cpp:554` |
| `TapeEnd` (`MCInterrupts`) | `OnlyData` | bytes behind the end tag of a T88 tape (`pc88main.c:2187`) are read as data (`:2289`) |

Met while modelling, and kept in the models as they are in the code:

- *State files.* A save that fails has already replaced the previous file by a truncated one ("wb"). Tables
  missing from a file (SND2, SND3, MEM5, MAI2, INT2–4, KYB2–4, FDC2) are taken for those of an older revision
  whatever the reason. A name too long for its number silently keeps the old number (`LoadGives` asks for `fits`). After a
  load that failed the images are closed and not reopened while the names already read stay. A load clears ADPCM and
  extended RAM before it reads them (`memory_allocate_additional`). A frame may be drawn between a load and INIT.
- *Disk controller.* SCAN and READ DIAGNOSTIC need not end (section 2); a read or write on an empty drive retries until a disk comes.
- *Memory.* Port E3H names the first eight banks of a 1 MByte board by 00H–07H and answers F0H–F7H
  (`pc88main.c:1655-1657`); `MapRight` excepts them. `linear_ext_ram` is never cleared (`memory.c:575`).
- *Screen.* `wait.c:40` always says that the time was over, so with automatic frame skip every frame counts as late, and
  `skip_counter` is never cleared by a drawing. Writing the PCG marks nothing. VDISP off clears only 2000H flags (`screen.c:1614`).
- *Clock chip.* The first write to port 40H after a reset strobes the command left in 10H; two-digit years
  from 38 on are 19xx; a date set without year takes the emulated clock's.
- *Serial port.* `cmt_stateload_skip` and a held-back byte survive a new tape (`StartsClean`, stated in
  `Interrupts`, does not hold). `highspeed_flag` is not cleared by a reset.
- *Keys.* The queue of romaji keys has no test for full (`romaji.c`, `romaji_que`): a file typed in the romaji mode brings a letter every 6 or
  7 frames, a kana leaves after 8 for each of its keys, so that a line of several hundred vowels overtakes the queue of 64: the key that is down is
  overwritten and never let go (`Room` excludes it). In the table for capitals `Z` types a small x (`event.cpp`, `withShiftKey`); ESC by itself on the serial line indexes a table at −1,
  and "ESC → STOP" sends a code whose entry is 0. A serial key and an automatic one in one poll, or the end of the
  romaji mode in the middle of a key, leave a key down (the exceptions of `NoStuck`). Letters typed with
  SHIFT give shifted kana. Frames of 20 ms or more merge double characters of a file, and a delay of 0 merges its empty lines with the line before.
  Five rows of kana differ from their own comments and the tables behind the lists: in MS-IME's, WHA, WHO, TSA and TSO (`romaji-table.h:362`, `:366`,
  `:368`, `:372`) end with a small ya or yo for a small a or o, in ATOK's FYO (`:536`) with a small ya for a small yo. TSA is in the model. Nothing leads
  from PAUSE or MENU back to EXEC.
- *Interrupts.* A state in which the next interrupt is 7fffffffH states away is only ended by a break-off.

## 6. Plan

In this order; each with its own proofs where they say more than the run.

1. The part of `NoTrace` that is about one step: taking an interrupt and returning from it leaves the registers (the types it
   needs are in `CpuProofs`); the rotates and bit operations against a reference.
2. A bound on how fast keys come (`-romaji` with a text file, one letter in 6 or 7 frames) under which `Room` is kept, in place of `[]Room`.
3. The staged start and the list of exit functions in `MainLoop`, with a failure at each stage.
4. Screen with Draw: what is on the LCD when a change of the screen comes during a drawing (`graph.cpp:282`).
5. Pio with Fdc: the disk system's handshake carrying commands of the controller.
6. The writing side of `Sio` and the editing of d88 headers.

## 7. Not modelled

Pixel formats, window sizes, fonts, help texts, the status line's contents; parsing of options (there are
none to parse in this build); the BASIC lister; snapshots, which nothing calls; the monitor, which is not compiled
(the disassembler's lengths are in `Z80`); sound synthesis, not compiled; mouse, joystick and soft keys,
which nothing feeds in this port; the printer and the light pen; the loading of ROMs and fonts; the contents of
sectors and the editing of d88 headers; `hid_server/`, a third-party Bluetooth stack. Undefined behaviour is modelled where the models meet it
(SCAN's null pointer, the data race of the drawing flags).
