-------------------------------- MODULE Sio --------------------------------
(***************************************************************************)
(* The serial port of the PC-8801 (pc88main.c, from sio_open_tapeload to   *)
(* tape_writing): a USART that reads, and writes, either a cassette tape   *)
(* or an RS-232C line, both of them image files.                           *)
(*                                                                         *)
(* A tape image is a sequence of tokens.  In a plain image (CMT) every     *)
(* token is a byte.  A T88 image is cut into tags: "data", whose next n    *)
(* tokens are its bytes, "time", a pause of n ticks, "other" (skipped),    *)
(* "end", and "bad", a tag the reader gives up on.  A byte is named by its *)
(* place in the file, 0 being no byte; what is written, the printer, the   *)
(* serial mouse and the speeds of the lines are left out.                  *)
(***************************************************************************)
EXTENDS Intr, Sequences

CONSTANTS
  Tapes,       \* the tape images
  T88,         \* those with a T88 header
  Image,       \* Image[t]: the tokens of tape t
  ComLen,      \* bytes in the file that stands for the RS-232C line
  NoTape,
  TickRate     \* ticks of a pause in one receive interrupt

ASSUME TapesAssumption ==
  /\ NoTape \notin Tapes /\ T88 \subseteq Tapes /\ ComLen \in Nat
  /\ TickRate \in Nat \ {0}
  /\ \A t \in Tapes : Image[t] \in Seq([k : STRING, n : Nat])

VARIABLES
  cmt_intr, cmt_wait,      \* the options
  tape,                    \* fp_ti and the reader's place: see NewTape
  fp_si, com_pos, com_EOF, \* the RS-232C file
  sio_instruction,         \* the next OUT 21H is a command
  rx, tx,                  \* bits 04H and 01H of sio_command
  sio_data_exist, sio_data,
  com_X_flow, cmt_dummy_read_cnt, cmt_skip, cmt_skip_data,
  cmt_stateload_chars, cmt_stateload_skip,
  rs232, motor,            \* bits 20H and 08H of sys_ctrl
  rate,                    \* rs232c_intr_base: "off", or what it was set for
  saved                    \* the port's part of the state file, or NoTape

usartVars == <<sio_instruction, rx, tx, sio_data_exist, sio_data, com_X_flow,
               cmt_dummy_read_cnt>>
comVars == <<fp_si, com_pos, com_EOF>>
skipVars == <<cmt_skip, cmt_skip_data>>
loadVars == <<cmt_stateload_chars, cmt_stateload_skip>>
sysVars == <<rs232, motor>>
optVars == <<cmt_intr, cmt_wait>>
sioVars == <<optVars, tape, comVars, usartVars, skipVars, loadVars, sysVars,
             rate, saved>>

\* A tape at its start: `left' is cmt_block_size, `chars' cmt_read_chars.
NewTape(t) == [img |-> t, pos |-> 0, left |-> 0, eof |-> FALSE, chars |-> 0]

Token(t, p) == Image[t.img][p]
Len88(t) == Len(Image[t.img])

\* The place of osd_fgetc's byte, 0 at the end of the file.
Fgetc(t, p) == IF p < Len88(t) THEN p + 1 ELSE 0

\* The tags of a T88 image from place p on: where reading goes on, the bytes
\* of the block found there, and the ticks of the pauses in between.
Tags(t) ==
  LET tags[p \in 0..Len88(t)] ==
        IF p = Len88(t) THEN [pos |-> p, left |-> 0, tick |-> 0]
        ELSE LET tag == Token(t, p + 1)
                 rest == tags[p + 1]
             IN CASE tag.k = "data" /\ tag.n > 0
                       -> [pos |-> p + 1, left |-> tag.n, tick |-> 0]
                  [] tag.k = "time" -> [rest EXCEPT !.tick = @ + tag.n]
                  [] tag.k \in {"data", "other"} -> rest
                  [] OTHER -> [pos |-> p + 1, left |-> 0, tick |-> 0]
  IN tags

\* sio_getc of the tape: the tape after it, the byte, and the pause before
\* it.  At the end tag, at a bad one and at the end of the file the search
\* for a block stops, and a byte is read all the same.
sio_getc(t) ==
  IF t.img = NoTape \/ t.eof THEN [tape |-> t, c |-> 0, tick |-> 0]
  ELSE LET at == IF t.img \in T88 /\ t.left = 0 THEN Tags(t)[t.pos]
                 ELSE [pos |-> t.pos, left |-> t.left, tick |-> 0]
           c == Fgetc(t, at.pos)
           left == IF t.img \in T88 THEN at.left - 1 ELSE 0
       IN [tape |-> [t EXCEPT !.pos = IF c = 0 THEN at.pos ELSE c,
                              !.left = left,
                              !.eof = (c = 0),
                              !.chars = IF c = 0 THEN @ ELSE @ + 1],
           c |-> c, tick |-> at.tick]

\* The tape after n calls: the same one, further on.
Forward(t, n) ==
  LET after[i \in 0..n] == IF i = 0 THEN t ELSE sio_getc(after[i - 1]).tape
      end == after[n]
  IN [img |-> t.img, pos |-> end.pos, left |-> end.left, eof |-> end.eof,
      chars |-> end.chars]

\* sio_set_intr_base: receive interrupts come while there is a file, the
\* receiver is on, and the line is RS-232C or the motor runs.
Rate(open, on, line, turning) ==
  IF ~(open /\ on /\ (line \/ turning)) THEN "off"
  ELSE IF line THEN "com" ELSE "tape"
sio_set_intr_base ==
  rate' = Rate(fp_si' \/ tape'.img # NoTape, rx', rs232', motor')

\* Power on, with the images the options name.
SioInit(t, com) ==
  /\ cmt_intr \in BOOLEAN /\ cmt_wait \in BOOLEAN
  /\ tape = NewTape(t)
  /\ fp_si = com /\ com_pos = 0 /\ com_EOF = FALSE
  /\ sio_instruction = FALSE /\ rx = FALSE /\ tx = FALSE
  /\ sio_data_exist = FALSE /\ sio_data = 0
  /\ com_X_flow = FALSE /\ cmt_dummy_read_cnt = 0
  /\ cmt_skip = 0 /\ cmt_skip_data = 0
  /\ cmt_stateload_chars = 0 /\ cmt_stateload_skip = 0
  /\ rs232 = TRUE /\ motor = FALSE
  /\ rate = "off" /\ saved = NoTape

(* Ports.  The program's accesses; Intr says what comes after them. *)

\* An access: it may change `flags', nothing else of the interrupts.
Access ==
  /\ Running /\ After(FALSE)
  /\ UNCHANGED <<enabled, intr_level, INT_active, IFF, skip_intr_chk, taken>>

\* OUT 21H.  A command without the receiver bit drops what came in.
sio_out_mode ==
  /\ ~sio_instruction /\ sio_instruction' = TRUE
  /\ Access
  /\ UNCHANGED <<flags, rx, tx, sio_data_exist, sio_data, com_X_flow,
                 cmt_dummy_read_cnt, tape, comVars, skipVars, loadVars,
                 sysVars, optVars, rate, saved>>

sio_out_command(receive, send, internal_reset) ==
  /\ sio_instruction /\ sio_instruction' = ~internal_reset
  /\ rx' = (receive /\ ~internal_reset) /\ tx' = (send /\ ~internal_reset)
  /\ sio_data' = IF internal_reset THEN 0 ELSE sio_data
  /\ sio_data_exist' = (sio_data_exist /\ rx')
  /\ flags' = IF rx' THEN flags ELSE flags \ {"RS232C"}
  /\ Access
  /\ UNCHANGED <<com_X_flow, cmt_dummy_read_cnt, tape, comVars, skipVars,
                 loadVars, sysVars, optVars, saved>>
  /\ sio_set_intr_base

OutUsart(receive, send, internal_reset) ==
  sio_out_mode \/ sio_out_command(receive, send, internal_reset)

\* OUT 20H: only XOFF and XON, sent over RS-232C, matter here.
sio_out_data(xoff) ==
  /\ com_X_flow' = IF tx /\ rs232 THEN xoff ELSE com_X_flow
  /\ Access
  /\ UNCHANGED <<flags, sio_instruction, rx, tx, sio_data_exist, sio_data,
                 cmt_dummy_read_cnt, tape, comVars, skipVars, loadVars,
                 sysVars, optVars, rate, saved>>

\* IN 20H.
sio_in_data ==
  /\ sio_data_exist' = FALSE
  /\ flags' = flags \ {"RS232C"}
  /\ Access
  /\ UNCHANGED <<sio_instruction, rx, tx, sio_data, com_X_flow,
                 cmt_dummy_read_cnt, tape, comVars, skipVars, loadVars,
                 sysVars, optVars, rate, saved>>

\* IN 21H.  Without cmt_intr every second read also reads the tape, whether
\* or not the last byte has been taken.
StatusReads ==
  rx /\ ~rs232 /\ tape.img # NoTape /\ ~tape.eof /\ ~cmt_intr
sio_in_status ==
  /\ IF ~StatusReads THEN UNCHANGED <<cmt_dummy_read_cnt, tape, sio_data_exist, sio_data>>
     ELSE IF cmt_dummy_read_cnt = 0
     THEN cmt_dummy_read_cnt' = 1 /\ UNCHANGED <<tape, sio_data_exist, sio_data>>
     ELSE LET got == sio_getc(tape)
          IN /\ cmt_dummy_read_cnt' = 0
             /\ tape' = got.tape
             /\ sio_data_exist' = (sio_data_exist \/ got.c # 0)
             /\ sio_data' = IF got.c # 0 THEN got.c ELSE sio_data
  /\ Access
  /\ UNCHANGED <<flags, sio_instruction, rx, tx, com_X_flow, comVars, skipVars,
                 loadVars, sysVars, optVars, rate, saved>>

\* The byte lost when the motor stops inside a block of a T88 tape.
sio_check_cmt_error ==
  IF ~(tape.img \in T88 /\ ~tape.eof /\ cmt_skip = 0 /\ tape.left # 0)
  THEN tape
  ELSE LET c == Fgetc(tape, tape.pos)
       IN [tape EXCEPT !.pos = IF c = 0 THEN @ ELSE c, !.left = @ - 1,
                       !.eof = (c = 0), !.chars = IF c = 0 THEN @ ELSE @ + 1]

\* OUT 30H: line and motor.
OutSysCtrl(line, turning) ==
  /\ tape' = IF motor /\ ~turning THEN sio_check_cmt_error ELSE tape
  /\ rs232' = line /\ motor' = turning
  /\ Access
  /\ UNCHANGED <<flags, usartVars, comVars, skipVars, loadVars, optVars, saved>>
  /\ sio_set_intr_base

\* OUT 00H: the tape is read to the end of a machine code file; how far that
\* is depends on the bytes.
sio_tape_highspeed_load ==
  /\ tape.img # NoTape /\ ~tape.eof
  /\ \E n \in 1..(Len88(tape) + 1) : tape' = Forward(tape, n)
  /\ Access
  /\ UNCHANGED <<flags, usartVars, comVars, skipVars, loadVars, sysVars,
                 optVars, rate, saved>>

\* Port E6H with Intr's part: masking the port drops the byte.
OutMasks(set) ==
  /\ OutMask(set)
  /\ sio_data_exist' = (sio_data_exist /\ "RS232C" \in set)
  /\ UNCHANGED <<sio_instruction, rx, tx, sio_data, com_X_flow,
                 cmt_dummy_read_cnt, tape, comVars, skipVars, loadVars,
                 sysVars, optVars, rate, saved>>

(* The receive interrupt. *)

tick_2_intr_skip(n) == IF rate = "off" THEN 0 ELSE n \div TickRate + 1

\* What sio_intr reads: the state of both readers after it, and the byte.
Stay == [tape |-> tape, pos |-> com_pos, eof |-> com_EOF, skip |-> cmt_skip,
         held |-> cmt_skip_data, c |-> 0]
FromCom ==
  IF com_X_flow \/ ~fp_si \/ com_EOF THEN Stay
  ELSE IF com_pos = ComLen THEN [Stay EXCEPT !.eof = TRUE]
  ELSE [Stay EXCEPT !.pos = @ + 1, !.c = com_pos + 1]
FromTapeDrops ==
  LET got == sio_getc(tape)
  IN IF ~cmt_intr THEN Stay
     ELSE IF cmt_skip > 0
     THEN [Stay EXCEPT !.skip = @ - 1]
     ELSE IF cmt_wait /\ got.tick > 0
     THEN [Stay EXCEPT !.tape = got.tape, !.held = got.c,
                       !.skip = tick_2_intr_skip(got.tick)]
     ELSE [Stay EXCEPT !.tape = got.tape, !.c = got.c]
FromTape ==
  LET got == sio_getc(tape)
  IN IF ~cmt_intr THEN Stay
     ELSE IF cmt_skip > 0
     THEN [Stay EXCEPT !.skip = @ - 1,
                       !.c = IF cmt_skip = 1 THEN cmt_skip_data ELSE 0]
     ELSE IF cmt_wait /\ got.tick > 0 /\ tick_2_intr_skip(got.tick) > 0
     THEN [Stay EXCEPT !.tape = got.tape, !.held = got.c,
                       !.skip = tick_2_intr_skip(got.tick)]
     ELSE [Stay EXCEPT !.tape = got.tape, !.c = got.c]

\* The serial part of main_INT_update, when its timer is over or not.
sio_intr(over) ==
  LET reads == over /\ rx /\ ~sio_data_exist
      new == IF ~reads THEN Stay ELSE IF rs232 THEN FromCom ELSE FromTape
  IN /\ over => rate # "off"
     /\ tape' = new.tape
     /\ com_pos' = new.pos /\ com_EOF' = new.eof
     /\ cmt_skip' = new.skip /\ cmt_skip_data' = new.held
     /\ sio_data_exist' = (sio_data_exist \/ new.c # 0)
     /\ sio_data' = IF new.c # 0 THEN new.c ELSE sio_data
     /\ UNCHANGED <<fp_si, sio_instruction, rx, tx, com_X_flow,
                    cmt_dummy_read_cnt, loadVars, sysVars, optVars, rate, saved>>

\* The request it raises.
SerialRequest ==
  IF sio_data_exist' /\ ~sio_data_exist THEN {"RS232C"} \cap enabled ELSE {}

(* The user, in the menu: the machine stands still, between two runs. *)

\* sio_tape_rewind on a tape that is in, after `chars' bytes to go over.
Rewound(t, chars) == Forward(NewTape(t), chars)

RewindTape(t) ==
  /\ tape' = Rewound(t, cmt_stateload_chars)
  /\ cmt_skip' = cmt_stateload_skip
  /\ cmt_stateload_chars' = 0

\* quasi88_load_tape_insert of a file that can be opened, or cannot.
TapeInsert(t, opens) ==
  /\ IF opens THEN RewindTape(t)
     ELSE /\ tape' = NewTape(NoTape) /\ cmt_stateload_chars' = 0
          /\ UNCHANGED cmt_skip
  /\ UNCHANGED <<cmt_skip_data, cmt_stateload_skip, usartVars, comVars,
                 sysVars, optVars, saved>>
  /\ sio_set_intr_base

TapeRewind ==
  /\ tape.img # NoTape
  /\ RewindTape(tape.img)
  /\ UNCHANGED <<cmt_skip_data, cmt_stateload_skip, usartVars, comVars,
                 sysVars, optVars, rate, saved>>

TapeEjectQuiet ==
  /\ tape' = NewTape(NoTape)
  /\ UNCHANGED <<usartVars, comVars, skipVars, loadVars, sysVars, optVars, saved, rate>>
TapeEject ==
  /\ tape' = NewTape(NoTape)
  /\ UNCHANGED <<usartVars, comVars, skipVars, loadVars, sysVars, optVars, saved>>
  /\ sio_set_intr_base

SerialConnect(opens) ==
  /\ fp_si' = opens
  /\ com_pos' = IF opens THEN 0 ELSE com_pos
  /\ com_EOF' = (com_EOF /\ ~opens)
  /\ UNCHANGED <<tape, usartVars, skipVars, loadVars, sysVars, optVars, saved>>
  /\ sio_set_intr_base

\* quasi88_reset: sio_init, and the interrupts start anew (IntrReset).
SioReset ==
  /\ sio_instruction' = FALSE /\ rx' = FALSE /\ tx' = FALSE
  /\ sio_data_exist' = FALSE /\ sio_data' = 0
  /\ com_X_flow' = FALSE /\ cmt_dummy_read_cnt' = 0
  /\ rs232' = TRUE /\ motor' = FALSE
  /\ rate' = "off"
  /\ UNCHANGED <<tape, comVars, skipVars, loadVars, optVars, saved>>

\* statesave_pc88main; the rate goes into the state with the interrupts.
SioSave ==
  /\ saved' = [tape |-> tape, fp_si |-> fp_si, skip |-> cmt_skip,
               held |-> cmt_skip_data, ins |-> sio_instruction, rx |-> rx,
               tx |-> tx, exist |-> sio_data_exist, data |-> sio_data,
               xflow |-> com_X_flow, cnt |-> cmt_dummy_read_cnt,
               rs232 |-> rs232, motor |-> motor, rate |-> rate]
  /\ UNCHANGED <<optVars, tape, comVars, usartVars, skipVars, loadVars, sysVars,
                 rate>>

\* quasi88_stateload: the images are closed, the state is read, and the
\* images it names are opened; the tape then runs to where it was.
SioLoad(tapeOpens, comOpens) ==
  /\ saved # NoTape
  /\ sio_instruction' = saved.ins /\ rx' = saved.rx /\ tx' = saved.tx
  /\ sio_data_exist' = saved.exist /\ sio_data' = saved.data
  /\ com_X_flow' = saved.xflow /\ cmt_dummy_read_cnt' = saved.cnt
  /\ rs232' = saved.rs232 /\ motor' = saved.motor
  /\ cmt_skip_data' = saved.held /\ cmt_skip' = saved.skip
  /\ cmt_stateload_skip' = saved.skip
  /\ IF saved.tape.img = NoTape
     THEN tape' = NewTape(NoTape) /\ cmt_stateload_chars' = saved.tape.chars
     ELSE /\ tape' = IF tapeOpens THEN Rewound(saved.tape.img, saved.tape.chars)
                     ELSE NewTape(NoTape)
          /\ cmt_stateload_chars' = 0
  /\ fp_si' = (saved.fp_si /\ comOpens)
  /\ com_pos' = IF fp_si' THEN 0 ELSE com_pos
  /\ com_EOF' = (com_EOF /\ ~fp_si')
  /\ IF saved.tape.img = NoTape /\ ~saved.fp_si THEN rate' = saved.rate
     ELSE sio_set_intr_base
  /\ UNCHANGED <<optVars, saved>>

\* A state file that is cut off behind this part: the images stay closed and
\* the machine is reset.
SioLoadFails ==
  /\ saved # NoTape
  /\ cmt_stateload_chars' = saved.tape.chars
  /\ cmt_stateload_skip' = saved.skip
  /\ cmt_skip' = saved.skip /\ cmt_skip_data' = saved.held
  /\ tape' = NewTape(NoTape) /\ fp_si' = FALSE
  /\ sio_instruction' = FALSE /\ rx' = FALSE /\ tx' = FALSE
  /\ sio_data_exist' = FALSE /\ sio_data' = 0
  /\ com_X_flow' = FALSE /\ cmt_dummy_read_cnt' = 0
  /\ rs232' = TRUE /\ motor' = FALSE /\ rate' = "off"
  /\ UNCHANGED <<com_pos, com_EOF, optVars, saved>>
=============================================================================
