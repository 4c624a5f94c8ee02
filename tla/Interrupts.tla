----------------------------- MODULE Interrupts -----------------------------
(***************************************************************************)
(* The main CPU with its interrupt controller (Intr), serial port (Sio)    *)
(* and sound board (Sound).                                                *)
(*                                                                         *)
(* The program on the CPU is a driver: it sets a device up, lets           *)
(* interrupts in, and serves each of them as the machine's own programs    *)
(* do: it takes the byte of the serial port ("tape", "com"), or turns the  *)
(* sound interrupt off, reads which timers ran over, takes their flags     *)
(* down and turns it on again ("sound"); then it sets the level and lets   *)
(* interrupts in.  A "play" driver plays back one piece of ADPCM memory    *)
(* after another, each when the end of the one before is announced; a      *)
(* piece that repeats it stops with a reset.  A "poll" driver reads the    *)
(* tape without interrupts.  Between its steps the program may stray, with *)
(* any other access to its device, and the user may act.                   *)
(***************************************************************************)
EXTENDS Sio, Sound, SequencesExt

CONSTANTS
  Programs,    \* the programs that may run
  Clocks,      \* of VSYNC and RTC, those a program may let in
  MaxActs      \* how often the program may stray, or the user act

ASSUME ProgramsAssumption ==
  /\ Programs \subseteq {"tape", "com", "poll", "sound", "play"}
  /\ Clocks \subseteq {"VSYNC", "RTC"} /\ MaxActs \in Nat

VARIABLES
  program,     \* what runs
  at,          \* a driver's place
  seen,        \* the timer flags the sound driver has read
  got,         \* the bytes a driver has taken before the first act
  fresh,       \* the last step put a tape in or wound it back
  acts,        \* strays and acts of the user so far
  savedIntr    \* the controller's part of the state file

progVars == <<program, at, seen, got, fresh, acts, savedIntr>>
vars == <<intrVars, sioVars, soundVars, progVars>>

Init ==
  /\ IntrInit /\ SoundInit
  /\ program \in Programs
  /\ at = "start" /\ seen = {} /\ got = <<>> /\ fresh = FALSE /\ acts = 0
  /\ savedIntr = <<>>
  /\ \E t \in Tapes \cup {NoTape}, com \in BOOLEAN : SioInit(t, com)
  /\ program \in {"tape", "poll"} => tape.img # NoTape
  /\ program = "com" => fp_si
  /\ program = "tape" => cmt_intr
  /\ program = "poll" => ~cmt_intr
  /\ program \in {"sound", "play"} => tape.img = NoTape /\ ~fp_si

(* Strays. *)

Serial == program \in {"tape", "com", "poll"}
Act == acts < MaxActs /\ acts' = acts + 1

AnySerial ==
  /\ Serial
  /\ \/ \E on, send, reset \in BOOLEAN : OutUsart(on, send, reset)
     \/ \E xoff \in BOOLEAN : sio_out_data(xoff)
     \/ sio_in_data
     \/ sio_in_status
     \/ \E line, turning \in BOOLEAN : OutSysCtrl(line, turning)
     \/ sio_tape_highspeed_load
     \/ \E on \in SUBSET {"RS232C"}, clocks \in SUBSET Clocks :
          OutMasks(on \cup clocks)
  /\ UNCHANGED soundVars

AnyBoard ==
  /\ ~Serial
  /\ \/ \E on \in BOOLEAN : OutSoundEnable(on)
     \/ \E load, reset \in SUBSET Timers : OutTimers(load, load, reset)
     \/ \E set \in {Flags, Timers} : OutEnables(set)
     \/ \E irq_reset \in BOOLEAN, masks \in {{}, {"A", "EOS"}} :
          OutFlagControl(irq_reset, masks)
     \/ \E start, again, mem, rec, rst \in BOOLEAN :
          OutControl(start, again, mem, rec, rst)
     \/ \E which \in {"start", "stop", "limit"}, a \in Addrs : OutAddress(which, a)
     \/ OutAdpcm
     \/ InAdpcm
     \/ InStatus2
  /\ UNCHANGED sioVars

AnyControl ==
  /\ DI \/ EI \/ \E level \in {0, 7} : OutLevel(level)
  /\ UNCHANGED <<sioVars, soundVars>>

Stray ==
  /\ Act
  /\ AnySerial \/ AnyBoard \/ AnyControl
  /\ UNCHANGED <<program, at, seen, got, savedIntr>>

(* The drivers. *)

Goto(from, to) == at = from /\ at' = to
NoSio == UNCHANGED sioVars
NoSound == UNCHANGED soundVars
Stack(from, to) == Goto(from, to) /\ UNCHANGED <<seen, got>>

\* Setting up, up to the idle loop.
SerialSetup ==
  /\ Serial /\ NoSound
  /\ \/ Stack("start", "line") /\ OutUsart(FALSE, FALSE, FALSE)
     \/ Stack("line", "mask") /\ OutSysCtrl(program = "com", TRUE)
     \/ Stack("mask", "command")
          /\ OutMasks(IF program = "poll" THEN {} ELSE {"RS232C"} \cup Clocks)
     \/ Stack("command", IF program = "poll" THEN "poll" ELSE "ei")
          /\ OutUsart(TRUE, FALSE, FALSE)
SoundSetup ==
  /\ program = "sound" /\ NoSio
  /\ \/ Stack("start", "load") /\ OutSoundEnable(TRUE)
     \/ Stack("load", "ei") /\ OutTimers(Timers, Timers, {})
\* A piece is any addresses, played once or again and again.
PlaySetup ==
  /\ program = "play" /\ NoSio
  /\ \/ Stack("start", "first") /\ OutEnables({"EOS"})
     \/ Stack("first", "last") /\ \E a \in Addrs : OutAddress("start", a)
     \/ Stack("last", "limit") /\ \E a \in Addrs : OutAddress("stop", a)
     \/ Stack("limit", "play") /\ \E a \in Addrs : OutAddress("limit", a)
     \/ /\ Stack("play", "on")
        /\ \E again \in BOOLEAN : OutControl(TRUE, again, TRUE, FALSE, FALSE)

Idle == Stack("idle", "idle") /\ Plain /\ NoSio /\ NoSound

\* Taking a byte.
TakeByte(to) ==
  /\ Goto("in", to)
  /\ sio_in_data /\ got' = IF acts = 0 THEN Append(got, sio_data) ELSE got
  /\ UNCHANGED seen /\ NoSound
Poll ==
  /\ program = "poll"
  /\ \/ /\ at = "poll" /\ sio_in_status
        /\ at' = IF sio_data_exist' THEN "in" ELSE "poll"
        /\ UNCHANGED <<seen, got>> /\ NoSound
     \/ TakeByte("poll")

\* Serving an interrupt.
Serve ==
  \/ program \in {"tape", "com"} /\ TakeByte("level")
  \/ /\ NoSio
     /\ \/ Stack("off", IF program = "play" THEN "ended" ELSE "read")
             /\ OutSoundEnable(FALSE)
        \/ Stack("ended", IF repeat THEN "halt" ELSE "first")
             /\ OutFlagControl(TRUE, {})
        \/ Stack("halt", "first") /\ OutControl(FALSE, FALSE, TRUE, FALSE, TRUE)
        \/ Goto("read", "ack") /\ seen' = FLAG \cap Timers /\ UNCHANGED got
             /\ Plain /\ NoSound
        \/ Stack("ack", "on") /\ OutTimers(Timers, Timers, seen)
        \/ Stack("on", "level") /\ OutSoundEnable(TRUE)
  \/ Stack("level", "ei") /\ OutLevel(7) /\ NoSio /\ NoSound
  \/ Stack("ei", "idle") /\ EI /\ NoSio /\ NoSound

Driver ==
  /\ SerialSetup \/ SoundSetup \/ PlaySetup \/ Idle \/ Poll \/ Serve
  /\ UNCHANGED <<program, acts, savedIntr>>

Instruction == (Driver \/ Stray) /\ fresh' = FALSE

(* The end of a run of instructions. *)

\* main_INT_update: the serial port first, the sound board last.
main_INT_update(serial, over) ==
  /\ pc = "update"
  /\ sio_intr(serial)
  /\ sound_intr(over)
  /\ INT_update(SerialRequest \cup SoundRequest)
  /\ UNCHANGED progVars
CanSerial == IF rate = "off" THEN {FALSE} ELSE BOOLEAN
Update ==
  \E serial \in CanSerial, over \in SUBSET CanBeOver : main_INT_update(serial, over)

\* An interrupt that is taken sends a driver to its service.
Answer ==
  /\ Check
  /\ at' = IF program = "poll" \/ taken' = "none" THEN at
           ELSE CASE taken' = "RS232C" -> "in" [] taken' = "SOUND" -> "off"
                  [] OTHER -> "level"
  /\ UNCHANGED <<sioVars, soundVars, program, seen, got, fresh, acts, savedIntr>>

(* The user, while the machine stands still. *)

Menu ==
  /\ Serial /\ Running /\ Act
  /\ UNCHANGED <<soundVars, program, at, seen, got>>

IntrStays == UNCHANGED <<intrVars, savedIntr>>

MenuTape ==
  /\ Menu /\ IntrStays
  /\ \/ \E t \in Tapes, opens \in BOOLEAN : TapeInsert(t, opens) /\ fresh' = opens
     \/ TapeRewind /\ fresh' = TRUE
     \/ TapeEject /\ fresh' = FALSE
MenuSerial ==
  /\ Menu /\ IntrStays
  /\ \E opens \in BOOLEAN : SerialConnect(opens)
  /\ fresh' = FALSE
MenuReset ==
  /\ Menu /\ SioReset /\ IntrReset /\ fresh' = FALSE /\ UNCHANGED savedIntr
MenuSave ==
  /\ Menu /\ SioSave /\ UNCHANGED intrVars /\ fresh' = FALSE
  /\ savedIntr' = IntrKept
MenuLoad ==
  /\ Menu /\ fresh' = FALSE /\ UNCHANGED savedIntr
  /\ \/ /\ \E opens, com \in BOOLEAN : SioLoad(opens, com)
        /\ IntrRestore(savedIntr)
     \/ SioLoadFails /\ IntrReset

\* quasi88_reset also resets the board: with a program that drives it.
BoardReset ==
  /\ ~Serial /\ Running /\ Act
  /\ SoundReset /\ IntrReset /\ fresh' = FALSE
  /\ UNCHANGED <<sioVars, program, at, seen, got, savedIntr>>

Next ==
  \/ Instruction
  \/ Update
  \/ Answer
  \/ MenuTape \/ MenuSerial \/ MenuReset \/ MenuSave \/ MenuLoad
  \/ BoardReset

Spec == Init /\ [][Next]_vars

\* Instructions go on, a run of them ends, and the counters that run come to
\* their end: each of them only counts the states of the CPU.
SerialOver ==
  rate # "off" /\ \E over \in SUBSET CanBeOver : main_INT_update(TRUE, over)
FlagOver(f) ==
  /\ f \in CanBeOver
  /\ \E serial \in CanSerial, over \in SUBSET CanBeOver :
       f \in over /\ main_INT_update(serial, over)
Fairness ==
  /\ WF_vars(Driver /\ fresh' = FALSE)
  /\ SF_vars(Instruction /\ pc' = "update")
  /\ WF_vars(Update) /\ WF_vars(Answer)
  /\ SF_vars(SerialOver)
  /\ \A f \in Flags : SF_vars(FlagOver(f))
LiveSpec == Spec /\ Fairness

(* What must hold. *)

\* A request that waits is of a source the program has not masked, and one of
\* the serial port has a byte behind it that can still be taken (the masks of
\* port E6H, sio_out_command and sio_in_data clear the flags).
PendingIsReal ==
  /\ flags \cap Masked \subseteq enabled
  /\ "RS232C" \in flags => sio_data_exist /\ rx

\* The receive interrupts come exactly while there is something to read and
\* the program has the receiver on and the line or the motor: whatever is
\* opened, closed, written, reset or loaded (sio_set_intr_base is called from
\* nine places).
RateFollows == rate = Rate(fp_si \/ tape.img # NoTape, rx, rs232, motor)

\* The bytes on a tape: those before the end tag.
DataBytes(t) ==
  LET ends == {p \in 1..Len(Image[t]) : Image[t][p].k = "end"}
      isByte(p) == Image[t][p].k = "byte" /\ \A q \in ends : p < q
  IN SelectSeq([p \in 1..Len(Image[t]) |-> p], isByte)
Expected == IF program = "com" THEN [p \in 1..ComLen |-> p]
            ELSE IF tape.img = NoTape THEN <<>> ELSE DataBytes(tape.img)

\* A driver reads a whole tape or file: every byte once and in order, with and
\* without interrupts, pauses waited for or not.
Loaded ==
  Serial /\ MaxActs = 0 => <>[](got = Expected)

\* With a program that acknowledges what it sees, the sound interrupt comes
\* again and again, though it is made at the edge of two timers' flags
\* (main_INT_update requests it only where SOUND_level rises).
SoundKeepsComing == program = "sound" => []<>(taken = "SOUND")

\* The addresses of a replay whose end is never met: the limit lies between
\* the start and the stop, or the start is the last address there is.
Endless == \/ start_addr < limit_addr /\ limit_addr < stop_addr
           \/ start_addr = AdpcmTop

\* A program that plays one piece after another, by the interrupt at the end
\* of each, comes to the end of all of them, whatever their addresses and
\* repeated or not: the end is counted from the three addresses at the start
\* (sound2_out_data), is announced with a flag that the first end takes down
\* (sound2_notice_EOS), and interrupts only if the flags were down before.
ReplaysGoOn == program = "play" => []<>(taken = "SOUND") \/ <>[]Endless

\* No interrupt is taken for the end of a piece that still plays: when the
\* program starts the next one the board is free, so the start, which is
\* ignored while it plays, is heard.  It fails if a flag outlives the piece
\* that raised it (check_sound_parm_update, FLAG_EOS).
NextIsHeard == program = "play" /\ at = "play" => ~PCMBSY

\* A tape just put in or wound back starts at its beginning and without a
\* pause (sio_tape_rewind).
StartsClean == fresh => tape.pos = 0 /\ cmt_skip = 0

\* What a driver has read is on the tape before its end tag (sio_getc).
OnlyData == program \in {"tape", "poll"} => IsPrefix(got, Expected)
=============================================================================
