-------------------------- MODULE InterruptsProofs --------------------------
(***************************************************************************)
(* What holds of the interrupt controller and the serial port for all      *)
(* tapes, programs and numbers of strays and acts of the user.             *)
(*                                                                         *)
(* A state file brings back an old state of the port and of the            *)
(* controller together: the invariant says of a saved state what it says   *)
(* of the present one (SavedOK), or a load could break it.                 *)
(***************************************************************************)
EXTENDS Interrupts, TLAPS

\* A tape has the fields of NewTape.
IsTape(t) == t = [img |-> t.img, pos |-> t.pos, left |-> t.left, eof |-> t.eof,
                  chars |-> t.chars]

BoolsOK == /\ rx \in BOOLEAN /\ sio_data_exist \in BOOLEAN
           /\ rs232 \in BOOLEAN /\ motor \in BOOLEAN /\ fp_si \in BOOLEAN

SavedPending ==
  /\ savedIntr.flags \cap Masked \subseteq savedIntr.enabled
  /\ "RS232C" \in savedIntr.flags => saved.exist /\ saved.rx
SavedRate ==
  saved.rate = Rate(saved.fp_si \/ saved.tape.img # NoTape, saved.rx,
                    saved.rs232, saved.motor)
SavedBools == /\ saved.rx \in BOOLEAN /\ saved.exist \in BOOLEAN
              /\ saved.rs232 \in BOOLEAN /\ saved.motor \in BOOLEAN
              /\ saved.fp_si \in BOOLEAN
SavedOK == saved # NoTape => SavedPending /\ SavedRate /\ SavedBools

Inv == IsTape(tape) /\ BoolsOK /\ PendingIsReal /\ RateFollows /\ SavedOK

-----------------------------------------------------------------------------
(* The reader of the tape                                                  *)

LEMMA NewIsTape == ASSUME NEW t PROVE IsTape(NewTape(t)) /\ NewTape(t).img = t
BY DEF IsTape, NewTape

\* Reading stays on the same tape.
LEMMA GetcStays ==
  ASSUME NEW t, IsTape(t)
  PROVE  IsTape(sio_getc(t).tape) /\ sio_getc(t).tape.img = t.img
BY DEF IsTape, sio_getc

LEMMA ForwardStays ==
  ASSUME NEW t, NEW n
  PROVE  IsTape(Forward(t, n)) /\ Forward(t, n).img = t.img
BY DEF IsTape, Forward

LEMMA RewoundStays ==
  ASSUME NEW t, NEW n
  PROVE  IsTape(Rewound(t, n)) /\ Rewound(t, n).img = t
BY ForwardStays, NewIsTape DEF Rewound

LEMMA ErrorStays ==
  ASSUME IsTape(tape)
  PROVE  IsTape(sio_check_cmt_error) /\ sio_check_cmt_error.img = tape.img
BY DEF IsTape, sio_check_cmt_error

-----------------------------------------------------------------------------
(* The program's accesses                                                  *)

\* What a rate is made of being the same, it stays; what was just set is right.
LEMMA RateSet ==
  ASSUME sio_set_intr_base PROVE RateFollows'
BY DEF sio_set_intr_base, RateFollows

LEMMA UsartStep ==
  ASSUME Inv, NEW on \in BOOLEAN, NEW send \in BOOLEAN, NEW reset \in BOOLEAN,
         OutUsart(on, send, reset), UNCHANGED savedIntr
  PROVE  Inv'
<1> USE DEF Inv, BoolsOK, PendingIsReal, SavedOK, SavedPending, SavedRate, SavedBools,
            Access, IsTape
<1>1. CASE sio_out_mode
  BY <1>1 DEF sio_out_mode, RateFollows, comVars, sysVars
<1>2. CASE sio_out_command(on, send, reset)
  <2>1. RateFollows'
    BY <1>2, RateSet DEF sio_out_command
  <2> QED
    BY <1>2, <2>1 DEF sio_out_command, comVars, sysVars
<1> QED BY <1>1, <1>2 DEF OutUsart

LEMMA DataStep ==
  ASSUME Inv, UNCHANGED savedIntr,
         sio_in_data \/ \E xoff \in BOOLEAN : sio_out_data(xoff)
  PROVE  Inv'
BY DEF Inv, BoolsOK, PendingIsReal, SavedOK, SavedPending, SavedRate, SavedBools, Access,
       IsTape, sio_in_data, sio_out_data, RateFollows, comVars, sysVars

LEMMA StatusStep ==
  ASSUME Inv, sio_in_status, UNCHANGED savedIntr
  PROVE  Inv'
<1>1. IsTape(tape') /\ tape'.img = tape.img
  BY GetcStays DEF Inv, sio_in_status
<1>2. BoolsOK' /\ PendingIsReal' /\ SavedOK'
  BY DEF Inv, sio_in_status, BoolsOK, PendingIsReal, SavedOK, SavedPending, SavedRate,
         SavedBools, Access, comVars, sysVars
<1>3. RateFollows'
  BY <1>1 DEF Inv, sio_in_status, RateFollows, comVars, sysVars
<1> QED BY <1>1, <1>2, <1>3 DEF Inv, IsTape

LEMMA SysCtrlStep ==
  ASSUME Inv, NEW line \in BOOLEAN, NEW turning \in BOOLEAN,
         OutSysCtrl(line, turning), UNCHANGED savedIntr
  PROVE  Inv'
<1>1. IsTape(tape') /\ tape'.img = tape.img
  BY ErrorStays DEF Inv, OutSysCtrl
<1>2. BoolsOK' /\ PendingIsReal' /\ SavedOK'
  BY DEF Inv, OutSysCtrl, BoolsOK, PendingIsReal, SavedOK, SavedPending, SavedRate,
         SavedBools, Access, comVars, usartVars
<1>3. RateFollows'
  BY RateSet DEF OutSysCtrl
<1> QED BY <1>1, <1>2, <1>3 DEF Inv, IsTape

LEMMA HighspeedStep ==
  ASSUME Inv, sio_tape_highspeed_load, UNCHANGED savedIntr
  PROVE  Inv'
<1>1. IsTape(tape') /\ tape'.img = tape.img
  BY ForwardStays DEF Inv, sio_tape_highspeed_load
<1>2. BoolsOK' /\ PendingIsReal' /\ SavedOK'
  BY DEF Inv, sio_tape_highspeed_load, BoolsOK, PendingIsReal, SavedOK, SavedPending,
         SavedRate, SavedBools, Access, comVars, sysVars, usartVars
<1>3. RateFollows'
  BY <1>1 DEF Inv, sio_tape_highspeed_load, RateFollows, comVars, sysVars, usartVars
<1> QED BY <1>1, <1>2, <1>3 DEF Inv, IsTape

\* Masking the port takes the request down and drops the byte.
LEMMA MasksStep ==
  ASSUME Inv, NEW set \in SUBSET Masked, OutMasks(set), UNCHANGED savedIntr
  PROVE  Inv'
BY DEF Inv, BoolsOK, PendingIsReal, SavedOK, SavedPending, SavedRate, SavedBools, IsTape,
       OutMasks, OutMask, RateFollows, comVars, sysVars, Masked

\* Instructions that touch the controller only.
LEMMA ControlStep ==
  ASSUME Inv, UNCHANGED <<sioVars, savedIntr>>,
         \/ DI \/ EI \/ Plain \/ \E level \in {0, 7} : OutLevel(level)
         \/ \E refresh : Written(refresh)
  PROVE  Inv'
BY DEF Inv, BoolsOK, PendingIsReal, SavedOK, SavedPending, SavedRate, SavedBools, IsTape,
       DI, EI, Plain, OutLevel, Written, RateFollows, sioVars, comVars, sysVars, usartVars

LEMMA BoardIsWritten ==
  ASSUME AnyBoard PROVE UNCHANGED sioVars /\ \E refresh : Written(refresh)
BY DEF AnyBoard, OutSoundEnable, OutTimers, OutEnables, OutFlagControl, OutReg, OutControl,
       OutAddress, OutAdpcm, InAdpcm, InStatus2

LEMMA StrayStep ==
  ASSUME Inv, Stray PROVE Inv'
<1>1. UNCHANGED savedIntr
  BY DEF Stray
<1>2. CASE AnySerial
  BY <1>1, <1>2, UsartStep, DataStep, StatusStep, SysCtrlStep, HighspeedStep,
     MasksStep, ProgramsAssumption DEF AnySerial, Masked
<1>3. CASE AnyBoard
  BY <1>1, <1>3, BoardIsWritten, ControlStep
<1>4. CASE AnyControl
  BY <1>1, <1>4, ControlStep DEF AnyControl
<1> QED BY <1>2, <1>3, <1>4 DEF Stray

-----------------------------------------------------------------------------
(* The drivers                                                             *)

LEMMA SetupStep ==
  ASSUME Inv, SerialSetup \/ SoundSetup \/ PlaySetup, UNCHANGED savedIntr
  PROVE  Inv'
<1>1. CASE SerialSetup
  BY <1>1, UsartStep, SysCtrlStep, MasksStep, ProgramsAssumption DEF SerialSetup, Masked
<1>2. CASE SoundSetup
  BY <1>2, ControlStep DEF SoundSetup, OutSoundEnable, OutTimers, OutReg, NoSio
<1>3. CASE PlaySetup
  BY <1>3, ControlStep DEF PlaySetup, OutEnables, OutReg, OutAddress, OutControl, NoSio
<1> QED BY <1>1, <1>2, <1>3

LEMMA ServiceStep ==
  ASSUME Inv, Idle \/ Poll \/ Serve, UNCHANGED savedIntr
  PROVE  Inv'
<1>1. CASE Idle
  BY <1>1, ControlStep DEF Idle, NoSio
<1>2. CASE Poll
  BY <1>2, StatusStep, DataStep DEF Poll, TakeByte
<1>3. CASE Serve
  BY <1>3, DataStep, ControlStep
     DEF Serve, TakeByte, NoSio, OutSoundEnable, OutTimers, OutFlagControl, OutReg, OutControl
<1> QED BY <1>1, <1>2, <1>3

LEMMA InstructionStep == ASSUME Inv, Instruction PROVE Inv'
BY StrayStep, SetupStep, ServiceStep DEF Instruction, Driver

-----------------------------------------------------------------------------
(* The end of a run of instructions                                        *)

\* A byte is only found by a port that listens.
LEMMA SerialReads ==
  ASSUME Inv, NEW over \in BOOLEAN, sio_intr(over)
  PROVE  /\ IsTape(tape') /\ tape'.img = tape.img
         /\ BoolsOK' /\ RateFollows' /\ UNCHANGED <<rx, saved>>
         /\ sio_data_exist => sio_data_exist'
         /\ sio_data_exist' => sio_data_exist \/ rx
<1> DEFINE reads == over /\ rx /\ ~sio_data_exist
           new == IF ~reads THEN Stay ELSE IF rs232 THEN FromCom ELSE FromTape
<1>1. new \in {Stay, FromCom, FromTape} /\ (~reads => new.c = 0)
  BY DEF Stay
<1>2. IsTape(new.tape) /\ new.tape.img = tape.img
  <2>1. Stay.tape = tape /\ FromCom.tape = tape
    BY DEF Stay, FromCom
  <2>2. FromTape.tape \in {tape, sio_getc(tape).tape}
    BY DEF FromTape, Stay
  <2> QED BY <1>1, <2>1, <2>2, GetcStays DEF Inv
<1>3. /\ tape' = new.tape /\ sio_data_exist' = (sio_data_exist \/ new.c # 0)
      /\ UNCHANGED <<rx, saved, fp_si, rs232, motor, rate>>
  BY DEF sio_intr, sysVars
<1> HIDE DEF new
<1>4. RateFollows'
  BY <1>2, <1>3 DEF Inv, RateFollows
<1> QED BY <1>1, <1>2, <1>3, <1>4 DEF Inv, BoolsOK, IsTape

LEMMA UpdateStep == ASSUME Inv, Update PROVE Inv'
<1> PICK serial \in CanSerial, over \in SUBSET CanBeOver : main_INT_update(serial, over)
  BY DEF Update
<1>1. /\ IsTape(tape') /\ BoolsOK' /\ RateFollows' /\ UNCHANGED <<rx, saved>>
      /\ sio_data_exist => sio_data_exist'
      /\ sio_data_exist' => sio_data_exist \/ rx
  BY SerialReads DEF main_INT_update, CanSerial
<1>2. PendingIsReal'
  <2> PICK ticks \in SUBSET {"VSYNC", "RTC"} :
         flags' = flags \cup (SerialRequest \cup SoundRequest) \cup (ticks \cap enabled)
    BY DEF main_INT_update, INT_update
  <2>1. UNCHANGED enabled
    BY DEF main_INT_update, INT_update
  <2>2. SerialRequest \subseteq enabled /\ SoundRequest \cap Masked = {}
    BY DEF SerialRequest, SoundRequest, Masked
  <2>3. flags' \cap Masked \subseteq enabled'
    BY <2>1, <2>2 DEF Inv, PendingIsReal
  <2>4. ASSUME "RS232C" \in flags' PROVE sio_data_exist' /\ rx'
    <3>1. "RS232C" \in flags \/ SerialRequest # {}
      BY <2>4 DEF SoundRequest
    <3> QED BY <3>1, <1>1 DEF Inv, PendingIsReal, SerialRequest
  <2> QED BY <2>3, <2>4 DEF PendingIsReal
<1>3. SavedOK'
  BY <1>1 DEF main_INT_update, progVars, Inv, SavedOK, SavedPending, SavedRate, SavedBools
<1> QED BY <1>1, <1>2, <1>3 DEF Inv

\* An interrupt that is taken takes its request down.
LEMMA AnswerStep == ASSUME Inv, Answer PROVE Inv'
BY DEF Inv, BoolsOK, PendingIsReal, SavedOK, SavedPending, SavedRate, SavedBools, IsTape,
       Answer, Check, INT_chk, RateFollows, sioVars, comVars, sysVars, usartVars

-----------------------------------------------------------------------------
(* The user                                                                *)

LEMMA MenuTapeStep == ASSUME Inv, MenuTape PROVE Inv'
<1>0. UNCHANGED <<flags, enabled, savedIntr>>
  BY DEF MenuTape, IntrStays, intrVars
<1>1. ASSUME NEW t \in Tapes, NEW opens \in BOOLEAN, TapeInsert(t, opens) PROVE Inv'
  <2>1. IsTape(tape')
    BY <1>1, RewoundStays, NewIsTape DEF TapeInsert, RewindTape
  <2>2. RateFollows'
    BY <1>1, RateSet DEF TapeInsert
  <2> QED BY <1>0, <1>1, <2>1, <2>2
          DEF TapeInsert, Inv, BoolsOK, PendingIsReal, SavedOK, SavedPending, SavedRate,
              SavedBools, IsTape, usartVars, comVars, sysVars
<1>2. CASE TapeRewind
  <2>1. IsTape(tape') /\ tape'.img = tape.img
    BY <1>2, RewoundStays DEF TapeRewind, RewindTape
  <2> QED BY <1>0, <1>2, <2>1
          DEF TapeRewind, Inv, BoolsOK, PendingIsReal, SavedOK, SavedPending, SavedRate,
              SavedBools, IsTape, RateFollows, usartVars, comVars, sysVars
<1>3. CASE TapeEject
  <2>1. IsTape(tape')
    BY <1>3, NewIsTape DEF TapeEject
  <2>2. RateFollows'
    BY <1>3, RateSet DEF TapeEject
  <2> QED BY <1>0, <1>3, <2>1, <2>2
          DEF TapeEject, Inv, BoolsOK, PendingIsReal, SavedOK, SavedPending, SavedRate,
              SavedBools, IsTape, usartVars, comVars, sysVars
<1> QED BY <1>1, <1>2, <1>3 DEF MenuTape

LEMMA MenuSerialStep == ASSUME Inv, MenuSerial PROVE Inv'
<1> PICK opens \in BOOLEAN : SerialConnect(opens)
  BY DEF MenuSerial
<1>1. RateFollows'
  BY RateSet DEF SerialConnect
<1> QED BY <1>1 DEF MenuSerial, IntrStays, intrVars, SerialConnect, Inv, BoolsOK,
                    PendingIsReal, SavedOK, SavedPending, SavedRate, SavedBools, IsTape,
                    usartVars, sysVars

\* After a reset nothing waits, and the receiver is off.
LEMMA MenuResetStep == ASSUME Inv, MenuReset PROVE Inv'
BY DEF MenuReset, SioReset, IntrReset, Inv, BoolsOK, PendingIsReal, RateFollows, Rate,
       SavedOK, SavedPending, SavedRate, SavedBools, IsTape, comVars

LEMMA MenuSaveStep == ASSUME Inv, MenuSave PROVE Inv'
BY DEF MenuSave, SioSave, IntrKept, Inv, BoolsOK, PendingIsReal, RateFollows,
       SavedOK, SavedPending, SavedRate, SavedBools, IsTape, intrVars, comVars, usartVars,
       sysVars

\* A load whose images do not open leaves the receive interrupt as the state
\* had it only if it had no image: it was off.
LEMMA MenuLoadStep == ASSUME Inv, MenuLoad PROVE Inv'
<1>1. ASSUME NEW opens \in BOOLEAN, NEW com \in BOOLEAN, SioLoad(opens, com),
             IntrRestore(savedIntr)
      PROVE  Inv'
  <2>0. saved # NoTape /\ UNCHANGED <<saved, savedIntr>>
    BY <1>1 DEF SioLoad, MenuLoad
  <2>1. SavedPending /\ SavedRate /\ SavedBools
    BY <2>0 DEF Inv, SavedOK
  <2>2. IsTape(tape') /\ (saved.tape.img = NoTape => tape'.img = NoTape)
    BY <1>1, RewoundStays, NewIsTape DEF SioLoad
  <2>3. BoolsOK'
    BY <1>1, <2>1 DEF SioLoad, BoolsOK, SavedBools
  <2>4. PendingIsReal'
    BY <1>1, <2>1 DEF SioLoad, IntrRestore, PendingIsReal, SavedPending
  <2>5. RateFollows'
    <3>1. CASE saved.tape.img = NoTape /\ ~saved.fp_si
      BY <1>1, <2>1, <2>2, <3>1 DEF SioLoad, RateFollows, SavedRate, Rate
    <3>2. CASE ~(saved.tape.img = NoTape /\ ~saved.fp_si)
      BY <1>1, <3>2, RateSet DEF SioLoad
    <3> QED BY <3>1, <3>2
  <2> QED BY <2>0, <2>1, <2>2, <2>3, <2>4, <2>5
          DEF Inv, SavedOK, SavedPending, SavedRate, SavedBools
<1>2. CASE SioLoadFails /\ IntrReset
  BY <1>2, NewIsTape
     DEF MenuLoad, SioLoadFails, IntrReset, Inv, BoolsOK, PendingIsReal, RateFollows, Rate,
         SavedOK, SavedPending, SavedRate, SavedBools
<1> QED BY <1>1, <1>2 DEF MenuLoad

LEMMA BoardResetStep == ASSUME Inv, BoardReset PROVE Inv'
BY DEF BoardReset, IntrReset, Inv, BoolsOK, PendingIsReal, RateFollows,
       SavedOK, SavedPending, SavedRate, SavedBools, IsTape, sioVars, comVars, usartVars,
       sysVars

-----------------------------------------------------------------------------
(* The theorems                                                            *)

LEMMA Initially == ASSUME Init PROVE Inv
<1> PICK t \in Tapes \cup {NoTape}, com \in BOOLEAN : SioInit(t, com)
  BY DEF Init
<1>1. IsTape(tape) /\ BoolsOK /\ RateFollows /\ saved = NoTape
  BY NewIsTape DEF SioInit, BoolsOK, RateFollows, Rate
<1>2. PendingIsReal
  BY DEF Init, IntrInit, PendingIsReal
<1> QED BY <1>1, <1>2 DEF Inv, SavedOK

LEMMA Stepwise == ASSUME Inv, [Next]_vars PROVE Inv'
<1>1. CASE UNCHANGED vars
  BY <1>1 DEF vars, progVars, intrVars, sioVars, comVars, usartVars, sysVars, Inv, BoolsOK,
              PendingIsReal, RateFollows, SavedOK, SavedPending, SavedRate, SavedBools,
              IsTape
<1>2. CASE Next
  BY <1>2, InstructionStep, UpdateStep, AnswerStep, MenuTapeStep, MenuSerialStep,
     MenuResetStep, MenuSaveStep, MenuLoadStep, BoardResetStep DEF Next
<1> QED BY <1>1, <1>2

LEMMA Invariance == Spec => []Inv
BY Initially, Stepwise, PTL DEF Spec

\* A request that waits is of a source that is let in, and one of the serial
\* port has a byte behind it, whatever the tapes, programs, resets and state
\* files.
THEOREM PendingIsRealHolds == Spec => []PendingIsReal
<1>1. Inv => PendingIsReal
  BY DEF Inv
<1> QED BY <1>1, Invariance, PTL

\* The receive interrupts come exactly while the port could receive, from
\* whichever of the nine places the period is set.
THEOREM RateFollowsHolds == Spec => []RateFollows
<1>1. Inv => RateFollows
  BY DEF Inv
<1> QED BY <1>1, Invariance, PTL
=============================================================================
