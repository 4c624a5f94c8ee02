-------------------------------- MODULE Fdc --------------------------------
(***************************************************************************)
(* The floppy disk controller of the PC-8801 disk unit (fdc.c), as the     *)
(* sub CPU and the menu drive it.                                          *)
(*                                                                         *)
(* The sub CPU reaches the controller through ports FBH (data), FAH        *)
(* (status) and F8H (TC).  Every access ends the run of the CPU            *)
(* (CPU_REFRESH_INTERRUPT), after which sub_INT_update calls               *)
(* fdc_ctrl(elapsed states); it is also called when the time it asked for  *)
(* has passed.  fdc_ctrl is a do-while loop over passes: `ctrl' says       *)
(* whether the CPU runs ("out"), a call is due ("call"), or the loop is in *)
(* its first or a later pass.  The CPU and the menu act only at "out", so  *)
(* a call is atomic for them, as in the code.                              *)
(*                                                                         *)
(* Time is abstract: a wait is zero, some positive time, or forever (-1).  *)
(* Bytes are the bytes the code decodes; the sector contents, C, H and N,  *)
(* the head load delay and the sounds are left out.                        *)
(***************************************************************************)
EXTENDS Integers, Sequences, FiniteSets, FiniteSetsExt

CONSTANTS
  MaxDrive,     \* MAX_DRIVE: units a command can name (4)
  NrDrive,      \* NR_DRIVE: drives that exist (2)
  fdc_wait,     \* the option: TRUE emulates seek and transfer times
  CmdBytes,     \* command bytes the sub CPU may write
  UnitBytes,    \* values of c1: the unit in bits 0-1, the head in bit 2
  CylBytes,     \* values of cn: the cylinder to seek
  RBytes, EotBytes, \* first and last sector number
  Polite,       \* TRUE: the sub CPU obeys REQ_MASTER and DATA_IO
  Disks, NoDisk,
  Protected,    \* disks with the write protect tab
  Menu,         \* when the user may change disks: "never", "idle", "any"
  IoErrors,     \* TRUE: writing the image file may fail
  SecLen,       \* bytes of a sector: 128 << n in the code
  FormatLen,    \* bytes of a WRITE ID: sc * 4 in the code
  RWrap,        \* r is a Uchar: 256 in the code, smaller in a run
  Window        \* calls of fdc_ctrl that fit in the time set in fdc.limit

ASSUME UnitsAssumption == /\ MaxDrive \in Nat \ {0}
                          /\ NrDrive \in 1..MaxDrive
ASSUME OptionAssumption == /\ fdc_wait \in BOOLEAN
                           /\ Polite \in BOOLEAN
                           /\ IoErrors \in BOOLEAN
                           /\ Menu \in {"never", "idle", "any"}
ASSUME BytesAssumption == /\ CmdBytes \subseteq 0..255
                          /\ UnitBytes \subseteq 0..255
                          /\ CylBytes \subseteq 0..255
                          /\ RBytes \subseteq 0..255
                          /\ EotBytes \subseteq 0..255
ASSUME DisksAssumption == /\ NoDisk \notin Disks
                          /\ Protected \subseteq Disks
ASSUME LengthAssumption == /\ SecLen \in Nat \ {0}
                           /\ FormatLen \in Nat \ {0}
                           /\ RWrap \in Nat \ {0}
                           /\ Window \in Nat \ {0}

Units  == 0..(MaxDrive - 1)
Drives == 0..(NrDrive - 1)
NoUnit == MaxDrive                \* fdc.intr_unit = 4: nothing to report
NoDrv  == -1                      \* sec_buf.drv = -1: contents not valid

ReadSector  == {"READ_DATA", "READ_DELETED_DATA"}
ReadCmds    == ReadSector \cup {"READ_DIAGNOSTIC", "READ_ID"}
WriteSect   == {"WRITE_DATA", "WRITE_DELETED_DATA"}
WriteCmds   == WriteSect \cup {"WRITE_ID"}
SeekCmds    == {"SEEK", "RECALIBRATE"}
ScanCmds    == {"SCAN_EQUAL", "SCAN_LOW_OR_EQUAL", "SCAN_HIGH_OR_EQUAL"}
SenseCmds   == {"SENSE_INT_STATUS", "SENSE_DEVICE_STATUS", "INVALID"}
Commands    == ReadCmds \cup WriteCmds \cup SeekCmds \cup ScanCmds
                 \cup SenseCmds \cup {"SPECIFY"}

\* The command a first byte asks for: the low five bits select it.
Decode(b) ==
  CASE b % 32 = 6  -> "READ_DATA"        [] b % 32 = 12 -> "READ_DELETED_DATA"
    [] b % 32 = 10 -> "READ_ID"          [] b % 32 = 13 -> "WRITE_ID"
    [] b % 32 = 5  -> "WRITE_DATA"       [] b % 32 = 9  -> "WRITE_DELETED_DATA"
    [] b % 32 = 2  -> "READ_DIAGNOSTIC"  [] b % 32 = 17 -> "SCAN_EQUAL"
    [] b % 32 = 25 -> "SCAN_LOW_OR_EQUAL"
    [] b % 32 = 29 -> "SCAN_HIGH_OR_EQUAL"
    [] b % 32 = 15 -> "SEEK"             [] b % 32 = 7  -> "RECALIBRATE"
    [] b % 32 = 8  -> "SENSE_INT_STATUS" [] b % 32 = 4  -> "SENSE_DEVICE_STATUS"
    [] b % 32 = 3  -> "SPECIFY"          [] OTHER       -> "INVALID"

\* Bytes of the command phase, the command byte included (table of c_phase).
Params(cmd) ==
  CASE cmd \in {"READ_DATA", "READ_DELETED_DATA", "READ_DIAGNOSTIC"}
              \cup WriteSect \cup ScanCmds ->
         <<"c0", "c1", "c", "h", "r", "n", "eot", "gpl", "dtl">>
    [] cmd = "WRITE_ID" -> <<"c0", "c1", "n", "sc", "gpl", "d">>
    [] cmd = "SEEK"     -> <<"c0", "c1", "cn">>
    [] cmd = "SPECIFY"  -> <<"c0", "s0", "s1">>
    [] cmd \in {"READ_ID", "RECALIBRATE", "SENSE_DEVICE_STATUS"} -> <<"c0", "c1">>
    [] OTHER -> <<"c0">>

\* Bytes of the result phase (table of r_phase).
Results(cmd) == CASE cmd \in ReadCmds \cup WriteCmds -> 7
                  [] cmd = "SENSE_INT_STATUS" -> 2
                  [] OTHER -> 1

VARIABLES
  command, phase, step, wait, \* fdc.command, .phase, .step, .wait
  limit,      \* fdc.limit, in calls of fdc_ctrl still to come
  TC,         \* fdc.TC
  counter, data_ptr,          \* bytes still to move, index in data_buf
  fd_busy,    \* the FDn_BUSY bits of fdc.status
  status,     \* the other bits of fdc.status
  write,      \* fdc.write: the byte the host wrote
  seek_stat, ncn, pcn,        \* per unit
  intr_unit,  \* the unit the next SENSE INT STATUS reports
  c0, c1, hd, r, eot,         \* what the command bytes said
  ic,         \* the interrupt code in fdc.st0: "NT" normal, "AT" abnormal
  ddam_not_skipped,
  FDC_flag,   \* the interrupt line to the sub CPU
  drive,      \* the disk in each drive
  sec_buf,    \* the one sector ID buffer: its drive, and the disk it is of
  ctrl,       \* where fdc_ctrl is
  tcSeen,     \* history: TC was raised since the command began
  target,     \* history: the disk on which the last ID search succeeded
  failed      \* history: the command has failed to write a sector

cmdVars  == <<command, phase, step>>
xferVars == <<limit, counter, data_ptr, ic, ddam_not_skipped>>
argVars  == <<c0, c1, hd, r, eot>>
seekVars == <<seek_stat, ncn, pcn, fd_busy, intr_unit>>
diskVars == <<drive, sec_buf>>
histVars == <<tcSeen, target, failed>>
vars == <<cmdVars, xferVars, argVars, seekVars, diskVars, histVars,
          wait, TC, status, write, FDC_flag, ctrl>>

StatusBits == {"FDC_BUSY", "NON_DMA", "DATA_IO", "REQ_MASTER"}
Waits      == {"zero", "some", "forever"}
MaxStep    == 10                  \* the widest row of the tables

CmdTypeOK ==
  /\ command \in Commands \cup {"WAIT"} /\ phase \in {"C", "E", "R"}
  /\ step \in 0..MaxStep
  /\ c0 \in 0..255 /\ c1 \in 0..255 /\ hd \in {0, 1}
  /\ r \in Nat /\ eot \in 0..255
XferTypeOK ==
  /\ limit \in 0..Window /\ counter \in Nat /\ data_ptr \in Nat
  /\ ic \in {"NT", "AT"}
FlagTypeOK ==
  /\ TC \in BOOLEAN /\ FDC_flag \in BOOLEAN
  /\ tcSeen \in BOOLEAN /\ failed \in BOOLEAN
  /\ ddam_not_skipped \in BOOLEAN
LineTypeOK ==
  /\ wait \in Waits /\ ctrl \in {"out", "call", "first", "again"}
  /\ status \subseteq StatusBits /\ write \in 0..255
SeekTypeOK ==
  /\ seek_stat \in [Units -> {"STOP", "MOVE", "END", "INTR"}]
  /\ ncn \in [Units -> 0..255] /\ pcn \in [Units -> 0..255]
  /\ fd_busy \subseteq Units /\ intr_unit \in Units \cup {NoUnit}
DiskTypeOK ==
  /\ drive \in [Drives -> Disks \cup {NoDisk}]
  /\ sec_buf \in [drv : Drives \cup {NoDrv}, of : Disks \cup {NoDisk}]
  /\ target \in Disks \cup {NoDisk}

\* Every variable stays within its type: the byte counter never runs below
\* zero, the step never leaves the tables, a unit number is a unit.
TypeOK == /\ CmdTypeOK /\ XferTypeOK /\ LineTypeOK /\ FlagTypeOK
          /\ SeekTypeOK /\ DiskTypeOK

-----------------------------------------------------------------------------
\* drive_init, and the disks the program was started with.
Init ==
  /\ command = "WAIT" /\ phase = "C" /\ step = 0 /\ wait = "zero"
  /\ limit = 0 /\ TC = FALSE /\ counter = 0 /\ data_ptr = 0
  /\ fd_busy = {} /\ status = {"REQ_MASTER"} /\ write = 255
  /\ seek_stat = [u \in Units |-> "STOP"]
  /\ ncn = [u \in Units |-> 0] /\ pcn = [u \in Units |-> 0]
  /\ intr_unit = NoUnit
  /\ c0 = 0 /\ c1 = 0 /\ hd = 0 /\ r = 0 /\ eot = 0
  /\ ic = "NT" /\ ddam_not_skipped = FALSE /\ FDC_flag = FALSE
  /\ drive \in [Drives -> Disks \cup {NoDisk}]
  /\ sec_buf = [drv |-> NoDrv, of |-> NoDisk]
  /\ ctrl = "out" /\ tcSeen = FALSE /\ target = NoDisk /\ failed = FALSE

Rqm    == "REQ_MASTER" \in status
InPass == ctrl \in {"first", "again"}

\* What is left of a wait set in this pass: the time by which the first pass
\* of a call came late (rest) may use it up.
WaitLeft(w) == IF w = "some" /\ ctrl = "first" THEN {"some", "zero"} ELSE {w}

\* How a pass ends: the loop goes on while the wait is zero.
EndPass(w) == \E left \in WaitLeft(w) :
                /\ wait' = left
                /\ ctrl' = IF left = "zero" THEN "again" ELSE "out"

\* ICOUNT(x) followed by REPEAT(): the time x passes only with fdc_wait.
Delays == IF fdc_wait THEN {"zero", "some"} ELSE {"zero"}
Delay  == \E w \in Delays : EndPass(w)

\* What is left of fdc.limit: only the first pass of a call sees time pass,
\* and some always has, since the CPU ran at least one instruction.
LimitAfter == IF ctrl = "first" /\ limit > 0 THEN 0..(limit - 1) ELSE {limit}

\* fdc.us, fdc.mt and fdc.sk, as the end of the command phase sets them.
Us == c1 % MaxDrive
Mt == command # "READ_DIAGNOSTIC" /\ c0 >= 128
Sk == command \in ReadSector /\ (c0 \div 32) % 2 = 1

\* What the next byte written is taken for: the values worth writing.
BytesFor(p) == CASE p = "c0"  -> CmdBytes  [] p = "c1"  -> UnitBytes
                 [] p = "cn"  -> CylBytes  [] p = "r"   -> RBytes
                 [] p = "eot" -> EotBytes  [] OTHER     -> {0}
HostBytes ==
  IF command = "WAIT" THEN CmdBytes
  ELSE IF phase = "C" /\ step < Len(Params(command))
       THEN BytesFor(Params(command)[step + 1]) ELSE {0}

-----------------------------------------------------------------------------
\* The sub CPU.  Each access ends its run, and fdc_ctrl is called.

HostActs == ctrl = "out" /\ ctrl' = "call"

OutData(b) ==
  /\ HostActs /\ "DATA_IO" \notin status /\ (Polite => Rqm)
  /\ status' = status \ {"REQ_MASTER"} /\ write' = b
  /\ UNCHANGED <<cmdVars, xferVars, argVars, seekVars, diskVars, histVars,
                 wait, TC, FDC_flag>>

InData ==
  /\ HostActs /\ "DATA_IO" \in status /\ (Polite => Rqm)
  /\ status' = status \ {"REQ_MASTER"}
  /\ UNCHANGED <<cmdVars, xferVars, argVars, seekVars, diskVars, histVars,
                 wait, TC, write, FDC_flag>>

RaiseTC ==
  /\ HostActs /\ TC' = TRUE /\ tcSeen' = TRUE
  /\ UNCHANGED <<cmdVars, xferVars, argVars, seekVars, diskVars, target,
                 failed, wait, status, write, FDC_flag>>

\* A read of the status port, or the time fdc_ctrl asked for has passed.
Poll ==
  /\ HostActs
  /\ UNCHANGED <<cmdVars, xferVars, argVars, seekVars, diskVars, histVars,
                 wait, TC, status, write, FDC_flag>>

-----------------------------------------------------------------------------
\* fdc_ctrl: the head of a call.  The wait runs down to w, and the drives of
\* D, which are seeking, have waited long enough for their next step.

Moving == {d \in Drives : seek_stat[d] = "MOVE"}

WaitAfter == CASE wait = "some" -> {"zero", "some"} [] OTHER -> {"zero"}

OneStep(from, to) == IF from < to THEN from + 1 ELSE from - 1

CtrlEnter(w, D) ==
  /\ ctrl = "call" /\ w \in WaitAfter
  /\ seek_stat' = [u \in Units |-> IF u \in D /\ ncn[u] = pcn[u]
                                   THEN "END" ELSE seek_stat[u]]
  /\ pcn' = [u \in Units |-> IF u \in D /\ ncn[u] # pcn[u]
                             THEN OneStep(pcn[u], ncn[u]) ELSE pcn[u]]
  /\ wait' = w
  /\ ctrl' = IF command # "WAIT" /\ w # "zero" THEN "out" ELSE "first"
  /\ UNCHANGED <<cmdVars, xferVars, argVars, ncn, fd_busy, intr_unit,
                 diskVars, histVars, TC, status, write, FDC_flag>>

-----------------------------------------------------------------------------
\* A pass while no command is in hand.

WaitReceive ==
  /\ InPass /\ command = "WAIT" /\ ~Rqm
  /\ command' = Decode(write) /\ phase' = "C" /\ step' = 0
  /\ TC' = FALSE /\ tcSeen' = FALSE /\ failed' = FALSE
  /\ wait' = "zero" /\ ctrl' = "out"
  /\ UNCHANGED <<xferVars, argVars, seekVars, diskVars, target, status,
                 write, FDC_flag>>

Loaded(d) == [drv |-> d, of |-> drive[d]]

Ended == {u \in Units : seek_stat[u] = "END"}

Lowest(S) == {u \in S : \A v \in S : u <= v}      \* the for loops over units

\* The first seek that has ended is reported, one per call.
SeekReported(u) ==
  /\ seek_stat' = [seek_stat EXCEPT ![u] = "INTR"] /\ FDC_flag' = TRUE
  /\ sec_buf' = IF u \in Drives /\ sec_buf.drv = NoDrv
                THEN IF drive[u] # NoDisk THEN Loaded(u) ELSE sec_buf
                ELSE sec_buf

WaitIdle ==
  /\ InPass /\ command = "WAIT" /\ Rqm
  /\ \/ \E u \in Lowest(Ended) : SeekReported(u)
     \/ Ended = {} /\ UNCHANGED <<seek_stat, FDC_flag, sec_buf>>
  /\ EndPass("forever")
  /\ UNCHANGED <<cmdVars, xferVars, argVars, ncn, pcn, fd_busy, intr_unit,
                 drive, histVars, TC, status, write>>

-----------------------------------------------------------------------------
\* c_phase.

InC == InPass /\ command # "WAIT" /\ phase = "C"

CPhaseHold ==
  /\ InC /\ Rqm /\ EndPass("forever")
  /\ UNCHANGED <<cmdVars, xferVars, argVars, seekVars, diskVars, histVars,
                 TC, status, write, FDC_flag>>

\* The byte goes where the table says; past the end of the table there is
\* nowhere to put it (the entry is a null pointer) and the program stops.
TakeByte ==
  /\ ~Rqm /\ step < Len(Params(command))
  /\ LET p == Params(command)[step + 1]
     IN /\ c0'  = IF p = "c0"  THEN write ELSE c0
        /\ c1'  = IF p = "c1"  THEN write ELSE c1
        /\ r'   = IF p = "r"   THEN write ELSE r
        /\ eot' = IF p = "eot" THEN write ELSE eot

LastByte == step + 1 = Len(Params(command))

CPhaseByte ==
  /\ InC /\ TakeByte /\ ~LastByte
  /\ status' = {"FDC_BUSY", "REQ_MASTER"} /\ step' = step + 1
  /\ EndPass("forever")
  /\ UNCHANGED <<command, phase, xferVars, hd, seekVars, diskVars, histVars,
                 TC, write, FDC_flag>>

Notified == {u \in Units : seek_stat[u] = "INTR"}

\* Mutant: the seek state is left at SEEK_STAT_INTR.
TakeIntrNotStopped ==
  IF FDC_flag
  THEN /\ FDC_flag' = FALSE /\ UNCHANGED seek_stat
       /\ \E u \in Lowest(Notified) : fd_busy' = fd_busy \ {u} /\ intr_unit' = u
  ELSE UNCHANGED <<seek_stat, fd_busy, intr_unit, FDC_flag>>

\* Mutant: fdc_cancel_interrupt is forgotten.
TakeIntrNotCancelled ==
  IF FDC_flag /\ Notified # {}
  THEN /\ UNCHANGED FDC_flag
       /\ \E u \in Lowest(Notified) :
            /\ seek_stat' = [seek_stat EXCEPT ![u] = "STOP"]
            /\ fd_busy' = fd_busy \ {u} /\ intr_unit' = u
  ELSE UNCHANGED <<seek_stat, fd_busy, intr_unit, FDC_flag>>

\* A pending interrupt is taken over by whatever command comes next.
TakeIntr ==
  \/ /\ ~FDC_flag /\ UNCHANGED <<seek_stat, fd_busy, intr_unit, FDC_flag>>
  \/ /\ FDC_flag /\ FDC_flag' = FALSE
     /\ \E u \in Lowest(Notified) :
          /\ seek_stat' = [seek_stat EXCEPT ![u] = "STOP"]
          /\ fd_busy' = fd_busy \ {u} /\ intr_unit' = u
  \/ /\ FDC_flag /\ FDC_flag' = FALSE /\ Notified = {}
     /\ intr_unit' = NoUnit /\ UNCHANGED <<seek_stat, fd_busy>>

\* All bytes are in: the command starts.
StartCommand ==
  /\ status' = CASE command \in ReadCmds \cup SenseCmds -> {"FDC_BUSY", "DATA_IO"}
                 [] command \in WriteCmds \cup SeekCmds -> {"FDC_BUSY"}
                 [] OTHER                               -> {"REQ_MASTER"}
  /\ phase' = CASE command \in ReadCmds \cup WriteCmds \cup SeekCmds -> "E"
                [] command \in SenseCmds -> "R"
                [] OTHER                 -> phase
  /\ command' = IF command = "SPECIFY" THEN "WAIT" ELSE command
  /\ ncn' = CASE command = "SEEK"        -> [ncn EXCEPT ![Us'] = write]
              [] command = "RECALIBRATE" -> [ncn EXCEPT ![Us'] = 0]
              [] OTHER                   -> ncn

CPhaseLast ==
  /\ InC /\ TakeByte /\ LastByte /\ command \notin ScanCmds
  /\ TakeIntr /\ StartCommand
  /\ hd' = (c1' \div 4) % 2 /\ step' = 0
  /\ EndPass("zero")
  /\ UNCHANGED <<xferVars, pcn, diskVars, histVars, TC, write>>

\* The SCAN commands are read in and refused: the switch's default returns
\* with REQ_MASTER still low and step past the last byte.
CPhaseScan ==
  /\ InC /\ TakeByte /\ LastByte /\ command \in ScanCmds
  /\ TakeIntr /\ hd' = (c1' \div 4) % 2 /\ step' = step + 1
  /\ EndPass("forever")
  /\ UNCHANGED <<command, phase, xferVars, ncn, pcn, diskVars, histVars, TC,
                 status, write>>

-----------------------------------------------------------------------------
\* e_phase_seek.

SeekDone == Us \notin Drives \/ pcn[Us] = ncn[Us]

\* With fdc_wait off the head arrives at once; with it on, step by step.
SeekPass ==
  /\ InPass /\ command \in SeekCmds /\ phase = "E"
  /\ status' = {"REQ_MASTER"} /\ fd_busy' = fd_busy \cup {Us}
  /\ sec_buf' = IF SeekDone /\ sec_buf.drv = Us THEN sec_buf
                ELSE [sec_buf EXCEPT !.drv = NoDrv]
  /\ IF SeekDone \/ ~fdc_wait
     THEN /\ seek_stat' = [seek_stat EXCEPT ![Us] = "END"]
          /\ pcn' = IF SeekDone THEN pcn ELSE [pcn EXCEPT ![Us] = ncn[Us]]
          /\ EndPass("zero")
     ELSE /\ seek_stat' = [seek_stat EXCEPT ![Us] = "MOVE"]
          /\ pcn' = [pcn EXCEPT ![Us] = OneStep(pcn[Us], ncn[Us])]
          /\ EndPass("forever")
  /\ command' = "WAIT" /\ step' = 0
  /\ UNCHANGED <<phase, xferVars, argVars, ncn, intr_unit, drive, histVars,
                 TC, write, FDC_flag>>

-----------------------------------------------------------------------------
\* Step 0 of a read or write: fdc_check_unit and fdc_search_id.

Exec(cmds, n) == InPass /\ phase = "E" /\ command \in cmds /\ step = n

Finish == IF command \in WriteSect THEN 5 ELSE 4      \* step that ends E-PHASE

\* A drive that does not exist, or any drive seeking, is refused at once.
UnitRefused == Us \notin Drives \/ fd_busy # {}

Present == ~UnitRefused /\ drive[Us] # NoDisk

WriteBarred == command \in WriteCmds /\ drive[Us] \in Protected

\* The ID buffer after a search: it is read anew when it is another drive's,
\* when the head moves, and whenever the search passes a sector.
\* (Mutant first: the buffer is taken for this drive's without a look.)
SecBufUnlabelled == {Loaded(Us), sec_buf}

SecBufSearched == {Loaded(Us)} \cup IF sec_buf.drv = Us THEN {sec_buf} ELSE {}

NoSkip == ddam_not_skipped' = IF command \in ReadCmds THEN FALSE
                              ELSE ddam_not_skipped

SearchNoDisk ==
  /\ Exec(ReadCmds \cup WriteCmds, 0)
  /\ ~UnitRefused /\ drive[Us] = NoDisk
  /\ NoSkip /\ EndPass("some")
  /\ UNCHANGED <<cmdVars, limit, counter, data_ptr, ic, argVars, seekVars,
                 diskVars, histVars, TC, status, write, FDC_flag>>

SearchFails ==
  /\ Exec(ReadCmds \cup WriteCmds, 0)
  /\ \/ (UnitRefused \/ (Present /\ WriteBarred)) /\ UNCHANGED sec_buf
     \/ /\ Present /\ ~WriteBarred /\ command # "WRITE_ID"
        /\ sec_buf' \in SecBufSearched
  /\ ic' = "AT" /\ step' = Finish /\ NoSkip /\ Delay
  /\ UNCHANGED <<command, phase, limit, counter, data_ptr, argVars, seekVars,
                 drive, histVars, TC, status, write, FDC_flag>>

\* READ ID ends with the first ID that passes under the head.
ReadIdFound ==
  /\ Exec({"READ_ID"}, 0) /\ Present
  /\ sec_buf' = Loaded(Us) /\ ic' = "NT" /\ step' = 4 /\ NoSkip /\ Delay
  /\ UNCHANGED <<command, phase, limit, counter, data_ptr, argVars, seekVars,
                 drive, histVars, TC, status, write, FDC_flag>>

\* READ DIAGNOSTIC on a sector without data mark: the search starts over.
ReadDiagHang ==
  /\ Exec({"READ_DIAGNOSTIC"}, 0) /\ Present
  /\ sec_buf' = Loaded(Us) /\ NoSkip /\ EndPass("some")
  /\ UNCHANGED <<cmdVars, limit, counter, data_ptr, ic, argVars, seekVars,
                 drive, histVars, TC, status, write, FDC_flag>>

\* fdc_next_chrn, and what it returns.
AtEot == r = eot /\ (Mt => hd = 1)

\* Mutant: a multi-track command does not go over to the other head.
NextChrnOneHead(with_TC) ==
  /\ UNCHANGED hd
  /\ r' = IF r # eot THEN (r + 1) % RWrap
          ELSE IF AtEot /\ ~with_TC THEN r ELSE 1

NextChrn(with_TC) ==
  /\ hd' = IF Mt /\ r = eot THEN 1 ELSE hd
  /\ r' = IF r # eot THEN (r + 1) % RWrap
          ELSE IF AtEot /\ ~with_TC THEN r ELSE 1

\* Mutant: running past the last sector is not an error.
CylinderEndNormal(i) == ic' = i /\ step' = Finish

\* The command ran past the last sector (ST0_IC_AT, ST1_EN); i was the code.
CylinderEnd(i) == ic' = "AT" /\ step' = Finish

\* The sector is there, but its deleted mark is not the one asked for and
\* the command says to skip such sectors.
ReadSkip ==
  /\ Exec(ReadSector, 0) /\ Present /\ Sk
  /\ sec_buf' \in SecBufSearched /\ NextChrn(FALSE) /\ NoSkip
  /\ IF AtEot THEN CylinderEnd("NT") ELSE ic' = "NT" /\ step' = 0
  /\ Delay
  /\ UNCHANGED <<command, phase, limit, counter, data_ptr, c0, c1, eot,
                 seekVars, drive, histVars, TC, status, write, FDC_flag>>

\* The sector is read into data_buf; mismatch is its deleted mark.
ReadFound(mismatch) ==
  /\ Exec(ReadSector \cup {"READ_DIAGNOSTIC"}, 0) /\ Present
  /\ mismatch => command \in ReadSector /\ ~Sk
  /\ ddam_not_skipped' = mismatch
  /\ ic' \in IF command = "READ_DIAGNOSTIC" THEN {"NT"} ELSE {"NT", "AT"}
  /\ data_ptr' = 0 /\ counter' = SecLen /\ step' = 1
  /\ sec_buf' = Loaded(Us) /\ Delay
  /\ UNCHANGED <<command, phase, limit, argVars, seekVars, drive, histVars,
                 TC, status, write, FDC_flag>>

WriteFound ==
  /\ Exec(WriteCmds, 0) /\ Present /\ ~WriteBarred
  /\ ic' = "NT" /\ step' = 1 /\ data_ptr' = 0
  /\ counter' = IF command = "WRITE_ID" THEN FormatLen ELSE SecLen
  /\ sec_buf' \in IF command = "WRITE_ID" THEN {Loaded(Us)} ELSE SecBufSearched
  /\ target' = drive[Us] /\ Delay
  /\ UNCHANGED <<command, phase, limit, ddam_not_skipped, argVars, seekVars,
                 drive, tcSeen, failed, TC, status, write, FDC_flag>>

-----------------------------------------------------------------------------
\* Bytes to the host: e_phase_read_send, _recv and _end.

TcEndsTransfer == TC /\ data_ptr > 0       \* TC counts after the first byte

SendByte ==
  /\ Exec(ReadCmds, 1) /\ ~TcEndsTransfer
  /\ FDC_flag' = TRUE /\ status' = StatusBits
  /\ data_ptr' = data_ptr + 1 /\ limit' = Window /\ step' = 2
  /\ EndPass("forever")
  /\ UNCHANGED <<command, phase, counter, ic, ddam_not_skipped, argVars,
                 seekVars, diskVars, histVars, TC, write>>

\* Steps 1 and 2 of a read or write: TC cuts the sector short.
TransferCut ==
  /\ \/ Exec(ReadCmds \cup WriteCmds, 1) /\ TcEndsTransfer /\ UNCHANGED FDC_flag
     \/ Exec(ReadCmds \cup WriteCmds, 2) /\ TC /\ FDC_flag' = FALSE
  /\ limit' = 0 /\ step' = 3 /\ Delay
  /\ UNCHANGED <<command, phase, counter, data_ptr, ic, ddam_not_skipped,
                 argVars, seekVars, diskVars, histVars, TC, status, write>>

\* Mutant: the counter is tested before it is decremented.
ByteMovedLate ==
  /\ counter' = counter - 1 /\ FDC_flag' = FALSE /\ limit' = 0
  /\ step' = IF counter = 0 THEN 3 ELSE 1
  /\ Delay

\* The host has moved a byte: the next one, or the end of the sector, where
\* TC may still arrive for a while (WRITE ID waits for nothing: GAP4 is 0).
ByteMoved ==
  /\ counter' = counter - 1 /\ FDC_flag' = FALSE
  /\ limit' = IF counter' = 0 /\ command # "WRITE_ID" THEN Window ELSE 0
  /\ step' = IF counter' = 0 THEN 3 ELSE 1
  /\ Delay

RecvDone ==
  /\ Exec(ReadCmds, 2) /\ ~TC /\ ~Rqm /\ ByteMoved
  /\ UNCHANGED <<command, phase, data_ptr, ic, ddam_not_skipped, argVars,
                 seekVars, diskVars, histVars, TC, status, write>>

\* The host has not moved the byte yet; an overrun is not reported.
TransferHold ==
  /\ Exec(ReadCmds \cup WriteCmds, 2) /\ ~TC /\ Rqm
  /\ limit' \in LimitAfter /\ EndPass("forever")
  /\ UNCHANGED <<cmdVars, counter, data_ptr, ic, ddam_not_skipped, argVars,
                 seekVars, diskVars, histVars, TC, status, write, FDC_flag>>

\* The sector had a CRC error.
ReadEndError ==
  /\ Exec(ReadCmds, 3) /\ command # "READ_DIAGNOSTIC" /\ ic = "AT"
  /\ limit' = 0 /\ step' = Finish /\ Delay
  /\ UNCHANGED <<command, phase, counter, data_ptr, ic, ddam_not_skipped,
                 argVars, seekVars, diskVars, histVars, TC, status, write,
                 FDC_flag>>

InReadEnd == /\ Exec(ReadCmds, 3)
             /\ command = "READ_DIAGNOSTIC" \/ ic = "NT"

\* Normal end.  A sector read in spite of its deleted mark stays the current one.
ReadEndTC ==
  /\ InReadEnd /\ TC
  /\ \/ ddam_not_skipped /\ UNCHANGED <<hd, r>>
     \/ ~ddam_not_skipped /\ NextChrn(TRUE)
  /\ limit' = 0 /\ step' = Finish /\ Delay
  /\ UNCHANGED <<command, phase, counter, data_ptr, ic, ddam_not_skipped,
                 c0, c1, eot, seekVars, diskVars, histVars, TC, status, write,
                 FDC_flag>>

\* No TC in time: the next sector, or the end of the cylinder.
ReadEndNext ==
  /\ InReadEnd /\ ~TC /\ 0 \in LimitAfter /\ limit' = 0
  /\ \/ ddam_not_skipped /\ UNCHANGED <<hd, r>> /\ CylinderEnd(ic)
     \/ ~ddam_not_skipped /\ AtEot /\ NextChrn(FALSE) /\ CylinderEnd(ic)
     \/ /\ ~ddam_not_skipped /\ ~AtEot /\ NextChrn(FALSE)
        /\ step' = 0 /\ UNCHANGED ic
  /\ EndPass("zero")
  /\ UNCHANGED <<command, phase, counter, data_ptr, ddam_not_skipped, c0, c1,
                 eot, seekVars, diskVars, histVars, TC, status, write, FDC_flag>>

ReadEndWait ==
  /\ InReadEnd /\ ~TC
  /\ limit' \in LimitAfter \ {0} /\ EndPass("some")
  /\ UNCHANGED <<cmdVars, counter, data_ptr, ic, ddam_not_skipped, argVars,
                 seekVars, diskVars, histVars, TC, status, write, FDC_flag>>

\* e_phase_finish.
FinishUp == /\ TC' = FALSE /\ status' = {"FDC_BUSY", "DATA_IO"}
            /\ phase' = "R" /\ step' = 0 /\ EndPass("zero")

EPhaseFinish ==
  /\ Exec(ReadCmds \cup WriteCmds, Finish) /\ FinishUp
  /\ UNCHANGED <<command, xferVars, argVars, seekVars, diskVars, histVars,
                 write, FDC_flag>>

-----------------------------------------------------------------------------
\* Bytes from the host: e_phase_write_request and _respond.

RequestByte ==
  /\ Exec(WriteCmds, 1) /\ ~TcEndsTransfer
  /\ FDC_flag' = TRUE /\ status' = StatusBits \ {"DATA_IO"}
  /\ limit' = Window /\ step' = 2 /\ EndPass("forever")
  /\ UNCHANGED <<command, phase, counter, data_ptr, ic, ddam_not_skipped,
                 argVars, seekVars, diskVars, histVars, TC, write>>

RespondDone ==
  /\ Exec(WriteCmds, 2) /\ ~TC /\ ~Rqm
  /\ data_ptr' = data_ptr + 1 /\ ByteMoved
  /\ UNCHANGED <<command, phase, ic, ddam_not_skipped, argVars, seekVars,
                 diskVars, histVars, TC, status, write>>

\* fdc_write_data and fdc_write_id, onto the disk that is in the drive now:
\* the interrupt code i they leave, and what the ID buffer then holds.
Writable == drive[Us] # NoDisk /\ drive[Us] \notin Protected

WriteOut(i, buf) ==
  \/ i = "AT" /\ ~Writable /\ failed' = TRUE /\ UNCHANGED sec_buf
  \/ i = "NT" /\ Writable /\ UNCHANGED failed /\ sec_buf' = buf
  \/ i = "AT" /\ Writable /\ IoErrors /\ failed' = TRUE /\ sec_buf' = buf

\* The track is formatted, and then read from its first sector on.
fdc_write_id(i) == WriteOut(i, Loaded(Us))

\* e_phase_writeid_track, then e_phase_finish in the same pass.  What is
\* missing of the last ID is padded.
WriteIdTrack ==
  /\ Exec({"WRITE_ID"}, 3)
  /\ counter' = counter - (counter % 4) /\ data_ptr' = data_ptr + (counter % 4)
  /\ \E i \in {"NT", "AT"} : ic' = i /\ fdc_write_id(i)
  /\ limit' = 0 /\ FinishUp
  /\ UNCHANGED <<command, ddam_not_skipped, argVars, seekVars, drive, tcSeen,
                 target, write, FDC_flag>>

\* e_phase_write_end, for a sector whose writing ended with code i: only TC
\* and the end of the cylinder decide what comes next.
WriteEnd(i) ==
  \/ /\ TC /\ NextChrn(TRUE)
     /\ limit' = 0 /\ step' = Finish /\ ic' = i /\ Delay
  \/ /\ ~TC /\ 0 \in LimitAfter /\ limit' = 0 /\ NextChrn(FALSE)
     /\ \/ AtEot /\ CylinderEnd(i)
        \/ ~AtEot /\ step' = 0 /\ ic' = i
     /\ EndPass("zero")
  \/ /\ ~TC /\ limit' \in LimitAfter \ {0} /\ UNCHANGED <<hd, r>>
     /\ step' = 4 /\ ic' = i /\ EndPass("some")

\* e_phase_write_sector and e_phase_write_end in one pass; what is missing
\* of the sector is padded.  The ID buffer is read from drive us, but keeps
\* the number of the drive it was read from before.
WriteSector ==
  /\ Exec(WriteSect, 3)
  /\ counter' = 0 /\ data_ptr' = data_ptr + counter
  /\ \E i \in {"NT", "AT"} :
       WriteOut(i, [sec_buf EXCEPT !.of = drive[Us]]) /\ WriteEnd(i)
  /\ UNCHANGED <<command, phase, ddam_not_skipped, c0, c1, eot, seekVars,
                 drive, tcSeen, target, TC, status, write, FDC_flag>>

WriteEndLate ==
  /\ Exec(WriteSect, 4) /\ WriteEnd(ic)
  /\ UNCHANGED <<command, phase, counter, data_ptr, ddam_not_skipped, c0, c1,
                 eot, seekVars, diskVars, histVars, TC, status, write, FDC_flag>>

-----------------------------------------------------------------------------
\* r_phase.

InR == InPass /\ command # "WAIT" /\ phase = "R"

\* SENSE INT STATUS with nothing to report turns into INVALID; the commands
\* that moved data raise the interrupt.
RStart ==
  /\ InR /\ step = 0
  /\ \/ /\ command = "SENSE_INT_STATUS" /\ intr_unit' = NoUnit
        /\ command' = IF intr_unit = NoUnit THEN "INVALID" ELSE command
        /\ UNCHANGED FDC_flag
     \/ /\ command \in SenseCmds \ {"SENSE_INT_STATUS"}
        /\ UNCHANGED <<command, intr_unit, FDC_flag>>
     \/ /\ command \notin SenseCmds /\ FDC_flag' = TRUE
        /\ UNCHANGED <<command, intr_unit>>
  /\ status' = {"FDC_BUSY", "DATA_IO", "REQ_MASTER"} /\ step' = 1
  /\ EndPass("forever")
  /\ UNCHANGED <<phase, xferVars, argVars, seek_stat, ncn, pcn, fd_busy,
                 diskVars, histVars, TC, write>>

\* Mutant: the interrupt of the result phase is never cancelled.
RNextNoCancel ==
  /\ InR /\ step # 0 /\ ~Rqm /\ step < Results(command) /\ step' = step + 1
  /\ status' = {"FDC_BUSY", "DATA_IO", "REQ_MASTER"} /\ EndPass("forever")
  /\ UNCHANGED <<command, phase, xferVars, argVars, seekVars, diskVars,
                 histVars, TC, write, FDC_flag>>

RNext ==
  /\ InR /\ step # 0 /\ ~Rqm /\ step < Results(command)
  /\ FDC_flag' = FALSE /\ step' = step + 1
  /\ status' = {"FDC_BUSY", "DATA_IO", "REQ_MASTER"}
  /\ EndPass("forever")
  /\ UNCHANGED <<command, phase, xferVars, argVars, seekVars, diskVars,
                 histVars, TC, write>>

RDone ==
  /\ InR /\ step # 0 /\ ~Rqm /\ step >= Results(command)
  /\ status' = {"REQ_MASTER"} /\ command' = "WAIT" /\ step' = 0
  /\ EndPass("forever")
  /\ UNCHANGED <<phase, xferVars, argVars, seekVars, diskVars, histVars, TC,
                 write, FDC_flag>>

RHold ==
  /\ InR /\ step # 0 /\ Rqm /\ EndPass("forever")
  /\ UNCHANGED <<cmdVars, xferVars, argVars, seekVars, diskVars, histVars, TC,
                 status, write, FDC_flag>>

-----------------------------------------------------------------------------
\* The menu, which runs while the CPUs do not.

MenuOpen == ctrl = "out" /\ (Menu = "any" \/ (Menu = "idle" /\ command = "WAIT"))

DiskInsert(d, k) ==
  /\ MenuOpen
  /\ drive' = [drive EXCEPT ![d] = k] /\ sec_buf' = [drv |-> d, of |-> k]
  /\ UNCHANGED <<cmdVars, xferVars, argVars, seekVars, histVars, wait, TC,
                 status, write, FDC_flag, ctrl>>

DiskEject(d) ==
  /\ MenuOpen
  /\ drive' = [drive EXCEPT ![d] = NoDisk]
  /\ sec_buf' = [sec_buf EXCEPT !.drv = NoDrv]
  /\ UNCHANGED <<cmdVars, xferVars, argVars, seekVars, histVars, wait, TC,
                 status, write, FDC_flag, ctrl>>

\* quasi88_reset: drive_reset (fdc_init, then every disk set in place again)
\* and pc88sub_init.  Phase, step and the wait keep their values.
Reset ==
  /\ Menu # "never" /\ ctrl = "out"
  /\ command' = "WAIT" /\ status' = {"REQ_MASTER"} /\ fd_busy' = {}
  /\ write' = 255 /\ TC' = FALSE /\ FDC_flag' = FALSE
  /\ seek_stat' = [u \in Units |-> "STOP"]
  /\ ncn' = [u \in Units |-> 0] /\ pcn' = [u \in Units |-> 0]
  /\ intr_unit' = NoUnit
  /\ \/ \E d \in Drives : /\ drive[d] # NoDisk /\ sec_buf' = Loaded(d)
                          /\ \A e \in Drives : e > d => drive[e] = NoDisk
     \/ (\A d \in Drives : drive[d] = NoDisk) /\ UNCHANGED sec_buf
  /\ UNCHANGED <<phase, step, wait, xferVars, argVars, drive, histVars, ctrl>>

-----------------------------------------------------------------------------
HostStep == \/ \E b \in HostBytes : OutData(b)
            \/ InData \/ RaiseTC \/ Poll

Enter == \E w \in WaitAfter, D \in SUBSET Moving : CtrlEnter(w, D)

\* The steps of the E-phase of each command.
EPhase == \/ SeekPass
          \/ SearchNoDisk \/ SearchFails \/ ReadIdFound \/ ReadDiagHang
          \/ ReadSkip \/ (\E m \in BOOLEAN : ReadFound(m)) \/ WriteFound
          \/ SendByte \/ RecvDone \/ TransferCut \/ TransferHold
          \/ ReadEndError \/ ReadEndTC \/ ReadEndNext \/ ReadEndWait
          \/ RequestByte \/ RespondDone \/ WriteIdTrack \/ WriteSector
          \/ WriteEndLate \/ EPhaseFinish

Pass == \/ WaitReceive \/ WaitIdle
        \/ CPhaseHold \/ CPhaseByte \/ CPhaseLast \/ CPhaseScan
        \/ EPhase
        \/ RStart \/ RNext \/ RDone \/ RHold

MenuStep == \/ \E d \in Drives, k \in Disks : DiskInsert(d, k)
            \/ \E d \in Drives : DiskEject(d)
            \/ Reset

Next == HostStep \/ Enter \/ Pass \/ MenuStep

Spec == Init /\ [][Next]_vars

\* The CPU keeps running, so calls come and time passes; a pass is finished
\* once it is begun.  The software goes on moving the bytes it is asked for.
Fairness ==
  /\ WF_vars(Poll) /\ WF_vars(Pass)
  /\ SF_vars(CtrlEnter("zero", Moving)) /\ WF_vars(Enter)
  /\ SF_vars(InData) /\ SF_vars(\E b \in HostBytes : OutData(b))

LiveSpec == Spec /\ Fairness

-----------------------------------------------------------------------------
\* A drive's busy bit in the status register is set exactly while its seek
\* has not been taken over by a command: the bit is set in e_phase_seek and
\* cleared in c_phase, far from the places that move seek_stat.
BusyMatchesSeek == fd_busy = {u \in Units : seek_stat[u] # "STOP"}

\* While no data command runs, the interrupt line is up only for a seek, so
\* the search in c_phase for the drive that caused it never comes out empty.
IntrHasSource ==
  FDC_flag /\ (command = "WAIT" \/ phase = "C") => Notified # {}

\* A drive whose end of seek was announced (SEEK_STAT_INTR) still has the
\* interrupt line up, so the software will come and ask for it.
SeekIntrPending == Notified # {} => FDC_flag

\* What c_phase notes for SENSE INT STATUS stays noted until a SENSE INT
\* STATUS, or a reset, takes it ("this drive is notified by SENSE INT").
SeekReportKept ==
  [][intr_unit # NoUnit /\ intr_unit' # intr_unit => intr_unit' = NoUnit]_vars

\* A read or write of sectors ends normally only when the host said it had
\* enough by raising TC during that command; running past the last sector is
\* an abnormal end.  Multi-sector, multi-track and skipped sectors included.
NormalEndNeedsTC ==
  command \in ReadSector \cup WriteSect /\ phase = "R" /\ ic = "NT" => tcSeen

\* A result phase of a write command that reports a normal end means that
\* every sector of the command was written: e_phase_write_end goes on to the
\* next sector whatever the last write came to.
FailedWriteReported ==
  command \in WriteCmds /\ phase = "R" /\ ic = "NT" => ~failed

\* The index into data_buf and the bytes still to move always add up to the
\* sector (one more while the host has not yet taken the byte shown to it),
\* through TC, padding, timeouts and the next sector of a multi-sector run.
BufferCursor ==
  phase = "E" /\ step \in 1..3 =>
    /\ command \in ReadCmds =>
         data_ptr + counter = SecLen + (IF step = 2 THEN 1 ELSE 0)
           \/ (step = 3 /\ TC /\ data_ptr + counter = SecLen + 1)
    /\ command \in WriteSect => data_ptr + counter = SecLen
    /\ command = "WRITE_ID" => data_ptr + counter = FormatLen
    /\ step # 3 => counter > 0

\* The one sector ID buffer, shared by the drives, holds an ID of the disk
\* that is in the drive it is labelled with.
SecBufCoherent ==
  sec_buf.drv # NoDrv => sec_buf.of = drive[sec_buf.drv]

\* A sector is written only onto the disk on which its ID was searched and
\* found ("if the disk was changed meanwhile, end abnormally").
WriteHitsSearchedDisk ==
  Exec(WriteSect, 3) /\ Writable => drive[Us] = target

\* A byte of the command phase has a place in the parameter table: past the
\* end of a row the entry is a null pointer and the byte is stored through it.
\* The SCAN commands do get there (CPhaseScan), and no other command does.
ParamSlotInTable ==
  InC /\ ~Rqm /\ step >= Len(Params(command)) => command \in ScanCmds

\* With its drives loaded, the controller returns to accept commands: every
\* command ends, whatever bytes the host sends and whenever TC comes.  Two are
\* excepted, which the code may never end: SCAN, which has no execution phase,
\* and READ DIAGNOSTIC while it searches from sectors without a data mark.
Stuck == \/ command \in ScanCmds
         \/ command = "READ_DIAGNOSTIC" /\ phase = "E" /\ step = 0
CommandEnds ==
  \/ (command # "WAIT" /\ \A d \in Drives : drive[d] # NoDisk) ~> command = "WAIT"
  \/ <>[]Stuck

=============================================================================
