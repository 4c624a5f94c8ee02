----------------------------- MODULE FdcProofs -----------------------------
(***************************************************************************)
(* Proofs about the floppy disk controller of Fdc.  Every theorem holds    *)
(* for any number of units and drives, any bytes the host may send, any    *)
(* sector length and any behaviour of the menu.                            *)
(***************************************************************************)
EXTENDS Fdc, TLAPS

\* A sector or track is written to a drive that exists: the number of the
\* unit was checked in step 0 and does not change while the bytes come in.
WriteUnit ==
  command \in WriteCmds /\ phase = "E" /\ step \in 1..3 => Us \in Drives

Cursor == TypeOK /\ BufferCursor /\ WriteUnit

USE DEF cmdVars, xferVars, argVars, seekVars, diskVars, histVars

-----------------------------------------------------------------------------
\* Remainders, for the units, the head and the sector number.
LEMMA Remainder == ASSUME NEW a \in Nat, NEW b \in Nat \ {0}
                   PROVE  a % b \in 0..(b - 1)
  OBVIOUS

\* The unit a command names is one of the units.
LEMMA UnitIsUnit == TypeOK => Us \in Units
  BY Remainder, UnitsAssumption DEF TypeOK, CmdTypeOK, Us, Units

\* drive_init sets the types right, and no transfer is on.
LEMMA InitCursor == Init => Cursor
  <1> SUFFICES ASSUME Init PROVE Cursor
    OBVIOUS
  <1>1. 0 \in Units /\ NoUnit \in Units \cup {NoUnit}
    BY UnitsAssumption DEF Units, NoUnit
  <1>2. CmdTypeOK
    BY DEF Init, CmdTypeOK, MaxStep
  <1>3. XferTypeOK
    BY LengthAssumption DEF Init, XferTypeOK
  <1>4. LineTypeOK
    BY DEF Init, LineTypeOK, Waits, StatusBits
  <1>5. FlagTypeOK
    BY Zenon DEF Init, FlagTypeOK
  <1>6. SeekTypeOK
    BY <1>1 DEF Init, SeekTypeOK
  <1>7. DiskTypeOK
    BY DEF Init, DiskTypeOK
  <1>8. phase # "E"
    BY DEF Init
  <1>9. BufferCursor /\ WriteUnit
    BY <1>8, Zenon DEF BufferCursor, WriteUnit
  <1> QED
    BY <1>2, <1>3, <1>4, <1>5, <1>6, <1>7, <1>9 DEF Cursor, TypeOK

\* No row of the parameter table is longer than nine bytes.
LEMMA ParamsLength == \A cmd : Len(Params(cmd)) \in 1..9
  BY DEF Params

\* What the host writes is a byte.
LEMMA HostWritesBytes == HostBytes \subseteq 0..255
  <1>1. \A p : BytesFor(p) \subseteq 0..255
    BY BytesAssumption DEF BytesFor
  <1>2. CmdBytes \subseteq 0..255 /\ {0} \subseteq 0..255
    BY BytesAssumption
  <1> QED
    BY <1>1, <1>2, Zenon DEF HostBytes

\* The head is bit 2 of a byte.
LEMMA HeadBit == ASSUME NEW a \in 0..255 PROVE (a \div 4) % 2 \in {0, 1}
  <1>1. a \div 4 \in Nat
    OBVIOUS
  <1> QED
    BY <1>1

\* What the command phase stores keeps its type.
LEMMA ByteTaken ==
  ASSUME TypeOK, TakeByte
  PROVE  /\ c0' \in 0..255 /\ c1' \in 0..255 /\ r' \in Nat /\ eot' \in 0..255
         /\ step + 1 \in 0..MaxStep /\ (c1' \div 4) % 2 \in {0, 1}
  <1>1. c0' \in 0..255 /\ c1' \in 0..255 /\ r' \in Nat /\ eot' \in 0..255
    BY DEF TypeOK, CmdTypeOK, LineTypeOK, TakeByte
  <1>2. step + 1 \in 0..MaxStep
    BY ParamsLength DEF TypeOK, CmdTypeOK, TakeByte, MaxStep
  <1>3. (c1' \div 4) % 2 \in {0, 1}
    BY <1>1, HeadBit
  <1> QED
    BY <1>1, <1>2, <1>3

\* Taking over an interrupt keeps the seek state well formed.
LEMMA IntrTaken ==
  ASSUME TypeOK, TakeIntr
  PROVE  /\ seek_stat' \in [Units -> {"STOP", "MOVE", "END", "INTR"}]
         /\ fd_busy' \subseteq Units /\ intr_unit' \in Units \cup {NoUnit}
  BY DEF TypeOK, SeekTypeOK, TakeIntr, Notified, Lowest

\* And so does the start of a command.
LEMMA CommandStarted ==
  ASSUME TypeOK, StartCommand
  PROVE  /\ ncn' \in [Units -> 0..255] /\ phase' \in {"C", "E", "R"}
         /\ command' \in Commands \cup {"WAIT"}
  <1>1. phase' \in {"C", "E", "R"} /\ command' \in Commands \cup {"WAIT"}
    BY DEF TypeOK, CmdTypeOK, StartCommand
  <1>2. \/ \E u : ncn' = [ncn EXCEPT ![u] = write]
        \/ \E u : ncn' = [ncn EXCEPT ![u] = 0]
        \/ ncn' = ncn
    BY Zenon DEF StartCommand
  <1>3. ncn' \in [Units -> 0..255]
    BY <1>2 DEF TypeOK, SeekTypeOK, LineTypeOK
  <1> QED
    BY <1>1, <1>3

\* No step of the host, the controller or the menu disturbs Cursor.
LEMMA NextCursor == Cursor /\ [Next]_vars => Cursor'
  <1> SUFFICES ASSUME TypeOK, BufferCursor, WriteUnit, [Next]_vars PROVE Cursor'
    BY DEF Cursor
  <1> USE UnitsAssumption, LengthAssumption, UnitIsUnit
      DEF TypeOK, CmdTypeOK, XferTypeOK, LineTypeOK, FlagTypeOK, SeekTypeOK,
          DiskTypeOK, BufferCursor, WriteUnit, Us, Exec, InPass, EndPass, WaitLeft,
          Delay, Delays, WaitLeft, Loaded, MaxStep, Waits, StatusBits
  <1>1. ASSUME NEW b \in HostBytes, OutData(b) PROVE Cursor'
    <2>1. CmdTypeOK' /\ XferTypeOK' /\ LineTypeOK'
      BY <1>1, HostWritesBytes DEF OutData, HostActs, HostBytes, BytesFor
    <2>2. FlagTypeOK'
      BY <1>1, HostWritesBytes DEF OutData, HostActs, HostBytes, BytesFor
    <2>3. SeekTypeOK' /\ DiskTypeOK'
      BY <1>1, HostWritesBytes DEF OutData, HostActs, HostBytes, BytesFor
    <2>4. BufferCursor' /\ WriteUnit'
      BY <1>1, HostWritesBytes
         DEF OutData, HostActs, HostBytes, BytesFor, ReadCmds, WriteCmds,
             WriteSect, ReadSector
    <2> QED
      BY <2>1, <2>2, <2>3, <2>4 DEF Cursor
  <1>2. ASSUME InData PROVE Cursor'
    <2>1. CmdTypeOK' /\ XferTypeOK' /\ LineTypeOK' /\ FlagTypeOK' /\ SeekTypeOK' /\ DiskTypeOK'
      BY <1>2 DEF InData, HostActs
    <2>2. BufferCursor' /\ WriteUnit'
      BY <1>2 DEF InData, HostActs, ReadCmds, WriteCmds, WriteSect, ReadSector
    <2> QED
      BY <2>1, <2>2 DEF Cursor
  <1>3. ASSUME RaiseTC PROVE Cursor'
    <2>1. CmdTypeOK' /\ XferTypeOK' /\ LineTypeOK' /\ FlagTypeOK' /\ SeekTypeOK' /\ DiskTypeOK'
      BY <1>3 DEF RaiseTC, HostActs
    <2>2. BufferCursor' /\ WriteUnit'
      BY <1>3 DEF RaiseTC, HostActs, ReadCmds, WriteCmds, WriteSect, ReadSector
    <2> QED
      BY <2>1, <2>2 DEF Cursor
  <1>4. ASSUME Poll PROVE Cursor'
    <2>1. CmdTypeOK' /\ XferTypeOK' /\ LineTypeOK' /\ FlagTypeOK' /\ SeekTypeOK' /\ DiskTypeOK'
      BY <1>4 DEF Poll, HostActs
    <2>2. BufferCursor' /\ WriteUnit'
      BY <1>4 DEF Poll, HostActs, ReadCmds, WriteCmds, WriteSect, ReadSector
    <2> QED
      BY <2>1, <2>2 DEF Cursor
  <1>5. ASSUME NEW w \in WaitAfter, NEW D \in SUBSET Moving, CtrlEnter(w, D) PROVE Cursor'
    <2>1. CmdTypeOK' /\ XferTypeOK' /\ LineTypeOK' /\ FlagTypeOK' /\ SeekTypeOK' /\ DiskTypeOK'
      BY <1>5 DEF CtrlEnter, WaitAfter, Moving, OneStep
    <2>2. BufferCursor' /\ WriteUnit'
      BY <1>5
         DEF CtrlEnter, WaitAfter, Moving, OneStep, ReadCmds, WriteCmds,
             WriteSect, ReadSector
    <2> QED
      BY <2>1, <2>2 DEF Cursor
  <1>6. ASSUME WaitReceive PROVE Cursor'
    <2>1. CmdTypeOK' /\ XferTypeOK' /\ LineTypeOK'
      BY <1>6
         DEF WaitReceive, Decode, Commands, ReadCmds, ReadSector, WriteCmds,
             WriteSect, SeekCmds, ScanCmds, SenseCmds
    <2>2. FlagTypeOK'
      BY <1>6 DEF WaitReceive, Decode
    <2>3. SeekTypeOK' /\ DiskTypeOK'
      BY <1>6 DEF WaitReceive, Decode
    <2>4. BufferCursor' /\ WriteUnit'
      BY <1>6
         DEF WaitReceive, Decode, ReadCmds, WriteCmds, WriteSect, ReadSector
    <2> QED
      BY <2>1, <2>2, <2>3, <2>4 DEF Cursor
  <1>7. ASSUME WaitIdle PROVE Cursor'
    <2>1. CmdTypeOK' /\ XferTypeOK' /\ LineTypeOK'
      BY <1>7 DEF WaitIdle, SeekReported, Lowest, Ended, SeekCmds, SenseCmds
    <2>2. FlagTypeOK'
      BY <1>7 DEF WaitIdle, SeekReported, Lowest, Ended, SeekCmds, SenseCmds
    <2>3. SeekTypeOK' /\ DiskTypeOK'
      BY <1>7 DEF WaitIdle, SeekReported, Lowest, Ended, SeekCmds, SenseCmds
    <2>4. BufferCursor' /\ WriteUnit'
      BY <1>7
         DEF WaitIdle, SeekReported, Lowest, Ended, SeekCmds, SenseCmds, ReadCmds, WriteCmds,
             WriteSect, ReadSector
    <2> QED
      BY <2>1, <2>2, <2>3, <2>4 DEF Cursor
  <1>8. ASSUME CPhaseHold PROVE Cursor'
    <2>1. CmdTypeOK' /\ XferTypeOK' /\ LineTypeOK' /\ FlagTypeOK' /\ SeekTypeOK' /\ DiskTypeOK'
      BY <1>8 DEF CPhaseHold, InC
    <2>2. BufferCursor' /\ WriteUnit'
      BY <1>8 DEF CPhaseHold, InC, ReadCmds, WriteCmds, WriteSect, ReadSector
    <2> QED
      BY <2>1, <2>2 DEF Cursor
  <1>9. ASSUME CPhaseByte PROVE Cursor'
    <2>1. CmdTypeOK' /\ XferTypeOK' /\ LineTypeOK'
      BY <1>9, ByteTaken DEF CPhaseByte, InC, TakeByte, LastByte
    <2>2. FlagTypeOK'
      BY <1>9, ByteTaken DEF CPhaseByte, InC, TakeByte, LastByte
    <2>3. SeekTypeOK' /\ DiskTypeOK'
      BY <1>9, ByteTaken DEF CPhaseByte, InC, TakeByte, LastByte
    <2>4. BufferCursor' /\ WriteUnit'
      BY <1>9, ByteTaken
         DEF CPhaseByte, InC, TakeByte, LastByte, ReadCmds, WriteCmds,
             WriteSect, ReadSector
    <2> QED
      BY <2>1, <2>2, <2>3, <2>4 DEF Cursor
  <1>10. ASSUME CPhaseLast PROVE Cursor'
    <2>1. TakeByte /\ TakeIntr /\ StartCommand
      BY <1>10 DEF CPhaseLast
    <2>2. CmdTypeOK'
      BY <1>10, <2>1, ByteTaken, CommandStarted DEF CPhaseLast
    <2>3. XferTypeOK' /\ DiskTypeOK'
      BY <1>10 DEF CPhaseLast
    <2>4. LineTypeOK'
      BY <1>10 DEF CPhaseLast, StartCommand
    <2>5. FlagTypeOK'
      BY <1>10 DEF CPhaseLast, TakeIntr
    <2>6. SeekTypeOK'
      BY <1>10, <2>1, IntrTaken, CommandStarted DEF CPhaseLast
    <2>7. BufferCursor' /\ WriteUnit'
      BY <1>10 DEF CPhaseLast
    <2> QED
      BY <2>2, <2>3, <2>4, <2>5, <2>6, <2>7 DEF Cursor
  <1>11. ASSUME CPhaseScan PROVE Cursor'
    <2>1. CmdTypeOK' /\ XferTypeOK' /\ LineTypeOK'
      BY <1>11, ByteTaken, IntrTaken
         DEF CPhaseScan, InC, TakeByte, LastByte, TakeIntr, Notified, Lowest
    <2>2. FlagTypeOK'
      BY <1>11, ByteTaken, IntrTaken
         DEF CPhaseScan, InC, TakeByte, LastByte, TakeIntr, Notified, Lowest
    <2>3. SeekTypeOK' /\ DiskTypeOK'
      BY <1>11, ByteTaken, IntrTaken
         DEF CPhaseScan, InC, TakeByte, LastByte, TakeIntr, Notified, Lowest
    <2>4. BufferCursor' /\ WriteUnit'
      BY <1>11, ByteTaken, IntrTaken
         DEF CPhaseScan, InC, TakeByte, LastByte, TakeIntr, Notified, Lowest,
             ReadCmds, WriteCmds, WriteSect, ReadSector
    <2> QED
      BY <2>1, <2>2, <2>3, <2>4 DEF Cursor
  <1>12. ASSUME SeekPass PROVE Cursor'
    <2>1. CmdTypeOK' /\ XferTypeOK' /\ LineTypeOK' /\ FlagTypeOK' /\ SeekTypeOK' /\ DiskTypeOK'
      BY <1>12 DEF SeekPass, SeekDone, OneStep
    <2>2. BufferCursor' /\ WriteUnit'
      BY <1>12
         DEF SeekPass, SeekDone, OneStep, ReadCmds, WriteCmds, WriteSect,
             ReadSector
    <2> QED
      BY <2>1, <2>2 DEF Cursor
  <1>13. ASSUME SearchNoDisk PROVE Cursor'
    <2>1. CmdTypeOK' /\ XferTypeOK' /\ LineTypeOK'
      BY <1>13 DEF SearchNoDisk, NoSkip
    <2>2. FlagTypeOK'
      BY <1>13 DEF SearchNoDisk, NoSkip
    <2>3. SeekTypeOK' /\ DiskTypeOK'
      BY <1>13 DEF SearchNoDisk, NoSkip
    <2>4. BufferCursor' /\ WriteUnit'
      BY <1>13
         DEF SearchNoDisk, NoSkip, ReadCmds, WriteCmds, WriteSect, ReadSector
    <2> QED
      BY <2>1, <2>2, <2>3, <2>4 DEF Cursor
  <1>14. ASSUME SearchFails PROVE Cursor'
    <2>1. CmdTypeOK' /\ XferTypeOK' /\ LineTypeOK'
      BY <1>14
         DEF SearchFails, SecBufSearched, Present, UnitRefused, NoSkip, Finish
    <2>2. FlagTypeOK'
      BY <1>14
         DEF SearchFails, SecBufSearched, Present, UnitRefused, NoSkip, Finish
    <2>3. SeekTypeOK' /\ DiskTypeOK'
      BY <1>14
         DEF SearchFails, SecBufSearched, Present, UnitRefused, NoSkip, Finish
    <2>4. BufferCursor' /\ WriteUnit'
      BY <1>14
         DEF SearchFails, SecBufSearched, Present, UnitRefused, NoSkip, Finish,
             ReadCmds, WriteCmds, WriteSect, ReadSector
    <2> QED
      BY <2>1, <2>2, <2>3, <2>4 DEF Cursor
  <1>15. ASSUME ReadIdFound PROVE Cursor'
    <2>1. CmdTypeOK' /\ XferTypeOK' /\ LineTypeOK'
      BY <1>15 DEF ReadIdFound, Present, UnitRefused, NoSkip
    <2>2. FlagTypeOK'
      BY <1>15 DEF ReadIdFound, Present, UnitRefused, NoSkip
    <2>3. SeekTypeOK' /\ DiskTypeOK'
      BY <1>15 DEF ReadIdFound, Present, UnitRefused, NoSkip
    <2>4. BufferCursor' /\ WriteUnit'
      BY <1>15
         DEF ReadIdFound, Present, UnitRefused, NoSkip, ReadCmds, WriteCmds,
             WriteSect, ReadSector
    <2> QED
      BY <2>1, <2>2, <2>3, <2>4 DEF Cursor
  <1>16. ASSUME ReadDiagHang PROVE Cursor'
    <2>1. CmdTypeOK' /\ XferTypeOK' /\ LineTypeOK' /\ FlagTypeOK' /\ SeekTypeOK' /\ DiskTypeOK'
      BY <1>16 DEF ReadDiagHang, Present, UnitRefused, NoSkip
    <2>2. BufferCursor' /\ WriteUnit'
      BY <1>16
         DEF ReadDiagHang, Present, UnitRefused, NoSkip, ReadCmds, WriteCmds,
             WriteSect, ReadSector
    <2> QED
      BY <2>1, <2>2 DEF Cursor
  <1>17. ASSUME ReadSkip PROVE Cursor'
    <2>1. CmdTypeOK' /\ XferTypeOK' /\ LineTypeOK'
      BY <1>17
         DEF ReadSkip, SecBufSearched, Present, UnitRefused, NoSkip, NextChrn,
             CylinderEnd, Finish
    <2>2. FlagTypeOK'
      BY <1>17
         DEF ReadSkip, SecBufSearched, Present, UnitRefused, NoSkip, NextChrn,
             CylinderEnd, Finish
    <2>3. SeekTypeOK' /\ DiskTypeOK'
      BY <1>17
         DEF ReadSkip, SecBufSearched, Present, UnitRefused, NoSkip, NextChrn,
             CylinderEnd, Finish
    <2>4. BufferCursor' /\ WriteUnit'
      BY <1>17
         DEF ReadSkip, SecBufSearched, Present, UnitRefused, NoSkip, NextChrn,
             CylinderEnd, Finish, ReadCmds, WriteCmds, WriteSect, ReadSector
    <2> QED
      BY <2>1, <2>2, <2>3, <2>4 DEF Cursor
  <1>18. ASSUME NEW m \in BOOLEAN, ReadFound(m) PROVE Cursor'
    <2>1. CmdTypeOK' /\ XferTypeOK' /\ LineTypeOK' /\ FlagTypeOK' /\ SeekTypeOK' /\ DiskTypeOK'
      BY <1>18 DEF ReadFound, Present, UnitRefused
    <2>2. BufferCursor' /\ WriteUnit'
      BY <1>18
         DEF ReadFound, Present, UnitRefused, ReadCmds, WriteCmds, WriteSect,
             ReadSector
    <2> QED
      BY <2>1, <2>2 DEF Cursor
  <1>19. ASSUME WriteFound PROVE Cursor'
    <2>1. CmdTypeOK' /\ XferTypeOK' /\ LineTypeOK' /\ FlagTypeOK' /\ SeekTypeOK' /\ DiskTypeOK'
      BY <1>19
         DEF WriteFound, SecBufSearched, Present, UnitRefused, ReadCmds,
             WriteCmds, WriteSect, ReadSector
    <2>2. BufferCursor' /\ WriteUnit'
      BY <1>19
         DEF WriteFound, SecBufSearched, Present, UnitRefused, ReadCmds,
             WriteCmds, WriteSect, ReadSector
    <2> QED
      BY <2>1, <2>2 DEF Cursor
  <1>20. ASSUME SendByte PROVE Cursor'
    <2>1. CmdTypeOK' /\ XferTypeOK' /\ LineTypeOK' /\ FlagTypeOK' /\ SeekTypeOK' /\ DiskTypeOK'
      BY <1>20 DEF SendByte
    <2>2. BufferCursor' /\ WriteUnit'
      BY <1>20 DEF SendByte, ReadCmds, WriteCmds, WriteSect, ReadSector
    <2> QED
      BY <2>1, <2>2 DEF Cursor
  <1>21. ASSUME RecvDone PROVE Cursor'
    <2>1. CmdTypeOK' /\ XferTypeOK' /\ LineTypeOK'
      BY <1>21 DEF RecvDone, ByteMoved
    <2>2. FlagTypeOK'
      BY <1>21 DEF RecvDone, ByteMoved
    <2>3. SeekTypeOK' /\ DiskTypeOK'
      BY <1>21 DEF RecvDone, ByteMoved
    <2>4. BufferCursor' /\ WriteUnit'
      BY <1>21
         DEF RecvDone, ByteMoved, ReadCmds, WriteCmds, WriteSect, ReadSector
    <2> QED
      BY <2>1, <2>2, <2>3, <2>4 DEF Cursor
  <1>22. ASSUME TransferCut PROVE Cursor'
    <2>1. CmdTypeOK' /\ XferTypeOK' /\ LineTypeOK'
      BY <1>22 DEF TransferCut
    <2>2. FlagTypeOK'
      BY <1>22 DEF TransferCut
    <2>3. SeekTypeOK' /\ DiskTypeOK'
      BY <1>22 DEF TransferCut
    <2>4. BufferCursor' /\ WriteUnit'
      BY <1>22 DEF TransferCut, ReadCmds, WriteCmds, WriteSect, ReadSector
    <2> QED
      BY <2>1, <2>2, <2>3, <2>4 DEF Cursor
  <1>23. ASSUME TransferHold PROVE Cursor'
    <2>1. CmdTypeOK' /\ XferTypeOK' /\ LineTypeOK' /\ FlagTypeOK' /\ SeekTypeOK' /\ DiskTypeOK'
      BY <1>23 DEF TransferHold, LimitAfter
    <2>2. BufferCursor' /\ WriteUnit'
      BY <1>23
         DEF TransferHold, LimitAfter, ReadCmds, WriteCmds, WriteSect,
             ReadSector
    <2> QED
      BY <2>1, <2>2 DEF Cursor
  <1>24. ASSUME ReadEndError PROVE Cursor'
    <2>1. CmdTypeOK' /\ XferTypeOK' /\ LineTypeOK' /\ FlagTypeOK' /\ SeekTypeOK' /\ DiskTypeOK'
      BY <1>24 DEF ReadEndError, Finish
    <2>2. BufferCursor' /\ WriteUnit'
      BY <1>24
         DEF ReadEndError, Finish, ReadCmds, WriteCmds, WriteSect, ReadSector
    <2> QED
      BY <2>1, <2>2 DEF Cursor
  <1>25. ASSUME ReadEndTC PROVE Cursor'
    <2>1. CmdTypeOK' /\ XferTypeOK' /\ LineTypeOK' /\ FlagTypeOK' /\ SeekTypeOK' /\ DiskTypeOK'
      BY <1>25 DEF ReadEndTC, InReadEnd, NextChrn, Finish
    <2>2. BufferCursor' /\ WriteUnit'
      BY <1>25
         DEF ReadEndTC, InReadEnd, NextChrn, Finish, ReadCmds, WriteCmds,
             WriteSect, ReadSector
    <2> QED
      BY <2>1, <2>2 DEF Cursor
  <1>26. ASSUME ReadEndNext PROVE Cursor'
    <2>1. CmdTypeOK' /\ XferTypeOK' /\ LineTypeOK' /\ FlagTypeOK' /\ SeekTypeOK' /\ DiskTypeOK'
      BY <1>26 DEF ReadEndNext, InReadEnd, NextChrn, CylinderEnd, Finish
    <2>2. BufferCursor' /\ WriteUnit'
      BY <1>26
         DEF ReadEndNext, InReadEnd, NextChrn, CylinderEnd, Finish, ReadCmds,
             WriteCmds, WriteSect, ReadSector
    <2> QED
      BY <2>1, <2>2 DEF Cursor
  <1>27. ASSUME ReadEndWait PROVE Cursor'
    <2>1. CmdTypeOK' /\ XferTypeOK' /\ LineTypeOK' /\ FlagTypeOK' /\ SeekTypeOK' /\ DiskTypeOK'
      BY <1>27 DEF ReadEndWait, InReadEnd, LimitAfter
    <2>2. BufferCursor' /\ WriteUnit'
      BY <1>27
         DEF ReadEndWait, InReadEnd, LimitAfter, ReadCmds, WriteCmds,
             WriteSect, ReadSector
    <2> QED
      BY <2>1, <2>2 DEF Cursor
  <1>28. ASSUME RequestByte PROVE Cursor'
    <2>1. CmdTypeOK' /\ XferTypeOK' /\ LineTypeOK' /\ FlagTypeOK' /\ SeekTypeOK' /\ DiskTypeOK'
      BY <1>28 DEF RequestByte
    <2>2. BufferCursor' /\ WriteUnit'
      BY <1>28 DEF RequestByte, ReadCmds, WriteCmds, WriteSect, ReadSector
    <2> QED
      BY <2>1, <2>2 DEF Cursor
  <1>29. ASSUME RespondDone PROVE Cursor'
    <2>1. CmdTypeOK' /\ XferTypeOK' /\ LineTypeOK'
      BY <1>29 DEF RespondDone, ByteMoved
    <2>2. FlagTypeOK'
      BY <1>29 DEF RespondDone, ByteMoved
    <2>3. SeekTypeOK' /\ DiskTypeOK'
      BY <1>29 DEF RespondDone, ByteMoved
    <2>4. BufferCursor' /\ WriteUnit'
      BY <1>29
         DEF RespondDone, ByteMoved, ReadCmds, WriteCmds, WriteSect, ReadSector
    <2> QED
      BY <2>1, <2>2, <2>3, <2>4 DEF Cursor
  <1>30. ASSUME WriteIdTrack PROVE Cursor'
    <2>1. CmdTypeOK' /\ XferTypeOK' /\ LineTypeOK'
      BY <1>30 DEF WriteIdTrack, fdc_write_id, WriteOut, FinishUp
    <2>2. FlagTypeOK'
      BY <1>30 DEF WriteIdTrack, fdc_write_id, WriteOut, FinishUp
    <2>3. SeekTypeOK' /\ DiskTypeOK'
      BY <1>30
         DEF WriteIdTrack, fdc_write_id, WriteOut, FinishUp, ReadCmds, WriteCmds, WriteSect,
             ReadSector
    <2>4. BufferCursor' /\ WriteUnit'
      BY <1>30
         DEF WriteIdTrack, fdc_write_id, WriteOut, FinishUp, ReadCmds, WriteCmds, WriteSect,
             ReadSector
    <2> QED
      BY <2>1, <2>2, <2>3, <2>4 DEF Cursor
  <1>31. ASSUME WriteSector PROVE Cursor'
    <2>1. CmdTypeOK' /\ XferTypeOK' /\ LineTypeOK'
      BY <1>31
         DEF WriteSector, WriteOut, WriteEnd, NextChrn, CylinderEnd, Finish,
             LimitAfter
    <2>2. FlagTypeOK'
      BY <1>31
         DEF WriteSector, WriteOut, WriteEnd, NextChrn, CylinderEnd, Finish,
             LimitAfter
    <2>3. SeekTypeOK' /\ DiskTypeOK'
      BY <1>31
         DEF WriteSector, WriteOut, WriteEnd, NextChrn, CylinderEnd, Finish,
             LimitAfter, ReadCmds, WriteCmds, WriteSect, ReadSector
    <2>4. BufferCursor' /\ WriteUnit'
      BY <1>31
         DEF WriteSector, WriteOut, WriteEnd, NextChrn, CylinderEnd, Finish,
             LimitAfter, ReadCmds, WriteCmds, WriteSect, ReadSector
    <2> QED
      BY <2>1, <2>2, <2>3, <2>4 DEF Cursor
  <1>32. ASSUME WriteEndLate PROVE Cursor'
    <2>1. CmdTypeOK' /\ XferTypeOK' /\ LineTypeOK' /\ FlagTypeOK' /\ SeekTypeOK' /\ DiskTypeOK'
      BY <1>32
         DEF WriteEndLate, WriteEnd, NextChrn, CylinderEnd, Finish, LimitAfter,
             ReadCmds, WriteCmds, WriteSect, ReadSector
    <2>2. BufferCursor' /\ WriteUnit'
      BY <1>32
         DEF WriteEndLate, WriteEnd, NextChrn, CylinderEnd, Finish, LimitAfter,
             ReadCmds, WriteCmds, WriteSect, ReadSector
    <2> QED
      BY <2>1, <2>2 DEF Cursor
  <1>33. ASSUME EPhaseFinish PROVE Cursor'
    <2>1. CmdTypeOK' /\ XferTypeOK' /\ LineTypeOK'
      BY <1>33 DEF EPhaseFinish, FinishUp
    <2>2. FlagTypeOK'
      BY <1>33 DEF EPhaseFinish, FinishUp
    <2>3. SeekTypeOK' /\ DiskTypeOK'
      BY <1>33 DEF EPhaseFinish, FinishUp
    <2>4. BufferCursor' /\ WriteUnit'
      BY <1>33
         DEF EPhaseFinish, FinishUp, ReadCmds, WriteCmds, WriteSect, ReadSector
    <2> QED
      BY <2>1, <2>2, <2>3, <2>4 DEF Cursor
  <1>34. ASSUME RStart PROVE Cursor'
    <2>1. CmdTypeOK' /\ XferTypeOK' /\ LineTypeOK'
      BY <1>34
         DEF RStart, InR, Commands, ReadCmds, ReadSector, WriteCmds, WriteSect,
             SeekCmds, ScanCmds, SenseCmds
    <2>2. FlagTypeOK'
      BY <1>34 DEF RStart, InR
    <2>3. SeekTypeOK' /\ DiskTypeOK'
      BY <1>34 DEF RStart, InR
    <2>4. BufferCursor' /\ WriteUnit'
      BY <1>34 DEF RStart, InR, ReadCmds, WriteCmds, WriteSect, ReadSector
    <2> QED
      BY <2>1, <2>2, <2>3, <2>4 DEF Cursor
  <1>35. ASSUME RNext PROVE Cursor'
    <2>1. CmdTypeOK' /\ XferTypeOK' /\ LineTypeOK'
      BY <1>35 DEF RNext, InR, Results
    <2>2. FlagTypeOK'
      BY <1>35 DEF RNext, InR, Results
    <2>3. SeekTypeOK' /\ DiskTypeOK'
      BY <1>35 DEF RNext, InR, Results
    <2>4. BufferCursor' /\ WriteUnit'
      BY <1>35
         DEF RNext, InR, Results, ReadCmds, WriteCmds, WriteSect, ReadSector
    <2> QED
      BY <2>1, <2>2, <2>3, <2>4 DEF Cursor
  <1>36. ASSUME RDone PROVE Cursor'
    <2>1. CmdTypeOK' /\ XferTypeOK' /\ LineTypeOK' /\ FlagTypeOK' /\ SeekTypeOK' /\ DiskTypeOK'
      BY <1>36 DEF RDone, InR
    <2>2. BufferCursor' /\ WriteUnit'
      BY <1>36 DEF RDone, InR, ReadCmds, WriteCmds, WriteSect, ReadSector
    <2> QED
      BY <2>1, <2>2 DEF Cursor
  <1>37. ASSUME RHold PROVE Cursor'
    <2>1. CmdTypeOK' /\ XferTypeOK' /\ LineTypeOK' /\ FlagTypeOK' /\ SeekTypeOK' /\ DiskTypeOK'
      BY <1>37 DEF RHold, InR
    <2>2. BufferCursor' /\ WriteUnit'
      BY <1>37 DEF RHold, InR, ReadCmds, WriteCmds, WriteSect, ReadSector
    <2> QED
      BY <2>1, <2>2 DEF Cursor
  <1>38. ASSUME NEW d \in Drives, NEW k \in Disks, DiskInsert(d, k) PROVE Cursor'
    <2>1. CmdTypeOK' /\ XferTypeOK' /\ LineTypeOK' /\ FlagTypeOK' /\ SeekTypeOK' /\ DiskTypeOK'
      BY <1>38 DEF DiskInsert
    <2>2. BufferCursor' /\ WriteUnit'
      BY <1>38 DEF DiskInsert, ReadCmds, WriteCmds, WriteSect, ReadSector
    <2> QED
      BY <2>1, <2>2 DEF Cursor
  <1>39. ASSUME NEW d \in Drives, DiskEject(d) PROVE Cursor'
    <2>1. CmdTypeOK' /\ XferTypeOK' /\ LineTypeOK' /\ FlagTypeOK' /\ SeekTypeOK' /\ DiskTypeOK'
      BY <1>39 DEF DiskEject
    <2>2. BufferCursor' /\ WriteUnit'
      BY <1>39 DEF DiskEject, ReadCmds, WriteCmds, WriteSect, ReadSector
    <2> QED
      BY <2>1, <2>2 DEF Cursor
  <1>40. ASSUME Reset PROVE Cursor'
    <2>1. CmdTypeOK' /\ XferTypeOK' /\ LineTypeOK'
      BY <1>40 DEF Reset
    <2>2. FlagTypeOK'
      BY <1>40 DEF Reset
    <2>3. SeekTypeOK' /\ DiskTypeOK'
      BY <1>40 DEF Reset
    <2>4. BufferCursor' /\ WriteUnit'
      BY <1>40 DEF Reset, ReadCmds, WriteCmds, WriteSect, ReadSector
    <2> QED
      BY <2>1, <2>2, <2>3, <2>4 DEF Cursor
  <1>41. CASE UNCHANGED vars
    BY <1>41 DEF vars, Cursor
  <1> QED
    BY <1>1, <1>2, <1>3, <1>4, <1>5, <1>6, <1>7, <1>8, <1>9,
       <1>10, <1>11, <1>12, <1>13, <1>14, <1>15, <1>16, <1>17, <1>18,
       <1>19, <1>20, <1>21, <1>22, <1>23, <1>24, <1>25, <1>26, <1>27,
       <1>28, <1>29, <1>30, <1>31, <1>32, <1>33, <1>34, <1>35, <1>36,
       <1>37, <1>38, <1>39, <1>40, <1>41
       DEF Next, HostStep, Enter, Pass, EPhase, MenuStep

-----------------------------------------------------------------------------
\* The variables keep their types, and more: see the next two.
THEOREM CursorInvariant == Spec => []Cursor
  BY InitCursor, NextCursor, PTL DEF Spec

\* Every variable of the controller keeps its type: the step never leaves the
\* tables, the byte counter never goes below zero, a unit number is one of
\* the units, and a write goes to a drive that exists.
THEOREM TypeCorrect == Spec => []TypeOK
  <1>1. Cursor => TypeOK
    BY DEF Cursor
  <1> QED
    BY <1>1, CursorInvariant, PTL

\* The data pointer and the byte counter stay together (BufferCursor), for
\* every length of sector and track.
THEOREM BufferCursorHolds == Spec => []BufferCursor
  <1>1. Cursor => BufferCursor
    BY DEF Cursor
  <1> QED
    BY <1>1, CursorInvariant, PTL

-----------------------------------------------------------------------------
\* Where the interrupt line is down: during a seek, in the result phase of
\* the commands that raise none, and from the second result byte on.
QuietLine ==
  \/ command \in SeekCmds /\ phase = "E"
  \/ phase = "R" /\ (command \in SenseCmds \/ (command # "WAIT" /\ step >= 2))
  => ~FDC_flag

\* Only these commands have a result phase.
ResultCommand ==
  phase = "R" /\ command # "WAIT"
    => command \in SenseCmds \cup ReadCmds \cup WriteCmds

SeekInv == BusyMatchesSeek /\ IntrHasSource /\ QuietLine /\ ResultCommand

\* At the start no seek is on and the line is down.
LEMMA InitSeekInv == Init => SeekInv
  BY DEF Init, SeekInv, BusyMatchesSeek, IntrHasSource, QuietLine,
         ResultCommand, SeekCmds, SenseCmds

\* Every step keeps the busy bits, the seek states and the line in agreement.
LEMMA NextSeekInv == TypeOK /\ SeekInv /\ [Next]_vars => SeekInv'
  <1> SUFFICES ASSUME TypeOK, SeekInv, [Next]_vars PROVE SeekInv'
    OBVIOUS
  <1> USE UnitIsUnit DEF SeekInv, BusyMatchesSeek, IntrHasSource, QuietLine, ResultCommand,
          Notified, Exec, InPass, EndPass, Delay, Delays, WaitLeft, TypeOK, SeekTypeOK
  <1>1. ASSUME NEW b \in HostBytes, OutData(b) PROVE SeekInv'
    BY <1>1 DEF OutData, HostActs
  <1>2. ASSUME InData PROVE SeekInv'
    BY <1>2 DEF InData, HostActs
  <1>3. ASSUME RaiseTC PROVE SeekInv'
    BY <1>3 DEF RaiseTC, HostActs
  <1>4. ASSUME Poll PROVE SeekInv'
    BY <1>4 DEF Poll, HostActs
  <1>5. ASSUME NEW w \in WaitAfter, NEW D \in SUBSET Moving, CtrlEnter(w, D) PROVE SeekInv'
    BY <1>5 DEF CtrlEnter, Moving
  <1>6. ASSUME WaitReceive PROVE SeekInv'
    BY <1>6
      DEF WaitReceive, Decode, ReadCmds, ReadSector, WriteCmds, WriteSect,
          SeekCmds, SenseCmds, Commands
  <1>7. ASSUME WaitIdle PROVE SeekInv'
    BY <1>7 DEF WaitIdle, SeekReported, Lowest, Ended, SeekCmds, SenseCmds
  <1>8. ASSUME CPhaseHold PROVE SeekInv'
    BY <1>8 DEF CPhaseHold, InC
  <1>9. ASSUME CPhaseByte PROVE SeekInv'
    BY <1>9
      DEF CPhaseByte, InC, TakeByte, LastByte, ReadCmds, ReadSector, WriteCmds,
          WriteSect, SeekCmds, SenseCmds
  <1>10. ASSUME CPhaseLast PROVE SeekInv'
    BY <1>10
      DEF CPhaseLast, InC, TakeByte, LastByte, TakeIntr, StartCommand, Lowest,
          ReadCmds, ReadSector, WriteCmds, WriteSect, SeekCmds, SenseCmds
  <1>11. ASSUME CPhaseScan PROVE SeekInv'
    <2>1. phase' = "C" /\ command' = command /\ command \in ScanCmds
      BY <1>11 DEF CPhaseScan, InC
    <2>2. ~FDC_flag'
      BY <1>11 DEF CPhaseScan, TakeIntr
    <2>3. BusyMatchesSeek'
      BY <1>11 DEF CPhaseScan, TakeIntr, Lowest
    <2> QED
      BY <2>1, <2>2, <2>3 DEF ScanCmds, SeekCmds, SenseCmds
  <1>12. ASSUME SeekPass PROVE SeekInv'
    BY <1>12
      DEF SeekPass, SeekDone, ReadCmds, ReadSector, WriteCmds, WriteSect,
          SeekCmds, SenseCmds
  <1>13. ASSUME SearchNoDisk PROVE SeekInv'
    BY <1>13 DEF SearchNoDisk
  <1>14. ASSUME SearchFails PROVE SeekInv'
    BY <1>14 DEF SearchFails, Finish
  <1>15. ASSUME ReadIdFound PROVE SeekInv'
    BY <1>15 DEF ReadIdFound
  <1>16. ASSUME ReadDiagHang PROVE SeekInv'
    BY <1>16 DEF ReadDiagHang
  <1>17. ASSUME ReadSkip PROVE SeekInv'
    BY <1>17 DEF ReadSkip, Finish
  <1>18. ASSUME NEW m \in BOOLEAN, ReadFound(m) PROVE SeekInv'
    BY <1>18 DEF ReadFound
  <1>19. ASSUME WriteFound PROVE SeekInv'
    BY <1>19 DEF WriteFound
  <1>20. ASSUME SendByte PROVE SeekInv'
    BY <1>20
      DEF SendByte, ReadCmds, ReadSector, WriteCmds, WriteSect, SeekCmds,
          SenseCmds
  <1>21. ASSUME RecvDone PROVE SeekInv'
    BY <1>21
      DEF RecvDone, ByteMoved, ReadCmds, ReadSector, WriteCmds, WriteSect,
          SeekCmds, SenseCmds
  <1>22. ASSUME TransferCut PROVE SeekInv'
    BY <1>22
      DEF TransferCut, ReadCmds, ReadSector, WriteCmds, WriteSect, SeekCmds,
          SenseCmds
  <1>23. ASSUME TransferHold PROVE SeekInv'
    BY <1>23 DEF TransferHold
  <1>24. ASSUME ReadEndError PROVE SeekInv'
    BY <1>24 DEF ReadEndError, Finish
  <1>25. ASSUME ReadEndTC PROVE SeekInv'
    BY <1>25 DEF ReadEndTC, InReadEnd, Finish
  <1>26. ASSUME ReadEndNext PROVE SeekInv'
    BY <1>26 DEF ReadEndNext, InReadEnd, Finish
  <1>27. ASSUME ReadEndWait PROVE SeekInv'
    BY <1>27 DEF ReadEndWait, InReadEnd
  <1>28. ASSUME RequestByte PROVE SeekInv'
    BY <1>28
      DEF RequestByte, ReadCmds, ReadSector, WriteCmds, WriteSect, SeekCmds,
          SenseCmds
  <1>29. ASSUME RespondDone PROVE SeekInv'
    BY <1>29
      DEF RespondDone, ByteMoved, ReadCmds, ReadSector, WriteCmds, WriteSect,
          SeekCmds, SenseCmds
  <1>30. ASSUME WriteIdTrack PROVE SeekInv'
    BY <1>30
      DEF WriteIdTrack, FinishUp, ReadCmds, ReadSector, WriteCmds, WriteSect,
          SeekCmds, SenseCmds
  <1>31. ASSUME WriteSector PROVE SeekInv'
    BY <1>31 DEF WriteSector, WriteEnd, Finish
  <1>32. ASSUME WriteEndLate PROVE SeekInv'
    BY <1>32 DEF WriteEndLate, WriteEnd, Finish
  <1>33. ASSUME EPhaseFinish PROVE SeekInv'
    BY <1>33
      DEF EPhaseFinish, FinishUp, ReadCmds, ReadSector, WriteCmds, WriteSect,
          SeekCmds, SenseCmds
  <1>34. ASSUME RStart PROVE SeekInv'
    BY <1>34
      DEF RStart, InR, ReadCmds, ReadSector, WriteCmds, WriteSect, SeekCmds,
          SenseCmds
  <1>35. ASSUME RNext PROVE SeekInv'
    BY <1>35
      DEF RNext, InR, Results, ReadCmds, ReadSector, WriteCmds, WriteSect,
          SeekCmds, SenseCmds
  <1>36. ASSUME RDone PROVE SeekInv'
    <2>1. ~FDC_flag
      BY <1>36 DEF RDone, InR, Results, CmdTypeOK
    <2> QED
      BY <1>36, <2>1 DEF RDone, SeekCmds, SenseCmds
  <1>37. ASSUME RHold PROVE SeekInv'
    BY <1>37 DEF RHold, InR
  <1>38. ASSUME NEW d \in Drives, NEW k \in Disks, DiskInsert(d, k) PROVE SeekInv'
    BY <1>38 DEF DiskInsert
  <1>39. ASSUME NEW d \in Drives, DiskEject(d) PROVE SeekInv'
    BY <1>39 DEF DiskEject
  <1>40. ASSUME Reset PROVE SeekInv'
    BY <1>40
      DEF Reset, ReadCmds, ReadSector, WriteCmds, WriteSect, SeekCmds,
          SenseCmds
  <1>41. CASE UNCHANGED vars
    BY <1>41 DEF vars
  <1> QED
    BY <1>1, <1>2, <1>3, <1>4, <1>5, <1>6, <1>7, <1>8, <1>9,
       <1>10, <1>11, <1>12, <1>13, <1>14, <1>15, <1>16, <1>17, <1>18,
       <1>19, <1>20, <1>21, <1>22, <1>23, <1>24, <1>25, <1>26, <1>27,
       <1>28, <1>29, <1>30, <1>31, <1>32, <1>33, <1>34, <1>35, <1>36,
       <1>37, <1>38, <1>39, <1>40, <1>41
       DEF Next, HostStep, Enter, Pass, EPhase, MenuStep

\* The busy bits of the status register are exactly the seeks not yet taken
\* over (BusyMatchesSeek), for any number of drives and with fdc_wait or not.
THEOREM BusyMatchesSeekHolds == Spec => []BusyMatchesSeek
  <1>1. SeekInv => BusyMatchesSeek
    BY DEF SeekInv
  <1> QED
    BY <1>1, InitSeekInv, NextSeekInv, TypeCorrect, PTL DEF Spec

\* Between data commands the interrupt line always has a seek behind it
\* (IntrHasSource).
THEOREM IntrHasSourceHolds == Spec => []IntrHasSource
  <1>1. SeekInv => IntrHasSource
    BY DEF SeekInv
  <1> QED
    BY <1>1, InitSeekInv, NextSeekInv, TypeCorrect, PTL DEF Spec

-----------------------------------------------------------------------------
\* With fdc_wait off at most one seek is between its end and the command that
\* takes it over, none is under way, and one that has ended is announced in
\* the next pass of the same call of fdc_ctrl: before any other command.
OneSeek ==
  /\ SeekIntrPending
  /\ \A u, v \in Ended \cup Notified : u = v
  /\ \A u \in Units : seek_stat[u] # "MOVE"
  /\ command # "WAIT" /\ phase \in {"E", "R"} => Ended \cup Notified = {}
  /\ Ended # {} => command = "WAIT" /\ ctrl = "again" /\ Rqm

\* At the start no seek has ended.
LEMMA InitOneSeek == Init => OneSeek
  BY DEF Init, OneSeek, SeekIntrPending, Ended, Notified

\* While no seek waits to be taken over, only a step that moves seek_stat can
\* disturb OneSeek: that covers the execution and the result phases.
LEMMA NoSeekWaits ==
  ASSUME OneSeek, seek_stat' = seek_stat, Ended \cup Notified = {}
  PROVE  OneSeek'
  BY DEF OneSeek, SeekIntrPending, Ended, Notified

\* Without fdc_wait a seek ends in the pass it begins in, so seeks are
\* announced one by one.
LEMMA NextOneSeek ==
  ASSUME ~fdc_wait, TypeOK, OneSeek, [Next]_vars
  PROVE  OneSeek'
  <1>1. CASE HostStep
    BY <1>1 DEF HostStep, OutData, InData, RaiseTC, Poll, HostActs, OneSeek,
                SeekIntrPending, Ended, Notified
  <1>2. CASE Enter
    <2> PICK w \in WaitAfter, D \in SUBSET Moving : CtrlEnter(w, D)
      BY <1>2 DEF Enter
    <2>1. D = {}
      BY UnitsAssumption DEF OneSeek, Moving, Units, Drives
    <2>2. seek_stat' = seek_stat
      BY <2>1 DEF CtrlEnter, TypeOK, SeekTypeOK
    <2> QED
      BY <2>2 DEF CtrlEnter, OneSeek, SeekIntrPending, Ended, Notified
  <1>3. CASE command # "WAIT" /\ phase \in {"E", "R"} /\ Pass
    <2>1. Ended \cup Notified = {}
      BY <1>3 DEF OneSeek
    <2>2. CASE SeekPass
      <3>1. \E u \in Units : seek_stat' = [seek_stat EXCEPT ![u] = "END"]
        BY <2>2, UnitIsUnit DEF SeekPass
      <3>2. command' = "WAIT" /\ ctrl' = "again" /\ Rqm'
        BY <2>2 DEF SeekPass, EndPass, WaitLeft, Rqm
      <3> QED
        BY <2>1, <3>1, <3>2
           DEF OneSeek, SeekIntrPending, Ended, Notified, TypeOK, SeekTypeOK
    <2>3. CASE ~SeekPass
      <3>1. seek_stat' = seek_stat
        BY <1>3, <2>3
           DEF Pass, EPhase, WaitReceive, WaitIdle, CPhaseHold, CPhaseByte, CPhaseLast,
               CPhaseScan, InC, SearchNoDisk, SearchFails, ReadIdFound,
               ReadDiagHang, ReadSkip, ReadFound, WriteFound, SendByte,
               RecvDone, TransferCut, TransferHold, ReadEndError, ReadEndTC,
               ReadEndNext, ReadEndWait, RequestByte, RespondDone,
               WriteIdTrack, WriteSector, WriteEndLate, EPhaseFinish, RStart,
               RNext, RDone, RHold, seekVars
      <3> QED
        BY <2>1, <3>1, NoSeekWaits
    <2> QED
      BY <2>2, <2>3
  <1>4. CASE command # "WAIT" /\ phase = "C" /\ Pass
    <2>1. Ended = {}
      BY <1>4 DEF OneSeek
    <2>2. CASE CPhaseHold \/ CPhaseByte
      BY <2>2, <2>1, <1>4
         DEF CPhaseHold, CPhaseByte, OneSeek, SeekIntrPending, Ended, Notified
    <2>3. CASE CPhaseLast \/ CPhaseScan
      <3>1. TakeIntr
        BY <2>3 DEF CPhaseLast, CPhaseScan
      <3>2. \/ seek_stat' = seek_stat /\ Notified = {}
            \/ \E u \in Notified : seek_stat' = [seek_stat EXCEPT ![u] = "STOP"]
        BY <3>1 DEF TakeIntr, Lowest, OneSeek, SeekIntrPending
      <3>3. Ended' \cup Notified' = {} /\ \A u \in Units : seek_stat'[u] # "MOVE"
        BY <2>1, <3>2 DEF OneSeek, Ended, Notified, TypeOK, SeekTypeOK
      <3> QED
        BY <3>3 DEF OneSeek, SeekIntrPending
    <2> QED
      BY <1>4, <2>2, <2>3
         DEF Pass, EPhase, WaitReceive, WaitIdle, SeekPass, SearchNoDisk, SearchFails,
             ReadIdFound, ReadDiagHang, ReadSkip, ReadFound, WriteFound,
             SendByte, RecvDone, TransferCut, TransferHold, ReadEndError,
             ReadEndTC, InReadEnd, ReadEndNext, ReadEndWait, RequestByte,
             RespondDone, WriteIdTrack, WriteSector, WriteEndLate,
             EPhaseFinish, RStart, RNext, RDone, RHold, InR, Exec
  <1>5. CASE command = "WAIT" /\ Pass
    <2>1. CASE WaitReceive
      BY <2>1 DEF WaitReceive, OneSeek, SeekIntrPending, Ended, Notified
    <2>2. CASE WaitIdle
      <3>1. CASE Ended = {} /\ UNCHANGED <<seek_stat, FDC_flag>>
        BY <2>2, <3>1 DEF WaitIdle, OneSeek, SeekIntrPending, Ended, Notified
      <3>2. CASE \E u \in Ended : /\ seek_stat' = [seek_stat EXCEPT ![u] = "INTR"]
                                  /\ FDC_flag'
        <4>1. Ended' = {} /\ \A u, v \in Notified' : u = v
          BY <3>2 DEF OneSeek, Ended, Notified, TypeOK, SeekTypeOK
        <4>2. \A u \in Units : seek_stat'[u] # "MOVE"
          BY <3>2 DEF OneSeek, Ended, TypeOK, SeekTypeOK
        <4>3. command' = "WAIT"
          BY <2>2 DEF WaitIdle, cmdVars
        <4> QED
          BY <3>2, <4>1, <4>2, <4>3 DEF OneSeek, SeekIntrPending
      <3> QED
        BY <2>2, <3>1, <3>2 DEF WaitIdle, SeekReported, Lowest
    <2> QED
      BY <1>5, <2>1, <2>2
         DEF Pass, EPhase, CPhaseHold, CPhaseByte, CPhaseLast, CPhaseScan, InC,
             SeekPass, SeekCmds, SearchNoDisk, SearchFails, ReadIdFound,
             ReadDiagHang, ReadSkip, ReadFound, WriteFound, SendByte,
             RecvDone, TransferCut, TransferHold, ReadEndError, ReadEndTC,
             InReadEnd, ReadEndNext, ReadEndWait, RequestByte, RespondDone,
             WriteIdTrack, WriteSector, WriteEndLate, EPhaseFinish, RStart,
             RNext, RDone, RHold, InR, Exec, ReadCmds, ReadSector, WriteCmds,
             WriteSect
  <1>6. CASE MenuStep
    <2>1. CASE Reset
      BY <2>1 DEF Reset, OneSeek, SeekIntrPending, Ended, Notified
    <2> QED
      BY <1>6, <2>1 DEF MenuStep, MenuOpen, DiskInsert, DiskEject, OneSeek,
                        SeekIntrPending, Ended, Notified, cmdVars, seekVars, Rqm
  <1>7. CASE UNCHANGED vars
    BY <1>7 DEF vars, cmdVars, seekVars, OneSeek, SeekIntrPending, Ended,
                Notified, Rqm
  <1> QED
    BY <1>1, <1>2, <1>3, <1>4, <1>5, <1>6, <1>7 DEF Next, TypeOK, CmdTypeOK

\* With fdc_wait off a finished seek is never forgotten: the interrupt line
\* stays up until a command takes the seek over (SeekIntrPending).
THEOREM SeekIntrPendingHolds ==
  ASSUME ~fdc_wait PROVE Spec => []SeekIntrPending
  <1>1. OneSeek => SeekIntrPending
    BY DEF OneSeek
  <1>2. TypeOK /\ OneSeek /\ [Next]_vars => OneSeek'
    BY NextOneSeek
  <1> QED
    BY <1>1, <1>2, InitOneSeek, TypeCorrect, PTL DEF Spec

-----------------------------------------------------------------------------
\* A command that is about to end normally, or has, was given TC; and the TC
\* line is never up without the history variable having noted it.
NormalEnd ==
  /\ TC => tcSeen
  /\ command \in ReadSector \cup WriteSect /\ ic = "NT"
       /\ (phase = "R" \/ (phase = "E" /\ step = Finish)) => tcSeen

\* At the start there is no command to end.
LEMMA InitNormalEnd == Init => NormalEnd
  BY DEF Init, NormalEnd, ReadSector, WriteSect

\* Only TC leads a sector command to its last step with the normal code.
LEMMA NextNormalEnd == TypeOK /\ NormalEnd /\ [Next]_vars => NormalEnd'
  <1> SUFFICES ASSUME TypeOK, NormalEnd, [Next]_vars PROVE NormalEnd'
    OBVIOUS
  <1> USE DEF NormalEnd, Finish, ReadSector, WriteSect
  <1>1. CASE HostStep
    BY <1>1 DEF HostStep, OutData, InData, RaiseTC, Poll
  <1>2. CASE Enter
    BY <1>2 DEF Enter, CtrlEnter
  <1>3. CASE WaitReceive \/ WaitIdle
    BY <1>3 DEF WaitReceive, WaitIdle
  <1>4. CASE CPhaseHold \/ CPhaseByte \/ CPhaseScan
    BY <1>4 DEF CPhaseHold, CPhaseByte, CPhaseScan, InC
  <1>5. CASE CPhaseLast
    BY <1>5 DEF CPhaseLast, InC, StartCommand, ReadCmds, WriteCmds, SeekCmds,
                SenseCmds
  <1>6. CASE SeekPass
    BY <1>6 DEF SeekPass
  <1>7. CASE SearchNoDisk \/ SearchFails \/ ReadIdFound \/ ReadDiagHang
             \/ ReadSkip
    <2>1. CASE SearchNoDisk \/ ReadDiagHang
      BY <2>1 DEF SearchNoDisk, ReadDiagHang
    <2>2. CASE SearchFails
      BY <2>2 DEF SearchFails
    <2>3. CASE ReadIdFound
      BY <2>3 DEF ReadIdFound, Exec
    <2>4. CASE ReadSkip
      BY <2>4 DEF ReadSkip, NextChrn, CylinderEnd, Exec
    <2> QED
      BY <1>7, <2>1, <2>2, <2>3, <2>4
  <1>8. CASE WriteFound \/ \E m \in BOOLEAN : ReadFound(m)
    BY <1>8 DEF WriteFound, ReadFound, Exec
  <1>9. CASE SendByte \/ RecvDone \/ TransferCut \/ TransferHold
             \/ RequestByte \/ RespondDone
    BY <1>9 DEF SendByte, RecvDone, TransferCut, TransferHold, RequestByte,
                RespondDone, ByteMoved, Exec
  <1>10. CASE ReadEndError \/ ReadEndTC \/ ReadEndNext \/ ReadEndWait
    <2>1. CASE ReadEndError
      BY <2>1 DEF ReadEndError, Exec
    <2>2. CASE ReadEndTC
      BY <2>2 DEF ReadEndTC
    <2>3. CASE ReadEndNext
      BY <2>3 DEF ReadEndNext, InReadEnd, NextChrn, CylinderEnd, Exec
    <2>4. CASE ReadEndWait
      BY <2>4 DEF ReadEndWait
    <2> QED
      BY <1>10, <2>1, <2>2, <2>3, <2>4
  <1>11. CASE WriteIdTrack
    BY <1>11 DEF WriteIdTrack, FinishUp, Exec
  <1>12. CASE WriteSector \/ WriteEndLate
    <2>1. \E i \in {"NT", "AT"} : WriteEnd(i)
      BY <1>12 DEF WriteSector, WriteEndLate, TypeOK, XferTypeOK
    <2>2. phase = "E" /\ command \in WriteSect /\ UNCHANGED <<command, phase, TC, tcSeen>>
      BY <1>12 DEF WriteSector, WriteEndLate, Exec
    <2> QED
      BY <2>1, <2>2 DEF WriteEnd, NextChrn, CylinderEnd
  <1>13. CASE EPhaseFinish
    BY <1>13 DEF EPhaseFinish, FinishUp, Exec
  <1>14. CASE RStart \/ RNext \/ RDone \/ RHold
    BY <1>14 DEF RStart, RNext, RDone, RHold, InR
  <1>15. CASE MenuStep
    BY <1>15 DEF MenuStep, DiskInsert, DiskEject, Reset
  <1>16. CASE UNCHANGED vars
    BY <1>16 DEF vars
  <1> QED
    BY <1>1, <1>2, <1>3, <1>4, <1>5, <1>6, <1>7, <1>8, <1>9, <1>10, <1>11,
       <1>12, <1>13, <1>14, <1>15, <1>16 DEF Next, Pass, EPhase

\* A read or write of sectors that reports a normal end was given TC
\* (NormalEndNeedsTC), whatever sectors it covered and however it skipped.
THEOREM NormalEndNeedsTCHolds == Spec => []NormalEndNeedsTC
  <1>1. NormalEnd => NormalEndNeedsTC
    BY DEF NormalEnd, NormalEndNeedsTC
  <1> QED
    BY <1>1, InitNormalEnd, NextNormalEnd, TypeCorrect, PTL DEF Spec

-----------------------------------------------------------------------------
\* The ID buffer is right, and while a sector is being received the buffer is
\* the one of the drive the sector is meant for.
IdBuffer ==
  /\ SecBufCoherent
  /\ command \in WriteSect /\ phase = "E" /\ step \in 1..3
       => sec_buf.drv = Us

\* The buffer has the fields it is declared with.
LEMMA BufferFields ==
  TypeOK => sec_buf = [drv |-> sec_buf.drv, of |-> sec_buf.of]
  BY DEF TypeOK, DiskTypeOK

\* Every drive number is distinct from the mark of an invalid buffer.
LEMMA DriveIsValid == NoDrv \notin Drives
  BY UnitsAssumption DEF NoDrv, Drives

\* At the start the buffer is marked not valid.
LEMMA InitIdBuffer == Init => IdBuffer
  BY DEF Init, IdBuffer, SecBufCoherent, WriteSect

\* Whoever relabels the buffer fills it from that drive.
LEMMA NextIdBuffer ==
  ASSUME Menu # "any", TypeOK, WriteUnit, IdBuffer, [Next]_vars
  PROVE  IdBuffer'
  <1> USE DriveIsValid
      DEF IdBuffer, SecBufCoherent, TypeOK, DiskTypeOK, Loaded, WriteSect
  <1>1. CASE HostStep
    BY <1>1 DEF HostStep, OutData, InData, RaiseTC, Poll, Us
  <1>2. CASE Enter
    BY <1>2 DEF Enter, CtrlEnter, Us
  <1>3. CASE WaitReceive
    BY <1>3 DEF WaitReceive
  <1>4. CASE WaitIdle
    BY <1>4 DEF WaitIdle, SeekReported
  <1>5. CASE CPhaseHold \/ CPhaseByte \/ CPhaseScan
    BY <1>5 DEF CPhaseHold, CPhaseByte, CPhaseScan, InC
  <1>6. CASE CPhaseLast
    BY <1>6 DEF CPhaseLast
  <1>7. CASE SeekPass
    BY <1>7 DEF SeekPass
  <1>8. CASE SearchNoDisk \/ SearchFails \/ ReadIdFound \/ ReadDiagHang
             \/ ReadSkip
    <2>1. /\ drive' = drive
          /\ \/ sec_buf' = sec_buf
             \/ Us \in Drives /\ sec_buf' = Loaded(Us)
      BY <1>8 DEF SearchNoDisk, SearchFails, ReadIdFound, ReadDiagHang, ReadSkip,
                  Present, UnitRefused, SecBufSearched, NextChrn
    <2>2. command' \in WriteSect => step' = 0 \/ step' = 5
      BY <1>8 DEF SearchNoDisk, SearchFails, ReadIdFound, ReadDiagHang, ReadSkip,
                  Exec, Finish, ReadSector
    <2> QED
      BY <2>1, <2>2
  <1>9. CASE WriteFound \/ \E m \in BOOLEAN : ReadFound(m)
    BY <1>9 DEF WriteFound, ReadFound, Exec, Present, UnitRefused,
                SecBufSearched, Us, ReadSector
  <1>10. CASE SendByte \/ RecvDone \/ TransferCut \/ TransferHold
              \/ RequestByte \/ RespondDone
    BY <1>10 DEF SendByte, RecvDone, TransferCut, TransferHold, RequestByte,
                 RespondDone, ByteMoved, Exec, Us
  <1>11. CASE ReadEndError \/ ReadEndTC \/ ReadEndNext \/ ReadEndWait
    BY <1>11 DEF ReadEndError, ReadEndTC, ReadEndNext, ReadEndWait, InReadEnd,
                 NextChrn, CylinderEnd, Exec, Finish, Us, ReadCmds, ReadSector
  <1>12. CASE WriteIdTrack
    BY <1>12 DEF WriteIdTrack, FinishUp, Exec, fdc_write_id, WriteOut, WriteUnit, WriteCmds
  <1>13. CASE WriteSector
    <2>1. sec_buf' \in {sec_buf, [sec_buf EXCEPT !.of = drive[Us]]} /\ drive' = drive
      BY <1>13 DEF WriteSector, WriteOut
    <2>2. sec_buf.drv = Us
      BY <1>13 DEF WriteSector, Exec
    <2>3. step' \notin 1..3
      BY <1>13 DEF WriteSector, WriteEnd, NextChrn, CylinderEnd, Finish
    <2>4. SecBufCoherent'
      BY <2>1, <2>2
    <2> QED
      BY <2>3, <2>4
  <1>14. CASE WriteEndLate
    <2>1. sec_buf' = sec_buf /\ drive' = drive
      BY <1>14 DEF WriteEndLate
    <2>2. step' \notin 1..3
      BY <1>14 DEF WriteEndLate, WriteEnd, NextChrn, CylinderEnd, Finish, Exec
    <2> QED
      BY <2>1, <2>2
  <1>15. CASE EPhaseFinish
    BY <1>15 DEF EPhaseFinish, FinishUp
  <1>16. CASE RStart \/ RNext \/ RDone \/ RHold
    BY <1>16 DEF RStart, RNext, RDone, RHold, InR
  <1>17. CASE MenuStep
    BY <1>17, OptionAssumption DEF MenuStep, MenuOpen, DiskInsert, DiskEject, Reset
  <1>18. CASE UNCHANGED vars
    BY <1>18 DEF vars, Us
  <1> QED
    BY <1>1, <1>2, <1>3, <1>4, <1>5, <1>6, <1>7, <1>8, <1>9, <1>10, <1>11,
       <1>12, <1>13, <1>14, <1>15, <1>16, <1>17, <1>18 DEF Next, Pass, EPhase

\* Unless the user changes disks while a command runs, the one ID buffer all
\* drives share always belongs to the disk in the drive it is labelled with
\* (SecBufCoherent).
THEOREM SecBufCoherentHolds ==
  ASSUME Menu # "any" PROVE Spec => []SecBufCoherent
  <1>1. IdBuffer => SecBufCoherent
    BY DEF IdBuffer
  <1>2. Cursor => TypeOK /\ WriteUnit
    BY DEF Cursor
  <1>3. TypeOK /\ WriteUnit /\ IdBuffer /\ [Next]_vars => IdBuffer'
    BY NextIdBuffer
  <1> QED
    BY <1>1, <1>2, <1>3, InitIdBuffer, CursorInvariant, PTL DEF Spec

-----------------------------------------------------------------------------
\* While the command phase runs, the next entry of the row exists.
RowLeft ==
  command # "WAIT" /\ phase = "C" =>
    step < Len(Params(command)) \/ command \in ScanCmds

\* Every row has an entry: the command byte itself.
LEMMA RowNotEmpty == \A cmd : 0 < Len(Params(cmd))
  <1> TAKE cmd
  <1>1. Len(Params(cmd)) \in 1..9
    BY ParamsLength
  <1> QED
    BY <1>1, SMTT(60)

\* At the start no command is in its command phase.
LEMMA InitRowLeft == Init => RowLeft
  BY DEF Init, RowLeft

\* A command phase begins at entry 0 of its row, and only the commands that
\* c_phase refuses stay in it after their last byte.
LEMMA NextRowLeft == TypeOK /\ RowLeft /\ [Next]_vars => RowLeft'
  <1> SUFFICES ASSUME TypeOK, RowLeft, [Next]_vars PROVE RowLeft'
    OBVIOUS
  <1> USE DEF RowLeft
  <1>1. CASE HostStep \/ Enter
    BY <1>1 DEF HostStep, OutData, InData, RaiseTC, Poll, Enter, CtrlEnter
  <1>2. CASE WaitReceive \/ WaitIdle
    <2>1. CASE WaitReceive
      <3>1. step' = 0
        BY <2>1 DEF WaitReceive
      <3>2. 0 < Len(Params(command'))
        BY RowNotEmpty, Zenon
      <3> QED
        BY <3>1, <3>2
    <2>2. CASE WaitIdle
      BY <2>2 DEF WaitIdle
    <2> QED
      BY <1>2, <2>1, <2>2
  <1>3. CASE CPhaseHold \/ CPhaseScan
    BY <1>3 DEF CPhaseHold, CPhaseScan
  <1>4. CASE CPhaseByte
    <2>1. step + 1 # Len(Params(command)) /\ step < Len(Params(command))
      BY <1>4 DEF CPhaseByte, TakeByte, LastByte
    <2>2. step \in Nat /\ Len(Params(command)) \in Nat
      BY ParamsLength DEF TypeOK, CmdTypeOK, MaxStep
    <2> QED
      BY <1>4, <2>1, <2>2 DEF CPhaseByte
  <1>5. CASE CPhaseLast
    <2>1. CASE command \in ReadCmds \cup WriteCmds \cup SeekCmds \cup SenseCmds
      <3>1. phase' \in {"E", "R"}
        BY <1>5, <2>1 DEF CPhaseLast, StartCommand
      <3> QED
        BY <3>1
    <2>2. CASE command = "SPECIFY"
      BY <1>5, <2>2 DEF CPhaseLast, StartCommand
    <2> QED
      BY <1>5, <2>1, <2>2
         DEF CPhaseLast, InC, TypeOK, CmdTypeOK, Commands
  <1>6. CASE SeekPass
    BY <1>6 DEF SeekPass
  <1>7. CASE SearchNoDisk \/ SearchFails \/ ReadIdFound \/ ReadDiagHang
             \/ ReadSkip \/ WriteFound \/ \E m \in BOOLEAN : ReadFound(m)
    BY <1>7 DEF SearchNoDisk, SearchFails, ReadIdFound, ReadDiagHang, ReadSkip,
                WriteFound, ReadFound, Exec
  <1>8. CASE SendByte \/ RecvDone \/ TransferCut \/ TransferHold
             \/ RequestByte \/ RespondDone
    BY <1>8 DEF SendByte, RecvDone, TransferCut, TransferHold, RequestByte,
                RespondDone, Exec
  <1>9. CASE ReadEndError \/ ReadEndTC \/ ReadEndNext \/ ReadEndWait
    BY <1>9 DEF ReadEndError, ReadEndTC, ReadEndNext, ReadEndWait, InReadEnd,
                Exec
  <1>10. CASE WriteIdTrack \/ WriteSector \/ WriteEndLate \/ EPhaseFinish
    BY <1>10 DEF WriteIdTrack, WriteSector, WriteEndLate, EPhaseFinish, FinishUp,
                 Exec
  <1>11. CASE RStart \/ RNext \/ RDone \/ RHold
    BY <1>11 DEF RStart, RNext, RDone, RHold, InR
  <1>12. CASE MenuStep
    BY <1>12 DEF MenuStep, DiskInsert, DiskEject, Reset
  <1>13. CASE UNCHANGED vars
    BY <1>13 DEF vars
  <1> QED
    BY <1>1, <1>2, <1>3, <1>4, <1>5, <1>6, <1>7, <1>8, <1>9, <1>10, <1>11,
       <1>12, <1>13 DEF Next, Pass, EPhase

\* No command but a SCAN stores a byte through the null entry that ends its
\* row of the parameter table (ParamSlotInTable).
THEOREM ParamSlotInTableHolds == Spec => []ParamSlotInTable
  <1>1. TypeOK /\ RowLeft => ParamSlotInTable
    <2>1. ASSUME TypeOK PROVE step \in Nat /\ Len(Params(command)) \in Nat
      BY <2>1, ParamsLength DEF TypeOK, CmdTypeOK, MaxStep
    <2> QED
      BY <2>1 DEF RowLeft, ParamSlotInTable, InC
  <1> QED
    BY <1>1, InitRowLeft, NextRowLeft, TypeCorrect, PTL DEF Spec

=============================================================================
