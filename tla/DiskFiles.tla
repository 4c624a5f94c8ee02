----------------------------- MODULE DiskFiles -----------------------------
(***************************************************************************)
(* The open files of the emulator and the disks in its two drives: the     *)
(* table of eight streams (file-op.cpp), the drives that hold them         *)
(* (disk_insert, disk_insert_A_to_B, disk_change_image, disk_eject in      *)
(* fdc.c), the calls of the menu and the keyboard that change disks        *)
(* (quasi88.cpp), and the opening and closing of every image file at the   *)
(* start and the end (fname.h).                                            *)
(*                                                                         *)
(* All of this runs on the emulator's thread, one call at a time: a call   *)
(* is one action.  The functions of the code that change several           *)
(* structures are operators from a record of the structures to a record of *)
(* the structures, composed the way the code calls them.                   *)
(*                                                                         *)
(* A file is a path with the number of disk images it holds; the contents  *)
(* of the images are left out, and so are readonly_disk and boot_from_rom  *)
(* (only copied) and the snapshot and WAV names (set beside file_state).   *)
(***************************************************************************)
EXTENDS Integers, Sequences, FiniteSets

CONSTANTS
  MaxStream,      \* MAX_STREAM: entries of osd_stream (8)
  MaxNrImage,     \* MAX_NR_IMAGE: entries of drive.image (32)
  Paths, NoPath,  \* file names, and the empty name
  Missing,        \* files that are not on the card
  Unwritable,     \* files that cannot be opened for writing
  Images,         \* Images[p]: how many disk images file p holds
  Tabs,           \* <<p, n>>: image n of file p is write protected
  OtherFiles,     \* the other files of the start: [type, path, mode]
  DriveFiles,     \* paths that may be put in a drive, at any time
  ImageArgs,      \* image numbers given at the start (-1: automatic)
  fdc_ignore_readonly, \* the option of this name
  CharSigned      \* TRUE where char is signed (it is not on the ESP32)

ASSUME SizesAssumption == MaxStream \in Nat \ {0} /\ MaxNrImage \in Nat \ {0}
ASSUME PathsAssumption == /\ NoPath \notin Paths
                          /\ Missing \subseteq Paths
                          /\ Unwritable \subseteq Paths
                          /\ DriveFiles \subseteq Paths
                          /\ Images \in [Paths -> Nat]
ASSUME OptionsAssumption == /\ ImageArgs \subseteq Int
                            /\ fdc_ignore_readonly \in BOOLEAN
                            /\ CharSigned \in BOOLEAN

Exclusive == {"disk", "tape_load", "tape_save", "prn", "com_load", "com_save"}
Types == Exclusive \cup {"key_pb", "key_rec"}
Modes == {"r+b", "rb", "ab", "wb"}

ASSUME OtherFilesAssumption ==
         OtherFiles \in Seq([type : Types \ {"disk"}, path : Paths, mode : Modes])

Streams  == 1..MaxStream
NoStream == 0                 \* a null OSD_FILE pointer
Drives   == {0, 1}
Others   == 1..Len(OtherFiles)

VARIABLES
  osd_stream,  \* the table of streams
  drive,       \* the two drives
  file_disk,   \* the names of the disk files, NoPath when empty
  file_state,  \* the disk whose name the state file carries, or NoPath
  handle,      \* fp_ti, fp_to, fp_si, fp_so, fp_prn, fp_pb and fp_rec
  opened,      \* how many of OtherFiles the start has been through
  phase        \* "start", "open", "run" or "off"

vars == <<osd_stream, drive, file_disk, file_state, handle, opened, phase>>

StreamRec == [used : BOOLEAN, type : Types, path : Paths \cup {NoPath}, mode : Modes]
DriveRec  == [fp : Streams \cup {NoStream}, read_only : BOOLEAN, empty : BOOLEAN,
              selected_image : 0..(MaxNrImage - 1), image_nr : 0..MaxNrImage,
              image : Paths \cup {NoPath},   \* whose headers image[] holds
              protect : BOOLEAN]

(***************************************************************************)
(* The table of streams.  S is the table; a result holds the new table and *)
(* the stream.                                                             *)
(***************************************************************************)
Least(I) == CHOOSE i \in I : \A j \in I : i <= j

\* What SD.open finds on the card.
CanOpen(p, mode) == CASE mode = "rb"  -> p \notin Missing
                      [] mode = "r+b" -> p \notin Missing /\ p \notin Unwritable
                      [] OTHER        -> p \notin Unwritable

\* The loop at the second switch label looks among the entries NOT in use.
Twins(S, p) == {i \in Streams : ~S[i].used /\ S[i].path = p}

\* The open at free entry i, whose path T has cleared.
OpenAt(T, i, type, p, mode) ==
  IF type \in Exclusive /\ Twins(T, p) # {}
  THEN LET j == Least(Twins(T, p))
       IN  [st |-> T, fp |-> IF type = "disk" /\ T[j].type = type /\ T[j].mode = mode
                             THEN j ELSE NoStream]
  ELSE IF CanOpen(p, mode)
       THEN [st |-> [T EXCEPT ![i] = [used |-> TRUE, type |-> type, mode |-> mode,
                                      path |-> IF type \in Exclusive THEN p ELSE NoPath]],
             fp |-> i]
       ELSE [st |-> T, fp |-> NoStream]

FreeStreams(S) == {i \in Streams : ~S[i].used}

osd_fopen(S, type, p, mode) ==
  IF FreeStreams(S) = {} THEN [st |-> S, fp |-> NoStream]
  ELSE LET i == Least(FreeStreams(S))
       IN  OpenAt([S EXCEPT ![i].path = NoPath], i, type, p, mode)

osd_fclose(S, i) == [S EXCEPT ![i].used = FALSE, ![i].path = NoPath]

(***************************************************************************)
(* The drives.  F is a record of the structures: st, the streams; dr, the  *)
(* drives; fd, the disk names; fs, the state name.                         *)
(***************************************************************************)
SetDrive(F, d, D)  == [F EXCEPT !.dr = [F.dr EXCEPT ![d] = D]]
SetStreams(F, S)   == [F EXCEPT !.st = S]
SetNames(F, p)     == [F EXCEPT !.fd = p]
SetName(F, d, p)   == [F EXCEPT !.fd = [F.fd EXCEPT ![d] = p]]
SetEmpty(F, d, b)  == SetDrive(F, d, [F.dr[d] EXCEPT !.empty = b])

Vacate(F, d) == SetDrive(F, d, [F.dr[d] EXCEPT !.fp = NoStream, !.empty = TRUE])

\* A mutant: the stream is closed though the other drive holds it too.
disk_eject_Always(F, d) ==
  IF F.dr[d].fp # NoStream
  THEN SetStreams(Vacate(F, d), osd_fclose(F.st, F.dr[d].fp))
  ELSE Vacate(F, d)

disk_eject(F, d) ==
  IF F.dr[d].fp # NoStream /\ F.dr[d].fp # F.dr[1 - d].fp
  THEN SetStreams(Vacate(F, d), osd_fclose(F.st, F.dr[d].fp))
  ELSE Vacate(F, d)

Selected(D, img) ==
  [D EXCEPT !.selected_image = img,
            !.empty = FALSE,
            !.protect = \/ <<D.image, img>> \in Tabs
                        \/ ~fdc_ignore_readonly /\ D.read_only]

\* A mutant: one image too many is accepted.
disk_change_image_OneMore(F, d, img) ==
  IF F.dr[d].fp = NoStream \/ img \notin 0..F.dr[d].image_nr THEN F
  ELSE SetDrive(F, d, Selected(F.dr[d], img))

disk_change_image(F, d, img) ==
  IF F.dr[d].fp = NoStream \/ img \notin 0..(F.dr[d].image_nr - 1) THEN F
  ELSE SetDrive(F, d, Selected(F.dr[d], img))

\* The last step of putting a file in a drive: an image that is not there
\* leaves the drive empty.
SetImage(F, d, img) == IF img \in 0..(F.dr[d].image_nr - 1)
                       THEN disk_change_image(F, d, img)
                       ELSE SetEmpty(F, d, TRUE)

\* What the other drive knows of the file they share.
CopyDrive(F, src, dst) ==
  SetDrive(F, dst, [F.dr[dst] EXCEPT !.fp        = F.dr[src].fp,
                                     !.read_only = F.dr[src].read_only,
                                     !.image_nr  = F.dr[src].image_nr,
                                     !.image     = F.dr[src].image])

\* The opens that disk_insert tries: for update, then for reading.
AsRead(r) == [st |-> r.st, fp |-> r.fp, ro |-> TRUE]

OpenRead(S, p) == AsRead(osd_fopen(S, "disk", p, "rb"))

OrRead(rw, p) == IF rw.fp = NoStream THEN OpenRead(rw.st, p)
                 ELSE [st |-> rw.st, fp |-> rw.fp, ro |-> FALSE]

OpenDisk(S, p, readonly) ==
  IF readonly THEN OpenRead(S, p) ELSE OrRead(osd_fopen(S, "disk", p, "r+b"), p)

\* A mutant: the image table may be overrun by one.
ImageCount_OneMore(p) == IF Images[p] <= MaxNrImage THEN Images[p] ELSE MaxNrImage + 1

\* How many images the reading of the headers finds.
ImageCount(p) == IF Images[p] < MaxNrImage THEN Images[p] ELSE MaxNrImage

Fill(F, d, p, ro) == SetDrive(F, d, [F.dr[d] EXCEPT !.read_only = ro,
                                                    !.image_nr = ImageCount(p),
                                                    !.image = p])

\* disk_insert once drive d holds what was opened: DISK_ERROR ejects it again.
Insert1(O, d, p, img, ro) ==
  IF O.dr[d].fp = NoStream THEN [ok |-> FALSE, f |-> disk_eject(O, d)]
  ELSE IF O.dr[d].fp = O.dr[1 - d].fp
  THEN [ok |-> TRUE, f |-> SetImage(CopyDrive(O, 1 - d, d), d, img)]
  ELSE IF ImageCount(p) > 0
  THEN [ok |-> TRUE, f |-> SetImage(Fill(O, d, p, ro), d, img)]
  ELSE [ok |-> FALSE,
        f  |-> disk_eject(SetDrive(O, d, [O.dr[d] EXCEPT !.read_only = ro]), d)]

InsertOpened(E, o, d, p, img) ==
  Insert1(SetStreams(SetDrive(E, d, [E.dr[d] EXCEPT !.fp = o.fp]), o.st), d, p, img, o.ro)

disk_insert(F, d, p, img, readonly) ==
  InsertOpened(disk_eject(F, d), OpenDisk(disk_eject(F, d).st, p, readonly), d, p, img)

CopyInto(E, src, dst, img) ==
  IF E.dr[src].fp = NoStream THEN E ELSE SetImage(CopyDrive(E, src, dst), dst, img)

disk_insert_A_to_B(F, src, dst, img) == CopyInto(disk_eject(F, dst), src, dst, img)

(***************************************************************************)
(* The calls of the menu, in quasi88.cpp.                                  *)
(***************************************************************************)
\* The name a state file takes from the disks.
StateName(fd) == IF fd[0] # NoPath THEN fd[0] ELSE fd[1]

filename_init(F) == [F EXCEPT !.fs = StateName(F.fd)]

\* A mutant: the state name keeps the name of the disk taken out.
quasi88_disk_eject_Named(F, d) ==
  IF F.dr[d].fp = NoStream THEN F ELSE SetName(disk_eject(F, d), d, NoPath)

quasi88_disk_eject(F, d) ==
  IF F.dr[d].fp = NoStream THEN F
  ELSE filename_init(SetName(disk_eject(F, d), d, NoPath))

quasi88_disk_eject_all(F) == quasi88_disk_eject(quasi88_disk_eject(F, 0), 1)

Named(i, d, p) == IF i.ok THEN [ok |-> TRUE, f |-> filename_init(SetName(i.f, d, p))]
                  ELSE i

\* A mutant: the wrapper leaves the ejecting to disk_insert.
quasi88_disk_insert_NoEject(F, d, p, img, ro) == Named(disk_insert(F, d, p, img, ro), d, p)

quasi88_disk_insert(F, d, p, img, ro) ==
  Named(disk_insert(quasi88_disk_eject(F, d), d, p, img, ro), d, p)

NamedAs(B, src, dst) == filename_init(SetName(B, dst, B.fd[src]))

quasi88_disk_insert_A_to_B(F, src, dst, img) ==
  NamedAs(disk_insert_A_to_B(quasi88_disk_eject(F, dst), src, dst, img), src, dst)

\* A file with several images goes into both drives.
BothDrives(i) == IF i.ok /\ i.f.dr[0].image_nr > 1
                 THEN quasi88_disk_insert_A_to_B(i.f, 0, 1, 1) ELSE i.f

quasi88_disk_insert_all(F, p, ro) ==
  BothDrives(quasi88_disk_insert(quasi88_disk_eject_all(F), 0, p, 0, ro))

\* disk_image_sub for a number: it wraps round at either end.
ImageSelect(F, d, img) ==
  LET n == F.dr[d].image_nr
      k == IF img < 0 THEN n - 1 ELSE img
  IN  IF F.dr[d].fp = NoStream THEN F
      ELSE disk_change_image(SetEmpty(F, d, FALSE), d,
                             IF k >= n THEN 0 ELSE k)

ImageEmpty(F, d) == IF F.dr[d].fp = NoStream THEN F
                    ELSE SetEmpty(F, d, TRUE)

\* drive_reset between the reading and the restoring of `empty'.
ResetDrive(F, d) ==
  IF F.dr[d].empty
  THEN SetEmpty(disk_change_image(F, d, F.dr[d].selected_image), d, TRUE)
  ELSE disk_change_image(F, d, F.dr[d].selected_image)

\* One drive of a played back record: -1 is empty, 0 is no change.
PlaybackDrive(F, d, c) ==
  LET n == IF CharSigned THEN c ELSE c % 256
  IN  CASE n = -1 -> SetEmpty(F, d, TRUE)
        [] n \in 1..F.dr[d].image_nr /\ F.dr[d].fp # NoStream ->
             disk_change_image(SetEmpty(F, d, FALSE), d, n - 1)
        [] OTHER -> F

(***************************************************************************)
(* imagefile_all_open: the disks named by the options; p, n and ro give    *)
(* the name, the image number and the read-only flag of each drive.        *)
(***************************************************************************)
FirstIfAuto(n) == IF n < 0 THEN 0 ELSE n

\* What was opened: whether each drive got its disk, and the structures.
Opened(ok0, ok1, F) == [ok0 |-> ok0, ok1 |-> ok1, f |-> F]

\* Both drives were given a file: b is the outcome for drive 2.
PairImages(b, n, ok0) ==
  IF /\ ok0 /\ b.ok
     /\ b.f.dr[0].fp = b.f.dr[1].fp
     /\ n[0] < 0 /\ n[1] < 0
  THEN Opened(ok0, b.ok, disk_change_image(b.f, 1, 1)) ELSE Opened(ok0, b.ok, b.f)

SecondOf(a, p, n, ro) ==
  IF p[0] # p[1] THEN PairImages(disk_insert(a.f, 1, p[1], FirstIfAuto(n[1]), ro[1]), n, a.ok)
  ELSE IF a.ok
       THEN PairImages([ok |-> TRUE, f |-> disk_insert_A_to_B(a.f, 0, 1, FirstIfAuto(n[1]))],
                       n, TRUE)
       ELSE Opened(FALSE, FALSE, a.f)

\* Only drive 1 was given a file: drive 2 gets its second image.
AlsoSecond(a, p, n) ==
  IF a.ok /\ n[0] < 0 /\ a.f.dr[0].image_nr >= 2
  THEN Opened(a.ok, TRUE, SetName(disk_insert_A_to_B(a.f, 0, 1, 1), 1, p[0]))
  ELSE Opened(a.ok, FALSE, a.f)

OpenDrives(F, p, n, ro) ==
  IF p[0] # NoPath
  THEN IF p[1] # NoPath THEN SecondOf(disk_insert(F, 0, p[0], FirstIfAuto(n[0]), ro[0]), p, n, ro)
                        ELSE AlsoSecond(disk_insert(F, 0, p[0], FirstIfAuto(n[0]), ro[0]), p, n)
  ELSE IF p[1] # NoPath
       THEN LET b == disk_insert(F, 1, p[1], FirstIfAuto(n[1]), ro[1]) IN Opened(FALSE, b.ok, b.f)
       ELSE Opened(FALSE, FALSE, F)

\* The names of the drives that got nothing are cleared.
ClearNames(o) ==
  LET G == SetNames(o.f, [d \in Drives |-> IF IF d = 0 THEN o.ok0 ELSE o.ok1
                                           THEN o.f.fd[d] ELSE NoPath])
  IN  IF o.ok0 \/ o.ok1 THEN filename_init(G) ELSE G

OpenDisks(F, p, n, ro) == ClearNames(OpenDrives(SetNames(F, p), p, n, ro))

(***************************************************************************)
(* The actions.                                                            *)
(***************************************************************************)
Files == [st |-> osd_stream, dr |-> drive, fd |-> file_disk, fs |-> file_state]

Become(F) == /\ osd_stream' = F.st
             /\ drive' = F.dr
             /\ file_disk' = F.fd
             /\ file_state' = F.fs

Init ==
  /\ osd_stream = [i \in Streams |-> [used |-> FALSE, type |-> "disk",
                                      path |-> NoPath, mode |-> "rb"]]
  /\ drive = [d \in Drives |-> [fp |-> NoStream, read_only |-> FALSE, empty |-> TRUE,
                                selected_image |-> 0, image_nr |-> 0,
                                image |-> NoPath, protect |-> FALSE]]
  /\ file_disk = [d \in Drives |-> NoPath]
  /\ file_state = NoPath
  /\ handle = [h \in Others |-> NoStream]
  /\ opened = 0
  /\ phase = "start"

\* quasi88_start: the disks of the options, then the other files in order,
\* then both drives are emptied.
StartDisks ==
  /\ phase = "start"
  /\ \E p \in [Drives -> DriveFiles \cup {NoPath}], n \in [Drives -> ImageArgs],
        ro \in [Drives -> BOOLEAN] : Become(OpenDisks(Files, p, n, ro))
  /\ phase' = "open"
  /\ UNCHANGED <<handle, opened>>

StartOther ==
  /\ phase = "open" /\ opened < Len(OtherFiles)
  /\ LET o == OtherFiles[opened + 1]
         s == osd_fopen(osd_stream, o.type, o.path, o.mode)
     IN  /\ osd_stream' = s.st
         /\ handle' = [handle EXCEPT ![opened + 1] = s.fp]
  /\ opened' = opened + 1
  /\ UNCHANGED <<drive, file_disk, file_state, phase>>

StartDone ==
  /\ phase = "open" /\ opened = Len(OtherFiles)
  /\ Become(quasi88_disk_eject_all(Files))
  /\ phase' = "run"
  /\ UNCHANGED <<handle, opened>>

\* A call of the menu, the keyboard or the window system.
Call(F) == /\ phase = "run"
           /\ Become(F)
           /\ UNCHANGED <<handle, opened, phase>>

Insert == \E d \in Drives, p \in DriveFiles, ro \in BOOLEAN :
            Call(quasi88_disk_insert(Files, d, p, 0, ro).f)

InsertAll == \E p \in DriveFiles, ro \in BOOLEAN :
               Call(quasi88_disk_insert_all(Files, p, ro))

\* selectDiskImage: a number for this drive, and on a long press the next
\* one for the other drive.
SelectImage == \E d \in Drives : \E img \in 0..(drive[d].image_nr - 1) :
                 /\ drive[d].fp # NoStream
                 /\ Call(ImageSelect(Files, d, img))

SelectBoth == \E d \in Drives : \E img \in 0..(drive[d].image_nr - 1) :
  /\ drive[d].fp # NoStream
  /\ LET next == IF img + 1 >= drive[d].image_nr THEN 0 ELSE img + 1
     IN  Call(quasi88_disk_insert_A_to_B(ImageSelect(Files, d, img), d, 1 - d, next))

EjectAll == Call(quasi88_disk_eject_all(Files))
Eject    == \E d \in Drives : Call(quasi88_disk_eject(Files, d))

\* The function keys: empty the drive, next image, previous image.
KeyEmpty == \E d \in Drives : Call(ImageEmpty(Files, d))
KeyNext  == \E d \in Drives : Call(ImageSelect(Files, d, drive[d].selected_image + 1))
KeyPrev  == \E d \in Drives : Call(ImageSelect(Files, d, drive[d].selected_image - 1))

Reset == Call(ResetDrive(ResetDrive(Files, 0), 1))

\* One record of the key input file, and the end of either key file.
Playing(h) == OtherFiles[h].type = "key_pb" /\ handle[h] # NoStream

Playback ==
  /\ \E h \in Others : Playing(h)
  /\ \E c \in [Drives -> -1..MaxNrImage] :
       Call(PlaybackDrive(PlaybackDrive(Files, 0, c[0]), 1, c[1]))

KeyFileEnds == \E h \in Others :
  /\ phase = "run"
  /\ OtherFiles[h].type \in {"key_pb", "key_rec"} /\ handle[h] # NoStream
  /\ osd_stream' = osd_fclose(osd_stream, handle[h])
  /\ handle' = [handle EXCEPT ![h] = NoStream]
  /\ UNCHANGED <<drive, file_disk, file_state, opened, phase>>

\* quasi88_stop: every file is closed; the state name is left as it is.
Stop ==
  /\ phase = "run"
  /\ LET E == disk_eject(disk_eject(Files, 0), 1)
         closed == {handle[h] : h \in Others} \ {NoStream}
     IN  /\ osd_stream' = [i \in Streams |-> IF i \in closed THEN osd_fclose(E.st, i)[i]
                                             ELSE E.st[i]]
         /\ drive' = E.dr
  /\ file_disk' = [d \in Drives |-> NoPath]
  /\ handle' = [h \in Others |-> NoStream]
  /\ phase' = "off"
  /\ UNCHANGED <<file_state, opened>>

Next == \/ StartDisks \/ StartOther \/ StartDone
        \/ Insert \/ InsertAll \/ SelectImage \/ SelectBoth
        \/ EjectAll \/ Eject \/ KeyEmpty \/ KeyNext \/ KeyPrev
        \/ Reset \/ Playback \/ KeyFileEnds \/ Stop

Spec == Init /\ [][Next]_vars

-----------------------------------------------------------------------------
(***************************************************************************)
(* Properties.                                                             *)
(***************************************************************************)
TypeOK ==
  /\ osd_stream \in [Streams -> StreamRec]
  /\ drive \in [Drives -> DriveRec]
  /\ file_disk \in [Drives -> Paths \cup {NoPath}]
  /\ file_state \in Paths \cup {NoPath}
  /\ handle \in [Others -> Streams \cup {NoStream}]
  /\ opened \in 0..Len(OtherFiles)
  /\ phase \in {"start", "open", "run", "off"}

Fp(d) == drive[d].fp

\* No stream is lost and none is used after it is closed: the streams in
\* use are those of the drives and the handles, no handle shares a stream,
\* and a stream held by a drive is a disk.
HandlesOwned ==
  /\ {i \in Streams : osd_stream[i].used} =
       ({Fp(d) : d \in Drives} \cup {handle[h] : h \in Others}) \ {NoStream}
  /\ \A h \in Others : handle[h] # NoStream =>
       /\ \A d \in Drives : Fp(d) # handle[h]
       /\ \A g \in Others : handle[g] = handle[h] => g = h
  /\ \A d \in Drives : Fp(d) # NoStream => osd_stream[Fp(d)].type = "disk"

\* The name the menu shows for a drive is the file that it holds, and two
\* drives on one stream agree on the file's images and on writing to it.
NamesMatch ==
  /\ \A d \in Drives : file_disk[d] = IF Fp(d) = NoStream THEN NoPath
                                       ELSE osd_stream[Fp(d)].path
  /\ Fp(0) = Fp(1) /\ Fp(0) # NoStream =>
       \A f \in {"read_only", "image_nr", "image"} : drive[0][f] = drive[1][f]

\* A drive that is not empty has a file, and an image of that file: the
\* offsets computed from the image table are those of a disk of the file.
ImageInRange ==
  \A d \in Drives : ~drive[d].empty =>
    /\ Fp(d) # NoStream
    /\ drive[d].selected_image < drive[d].image_nr
    /\ drive[d].image = file_disk[d]

\* A disk whose file could only be opened for reading is write protected,
\* whichever drive it reached and by whichever call.
ReadOnlyProtected ==
  ~fdc_ignore_readonly =>
    \A d \in Drives : ~drive[d].empty /\ osd_stream[Fp(d)].mode = "rb" =>
      drive[d].protect

\* The state file is named after a disk that is in a drive, drive 1 first:
\* a state is never saved under the name of a disk that was taken out.
StateNameFollowsDisk == phase \in {"open", "run"} => file_state = StateName(file_disk)

\* What file-op.h says of osd_fopen: a disk file that is open already is not
\* opened a second time.
NoDoubleOpen ==
  \A i, j \in Streams : /\ osd_stream[i].used /\ osd_stream[i].type = "disk"
                        /\ osd_stream[j].used /\ osd_stream[j].type = "disk"
                        /\ osd_stream[i].path = osd_stream[j].path
                        => i = j
=============================================================================
