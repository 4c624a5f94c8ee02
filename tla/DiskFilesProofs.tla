-------------------------- MODULE DiskFilesProofs --------------------------
(***************************************************************************)
(* Proofs about DiskFiles.  Each function of the code has a lemma: what it *)
(* does to the invariant Good, and what it leaves alone.  The actions      *)
(* compose the functions, and their lemmas.                                *)
(***************************************************************************)
EXTENDS DiskFiles, WellFoundedInduction, TLAPS

\* A set of numbers that is not empty has a least member.
LEMMA LeastOf ==
  ASSUME NEW I \in SUBSET Nat, I # {}
  PROVE  Least(I) \in I
<1> DEFINE R == {ss \in Nat \X Nat : ss[1] < ss[2]}
<1>1. OpToRel(<, Nat) = R
  BY DEF OpToRel
<1>2. IsWellFoundedOn(R, Nat)
  BY <1>1, NatLessThanWellFounded
<1> HIDE DEF R
<1>3. PICK x \in I : \A y \in I : ~(<<y, x>> \in R)
  BY <1>2, WFMin
<1>4. ASSUME NEW y \in I, y < x
      PROVE  <<y, x>> \in R
  BY <1>4 DEF R
<1>5. \A y \in I : ~(y < x)
  BY <1>3, <1>4
<1>6. \A y \in I : x <= y
  BY <1>5
<1> QED
  BY <1>6 DEF Least

(***************************************************************************)
(* The invariant, on a record of the structures and the set H of the       *)
(* streams that the handles hold.                                          *)
(***************************************************************************)
FilesRec == [st : [Streams -> StreamRec], dr : [Drives -> DriveRec],
             fd : [Drives -> Paths \cup {NoPath}], fs : Paths \cup {NoPath}]

\* A free entry has no path: this is why the search for a file that is open
\* already, which looks at free entries only, never finds one.
ClosedUnnamed(S) == \A i \in Streams : ~S[i].used => S[i].path = NoPath

Owned(F, H) ==
  /\ \A i \in Streams : F.st[i].used <=> (i = F.dr[0].fp \/ i = F.dr[1].fp \/ i \in H)
  /\ F.dr[0].fp \notin H /\ F.dr[1].fp \notin H
  /\ H \subseteq Streams

\* What a drive knows agrees with its stream.
HeldDisk(D, s) == /\ s.type = "disk" /\ s.path \in Paths
                  /\ D.image = s.path
                  /\ D.image_nr = ImageCount(s.path) /\ D.image_nr > 0
                  /\ D.read_only <=> s.mode = "rb"

Held(F, d) == F.dr[d].fp # NoStream => HeldDisk(F.dr[d], F.st[F.dr[d].fp])

\* A drive that is not empty has an image, protected if its file is.
Ready(D) == ~D.empty => /\ D.fp # NoStream
                        /\ D.selected_image < D.image_nr
                        /\ D.read_only /\ ~fdc_ignore_readonly => D.protect

\* Everything but drive d.
GoodBut(F, H, d) == /\ F \in FilesRec
                    /\ ClosedUnnamed(F.st)
                    /\ Owned(F, H)
                    /\ Held(F, 1 - d) /\ Ready(F.dr[1 - d])

Good(F, H) == /\ F \in FilesRec
              /\ ClosedUnnamed(F.st)
              /\ Owned(F, H)
              /\ Held(F, 0) /\ Ready(F.dr[0])
              /\ Held(F, 1) /\ Ready(F.dr[1])

\* The names and drive d, its stream included, are the same in G as in F.
Keeps(F, G, d) == /\ G.fd = F.fd /\ G.fs = F.fs
                  /\ G.dr[d] = F.dr[d]
                  /\ F.dr[d].fp # NoStream => G.st[F.dr[d].fp] = F.st[F.dr[d].fp]

\* Only drive d differs, and not in what it holds: an image was chosen.
Turned(F, G, d) ==
  /\ G \in FilesRec
  /\ G.st = F.st /\ G.fd = F.fd /\ G.fs = F.fs
  /\ G.dr[1 - d] = F.dr[1 - d]
  /\ \A f \in {"fp", "read_only", "image_nr", "image"} : G.dr[d][f] = F.dr[d][f]

LEMMA OtherDrive ==
  ASSUME NEW d \in Drives
  PROVE  1 - d \in Drives /\ 1 - d # d /\ 1 - (1 - d) = d /\ Drives = {d, 1 - d}
BY DEF Drives

\* The records of FilesRec are determined by their fields.
LEMMA FilesFields ==
  ASSUME NEW F \in FilesRec
  PROVE  /\ F = [st |-> F.st, dr |-> F.dr, fd |-> F.fd, fs |-> F.fs]
         /\ F.st \in [Streams -> StreamRec] /\ F.dr \in [Drives -> DriveRec]
         /\ F.fd \in [Drives -> Paths \cup {NoPath}] /\ F.fs \in Paths \cup {NoPath}
BY DEF FilesRec

LEMMA StreamNumbers == Streams \subseteq Nat /\ NoStream \notin Streams
BY SizesAssumption DEF Streams, NoStream

\* Good says the same of either drive.
LEMMA GoodIsBoth ==
  ASSUME NEW F, NEW H, NEW d \in Drives
  PROVE  Good(F, H) <=> GoodBut(F, H, d) /\ Held(F, d) /\ Ready(F.dr[d])
BY DEF Good, GoodBut, Drives

(***************************************************************************)
(* osd_fopen fails and changes nothing, or takes a free entry.             *)
(***************************************************************************)
NewStream(type, p, mode) == [used |-> TRUE, type |-> type, mode |-> mode,
                             path |-> IF type \in Exclusive THEN p ELSE NoPath]

FailsOrTakes(r, S, s) == \/ r.fp = NoStream /\ r.st = S
                         \/ /\ r.fp \in Streams /\ ~S[r.fp].used
                            /\ r.st = [S EXCEPT ![r.fp] = s]

LEMMA FopenResult ==
  ASSUME NEW S \in [Streams -> StreamRec], ClosedUnnamed(S),
         NEW type \in Types, NEW p \in Paths, NEW mode \in Modes
  PROVE  FailsOrTakes(osd_fopen(S, type, p, mode), S, NewStream(type, p, mode))
<1> DEFINE i == Least(FreeStreams(S))
           T == [S EXCEPT ![i].path = NoPath]
<1>1. CASE FreeStreams(S) = {}
  BY <1>1 DEF osd_fopen, FailsOrTakes
<1>2. CASE FreeStreams(S) # {}
  <2>1. FreeStreams(S) \in SUBSET Nat
    BY SizesAssumption DEF FreeStreams, Streams
  <2>2. i \in Streams /\ ~S[i].used
    <3> HIDE DEF i
    <3>1. i \in FreeStreams(S)
      BY <1>2, <2>1, LeastOf DEF i
    <3> QED
      BY <3>1 DEF FreeStreams
  <2> HIDE DEF i
  <2>3. T = S
    <3>1. S[i] \in StreamRec /\ S[i].path = NoPath
      BY <2>2 DEF ClosedUnnamed
    <3>2. [S[i] EXCEPT !.path = NoPath] = S[i]
      BY <3>1 DEF StreamRec
    <3> QED
      BY <3>2, <2>2
  <2>4. Twins(S, p) = {}
    BY PathsAssumption DEF Twins, ClosedUnnamed
  <2>5. osd_fopen(S, type, p, mode) = OpenAt(S, i, type, p, mode)
    BY <1>2, <2>3 DEF osd_fopen, i
  <2>6. CASE CanOpen(p, mode)
    BY <2>2, <2>4, <2>5, <2>6 DEF OpenAt, FailsOrTakes, NewStream
  <2>7. CASE ~CanOpen(p, mode)
    BY <2>2, <2>4, <2>5, <2>7, <2>3 DEF OpenAt, FailsOrTakes
  <2> QED
    BY <2>6, <2>7
<1> QED
  BY <1>1, <1>2

(***************************************************************************)
(* The setters.                                                            *)
(***************************************************************************)
LEMMA SetDriveIs ==
  ASSUME NEW F \in FilesRec, NEW d \in Drives, NEW D \in DriveRec
  PROVE  LET G == SetDrive(F, d, D)
         IN  /\ G \in FilesRec
             /\ G.st = F.st /\ G.fd = F.fd /\ G.fs = F.fs
             /\ G.dr[d] = D /\ G.dr[1 - d] = F.dr[1 - d]
<1>1. [F.dr EXCEPT ![d] = D] \in [Drives -> DriveRec]
  BY FilesFields
<1>2. SetDrive(F, d, D) = [st |-> F.st, dr |-> [F.dr EXCEPT ![d] = D],
                           fd |-> F.fd, fs |-> F.fs]
  BY FilesFields DEF SetDrive
<1>3. SetDrive(F, d, D) \in FilesRec
  BY <1>1, <1>2, FilesFields DEF FilesRec
<1> QED
  BY <1>2, <1>3, FilesFields, OtherDrive

LEMMA SetStreamsIs ==
  ASSUME NEW F \in FilesRec, NEW S \in [Streams -> StreamRec]
  PROVE  LET G == SetStreams(F, S)
         IN  /\ G \in FilesRec
             /\ G.st = S /\ G.dr = F.dr /\ G.fd = F.fd /\ G.fs = F.fs
<1>1. SetStreams(F, S) = [st |-> S, dr |-> F.dr, fd |-> F.fd, fs |-> F.fs]
  BY FilesFields DEF SetStreams
<1> QED
  BY <1>1, FilesFields DEF FilesRec

LEMMA SetNamesIs ==
  ASSUME NEW F \in FilesRec, NEW fd \in [Drives -> Paths \cup {NoPath}]
  PROVE  LET G == SetNames(F, fd)
         IN  /\ G \in FilesRec
             /\ G.st = F.st /\ G.dr = F.dr /\ G.fd = fd /\ G.fs = F.fs
<1>1. SetNames(F, fd) = [st |-> F.st, dr |-> F.dr, fd |-> fd, fs |-> F.fs]
  BY FilesFields DEF SetNames
<1> QED
  BY <1>1, FilesFields DEF FilesRec

LEMMA SetNameIs ==
  ASSUME NEW F \in FilesRec, NEW d \in Drives, NEW p \in Paths \cup {NoPath}
  PROVE  LET G == SetName(F, d, p)
         IN  /\ G \in FilesRec
             /\ G.st = F.st /\ G.dr = F.dr /\ G.fs = F.fs
             /\ G.fd[d] = p /\ G.fd[1 - d] = F.fd[1 - d]
             /\ \A e \in Drives : e # d => G.fd[e] = F.fd[e]
<1>1. [F.fd EXCEPT ![d] = p] \in [Drives -> Paths \cup {NoPath}]
  BY FilesFields
<1>2. SetName(F, d, p) = SetNames(F, [F.fd EXCEPT ![d] = p])
  BY DEF SetName, SetNames
<1> QED
  BY <1>1, <1>2, SetNamesIs, FilesFields, OtherDrive

LEMMA InitNameIs ==
  ASSUME NEW F \in FilesRec
  PROVE  LET G == filename_init(F)
         IN  /\ G \in FilesRec
             /\ G.st = F.st /\ G.dr = F.dr /\ G.fd = F.fd /\ G.fs = StateName(F.fd)
<1>1. StateName(F.fd) \in Paths \cup {NoPath}
  BY FilesFields DEF StateName, Drives
<1>2. filename_init(F) = [st |-> F.st, dr |-> F.dr, fd |-> F.fd, fs |-> StateName(F.fd)]
  BY FilesFields DEF filename_init
<1> QED
  BY <1>1, <1>2, FilesFields DEF FilesRec

LEMMA CloseIs ==
  ASSUME NEW S \in [Streams -> StreamRec], NEW i \in Streams
  PROVE  /\ osd_fclose(S, i) \in [Streams -> StreamRec]
         /\ ~osd_fclose(S, i)[i].used /\ osd_fclose(S, i)[i].path = NoPath
         /\ \A j \in Streams : j # i => osd_fclose(S, i)[j] = S[j]
<1>1. S[i] \in StreamRec
  OBVIOUS
<1>2. [S[i] EXCEPT !.used = FALSE, !.path = NoPath] \in StreamRec
  BY <1>1 DEF StreamRec
<1>3. osd_fclose(S, i) = [S EXCEPT ![i] = [S[i] EXCEPT !.used = FALSE, !.path = NoPath]]
  BY <1>1 DEF osd_fclose, StreamRec
<1> QED
  BY <1>1, <1>2, <1>3 DEF StreamRec

(***************************************************************************)
(* disk_eject.                                                             *)
(***************************************************************************)
LEMMA EjectFields ==
  ASSUME NEW F \in FilesRec, NEW d \in Drives
  PROVE  LET G == disk_eject(F, d)
         IN  /\ G \in FilesRec
             /\ G.fd = F.fd /\ G.fs = F.fs
             /\ G.dr[d] = [F.dr[d] EXCEPT !.fp = NoStream, !.empty = TRUE]
             /\ G.dr[1 - d] = F.dr[1 - d]
             /\ G.st = IF F.dr[d].fp # NoStream /\ F.dr[d].fp # F.dr[1 - d].fp
                       THEN osd_fclose(F.st, F.dr[d].fp) ELSE F.st
<1> DEFINE D == [F.dr[d] EXCEPT !.fp = NoStream, !.empty = TRUE]
           V == Vacate(F, d)
<1>1. F.dr[d] \in DriveRec
  BY FilesFields
<1>2. D \in DriveRec
  BY <1>1 DEF DriveRec
<1>3. /\ V \in FilesRec /\ V.st = F.st /\ V.fd = F.fd /\ V.fs = F.fs
      /\ V.dr[d] = D /\ V.dr[1 - d] = F.dr[1 - d]
  BY <1>2, SetDriveIs DEF Vacate
<1> HIDE DEF D, V
<1>4. CASE F.dr[d].fp # NoStream /\ F.dr[d].fp # F.dr[1 - d].fp
  <2>1. F.dr[d].fp \in Streams
    BY <1>1, <1>4 DEF DriveRec
  <2>2. osd_fclose(F.st, F.dr[d].fp) \in [Streams -> StreamRec]
    BY <2>1, CloseIs, FilesFields
  <2>3. disk_eject(F, d) = SetStreams(V, osd_fclose(F.st, F.dr[d].fp))
    BY <1>4 DEF disk_eject, V
  <2> QED
    BY <1>3, <1>4, <2>2, <2>3, SetStreamsIs DEF D
<1>5. CASE ~(F.dr[d].fp # NoStream /\ F.dr[d].fp # F.dr[1 - d].fp)
  BY <1>3, <1>5 DEF disk_eject, V, D
<1> QED
  BY <1>4, <1>5

\* The drive may be in any state: disk_insert ejects what it half inserted.
LEMMA EjectGood ==
  ASSUME NEW F, NEW H, NEW d \in Drives, GoodBut(F, H, d)
  PROVE  LET G == disk_eject(F, d)
         IN  /\ Good(G, H)
             /\ Keeps(F, G, 1 - d)
             /\ G.dr[d].fp = NoStream /\ G.dr[d].empty
<1> DEFINE G == disk_eject(F, d)
           e == 1 - d
<1>1. /\ F \in FilesRec /\ F.dr \in [Drives -> DriveRec] /\ F.st \in [Streams -> StreamRec]
      /\ F.dr[d] \in DriveRec /\ F.dr[e] \in DriveRec /\ e \in Drives /\ e # d
  BY FilesFields, OtherDrive DEF GoodBut
<1>2. /\ G \in FilesRec
      /\ G.fd = F.fd /\ G.fs = F.fs
      /\ G.dr[d] = [F.dr[d] EXCEPT !.fp = NoStream, !.empty = TRUE]
      /\ G.dr[e] = F.dr[e]
      /\ G.st = IF F.dr[d].fp # NoStream /\ F.dr[d].fp # F.dr[e].fp
                THEN osd_fclose(F.st, F.dr[d].fp) ELSE F.st
  BY <1>1, EjectFields
<1> HIDE DEF G, e
<1>3. G.dr[d].fp = NoStream /\ G.dr[d].empty /\ G.dr[e] = F.dr[e]
  BY <1>1, <1>2 DEF DriveRec
<1>4. ASSUME NEW i \in Streams
      PROVE  IF i = F.dr[d].fp /\ F.dr[d].fp # F.dr[e].fp
             THEN ~G.st[i].used /\ G.st[i].path = NoPath
             ELSE G.st[i] = F.st[i]
  <2>1. i # NoStream /\ F.st[i] \in StreamRec
    BY <1>1, StreamNumbers
  <2>2. CASE F.dr[d].fp # NoStream /\ F.dr[d].fp # F.dr[e].fp
    BY <1>1, <1>2, <2>2, CloseIs DEF DriveRec
  <2>4. CASE ~(F.dr[d].fp # NoStream /\ F.dr[d].fp # F.dr[e].fp)
    BY <1>2, <2>1, <2>4
  <2> QED
    BY <2>1, <2>2, <2>4
<1>5. ClosedUnnamed(G.st)
  BY <1>4 DEF ClosedUnnamed, GoodBut
<1>6. Owned(G, H)
  <2>1. \A i \in Streams : F.st[i].used <=> (i = F.dr[d].fp \/ i = F.dr[e].fp \/ i \in H)
    BY DEF GoodBut, Owned, e, Drives
  <2>2. /\ F.dr[d].fp \notin H /\ F.dr[e].fp \notin H
        /\ F.dr[d].fp \in Streams \cup {NoStream}
    BY <1>1 DEF GoodBut, Owned, e, Drives, DriveRec
  <2>3. \A i \in Streams : G.st[i].used <=> (i = G.dr[d].fp \/ i = G.dr[e].fp \/ i \in H)
    BY <1>3, <1>4, <2>1, <2>2, StreamNumbers
  <2>4. H \subseteq Streams /\ G.dr[d].fp \notin H /\ G.dr[e].fp \notin H
    BY <1>3, <2>2, StreamNumbers DEF GoodBut, Owned
  <2> QED
    BY <2>3, <2>4 DEF Owned, e, Drives
<1>7. Keeps(F, G, e)
  <2>1. F.dr[e].fp \in Streams \cup {NoStream}
    BY <1>1 DEF DriveRec
  <2> QED
    BY <1>2, <1>3, <1>4, <2>1 DEF Keeps
<1>8. Held(G, d) /\ Ready(G.dr[d])
  BY <1>3 DEF Held, Ready
<1>9. Held(G, e) /\ Ready(G.dr[e])
  BY <1>3, <1>7 DEF Held, Keeps, GoodBut, e
<1>10. Good(G, H)
  BY <1>2, <1>5, <1>6, <1>8, <1>9, GoodIsBoth DEF GoodBut, e
<1> QED
  BY <1>3, <1>7, <1>10 DEF G, e
(***************************************************************************)
(* The functions that choose an image of the file in a drive.              *)
(***************************************************************************)
LEMMA TurnedGood ==
  ASSUME NEW F, NEW G, NEW H, NEW d \in Drives,
         GoodBut(F, H, d), Held(F, d), Turned(F, G, d), Ready(G.dr[d])
  PROVE  Good(G, H) /\ Keeps(F, G, 1 - d)
<1>1. /\ G.dr[d].fp = F.dr[d].fp /\ G.dr[d].read_only = F.dr[d].read_only
      /\ G.dr[d].image_nr = F.dr[d].image_nr /\ G.dr[d].image = F.dr[d].image
      /\ G.dr[1 - d] = F.dr[1 - d] /\ G.st = F.st /\ G \in FilesRec
  BY DEF Turned
<1>2. Held(G, d) /\ Held(G, 1 - d) /\ Ready(G.dr[1 - d])
  BY <1>1 DEF Held, HeldDisk, GoodBut
<1>3. Owned(G, H)
  BY <1>1 DEF Owned, GoodBut, Drives
<1>4. ClosedUnnamed(G.st)
  BY <1>1 DEF GoodBut
<1>5. Good(G, H)
  BY <1>1, <1>2, <1>3, <1>4, GoodIsBoth DEF GoodBut
<1> QED
  BY <1>1, <1>5 DEF Turned, Keeps

LEMMA TurnedTwice ==
  ASSUME NEW F, NEW G, NEW K, NEW d \in Drives, Turned(F, G, d), Turned(G, K, d)
  PROVE  Turned(F, K, d)
BY DEF Turned

LEMMA TurnedSame ==
  ASSUME NEW F \in FilesRec, NEW d \in Drives
  PROVE  Turned(F, F, d)
BY DEF Turned

LEMMA EmptyTurned ==
  ASSUME NEW F \in FilesRec, NEW d \in Drives, NEW b \in BOOLEAN
  PROVE  LET G == SetEmpty(F, d, b)
         IN  /\ Turned(F, G, d)
             /\ G.dr[d].empty = b
<1>1. F.dr[d] \in DriveRec
  BY FilesFields
<1>2. [F.dr[d] EXCEPT !.empty = b] \in DriveRec
  BY <1>1 DEF DriveRec
<1> DEFINE G == SetEmpty(F, d, b)
<1>3. /\ G \in FilesRec /\ G.st = F.st /\ G.fd = F.fd /\ G.fs = F.fs
      /\ G.dr[d] = [F.dr[d] EXCEPT !.empty = b] /\ G.dr[1 - d] = F.dr[1 - d]
  BY <1>2, SetDriveIs DEF SetEmpty
<1> HIDE DEF G
<1>4. G.dr[d].empty = b
  BY <1>1, <1>3 DEF DriveRec
<1>5. \A f \in {"fp", "read_only", "image_nr", "image"} : G.dr[d][f] = F.dr[d][f]
  BY <1>1, <1>3 DEF DriveRec
<1>6. Turned(F, G, d)
  BY <1>3, <1>5 DEF Turned
<1> QED
  BY <1>4, <1>6 DEF G

LEMMA ChangeImageTurned ==
  ASSUME NEW F \in FilesRec, NEW d \in Drives, NEW img \in Int
  PROVE  LET G == disk_change_image(F, d, img)
         IN  /\ Turned(F, G, d)
             /\ IF F.dr[d].fp # NoStream /\ img \in 0..(F.dr[d].image_nr - 1)
                THEN Ready(G.dr[d]) /\ ~G.dr[d].empty ELSE G = F
<1> DEFINE D == F.dr[d]
           B == \/ <<D.image, img>> \in Tabs
                \/ ~fdc_ignore_readonly /\ D.read_only
           E == [D EXCEPT !.selected_image = img, !.empty = FALSE, !.protect = B]
           G == disk_change_image(F, d, img)
<1>1. D \in DriveRec
  BY FilesFields
<1>2. CASE D.fp = NoStream \/ img \notin 0..(D.image_nr - 1)
  BY <1>2, TurnedSame DEF disk_change_image
<1>3. CASE D.fp # NoStream /\ img \in 0..(D.image_nr - 1)
  <2> HIDE DEF D
  <2>1. img \in 0..(MaxNrImage - 1) /\ img < D.image_nr
    BY <1>1, <1>3, SizesAssumption DEF DriveRec
  <2>2. B \in BOOLEAN /\ (D.read_only /\ ~fdc_ignore_readonly => B)
    OBVIOUS
  <2>3. /\ E \in DriveRec
        /\ E.fp = D.fp /\ E.read_only = D.read_only
        /\ E.image_nr = D.image_nr /\ E.image = D.image
        /\ E.selected_image = img /\ ~E.empty /\ E.protect = B
    <3> HIDE DEF B
    <3> QED
      BY <1>1, <2>1, <2>2 DEF DriveRec
  <2>4. Ready(E)
    BY <1>3, <2>1, <2>2, <2>3 DEF Ready
  <2>5. G = SetDrive(F, d, E)
    BY <1>3 DEF disk_change_image, Selected, D
  <2> HIDE DEF E, G
  <2>6. /\ G \in FilesRec /\ G.st = F.st /\ G.fd = F.fd /\ G.fs = F.fs
        /\ G.dr[d] = E /\ G.dr[1 - d] = F.dr[1 - d]
    BY <2>3, <2>5, SetDriveIs
  <2>7. Turned(F, G, d)
    BY <2>3, <2>6 DEF Turned, D
  <2> QED
    BY <1>3, <2>3, <2>4, <2>6, <2>7 DEF G, D
<1> QED
  BY <1>2, <1>3

\* Choosing an image of a good drive keeps it good.
LEMMA ChangeImageGood ==
  ASSUME NEW F, NEW H, NEW d \in Drives, NEW img \in Int, Good(F, H)
  PROVE  Good(disk_change_image(F, d, img), H)
<1>1. F \in FilesRec /\ GoodBut(F, H, d) /\ Held(F, d) /\ Ready(F.dr[d])
  BY GoodIsBoth DEF Good
<1>2. Ready(disk_change_image(F, d, img).dr[d])
  BY <1>1, ChangeImageTurned
<1> QED
  BY <1>1, <1>2, ChangeImageTurned, TurnedGood

LEMMA SetImageTurned ==
  ASSUME NEW F \in FilesRec, NEW d \in Drives, NEW img \in Int, F.dr[d].fp # NoStream
  PROVE  Turned(F, SetImage(F, d, img), d) /\ Ready(SetImage(F, d, img).dr[d])
<1>1. CASE img \in 0..(F.dr[d].image_nr - 1)
  BY <1>1, ChangeImageTurned DEF SetImage
<1>2. CASE img \notin 0..(F.dr[d].image_nr - 1)
  BY <1>2, EmptyTurned DEF SetImage, Ready
<1> QED
  BY <1>1, <1>2

LEMMA ImageSelectGood ==
  ASSUME NEW F, NEW H, NEW d \in Drives, NEW img \in Int, Good(F, H)
  PROVE  Good(ImageSelect(F, d, img), H) /\ Turned(F, ImageSelect(F, d, img), d)
<1>1. F \in FilesRec /\ GoodBut(F, H, d) /\ Held(F, d) /\ Ready(F.dr[d])
  BY GoodIsBoth DEF Good
<1>2. CASE F.dr[d].fp = NoStream
  BY <1>1, <1>2, TurnedSame DEF ImageSelect
<1>3. CASE F.dr[d].fp # NoStream
  <2> DEFINE n == F.dr[d].image_nr
             k == IF img < 0 THEN n - 1 ELSE img
             j == IF k >= n THEN 0 ELSE k
             E == SetEmpty(F, d, FALSE)
             G == disk_change_image(E, d, j)
  <2>1. n \in Nat /\ n > 0
    BY <1>1, <1>3, FilesFields DEF Held, HeldDisk, DriveRec
  <2> HIDE DEF n
  <2>2. j \in 0..(n - 1) /\ j \in Int
    BY <2>1
  <2>3. Turned(F, E, d)
    BY <1>1, EmptyTurned
  <2> HIDE DEF j, E
  <2>4. E \in FilesRec /\ E.dr[d].fp # NoStream /\ E.dr[d].image_nr = n
    BY <1>3, <2>3 DEF Turned, n
  <2>5. Turned(E, G, d) /\ Ready(G.dr[d])
    BY <2>2, <2>4, ChangeImageTurned
  <2>6. Turned(F, G, d)
    BY <2>3, <2>5, TurnedTwice
  <2>7. Good(G, H)
    BY <1>1, <2>5, <2>6, TurnedGood
  <2>8. ImageSelect(F, d, img) = G
    BY <1>3 DEF ImageSelect, G, E, j, n
  <2> QED
    BY <2>6, <2>7, <2>8
<1> QED
  BY <1>2, <1>3

LEMMA EmptyGood ==
  ASSUME NEW F, NEW H, NEW d \in Drives, Good(F, H)
  PROVE  Good(SetEmpty(F, d, TRUE), H) /\ Turned(F, SetEmpty(F, d, TRUE), d)
<1>1. F \in FilesRec /\ GoodBut(F, H, d) /\ Held(F, d)
  BY GoodIsBoth DEF Good
<1>2. Turned(F, SetEmpty(F, d, TRUE), d) /\ Ready(SetEmpty(F, d, TRUE).dr[d])
  BY <1>1, EmptyTurned DEF Ready
<1> QED
  BY <1>1, <1>2, TurnedGood

LEMMA ResetGood ==
  ASSUME NEW F, NEW H, NEW d \in Drives, Good(F, H)
  PROVE  Good(ResetDrive(F, d), H) /\ Turned(F, ResetDrive(F, d), d)
<1> DEFINE G == disk_change_image(F, d, F.dr[d].selected_image)
<1>1. F \in FilesRec /\ F.dr[d].selected_image \in Int
  BY FilesFields DEF Good, DriveRec
<1>2. Good(G, H) /\ Turned(F, G, d)
  BY <1>1, ChangeImageGood, ChangeImageTurned
<1> HIDE DEF G
<1>3. Good(SetEmpty(G, d, TRUE), H) /\ Turned(F, SetEmpty(G, d, TRUE), d)
  BY <1>2, EmptyGood, TurnedTwice
<1> QED
  BY <1>2, <1>3 DEF ResetDrive, G

LEMMA PlaybackGood ==
  ASSUME NEW F, NEW H, NEW d \in Drives, NEW c \in Int, Good(F, H)
  PROVE  Good(PlaybackDrive(F, d, c), H) /\ Turned(F, PlaybackDrive(F, d, c), d)
<1> DEFINE n == IF CharSigned THEN c ELSE c % 256
           E == SetEmpty(F, d, FALSE)
           G == disk_change_image(E, d, n - 1)
<1>1. n \in Int
  OBVIOUS
<1> HIDE DEF n
<1>2. F \in FilesRec /\ GoodBut(F, H, d) /\ Held(F, d) /\ Ready(F.dr[d])
  BY GoodIsBoth DEF Good
<1>3. CASE n = -1
  <2>1. n \notin 1..F.dr[d].image_nr
    BY <1>3
  <2>2. PlaybackDrive(F, d, c) = SetEmpty(F, d, TRUE)
    BY <1>3, <2>1 DEF PlaybackDrive, n
  <2> QED
    BY <2>2, EmptyGood
<1>4. CASE n # -1 /\ n \in 1..F.dr[d].image_nr /\ F.dr[d].fp # NoStream
  <2>1. Turned(F, E, d)
    BY <1>2, EmptyTurned
  <2> HIDE DEF E
  <2>2. F.dr[d].image_nr \in Nat
    BY <1>2, FilesFields DEF DriveRec
  <2>3. /\ E \in FilesRec /\ E.dr[d].fp # NoStream
        /\ n - 1 \in Int /\ n - 1 \in 0..(E.dr[d].image_nr - 1)
    BY <1>1, <1>4, <2>1, <2>2 DEF Turned
  <2>4. Turned(E, G, d) /\ Ready(G.dr[d])
    BY <2>3, ChangeImageTurned
  <2>5. Turned(F, G, d)
    BY <2>1, <2>4, TurnedTwice
  <2>6. Good(G, H)
    BY <1>2, <2>4, <2>5, TurnedGood
  <2>7. PlaybackDrive(F, d, c) = G
    BY <1>4 DEF PlaybackDrive, G, E, n
  <2> QED
    BY <2>5, <2>6, <2>7
<1>5. CASE n # -1 /\ ~(n \in 1..F.dr[d].image_nr /\ F.dr[d].fp # NoStream)
  <2>1. PlaybackDrive(F, d, c) = F
    BY <1>5 DEF PlaybackDrive, n
  <2> QED
    BY <1>2, <2>1, TurnedSame
<1> QED
  BY <1>3, <1>4, <1>5

(***************************************************************************)
(* The functions that put a file in a drive.                               *)
(***************************************************************************)
LEMMA ImageCountType ==
  ASSUME NEW p \in Paths
  PROVE  ImageCount(p) \in 0..MaxNrImage
BY PathsAssumption, SizesAssumption DEF ImageCount

LEMMA KeepsTwice ==
  ASSUME NEW F, NEW G, NEW K, NEW d, Keeps(F, G, d), Keeps(G, K, d)
  PROVE  Keeps(F, K, d)
BY DEF Keeps

\* Both opens fail, or a free entry is taken.
LEMMA OpenDiskResult ==
  ASSUME NEW S \in [Streams -> StreamRec], ClosedUnnamed(S), NEW p \in Paths,
         NEW readonly \in BOOLEAN
  PROVE  LET o == OpenDisk(S, p, readonly)
         IN  /\ o.ro \in BOOLEAN
             /\ \/ o.fp = NoStream /\ o.st = S
                \/ /\ o.fp \in Streams /\ ~S[o.fp].used
                   /\ o.st = [S EXCEPT ![o.fp] =
                                [used |-> TRUE, type |-> "disk", path |-> p,
                                 mode |-> IF o.ro THEN "rb" ELSE "r+b"]]
<1> DEFINE Took(r, mode) == /\ r.fp \in Streams /\ ~S[r.fp].used
                            /\ r.st = [S EXCEPT ![r.fp] =
                                          [used |-> TRUE, type |-> "disk", mode |-> mode,
                                           path |-> p]]
           rd == osd_fopen(S, "disk", p, "rb")
           rw == osd_fopen(S, "disk", p, "r+b")
<1>1. "disk" \in Types /\ "disk" \in Exclusive /\ "rb" \in Modes /\ "r+b" \in Modes
  BY DEF Types, Exclusive, Modes
<1>2. (rd.fp = NoStream /\ rd.st = S) \/ Took(rd, "rb")
  BY <1>1, FopenResult DEF FailsOrTakes, NewStream
<1>3. (rw.fp = NoStream /\ rw.st = S) \/ Took(rw, "r+b")
  BY <1>1, FopenResult DEF FailsOrTakes, NewStream
<1> HIDE DEF rd, rw
<1>4. OpenRead(S, p) = [st |-> rd.st, fp |-> rd.fp, ro |-> TRUE]
  BY DEF OpenRead, AsRead, rd
<1>5. CASE readonly \/ (rw.fp = NoStream /\ rw.st = S)
  <2>1. OpenDisk(S, p, readonly) = OpenRead(S, p)
    BY <1>5 DEF OpenDisk, OrRead, rw
  <2> QED
    BY <1>2, <1>4, <2>1
<1>6. CASE ~readonly /\ Took(rw, "r+b")
  <2>1. rw.fp # NoStream
    BY <1>6, StreamNumbers
  <2>2. OpenDisk(S, p, readonly) = [st |-> rw.st, fp |-> rw.fp, ro |-> FALSE]
    BY <1>6, <2>1 DEF OpenDisk, OrRead, rw
  <2> QED
    BY <1>6, <2>2
<1> QED
  BY <1>3, <1>5, <1>6

\* What an attempt r to put p in drive d of F has done.
Inserted(F, r, H, d, p) ==
  /\ r.ok \in BOOLEAN
  /\ Good(r.f, H)
  /\ Keeps(F, r.f, 1 - d)
  /\ IF r.ok THEN r.f.dr[d].fp # NoStream /\ r.f.st[r.f.dr[d].fp].path = p
             ELSE r.f.dr[d].fp = NoStream

\* disk_insert, from an empty drive and what was opened.
LEMMA InsertOpenedGood ==
  ASSUME NEW E, NEW H, Good(E, H), NEW d \in Drives, E.dr[d].fp = NoStream,
         NEW p \in Paths, NEW img \in Int, NEW o, o.ro \in BOOLEAN,
         \/ o.fp = NoStream /\ o.st = E.st
         \/ /\ o.fp \in Streams /\ ~E.st[o.fp].used
            /\ o.st = [E.st EXCEPT ![o.fp] =
                         [used |-> TRUE, type |-> "disk", path |-> p,
                          mode |-> IF o.ro THEN "rb" ELSE "r+b"]]
  PROVE  Inserted(E, InsertOpened(E, o, d, p, img), H, d, p)
<1> DEFINE e == 1 - d
           D == [E.dr[d] EXCEPT !.fp = o.fp]
           O == SetStreams(SetDrive(E, d, D), o.st)
           new == [used |-> TRUE, type |-> "disk", path |-> p,
                   mode |-> IF o.ro THEN "rb" ELSE "r+b"]
<1>1. /\ E \in FilesRec /\ E.st \in [Streams -> StreamRec] /\ E.dr[d] \in DriveRec
      /\ E.dr[e] \in DriveRec /\ e \in Drives /\ e # d /\ GoodBut(E, H, d)
  BY FilesFields, OtherDrive, GoodIsBoth DEF Good
<1>2. new \in StreamRec
  BY DEF StreamRec, Types, Exclusive, Modes
<1>3. o.st \in [Streams -> StreamRec]
  BY <1>1, <1>2
<1>4. D \in DriveRec /\ D.fp = o.fp
  BY <1>1 DEF DriveRec
<1>5. /\ O \in FilesRec /\ O.st = o.st /\ O.fd = E.fd /\ O.fs = E.fs
      /\ O.dr[d] = D /\ O.dr[e] = E.dr[e]
  <2> DEFINE P == SetDrive(E, d, D)
  <2>1. /\ P \in FilesRec /\ P.fd = E.fd /\ P.fs = E.fs
        /\ P.dr[d] = D /\ P.dr[e] = E.dr[e]
    BY <1>1, <1>4, SetDriveIs
  <2> HIDE DEF P
  <2>2. /\ SetStreams(P, o.st) \in FilesRec /\ SetStreams(P, o.st).st = o.st
        /\ SetStreams(P, o.st).dr = P.dr
        /\ SetStreams(P, o.st).fd = P.fd /\ SetStreams(P, o.st).fs = P.fs
    BY <1>3, <2>1, SetStreamsIs
  <2> QED
    BY <2>1, <2>2 DEF P
<1>6. InsertOpened(E, o, d, p, img) = Insert1(O, d, p, img, o.ro)
  BY DEF InsertOpened
<1> HIDE DEF O, D, e, new
<1>7. CASE o.fp = NoStream
  <2>1. Owned(O, H)
    BY <1>4, <1>5, <1>7 DEF Owned, Good, e, Drives
  <2>2. GoodBut(O, H, d)
    BY <1>1, <1>5, <1>7, <2>1, StreamNumbers DEF GoodBut, Held, e
  <2>3. InsertOpened(E, o, d, p, img) = [ok |-> FALSE, f |-> disk_eject(O, d)]
    BY <1>4, <1>5, <1>6, <1>7 DEF Insert1
  <2>4. Keeps(E, O, e)
    BY <1>5, <1>7, StreamNumbers DEF Keeps
  <2> QED
    BY <2>2, <2>3, <2>4, EjectGood, KeepsTwice DEF Inserted, e
<1>8. CASE o.fp # NoStream
  <2>1. /\ o.fp \in Streams /\ ~E.st[o.fp].used
        /\ o.st[o.fp] = new
        /\ \A i \in Streams : i # o.fp => o.st[i] = E.st[i]
    BY <1>1, <1>8 DEF new
  <2>2. o.fp # E.dr[e].fp /\ o.fp \notin H
    BY <1>1, <2>1 DEF GoodBut, Owned, e, Drives
  <2>3. Keeps(E, O, e)
    BY <1>1, <1>5, <2>1, <2>2 DEF Keeps, DriveRec
  <2>4. Owned(O, H)
    BY <1>1, <1>4, <1>5, <2>1, <2>2, StreamNumbers DEF Owned, GoodBut, e, Drives, new
  <2>5. ClosedUnnamed(O.st)
    BY <1>1, <1>5, <2>1 DEF ClosedUnnamed, GoodBut, new
  <2>6. Held(O, e) /\ Ready(O.dr[e])
    BY <1>1, <2>3 DEF Keeps, Held, GoodBut, e
  <2>7. GoodBut(O, H, d)
    BY <1>5, <2>4, <2>5, <2>6 DEF GoodBut, e
  <2>8. O.dr[d].fp = o.fp /\ O.dr[d].fp # O.dr[e].fp
    BY <1>4, <1>5, <2>2
  \* Whatever the drive knows of the file, the rest is good.
  <2>9. ASSUME NEW B \in DriveRec, B.fp = o.fp
        PROVE  /\ SetDrive(O, d, B) \in FilesRec
               /\ SetDrive(O, d, B).dr[d] = B
               /\ SetDrive(O, d, B).st = O.st
               /\ GoodBut(SetDrive(O, d, B), H, d)
               /\ Keeps(E, SetDrive(O, d, B), e)
    <3> DEFINE P == SetDrive(O, d, B)
    <3>1. /\ P \in FilesRec /\ P.st = O.st /\ P.fd = O.fd /\ P.fs = O.fs
          /\ P.dr[d] = B /\ P.dr[e] = O.dr[e]
      BY <1>5, <2>9, SetDriveIs DEF e
    <3> HIDE DEF P
    <3>2. Owned(P, H)
      BY <2>4, <2>8, <2>9, <3>1 DEF Owned, e, Drives
    <3>3. GoodBut(P, H, d)
      BY <2>5, <2>6, <3>1, <3>2 DEF GoodBut, Held, e
    <3>4. Keeps(E, P, e)
      BY <2>3, <3>1 DEF Keeps
    <3> QED
      BY <3>1, <3>3, <3>4 DEF P
  <2>10. CASE ImageCount(p) > 0
    <3> DEFINE B == [O.dr[d] EXCEPT !.read_only = o.ro, !.image_nr = ImageCount(p), !.image = p]
               P == SetDrive(O, d, B)
               G == SetImage(P, d, img)
    <3>1. /\ B \in DriveRec /\ B.fp = o.fp
          /\ B.read_only = o.ro /\ B.image_nr = ImageCount(p) /\ B.image = p
      BY <1>4, <1>5, <2>8, ImageCountType DEF DriveRec
    <3>2. InsertOpened(E, o, d, p, img) = [ok |-> TRUE, f |-> G]
      BY <1>6, <1>8, <2>8, <2>10 DEF Insert1, Fill, e
    <3> HIDE DEF B
    <3>3. /\ P \in FilesRec /\ P.dr[d] = B /\ P.st = O.st
          /\ GoodBut(P, H, d) /\ Keeps(E, P, e)
      BY <2>9, <3>1
    <3> HIDE DEF P
    <3>4. Held(P, d)
      BY <1>5, <2>1, <2>10, <3>1, <3>3 DEF Held, HeldDisk, new
    <3>5. Turned(P, G, d) /\ Ready(G.dr[d])
      BY <1>8, <3>1, <3>3, SetImageTurned
    <3> HIDE DEF G
    <3>6. Good(G, H) /\ Keeps(P, G, e)
      BY <3>3, <3>4, <3>5, TurnedGood DEF e
    <3>7. G.dr[d].fp = o.fp /\ G.st[o.fp].path = p
      BY <1>5, <2>1, <3>1, <3>3, <3>5 DEF Turned, new
    <3> QED
      BY <1>8, <3>2, <3>3, <3>6, <3>7, KeepsTwice DEF Inserted, e
  <2>11. CASE ~(ImageCount(p) > 0)
    <3> DEFINE B == [O.dr[d] EXCEPT !.read_only = o.ro]
               P == SetDrive(O, d, B)
    <3>1. B \in DriveRec /\ B.fp = o.fp
      BY <1>4, <1>5, <2>8 DEF DriveRec
    <3>2. InsertOpened(E, o, d, p, img) = [ok |-> FALSE, f |-> disk_eject(P, d)]
      BY <1>6, <1>8, <2>8, <2>11 DEF Insert1, e
    <3> HIDE DEF B
    <3>3. GoodBut(P, H, d) /\ Keeps(E, P, e)
      BY <2>9, <3>1
    <3> HIDE DEF P
    <3> QED
      BY <3>2, <3>3, EjectGood, KeepsTwice DEF Inserted, e
  <2> QED
    BY <2>10, <2>11
<1> QED
  BY <1>7, <1>8

LEMMA InsertGood ==
  ASSUME NEW F, NEW H, Good(F, H), NEW d \in Drives, NEW p \in Paths, NEW img \in Int,
         NEW readonly \in BOOLEAN
  PROVE  Inserted(F, disk_insert(F, d, p, img, readonly), H, d, p)
<1> DEFINE E == disk_eject(F, d)
           o == OpenDisk(E.st, p, readonly)
<1>1. Good(E, H) /\ Keeps(F, E, 1 - d) /\ E.dr[d].fp = NoStream
  BY EjectGood, GoodIsBoth
<1>2. disk_insert(F, d, p, img, readonly) = InsertOpened(E, o, d, p, img)
  BY DEF disk_insert
<1> HIDE DEF E
<1>3. E.st \in [Streams -> StreamRec] /\ ClosedUnnamed(E.st)
  BY <1>1, FilesFields DEF Good
<1>4. /\ o.ro \in BOOLEAN
      /\ \/ o.fp = NoStream /\ o.st = E.st
         \/ /\ o.fp \in Streams /\ ~E.st[o.fp].used
            /\ o.st = [E.st EXCEPT ![o.fp] =
                         [used |-> TRUE, type |-> "disk", path |-> p,
                          mode |-> IF o.ro THEN "rb" ELSE "r+b"]]
  BY <1>3, OpenDiskResult
<1> HIDE DEF o
<1>5. Inserted(E, InsertOpened(E, o, d, p, img), H, d, p)
  BY <1>1, <1>4, InsertOpenedGood
<1> QED
  BY <1>1, <1>2, <1>5, KeepsTwice DEF Inserted

\* disk_insert_A_to_B: the two drives hold the same file after it.
Shared(F, G, H, src, dst) ==
  Good(G, H) /\ Keeps(F, G, src) /\ G.dr[dst].fp = F.dr[src].fp

LEMMA InsertAToBGood ==
  ASSUME NEW F, NEW H, Good(F, H), NEW dst \in Drives, NEW src \in Drives, src # dst,
         NEW img \in Int
  PROVE  Shared(F, disk_insert_A_to_B(F, src, dst, img), H, src, dst)
<1>0. src = 1 - dst
  BY DEF Drives
<1> DEFINE E == disk_eject(F, dst)
           B == [E.dr[dst] EXCEPT !.fp = E.dr[src].fp, !.read_only = E.dr[src].read_only,
                                  !.image_nr = E.dr[src].image_nr, !.image = E.dr[src].image]
           O == SetDrive(E, dst, B)
           G == SetImage(O, dst, img)
<1>1. Good(E, H) /\ Keeps(F, E, src) /\ E.dr[dst].fp = NoStream
  BY <1>0, EjectGood, GoodIsBoth
<1>2. disk_insert_A_to_B(F, src, dst, img) = IF E.dr[src].fp = NoStream THEN E ELSE G
  BY DEF disk_insert_A_to_B, CopyInto, CopyDrive
<1> HIDE DEF E
<1>3. CASE E.dr[src].fp = NoStream
  BY <1>1, <1>2, <1>3 DEF Keeps, Shared
<1>4. CASE E.dr[src].fp # NoStream
  <2>1. /\ E \in FilesRec /\ E.dr[src] \in DriveRec /\ E.dr[dst] \in DriveRec
        /\ src \in Drives /\ src # dst /\ GoodBut(E, H, dst)
    BY <1>0, <1>1, FilesFields, OtherDrive, GoodIsBoth DEF Good
  <2>2. /\ B \in DriveRec
        /\ B.fp = E.dr[src].fp /\ B.read_only = E.dr[src].read_only
        /\ B.image_nr = E.dr[src].image_nr /\ B.image = E.dr[src].image
    BY <2>1 DEF DriveRec
  <2> HIDE DEF B
  <2>3. /\ O \in FilesRec /\ O.st = E.st /\ O.fd = E.fd /\ O.fs = E.fs
        /\ O.dr[dst] = B /\ O.dr[src] = E.dr[src]
    BY <1>0, <2>1, <2>2, SetDriveIs
  <2> HIDE DEF O
  <2>4. Owned(O, H)
    BY <1>1, <2>1, <2>2, <2>3, StreamNumbers DEF Owned, Good, Drives
  <2>5. GoodBut(O, H, dst)
    BY <1>0, <2>1, <2>3, <2>4 DEF GoodBut, Held
  <2>6. Held(O, dst)
    BY <1>0, <1>4, <2>1, <2>2, <2>3 DEF Held, HeldDisk, GoodBut
  <2>7. Turned(O, G, dst) /\ Ready(G.dr[dst])
    BY <1>4, <2>2, <2>3, SetImageTurned
  <2>8. Good(G, H) /\ Keeps(O, G, src)
    BY <1>0, <2>5, <2>6, <2>7, TurnedGood
  <2>9. Keeps(F, G, src)
    BY <1>1, <2>3, <2>8 DEF Keeps
  <2>10. G.dr[dst].fp = F.dr[src].fp
    BY <1>1, <2>2, <2>3, <2>7 DEF Turned, Keeps
  <2> QED
    BY <1>2, <1>4, <2>8, <2>9, <2>10 DEF Shared
<1> QED
  BY <1>3, <1>4

(***************************************************************************)
(* The calls of quasi88.cpp keep the names as well.                        *)
(***************************************************************************)
\* The name shown for drive d is the file that it holds.
Label(F, d) == F.fd[d] = IF F.dr[d].fp = NoStream THEN NoPath
                         ELSE F.st[F.dr[d].fp].path

Whole(F, H) == /\ Good(F, H)
               /\ Label(F, 0) /\ Label(F, 1)
               /\ F.fs = StateName(F.fd)

\* Whole says the same of either drive.
LEMMA WholeIsBoth ==
  ASSUME NEW F, NEW H, NEW d \in Drives
  PROVE  Whole(F, H) <=> Good(F, H) /\ Label(F, d) /\ Label(F, 1 - d)
                         /\ F.fs = StateName(F.fd)
BY DEF Whole, Drives

LEMMA TurnedWhole ==
  ASSUME NEW F, NEW G, NEW H, NEW d \in Drives, Whole(F, H), Good(G, H), Turned(F, G, d)
  PROVE  Whole(G, H)
BY WholeIsBoth DEF Turned, Label

\* A good record whose other drive is kept, once it is named.
LEMMA NamingWhole ==
  ASSUME NEW F, NEW G, NEW H, NEW d \in Drives, NEW p \in Paths \cup {NoPath},
         Label(F, 1 - d), Good(G, H), Keeps(F, G, 1 - d),
         p = IF G.dr[d].fp = NoStream THEN NoPath ELSE G.st[G.dr[d].fp].path
  PROVE  LET K == filename_init(SetName(G, d, p))
         IN  /\ Whole(K, H)
             /\ K.dr = G.dr /\ K.st = G.st
<1> DEFINE N == SetName(G, d, p)
           K == filename_init(N)
<1>1. G \in FilesRec
  BY DEF Good
<1>2. /\ N \in FilesRec /\ N.st = G.st /\ N.dr = G.dr
      /\ N.fd[d] = p /\ N.fd[1 - d] = G.fd[1 - d]
  BY <1>1, SetNameIs
<1> HIDE DEF N
<1>3. /\ K \in FilesRec /\ K.st = N.st /\ K.dr = N.dr /\ K.fd = N.fd
      /\ K.fs = StateName(N.fd)
  BY <1>2, InitNameIs
<1> HIDE DEF K
<1>4. Good(K, H)
  BY <1>2, <1>3 DEF Good, Owned, Held
<1>5. Label(K, d)
  BY <1>2, <1>3 DEF Label
<1>6. Label(K, 1 - d)
  BY <1>2, <1>3 DEF Label, Keeps
<1>7. Whole(K, H)
  BY <1>3, <1>4, <1>5, <1>6, WholeIsBoth
<1> QED
  BY <1>2, <1>3, <1>7 DEF K, N

LEMMA QEjectWhole ==
  ASSUME NEW F, NEW H, Whole(F, H), NEW d \in Drives
  PROVE  LET G == quasi88_disk_eject(F, d)
         IN  /\ Whole(G, H)
             /\ G.dr[d].fp = NoStream
             /\ G.dr[1 - d] = F.dr[1 - d]
<1> DEFINE E == disk_eject(F, d)
           K == filename_init(SetName(E, d, NoPath))
<1>1. CASE F.dr[d].fp = NoStream
  BY <1>1 DEF quasi88_disk_eject
<1>2. CASE F.dr[d].fp # NoStream
  <2>1. Good(E, H) /\ Keeps(F, E, 1 - d) /\ E.dr[d].fp = NoStream
    BY EjectGood, GoodIsBoth DEF Whole
  <2>2. quasi88_disk_eject(F, d) = K
    BY <1>2 DEF quasi88_disk_eject
  <2> HIDE DEF E
  <2>3. Label(F, 1 - d)
    BY WholeIsBoth
  <2>4. Whole(K, H) /\ K.dr = E.dr
    BY <2>1, <2>3, NamingWhole
  <2> QED
    BY <2>1, <2>2, <2>4 DEF Keeps
<1> QED
  BY <1>1, <1>2

LEMMA QInsertWhole ==
  ASSUME NEW F, NEW H, Whole(F, H), NEW d \in Drives, NEW p \in Paths, NEW img \in Int,
         NEW ro \in BOOLEAN
  PROVE  Whole(quasi88_disk_insert(F, d, p, img, ro).f, H)
<1> DEFINE E == quasi88_disk_eject(F, d)
           r == disk_insert(E, d, p, img, ro)
           K == filename_init(SetName(r.f, d, p))
<1>1. Whole(E, H) /\ E.dr[d].fp = NoStream
  BY QEjectWhole
<1> HIDE DEF E
<1>2. Inserted(E, r, H, d, p)
  BY <1>1, InsertGood DEF Whole
<1>3. quasi88_disk_insert(F, d, p, img, ro) = IF r.ok THEN [ok |-> TRUE, f |-> K] ELSE r
  BY DEF quasi88_disk_insert, Named, E
<1> HIDE DEF r
<1>4. Label(E, d) /\ Label(E, 1 - d) /\ E.fs = StateName(E.fd)
  BY <1>1, WholeIsBoth
<1>5. CASE r.ok
  <2>1. Whole(K, H)
    BY <1>2, <1>4, <1>5, NamingWhole DEF Inserted
  <2> QED
    BY <1>3, <1>5, <2>1
<1>6. CASE ~r.ok
  <2>1. /\ Good(r.f, H) /\ r.f.dr[d].fp = NoStream
        /\ r.f.fd = E.fd /\ r.f.fs = E.fs /\ Keeps(E, r.f, 1 - d)
    BY <1>2, <1>6 DEF Inserted, Keeps
  <2>2. Label(r.f, d)
    BY <1>1, <1>4, <2>1 DEF Label
  <2>3. Label(r.f, 1 - d)
    BY <1>4, <2>1 DEF Label, Keeps
  <2> QED
    BY <1>3, <1>4, <1>6, <2>1, <2>2, <2>3, WholeIsBoth
<1> QED
  BY <1>5, <1>6

LEMMA QInsertAToBWhole ==
  ASSUME NEW F, NEW H, Whole(F, H), NEW dst \in Drives, NEW img \in Int
  PROVE  Whole(quasi88_disk_insert_A_to_B(F, 1 - dst, dst, img), H)
<1> DEFINE src == 1 - dst
           E == quasi88_disk_eject(F, dst)
           G == disk_insert_A_to_B(E, src, dst, img)
<1>1. Whole(E, H) /\ E.dr[dst].fp = NoStream
  BY QEjectWhole
<1> HIDE DEF E
<1>2. Good(G, H) /\ Keeps(E, G, src) /\ G.dr[dst].fp = E.dr[src].fp
  BY <1>1, InsertAToBGood, OtherDrive DEF Whole, Shared
<1>3. quasi88_disk_insert_A_to_B(F, src, dst, img) = filename_init(SetName(G, dst, G.fd[src]))
  BY DEF quasi88_disk_insert_A_to_B, NamedAs, E
<1> HIDE DEF G
<1>4. Label(E, src) /\ E.fd[src] \in Paths \cup {NoPath}
  BY <1>1, WholeIsBoth, FilesFields, OtherDrive DEF Good
<1>5. G.fd[src] = IF G.dr[dst].fp = NoStream THEN NoPath ELSE G.st[G.dr[dst].fp].path
  BY <1>2, <1>4 DEF Label, Keeps
<1>6. G.fd[src] \in Paths \cup {NoPath}
  BY <1>2, <1>4 DEF Keeps
<1>7. Whole(filename_init(SetName(G, dst, G.fd[src])), H)
  BY <1>2, <1>4, <1>5, <1>6, NamingWhole
<1> QED
  BY <1>3, <1>7

LEMMA QEjectAllWhole ==
  ASSUME NEW F, NEW H, Whole(F, H)
  PROVE  Whole(quasi88_disk_eject_all(F), H)
BY QEjectWhole DEF quasi88_disk_eject_all, Drives

LEMMA QInsertAllWhole ==
  ASSUME NEW F, NEW H, Whole(F, H), NEW p \in Paths, NEW ro \in BOOLEAN
  PROVE  Whole(quasi88_disk_insert_all(F, p, ro), H)
<1> DEFINE E == quasi88_disk_eject_all(F)
           i == quasi88_disk_insert(E, 0, p, 0, ro)
<1>1. Whole(E, H)
  BY QEjectAllWhole
<1> HIDE DEF E
<1>2. Whole(i.f, H)
  BY <1>1, QInsertWhole DEF Drives
<1>3. quasi88_disk_insert_all(F, p, ro) = BothDrives(i)
  BY DEF quasi88_disk_insert_all, E
<1> HIDE DEF i
<1>4. 1 \in Drives /\ 1 - 1 = 0
  BY DEF Drives
<1>5. Whole(quasi88_disk_insert_A_to_B(i.f, 0, 1, 1), H)
  BY <1>2, <1>4, QInsertAToBWhole
<1> QED
  BY <1>2, <1>3, <1>5 DEF BothDrives

(***************************************************************************)
(* imagefile_all_open.                                                     *)
(***************************************************************************)
\* What the opening of the disks has done: ok tells the drives that got
\* theirs, which are named already.
Start(o, H) ==
  /\ Good(o.f, H) /\ o.f.fs = NoPath
  /\ o.ok0 \in BOOLEAN /\ o.ok1 \in BOOLEAN
  /\ \A d \in Drives : IF IF d = 0 THEN o.ok0 ELSE o.ok1
                      THEN Label(o.f, d) ELSE o.f.dr[d].fp = NoStream

\* Nothing was named or held before.
Fresh(F, H, p) == /\ Good(F, H) /\ F.fd = p /\ F.fs = NoPath
                  /\ F.dr[0].fp = NoStream /\ F.dr[1].fp = NoStream

\* The first attempt r, for drive d; e is the other drive.
First(r, H, p, d, e) ==
  /\ r.ok \in BOOLEAN
  /\ Good(r.f, H) /\ r.f.fd = p /\ r.f.fs = NoPath
  /\ r.f.dr[e].fp = NoStream
  /\ IF r.ok THEN r.f.dr[d].fp # NoStream /\ Label(r.f, d)
             ELSE r.f.dr[d].fp = NoStream

LEMMA FirstDisk ==
  ASSUME NEW F, NEW H, NEW p \in [Drives -> Paths \cup {NoPath}], Fresh(F, H, p),
         NEW d \in Drives, NEW e \in Drives, e # d, p[d] # NoPath, NEW img \in Int,
         NEW ro \in BOOLEAN
  PROVE  First(disk_insert(F, d, p[d], img, ro), H, p, d, e)
<1>0. e = 1 - d
  BY DEF Drives
<1> DEFINE r == disk_insert(F, d, p[d], img, ro)
<1>1. p[d] \in Paths /\ Good(F, H)
  BY DEF Fresh
<1>2. Inserted(F, r, H, d, p[d])
  BY <1>1, InsertGood
<1> HIDE DEF r
<1>3. /\ r.ok \in BOOLEAN /\ Good(r.f, H) /\ r.f.fd = p /\ r.f.fs = NoPath
      /\ r.f.dr[1 - d] = F.dr[1 - d]
      /\ IF r.ok THEN r.f.dr[d].fp # NoStream /\ r.f.st[r.f.dr[d].fp].path = p[d]
                 ELSE r.f.dr[d].fp = NoStream
  BY <1>2 DEF Inserted, Keeps, Fresh
<1>4. r.f.dr[e].fp = NoStream
  BY <1>0, <1>3 DEF Fresh, Drives
<1>5. First(r, H, p, d, e)
  BY <1>3, <1>4 DEF First, Label
<1> QED
  BY <1>5 DEF r

LEMMA PairStart ==
  ASSUME NEW b, NEW H, NEW n, NEW ok0 \in BOOLEAN, Start(Opened(ok0, b.ok, b.f), H)
  PROVE  Start(PairImages(b, n, ok0), H)
<1> DEFINE G == disk_change_image(b.f, 1, 1)
<1>1. /\ Good(b.f, H) /\ b.f \in FilesRec /\ b.f.fs = NoPath /\ b.ok \in BOOLEAN
      /\ IF ok0 THEN Label(b.f, 0) ELSE b.f.dr[0].fp = NoStream
      /\ IF b.ok THEN Label(b.f, 1) ELSE b.f.dr[1].fp = NoStream
  BY DEF Start, Opened, Drives, Good
<1>2. Good(G, H) /\ Turned(b.f, G, 1)
  BY <1>1, ChangeImageGood, ChangeImageTurned DEF Drives
<1> HIDE DEF G
<1>3. /\ G.fs = NoPath
      /\ IF ok0 THEN Label(G, 0) ELSE G.dr[0].fp = NoStream
      /\ IF b.ok THEN Label(G, 1) ELSE G.dr[1].fp = NoStream
  BY <1>1, <1>2 DEF Turned, Label
<1>4. Start(Opened(ok0, b.ok, G), H)
  BY <1>1, <1>2, <1>3 DEF Start, Opened, Drives
<1> QED
  BY <1>4 DEF PairImages, G

LEMMA SecondStart ==
  ASSUME NEW F, NEW H, NEW p \in [Drives -> Paths \cup {NoPath}], Fresh(F, H, p),
         NEW n \in [Drives -> Int], NEW ro \in [Drives -> BOOLEAN],
         p[0] # NoPath, p[1] # NoPath
  PROVE  Start(SecondOf(disk_insert(F, 0, p[0], FirstIfAuto(n[0]), ro[0]), p, n, ro), H)
<1> DEFINE a == disk_insert(F, 0, p[0], FirstIfAuto(n[0]), ro[0])
           b == disk_insert(a.f, 1, p[1], FirstIfAuto(n[1]), ro[1])
           c == disk_insert_A_to_B(a.f, 0, 1, FirstIfAuto(n[1]))
<1>1. /\ 0 \in Drives /\ 1 \in Drives /\ 1 - 1 = 0 /\ 1 - 0 = 1
      /\ FirstIfAuto(n[0]) \in Int /\ FirstIfAuto(n[1]) \in Int
      /\ ro[0] \in BOOLEAN /\ ro[1] \in BOOLEAN
      /\ p[0] \in Paths /\ p[1] \in Paths
  BY DEF Drives, FirstIfAuto
<1>0. First(a, H, p, 0, 1)
  BY <1>1, FirstDisk
<1> HIDE DEF a
<1>2. /\ a.ok \in BOOLEAN /\ Good(a.f, H) /\ a.f.fd = p /\ a.f.fs = NoPath
      /\ a.f.dr[1].fp = NoStream
      /\ IF a.ok THEN a.f.dr[0].fp # NoStream /\ Label(a.f, 0)
                 ELSE a.f.dr[0].fp = NoStream
  BY <1>0 DEF First
<1>3. CASE p[0] # p[1]
  <2>1. Inserted(a.f, b, H, 1, p[1])
    BY <1>1, <1>2, InsertGood
  <2>2. SecondOf(a, p, n, ro) = PairImages(b, n, a.ok)
    BY <1>3 DEF SecondOf
  <2> HIDE DEF b
  <2>3. /\ b.ok \in BOOLEAN /\ Good(b.f, H) /\ Keeps(a.f, b.f, 0) /\ b.f.fs = NoPath
        /\ IF b.ok THEN Label(b.f, 1) ELSE b.f.dr[1].fp = NoStream
    BY <1>1, <1>2, <2>1 DEF Inserted, Keeps, Label
  <2>4. IF a.ok THEN Label(b.f, 0) ELSE b.f.dr[0].fp = NoStream
    BY <1>2, <2>3 DEF Keeps, Label
  <2>5. Start(Opened(a.ok, b.ok, b.f), H)
    BY <1>2, <2>3, <2>4 DEF Start, Opened, Drives
  <2> QED
    BY <1>2, <2>2, <2>5, PairStart DEF a
<1>4. CASE p[0] = p[1] /\ a.ok
  <2> DEFINE w == [ok |-> TRUE, f |-> c]
  <2>1. Good(c, H) /\ Keeps(a.f, c, 0) /\ c.dr[1].fp = a.f.dr[0].fp
    <3>1. Shared(a.f, c, H, 0, 1)
      BY <1>1, <1>2, InsertAToBGood
    <3> QED
      BY <3>1 DEF Shared
  <2>2. SecondOf(a, p, n, ro) = PairImages(w, n, TRUE)
    BY <1>4 DEF SecondOf
  <2> HIDE DEF c
  <2>3. Label(c, 0) /\ Label(c, 1) /\ c.fs = NoPath
    BY <1>2, <1>4, <2>1 DEF Keeps, Label
  <2>4. Start(Opened(TRUE, w.ok, w.f), H)
    BY <2>1, <2>3 DEF Start, Opened, Drives
  <2> HIDE DEF w
  <2> QED
    BY <2>2, <2>4, PairStart DEF a
<1>5. CASE p[0] = p[1] /\ ~a.ok
  <2>1. Start(Opened(FALSE, FALSE, a.f), H)
    BY <1>2, <1>5 DEF Start, Opened, Drives
  <2> QED
    BY <1>5, <2>1 DEF SecondOf, a
<1> QED
  BY <1>2, <1>3, <1>4, <1>5

LEMMA AlsoStart ==
  ASSUME NEW F, NEW H, NEW p \in [Drives -> Paths \cup {NoPath}], Fresh(F, H, p),
         NEW n \in [Drives -> Int], NEW ro \in BOOLEAN, p[0] # NoPath
  PROVE  Start(AlsoSecond(disk_insert(F, 0, p[0], FirstIfAuto(n[0]), ro), p, n), H)
<1> DEFINE a == disk_insert(F, 0, p[0], FirstIfAuto(n[0]), ro)
           c == disk_insert_A_to_B(a.f, 0, 1, 1)
           G == SetName(c, 1, p[0])
<1>1. 0 \in Drives /\ 1 \in Drives /\ 0 = 1 - 1 /\ 1 = 1 - 0 /\ FirstIfAuto(n[0]) \in Int
  BY DEF Drives, FirstIfAuto
<1>0. First(a, H, p, 0, 1)
  BY <1>1, FirstDisk
<1> HIDE DEF a
<1>2. /\ a.ok \in BOOLEAN /\ Good(a.f, H) /\ a.f.fd = p /\ a.f.fs = NoPath
      /\ a.f.dr[1].fp = NoStream
      /\ IF a.ok THEN a.f.dr[0].fp # NoStream /\ Label(a.f, 0)
                 ELSE a.f.dr[0].fp = NoStream
  BY <1>0 DEF First
<1>3. Start(Opened(a.ok, FALSE, a.f), H)
  BY <1>2 DEF Start, Opened, Drives
<1>4. CASE a.ok
  <2>1. Good(c, H) /\ Keeps(a.f, c, 0) /\ c.dr[1].fp = a.f.dr[0].fp
    <3>1. Shared(a.f, c, H, 0, 1)
      BY <1>1, <1>2, InsertAToBGood
    <3> QED
      BY <3>1 DEF Shared
  <2> HIDE DEF c
  <2>2. c \in FilesRec /\ p[0] \in Paths \cup {NoPath}
    BY <1>1, <2>1 DEF Good
  <2>3. /\ G \in FilesRec /\ G.st = c.st /\ G.dr = c.dr
        /\ G.fd[1] = p[0] /\ G.fd[0] = c.fd[0] /\ G.fs = c.fs
    BY <1>1, <2>2, SetNameIs
  <2> HIDE DEF G
  <2>4. Good(G, H)
    BY <2>1, <2>3 DEF Good, Owned, Held
  <2>5. Label(G, 0) /\ Label(G, 1) /\ G.fs = NoPath
    BY <1>2, <1>4, <2>1, <2>3 DEF Label, Keeps
  <2>6. Start(Opened(a.ok, TRUE, G), H)
    BY <1>4, <2>4, <2>5 DEF Start, Opened, Drives
  <2>7. \/ AlsoSecond(a, p, n) = Opened(a.ok, TRUE, G)
        \/ AlsoSecond(a, p, n) = Opened(a.ok, FALSE, a.f)
    BY DEF AlsoSecond, G, c
  <2> QED
    BY <1>3, <2>6, <2>7 DEF a
<1>5. CASE ~a.ok
  BY <1>3, <1>5 DEF AlsoSecond, a
<1> QED
  BY <1>2, <1>4, <1>5

LEMMA OpenDrivesStart ==
  ASSUME NEW F, NEW H, NEW p \in [Drives -> Paths \cup {NoPath}], Fresh(F, H, p),
         NEW n \in [Drives -> Int], NEW ro \in [Drives -> BOOLEAN]
  PROVE  Start(OpenDrives(F, p, n, ro), H)
<1>1. CASE p[0] # NoPath /\ p[1] # NoPath
  BY <1>1, SecondStart DEF OpenDrives
<1>2. CASE p[0] # NoPath /\ p[1] = NoPath
  <2>1. ro[0] \in BOOLEAN
    BY DEF Drives
  <2> QED
    BY <1>2, <2>1, AlsoStart DEF OpenDrives
<1>3. CASE p[0] = NoPath /\ p[1] # NoPath
  <2> DEFINE b == disk_insert(F, 1, p[1], FirstIfAuto(n[1]), ro[1])
  <2>1. 0 \in Drives /\ 1 \in Drives /\ FirstIfAuto(n[1]) \in Int /\ ro[1] \in BOOLEAN
    BY DEF Drives, FirstIfAuto
  <2>2. First(b, H, p, 1, 0)
    BY <1>3, <2>1, FirstDisk
  <2>3. OpenDrives(F, p, n, ro) = Opened(FALSE, b.ok, b.f)
    BY <1>3 DEF OpenDrives
  <2> HIDE DEF b
  <2> QED
    BY <2>2, <2>3 DEF Start, Opened, Drives, First
<1>4. CASE p[0] = NoPath /\ p[1] = NoPath
  BY <1>4 DEF OpenDrives, Start, Opened, Drives, Fresh
<1> QED
  BY <1>1, <1>2, <1>3, <1>4

LEMMA OpenDisksWhole ==
  ASSUME NEW F, NEW H, Good(F, H), F.dr[0].fp = NoStream, F.dr[1].fp = NoStream,
         F.fs = NoPath,
         NEW p \in [Drives -> Paths \cup {NoPath}],
         NEW n \in [Drives -> Int], NEW ro \in [Drives -> BOOLEAN]
  PROVE  Whole(OpenDisks(F, p, n, ro), H)
<1> DEFINE P == SetNames(F, p)
           o == OpenDrives(P, p, n, ro)
           nd == [d \in Drives |-> IF IF d = 0 THEN o.ok0 ELSE o.ok1
                                   THEN o.f.fd[d] ELSE NoPath]
           G == SetNames(o.f, nd)
           K == IF o.ok0 \/ o.ok1 THEN filename_init(G) ELSE G
<1>1. /\ P \in FilesRec /\ P.st = F.st /\ P.dr = F.dr /\ P.fd = p /\ P.fs = F.fs
  BY SetNamesIs DEF Good
<1> HIDE DEF P
<1>2. Fresh(P, H, p)
  BY <1>1 DEF Fresh, Good, Owned, Held
<1>3. Start(o, H)
  BY <1>2, OpenDrivesStart
<1>4. OpenDisks(F, p, n, ro) = K
  BY DEF OpenDisks, ClearNames, P
<1> HIDE DEF o
<1>5. o.f \in FilesRec /\ nd \in [Drives -> Paths \cup {NoPath}]
  BY <1>3, FilesFields DEF Start, Good
<1>6. nd[0] = (IF o.ok0 THEN o.f.fd[0] ELSE NoPath) /\ nd[1] = (IF o.ok1 THEN o.f.fd[1] ELSE NoPath)
  BY DEF Drives
<1> HIDE DEF nd
<1>7. /\ G \in FilesRec /\ G.st = o.f.st /\ G.dr = o.f.dr /\ G.fd = nd /\ G.fs = NoPath
  BY <1>3, <1>5, SetNamesIs DEF Start
<1> HIDE DEF G
<1>8. /\ K \in FilesRec /\ K.st = o.f.st /\ K.dr = o.f.dr /\ K.fd = nd
      /\ K.fs = IF o.ok0 \/ o.ok1 THEN StateName(nd) ELSE NoPath
  BY <1>7, InitNameIs
<1> HIDE DEF K
<1>9. K.fs = StateName(K.fd)
  BY <1>6, <1>8 DEF StateName
<1>10. Good(K, H)
  BY <1>3, <1>8 DEF Good, Start, Owned, Held
<1>11. Label(K, 0) /\ Label(K, 1)
  BY <1>3, <1>6, <1>8 DEF Start, Label, Drives
<1> QED
  BY <1>4, <1>9, <1>10, <1>11 DEF Whole

(***************************************************************************)
(* The invariant of the specification.                                     *)
(***************************************************************************)
HandleSet == {handle[h] : h \in Others} \ {NoStream}

Handles ==
  /\ handle \in [Others -> Streams \cup {NoStream}]
  /\ opened \in 0..Len(OtherFiles)
  /\ phase \in {"start", "open", "run", "off"}
  /\ \A g, h \in Others : handle[g] = handle[h] /\ handle[h] # NoStream => g = h
  /\ \A h \in Others : h > opened => handle[h] = NoStream

IInv ==
  /\ Handles
  /\ Good(Files, HandleSet)
  /\ Label(Files, 0) /\ Label(Files, 1)
  /\ phase # "off" => file_state = StateName(file_disk)
  /\ phase = "start" => /\ drive[0].fp = NoStream /\ drive[1].fp = NoStream
                        /\ file_state = NoPath

LEMMA FilesIs ==
  /\ Files.st = osd_stream /\ Files.dr = drive
  /\ Files.fd = file_disk /\ Files.fs = file_state
BY DEF Files

\* A call that leaves the handles alone, and whose result is whole.
LEMMA BecomeKeeps ==
  ASSUME NEW G, Become(G), Whole(G, HandleSet), IInv,
         UNCHANGED <<handle, opened>>, phase' \in {"open", "run"}
  PROVE  IInv'
<1>1. Files' = [st |-> G.st, dr |-> G.dr, fd |-> G.fd, fs |-> G.fs]
  BY DEF Files, Become
<1>2. Files' = G
  BY <1>1, FilesFields DEF Whole, Good
<1>3. HandleSet' = HandleSet
  BY DEF HandleSet
<1>4. Good(G, HandleSet) /\ Label(G, 0) /\ Label(G, 1) /\ G.fs = StateName(G.fd)
  BY DEF Whole
<1>5. /\ Good(Files, HandleSet)' /\ Label(Files, 0)' /\ Label(Files, 1)'
  <2>1. Good(Files', HandleSet')
    BY <1>2, <1>3, <1>4
  <2>2. Label(Files', 0) /\ Label(Files', 1)
    BY <1>2, <1>4
  <2> QED
    BY <2>1, <2>2 DEF Good, Label, Owned, Held, Ready, HeldDisk, ClosedUnnamed, FilesRec
<1>6. Handles'
  BY DEF IInv, Handles
<1>7. file_state' = StateName(file_disk')
  BY <1>4 DEF Become
<1> QED
  BY <1>5, <1>6, <1>7 DEF IInv, StateName

LEMMA InitInv == Init => IInv
<1> SUFFICES ASSUME Init
             PROVE  IInv
  OBVIOUS
<1>1. Len(OtherFiles) \in Nat
  BY OtherFilesAssumption
<1>2. Handles
  BY <1>1 DEF Init, Handles, Others
<1>3. HandleSet = {}
  BY DEF HandleSet, Init
<1>4. Files \in FilesRec
  <2>1. [used |-> FALSE, type |-> "disk", path |-> NoPath, mode |-> "rb"] \in StreamRec
    BY DEF StreamRec, Types, Exclusive, Modes
  <2>2. [fp |-> NoStream, read_only |-> FALSE, empty |-> TRUE, selected_image |-> 0,
         image_nr |-> 0, image |-> NoPath, protect |-> FALSE] \in DriveRec
    BY SizesAssumption DEF DriveRec
  <2>3. osd_stream \in [Streams -> StreamRec] /\ drive \in [Drives -> DriveRec]
    BY <2>1, <2>2 DEF Init
  <2> QED
    BY <2>3 DEF FilesRec, Files, Init
<1>5. drive[0].fp = NoStream /\ drive[1].fp = NoStream /\ drive[0].empty /\ drive[1].empty
  BY DEF Init, Drives
<1>6. \A i \in Streams : ~osd_stream[i].used /\ osd_stream[i].path = NoPath
  BY DEF Init
<1>7. ClosedUnnamed(Files.st)
  BY <1>6, FilesIs DEF ClosedUnnamed
<1>8. Owned(Files, HandleSet)
  BY <1>3, <1>5, <1>6, FilesIs, StreamNumbers DEF Owned
<1>9. Good(Files, HandleSet)
  BY <1>4, <1>5, <1>7, <1>8, FilesIs DEF Good, Held, Ready
<1>10. Label(Files, 0) /\ Label(Files, 1) /\ file_state = StateName(file_disk)
       /\ file_state = NoPath
  BY <1>5, FilesIs DEF Label, Init, StateName, Drives
<1> QED
  BY <1>2, <1>5, <1>9, <1>10 DEF IInv

LEMMA WholeFiles ==
  ASSUME IInv, phase # "off"
  PROVE  Whole(Files, HandleSet)
BY FilesIs DEF IInv, Whole

LEMMA StartDisksStep ==
  ASSUME IInv, StartDisks
  PROVE  IInv'
<1>1. PICK p \in [Drives -> DriveFiles \cup {NoPath}], n \in [Drives -> ImageArgs],
           ro \in [Drives -> BOOLEAN] : Become(OpenDisks(Files, p, n, ro))
  BY DEF StartDisks
<1>2. p \in [Drives -> Paths \cup {NoPath}] /\ n \in [Drives -> Int]
  BY PathsAssumption, OptionsAssumption
<1>3. /\ Good(Files, HandleSet) /\ Files.dr[0].fp = NoStream /\ Files.dr[1].fp = NoStream
      /\ Files.fs = NoPath
  BY FilesIs DEF IInv, StartDisks
<1>4. Whole(OpenDisks(Files, p, n, ro), HandleSet)
  BY <1>2, <1>3, OpenDisksWhole
<1>5. UNCHANGED <<handle, opened>> /\ phase' \in {"open", "run"}
  BY DEF StartDisks
<1> QED
  BY <1>1, <1>4, <1>5, BecomeKeeps

LEMMA StartOtherStep ==
  ASSUME IInv, StartOther
  PROVE  IInv'
<1> DEFINE k == opened + 1
           s == osd_fopen(osd_stream, OtherFiles[k].type, OtherFiles[k].path,
                          OtherFiles[k].mode)
           o == OtherFiles[k]
           new == [used |-> TRUE, type |-> o.type, mode |-> o.mode,
                   path |-> IF o.type \in Exclusive THEN o.path ELSE NoPath]
<1>1. /\ osd_stream' = s.st /\ handle' = [handle EXCEPT ![k] = s.fp]
      /\ opened' = k
      /\ UNCHANGED <<drive, file_disk, file_state, phase>>
      /\ phase = "open" /\ opened < Len(OtherFiles)
  BY DEF StartOther
<1>2. /\ Len(OtherFiles) \in Nat /\ opened \in 0..Len(OtherFiles)
      /\ k \in Others /\ k \in 1..Len(OtherFiles)
      /\ handle \in [Others -> Streams \cup {NoStream}]
  BY <1>1, OtherFilesAssumption DEF IInv, Handles, Others
<1>3. o \in [type : Types \ {"disk"}, path : Paths, mode : Modes]
  <2> DEFINE R == [type : Types \ {"disk"}, path : Paths, mode : Modes]
  <2>1. OtherFiles \in Seq(R)
    BY OtherFilesAssumption
  <2> HIDE DEF R, k
  <2>2. OtherFiles[k] \in R
    BY <1>2, <2>1
  <2> QED
    BY <2>2 DEF R
<1>4. /\ Files \in FilesRec /\ ClosedUnnamed(osd_stream) /\ Owned(Files, HandleSet)
      /\ osd_stream \in [Streams -> StreamRec] /\ drive \in [Drives -> DriveRec]
  BY FilesIs, FilesFields DEF IInv, Good
<1>5. \/ s.fp = NoStream /\ s.st = osd_stream
      \/ /\ s.fp \in Streams /\ ~osd_stream[s.fp].used
         /\ s.st = [osd_stream EXCEPT ![s.fp] = new]
  <2>1. o.type \in Types /\ o.path \in Paths /\ o.mode \in Modes
    BY <1>3
  <2> DEFINE r == osd_fopen(osd_stream, o.type, o.path, o.mode)
  <2>2. s = r
    OBVIOUS
  <2> HIDE DEF o, s
  <2>3. \/ r.fp = NoStream /\ r.st = osd_stream
        \/ /\ r.fp \in Streams /\ ~osd_stream[r.fp].used
           /\ r.st = [osd_stream EXCEPT ![r.fp] = new]
    <3>1. FailsOrTakes(r, osd_stream, NewStream(o.type, o.path, o.mode))
      BY <1>4, <2>1, FopenResult
    <3> QED
      BY <3>1 DEF FailsOrTakes, NewStream
  <2> QED
    BY <2>2, <2>3
<1> HIDE DEF s, k
<1>6. handle[k] = NoStream
  BY <1>1, <1>2 DEF IInv, Handles, k
<1>7. /\ osd_stream' \in [Streams -> StreamRec]
      /\ s.fp \in Streams \cup {NoStream}
      /\ s.fp \in Streams => osd_stream'[s.fp] = new
      /\ \A i \in Streams : i # s.fp => osd_stream'[i] = osd_stream[i]
  <2>1. new \in StreamRec
    BY <1>3 DEF StreamRec
  <2> HIDE DEF new
  <2> QED
    BY <1>1, <1>4, <1>5, <2>1, StreamNumbers
<1>8. s.fp \notin HandleSet /\ (s.fp # NoStream => s.fp # drive[0].fp /\ s.fp # drive[1].fp)
  BY <1>4, <1>5, StreamNumbers, FilesIs DEF Owned, HandleSet
<1>9. HandleSet' = HandleSet \cup ({s.fp} \ {NoStream})
  BY <1>1, <1>2, <1>6 DEF HandleSet
<1>10. Handles'
  <2>1. handle' \in [Others -> Streams \cup {NoStream}]
    BY <1>1, <1>2, <1>7
  <2>2. ASSUME NEW g \in Others, NEW h \in Others,
               handle'[g] = handle'[h], handle'[h] # NoStream
        PROVE  g = h
    <3>1. \A j \in Others : handle[j] = NoStream \/ handle[j] # s.fp
      BY <1>8 DEF HandleSet
    <3> QED
      BY <1>1, <1>2, <2>2, <3>1 DEF IInv, Handles
  <2>3. \A h \in Others : h > opened' => handle'[h] = NoStream
    BY <1>1, <1>2 DEF IInv, Handles, Others, k
  <2>4. opened' \in 0..Len(OtherFiles) /\ phase' \in {"start", "open", "run", "off"}
    BY <1>1, <1>2
  <2> QED
    BY <2>1, <2>2, <2>3, <2>4 DEF Handles
<1>11. Files' \in FilesRec
  BY <1>1, <1>4, <1>7, FilesFields DEF Files, FilesRec
<1>12. ClosedUnnamed(osd_stream')
  BY <1>4, <1>7 DEF ClosedUnnamed
<1>13. Owned(Files', HandleSet')
  <2>1. \A i \in Streams : osd_stream[i].used <=>
          (i = drive[0].fp \/ i = drive[1].fp \/ i \in HandleSet)
    BY <1>4, FilesIs DEF Owned
  <2>2. /\ drive[0].fp \notin HandleSet /\ drive[1].fp \notin HandleSet
        /\ HandleSet \subseteq Streams
    BY <1>4, FilesIs DEF Owned
  <2>3. \A i \in Streams : osd_stream'[i].used <=>
          (i = drive[0].fp \/ i = drive[1].fp \/ i \in HandleSet')
    BY <1>7, <1>8, <1>9, <2>1, StreamNumbers
  <2>4. /\ drive[0].fp \notin HandleSet' /\ drive[1].fp \notin HandleSet'
        /\ HandleSet' \subseteq Streams
    BY <1>7, <1>8, <1>9, <2>2
  <2>5. Files'.st = osd_stream' /\ Files'.dr = drive
    BY <1>1 DEF Files
  <2> QED
    BY <2>3, <2>4, <2>5 DEF Owned
<1>14. ASSUME NEW d \in Drives
       PROVE  Held(Files', d) /\ Ready(Files'.dr[d]) /\ Label(Files', d)
  <2>1. Files'.dr = drive /\ Files'.st = osd_stream' /\ Files'.fd = file_disk
    BY <1>1 DEF Files
  <2>2. Held(Files, d) /\ Ready(drive[d]) /\ Label(Files, d)
    BY FilesIs DEF IInv, Good, Drives
  <2>3. drive[d].fp # NoStream => osd_stream'[drive[d].fp] = osd_stream[drive[d].fp]
    BY <1>4, <1>7, <1>8 DEF Drives, DriveRec
  <2> QED
    BY <2>1, <2>2, <2>3, FilesIs DEF Held, Label
<1>15. Good(Files', HandleSet')
  BY <1>11, <1>12, <1>13, <1>14 DEF Good, Files, Drives
<1> QED
  BY <1>1, <1>10, <1>14, <1>15 DEF IInv, Drives

LEMMA CallStep ==
  ASSUME IInv, NEW F, Call(F), phase = "run" => Whole(F, HandleSet)
  PROVE  IInv'
BY BecomeKeeps DEF Call

\* Closing the streams of a set C of handles, when no drive is disturbed.
LEMMA KeyFileEndsStep ==
  ASSUME IInv, KeyFileEnds
  PROVE  IInv'
<1>1. PICK k \in Others :
        /\ phase = "run" /\ handle[k] # NoStream
        /\ osd_stream' = osd_fclose(osd_stream, handle[k])
        /\ handle' = [handle EXCEPT ![k] = NoStream]
        /\ UNCHANGED <<drive, file_disk, file_state, opened, phase>>
  BY DEF KeyFileEnds
<1> DEFINE x == handle[k]
<1>2. /\ handle \in [Others -> Streams \cup {NoStream}] /\ x \in Streams
      /\ x \in HandleSet /\ Len(OtherFiles) \in Nat
      /\ \A g \in Others : handle[g] = x => g = k
  BY <1>1, OtherFilesAssumption DEF IInv, Handles, HandleSet
<1>3. /\ Files \in FilesRec /\ ClosedUnnamed(osd_stream) /\ Owned(Files, HandleSet)
      /\ osd_stream \in [Streams -> StreamRec] /\ drive \in [Drives -> DriveRec]
  BY FilesIs, FilesFields DEF IInv, Good
<1>4. /\ osd_stream' \in [Streams -> StreamRec]
      /\ ~osd_stream'[x].used /\ osd_stream'[x].path = NoPath
      /\ \A i \in Streams : i # x => osd_stream'[i] = osd_stream[i]
  BY <1>1, <1>2, <1>3, CloseIs
<1>5. HandleSet' = HandleSet \ {x}
  BY <1>1, <1>2 DEF HandleSet
<1>6. x # drive[0].fp /\ x # drive[1].fp
  BY <1>2, <1>3, FilesIs DEF Owned
<1>7. Handles'
  <2>1. handle' \in [Others -> Streams \cup {NoStream}]
    BY <1>1, <1>2
  <2>2. \A g, h \in Others : handle'[g] = handle'[h] /\ handle'[h] # NoStream => g = h
    BY <1>1, <1>2 DEF IInv, Handles
  <2>3. \A h \in Others : h > opened' => handle'[h] = NoStream
    BY <1>1, <1>2 DEF IInv, Handles
  <2> QED
    BY <1>1, <2>1, <2>2, <2>3 DEF IInv, Handles
<1> HIDE DEF x
<1>8. Files' \in FilesRec
  BY <1>1, <1>3, <1>4, FilesFields DEF Files, FilesRec
<1>9. ClosedUnnamed(osd_stream')
  BY <1>3, <1>4 DEF ClosedUnnamed
<1>10. Owned(Files', HandleSet')
  <2>1. \A i \in Streams : osd_stream[i].used <=>
          (i = drive[0].fp \/ i = drive[1].fp \/ i \in HandleSet)
    BY <1>3, FilesIs DEF Owned
  <2>2. /\ drive[0].fp \notin HandleSet /\ drive[1].fp \notin HandleSet
        /\ HandleSet \subseteq Streams
    BY <1>3, FilesIs DEF Owned
  <2>3. \A i \in Streams : osd_stream'[i].used <=>
          (i = drive[0].fp \/ i = drive[1].fp \/ i \in HandleSet')
    BY <1>4, <1>5, <1>6, <2>1
  <2>4. Files'.st = osd_stream' /\ Files'.dr = drive
    BY <1>1 DEF Files
  <2> QED
    BY <1>5, <2>2, <2>3, <2>4 DEF Owned
<1>11. ASSUME NEW d \in Drives
       PROVE  Held(Files', d) /\ Ready(Files'.dr[d]) /\ Label(Files', d)
  <2>1. Files'.dr = drive /\ Files'.st = osd_stream' /\ Files'.fd = file_disk
    BY <1>1 DEF Files
  <2>2. Held(Files, d) /\ Ready(drive[d]) /\ Label(Files, d)
    BY FilesIs DEF IInv, Good, Drives
  <2>3. drive[d].fp # NoStream => osd_stream'[drive[d].fp] = osd_stream[drive[d].fp]
    BY <1>3, <1>4, <1>6 DEF Drives, DriveRec
  <2> QED
    BY <2>1, <2>2, <2>3, FilesIs DEF Held, Label
<1>12. Good(Files', HandleSet')
  BY <1>8, <1>9, <1>10, <1>11 DEF Good, Files, Drives
<1> QED
  BY <1>1, <1>7, <1>11, <1>12 DEF IInv, Drives

LEMMA StopStep ==
  ASSUME IInv, Stop
  PROVE  IInv'
<1> DEFINE A == disk_eject(Files, 0)
           E == disk_eject(A, 1)
<1>1. /\ osd_stream' = [i \in Streams |-> IF i \in HandleSet THEN osd_fclose(E.st, i)[i]
                                           ELSE E.st[i]]
      /\ drive' = E.dr
      /\ file_disk' = [d \in Drives |-> NoPath]
      /\ handle' = [h \in Others |-> NoStream]
      /\ phase' = "off"
      /\ UNCHANGED <<file_state, opened>>
  BY DEF Stop, HandleSet
<1>2. Good(Files, HandleSet)
  BY DEF IInv
<1>3. Good(A, HandleSet) /\ A.dr[0].fp = NoStream
  BY <1>2, EjectGood, GoodIsBoth DEF Drives
<1> HIDE DEF A
<1>4. Good(E, HandleSet) /\ E.dr[1].fp = NoStream /\ Keeps(A, E, 0)
  <2>1. Good(E, HandleSet) /\ E.dr[1].fp = NoStream /\ Keeps(A, E, 1 - 1)
    BY <1>3, EjectGood, GoodIsBoth DEF Drives
  <2> QED
    BY <2>1
<1> HIDE DEF E
<1>5. /\ E.dr[0].fp = NoStream /\ E.dr[1].fp = NoStream
      /\ E.dr[0].empty /\ E.dr[1].empty
  BY <1>3, <1>4 DEF Keeps, Good, Ready
<1>6. /\ E \in FilesRec /\ E.st \in [Streams -> StreamRec] /\ E.dr \in [Drives -> DriveRec]
      /\ ClosedUnnamed(E.st) /\ Owned(E, HandleSet)
  BY <1>4, FilesFields DEF Good
<1>7. ASSUME NEW i \in Streams
      PROVE  ~osd_stream'[i].used /\ osd_stream'[i].path = NoPath /\ osd_stream'[i] \in StreamRec
  <2>1. CASE i \in HandleSet
    BY <1>1, <1>6, <2>1, CloseIs
  <2>2. CASE i \notin HandleSet
    BY <1>1, <1>5, <1>6, <2>2, StreamNumbers DEF Owned, ClosedUnnamed
  <2> QED
    BY <2>1, <2>2
<1>8. osd_stream' \in [Streams -> StreamRec]
  BY <1>1, <1>7
<1>9. Files' \in FilesRec
  <2>1. file_state \in Paths \cup {NoPath}
    BY <1>2, FilesFields, FilesIs DEF Good
  <2> QED
    BY <1>1, <1>6, <1>8, <2>1 DEF Files, FilesRec
<1>10. HandleSet' = {}
  BY <1>1 DEF HandleSet
<1>11. Handles'
  BY <1>1 DEF IInv, Handles
<1>12. /\ Files'.st = osd_stream' /\ Files'.dr = drive' /\ Files'.fd = file_disk'
  BY DEF Files
<1>13. Owned(Files', HandleSet')
  BY <1>1, <1>5, <1>7, <1>10, <1>12, StreamNumbers DEF Owned
<1>14. ClosedUnnamed(Files'.st)
  BY <1>7, <1>12 DEF ClosedUnnamed
<1>15. ASSUME NEW d \in Drives
       PROVE  Held(Files', d) /\ Ready(Files'.dr[d]) /\ Label(Files', d)
  BY <1>1, <1>5, <1>12 DEF Held, Ready, Label, Drives
<1>16. Good(Files', HandleSet')
  BY <1>9, <1>13, <1>14, <1>15 DEF Good, Drives
<1> QED
  BY <1>1, <1>11, <1>15, <1>16 DEF IInv, Drives

LEMMA NextInv == IInv /\ [Next]_vars => IInv'
<1> SUFFICES ASSUME IInv, [Next]_vars
             PROVE  IInv'
  OBVIOUS
<1> DEFINE H == HandleSet
<1>0. /\ 0 \in Drives /\ 1 \in Drives
      /\ phase = "run" => Whole(Files, HandleSet)
      /\ phase = "run" => Good(Files, HandleSet)
      /\ \A d \in Drives : drive[d].image_nr \in Nat /\ drive[d].selected_image \in Nat
  <2>1. drive \in [Drives -> DriveRec]
    BY FilesIs, FilesFields DEF IInv, Good
  <2>2. \A d \in Drives : drive[d].image_nr \in Nat /\ drive[d].selected_image \in Nat
    BY <2>1, SizesAssumption DEF DriveRec
  <2> QED
    BY <2>2, WholeFiles DEF Drives, IInv
<1>1. CASE StartDisks
  BY <1>1, StartDisksStep
<1>2. CASE StartOther
  BY <1>2, StartOtherStep
<1>3. CASE StartDone
  <2>1. Whole(quasi88_disk_eject_all(Files), HandleSet)
    BY <1>3, WholeFiles, QEjectAllWhole DEF StartDone
  <2> QED
    BY <1>3, <2>1, BecomeKeeps DEF StartDone
<1>4. CASE Insert
  <2>1. PICK d \in Drives, p \in DriveFiles, ro \in BOOLEAN :
          Call(quasi88_disk_insert(Files, d, p, 0, ro).f)
    BY <1>4 DEF Insert
  <2>2. p \in Paths
    BY PathsAssumption
  <2> QED
    <3> DEFINE G == quasi88_disk_insert(Files, d, p, 0, ro).f
    <3>1. phase = "run" => Whole(G, HandleSet)
      BY <1>0, <2>2, QInsertWhole
    <3> HIDE DEF G
    <3>2. Call(G)
      BY <2>1 DEF G
    <3> QED
      BY <3>1, <3>2, CallStep
<1>5. CASE InsertAll
  <2>1. PICK p \in DriveFiles, ro \in BOOLEAN : Call(quasi88_disk_insert_all(Files, p, ro))
    BY <1>5 DEF InsertAll
  <2>2. p \in Paths
    BY PathsAssumption
  <2> QED
    BY <1>0, <2>1, <2>2, QInsertAllWhole, CallStep
<1>6. CASE SelectImage
  <2>1. PICK d \in Drives : \E img \in 0..(drive[d].image_nr - 1) : Call(ImageSelect(Files, d, img))
    BY <1>6 DEF SelectImage
  <2>2. PICK img \in 0..(drive[d].image_nr - 1) : Call(ImageSelect(Files, d, img))
    BY <2>1
  <2>3. phase = "run" => Whole(ImageSelect(Files, d, img), HandleSet)
    BY <1>0, ImageSelectGood, TurnedWhole
  <2> QED
    BY <2>2, <2>3, CallStep
<1>7. CASE SelectBoth
  <2>1. PICK d \in Drives : \E img \in 0..(drive[d].image_nr - 1) :
          LET next == IF img + 1 >= drive[d].image_nr THEN 0 ELSE img + 1
          IN  Call(quasi88_disk_insert_A_to_B(ImageSelect(Files, d, img), d, 1 - d, next))
    BY <1>7 DEF SelectBoth
  <2>2. PICK img \in 0..(drive[d].image_nr - 1), next \in Int :
          Call(quasi88_disk_insert_A_to_B(ImageSelect(Files, d, img), d, 1 - d, next))
    <3>1. PICK img \in 0..(drive[d].image_nr - 1) :
            LET next == IF img + 1 >= drive[d].image_nr THEN 0 ELSE img + 1
            IN  Call(quasi88_disk_insert_A_to_B(ImageSelect(Files, d, img), d, 1 - d, next))
      BY <2>1
    <3> DEFINE next == IF img + 1 >= drive[d].image_nr THEN 0 ELSE img + 1
    <3>2. next \in Int
      OBVIOUS
    <3> HIDE DEF next
    <3>3. Call(quasi88_disk_insert_A_to_B(ImageSelect(Files, d, img), d, 1 - d, next))
      BY <3>1 DEF next
    <3> QED
      BY <3>2, <3>3
  <2> DEFINE S == ImageSelect(Files, d, img)
  <2>3. phase = "run" => Whole(S, HandleSet)
    BY <1>0, ImageSelectGood, TurnedWhole
  <2> HIDE DEF S
  <2>4. 1 - d \in Drives /\ 1 - (1 - d) = d
    BY OtherDrive
  <2>5. phase = "run" =>
          Whole(quasi88_disk_insert_A_to_B(S, 1 - (1 - d), 1 - d, next), HandleSet)
    BY <2>3, <2>4, QInsertAToBWhole
  <2> QED
    BY <2>2, <2>4, <2>5, CallStep DEF S
<1>8. CASE EjectAll
  BY <1>0, <1>8, QEjectAllWhole, CallStep DEF EjectAll
<1>9. CASE Eject
  <2>1. PICK d \in Drives : Call(quasi88_disk_eject(Files, d))
    BY <1>9 DEF Eject
  <2> QED
    BY <1>0, <2>1, QEjectWhole, CallStep
<1>10. CASE KeyEmpty
  <2>1. PICK d \in Drives : Call(ImageEmpty(Files, d))
    BY <1>10 DEF KeyEmpty
  <2>2. phase = "run" => Whole(ImageEmpty(Files, d), HandleSet)
    BY <1>0, EmptyGood, TurnedWhole DEF ImageEmpty
  <2> QED
    BY <2>1, <2>2, CallStep
<1>11. CASE KeyNext
  <2>1. PICK d \in Drives : Call(ImageSelect(Files, d, drive[d].selected_image + 1))
    BY <1>11 DEF KeyNext
  <2>2. drive[d].selected_image + 1 \in Int
    BY <1>0
  <2>3. phase = "run" => Whole(ImageSelect(Files, d, drive[d].selected_image + 1), HandleSet)
    BY <1>0, <2>2, ImageSelectGood, TurnedWhole
  <2> QED
    BY <2>1, <2>3, CallStep
<1>12. CASE KeyPrev
  <2>1. PICK d \in Drives : Call(ImageSelect(Files, d, drive[d].selected_image - 1))
    BY <1>12 DEF KeyPrev
  <2>2. drive[d].selected_image - 1 \in Int
    BY <1>0
  <2>3. phase = "run" => Whole(ImageSelect(Files, d, drive[d].selected_image - 1), HandleSet)
    BY <1>0, <2>2, ImageSelectGood, TurnedWhole
  <2> QED
    BY <2>1, <2>3, CallStep
<1>13. CASE Reset
  <2> DEFINE A == ResetDrive(Files, 0)
  <2>1. phase = "run" => Whole(A, HandleSet)
    BY <1>0, ResetGood, TurnedWhole
  <2> HIDE DEF A
  <2>2. phase = "run" => Whole(ResetDrive(A, 1), HandleSet)
    BY <1>0, <2>1, ResetGood, TurnedWhole DEF Whole
  <2> QED
    BY <1>13, <2>2, CallStep DEF Reset, A
<1>14. CASE Playback
  <2>1. PICK c \in [Drives -> -1..MaxNrImage] :
          Call(PlaybackDrive(PlaybackDrive(Files, 0, c[0]), 1, c[1]))
    BY <1>14 DEF Playback
  <2>2. c[0] \in Int /\ c[1] \in Int
    BY <1>0, SizesAssumption
  <2> DEFINE A == PlaybackDrive(Files, 0, c[0])
  <2>3. phase = "run" => Whole(A, HandleSet)
    BY <1>0, <2>2, PlaybackGood, TurnedWhole
  <2> HIDE DEF A
  <2>4. phase = "run" => Whole(PlaybackDrive(A, 1, c[1]), HandleSet)
    BY <1>0, <2>2, <2>3, PlaybackGood, TurnedWhole DEF Whole
  <2> QED
    BY <2>1, <2>4, CallStep DEF A
<1>15. CASE KeyFileEnds
  BY <1>15, KeyFileEndsStep
<1>16. CASE Stop
  BY <1>16, StopStep
<1>17. CASE UNCHANGED vars
  BY <1>17 DEF vars, IInv, Handles, HandleSet, Files, Good, Label, Owned, Held, HeldDisk,
               Ready, ClosedUnnamed, FilesRec
<1> QED
  BY <1>1, <1>2, <1>3, <1>4, <1>5, <1>6, <1>7, <1>8, <1>9, <1>10, <1>11, <1>12, <1>13,
     <1>14, <1>15, <1>16, <1>17 DEF Next

-----------------------------------------------------------------------------
(***************************************************************************)
(* The theorems.                                                           *)
(***************************************************************************)
LEMMA SpecInv == Spec => []IInv
<1>1. IInv /\ [Next]_vars => IInv'
  BY NextInv
<1> QED
  BY InitInv, <1>1, PTL DEF Spec

LEMMA InvTypes ==
  ASSUME IInv
  PROVE  /\ osd_stream \in [Streams -> StreamRec] /\ drive \in [Drives -> DriveRec]
         /\ file_disk \in [Drives -> Paths \cup {NoPath}]
         /\ file_state \in Paths \cup {NoPath}
         /\ \A d \in Drives : Held(Files, d) /\ Ready(drive[d]) /\ Label(Files, d)
         /\ Owned(Files, HandleSet)
BY FilesIs, FilesFields DEF IInv, Good, Drives

\* The variables keep their types: in particular no drive is given more
\* images than its image table has entries (disk_insert, fdc.c).
THEOREM TypeCorrect == Spec => []TypeOK
<1>1. IInv => TypeOK
  BY InvTypes DEF IInv, Handles, TypeOK
<1> QED
  BY <1>1, SpecInv, PTL

\* The streams in use are exactly those of the drives and the handles, and
\* none is held by two owners other than the two drives: osd_fopen and
\* osd_fclose lose none, and none is closed while somebody holds it.
THEOREM StreamsOwned == Spec => []HandlesOwned
<1>1. ASSUME IInv
      PROVE  HandlesOwned
  <2>1. \A i \in Streams : osd_stream[i].used <=>
          (i = drive[0].fp \/ i = drive[1].fp \/ i \in HandleSet)
    BY <1>1, InvTypes, FilesIs DEF Owned
  <2>2. /\ drive[0].fp \notin HandleSet /\ drive[1].fp \notin HandleSet
        /\ HandleSet \subseteq Streams
    BY <1>1, InvTypes, FilesIs DEF Owned
  <2>3. drive[0].fp \in Streams \cup {NoStream} /\ drive[1].fp \in Streams \cup {NoStream}
    BY <1>1, InvTypes DEF Drives, DriveRec
  <2>4. {i \in Streams : osd_stream[i].used} =
          ({Fp(d) : d \in Drives} \cup {handle[h] : h \in Others}) \ {NoStream}
    <3>1. {Fp(d) : d \in Drives} = {drive[0].fp, drive[1].fp}
      BY DEF Fp, Drives
    <3>2. ASSUME NEW i \in Streams
          PROVE  osd_stream[i].used <=>
                   i \in ({Fp(d) : d \in Drives} \cup {handle[h] : h \in Others}) \ {NoStream}
      BY <2>1, <3>1, StreamNumbers DEF HandleSet
    <3>3. ({Fp(d) : d \in Drives} \cup {handle[h] : h \in Others}) \ {NoStream} \subseteq Streams
      BY <2>2, <2>3, <3>1 DEF HandleSet
    <3> QED
      BY <3>2, <3>3
  <2>5. ASSUME NEW h \in Others, handle[h] # NoStream
        PROVE  /\ \A d \in Drives : Fp(d) # handle[h]
               /\ \A g \in Others : handle[g] = handle[h] => g = h
    <3>1. handle[h] \in HandleSet
      BY <2>5 DEF HandleSet
    <3>2. \A d \in Drives : Fp(d) # handle[h]
      BY <2>2, <3>1 DEF Fp, Drives
    <3>3. \A g \in Others : handle[g] = handle[h] => g = h
      BY <1>1, <2>5 DEF IInv, Handles
    <3> QED
      BY <3>2, <3>3
  <2>6. \A d \in Drives : Fp(d) # NoStream => osd_stream[Fp(d)].type = "disk"
    BY <1>1, InvTypes, FilesIs DEF Held, HeldDisk, Fp
  <2> QED
    BY <2>4, <2>5, <2>6 DEF HandlesOwned
<1>2. IInv => HandlesOwned
  BY <1>1
<1> QED
  BY <1>2, SpecInv, PTL

\* The menu's name of each drive is the file the drive holds, and two drives
\* on one stream agree on the file.
THEOREM NamesAreRight == Spec => []NamesMatch
<1>1. IInv => NamesMatch
  <2> SUFFICES ASSUME IInv
               PROVE  NamesMatch
    OBVIOUS
  <2>1. \A d \in Drives : Held(Files, d) /\ Label(Files, d) /\ drive[d] \in DriveRec
    BY InvTypes
  <2>2. \A d \in Drives : file_disk[d] = IF Fp(d) = NoStream THEN NoPath
                                         ELSE osd_stream[Fp(d)].path
    BY <2>1, FilesIs DEF Label, Fp
  <2>3. ASSUME Fp(0) = Fp(1), Fp(0) # NoStream
        PROVE  /\ drive[0].image_nr = drive[1].image_nr
               /\ drive[0].image = drive[1].image
               /\ drive[0].read_only = drive[1].read_only
    <3>1. HeldDisk(drive[0], osd_stream[Fp(0)]) /\ HeldDisk(drive[1], osd_stream[Fp(0)])
      BY <2>1, <2>3, FilesIs DEF Held, Fp, Drives
    <3>2. drive[0].read_only \in BOOLEAN /\ drive[1].read_only \in BOOLEAN
      BY <2>1 DEF Drives, DriveRec
    <3> QED
      BY <3>1, <3>2 DEF HeldDisk
  <2> QED
    BY <2>2, <2>3 DEF NamesMatch
<1> QED
  BY <1>1, SpecInv, PTL

\* A drive that is not empty has a file, and an image of that file: the image
\* offsets of drive_set_empty's table are those of the named file.
THEOREM ImagesInRange == Spec => []ImageInRange
<1>1. IInv => ImageInRange
  BY InvTypes, FilesIs DEF Held, HeldDisk, Label, Ready, Fp, ImageInRange
<1> QED
  BY <1>1, SpecInv, PTL

\* A disk whose file was opened for reading only is write protected in
\* whichever drive it is, unless the option says to ignore this.
THEOREM ReadOnlyIsProtected == Spec => []ReadOnlyProtected
<1>1. IInv => ReadOnlyProtected
  BY InvTypes, FilesIs DEF Held, HeldDisk, Ready, Fp, ReadOnlyProtected
<1> QED
  BY <1>1, SpecInv, PTL

\* The state file is named after a disk that is in a drive, drive 1 first.
THEOREM StateNameIsRight == Spec => []StateNameFollowsDisk
<1>1. IInv => StateNameFollowsDisk
  BY DEF IInv, StateNameFollowsDisk
<1> QED
  BY <1>1, SpecInv, PTL

=============================================================================
