------------------------------ MODULE StorageProofs ------------------------------
(***************************************************************************)
(* Proofs about the disk and the files, for disks of any geometry and      *)
(* bytes of any size.  DiskStep is what any step of the machine, of the    *)
(* user or of Android does to the controller.                              *)
(***************************************************************************)
EXTENDS Storage, SequenceTheorems, TLAPS

USE GeometryAssumption

Images == [0..DiskSize - 1 -> Byte]
Names == 0..Sides * Tracks * Sectors - 1

DiskStep ==
  \/ ~fault /\ (Reading \/ Naming \/ Writing \/ \E d \in Disks : LoadDisk(d))
  \/ UNCHANGED diskVars
  \/ CreateCPU

-----------------------------------------------------------------------------
(* Arithmetic *)

\* The index READ SECTOR and WRITE SECTOR compute is the start of the sector they name.
LEMMA PlaceOfSector ==
  ASSUME NEW a \in Nat, NEW t \in Nat, NEW s \in Nat
  PROVE  /\ (a * Tracks + t) * Sectors + s \in Nat
         /\ Index(a, t, s) = ((a * Tracks + t) * Sectors + s) * SectorSize
<1>1. a * Tracks \in Nat /\ (a * Tracks + t) * Sectors \in Nat
  OBVIOUS
<1>2. a * (SectorSize * Sectors * Tracks) = ((a * Tracks) * Sectors) * SectorSize
  OBVIOUS
<1>3. t * (SectorSize * Sectors) = (t * Sectors) * SectorSize
  OBVIOUS
<1>4. (a * Tracks + t) * Sectors = (a * Tracks) * Sectors + t * Sectors
  OBVIOUS
<1>5. ((a * Tracks + t) * Sectors + s) * SectorSize
        = ((a * Tracks) * Sectors) * SectorSize + (t * Sectors) * SectorSize + s * SectorSize
  BY <1>4
<1> QED
  BY <1>1, <1>2, <1>3, <1>5 DEF Index

LEMMA DiskIsSectors ==
  /\ Sides * Tracks * Sectors \in Nat \ {0}
  /\ DiskSize = (Sides * Tracks * Sectors) * SectorSize
  /\ DiskSize \in Nat \ {0}
<1>1. Sides * Tracks \in Nat \ {0}
  OBVIOUS
<1>2. Sides * Tracks * Sectors \in Nat \ {0}
  BY <1>1
<1>3. (Sides * Tracks * Sectors) * SectorSize \in Nat \ {0}
  BY <1>2
<1> QED
  BY <1>2, <1>3 DEF DiskSize

\* Sectors do not overlap, and one that begins on the disk ends on it.
LEMMA SectorsApart ==
  ASSUME NEW m \in Nat, NEW s \in Nat, NEW t \in Nat, NEW j \in 0..m - 1, NEW k \in 0..m - 1,
         s < t
  PROVE  s * m + j < t * m + k
<1>1. (s + 1) * m <= t * m
  <2>1. (t - (s + 1)) * m >= 0
    OBVIOUS
  <2>2. (t - (s + 1)) * m = t * m - (s + 1) * m
    OBVIOUS
  <2> QED
    BY <2>1, <2>2
<1>2. (s + 1) * m = s * m + m
  OBVIOUS
<1> QED
  BY <1>1, <1>2

LEMMA OnDisk ==
  ASSUME NEW s \in Nat, s * SectorSize < DiskSize
  PROVE  s \in Names
<1> DEFINE n == Sides * Tracks * Sectors
<1>1. n \in Nat /\ DiskSize = n * SectorSize
  BY DiskIsSectors
<1>2. SUFFICES ASSUME n <= s PROVE FALSE
  BY <1>1 DEF Names
<1>3. n * SectorSize <= s * SectorSize
  <2> HIDE DEF n
  <2>1. (s - n) * SectorSize >= 0
    BY <1>1, <1>2
  <2>2. (s - n) * SectorSize = s * SectorSize - n * SectorSize
    BY <1>1
  <2> QED
    BY <1>1, <2>1, <2>2
<1> HIDE DEF n
<1> QED
  BY <1>1, <1>3

LEMMA SectorBounds ==
  ASSUME NEW s \in Names, NEW k \in 1..SectorSize
  PROVE  s * SectorSize + k - 1 \in 0..DiskSize - 1
<1> DEFINE n == Sides * Tracks * Sectors
<1>1. n \in Nat /\ DiskSize = n * SectorSize /\ s \in Nat /\ s < n
  BY DiskIsSectors DEF Names
<1> HIDE DEF n
<1>2. s * SectorSize + (k - 1) < n * SectorSize + 0
  BY <1>1, SectorsApart
<1>3. s * SectorSize \in Nat /\ n * SectorSize \in Nat
  BY <1>1
<1> QED
  BY <1>1, <1>2, <1>3

LEMMA InvertedFacts ==
  ASSUME NEW b \in Byte
  PROVE  Inverted(b) \in Byte /\ Inverted(Inverted(b)) = b
BY DEF Byte, Inverted
-----------------------------------------------------------------------------
(* Types *)

Sent == [sector : Nat \cup {None}, bytes : Seq(Byte), from : Nat, count : Nat]

Typed ==
  /\ DiskTypeOK
  /\ sent \in Sent
  /\ got \in Seq(Byte)
  /\ files \in [image : {files.image}, floppy : Images \cup {None, Garbage}]

LEMMA StepsAreDiskSteps ==
  ASSUME Next
  PROVE  DiskStep
<1>1. CASE Work
  BY <1>1 DEF Work, DiskStep
<1>2. CASE LoadDSKImage
  BY <1>2 DEF LoadDSKImage, DiskStep
<1>3. CASE OpenImage \/ OpenFloppy \/ NoFloppy \/ WriteFloppy \/ CloseImage \/ LoadImage \/ Kill
  BY <1>3 DEF OpenImage, OpenFloppy, NoFloppy, WriteFloppy, CloseImage, LoadImage, Kill, DiskStep
<1>4. CASE CreateCPU
  BY <1>4 DEF DiskStep
<1>5. CASE Undefined
  BY <1>5 DEF Undefined, DiskStep
<1> QED
  BY <1>1, <1>2, <1>3, <1>4, <1>5 DEF Next

\* The bytes of a sector of an image.
LEMMA BytesAreContent ==
  ASSUME image \in Images, NEW i \in Nat, i + SectorSize <= DiskSize
  PROVE  Bytes(i) \in [1..SectorSize -> Byte]
<1>1. ASSUME NEW k \in 1..SectorSize
      PROVE  image[i + k - 1] \in Byte
  <2>1. i + k - 1 \in 0..DiskSize - 1
    BY DiskIsSectors
  <2> QED
    BY <2>1 DEF Images
<1> QED
  BY <1>1 DEF Bytes

Fdc == [track : Byte, sector : Byte, data : Byte, side : {0, 1},
        buffer : [1..SectorSize -> Byte], blen : {0, IdSize, SectorSize},
        bp : 0..SectorSize, wp : 0..SectorSize, idx : Nat]

LEMMA PlaceFacts ==
  ASSUME fdc \in Fdc
  PROVE  Here \in Nat /\ Place = Here * SectorSize /\ Place \in Nat
<1>1. fdc.side \in Nat /\ fdc.track \in Nat /\ fdc.sector \in Nat
  BY DEF Fdc, Byte
<1> DEFINE a == fdc.side t == fdc.track s == fdc.sector
<1>2. Here \in Nat /\ Place = Here * SectorSize
  <2>1. Here = (a * Tracks + t) * Sectors + s /\ Place = Index(a, t, s)
    BY DEF Here, Place
  <2>2. a \in Nat /\ t \in Nat /\ s \in Nat
    BY <1>1
  <2> HIDE DEF a, t, s
  <2>3. /\ (a * Tracks + t) * Sectors + s \in Nat
        /\ Index(a, t, s) = ((a * Tracks + t) * Sectors + s) * SectorSize
    BY ONLY <2>2, PlaceOfSector, Zenon
  <2> QED
    BY <2>1, <2>3
<1> QED
  BY <1>2

LEMMA WriteDataTyped ==
  ASSUME Typed, NEW b \in Byte, WriteData(b)
  PROVE  fdc' \in Fdc /\ (image' = None \/ image' \in Images) /\ sent' \in Sent
<1> DEFINE v == Inverted(b)
<1>1. v \in Byte
  BY InvertedFacts
<1>2. fdc \in Fdc /\ (image = None \/ image \in Images) /\ sent \in Sent
  BY DEF Typed, DiskTypeOK, Fdc, Images
<1>3. fdc' \in Fdc
  <2>1. fdc.idx + 1 \in Nat /\ (fdc.wp > 0 => fdc.wp - 1 \in 0..SectorSize)
    BY <1>2 DEF Fdc
  <2> HIDE DEF v
  <2>2. fdc' = [fdc EXCEPT !.data = v,
                           !.idx = IF fdc.wp > 0 THEN fdc.idx + 1 ELSE fdc.idx,
                           !.wp = IF fdc.wp > 0 THEN fdc.wp - 1 ELSE fdc.wp]
    BY DEF WriteData, v
  <2> QED
    BY <1>1, <1>2, <2>1, <2>2 DEF Fdc
<1>4. image' = None \/ image' \in Images
  <2>1. image' = image \/ (image # None /\ image' = [image EXCEPT ![fdc.idx] = v])
    BY DEF WriteData
  <2> QED
    BY <1>1, <1>2, <2>1 DEF Images
<1>5. sent' \in Sent
  <2>1. sent' = sent \/ sent' = [sent EXCEPT !.bytes = Append(sent.bytes, v)]
    BY DEF WriteData, SentWith
  <2>2. Append(sent.bytes, v) \in Seq(Byte)
    BY <1>1, <1>2 DEF Sent
  <2> HIDE DEF v
  <2> QED
    BY <1>2, <2>1, <2>2 DEF Sent
<1> QED
  BY <1>3, <1>4, <1>5

LEMMA ReadDataTyped ==
  ASSUME Typed, ReadData
  PROVE  fdc' \in Fdc /\ got' \in Seq(Byte)
<1>1. fdc \in Fdc /\ got \in Seq(Byte)
  BY DEF Typed, DiskTypeOK, Fdc
<1>2. fdc.bp + 1 \in 1..SectorSize /\ fdc' = [fdc EXCEPT !.bp = fdc.bp + 1]
  BY <1>1 DEF ReadData, Fdc
<1>3. fdc' \in Fdc
  <2> DEFINE n == fdc.bp + 1
  <2>1. n \in 0..SectorSize /\ fdc' = [fdc EXCEPT !.bp = n]
    BY <1>2
  <2> HIDE DEF n
  <2> QED
    BY <1>1, <2>1 DEF Fdc
<1>4. fdc.buffer[fdc.bp + 1] \in Byte
  BY <1>1, <1>2 DEF Fdc
<1>5. got' \in Seq(Byte)
  <2> DEFINE v == Inverted(Inverted(fdc.buffer[fdc.bp + 1]))
  <2>1. v \in Byte
    BY <1>4, InvertedFacts
  <2>2. got' = got \/ got' = Append(got, v)
    BY DEF ReadData, GotWith
  <2> HIDE DEF v
  <2> QED
    BY <1>1, <2>1, <2>2, SMTT(30)
<1> QED
  BY <1>3, <1>5

LEMMA CreateTyped ==
  ASSUME Typed, CreateCPU
  PROVE  fdc' \in Fdc /\ (image' = None \/ image' \in Images) /\ sent' \in Sent
<1>1. Idle \in Fdc
  BY DEF Idle, Fdc, Byte
<1>2. image' = None \/ image' \in Images
  <2>1. Disks \subseteq Images
    BY DisksAssumption DEF Images
  <2>2. Blank \in Images
    BY DEF Blank, Images, Byte
  <2>3. files.floppy \in Images \cup {None, Garbage}
    BY DEF Typed
  <2> QED
    BY <2>1, <2>2, <2>3 DEF CreateCPU
<1>3. sent' \in Sent
  <2>1. sent.count \in Nat /\ << >> \in Seq(Byte)
    BY DEF Typed, Sent
  <2>2. sent' = [sector |-> None, bytes |-> << >>, from |-> 0, count |-> sent.count]
    BY DEF CreateCPU, Unsent
  <2> QED
    BY <2>1, <2>2 DEF Sent
<1> QED
  BY <1>1, <1>2, <1>3 DEF CreateCPU

LEMMA DiskStepTyped ==
  ASSUME Typed, DiskStep
  PROVE  /\ fdc' \in Fdc /\ (image' = None \/ image' \in Images)
         /\ sent' \in Sent /\ got' \in Seq(Byte)
<1>1. fdc \in Fdc /\ (image = None \/ image \in Images) /\ sent \in Sent /\ got \in Seq(Byte)
  BY DEF Typed, DiskTypeOK, Fdc, Images
<1>2. CASE Restore
  <2>1. 0 \in Byte
    BY DEF Byte
  <2> QED
    BY <1>1, <1>2, <2>1 DEF Restore, Fdc
<1>3. CASE Seek
  BY <1>1, <1>3 DEF Seek, Fdc
<1>4. CASE ReadId
  <2>1. fdc.track \in Byte /\ fdc.side \in Byte /\ fdc.sector \in Byte /\ 0 \in Byte /\ 1 \in Byte
    BY <1>1 DEF Fdc, Byte
  <2> DEFINE named == [k \in 1..SectorSize |-> IF k <= IdSize THEN Id[k] ELSE fdc.buffer[k]]
             length == IdSize
             zero == 0
  <2>2. named \in [1..SectorSize -> Byte]
    <3>1. Id \in [1..6 -> Byte]
      BY <2>1 DEF Id
    <3>2. ASSUME NEW k \in 1..SectorSize, k <= IdSize PROVE Id[k] \in Byte
      BY <3>1, <3>2
    <3>3. ASSUME NEW k \in 1..SectorSize PROVE fdc.buffer[k] \in Byte
      BY <1>1 DEF Fdc
    <3> QED
      BY <3>2, <3>3
  <2>3. fdc' = [fdc EXCEPT !.buffer = named, !.blen = length, !.bp = zero]
    BY <1>4 DEF ReadId
  <2>4. zero \in 0..SectorSize /\ length \in {0, IdSize, SectorSize}
    OBVIOUS
  <2> HIDE DEF named, length, zero
  <2>5. fdc' \in Fdc
    BY <1>1, <2>2, <2>3, <2>4 DEF Fdc
  <2> QED
    BY <1>1, <1>4, <2>5 DEF ReadId
<1>5. CASE ReadSect
  <2>1. CASE Readable(Place)
    <3>1. Bytes(Place) \in [1..SectorSize -> Byte]
      BY <1>1, <2>1, PlaceFacts, BytesAreContent DEF Readable
    <3>2. fdc' = [fdc EXCEPT !.buffer = Bytes(Place), !.blen = SectorSize, !.bp = 0]
      BY <1>5, <2>1 DEF ReadSect
    <3> DEFINE bytes == Bytes(Place) zero == 0
    <3>5. bytes \in [1..SectorSize -> Byte] /\ zero \in 0..SectorSize
            /\ fdc' = [fdc EXCEPT !.buffer = bytes, !.blen = SectorSize, !.bp = zero]
      BY <3>1, <3>2
    <3> HIDE DEF bytes, zero
    <3>3. fdc' \in Fdc
      BY <1>1, <3>5 DEF Fdc
    <3>4. << >> \in Seq(Byte)
      OBVIOUS
    <3> QED
      BY <1>1, <1>5, <2>1, <3>3, <3>4 DEF ReadSect
  <2> QED
    BY <1>1, <1>5, <2>1 DEF ReadSect
<1>6. CASE ReadData
  BY <1>1, <1>6, ReadDataTyped DEF ReadData
<1>7. CASE Naming
  <2>1. ASSUME NEW n \in Numbers
        PROVE  Inverted(Inverted(n)) \in Byte
    BY InvertedFacts DEF Byte
  <2> HIDE DEF Inverted
  <2>2. ASSUME NEW n \in Numbers, SetTrack(Inverted(n)) PROVE fdc' \in Fdc
    BY <1>1, <2>1, <2>2 DEF SetTrack, Fdc
  <2>3. ASSUME NEW n \in Numbers, SetSector(Inverted(n)) PROVE fdc' \in Fdc
    BY <1>1, <2>1, <2>3 DEF SetSector, Fdc
  <2>4. ASSUME NEW bit \in {0, 1}, SelectSide(bit) PROVE fdc' \in Fdc
    BY <1>1, <2>4 DEF SelectSide, Fdc
  <2>5. UNCHANGED <<image, sent, got>>
    BY <1>7 DEF Naming, SetTrack, SetSector, SelectSide
  <2> QED
    BY <1>1, <1>7, <2>2, <2>3, <2>4, <2>5 DEF Naming
<1>8. CASE WriteSect
  <2>1. Place \in Nat /\ Here \in Nat /\ sent.count + 1 \in Nat
    BY <1>1, PlaceFacts DEF Sent
  <2>2. fdc' \in Fdc
    <3> DEFINE place == Place
    <3>1. place \in Nat /\ SectorSize \in 0..SectorSize
            /\ fdc' = [fdc EXCEPT !.idx = place, !.blen = SectorSize, !.wp = SectorSize]
      BY <1>8, <2>1 DEF WriteSect
    <3> HIDE DEF place
    <3> QED
      BY <1>1, <3>1 DEF Fdc
  <2>3. << >> \in Seq(Byte)
    OBVIOUS
  <2>4. sent' \in Sent
    BY <1>8, <2>1, <2>3 DEF WriteSect, Sent
  <2> QED
    BY <1>1, <1>8, <2>2, <2>4 DEF WriteSect
<1>9. ASSUME NEW b \in Data, WriteData(Inverted(b))
      PROVE  fdc' \in Fdc /\ (image' = None \/ image' \in Images) /\ sent' \in Sent
               /\ UNCHANGED got
  <2>1. Inverted(b) \in Byte
    BY InvertedFacts DEF Byte
  <2> QED
    BY <1>9, <2>1, WriteDataTyped DEF WriteData
<1>10. ASSUME NEW d \in Disks, LoadDisk(d)
       PROVE  sent' \in Sent /\ image' \in Images /\ UNCHANGED <<fdc, got>>
  <2>1. Len(sent.bytes) \in Nat
    BY <1>1 DEF Sent
  <2>2. sent' \in Sent
    BY <1>1, <1>10, <2>1 DEF LoadDisk, Sent
  <2> QED
    BY <1>10, <2>2, DisksAssumption DEF LoadDisk, Images
<1>11. CASE UNCHANGED diskVars
  BY <1>1, <1>11 DEF diskVars
<1>12. CASE CreateCPU
  <2>1. << >> \in Seq(Byte)
    OBVIOUS
  <2> QED
    BY <1>12, <2>1, CreateTyped DEF CreateCPU
<1> QED
  BY <1>1, <1>2, <1>3, <1>4, <1>5, <1>6, <1>7, <1>8, <1>9, <1>10, <1>11, <1>12
     DEF DiskStep, Reading, Writing

LEMMA FilesTyped ==
  ASSUME Typed, Next
  PROVE  files' \in [image : {files'.image}, floppy : Images \cup {None, Garbage}]
<1>1. files \in [image : {files.image}, floppy : Images \cup {None, Garbage}]
        /\ (image = None \/ image \in Images)
  BY DEF Typed, DiskTypeOK, Images
<1>2. CASE OpenImage \/ NoFloppy \/ CloseImage
  BY <1>1, <1>2 DEF OpenImage, NoFloppy, CloseImage
<1>3. CASE OpenFloppy \/ WriteFloppy
  BY <1>1, <1>3 DEF OpenFloppy, WriteFloppy
<1>4. CASE Work \/ LoadDSKImage \/ LoadImage \/ Kill \/ CreateCPU \/ (Undefined /\ UNCHANGED fileVars)
  BY <1>1, <1>4 DEF Work, LoadDSKImage, LoadImage, Kill, CreateCPU, fileVars
<1> QED
  BY <1>2, <1>3, <1>4 DEF Next, fileVars

LEMMA TypedInductive ==
  ASSUME Typed, [Next]_storageVars
  PROVE  Typed'
<1>1. CASE Next
  <2>1. fdc' \in Fdc /\ (image' = None \/ image' \in Images) /\ sent' \in Sent /\ got' \in Seq(Byte)
    BY <1>1, StepsAreDiskSteps, DiskStepTyped
  <2>2. DiskTypeOK'
    BY <2>1 DEF DiskTypeOK, Fdc, Images
  <2> QED
    BY <1>1, <2>1, <2>2, FilesTyped DEF Typed
<1>2. CASE UNCHANGED storageVars
  BY <1>2 DEF storageVars, diskVars, Typed, DiskTypeOK
<1> QED
  BY <1>1, <1>2

LEMMA InitTyped == Init => Typed
<1> SUFFICES ASSUME Init PROVE Typed
  OBVIOUS
<1>1. Idle \in Fdc
  BY DEF Idle, Fdc, Byte
<1>2. Disks \subseteq Images /\ << >> \in Seq(Byte)
  BY DisksAssumption DEF Images
<1>3. Unsent \in Sent
  BY <1>2 DEF Unsent, Sent
<1>4. DiskTypeOK
  BY <1>1, <1>2 DEF Init, DiskInit, DiskTypeOK, Fdc, Images
<1>5. \E f \in Images \cup {None} : files = [image |-> None, floppy |-> f]
  BY <1>2 DEF Init
<1>6. files \in [image : {files.image}, floppy : Images \cup {None, Garbage}]
  BY <1>5
<1> QED
  BY <1>2, <1>3, <1>4, <1>6 DEF Init, DiskInit, Typed

\* The registers, the buffer and its positions stay in range, whatever the program and
\* the user do.
THEOREM TypeCorrect == Spec => []DiskTypeOK
<1>1. Typed => DiskTypeOK
  BY DEF Typed
<1> QED
  BY <1>1, InitTyped, TypedInductive, PTL DEF Spec

-----------------------------------------------------------------------------
(* Writing *)

\* Registers f are where write t has got to.
Progress(f, t) ==
  IF t.sector = None THEN f.wp = 0
  ELSE /\ Len(t.bytes) + f.wp = SectorSize
       /\ f.idx = t.sector * SectorSize + Len(t.bytes)

\* Disk m has the bytes of write t that went to it.
Written(t, m) ==
  t.sector # None =>
    /\ t.from <= Len(t.bytes)
    /\ \A k \in t.from + 1..Len(t.bytes) : m[t.sector * SectorSize + k - 1] = t.bytes[k]

Transfer == ~fault => Progress(fdc, sent) /\ Written(sent, image)

LEMMA RegistersOnly ==
  ASSUME Typed, Restore \/ Seek \/ ReadId \/ ReadSect \/ ReadData \/ Naming
  PROVE  /\ UNCHANGED <<image, sent, torn>>
         /\ fdc'.wp = fdc.wp /\ fdc'.idx = fdc.idx
<1>1. fdc \in Fdc
  BY DEF Typed, DiskTypeOK, Fdc
<1>2. UNCHANGED <<image, sent, torn>>
  BY DEF Restore, Seek, ReadId, ReadSect, ReadData, Naming, SetTrack, SetSector, SelectSide
<1>3. CASE Restore \/ Seek \/ Naming
  BY <1>1, <1>2, <1>3 DEF Restore, Seek, Naming, SetTrack, SetSector, SelectSide, Fdc
<1>4. CASE ReadId
  <2>1. PICK x, y, z : fdc' = [fdc EXCEPT !.buffer = x, !.blen = y, !.bp = z]
    BY <1>1, <1>4, ZenonT(30) DEF ReadId, Fdc
  <2> QED
    BY <1>1, <1>2, <2>1 DEF Fdc
<1>5. CASE ReadSect
  <2>1. CASE Readable(Place)
    <3>1. PICK x, y, z : fdc' = [fdc EXCEPT !.buffer = x, !.blen = y, !.bp = z]
      BY <1>5, <2>1 DEF ReadSect
    <3> QED
      BY <1>1, <1>2, <3>1 DEF Fdc
  <2> QED
    BY <1>2, <1>5, <2>1 DEF ReadSect
<1>6. CASE ReadData
  <2>1. PICK x : fdc' = [fdc EXCEPT !.bp = x]
    BY <1>6 DEF ReadData
  <2> QED
    BY <1>1, <1>2, <2>1 DEF Fdc
<1> QED
  BY <1>2, <1>3, <1>4, <1>5, <1>6

\* A byte the data register takes while no count lasts, or that finds no place, is not
\* part of a write; any other is the next one.
LEMMA DataSteps ==
  ASSUME Typed, Transfer, ~fault, NEW b \in Byte, WriteData(b)
  PROVE  \/ /\ UNCHANGED <<image, sent, torn>>
            /\ fdc'.wp = fdc.wp /\ fdc'.idx = fdc.idx
         \/ /\ fault' /\ UNCHANGED <<image, sent, torn>>
         \/ /\ fdc.wp > 0 /\ image # None /\ fdc.idx \in 0..DiskSize - 1
            /\ sent.sector \in Names
            /\ fdc'.wp = fdc.wp - 1 /\ fdc'.idx = fdc.idx + 1
            /\ image' = [image EXCEPT ![fdc.idx] = Inverted(b)]
            /\ SentWith(Inverted(b))
<1>1. fdc \in Fdc /\ sent \in Sent
  BY DEF Typed, DiskTypeOK, Fdc
<1>2. CASE fdc.wp = 0
  BY <1>1, <1>2 DEF WriteData, Fdc
<1>3. CASE fdc.wp > 0 /\ ~(image # None /\ fdc.idx < DiskSize)
  BY <1>1, <1>3 DEF WriteData, Fdc
<1>4. CASE fdc.wp > 0 /\ image # None /\ fdc.idx < DiskSize
  <2> DEFINE v == Inverted(b)
  <2>1. fdc' = [fdc EXCEPT !.data = v, !.idx = fdc.idx + 1, !.wp = fdc.wp - 1]
    BY <1>1, <1>4 DEF WriteData, Fdc
  <2>2. fdc'.wp = fdc.wp - 1 /\ fdc'.idx = fdc.idx + 1
    BY <1>1, <2>1 DEF Fdc
  <2>3. image' = [image EXCEPT ![fdc.idx] = v] /\ SentWith(v)
    BY <1>1, <1>4 DEF WriteData, Fdc
  <2>4. sent.sector \in Nat /\ fdc.idx = sent.sector * SectorSize + Len(sent.bytes)
          /\ Len(sent.bytes) \in Nat /\ fdc.idx \in Nat
    BY <1>1, <1>4 DEF Transfer, Progress, Fdc, Sent
  <2>5. sent.sector * SectorSize < DiskSize
    <3> DEFINE p == sent.sector * SectorSize n == Len(sent.bytes) i == fdc.idx
    <3>1. p \in Nat /\ n \in Nat /\ i = p + n /\ i < DiskSize /\ DiskSize \in Nat
      BY <1>4, <2>4, DiskIsSectors, SMTT(30)
    <3> HIDE DEF p, n, i
    <3>2. p < DiskSize
      BY <3>1
    <3> QED
      BY <3>2 DEF p
  <2>6. sent.sector \in Names
    BY <2>4, <2>5, OnDisk
  <2>7. fdc.idx \in 0..DiskSize - 1
    BY <1>4, <2>4, DiskIsSectors
  <2> QED
    BY <1>4, <2>2, <2>3, <2>6, <2>7
<1> QED
  BY <1>1, <1>2, <1>3, <1>4 DEF Fdc

LEMMA AppendFacts ==
  ASSUME sent \in Sent, NEW v \in Byte, SentWith(v)
  PROVE  /\ sent'.sector = sent.sector /\ sent'.from = sent.from
         /\ sent'.bytes = Append(sent.bytes, v)
         /\ Len(sent.bytes) \in Nat /\ Len(sent'.bytes) = Len(sent.bytes) + 1
         /\ sent'.bytes[Len(sent.bytes) + 1] = v
         /\ \A k \in 1..Len(sent.bytes) : sent'.bytes[k] = sent.bytes[k]
<1> DEFINE s == sent.bytes more == Append(s, v)
<1>1. s \in Seq(Byte)
  BY DEF Sent
<1>2. sent' = [sent EXCEPT !.bytes = more]
  BY DEF SentWith
<1>3. /\ Len(s) \in Nat /\ Len(more) = Len(s) + 1 /\ more[Len(s) + 1] = v
      /\ \A k \in 1..Len(s) : more[k] = s[k]
  <2> HIDE DEF s
  <2> QED
    BY <1>1, AppendProperties, LenProperties
<1> HIDE DEF more
<1>4. sent'.sector = sent.sector /\ sent'.from = sent.from /\ sent'.bytes = more
  BY <1>2 DEF Sent
<1> QED
  BY <1>3, <1>4 DEF more

LEMMA SendTransfers ==
  ASSUME Typed, Transfer, ~fault, NEW v \in Byte, SentWith(v),
         fdc.wp > 0, image # None, fdc.idx \in 0..DiskSize - 1,
         fdc'.wp = fdc.wp - 1, fdc'.idx = fdc.idx + 1,
         image' = [image EXCEPT ![fdc.idx] = v],
         sent.sector \in Names
  PROVE  Progress(fdc, sent)' /\ Written(sent, image)'
<1> DEFINE n == Len(sent.bytes) p == sent.sector * SectorSize
<1>1. fdc \in Fdc /\ sent \in Sent /\ image \in Images
  BY DEF Typed, DiskTypeOK, Fdc, Images
<1>2. /\ sent'.sector = sent.sector /\ sent'.from = sent.from /\ n \in Nat
      /\ Len(sent'.bytes) = n + 1 /\ sent'.bytes[n + 1] = v
      /\ \A k \in 1..n : sent'.bytes[k] = sent.bytes[k]
  BY <1>1, AppendFacts
<1>3. sent.sector \in Nat /\ sent.sector # None /\ p \in Nat /\ sent.from \in Nat
  <2>1. sent.sector \in Nat
    BY DiskIsSectors DEF Names
  <2>2. sent.from \in Nat
    BY <1>1 DEF Sent
  <2>3. p \in Nat
    BY <2>1
  <2> QED
    BY <2>1, <2>2, <2>3, NoneAssumption
<1>4. n + fdc.wp = SectorSize /\ fdc.idx = p + n
  BY <1>3 DEF Transfer, Progress
<1>5. /\ sent.from <= n
      /\ \A k \in sent.from + 1..n : image[p + k - 1] = sent.bytes[k]
  BY <1>3 DEF Transfer, Written
<1>6. Progress(fdc, sent)'
  <2> DEFINE w == fdc.wp i == fdc.idx
  <2>1. w \in Nat /\ fdc'.wp = w - 1 /\ fdc'.idx = i + 1 /\ n + w = SectorSize /\ i = p + n
    BY <1>1, <1>4 DEF Fdc
  <2>2. n + 1 + (w - 1) = SectorSize /\ i + 1 = p + (n + 1)
    <3> HIDE DEF n, p, w, i
    <3> QED
      BY <1>2, <1>3, <2>1
  <2> QED
    BY <1>2, <1>3, <2>1, <2>2 DEF Progress
<1>7. ASSUME NEW k \in sent.from + 1..n + 1
      PROVE  image'[p + k - 1] = sent'.bytes[k]
  <2> HIDE DEF n, p
  <2>1. CASE k = n + 1
    <3>1. p + k - 1 = fdc.idx
      BY <1>2, <1>3, <1>4, <2>1
    <3> QED
      BY <1>1, <1>2, <2>1, <3>1 DEF Images
  <2>2. CASE k \in sent.from + 1..n
    <3> DEFINE i == fdc.idx
    <3>1. p + k - 1 \in 0..DiskSize - 1 /\ p + k - 1 # i /\ k \in 1..n
      <4>1. i \in 0..DiskSize - 1 /\ i = p + n /\ DiskSize \in Nat /\ sent.from \in Nat
        BY <1>3, <1>4, DiskIsSectors
      <4>2. k \in Nat /\ k >= 1 /\ k <= n
        BY <1>2, <2>2, <4>1
      <4>3. p \in Nat /\ n \in Nat
        BY <1>2, <1>3
      <4> HIDE DEF i
      <4> QED
        BY ONLY <4>1, <4>2, <4>3, SMT
    <3>2. image'[p + k - 1] = image[p + k - 1]
      BY <1>1, <3>1 DEF Images
    <3> QED
      BY <1>2, <1>5, <2>2, <3>1, <3>2
  <2> QED
    BY <1>2, <1>3, <2>1, <2>2
<1>8. Written(sent, image)'
  <2>1. sent'.from <= n + 1
    BY <1>2, <1>3, <1>5
  <2>2. sent'.sector * SectorSize = p /\ Len(sent'.bytes) = n + 1 /\ sent'.from = sent.from
    BY <1>2
  <2> HIDE DEF n, p
  <2> QED
    BY <1>7, <2>1, <2>2 DEF Written
<1> QED
  BY <1>6, <1>8

LEMMA TransferInductive ==
  ASSUME Typed, Transfer, DiskStep
  PROVE  Transfer'
<1>1. fdc \in Fdc /\ sent \in Sent
  BY DEF Typed, DiskTypeOK, Fdc
<1>2. ASSUME ~fault, Restore \/ Seek \/ ReadId \/ ReadSect \/ ReadData \/ Naming
      PROVE  Transfer'
  BY <1>2, RegistersOnly DEF Transfer, Progress, Written
<1>3. CASE WriteSect
  <2>1. /\ sent'.sector = Here /\ sent'.bytes = << >> /\ sent'.from = 0
        /\ fdc'.wp = SectorSize /\ fdc'.idx = Place
    BY <1>1, <1>3 DEF WriteSect, Fdc
  <2>2. Here \in Nat /\ Place = Here * SectorSize
    BY <1>1, PlaceFacts
  <2>3. Len(sent'.bytes) = 0 /\ sent'.sector # None
    BY <2>1, <2>2, NoneAssumption
  <2>4. Progress(fdc, sent)'
    <3>1. 0 + SectorSize = SectorSize /\ Here * SectorSize = Here * SectorSize + 0
      BY <2>2
    <3> QED
      BY <2>1, <2>2, <2>3, <3>1 DEF Progress
  <2>5. Written(sent, image)'
    BY <2>1, <2>3 DEF Written
  <2> QED
    BY <2>4, <2>5 DEF Transfer
<1>4. ASSUME ~fault, NEW b \in Data, WriteData(Inverted(b))
      PROVE  Transfer'
  <2> DEFINE c == Inverted(b)
  <2>1. c \in Byte /\ Inverted(c) \in Byte
    BY InvertedFacts DEF Byte
  <2> HIDE DEF c
  <2>2. \/ /\ UNCHANGED <<image, sent, torn>>
           /\ fdc'.wp = fdc.wp /\ fdc'.idx = fdc.idx
        \/ /\ fault' /\ UNCHANGED <<image, sent, torn>>
        \/ /\ fdc.wp > 0 /\ image # None /\ fdc.idx \in 0..DiskSize - 1
           /\ sent.sector \in Names
           /\ fdc'.wp = fdc.wp - 1 /\ fdc'.idx = fdc.idx + 1
           /\ image' = [image EXCEPT ![fdc.idx] = Inverted(c)]
           /\ SentWith(Inverted(c))
    BY <1>4, <2>1, DataSteps DEF c
  <2>3. CASE /\ UNCHANGED <<image, sent, torn>>
             /\ fdc'.wp = fdc.wp /\ fdc'.idx = fdc.idx
    BY <1>4, <2>3 DEF Transfer, Progress, Written
  <2>4. CASE fault'
    BY <2>4 DEF Transfer
  <2>5. CASE /\ fdc.wp > 0 /\ image # None /\ fdc.idx \in 0..DiskSize - 1
             /\ sent.sector \in Names
             /\ fdc'.wp = fdc.wp - 1 /\ fdc'.idx = fdc.idx + 1
             /\ image' = [image EXCEPT ![fdc.idx] = Inverted(c)]
             /\ SentWith(Inverted(c))
    BY <1>4, <2>1, <2>5, SendTransfers DEF Transfer
  <2> QED
    BY <2>2, <2>3, <2>4, <2>5
<1>5. ASSUME ~fault, NEW d \in Disks, LoadDisk(d)
      PROVE  Transfer'
  <2>1. /\ sent'.sector = sent.sector /\ sent'.bytes = sent.bytes
        /\ sent'.from = Len(sent.bytes) /\ fdc' = fdc
    BY <1>1, <1>5 DEF LoadDisk, Sent
  <2>2. Len(sent.bytes) \in Nat
    BY <1>1 DEF Sent
  <2>3. Progress(fdc, sent)'
    BY <1>5, <2>1 DEF Transfer, Progress
  <2>4. Written(sent, image)'
    BY <2>1, <2>2 DEF Written
  <2> QED
    BY <2>3, <2>4 DEF Transfer
<1>6. CASE CreateCPU
  <2>1. fdc'.wp = 0 /\ sent'.sector = None
    BY <1>6 DEF CreateCPU, Idle, Unsent
  <2> QED
    BY <2>1 DEF Transfer, Progress, Written
<1>7. CASE UNCHANGED diskVars
  BY <1>7 DEF diskVars, Transfer, Progress, Written
<1> QED
  BY <1>2, <1>3, <1>4, <1>5, <1>6, <1>7 DEF DiskStep, Reading, Writing

LEMMA Invariant == Spec => [](Typed /\ Transfer)
<1>1. Init => Transfer
  BY DEF Init, DiskInit, Idle, Unsent, Transfer, Progress, Written
<1>2. Typed /\ Transfer /\ [Next]_storageVars => Transfer'
  BY StepsAreDiskSteps, TransferInductive
     DEF storageVars, diskVars, Transfer, Progress, Written
<1> QED
  BY <1>1, <1>2, InitTyped, TypedInductive, PTL DEF Spec

\* While a write lasts, the next byte goes behind those sent, into the sector named when
\* it began: whatever is done to the registers, and whichever disks are inserted.
THEOREM WritesStayInSector == Spec => []InTransfer
<1>1. Typed /\ Transfer => InTransfer
  BY DEF Transfer, Progress, InTransfer
<1> QED
  BY <1>1, Invariant, PTL

-----------------------------------------------------------------------------
(* Reading *)

ReadBack ==
  asked \notin {None, Partial} =>
    /\ fdc.blen = SectorSize /\ fdc.bp = Len(got) /\ fdc.buffer = asked
    /\ \A k \in 1..Len(got) : got[k] = asked[k]

LEMMA BufferKept ==
  ASSUME Typed,
         \/ Restore \/ Seek \/ Naming
         \/ \E b \in Data : WriteData(Inverted(b))
         \/ \E d \in Disks : LoadDisk(d)
  PROVE  /\ UNCHANGED <<asked, got>>
         /\ fdc'.blen = fdc.blen /\ fdc'.bp = fdc.bp /\ fdc'.buffer = fdc.buffer
<1>1. fdc \in Fdc
  BY DEF Typed, DiskTypeOK, Fdc
<1>2. UNCHANGED <<asked, got>>
  BY DEF Restore, Seek, Naming, SetTrack, SetSector, SelectSide, WriteData, LoadDisk
<1>3. CASE Restore \/ Seek \/ Naming
  BY <1>1, <1>2, <1>3 DEF Restore, Seek, Naming, SetTrack, SetSector, SelectSide, Fdc
<1>4. ASSUME NEW b \in Data, WriteData(Inverted(b))
      PROVE  fdc'.blen = fdc.blen /\ fdc'.bp = fdc.bp /\ fdc'.buffer = fdc.buffer
  <2>1. PICK x, y, z : fdc' = [fdc EXCEPT !.data = x, !.idx = y, !.wp = z]
    BY <1>4 DEF WriteData
  <2> QED
    BY <1>1, <2>1 DEF Fdc
<1>5. CASE \E d \in Disks : LoadDisk(d)
  BY <1>2, <1>5 DEF LoadDisk
<1> QED
  BY <1>2, <1>3, <1>4, <1>5

LEMMA ReadBackInductive ==
  ASSUME Typed, ReadBack, DiskStep
  PROVE  ReadBack'
<1>1. fdc \in Fdc /\ got \in Seq(Byte)
  BY DEF Typed, DiskTypeOK, Fdc
<1>2. CASE \/ Restore \/ Seek \/ Naming
           \/ \E b \in Data : WriteData(Inverted(b))
           \/ \E d \in Disks : LoadDisk(d)
  BY <1>2, BufferKept DEF ReadBack
<1>3. CASE ReadId \/ CreateCPU
  BY <1>3 DEF ReadId, CreateCPU, ReadBack
<1>4. CASE ReadSect
  <2>1. CASE Readable(Place)
    <3> DEFINE bytes == Bytes(Place) zero == 0
    <3>1. /\ fdc' = [fdc EXCEPT !.buffer = bytes, !.blen = SectorSize, !.bp = zero]
          /\ asked' = Partial \/ asked' = bytes
          /\ got' = << >>
      BY <1>4, <2>1 DEF ReadSect
    <3> HIDE DEF bytes, zero
    <3>2. fdc'.blen = SectorSize /\ fdc'.bp = zero /\ fdc'.buffer = bytes
      BY <1>1, <3>1 DEF Fdc
    <3> QED
      BY <3>1, <3>2 DEF ReadBack, zero
  <2> QED
    BY <1>4, <2>1 DEF ReadSect, ReadBack
<1>5. CASE ReadData
  <2> DEFINE n == fdc.bp + 1 v == Inverted(Inverted(fdc.buffer[fdc.bp + 1]))
  <2>1. n \in 1..SectorSize /\ fdc.bp \in Nat
    BY <1>1, <1>5 DEF ReadData, Fdc
  <2>2. fdc' = [fdc EXCEPT !.bp = n] /\ asked' = asked
    BY <1>5 DEF ReadData
  <2>3. fdc'.blen = fdc.blen /\ fdc'.bp = n /\ fdc'.buffer = fdc.buffer
    <3> HIDE DEF n
    <3> QED
      BY <1>1, <2>2 DEF Fdc
  <2>4. SUFFICES ASSUME asked \notin {None, Partial}
                 PROVE  ReadBack'
    BY <2>2 DEF ReadBack
  <2>5. v = asked[n] /\ v \in Byte
    <3>1. fdc.buffer[n] \in Byte
      BY <1>1, <2>1 DEF Fdc
    <3>2. fdc.buffer = asked
      BY <2>4 DEF ReadBack
    <3> QED
      BY <3>1, <3>2, InvertedFacts
  <2>6. got' = Append(got, v)
    BY <1>5, <2>4 DEF ReadData, GotWith
  <2>7. fdc.bp = Len(got) /\ \A k \in 1..Len(got) : got[k] = asked[k]
    BY <2>4 DEF ReadBack
  <2>8. /\ Len(got') = n
        /\ \A k \in 1..n : got'[k] = asked[k]
    <3>1. n = Len(got) + 1
      BY <2>7
    <3> HIDE DEF n, v
    <3>2. /\ Len(got') = Len(got) + 1 /\ got'[Len(got) + 1] = v /\ Len(got) \in Nat
          /\ \A k \in 1..Len(got) : got'[k] = got[k]
      BY <1>1, <2>5, <2>6, AppendProperties, LenProperties
    <3>3. ASSUME NEW k \in 1..n PROVE got'[k] = asked[k]
      <4>1. k = Len(got) + 1 \/ k \in 1..Len(got)
        BY <3>1, <3>2
      <4> QED
        BY <2>5, <2>7, <3>1, <3>2, <4>1
    <3> QED
      BY <3>1, <3>2, <3>3
  <2>9. fdc.blen = SectorSize /\ fdc.buffer = asked
    BY <2>4 DEF ReadBack
  <2> HIDE DEF n, v
  <2> QED
    BY <2>2, <2>3, <2>8, <2>9 DEF ReadBack
<1>6. CASE WriteSect
  <2>1. UNCHANGED <<asked, got>>
    BY <1>6 DEF WriteSect
  <2>2. PICK x, y : fdc' = [fdc EXCEPT !.idx = x, !.blen = SectorSize, !.wp = y]
    BY <1>6 DEF WriteSect
  <2>3. fdc'.blen = SectorSize /\ fdc'.bp = fdc.bp /\ fdc'.buffer = fdc.buffer
    BY <1>1, <2>2 DEF Fdc
  <2> QED
    BY <2>1, <2>3 DEF ReadBack
<1>7. CASE UNCHANGED diskVars
  BY <1>7 DEF diskVars, ReadBack
<1> QED
  BY <1>2, <1>3, <1>4, <1>5, <1>6, <1>7 DEF DiskStep, Reading, Writing

\* What the data register gives after READ SECTOR are the bytes of the sector in order,
\* even when a write is begun, and the disk changed, in between.
THEOREM ReadsAreOrdered == Spec => []ReadsInOrder
<1>1. Init => ReadBack
  BY DEF Init, DiskInit, ReadBack
<1>2. Typed /\ ReadBack /\ [Next]_storageVars => ReadBack'
  BY StepsAreDiskSteps, ReadBackInductive DEF storageVars, diskVars, ReadBack
<1>3. Typed /\ ReadBack => ReadsInOrder
  <2> SUFFICES ASSUME Typed, ReadBack, asked \notin {None, Partial}
               PROVE  Len(got) <= SectorSize /\ \A k \in 1..Len(got) : got[k] = asked[k]
    BY DEF ReadsInOrder
  <2>1. fdc.bp \in 0..SectorSize
    BY DEF Typed, DiskTypeOK
  <2> QED
    BY <2>1 DEF ReadBack
<1> QED
  BY <1>1, <1>2, <1>3, InitTyped, TypedInductive, PTL DEF Spec

-----------------------------------------------------------------------------
(* Saving *)

\* The files hold the last undisturbed save, and a process just started has its disk.
Backup ==
  /\ saving # "no" => up /\ kept = None
  /\ saving = "close" /\ quiet /\ image # None => files.floppy = image
  /\ kept # None =>
       /\ files.image = kept.ram /\ files.floppy = kept.disk /\ kept.disk \in Images
       /\ fresh => image = kept.disk

LEMMA BackupInductive ==
  ASSUME Typed, Backup, Next
  PROVE  Backup'
<1>1. /\ files \in [image : {files.image}, floppy : Images \cup {None, Garbage}]
      /\ image = None \/ image \in Images
  BY DEF Typed, DiskTypeOK, Images
<1>2. CASE OpenImage \/ OpenFloppy \/ NoFloppy
  BY <1>2 DEF OpenImage, OpenFloppy, NoFloppy, Step, diskVars, Backup
<1>3. CASE WriteFloppy
  BY <1>1, <1>3 DEF WriteFloppy, Step, diskVars, Backup
<1>4. CASE CloseImage
  <2>1. kept = None /\ saving = "close" /\ saving' = "no" /\ image' = image
    BY <1>4 DEF CloseImage, Step, diskVars, Backup
  <2>2. files'.image = saved /\ files'.floppy = files.floppy
    BY <1>1, <1>4 DEF CloseImage
  <2>3. CASE quiet /\ image # None
    <3>1. kept' = [ram |-> saved, disk |-> image] /\ files.floppy = image /\ image \in Images
      BY <1>1, <1>4, <2>1, <2>3 DEF CloseImage, Backup
    <3> QED
      BY <2>1, <2>2, <3>1 DEF Backup
  <2>4. CASE ~(quiet /\ image # None)
    BY <1>4, <2>1, <2>4 DEF CloseImage, Backup
  <2> QED
    BY <2>3, <2>4
<1>5. CASE Work \/ LoadDSKImage \/ LoadImage \/ Kill
  BY <1>5 DEF Work, LoadDSKImage, LoadImage, Kill, fileVars, diskVars, Backup
<1>6. CASE CreateCPU
  <2>1. UNCHANGED <<saving, saved, files, kept, quiet>>
    BY <1>6 DEF CreateCPU, fileVars
  <2>2. saving = "no"
    BY <1>6 DEF CreateCPU, Backup
  <2>3. kept # None => image' = kept.disk
    BY <1>6, GarbageAssumption DEF CreateCPU, Backup, Images
  <2> QED
    BY <2>1, <2>2, <2>3 DEF Backup
<1>7. CASE Undefined /\ UNCHANGED <<up, ram, quiet, fresh, fileVars>>
  BY <1>7 DEF Undefined, diskVars, fileVars, Backup
<1> QED
  BY <1>2, <1>3, <1>4, <1>5, <1>6, <1>7 DEF Next

\* An image restored right after a start brings back the machine and the disk of the
\* last save the machine stood still for.
THEOREM SavedIsRestored == Spec => RestoresSaved
<1>1. Init => Backup
  BY DEF Init, Backup
<1>2. Typed /\ Backup /\ [Next]_storageVars => Backup'
  BY BackupInductive DEF storageVars, diskVars, Backup
<1>3. Backup => (LoadImage /\ fresh /\ kept # None => ram' = kept.ram /\ image' = kept.disk)
  BY DEF LoadImage, diskVars, Backup
<1> QED
  BY <1>1, <1>2, <1>3, InitTyped, TypedInductive, PTL DEF Spec, RestoresSaved

-----------------------------------------------------------------------------
(* The controller implements the store of sectors *)

Content == [1..SectorSize -> Byte]
Held(s) == IF s \in torn THEN Partial ELSE Bytes(s * SectorSize)
Store == IF image = None THEN None ELSE [s \in Names |-> Held(s)]
Moved == IF sent.sector = None THEN None
         ELSE [sector |-> sent.sector, bytes |-> sent.bytes, from |-> sent.from]

LEMMA StoreFacts ==
  ASSUME Typed, image # None
  PROVE  /\ Store # None /\ Store = [s \in Names |-> Held(s)]
         /\ \A s \in Names : Bytes(s * SectorSize) \in Content
<1>1. image \in Images
  BY DEF Typed, DiskTypeOK, Images
<1>2. ASSUME NEW s \in Names
      PROVE  Bytes(s * SectorSize) \in Content
  <2>1. ASSUME NEW k \in 1..SectorSize PROVE image[s * SectorSize + k - 1] \in Byte
    <3>1. s * SectorSize + k - 1 \in 0..DiskSize - 1
      BY SectorBounds
    <3> QED
      BY <1>1, <3>1 DEF Images
  <2> QED
    BY <2>1 DEF Bytes, Content
<1>3. [s \in Names |-> Held(s)] \in [Names -> Content \cup {Partial}]
  BY <1>2 DEF Held
<1> QED
  BY <1>2, <1>3, NoneAssumption DEF Store, Content, Names

LEMMA MovedFacts ==
  ASSUME sent \in Sent, sent.sector # None
  PROVE  Moved # None /\ Moved.sector = sent.sector /\ Moved.bytes = sent.bytes
           /\ Moved.from = sent.from
<1>1. Moved \in [sector : Nat, bytes : Seq(Byte), from : Nat]
  BY DEF Moved, Sent
<1> QED
  BY <1>1, NoneAssumption DEF Moved

Registers == [side |-> fdc.side, track |-> fdc.track, sector |-> fdc.sector]

LEMMA Stutters ==
  ASSUME UNCHANGED <<image, sent, torn, asked, fdc>>
  PROVE  UNCHANGED StoreOf!storeVars
BY DEF StoreOf!storeVars, Bytes

\* Whatever leaves disk, transfer and buffer alone may name another sector.
LEMMA RegistersName ==
  ASSUME fdc' \in Fdc, UNCHANGED <<image, sent, torn, asked>>
  PROVE  StoreOf!Name
<1>1. Registers' \in [side : 0..Sides - 1, track : Byte, sector : Byte]
  BY DEF Fdc, Registers
<1>2. Store' = Store /\ Moved' = Moved
  BY DEF Store, Moved, Held, Bytes
<1> QED
  BY <1>1, <1>2 DEF StoreOf!Name, Registers, Store, Moved, Names, Held

LEMMA ReadLoads ==
  ASSUME Typed, ReadSect, Readable(Place)
  PROVE  StoreOf!Load
<1>1. fdc \in Fdc
  BY DEF Typed, DiskTypeOK, Fdc
<1>2. Here \in Nat /\ Place = Here * SectorSize /\ Place \in Nat
  BY <1>1, PlaceFacts
<1>3. image # None /\ Here * SectorSize < DiskSize
  BY <1>2, DiskIsSectors DEF Readable
<1>4. Here \in Names
  BY <1>2, <1>3, OnDisk
<1>5. asked' = Held(Here) /\ UNCHANGED <<image, sent, torn>>
  BY <1>2 DEF ReadSect, Held
<1>6. Store # None /\ Store[Here] = Held(Here)
  BY <1>3, <1>4, StoreFacts
<1>7. Store' = Store /\ Moved' = Moved
  BY <1>5 DEF Store, Moved, Held, Bytes
<1>8. StoreOf!Sector = Here /\ Registers' = Registers
  BY <1>1 DEF ReadSect, StoreOf!Sector, Here, Registers, Fdc
<1> QED
  BY <1>4, <1>5, <1>6, <1>7, <1>8
     DEF StoreOf!Load, StoreOf!SectorNames, Registers, Store, Moved, Names, Held

LEMMA WriteOpens ==
  ASSUME Typed, WriteSect
  PROVE  StoreOf!Open
<1>1. fdc \in Fdc
  BY DEF Typed, DiskTypeOK, Fdc
<1>2. Here # None
  BY <1>1, PlaceFacts, NoneAssumption
<1>3. Moved' = [sector |-> Here, bytes |-> << >>, from |-> 0]
  BY <1>2 DEF WriteSect, Moved
<1>4. UNCHANGED <<image, torn, asked>>
  BY DEF WriteSect
<1>5. Store' = Store
  BY <1>4 DEF Store, Held, Bytes
<1>6. StoreOf!Sector = Here /\ Registers' = Registers
  BY <1>1 DEF WriteSect, StoreOf!Sector, Here, Registers, Fdc
<1> QED
  BY <1>3, <1>4, <1>5, <1>6 DEF StoreOf!Open, Registers, Store, Moved, Names, Held

LEMMA AnyDiskStored ==
  ASSUME image' = None \/ image' \in Images, torn' = {}
  PROVE  Store' \in [Names -> Content] \cup {None}
<1>1. CASE image' \in Images
  <2>1. ASSUME NEW s \in Names PROVE Bytes(s * SectorSize)' \in Content
    <3>1. ASSUME NEW k \in 1..SectorSize PROVE image'[s * SectorSize + k - 1] \in Byte
      <4>1. s * SectorSize + k - 1 \in 0..DiskSize - 1
        BY SectorBounds
      <4> QED
        BY <1>1, <4>1 DEF Images
    <3> QED
      BY <3>1 DEF Bytes, Content
  <2> QED
    BY <2>1 DEF Store, Held
<1> QED
  BY <1>1 DEF Store

\* A byte that is the next of a write, and has a place on the disk.
Sends(v) ==
  /\ fdc.wp > 0 /\ image # None /\ fdc.idx \in 0..DiskSize - 1
  /\ sent.sector \in Names
  /\ fdc'.wp = fdc.wp - 1 /\ fdc'.idx = fdc.idx + 1
  /\ image' = [image EXCEPT ![fdc.idx] = v]
  /\ SentWith(v)

LEMMA SentBytes ==
  ASSUME Typed, Transfer, ~fault, NEW v \in Byte, Sends(v)
  PROVE  /\ fdc.idx = sent.sector * SectorSize + Len(sent.bytes)
         /\ Len(sent.bytes) \in 0..SectorSize - 1
         /\ sent.sector \in Nat /\ sent.sector # None
<1>1. fdc \in Fdc /\ sent \in Sent
  BY DEF Typed, DiskTypeOK, Fdc
<1>2. sent.sector \in Nat /\ sent.sector # None
  <2>1. sent.sector \in Names
    BY DEF Sends
  <2>2. sent.sector \in Nat
    BY <2>1, DiskIsSectors DEF Names
  <2> QED
    BY <2>2, NoneAssumption
<1>3. Len(sent.bytes) + fdc.wp = SectorSize /\ fdc.idx = sent.sector * SectorSize + Len(sent.bytes)
  BY <1>2 DEF Transfer, Progress
<1>4. Len(sent.bytes) \in Nat /\ fdc.wp \in Nat /\ fdc.wp > 0
  BY <1>1 DEF Sent, Fdc, Sends
<1> QED
  BY <1>2, <1>3, <1>4

\* The other sectors keep their bytes.
LEMMA OthersKept ==
  ASSUME Typed, Transfer, ~fault, NEW v \in Byte, Sends(v),
         NEW s \in Names, s # sent.sector
  PROVE  Held(s)' = Held(s)
<1> DEFINE t == sent.sector n == Len(sent.bytes)
<1>1. image \in Images
  BY DEF Typed, DiskTypeOK, Images, Sends
<1>2. fdc.idx = t * SectorSize + n /\ n \in 0..SectorSize - 1 /\ t \in Nat /\ s \in Nat
  BY SentBytes, DiskIsSectors DEF Names
<1>3. ASSUME NEW k \in 1..SectorSize
      PROVE  image'[s * SectorSize + k - 1] = image[s * SectorSize + k - 1]
  <2>1. s * SectorSize + k - 1 \in 0..DiskSize - 1
    BY SectorBounds
  <2> DEFINE i == s * SectorSize + (k - 1) j == t * SectorSize + n
  <2>2. i # j
    <3> HIDE DEF t, n
    <3>1. CASE s < t
      <4>1. k - 1 \in 0..SectorSize - 1
        OBVIOUS
      <4>2. i < j
        BY <1>2, <3>1, <4>1, SectorsApart
      <4>3. s * SectorSize \in Nat /\ t * SectorSize \in Nat
        BY <1>2
      <4> QED
        BY <1>2, <4>1, <4>2, <4>3
    <3>2. CASE t < s
      <4>1. k - 1 \in 0..SectorSize - 1
        OBVIOUS
      <4>2. j < i
        BY <1>2, <3>2, <4>1, SectorsApart
      <4>3. s * SectorSize \in Nat /\ t * SectorSize \in Nat
        BY <1>2
      <4> QED
        BY <1>2, <4>1, <4>2, <4>3
    <3>3. s # t
      BY DEF t
    <3> QED
      BY <1>2, <3>1, <3>2, <3>3
  <2>3. s * SectorSize + k - 1 = i /\ fdc.idx = j
    <3>1. s * SectorSize \in Nat
      BY <1>2
    <3> QED
      BY <1>2, <3>1
  <2>4. image' = [image EXCEPT ![fdc.idx] = v]
    BY DEF Sends
  <2> HIDE DEF i, j
  <2> QED
    BY <1>1, <2>1, <2>2, <2>3, <2>4 DEF Images
<1>4. Bytes(s * SectorSize)' = Bytes(s * SectorSize)
  BY <1>3 DEF Bytes
<1>5. s \in torn' <=> s \in torn
  BY DEF Sends, SentWith
<1> QED
  BY <1>4, <1>5 DEF Held

\* The sector being written has no content until its last byte, and then what was sent.
LEMMA WrittenHeld ==
  ASSUME Typed, Transfer, ~fault, NEW v \in Byte, Sends(v), NEW s, s = sent.sector
  PROVE  Held(s)' = IF Len(sent'.bytes) = SectorSize /\ sent.from = 0
                    THEN sent'.bytes ELSE Partial
<1>1. sent \in Sent
  BY DEF Typed
<1>2. sent'.sector = s /\ sent'.from = sent.from /\ sent'.bytes = Append(sent.bytes, v)
  BY <1>1, AppendFacts DEF Sends
<1>3. torn' = IF Len(sent'.bytes) = SectorSize /\ sent.from = 0 THEN torn \ {s}
              ELSE torn \cup {s}
  BY <1>2 DEF Sends, SentWith
<1>4. CASE Len(sent'.bytes) = SectorSize /\ sent.from = 0
  <2>1. sent'.bytes \in Seq(Byte)
    BY <1>1, <1>2 DEF Sent
  <2>2. Written(sent, image)'
    BY SendTransfers DEF Sends
  <2>3. sent'.sector # None
    BY <1>2, SentBytes
  <2>4. \A k \in 1..SectorSize : image'[s * SectorSize + k - 1] = sent'.bytes[k]
    BY <1>2, <1>4, <2>2, <2>3 DEF Written
  <2>5. sent'.bytes = [k \in 1..SectorSize |-> sent'.bytes[k]]
    <3> DEFINE q == sent'.bytes
    <3>1. q \in Seq(Byte) /\ Len(q) = SectorSize
      BY <1>4, <2>1
    <3> HIDE DEF q
    <3>2. q \in [1..SectorSize -> Byte]
      BY <3>1, LenProperties
    <3> QED
      BY <3>2 DEF q
  <2>6. Bytes(s * SectorSize)' = sent'.bytes
    BY <2>4, <2>5 DEF Bytes
  <2> QED
    BY <1>2, <1>3, <1>4, <2>6 DEF Held
<1>5. CASE ~(Len(sent'.bytes) = SectorSize /\ sent.from = 0)
  BY <1>2, <1>3, <1>5 DEF Held
<1> QED
  BY <1>4, <1>5

LEMMA SendSends ==
  ASSUME Typed, Transfer, ~fault, NEW v \in Byte, Sends(v), asked' = asked,
         Registers' = Registers
  PROVE  StoreOf!Send(v)
<1> DEFINE bytes == Append(sent.bytes, v)
<1>0. PICK s : s = sent.sector
  OBVIOUS
<1>1. sent \in Sent /\ image \in Images
  BY DEF Typed, DiskTypeOK, Images, Sends
<1>2. s # None /\ Len(sent.bytes) < SectorSize /\ s \in Names /\ image # None
  <2>1. Len(sent.bytes) \in 0..SectorSize - 1 /\ sent.sector # None
    BY SentBytes
  <2>2. sent.sector \in Names /\ image # None
    BY DEF Sends
  <2> QED
    BY <1>0, <2>1, <2>2
<1>3. Moved # None /\ Moved.sector = s /\ Moved.bytes = sent.bytes /\ Moved.from = sent.from
  BY <1>0, <1>1, <1>2, MovedFacts
<1>4. sent'.sector = s /\ sent'.from = sent.from /\ sent'.bytes = bytes
  BY <1>0, <1>1, AppendFacts DEF Sends
<1>5. Moved' = [Moved EXCEPT !.bytes = bytes]
  <2>1. Moved = [sector |-> s, bytes |-> sent.bytes, from |-> sent.from]
    BY <1>0, <1>2 DEF Moved
  <2>2. Moved' = [sector |-> s, bytes |-> bytes, from |-> sent.from]
    BY <1>2, <1>4 DEF Moved
  <2> HIDE DEF bytes
  <2> QED
    BY <2>1, <2>2
<1>6. Store # None /\ Store = [x \in Names |-> Held(x)]
  BY <1>2, StoreFacts
<1>7. image' # None
  <2>1. image' \in Images
    BY <1>1 DEF Sends, Images
  <2> QED
    BY <2>1, NoneAssumption DEF Images
<1>8. Store' = [Store EXCEPT ![s] = IF Len(bytes) = SectorSize /\ Moved.from = 0
                                    THEN bytes ELSE Partial]
  <2> DEFINE c == IF Len(bytes) = SectorSize /\ sent.from = 0 THEN bytes ELSE Partial
  <2>1. Store' = [x \in Names |-> Held(x)']
    BY <1>7 DEF Store
  <2>2. ASSUME NEW x \in Names, x # s PROVE Held(x)' = Held(x)
    BY <1>0, <2>2, OthersKept
  <2>3. Held(s)' = c
    BY <1>0, <1>4, WrittenHeld
  <2>4. ASSUME NEW x \in Names PROVE Held(x)' = IF x = s THEN c ELSE Held(x)
    <3>1. CASE x = s
      BY <2>3, <3>1
    <3>2. CASE x # s
      BY <2>2, <3>2
    <3> QED
      BY <3>1, <3>2
  <2>5. Store' = [x \in Names |-> IF x = s THEN c ELSE Held(x)]
    BY <2>1, <2>4
  <2> HIDE DEF c
  <2>6. [Store EXCEPT ![s] = c] = [x \in Names |-> IF x = s THEN c ELSE Held(x)]
    BY <1>6
  <2> QED
    BY <1>3, <2>5, <2>6 DEF c
<1>9. /\ Moved # None /\ Len(Moved.bytes) < SectorSize
      /\ Store # None /\ Moved.sector \in Names
      /\ Moved' = [Moved EXCEPT !.bytes = Append(Moved.bytes, v)]
      /\ Store' = [Store EXCEPT ![Moved.sector] =
                     IF Len(Append(Moved.bytes, v)) = SectorSize /\ Moved.from = 0
                     THEN Append(Moved.bytes, v) ELSE Partial]
      /\ asked' = asked
  BY <1>2, <1>3, <1>5, <1>6, <1>8
<1> QED
  BY <1>9 DEF StoreOf!Send, StoreOf!SectorNames, Registers, Store, Moved, Names, Held

LEMMA StepsImplement ==
  ASSUME Typed, Transfer, DiskStep
  PROVE  [StoreOf!StoreNext]_StoreOf!storeVars
<1>0. fdc' \in Fdc
  BY DiskStepTyped
<1>1. fdc \in Fdc /\ sent \in Sent
  BY DEF Typed, DiskTypeOK, Fdc
<1>2. CASE Restore \/ Seek \/ Naming \/ ReadData
  <2>1. UNCHANGED <<image, sent, torn>>
    BY <1>2, RegistersOnly
  <2>2. asked' = asked
    BY <1>2, BufferKept DEF ReadData
  <2> QED
    BY <1>0, <2>1, <2>2, RegistersName DEF StoreOf!StoreNext
<1>3. CASE ReadId
  <2>1. Registers' = Registers
    BY <1>1, <1>3 DEF ReadId, Registers, Fdc
  <2>2. StoreOf!Forget
    BY <1>3, <2>1 DEF ReadId, StoreOf!Forget, Registers, Bytes
  <2> QED
    BY <2>2 DEF StoreOf!StoreNext
<1>4. CASE ReadSect
  <2>1. CASE Readable(Place)
    BY <1>4, <2>1, ReadLoads DEF StoreOf!StoreNext
  <2>2. CASE ~Readable(Place)
    BY <1>4, <2>2, Stutters DEF ReadSect
  <2> QED
    BY <2>1, <2>2
<1>5. CASE WriteSect
  BY <1>5, WriteOpens DEF StoreOf!StoreNext
<1>6. ASSUME ~fault, NEW b \in Data, WriteData(Inverted(b))
      PROVE  [StoreOf!StoreNext]_StoreOf!storeVars
  <2> DEFINE c == Inverted(b) v == Inverted(c)
  <2>1. c \in Byte /\ v \in Byte
    BY InvertedFacts DEF Byte
  <2>2. WriteData(c) /\ asked' = asked
    BY <1>6 DEF WriteData
  <2> HIDE DEF c
  <2>3. UNCHANGED <<image, sent, torn>> \/ Sends(v)
    BY <1>6, <2>1, <2>2, DataSteps DEF Sends
  <2> HIDE DEF v
  <2>4. fdc' \in Fdc /\ Registers' = Registers
    BY <1>1, <2>1, <2>2, WriteDataTyped DEF WriteData, Registers, Fdc
  <2>5. CASE UNCHANGED <<image, sent, torn>>
    BY <2>2, <2>5, <2>4, RegistersName DEF StoreOf!StoreNext
  <2>6. CASE Sends(v)
    <3>1. StoreOf!Send(v)
      BY <1>6, <2>1, <2>2, <2>6, <2>4, SendSends
    <3> QED
      BY <2>1, <3>1 DEF StoreOf!StoreNext
  <2> QED
    BY <2>3, <2>5, <2>6
<1>7. ASSUME NEW d \in Disks, LoadDisk(d)
      PROVE  StoreOf!Insert
  <2>1. /\ image' \in Images /\ torn' = {} /\ asked' = asked
        /\ sent' = [sent EXCEPT !.from = Len(sent.bytes)]
    BY <1>7, DisksAssumption DEF LoadDisk, Images
  <2>2. /\ sent'.sector = sent.sector /\ sent'.bytes = sent.bytes
        /\ sent'.from = Len(sent.bytes)
    BY <1>1, <2>1 DEF Sent
  <2>3. Moved' = IF Moved = None THEN None ELSE [Moved EXCEPT !.from = Len(Moved.bytes)]
    <3>1. CASE sent.sector = None
      BY <2>2, <3>1 DEF Moved
    <3>2. CASE sent.sector # None
      <4>1. Moved # None /\ Moved.bytes = sent.bytes
        BY <1>1, <3>2, MovedFacts
      <4> DEFINE n == Len(sent.bytes)
      <4>2. Moved = [sector |-> sent.sector, bytes |-> sent.bytes, from |-> sent.from]
        BY <3>2 DEF Moved
      <4>3. Moved' = [sector |-> sent.sector, bytes |-> sent.bytes, from |-> n]
        BY <2>2, <3>2 DEF Moved
      <4> HIDE DEF n
      <4>4. Moved' = [Moved EXCEPT !.from = n]
        BY <4>2, <4>3
      <4> QED
        BY <4>1, <4>4 DEF n
    <3> QED
      BY <3>1, <3>2
  <2>4. Store' \in [Names -> Content] \cup {None} /\ Registers' = Registers
    BY <1>7, <2>1, AnyDiskStored DEF LoadDisk, Registers
  <2> QED
    BY <2>1, <2>3, <2>4
       DEF StoreOf!Insert, StoreOf!AnyDisk, StoreOf!SectorNames, StoreOf!Content,
           Registers, Store, Moved, Names, Held, Content
<1>8. CASE CreateCPU
  <2>1. Moved' = None /\ torn' = {} /\ asked' = None
    BY <1>8 DEF CreateCPU, Unsent, Moved
  <2>2. Store' \in [Names -> Content] \cup {None}
    BY <1>8, <2>1, CreateTyped, AnyDiskStored
  <2>3. Registers' = [side |-> 0, track |-> 0, sector |-> 0]
    BY <1>8 DEF CreateCPU, Idle, Registers
  <2>4. StoreOf!Restart
    BY <2>1, <2>2, <2>3
       DEF StoreOf!Restart, StoreOf!First, StoreOf!AnyDisk, StoreOf!SectorNames, StoreOf!Content,
           Registers, Store, Moved, Names, Held, Content
  <2> QED
    BY <2>4 DEF StoreOf!StoreNext
<1>9. CASE UNCHANGED diskVars
  BY <1>9, Stutters DEF diskVars
<1>10. \A d \in Disks : LoadDisk(d) => StoreOf!StoreNext
  BY <1>7 DEF StoreOf!StoreNext
<1> QED
  BY <1>2, <1>3, <1>4, <1>5, <1>6, <1>8, <1>9, <1>10 DEF DiskStep, Reading, Writing

\* For any geometry, the controller with its unchecked registers is a store of sectors:
\* a read delivers the sector named, a write replaces one sector, whole, or tears it.
THEOREM DiskIsSectorStore == Spec => ImplementsStore
<1>1. Init => StoreOf!StoreInit
  <2> SUFFICES ASSUME Init PROVE StoreOf!StoreInit
    OBVIOUS
  <2>1. Typed /\ torn = {} /\ Moved = None /\ asked = None
    BY InitTyped DEF Init, DiskInit, Unsent, Moved
  <2>2. Store \in [Names -> Content] \cup {None}
    <3>1. CASE image # None
      BY <2>1, <3>1, StoreFacts DEF Held
    <3>2. CASE image = None
      BY <3>2 DEF Store
    <3> QED
      BY <3>1, <3>2
  <2>3. Registers = [side |-> 0, track |-> 0, sector |-> 0]
    BY DEF Init, DiskInit, Idle, Registers
  <2> QED
    BY <2>1, <2>2, <2>3
       DEF StoreOf!StoreInit, StoreOf!First, StoreOf!AnyDisk, StoreOf!SectorNames, StoreOf!Content,
           Registers, Store, Moved, Names, Held, Content
<1>2. Typed /\ Transfer /\ [Next]_storageVars => [StoreOf!StoreNext]_StoreOf!storeVars
  <2>1. UNCHANGED storageVars => UNCHANGED <<image, sent, torn, asked, fdc>>
    BY DEF storageVars, diskVars
  <2> QED
    BY <2>1, StepsAreDiskSteps, StepsImplement, Stutters
<1> QED
  BY <1>1, <1>2, Invariant, PTL DEF Spec, ImplementsStore, StoreOf!StoreSpec

=============================================================================
