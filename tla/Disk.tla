---------------------------------- MODULE Disk ----------------------------------
(***************************************************************************)
(* The floppy disk controller (ti99-fdc.c): registers written by byte, a   *)
(* sector buffer read by byte, and an image of the disk that the data      *)
(* register writes to while a count lasts.  No command tests its operands. *)
(***************************************************************************)
EXTENDS Integers, Sequences

CONSTANTS Sides, Tracks, Sectors, SectorSize,  \* 2, 40, 9 and 256
          IdSize,     \* the bytes of READ ID: 6, fewer if a sector has fewer
          Size,       \* the values of a byte: 256
          Numbers,    \* those the program uses for tracks and sectors
          Data,       \* those it writes to a disk
          Disks,      \* the images a disk can be inserted with
          WriteBound, \* bound: sectors the program begins to write
          None, Partial

ASSUME GeometryAssumption ==
  /\ {Tracks, Sectors} \subseteq Nat \ {0} /\ {Sides, SectorSize, Size} \subseteq Nat \ 0..1
  /\ IdSize \in 1..6 /\ IdSize <= SectorSize
  /\ Numbers \subseteq 0..Size - 1 /\ Data \subseteq 0..Size - 1

Byte == 0..Size - 1
DiskSize == Sides * Tracks * Sectors * SectorSize  \* FD_SIZE

ASSUME DisksAssumption == Disks \subseteq [0..DiskSize - 1 -> Byte]

ASSUME NoneAssumption ==
  /\ None \notin Nat /\ None \notin [0..DiskSize - 1 -> Byte]
  /\ None \notin [0..Sides * Tracks * Sectors - 1 -> [1..SectorSize -> Byte] \cup {Partial}]
  /\ None \notin [sector : Nat, bytes : Seq(Byte), from : Nat]

VARIABLES fdc,   \* DiskState without its image
          image, \* raw_data, None for NULL
          fault, \* an access outside of the image
          sent,  \* history: sector and bytes of the last write, and how many went to an
         \*   earlier disk
          torn,  \* history: sectors begun and not ended
          asked, \* history: what the buffer was loaded with, None if not a whole sector
          got    \* history: the bytes read from the buffer since

diskVars == <<fdc, image, fault, sent, torn, asked, got>>

Inverted(b) == Size - 1 - b

Index(side, track, sector) ==
  side * (SectorSize * Sectors * Tracks) + track * (SectorSize * Sectors) + sector * SectorSize

\* Mutant of Place: the size of a side leaves out its tracks.
Place_ShortSide == fdc.side * (SectorSize * Sectors) + fdc.track * (SectorSize * Sectors)
                     + fdc.sector * SectorSize

Place == Index(fdc.side, fdc.track, fdc.sector)
Here == (fdc.side * Tracks + fdc.track) * Sectors + fdc.sector
Bytes(i) == [k \in 1..SectorSize |-> image[i + k - 1]]

-----------------------------------------------------------------------------
(* The command register.  The status register is left out: it is given to  *)
(* the program and no operation depends on it, so that FORCE_INT, like the *)
(* commands the code does not handle, changes nothing here -- not even the *)
(* count of a write.                                                       *)

Restore ==
  /\ fdc' = [fdc EXCEPT !.track = 0]
  /\ UNCHANGED <<image, fault, sent, torn, asked, got>>

Seek ==
  /\ fdc' = [fdc EXCEPT !.track = fdc.data]
  /\ UNCHANGED <<image, fault, sent, torn, asked, got>>

\* The sector's name, the code of a length of 256 bytes, and zeros for the checksum.
Id == <<fdc.track, fdc.side, fdc.sector, 1, 0, 0>>

\* The rest of the buffer keeps what an earlier read has left.
ReadId ==
  /\ fdc' = [fdc EXCEPT !.buffer = [k \in 1..SectorSize |-> IF k <= IdSize THEN Id[k] ELSE @[k]],
                        !.blen = IdSize, !.bp = 0]
  /\ asked' = None
  /\ got' = << >>
  /\ UNCHANGED <<image, fault, sent, torn>>

Readable(i) == image # None /\ i + SectorSize <= DiskSize

ReadSect ==
  /\ fault' = ~Readable(Place)
  /\ IF Readable(Place)
     THEN /\ fdc' = [fdc EXCEPT !.buffer = Bytes(Place), !.blen = SectorSize, !.bp = 0]
          /\ asked' = IF Here \in torn THEN Partial ELSE Bytes(Place)
          /\ got' = << >>
     ELSE UNCHANGED <<fdc, asked, got>>
  /\ UNCHANGED <<image, sent, torn>>

\* Mutant of WriteSect: the count is one short.
WriteSect_Short ==
  /\ sent.count < WriteBound
  /\ fdc' = [fdc EXCEPT !.idx = Place, !.blen = SectorSize, !.wp = SectorSize - 1]
  /\ sent' = [sector |-> Here, bytes |-> << >>, from |-> 0, count |-> sent.count + 1]
  /\ UNCHANGED <<image, fault, torn, asked, got>>

\* blen is set as well, bp is not: the buffer can be read on.
WriteSect ==
  /\ sent.count < WriteBound
  /\ fdc' = [fdc EXCEPT !.idx = Place, !.blen = SectorSize, !.wp = SectorSize]
  /\ sent' = [sector |-> Here, bytes |-> << >>, from |-> 0, count |-> sent.count + 1]
  /\ UNCHANGED <<image, fault, torn, asked, got>>

-----------------------------------------------------------------------------
(* The other registers. *)

SetTrack(b) ==
  /\ fdc' = [fdc EXCEPT !.track = Inverted(b)]
  /\ UNCHANGED <<image, fault, sent, torn, asked, got>>

SetSector(b) ==
  /\ fdc' = [fdc EXCEPT !.sector = Inverted(b)]
  /\ UNCHANGED <<image, fault, sent, torn, asked, got>>

\* fdc_cru_writebit.
SelectSide(bit) ==
  /\ fdc' = [fdc EXCEPT !.side = bit]
  /\ UNCHANGED <<image, fault, sent, torn, asked, got>>

\* The bytes sent so far for the sector, with one more.
SentWith(b) ==
  LET bytes == Append(sent.bytes, b)
  IN /\ sent' = [sent EXCEPT !.bytes = bytes]
     /\ torn' = IF Len(bytes) = SectorSize /\ sent.from = 0 THEN torn \ {sent.sector}
                ELSE torn \cup {sent.sector}

\* Mutant of WriteData: the count is not tested.
WriteData_Uncounted(b) ==
  /\ fdc' = [fdc EXCEPT !.data = Inverted(b), !.idx = @ + 1, !.wp = @ - 1]
  /\ IF image # None /\ fdc.idx < DiskSize
     THEN image' = [image EXCEPT ![fdc.idx] = Inverted(b)] /\ UNCHANGED fault
     ELSE fault' = TRUE /\ UNCHANGED image
  /\ UNCHANGED <<sent, torn, asked, got>>

\* The data register: the operand of SEEK and, while the count lasts, the next byte of
\* the sector being written.
WriteData(b) ==
  /\ fdc' = [fdc EXCEPT !.data = Inverted(b),
                        !.idx = IF fdc.wp > 0 THEN @ + 1 ELSE @,
                        !.wp = IF fdc.wp > 0 THEN @ - 1 ELSE @]
  /\ IF fdc.wp = 0 THEN UNCHANGED <<image, fault, sent, torn>>
     ELSE IF image # None /\ fdc.idx < DiskSize
     THEN /\ image' = [image EXCEPT ![fdc.idx] = Inverted(b)]
          /\ SentWith(Inverted(b))
          /\ UNCHANGED fault
     ELSE fault' = TRUE /\ UNCHANGED <<image, sent, torn>>
  /\ UNCHANGED <<asked, got>>

\* Only what comes from a sector is recorded.
GotWith(b) == IF asked \in {None, Partial} THEN got ELSE Append(got, b)

\* Mutant of ReadData: the bus is taken for not inverted.
ReadData_AsIs ==
  /\ fdc.bp < fdc.blen
  /\ got' = GotWith(Inverted(fdc.buffer[fdc.bp + 1]))
  /\ fdc' = [fdc EXCEPT !.bp = @ + 1]
  /\ UNCHANGED <<image, fault, sent, torn, asked>>

\* The program inverts what it gets again.
ReadData ==
  /\ fdc.bp < fdc.blen
  /\ got' = GotWith(Inverted(Inverted(fdc.buffer[fdc.bp + 1])))
  /\ fdc' = [fdc EXCEPT !.bp = @ + 1]
  /\ UNCHANGED <<image, fault, sent, torn, asked>>

\* TIFDC_LoadImage, by the user, at any time: the controller notices nothing.
LoadDisk(d) ==
  /\ image' = d
  /\ torn' = {}
  /\ sent' = [sent EXCEPT !.from = Len(sent.bytes)]
  /\ UNCHANGED <<fdc, fault, asked, got>>

-----------------------------------------------------------------------------
Idle == [track |-> 0, sector |-> 0, data |-> 0, side |-> 0,
         buffer |-> [k \in 1..SectorSize |-> 0], blen |-> 0, bp |-> 0, wp |-> 0, idx |-> 0]
Unsent == [sector |-> None, bytes |-> << >>, from |-> 0, count |-> 0]

DiskInit ==
  /\ fdc = Idle
  /\ image \in Disks \cup {None}
  /\ fault = FALSE
  /\ sent = Unsent /\ torn = {} /\ asked = None /\ got = << >>

\* The program, through the card's ROM.
Reading == Restore \/ Seek \/ ReadId \/ ReadSect \/ ReadData
Naming == \/ \E n \in Numbers : SetTrack(Inverted(n)) \/ SetSector(Inverted(n))
          \/ \E bit \in {0, 1} : SelectSide(bit)
Writing == WriteSect \/ \E b \in Data : WriteData(Inverted(b))

Undefined == fault /\ UNCHANGED diskVars

DiskNext ==
  \/ ~fault /\ (Reading \/ Naming \/ Writing \/ \E d \in Disks : LoadDisk(d))
  \/ Undefined

DiskSpec == DiskInit /\ [][DiskNext]_diskVars

-----------------------------------------------------------------------------
(* Properties *)

DiskTypeOK ==
  /\ fdc \in [track : Byte, sector : Byte,
              data : Byte, side : {0, 1}, buffer : [1..SectorSize -> Byte],
              blen : {0, IdSize, SectorSize}, bp : 0..SectorSize, wp : 0..SectorSize, idx : Nat]
  /\ image = None \/ image \in [0..DiskSize - 1 -> Byte]

\* While a write lasts, the next byte goes behind those sent, in the sector the program
\* named when it began, whatever it has done to the registers since.
InTransfer ==
  ~fault /\ sent.sector # None =>
    /\ Len(sent.bytes) + fdc.wp = SectorSize
    /\ fdc.idx = sent.sector * SectorSize + Len(sent.bytes)

\* What the program reads after READ SECTOR are the bytes of the sector, in order and no
\* more of them, even if it begins to write one in between.
ReadsInOrder ==
  asked \notin {None, Partial} => Len(got) <= SectorSize /\ \A k \in 1..Len(got) : got[k] = asked[k]

\* The controller implements a store of sectors.
StoreOf == INSTANCE SectorStore WITH
  store <- IF image = None THEN None
           ELSE [s \in 0..Sides * Tracks * Sectors - 1 |->
                   IF s \in torn THEN Partial ELSE Bytes(s * SectorSize)],
  named <- [side |-> fdc.side, track |-> fdc.track, sector |-> fdc.sector],
  transfer <- IF sent.sector = None THEN None
              ELSE [sector |-> sent.sector, bytes |-> sent.bytes, from |-> sent.from],
  loaded <- asked
ImplementsStore == StoreOf!StoreSpec
=============================================================================
