-------------------------------- MODULE Storage --------------------------------
(***************************************************************************)
(* What outlives the emulator: floppy.dsk, read by CreateCPU and rewritten *)
(* by SaveImage, and image.dat, written by SaveImage and read by LoadImage *)
(* (TMS9900JNI.c, TMS9900_SaveImage and _LoadImage of tms9900-core.c).     *)
(* Android may kill the process between any two steps, and the program may *)
(* go on while the user's thread saves.                                    *)
(*                                                                         *)
(* The machine in the image is its CPU memory, of which only the number of *)
(* disk operations the program has done is kept (ram).  The files hold a   *)
(* disk as a whole, so a session either exercises the controller in all    *)
(* its ways, on a disk inserted later, or writes one sector while the      *)
(* files come and go.                                                      *)
(***************************************************************************)
EXTENDS Disk

CONSTANTS Sessions, \* a subset of {"controller", "files"}
          RamBound, \* bound: operations the program does
          Garbage   \* what a buffer holds that has not been filled, or not as a whole

ASSUME GarbageAssumption == Garbage # None /\ Garbage \notin [0..DiskSize - 1 -> Byte]

VARIABLES session, \* what this behaviour is about
          up,     \* the process runs
          ram,    \* what the program remembers
          saving, \* where SaveImage is
          saved,  \* the machine as copied by it
          files,  \* image.dat and floppy.dsk: a whole content, None, or Garbage
          quiet,  \* history: nothing has happened since SaveImage began
          fresh,  \* history: nothing has happened since the process started
          kept    \* history: the machine and the disk of the last undisturbed save

storageVars == <<session, diskVars, up, ram, saving, saved, files, quiet, fresh, kept>>
fileVars == <<saving, saved, files, kept>>

Blank == [i \in 0..DiskSize - 1 |-> 0]

-----------------------------------------------------------------------------
(* The running machine *)

Work ==
  /\ up /\ ~fault
  /\ Writing \/ (session = "controller" /\ (Reading \/ Naming))
  /\ ram' = IF session = "files" /\ ram \in 0..RamBound - 1 THEN ram + 1 ELSE ram
  /\ quiet' = FALSE /\ fresh' = FALSE
  /\ UNCHANGED <<up, fileVars>>

LoadDSKImage ==
  /\ up /\ ~fault /\ saving = "no"
  /\ \E d \in Disks : LoadDisk(d)
  /\ quiet' = FALSE /\ fresh' = FALSE
  /\ UNCHANGED <<up, ram, fileVars>>

-----------------------------------------------------------------------------
(* SaveImage.  Both files are truncated before they are written; image.dat *)
(* is whole when it is closed, which is after floppy.dsk.                  *)

Step(from, to) ==
  up /\ ~fault /\ session = "files" /\ saving = from /\ saving' = to

OpenImage ==
  /\ Step("no", "image")
  /\ saved' = ram
  /\ files' = [files EXCEPT !.image = Garbage]
  /\ quiet' = TRUE
  /\ kept' = None
  /\ UNCHANGED <<diskVars, up, ram, fresh>>

OpenFloppy ==
  /\ Step("image", "floppy")
  /\ files' = [files EXCEPT !.floppy = Garbage]
  /\ UNCHANGED <<diskVars, up, ram, saved, quiet, fresh, kept>>

\* floppy.dsk cannot be opened: the image is kept, the disk is not.
NoFloppy ==
  /\ Step("image", "no")
  /\ files' = [files EXCEPT !.image = saved]
  /\ UNCHANGED <<diskVars, up, ram, saved, quiet, fresh, kept>>

\* Mutant of WriteFloppy: the buffer is not filled from the disk.
WriteFloppy_Unfilled ==
  /\ Step("floppy", "close")
  /\ files' = [files EXCEPT !.floppy = Garbage]
  /\ UNCHANGED <<diskVars, up, ram, saved, quiet, fresh, kept>>

\* Without a disk, the buffer is written as malloc gave it.
WriteFloppy ==
  /\ Step("floppy", "close")
  /\ files' = [files EXCEPT !.floppy = IF image = None THEN Garbage ELSE image]
  /\ UNCHANGED <<diskVars, up, ram, saved, quiet, fresh, kept>>

CloseImage ==
  /\ Step("close", "no")
  /\ files' = [files EXCEPT !.image = saved]
  /\ kept' = IF quiet /\ image # None THEN [ram |-> saved, disk |-> image] ELSE None
  /\ UNCHANGED <<diskVars, up, ram, saved, quiet, fresh>>

\* The disk is not in image.dat, nor the controller: both stay as they are.  A file that
\* is not whole leaves some of the machine as malloc gave it.
LoadImage ==
  /\ up /\ ~fault /\ saving = "no"
  /\ files.image # None
  /\ ram' = files.image
  /\ quiet' = FALSE /\ fresh' = FALSE
  /\ UNCHANGED <<diskVars, up, fileVars>>

-----------------------------------------------------------------------------
(* The process *)

Kill ==
  /\ up /\ session = "files"
  /\ up' = FALSE
  /\ saving' = "no" /\ quiet' = FALSE /\ fresh' = FALSE
  /\ UNCHANGED <<diskVars, ram, saved, files, kept>>

\* CreateCPU: a disk read from a file that is not whole has other bytes at its end.
CreateCPU ==
  /\ ~up
  /\ up' = TRUE
  /\ ram' = 0
  /\ fdc' = Idle
  /\ image' \in IF files.floppy = Garbage THEN Disks \cup {Blank} ELSE {files.floppy}
  /\ fault' = FALSE
  /\ sent' = [Unsent EXCEPT !.count = sent.count] /\ torn' = {} /\ asked' = None /\ got' = << >>
  /\ fresh' = TRUE
  /\ UNCHANGED <<fileVars, quiet>>

Init ==
  /\ session \in Sessions
  /\ DiskInit
  /\ up = FALSE /\ ram = 0 /\ saving = "no" /\ saved = 0
  /\ \E f \in IF session = "files" THEN Disks \cup {None} ELSE {None} :
       files = [image |-> None, floppy |-> f]
  /\ quiet = FALSE /\ fresh = FALSE /\ kept = None

Next ==
  /\ \/ Work \/ LoadDSKImage
     \/ OpenImage \/ OpenFloppy \/ NoFloppy \/ WriteFloppy \/ CloseImage \/ LoadImage
     \/ Kill \/ CreateCPU
     \/ Undefined /\ UNCHANGED <<up, ram, quiet, fresh, fileVars>>
  /\ UNCHANGED session

Spec == Init /\ [][Next]_storageVars

-----------------------------------------------------------------------------
(* Properties *)

\* An image restored right after a start brings back the machine and the disk of the
\* save, if the machine stood still while it was saved, however often the process was
\* killed since.
RestoresSaved ==
  [][LoadImage /\ fresh /\ kept # None => ram' = kept.ram /\ image' = kept.disk]_storageVars
=============================================================================
