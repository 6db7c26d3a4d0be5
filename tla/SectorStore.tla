------------------------------ MODULE SectorStore ------------------------------
(***************************************************************************)
(* What a floppy disk controller promises: a disk is a map from sectors,   *)
(* named by side, track and sector, to contents.  A read delivers the      *)
(* content of the sector named.  A write replaces it as a whole when its   *)
(* last byte has been sent; a sector whose writing has been begun and not  *)
(* ended has no content.                                                   *)
(***************************************************************************)
EXTENDS Integers, Sequences

CONSTANTS Sides, Tracks, Sectors, SectorSize, Byte, None, Partial

VARIABLES store,    \* the disk, or None if there is none
          named,    \* side, track and sector the registers name
          transfer, \* the sector being written, the bytes sent for it and how many of them
                    \*   went to an earlier disk; or None
          loaded    \* what the last read has delivered, or None

storeVars == <<store, named, transfer, loaded>>

Content == [1..SectorSize -> Byte]

\* A number too large for its track or side goes on to the next.
Sector == (named.side * Tracks + named.track) * Sectors + named.sector
SectorNames == 0..Sides * Tracks * Sectors - 1
First == [side |-> 0, track |-> 0, sector |-> 0]

Name ==
  /\ named' \in [side : 0..Sides - 1, track : Byte, sector : Byte]
  /\ UNCHANGED <<store, transfer, loaded>>

Load ==
  /\ store # None /\ Sector \in SectorNames
  /\ loaded' = store[Sector]
  /\ UNCHANGED <<store, named, transfer>>

\* The buffer is used for something else.
Forget == loaded' = None /\ UNCHANGED <<store, named, transfer>>

Open ==
  /\ transfer' = [sector |-> Sector, bytes |-> << >>, from |-> 0]
  /\ UNCHANGED <<store, named, loaded>>

\* A sector whose first bytes went to another disk has no content.
Send(b) ==
  /\ transfer # None /\ Len(transfer.bytes) < SectorSize
  /\ store # None /\ transfer.sector \in SectorNames
  /\ LET bytes == Append(transfer.bytes, b)
     IN /\ transfer' = [transfer EXCEPT !.bytes = bytes]
        /\ store' = [store EXCEPT ![transfer.sector] =
                       IF Len(bytes) = SectorSize /\ transfer.from = 0 THEN bytes ELSE Partial]
  /\ UNCHANGED <<named, loaded>>

AnyDisk == [SectorNames -> Content] \cup {None}

\* Another disk is inserted; what is being written goes on there.
Insert ==
  /\ store' \in AnyDisk
  /\ transfer' = IF transfer = None THEN None ELSE [transfer EXCEPT !.from = Len(transfer.bytes)]
  /\ UNCHANGED <<named, loaded>>

\* The controller starts anew, with any disk or none.
Restart ==
  /\ store' \in AnyDisk
  /\ named' = First
  /\ transfer' = None /\ loaded' = None

StoreInit ==
  /\ store \in AnyDisk
  /\ named = First
  /\ transfer = None /\ loaded = None

StoreNext ==
  \/ Name \/ Load \/ Open
  \/ \E b \in Byte : Send(b)
  \/ Forget \/ Insert \/ Restart

StoreSpec == StoreInit /\ [][StoreNext]_storeVars
=============================================================================
