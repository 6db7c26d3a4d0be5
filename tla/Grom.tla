--------------------------------- MODULE Grom ---------------------------------
(***************************************************************************)
(* The ports of the GROM (TMS9900JNI.c): an address written and read by    *)
(* two bytes each, with a latch for either direction, and advanced by      *)
(* every byte read.  What the GROMs hold is left out.                      *)
(***************************************************************************)
EXTENDS MemoryMap, Sequences

CONSTANTS PageSize, PageTop, \* >2000 and >1800: a GROM and its last byte
          ConsoleTop,        \* >5FFF, the last address of the console's GROMs
          CartSize,          \* the bytes of a cartridge's GROM
          GromBytes          \* the bytes the program sends

ASSUME PageAssumption == {PageSize, PageTop, ConsoleTop, CartSize} \subseteq Nat \ {0}
ASSUME GromAssumption == GromBytes \subseteq 0..Size - 1

VARIABLES grom,      \* GROM.latch, GROM.address, newaddress, the latch of reads, cartridge
          gromImage, \* what SaveImage keeps of it
          gromSent,  \* history: as vdpSent
          gromGot    \* history: the bytes of the address read since it was last set or
                     \* used; None when it is not known which byte comes next

gromVars == <<grom, gromImage, gromSent, gromGot>>

AddrSize == Size * Size  \* 65536

\* As VdpLatched and VdpSentWith.
GromLatched(b) == [grom EXCEPT !.latch = 1 - @, !.read = 0, !.byte[1 - grom.latch] = b]

GromSentWith(b) ==
  IF gromSent.half = None THEN [gromSent EXCEPT !.half = b]
  ELSE [half |-> None, run |-> 0,
        at |-> IF gromSent.half = Torn THEN None ELSE gromSent.half * Size + b]

\* The high byte comes first.  An address in the gap behind a GROM raises the exception.
GromSetAddress(b) ==
  /\ Running
  /\ LET new == GromLatched(b)
         p == new.byte[1] * Size + new.byte[0]
     IN /\ grom' = IF new.latch = 1 THEN new ELSE [new EXCEPT !.addr = p]
        /\ exception' = (new.latch = 0 /\ p % PageSize > PageTop)
  /\ gromSent' = GromSentWith(b)
  /\ gromGot' = << >>
  /\ UNCHANGED <<fault, gromImage>>

\* Mutant of GromReadAddress: the low byte comes first.
GromReadAddress_LowFirst ==
  /\ Running
  /\ grom' = [grom EXCEPT !.read = 1 - @]
  /\ LET next == (grom.addr + 1) % AddrSize
         byte == IF grom.read = 0 THEN next % Size ELSE next \div Size
     IN gromGot' = IF gromGot = None THEN None
                   ELSE IF Len(gromGot) = 2 THEN <<byte>> ELSE Append(gromGot, byte)
  /\ UNCHANGED <<flags, gromImage, gromSent>>

\* The two bytes of the address behind the current one: "(GROM.address+1)".
GromReadAddress ==
  /\ Running
  /\ grom' = [grom EXCEPT !.read = 1 - @]
  /\ LET next == (grom.addr + 1) % AddrSize
         byte == IF grom.read = 0 THEN next \div Size ELSE next % Size
     IN gromGot' = IF gromGot = None THEN None
                   ELSE IF Len(gromGot) = 2 THEN <<byte>> ELSE Append(gromGot, byte)
  /\ UNCHANGED <<flags, gromImage, gromSent>>

\* Mutants of GromData: the address does not wrap; an unfinished address stays.
GromData_NoWrap ==
  /\ Running /\ gromSent.run < Run
  /\ grom' = [grom EXCEPT !.latch = 0, !.read = 0, !.addr = @ + 1]
  /\ gromSent' = [gromSent EXCEPT !.half = None, !.run = @ + 1]
  /\ gromGot' = << >>
  /\ UNCHANGED <<flags, gromImage>>

GromData_KeepsLatch ==
  /\ Running /\ gromSent.run < Run
  /\ LET next == (grom.addr + 1) % AddrSize
     IN /\ grom' = [grom EXCEPT !.read = 0, !.addr = next]
        /\ gromSent' = [gromSent EXCEPT !.half = None, !.run = @ + 1,
                                        !.at = IF @ = None THEN None ELSE (@ + 1) % AddrSize]
  /\ fault' = FALSE
  /\ gromGot' = << >>
  /\ UNCHANGED <<exception, gromImage>>

\* A byte read ends an unfinished address of either direction.  Above the console's GROMs
\* the address moves on before the byte is fetched: from the last address of all it wraps
\* to one that lies before the cartridge.
GromData ==
  /\ Running /\ gromSent.run < Run
  /\ LET next == (grom.addr + 1) % AddrSize
     IN /\ grom' = [grom EXCEPT !.latch = 0, !.read = 0, !.addr = next]
        /\ fault' = (grom.addr > ConsoleTop /\ grom.cart = 1
                       /\ (next < ConsoleTop + 2 \/ next >= ConsoleTop + 2 + CartSize))
        /\ gromSent' = [gromSent EXCEPT !.half = None, !.run = @ + 1,
                                        !.at = IF @ = None THEN None ELSE (@ + 1) % AddrSize]
  /\ gromGot' = << >>
  /\ UNCHANGED <<exception, gromImage>>

\* LoadCartGROM, which follows a reset.
LoadCartGROM ==
  /\ grom' = [grom EXCEPT !.cart = 1]
  /\ UNCHANGED <<gromImage, gromSent, gromGot>>

\* ResetCPU, as far as the GROM goes: the latch of the address reads is a variable of the
\* file that it does not know, nor does the image.
GromReset ==
  /\ grom' = [grom EXCEPT !.latch = 0, !.addr = 0, !.cart = 0]
  /\ gromSent' = [half |-> None, at |-> 0, run |-> 0]
  /\ gromGot' = None
  /\ UNCHANGED gromImage

GromSave ==
  /\ gromImage' = [latch |-> grom.latch, addr |-> grom.addr,
                   sent |-> [gromSent EXCEPT !.run = 0]]
  /\ UNCHANGED <<grom, gromSent, gromGot>>

GromLoad ==
  /\ gromImage # None
  /\ grom' = [grom EXCEPT !.latch = gromImage.latch, !.addr = gromImage.addr]
  /\ gromSent' = [gromImage.sent EXCEPT !.half = IF @ = None THEN None ELSE Torn]
  /\ gromGot' = None
  /\ UNCHANGED gromImage

GromInit ==
  /\ grom = [latch |-> 0, addr |-> 0, byte |-> [i \in {0, 1} |-> 0], read |-> 0, cart |-> 0]
  /\ gromImage = None
  /\ gromSent = [half |-> None, at |-> 0, run |-> 0]
  /\ gromGot = << >>

GromNext == (\E b \in GromBytes : GromSetAddress(b)) \/ GromReadAddress \/ GromData

-----------------------------------------------------------------------------
\* As VdpAddressAsSent, for the address of the GROM, which a byte read in the middle of a
\* pair begins anew.
GromAddressAsSent ==
  ~fault =>
    /\ grom.latch = IF gromSent.half = None THEN 0 ELSE 1
    /\ gromSent.half \notin {None, Torn} => grom.byte[1] = gromSent.half
    /\ gromSent.at # None => grom.addr = gromSent.at

\* A program that saves the address by two reads gets the high byte and then the low byte
\* of its successor, so that it can set it again -- if it knows where a pair of reads
\* begins, which after a reset or a restored image it does not.
ReadPairsInOrder ==
  gromGot # None =>
    /\ grom.read = IF Len(gromGot) = 1 THEN 1 ELSE 0
    /\ Len(gromGot) = 2 => gromGot[1] * Size + gromGot[2] = (grom.addr + 1) % AddrSize
=============================================================================
