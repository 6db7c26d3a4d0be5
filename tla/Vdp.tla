---------------------------------- MODULE Vdp ----------------------------------
(***************************************************************************)
(* The ports of the video processor (TMS9900JNI.c): an address register    *)
(* set by two bytes and advanced by every access, under resets and         *)
(* restored images.  What its memory holds is left out.                    *)
(***************************************************************************)
EXTENDS MemoryMap

CONSTANTS VdpRegisters,  \* VDP.registers has this many: 8
          RegisterNames, \* a register is named by a number below this: 16
          VdpBytes       \* the bytes the program sends

ASSUME VdpAssumption ==
  VdpRegisters \in Nat /\ RegisterNames \in Nat \ {0} /\ VdpBytes \subseteq 0..Size - 1

VARIABLES vdp,      \* VDP.latch, VDP.address and newvdpaddress
          vdpImage, \* what SaveImage keeps of it
          vdpSent   \* history: the half address the program has sent, the address it
                    \* means (None: unknown), the accesses since

vdpVars == <<vdp, vdpImage, vdpSent>>

VdpSize == (Size \div 4) * Size   \* 16384

Address(hi, lo) == (hi % (Size \div 4)) * Size + lo
NamesRegister(hi) == hi >= Size \div 2

\* The registers when a byte has come in, and the pair is complete if the latch is 0.
VdpLatched(b) == [vdp EXCEPT !.latch = 1 - @, !.byte[1 - vdp.latch] = b]

\* What the program has sent, with one more byte.
VdpSentWith(b) ==
  IF vdpSent.half = None THEN [vdpSent EXCEPT !.half = b]
  ELSE IF NamesRegister(b) THEN [vdpSent EXCEPT !.half = None]
  ELSE [half |-> None, run |-> 0,
        at |-> IF vdpSent.half = Torn THEN None ELSE Address(b, vdpSent.half)]

\* The low byte comes first; the second holds the high bits of the address, or the name
\* of a register: there are more names than registers.
VdpSetAddress(b) ==
  /\ Running
  /\ LET new == VdpLatched(b)
         hi == new.byte[0]
         lo == new.byte[1]
     IN /\ vdp' = IF new.latch = 1 \/ NamesRegister(hi) THEN new
                  ELSE [new EXCEPT !.addr = Address(hi, lo)]
        /\ fault' = (new.latch = 0 /\ NamesRegister(hi) /\ hi % RegisterNames >= VdpRegisters)
  /\ vdpSent' = VdpSentWith(b)
  /\ UNCHANGED <<exception, vdpImage>>

\* A byte is read or written, or a word written to >8C00.  The address is not masked:
\* after the last byte it has left the VDP's memory.
VdpData ==
  /\ Running /\ vdpSent.run < Run
  /\ fault' = (vdp.addr >= VdpSize)
  /\ vdp' = [vdp EXCEPT !.addr = @ + 1]
  /\ vdpSent' = [vdpSent EXCEPT !.at = IF @ = None THEN None ELSE @ + 1, !.run = @ + 1]
  /\ UNCHANGED <<exception, vdpImage>>

\* Mutant of VdpReset: the latch is left alone.
VdpReset_KeepsLatch == UNCHANGED <<vdp, vdpImage>> /\ vdpSent' = [vdpSent EXCEPT !.half = None]

\* ResetCPU, as far as the VDP goes; the address and the bytes sent stay.
VdpReset ==
  /\ vdp' = [vdp EXCEPT !.latch = 0]
  /\ vdpSent' = [vdpSent EXCEPT !.half = None]
  /\ UNCHANGED vdpImage

VdpSave ==
  /\ vdpImage' = [latch |-> vdp.latch, addr |-> vdp.addr,
                  sent |-> [vdpSent EXCEPT !.run = 0]]
  /\ UNCHANGED <<vdp, vdpSent>>

\* The first byte of a pair is not in the image: newvdpaddress keeps that of the
\* machine as it was before.
VdpLoad ==
  /\ vdpImage # None
  /\ vdp' = [vdp EXCEPT !.latch = vdpImage.latch, !.addr = vdpImage.addr]
  /\ vdpSent' = [vdpImage.sent EXCEPT !.half = IF @ = None THEN None ELSE Torn]
  /\ UNCHANGED vdpImage

VdpInit ==
  /\ vdp = [latch |-> 0, addr |-> 0, byte |-> [i \in {0, 1} |-> 0]]
  /\ vdpImage = None
  /\ vdpSent = [half |-> None, at |-> None, run |-> 0]

VdpNext == (\E b \in VdpBytes : VdpSetAddress(b)) \/ VdpData

-----------------------------------------------------------------------------
\* The latch is set exactly while the program is in the middle of a pair, and the VDP
\* stands at the address of the last pair the program completed, advanced by the
\* accesses since, wherever it was reset, saved or restored in between.
VdpAddressAsSent ==
  ~fault =>
    /\ vdp.latch = IF vdpSent.half = None THEN 0 ELSE 1
    /\ vdpSent.half \notin {None, Torn} => vdp.byte[1] = vdpSent.half
    /\ vdpSent.at # None => vdp.addr = vdpSent.at
=============================================================================
