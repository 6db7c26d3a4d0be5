----------------------------- MODULE DevicesProofs -----------------------------
(***************************************************************************)
(* Theorems about Devices, for every size of byte, memory and GROM, every  *)
(* choice of the bytes a program sends and every length of its accesses.   *)
(***************************************************************************)
EXTENDS Devices, SequenceTheorems, WellFoundedInduction, TLAPS

Bit == {0, 1}
Half == Byte \cup {None, Torn}
Known == Int \cup {None}
SentShape == [half : Half, at : Known, run : Nat]

\* A fault stays one, and only accesses by the program bring it about.
LEMMA FaultStays == Next /\ ~fault' => ~fault
BY DEF Next, Access, Elsewhere, NoAnswer, ResetCPU, SaveImage, LoadImage, Undefined,
       MemNext, StoreByteAt, StoreWordAt, VdpNext, VdpSetAddress, VdpData,
       GromNext, GromSetAddress, GromReadAddress, GromData,
       SoundNext, Frequency, Attenuation, FrequencyData, Unmapped, ClearException, Running,
       flags, vars

-----------------------------------------------------------------------------
(* The VDP.  What the image keeps is in the same relation as the running   *)
(* VDP, except for the byte of a pair that has been begun.                 *)

VdpShape ==
  /\ vdp \in [latch : Bit, addr : Int, byte : [Bit -> Byte]]
  /\ vdpSent \in SentShape
  /\ vdpImage = None \/ vdpImage \in [latch : Bit, addr : Int, sent : SentShape]

InPair(latch, half) == latch = IF half = None THEN 0 ELSE 1
Stands(addr, at) == at # None => addr = at

VdpInv ==
  /\ VdpShape
  /\ ~fault => /\ InPair(vdp.latch, vdpSent.half)
               /\ vdpSent.half \notin {None, Torn} => vdp.byte[1] = vdpSent.half
               /\ Stands(vdp.addr, vdpSent.at)
  /\ vdpImage # None => /\ InPair(vdpImage.latch, vdpImage.sent.half)
                        /\ Stands(vdpImage.addr, vdpImage.sent.at)

\* What any step may be to the VDP.
LEMMA VdpSteps ==
  ASSUME Next
  PROVE  \/ \E b \in VdpBytes : VdpSetAddress(b)
         \/ VdpData
         \/ (VdpReset \/ VdpSave) /\ ~fault /\ UNCHANGED fault
         \/ VdpLoad /\ ~fault /\ UNCHANGED fault
         \/ UNCHANGED vdpVars
BY DEF Next, Access, Elsewhere, NoAnswer, ResetCPU, SaveImage, LoadImage, Undefined,
       VdpNext, vars, vdpVars, flags

LEMMA AddressIsInt == \A hi, lo \in Byte : Address(hi, lo) \in Int
BY SizeAssumption DEF Address, Byte

LEMMA VdpInductive == VdpInv /\ [Next]_vars => VdpInv'
<1> USE NoneAssumption DEF Bit, Half, Known, SentShape
<1> SUFFICES ASSUME VdpInv, [Next]_vars PROVE VdpInv'
  OBVIOUS
<1>0. VdpShape /\ (~fault' => ~fault)
  BY FaultStays DEF VdpInv, vars, flags
<1>1. ASSUME NEW b \in VdpBytes, VdpSetAddress(b) PROVE VdpInv'
  <2> DEFINE new == VdpLatched(b)
  <2>1. ~fault /\ b \in Byte /\ b # None /\ b # Torn /\ vdpImage' = vdpImage
    BY <1>1, VdpAssumption DEF VdpSetAddress, Running, Byte
  <2>2. /\ vdp' = IF new.latch = 1 \/ NamesRegister(new.byte[0]) THEN new
                  ELSE [new EXCEPT !.addr = Address(new.byte[0], new.byte[1])]
        /\ vdpSent' = VdpSentWith(b)
    <3> HIDE DEF new
    <3> QED BY <1>1 DEF VdpSetAddress, new
  <2>3. CASE vdpSent.half = None
    <3>1. vdp.latch = 0
      BY <2>1, <2>3 DEF VdpInv, InPair
    <3>2. vdp' = [vdp EXCEPT !.latch = 1, !.byte[1] = b]
      <4>1. new = [vdp EXCEPT !.latch = 1, !.byte[1] = b] /\ new.latch = 1
        BY <1>0, <3>1 DEF VdpLatched, VdpShape
      <4> QED BY <2>2, <4>1
    <3>3. vdpSent' = [vdpSent EXCEPT !.half = b]
      BY <2>2, <2>3 DEF VdpSentWith
    <3> QED BY <1>0, <2>1, <3>1, <3>2, <3>3 DEF VdpInv, VdpShape, InPair, Stands
  <2>4. CASE vdpSent.half # None
    <3>1. vdp.latch = 1
      BY <1>0, <2>1, <2>4 DEF VdpInv, VdpShape, InPair
    <3> DEFINE at == IF vdpSent.half = Torn THEN None ELSE Address(b, vdpSent.half)
               addr == Address(b, vdp.byte[1])
    <3>2. /\ new = [vdp EXCEPT !.latch = 0, !.byte[0] = b]
          /\ new.latch = 0 /\ new.byte[0] = b /\ new.byte[1] = vdp.byte[1]
      BY <1>0, <3>1 DEF VdpLatched, VdpShape
    <3>3. vdpSent.half # Torn => vdp.byte[1] = vdpSent.half
      BY <2>1, <2>4 DEF VdpInv
    <3>4. vdp.byte[1] \in Byte /\ addr \in Int /\ at \in Known /\ Stands(addr, at)
      BY <1>0, <2>1, <2>4, <3>3, AddressIsInt DEF VdpShape, Stands
    <3>5. CASE NamesRegister(b)
      <4>1. vdp' = new /\ vdpSent' = [vdpSent EXCEPT !.half = None]
        BY <2>2, <2>4, <3>2, <3>5 DEF VdpSentWith
      <4>2. /\ vdp'.latch = 0 /\ vdp'.addr = vdp.addr
            /\ vdp' \in [latch : Bit, addr : Int, byte : [Bit -> Byte]]
        <5>1. vdp' = [vdp EXCEPT !.latch = 0, !.byte[0] = b]
          BY <3>2, <4>1
        <5> HIDE DEF new
        <5> QED BY <1>0, <2>1, <5>1 DEF VdpShape
      <4>3. vdpSent' \in SentShape /\ vdpSent'.half = None /\ vdpSent'.at = vdpSent.at
        BY <1>0, <4>1 DEF VdpShape
      <4> HIDE DEF new, at, addr
      <4> QED BY <1>0, <2>1, <4>2, <4>3 DEF VdpInv, VdpShape, InPair, Stands
    <3>6. CASE ~NamesRegister(b)
      <4>1. /\ vdp' = [new EXCEPT !.addr = addr]
            /\ vdpSent' = [half |-> None, run |-> 0, at |-> at]
        <5>1. vdp' = [new EXCEPT !.addr = addr]
          <6> HIDE DEF new
          <6>1. ~(new.latch = 1 \/ NamesRegister(new.byte[0]))
            BY <3>2, <3>6
          <6>2. Address(new.byte[0], new.byte[1]) = addr
            BY <3>2
          <6> HIDE DEF addr
          <6> QED BY <2>2, <6>1, <6>2
        <5>2. vdpSent' = [half |-> None, run |-> 0, at |-> at]
          BY <2>2, <2>4, <3>6 DEF VdpSentWith
        <5> QED BY <5>1, <5>2
      <4>2. /\ vdp'.latch = 0 /\ vdp'.addr = addr
            /\ vdp' \in [latch : Bit, addr : Int, byte : [Bit -> Byte]]
        <5>1. vdp' = [vdp EXCEPT !.latch = 0, !.byte[0] = b, !.addr = addr]
          <6> HIDE DEF addr
          <6> QED BY <1>0, <3>2, <4>1 DEF VdpShape
        <5> HIDE DEF addr, new
        <5> QED BY <1>0, <2>1, <3>4, <5>1 DEF VdpShape
      <4>3. vdpSent' \in SentShape /\ vdpSent'.half = None /\ vdpSent'.at = at
        BY <3>4, <4>1
      <4> HIDE DEF at, addr
      <4> QED BY <1>0, <2>1, <3>4, <4>2, <4>3 DEF VdpInv, VdpShape, InPair
    <3> QED BY <3>5, <3>6
  <2> QED BY <2>3, <2>4
<1>2. CASE VdpData
  <2>1. /\ ~fault /\ vdpImage' = vdpImage
        /\ vdp' = [vdp EXCEPT !.addr = @ + 1]
        /\ vdpSent' = [vdpSent EXCEPT !.at = IF @ = None THEN None ELSE @ + 1, !.run = @ + 1]
    BY <1>2 DEF VdpData, Running
  <2>2. /\ vdp'.latch = vdp.latch /\ vdp'.byte = vdp.byte /\ vdp'.addr = vdp.addr + 1
        /\ vdp' \in [latch : Bit, addr : Int, byte : [Bit -> Byte]]
    BY <1>0, <2>1 DEF VdpShape
  <2>3. /\ vdpSent' \in SentShape /\ vdpSent'.half = vdpSent.half
        /\ vdpSent'.at = IF vdpSent.at = None THEN None ELSE vdpSent.at + 1
    <3> DEFINE at == IF vdpSent.at = None THEN None ELSE vdpSent.at + 1
    <3>1. at \in Known /\ vdpSent \in SentShape /\ vdpSent.run + 1 \in Nat
      BY <1>0 DEF VdpShape
    <3>2. vdpSent' = [vdpSent EXCEPT !.at = at, !.run = vdpSent.run + 1]
      BY <2>1
    <3> HIDE DEF at
    <3>3. vdpSent' \in SentShape /\ vdpSent'.half = vdpSent.half /\ vdpSent'.at = at
      BY <3>1, <3>2
    <3> QED BY <3>3 DEF at
  <2> QED BY <1>0, <2>1, <2>2, <2>3 DEF VdpInv, VdpShape, InPair, Stands
<1>3. CASE VdpReset /\ ~fault /\ UNCHANGED fault
  BY <1>0, <1>3 DEF VdpReset, VdpInv, VdpShape, InPair, Stands
<1>4. CASE VdpSave /\ ~fault /\ UNCHANGED fault
  BY <1>0, <1>4 DEF VdpSave, VdpInv, VdpShape, InPair, Stands
<1>5. CASE VdpLoad /\ ~fault /\ UNCHANGED fault
  BY <1>0, <1>5 DEF VdpLoad, VdpInv, VdpShape, InPair, Stands
<1>6. CASE UNCHANGED vdpVars
  BY <1>0, <1>6 DEF vdpVars, VdpInv, VdpShape, InPair, Stands
<1>7. CASE UNCHANGED vars
  BY <1>6, <1>7 DEF vars, vdpVars
<1> QED BY <1>1, <1>2, <1>3, <1>4, <1>5, <1>6, <1>7, VdpSteps

\* The VDP stands at the address the program sent last, and knows whether it is in the
\* middle of one, over resets, saved images and restored ones.
THEOREM VdpStandsAsSent == Spec => []VdpAddressAsSent
<1>1. Init => VdpInv
  <2>1. 0 \in Byte
    BY SizeAssumption DEF Byte
  <2> SUFFICES ASSUME VdpInit PROVE VdpInv
    BY DEF Init
  <2>2. /\ vdp = [latch |-> 0, addr |-> 0, byte |-> [i \in {0, 1} |-> 0]]
        /\ vdpImage = None
        /\ vdpSent = [half |-> None, at |-> None, run |-> 0]
    BY DEF VdpInit
  <2>3. VdpShape
    BY <2>1, <2>2 DEF VdpShape, Bit, Half, Known, SentShape
  <2> QED BY <2>1, <2>2, <2>3 DEF VdpInv, InPair, Stands
<1>2. VdpInv => VdpAddressAsSent
  BY DEF VdpInv, VdpAddressAsSent, InPair, Stands
<1> QED BY <1>1, <1>2, VdpInductive, PTL DEF Spec

-----------------------------------------------------------------------------
(* The GROM.  Where a pair of reads stands is said by the latch of reads,   *)
(* as long as it is known at all.                                          *)

GromShape ==
  /\ grom \in [latch : Bit, addr : Int, byte : [Bit -> Byte], read : Bit, cart : Bit]
  /\ gromSent \in SentShape
  /\ gromImage = None \/ gromImage \in [latch : Bit, addr : Int, sent : SentShape]

NextHigh == ((grom.addr + 1) % AddrSize) \div Size
NextLow == ((grom.addr + 1) % AddrSize) % Size

GotInv ==
  \/ gromGot = None
  \/ /\ gromGot \in Seq(Int)
     /\ Len(gromGot) = 0 \/ Len(gromGot) = 1 \/ Len(gromGot) = 2
     /\ grom.read = IF Len(gromGot) = 1 THEN 1 ELSE 0
     /\ Len(gromGot) # 0 => gromGot[1] = NextHigh
     /\ Len(gromGot) = 2 => gromGot[2] = NextLow

GromInv ==
  /\ GromShape
  /\ GotInv
  /\ ~fault => /\ InPair(grom.latch, gromSent.half)
               /\ gromSent.half \notin {None, Torn} => grom.byte[1] = gromSent.half
               /\ Stands(grom.addr, gromSent.at)
  /\ gromImage # None => /\ InPair(gromImage.latch, gromImage.sent.half)
                         /\ Stands(gromImage.addr, gromImage.sent.at)

\* What any step may be to the GROM.
LEMMA GromSteps ==
  ASSUME Next
  PROVE  \/ \E b \in GromBytes : GromSetAddress(b)
         \/ GromReadAddress \/ GromData
         \/ (LoadCartGROM \/ GromReset \/ GromSave \/ GromLoad) /\ ~fault
         \/ UNCHANGED gromVars
BY DEF Next, Access, Elsewhere, NoAnswer, ResetCPU, SaveImage, LoadImage, Undefined,
       GromNext, vars, gromVars

LEMMA DivMod ==
  ASSUME NEW m \in Nat \ {0}, NEW n \in Int
  PROVE  (n \div m) * m + (n % m) = n
<1>1. n = m * (n \div m) + (n % m)
  OBVIOUS
<1>2. n \div m \in Int /\ n % m \in Int
  OBVIOUS
<1>3. m * (n \div m) = (n \div m) * m
  BY <1>2
<1> QED BY <1>1, <1>2, <1>3

LEMMA GromArithmetic ==
  /\ \A hi, lo \in Byte : hi * Size + lo \in Int
  /\ \A a \in Int : /\ (a + 1) % AddrSize \in Int
                    /\ LET next == (a + 1) % AddrSize
                       IN (next \div Size) * Size + (next % Size) = next
<1>1. Size \in Nat \ {0} /\ AddrSize \in Nat \ {0}
  BY SizeAssumption DEF AddrSize
<1>2. \A a \in Int : (a + 1) % AddrSize \in Int
  BY <1>1
<1>3. \A n \in Int : (n \div Size) * Size + (n % Size) = n
  BY <1>1, DivMod
<1> QED BY <1>1, <1>2, <1>3 DEF Byte

LEMMA GromInductive == GromInv /\ [Next]_vars => GromInv'
<1> USE NoneAssumption DEF Bit, Half, Known, SentShape
<1> SUFFICES ASSUME GromInv, [Next]_vars PROVE GromInv'
  OBVIOUS
<1>0. GromShape /\ (~fault' => ~fault)
  BY FaultStays DEF GromInv, vars, flags
<1> DEFINE Regs == [latch : Bit, addr : Int, byte : [Bit -> Byte], read : Bit, cart : Bit]
<1>1. ASSUME NEW b \in GromBytes, GromSetAddress(b) PROVE GromInv'
  <2> DEFINE new == GromLatched(b)
             p == new.byte[1] * Size + new.byte[0]
  <2>1. ~fault /\ b \in Byte /\ b # None /\ b # Torn /\ gromImage' = gromImage /\ gromGot' = << >>
    BY <1>1, GromAssumption DEF GromSetAddress, Running, Byte
  <2>2. /\ grom' = IF new.latch = 1 THEN new ELSE [new EXCEPT !.addr = p]
        /\ gromSent' = GromSentWith(b)
    <3> HIDE DEF new
    <3> QED BY <1>1 DEF GromSetAddress, new
  <2>3. CASE gromSent.half = None
    <3>1. grom.latch = 0
      BY <2>1, <2>3 DEF GromInv, InPair
    <3>2. grom' = [grom EXCEPT !.latch = 1, !.read = 0, !.byte[1] = b]
      <4>1. new = [grom EXCEPT !.latch = 1, !.read = 0, !.byte[1] = b] /\ new.latch = 1
        BY <1>0, <3>1 DEF GromLatched, GromShape
      <4> QED BY <2>2, <4>1
    <3>3. /\ grom'.latch = 1 /\ grom'.read = 0 /\ grom'.byte[1] = b /\ grom'.addr = grom.addr
          /\ grom' \in Regs
      BY <1>0, <2>1, <3>2 DEF GromShape
    <3>4. gromSent' \in SentShape /\ gromSent'.half = b /\ gromSent'.at = gromSent.at
      BY <1>0, <2>1, <2>2, <2>3 DEF GromSentWith, GromShape
    <3> HIDE DEF new, p
    <3> QED BY <1>0, <2>1, <3>3, <3>4 DEF GromInv, GromShape, GotInv, InPair, Stands
  <2>4. CASE gromSent.half # None
    <3>1. grom.latch = 1
      BY <1>0, <2>1, <2>4 DEF GromInv, GromShape, InPair
    <3> DEFINE at == IF gromSent.half = Torn THEN None ELSE gromSent.half * Size + b
               addr == grom.byte[1] * Size + b
    <3>2. /\ new = [grom EXCEPT !.latch = 0, !.read = 0, !.byte[0] = b]
          /\ new.latch = 0 /\ new.byte[0] = b /\ new.byte[1] = grom.byte[1]
      BY <1>0, <3>1 DEF GromLatched, GromShape
    <3>3. gromSent.half # Torn => grom.byte[1] = gromSent.half
      BY <2>1, <2>4 DEF GromInv
    <3>4. grom.byte[1] \in Byte /\ addr \in Int /\ at \in Known /\ Stands(addr, at)
      <4>1. grom.byte[1] \in Byte
        BY <1>0 DEF GromShape
      <4>2. addr \in Int
        BY <2>1, <4>1, GromArithmetic
      <4>3. at = None \/ at = addr
        BY <3>3
      <4> HIDE DEF at, addr
      <4> QED BY <4>1, <4>2, <4>3 DEF Stands
    <3>5. grom' = [new EXCEPT !.addr = addr]
      <4> p = addr
        BY <3>2
      <4> HIDE DEF new, p, addr
      <4> QED BY <2>2, <3>2
    <3>6. gromSent' = [half |-> None, run |-> 0, at |-> at]
      BY <2>2, <2>4 DEF GromSentWith
    <3>7. grom'.latch = 0 /\ grom'.read = 0 /\ grom'.addr = addr /\ grom' \in Regs
      <4>1. grom' = [grom EXCEPT !.latch = 0, !.read = 0, !.byte[0] = b, !.addr = addr]
        <5> HIDE DEF addr
        <5> QED BY <1>0, <3>2, <3>5 DEF GromShape
      <4> HIDE DEF addr, new
      <4> QED BY <1>0, <2>1, <3>4, <4>1 DEF GromShape
    <3>8. gromSent' \in SentShape /\ gromSent'.half = None /\ gromSent'.at = at
      BY <3>4, <3>6
    <3> HIDE DEF new, p, at, addr
    <3> QED BY <1>0, <2>1, <3>4, <3>7, <3>8 DEF GromInv, GromShape, GotInv, InPair
  <2> QED BY <2>3, <2>4
<1>2. CASE GromReadAddress
  <2> DEFINE byte == IF grom.read = 0 THEN NextHigh ELSE NextLow
  <2>1. /\ UNCHANGED <<fault, gromImage, gromSent>>
        /\ grom' = [grom EXCEPT !.read = 1 - @]
        /\ gromGot' = IF gromGot = None THEN None
                      ELSE IF Len(gromGot) = 2 THEN <<byte>> ELSE Append(gromGot, byte)
    BY <1>2 DEF GromReadAddress, flags, NextHigh, NextLow
  <2>2. /\ grom'.latch = grom.latch /\ grom'.addr = grom.addr /\ grom'.byte = grom.byte
        /\ grom'.read = 1 - grom.read /\ grom' \in Regs
    BY <1>0, <2>1 DEF GromShape
  <2>3. GotInv'
    <3>1. NextHigh' = NextHigh /\ NextLow' = NextLow
      BY <2>2 DEF NextHigh, NextLow
    <3>2. byte \in Int
      <4> grom.addr \in Int
        BY <1>0 DEF GromShape
      <4> QED BY GromArithmetic, SizeAssumption DEF NextHigh, NextLow
    <3>3. CASE gromGot = None
      BY <2>1, <3>3 DEF GotInv
    <3>4. CASE gromGot # None /\ Len(gromGot) = 1
      <4>1. gromGot' = Append(gromGot, byte) /\ byte = NextLow
        BY <2>1, <3>4 DEF GromInv, GotInv
      <4>2. gromGot \in Seq(Int) /\ gromGot[1] = NextHigh /\ grom.read = 1
        BY <3>4 DEF GromInv, GotInv
      <4> HIDE DEF byte
      <4>3. gromGot' \in Seq(Int) /\ Len(gromGot') = 2 /\ gromGot'[1] = NextHigh /\ gromGot'[2] = byte
        <5>1. /\ Append(gromGot, byte) \in Seq(Int)
              /\ Len(Append(gromGot, byte)) = Len(gromGot) + 1
              /\ \A i \in 1..Len(gromGot) : Append(gromGot, byte)[i] = gromGot[i]
              /\ Append(gromGot, byte)[Len(gromGot) + 1] = byte
          BY <3>2, <4>2, AppendProperties
        <5>2. 1 \in 1..Len(gromGot) /\ Len(gromGot) + 1 = 2
          BY <3>4
        <5> QED BY <4>1, <4>2, <5>1, <5>2
      <4> QED BY <2>2, <3>1, <4>1, <4>2, <4>3 DEF GotInv
    <3>5. CASE gromGot # None /\ Len(gromGot) # 1
      <4>1. grom.read = 0 /\ byte = NextHigh /\ gromGot \in Seq(Int)
        BY <3>5 DEF GromInv, GotInv
      <4> HIDE DEF byte
      <4>2. gromGot' \in Seq(Int) /\ Len(gromGot') = 1 /\ gromGot'[1] = byte
        <5>1. CASE Len(gromGot) = 2
          BY <2>1, <3>2, <3>5, <5>1
        <5>2. CASE Len(gromGot) = 0
          BY <2>1, <3>2, <3>5, <4>1, <5>2, AppendProperties
        <5> QED BY <3>5, <5>1, <5>2 DEF GromInv, GotInv
      <4> QED BY <2>2, <3>1, <4>1, <4>2 DEF GotInv
    <3> QED BY <3>3, <3>4, <3>5
  <2> HIDE DEF byte
  <2> QED BY <1>0, <2>1, <2>2, <2>3 DEF GromInv, GromShape, InPair, Stands
<1>3. CASE GromData
  <2> DEFINE next == (grom.addr + 1) % AddrSize
             at == IF gromSent.at = None THEN None ELSE (gromSent.at + 1) % AddrSize
  <2>1. /\ ~fault /\ gromImage' = gromImage /\ gromGot' = << >>
        /\ grom' = [grom EXCEPT !.latch = 0, !.read = 0, !.addr = next]
        /\ gromSent' = [gromSent EXCEPT !.half = None, !.run = @ + 1, !.at = at]
    BY <1>3 DEF GromData, Running
  <2>2. next \in Int /\ at \in Known /\ Stands(next, at)
    <3>1. grom.addr \in Int /\ gromSent.at \in Known
      BY <1>0 DEF GromShape
    <3>2. next \in Int /\ (gromSent.at # None => at \in Int /\ at = next)
      BY <2>1, <3>1, GromArithmetic DEF GromInv, Stands
    <3> QED BY <3>2 DEF Stands
  <2> HIDE DEF next, at
  <2>3. grom'.latch = 0 /\ grom'.read = 0 /\ grom'.addr = next /\ grom' \in Regs
    BY <1>0, <2>1, <2>2 DEF GromShape
  <2>4. gromSent' \in SentShape /\ gromSent'.half = None /\ gromSent'.at = at
    <3>1. gromSent \in SentShape /\ gromSent.run + 1 \in Nat
      BY <1>0 DEF GromShape
    <3>2. gromSent' = [gromSent EXCEPT !.half = None, !.at = at, !.run = gromSent.run + 1]
      BY <2>1
    <3> QED BY <2>2, <3>1, <3>2
  <2> QED BY <1>0, <2>1, <2>2, <2>3, <2>4 DEF GromInv, GromShape, GotInv, InPair
<1>4. CASE LoadCartGROM /\ ~fault
  <2>1. /\ grom'.latch = grom.latch /\ grom'.addr = grom.addr /\ grom'.byte = grom.byte
        /\ grom'.read = grom.read /\ grom' \in Regs
    BY <1>0, <1>4 DEF LoadCartGROM, GromShape
  <2>2. UNCHANGED <<gromImage, gromSent, gromGot, NextHigh, NextLow>>
    BY <1>4, <2>1 DEF LoadCartGROM, NextHigh, NextLow
  <2> QED BY <1>0, <1>4, <2>1, <2>2 DEF GromInv, GromShape, GotInv, InPair, Stands
<1>5. CASE GromReset /\ ~fault
  <2>1. /\ grom' = [grom EXCEPT !.latch = 0, !.addr = 0, !.cart = 0]
        /\ gromSent' = [half |-> None, at |-> 0, run |-> 0]
        /\ gromGot' = None /\ gromImage' = gromImage
    BY <1>5 DEF GromReset
  <2>2. grom'.latch = 0 /\ grom'.addr = 0 /\ grom'.read = grom.read /\ grom' \in Regs
    <3>1. grom \in Regs
      BY <1>0 DEF GromShape
    <3>2. grom'.latch = 0 /\ grom'.addr = 0 /\ grom'.read = grom.read /\ grom'.byte = grom.byte
      BY <2>1, <3>1
    <3>3. grom' \in Regs
      <4> DEFINE zero == 0
      <4>1. zero \in Int /\ grom' = [grom EXCEPT !.latch = 0, !.addr = zero, !.cart = 0]
        BY <2>1
      <4> HIDE DEF zero
      <4> QED BY <3>1, <4>1
    <3> QED BY <3>2, <3>3
  <2>3. gromSent' \in SentShape /\ gromSent'.half = None /\ gromSent'.at = 0
    BY <2>1
  <2> QED BY <1>0, <1>5, <2>1, <2>2, <2>3 DEF GromInv, GromShape, GotInv, InPair, Stands
<1>6. CASE GromSave /\ ~fault
  <2>1. UNCHANGED <<grom, gromSent, gromGot, NextHigh, NextLow>>
    BY <1>6 DEF GromSave, NextHigh, NextLow
  <2>2. gromImage' = [latch |-> grom.latch, addr |-> grom.addr, sent |-> [gromSent EXCEPT !.run = 0]]
    BY <1>6 DEF GromSave
  <2> QED BY <1>0, <1>6, <2>1, <2>2 DEF GromInv, GromShape, GotInv, InPair, Stands
<1>7. CASE GromLoad /\ ~fault
  BY <1>0, <1>7 DEF GromLoad, GromInv, GromShape, GotInv, InPair, Stands
<1>8. CASE UNCHANGED gromVars
  <2>1. UNCHANGED <<grom, gromImage, gromSent, gromGot, NextHigh, NextLow>>
    BY <1>8 DEF gromVars, NextHigh, NextLow
  <2> QED BY <1>0, <2>1 DEF GromInv, GromShape, GotInv, InPair, Stands
<1>9. CASE UNCHANGED vars
  BY <1>8, <1>9 DEF vars, gromVars
<1> QED BY <1>1, <1>2, <1>3, <1>4, <1>5, <1>6, <1>7, <1>8, <1>9, GromSteps

LEMMA GromInvariant == Spec => []GromInv
<1>1. Init => GromInv
  <2>1. 0 \in Byte
    BY SizeAssumption DEF Byte
  <2> SUFFICES ASSUME GromInit PROVE GromInv
    BY DEF Init
  <2>2. /\ grom = [latch |-> 0, addr |-> 0, byte |-> [i \in {0, 1} |-> 0], read |-> 0,
                  cart |-> 0]
        /\ gromImage = None /\ gromGot = << >>
        /\ gromSent = [half |-> None, at |-> 0, run |-> 0]
    BY DEF GromInit
  <2>3. GromShape
    BY <2>1, <2>2 DEF GromShape, Bit, Half, Known, SentShape
  <2> QED BY <2>1, <2>2, <2>3 DEF GromInv, GotInv, InPair, Stands
<1> QED BY <1>1, GromInductive, PTL DEF Spec

\* The GROM stands at the address the program sent last, advanced by its reads, over
\* reads that break off a pair, resets, saved images and restored ones.
THEOREM GromStandsAsSent == Spec => []GromAddressAsSent
<1>1. GromInv => GromAddressAsSent
  BY DEF GromInv, GromAddressAsSent, InPair, Stands
<1> QED BY <1>1, GromInvariant, PTL

\* Two reads of the address give its two bytes in the order in which they must be sent.
THEOREM PairsAreRead == Spec => []ReadPairsInOrder
<1>1. GromInv => ReadPairsInOrder
  <2> SUFFICES ASSUME GromInv, gromGot # None PROVE ReadPairsInOrder
    BY DEF ReadPairsInOrder
  <2>1. NextHigh * Size + NextLow = (grom.addr + 1) % AddrSize
    <3> grom.addr \in Int
      BY DEF GromInv, GromShape
    <3> DEFINE next == (grom.addr + 1) % AddrSize
    <3>1. (next \div Size) * Size + (next % Size) = next
      BY GromArithmetic
    <3> QED BY <3>1 DEF NextHigh, NextLow
  <2> QED BY <2>1 DEF GromInv, GotInv, ReadPairsInOrder
<1> QED BY <1>1, GromInvariant, PTL

-----------------------------------------------------------------------------
(* The expansion.  A store through one window disturbs what is seen through *)
(* the other one only.                                                     *)

KeptIn(m, s) ==
  /\ m \in [0..2 * HighWords - 1 -> Byte]
  /\ s \in [Cells -> Byte \cup {None}]
  /\ \A w \in {"low", "high"} :
       (\A a \in Cells : s[a] # None => Window(a) = w)
         => \A a \in Cells : s[a] # None => m[Offset(a)] = s[a]

MemInv == KeptIn(mem, stored)

LEMMA CellFacts ==
  /\ \A a \in Cells : Offset(a) \in 0..2 * HighWords - 1 /\ Window(a) \in {"low", "high"}
  /\ \A a, b \in Cells : Window(a) = Window(b) /\ Offset(a) = Offset(b) => a = b
  /\ \A a \in EvenCells : /\ a \in Cells /\ After(a) \in Cells
                         /\ Window(After(a)) = Window(a) /\ Offset(After(a)) = Offset(a) + 1
                         /\ Offset(After(a)) # Offset(a) /\ a # After(a)
<1> USE WordsAssumption
<1>1. \A a \in Cells : /\ a = <<Window(a), Offset(a)>>
                      /\ \/ Window(a) = "low" /\ Offset(a) \in 0..2 * LowWords - 1
                         \/ Window(a) = "high" /\ Offset(a) \in 0..2 * HighWords - 1
  BY DEF Cells, Window, Offset
<1>2. \A a \in EvenCells : After(a) \in Cells
  <2> TAKE a \in EvenCells
  <2>1. a \in Cells /\ Offset(a) % 2 = 0
    BY DEF EvenCells
  <2>2. CASE Window(a) = "low"
    <3>1. Offset(a) \in 0..2 * LowWords - 1 /\ Offset(a) + 1 \in 0..2 * LowWords - 1
      BY <1>1, <2>1, <2>2
    <3> QED BY <2>2, <3>1 DEF After, Cells, Window, Offset
  <2>3. CASE Window(a) = "high"
    <3>1. Offset(a) \in 0..2 * HighWords - 1 /\ Offset(a) + 1 \in 0..2 * HighWords - 1
      BY <1>1, <2>1, <2>3
    <3> QED BY <2>3, <3>1 DEF After, Cells, Window, Offset
  <2> QED BY <1>1, <2>1, <2>2, <2>3
<1>3. \A a \in EvenCells : Window(After(a)) = Window(a) /\ Offset(After(a)) = Offset(a) + 1
  BY DEF After, Window, Offset
<1>4. \A a \in Cells : Offset(a) \in 0..2 * HighWords - 1 /\ Window(a) \in {"low", "high"}
  BY <1>1
<1>5. \A a, b \in Cells : Window(a) = Window(b) /\ Offset(a) = Offset(b) => a = b
  BY <1>1
<1>6. \A a \in EvenCells : Offset(After(a)) # Offset(a) /\ a \in Cells /\ a # After(a)
  BY <1>3, <1>4 DEF EvenCells
<1> QED BY <1>2, <1>3, <1>4, <1>5, <1>6

LEMMA BytesOfWords ==
  ASSUME NEW hi \in Byte, NEW lo \in Byte
  PROVE  (hi * Size + lo) \div Size = hi /\ (hi * Size + lo) % Size = lo
<1> DEFINE n == hi * Size + lo
           q == n \div Size
           r == n % Size
<1>1. Size \in Nat \ {0} /\ hi \in Int /\ lo \in Int /\ 0 <= lo /\ lo < Size
  BY SizeAssumption DEF Byte
<1>2. n \in Int
  BY <1>1
<1>3. q \in Int /\ r \in Int /\ 0 <= r /\ r < Size /\ n = Size * q + r
  <2> HIDE DEF n
  <2> QED BY <1>1, <1>2
<1>4. Size * (q - hi) = lo - r
  <2>1. Size * q + r = hi * Size + lo
    BY <1>3
  <2> HIDE DEF n, q, r
  <2>2. Size * (q - hi) = Size * q - hi * Size
    BY <1>1, <1>3
  <2> QED BY <1>1, <1>3, <2>1, <2>2
<1> HIDE DEF n, q, r
<1>5. CASE q - hi >= 1
  <2>1. Size * (q - hi) >= Size
    BY <1>1, <1>3, <1>5
  <2> QED BY <1>1, <1>3, <1>4, <2>1
<1>6. CASE q - hi <= -1
  <2>1. Size * (q - hi) <= -Size
    BY <1>1, <1>3, <1>6
  <2> QED BY <1>1, <1>3, <1>4, <2>1
<1>7. CASE q - hi = 0
  <2>1. q = hi /\ r = lo
    BY <1>1, <1>3, <1>4, <1>7
  <2> QED BY <2>1 DEF n, q, r
<1> QED BY <1>1, <1>3, <1>5, <1>6, <1>7

\* The effect of a store, of a byte or of a word, on what is kept.
LEMMA MemSteps ==
  ASSUME Next
  PROVE  \/ \E a \in Cells, b \in Bytes : StoreByteAt(a, b)
         \/ \E a \in EvenCells, hi, lo \in Bytes : StoreWordAt(a, hi * Size + lo)
         \/ ClearMemory
         \/ UNCHANGED memVars
BY DEF Next, Access, Elsewhere, NoAnswer, ResetCPU, SaveImage, LoadImage, Undefined,
       MemNext, vars, memVars

LEMMA StorePreserves ==
  ASSUME NEW m, NEW s, KeptIn(m, s), NEW a \in Cells, NEW b \in Byte
  PROVE  KeptIn([m EXCEPT ![Offset(a)] = b], [s EXCEPT ![a] = b])
<1> DEFINE m1 == [m EXCEPT ![Offset(a)] = b]
           s1 == [s EXCEPT ![a] = b]
<1>1. b # None
  BY NoneAssumption DEF Byte
<1>2. m1 \in [0..2 * HighWords - 1 -> Byte] /\ s1 \in [Cells -> Byte \cup {None}]
  BY CellFacts DEF KeptIn
<1>3. ASSUME NEW w \in {"low", "high"}, \A c \in Cells : s1[c] # None => Window(c) = w,
             NEW c \in Cells, s1[c] # None
      PROVE  m1[Offset(c)] = s1[c]
  <2>1. Window(a) = w /\ Window(c) = w
    BY <1>1, <1>3 DEF KeptIn
  <2>2. \A d \in Cells : s[d] # None => Window(d) = w
    BY <1>3, <2>1 DEF KeptIn
  <2>3. CASE c = a
    BY <2>3, CellFacts DEF KeptIn
  <2>4. CASE c # a
    <3>1. Offset(c) # Offset(a)
      BY <2>1, <2>4, CellFacts
    <3>2. s1[c] = s[c] /\ m1[Offset(c)] = m[Offset(c)]
      BY <2>4, <3>1, CellFacts DEF KeptIn
    <3> QED BY <1>3, <2>2, <3>2 DEF KeptIn
  <2> QED BY <2>3, <2>4
<1> HIDE DEF m1, s1
<1>4. KeptIn(m1, s1)
  BY <1>2, <1>3 DEF KeptIn
<1> QED BY <1>4 DEF m1, s1

LEMMA MemInductive == MemInv /\ [Next]_vars => MemInv'
<1> SUFFICES ASSUME MemInv, [Next]_vars PROVE MemInv'
  OBVIOUS
<1>0. Bytes \subseteq Byte /\ KeptIn(mem, stored)
  BY SizeAssumption DEF Byte, MemInv
<1>1. ASSUME NEW a \in Cells, NEW b \in Bytes, StoreByteAt(a, b) PROVE MemInv'
  <2>1. mem' = [mem EXCEPT ![Offset(a)] = b] /\ stored' = [stored EXCEPT ![a] = b]
    BY <1>1 DEF StoreByteAt
  <2>2. KeptIn([mem EXCEPT ![Offset(a)] = b], [stored EXCEPT ![a] = b])
    BY <1>0, StorePreserves
  <2> QED BY <2>1, <2>2 DEF MemInv
<1>2. ASSUME NEW a \in EvenCells, NEW hi \in Bytes, NEW lo \in Bytes,
             StoreWordAt(a, hi * Size + lo)
      PROVE  MemInv'
  <2> DEFINE mem1 == [mem EXCEPT ![Offset(a)] = hi]
             stored1 == [stored EXCEPT ![a] = hi]
  <2>1. /\ mem' = [mem1 EXCEPT ![Offset(After(a))] = lo]
        /\ stored' = [stored1 EXCEPT ![After(a)] = lo]
    <3>1. (hi * Size + lo) \div Size = hi /\ (hi * Size + lo) % Size = lo
      BY <1>0, BytesOfWords
    <3>2. Offset(After(a)) = Offset(a) + 1
      BY CellFacts
    <3> QED BY <1>2, <3>1, <3>2 DEF StoreWordAt
  <2>2. a \in Cells /\ After(a) \in Cells /\ hi \in Byte /\ lo \in Byte
    BY <1>0, CellFacts
  <2>3. KeptIn(mem1, stored1)
    BY <1>0, <2>2, StorePreserves
  <2> HIDE DEF mem1, stored1
  <2>4. KeptIn([mem1 EXCEPT ![Offset(After(a))] = lo], [stored1 EXCEPT ![After(a)] = lo])
    BY <2>2, <2>3, StorePreserves
  <2> QED BY <2>1, <2>4 DEF MemInv
<1>3. CASE ClearMemory
  <2>1. 0 \in Byte
    BY SizeAssumption DEF Byte
  <2>2. DOMAIN mem = 0..2 * HighWords - 1
    BY DEF MemInv, KeptIn
  <2> QED BY <1>3, <2>1, <2>2 DEF ClearMemory, MemInv, KeptIn
<1>4. CASE UNCHANGED memVars
  BY <1>4 DEF memVars, MemInv
<1>5. CASE UNCHANGED vars
  BY <1>4, <1>5 DEF vars, memVars
<1> QED BY <1>1, <1>2, <1>3, <1>4, <1>5, MemSteps

\* What is stored through one window of the expansion is read back through it, by bytes
\* and by words, for windows of any size that start in one array.
THEOREM WindowReadsBack == Spec => []OneWindowReadsBack
<1>1. Init => MemInv
  <2>1. 0 \in Byte
    BY SizeAssumption DEF Byte
  <2> QED BY <2>1 DEF Init, MemInit, MemInv, KeptIn
<1>2. MemInv => OneWindowReadsBack
  <2> SUFFICES ASSUME MemInv, NEW w \in {"low", "high"},
                      \A a \in Cells : stored[a] # None => Window(a) = w
               PROVE  /\ \A a \in Cells : Kept(a)
                      /\ \A a \in EvenCells : stored[a] # None /\ stored[After(a)] # None =>
                           ReadWordAt(a) = stored[a] * Size + stored[After(a)]
    BY DEF OneWindowReadsBack
  <2>1. \A a \in Cells : Kept(a)
    BY DEF MemInv, KeptIn, Kept, ReadByteAt
  <2>2. ASSUME NEW a \in EvenCells, stored[a] # None, stored[After(a)] # None
        PROVE  ReadWordAt(a) = stored[a] * Size + stored[After(a)]
    <3>1. mem[Offset(a)] = stored[a] /\ mem[Offset(a) + 1] = stored[After(a)]
      BY <2>1, <2>2, CellFacts DEF Kept, ReadByteAt
    <3> QED BY <3>1 DEF ReadWordAt
  <2> QED BY <2>1, <2>2
<1> QED BY <1>1, <1>2, MemInductive, PTL DEF Spec

-----------------------------------------------------------------------------
(* Sound.  What the program last told of a generator is what its registers  *)
(* hold and what the last change queued for it says, or, with no change     *)
(* queued, what is heard.                                                   *)

\* A nonempty set of slots has a last one.
LEMMA LastSlot ==
  ASSUME NEW n \in Nat, NEW S \in SUBSET (1..n), S # {}
  PROVE  \E k \in S : \A j \in S : j <= k
<1> DEFINE T == {n - j : j \in S}
           R == {ss \in Nat \X Nat : ss[1] < ss[2]}
<1>1. T \in SUBSET Nat /\ T # {}
  <2>1. \A j \in S : n - j \in Nat
    OBVIOUS
  <2> QED BY <2>1
<1>2. IsWellFoundedOn(R, Nat)
  BY NatLessThanWellFounded DEF OpToRel
<1>3. PICK x \in T : \A y \in T : ~(<<y, x>> \in R)
  <2> HIDE DEF T, R
  <2> QED BY <1>1, <1>2, WFMin
<1>4. \A y \in T : ~(y < x)
  <2> HIDE DEF T
  <2> QED BY <1>1, <1>3
<1>5. PICK k \in S : x = n - k
  OBVIOUS
<1>6. \A j \in S : ~(n - j < n - k)
  BY <1>4, <1>5
<1> QED BY <1>6

Bits == SUBSET (LowBits \cup HighBits)
Levels == Attenuations \cup {0}
Tone == [g : Tones, freq : Bits, att : Levels]
Sounding == [freq : Bits \cup {None}, att : Levels \cup {None}]

SoundShape ==
  /\ chip \in [freq : [Generators -> Bits], att : [Generators -> Levels],
               generator : Generators, callback : BOOLEAN,
               setup : {"none", "registers", "done"}]
  /\ workQ \in Seq(Tone)
  /\ heard \in [Tones -> [freq : Bits, att : Levels]]
  /\ meant \in [as : [Generators -> Sounding],
                half : [g : Generators, bits : Bits] \cup {None}]

NoneTold(g) == \A i \in 1..Len(workQ) : workQ[i].g # g
LastTold(g, i) == workQ[i].g = g /\ \A j \in 1..Len(workQ) : j > i => workQ[j].g # g

FreqReaches(g) ==
  meant.as[g].freq # None =>
    /\ chip.freq[g] = meant.as[g].freq
    /\ \A i \in 1..Len(workQ) : LastTold(g, i) => workQ[i].freq = meant.as[g].freq
    /\ NoneTold(g) => heard[g].freq = meant.as[g].freq

AttReaches(g) ==
  meant.as[g].att # None =>
    /\ chip.att[g] = meant.as[g].att
    /\ \A i \in 1..Len(workQ) : LastTold(g, i) => workQ[i].att = meant.as[g].att
    /\ NoneTold(g) => heard[g].att = meant.as[g].att

\* A frequency half sent is in the registers of the generator named last.
HalfSent ==
  meant.half # None => /\ meant.half.g = chip.generator
                       /\ meant.half.bits = chip.freq[chip.generator]

SoundInv ==
  /\ SoundShape
  /\ chip.callback => /\ chip.setup = "done"
                      /\ HalfSent
                      /\ \A g \in Tones : FreqReaches(g) /\ AttReaches(g)

\* What any step may be to the sound chip and its queue.
LEMMA SoundSteps ==
  ASSUME Next
  PROVE  SoundNext \/ SoundElsewhere \/ UNCHANGED soundVars
BY DEF Next, Access, Elsewhere, NoAnswer, ResetCPU, SaveImage, LoadImage, Undefined, vars


\* A change put into the queue is the last one of its generator and no other's.
LEMMA PutLast ==
  ASSUME workQ \in Seq(Tone), NEW w \in Tone, workQ' = Append(workQ, w), NEW h
  PROVE  /\ h = w.g => /\ ~NoneTold(h)'
                       /\ \A i \in 1..Len(workQ') : LastTold(h, i)' => workQ'[i] = w
         /\ h # w.g => /\ NoneTold(h)' => NoneTold(h)
                       /\ \A i \in 1..Len(workQ') : LastTold(h, i)' =>
                            /\ i \in 1..Len(workQ) /\ LastTold(h, i)
                            /\ workQ'[i] = workQ[i]
<1>1. /\ Len(workQ) \in Nat /\ Len(workQ') = Len(workQ) + 1
      /\ workQ'[Len(workQ) + 1] = w
      /\ \A i \in 1..Len(workQ) : workQ'[i] = workQ[i]
  OBVIOUS
<1>2. CASE h = w.g
  BY <1>1, <1>2 DEF NoneTold, LastTold
<1>3. CASE h # w.g
  BY <1>1, <1>3 DEF NoneTold, LastTold
<1> QED BY <1>2, <1>3

\* A change taken from the queue was the last one of its generator, or is not yet.
LEMMA TakeFirst ==
  ASSUME workQ \in Seq(Tone), workQ # << >>, workQ' = Tail(workQ), NEW h
  PROVE  /\ 1 \in 1..Len(workQ)
         /\ NoneTold(h)' => NoneTold(h) \/ LastTold(h, 1)
         /\ \A i \in 1..Len(workQ') : LastTold(h, i)' =>
              i + 1 \in 1..Len(workQ) /\ LastTold(h, i + 1) /\ workQ'[i] = workQ[i + 1]
<1>1. /\ Len(workQ) \in Nat \ {0} /\ Len(workQ') = Len(workQ) - 1
      /\ \A i \in 1..Len(workQ') : workQ'[i] = workQ[i + 1]
  BY HeadTailProperties
<1>2. \A j \in 1..Len(workQ) : j > 1 => j - 1 \in 1..Len(workQ') /\ workQ[j] = workQ'[j - 1]
  BY <1>1
<1>3. \A i \in 1..Len(workQ') : LastTold(h, i)' =>
        i + 1 \in 1..Len(workQ) /\ LastTold(h, i + 1) /\ workQ'[i] = workQ[i + 1]
  <2> TAKE i \in 1..Len(workQ')
  <2> HAVE LastTold(h, i)'
  <2>1. i + 1 \in 1..Len(workQ) /\ workQ'[i] = workQ[i + 1]
    BY <1>1
  <2>2. ASSUME NEW j \in 1..Len(workQ), j > i + 1 PROVE workQ[j].g # h
    <3>1. j - 1 \in 1..Len(workQ') /\ j - 1 > i /\ workQ[j] = workQ'[j - 1]
      BY <1>1, <1>2, <2>2
    <3> QED BY <3>1 DEF LastTold
  <2> QED BY <2>1, <2>2 DEF LastTold
<1>4. NoneTold(h)' => \A j \in 1..Len(workQ) : j > 1 => workQ[j].g # h
  BY <1>2 DEF NoneTold
<1>5. NoneTold(h)' => NoneTold(h) \/ LastTold(h, 1)
  BY <1>1, <1>4 DEF NoneTold, LastTold
<1> QED BY <1>1, <1>3, <1>5

\* A change of g's registers of which the program's meaning knows, put into the queue
\* if there is a callback: what is meant of every tone generator still reaches it.
LEMMA ToldReaches ==
  ASSUME SoundShape, SoundShape', NEW g \in Generators, chip.callback,
         \A h \in Tones : FreqReaches(h) /\ AttReaches(h),
         Tell(g, chip'), chip'.callback, heard' = heard,
         \A h \in Generators : h # g => /\ chip'.freq[h] = chip.freq[h]
                                        /\ chip'.att[h] = chip.att[h]
                                        /\ meant'.as[h] = meant.as[h],
         g \in Tones /\ meant'.as[g].freq # None => chip'.freq[g] = meant'.as[g].freq,
         g \in Tones /\ meant'.as[g].att # None => chip'.att[g] = meant'.as[g].att
  PROVE  \A h \in Tones : FreqReaches(h)' /\ AttReaches(h)'
<1>1. Tones \subseteq Generators
  BY ToneAssumption
<1>2. CASE g \notin Tones
  <2>1. workQ' = workQ
    BY <1>2 DEF Tell
  <2> QED BY <1>1, <1>2, <2>1 DEF FreqReaches, AttReaches, NoneTold, LastTold
<1>3. CASE g \in Tones
  <2> DEFINE w == [g |-> g, freq |-> chip'.freq[g], att |-> chip'.att[g]]
  <2>1. workQ' = Append(workQ, w)
    BY <1>3 DEF Tell
  <2>2. w \in Tone /\ w.g = g /\ w.freq = chip'.freq[g] /\ w.att = chip'.att[g]
    BY <1>3 DEF SoundShape, Tone
  <2> HIDE DEF w
  <2> TAKE h \in Tones
  <2>3. workQ \in Seq(Tone)
    BY DEF SoundShape
  <2>4. CASE h = g
    <3>1. ~NoneTold(h)' /\ \A i \in 1..Len(workQ') : LastTold(h, i)' => workQ'[i] = w
      BY <2>1, <2>2, <2>3, <2>4, PutLast
    <3> QED BY <2>2, <2>4, <3>1 DEF FreqReaches, AttReaches
  <2>5. CASE h # g
    <3>1. /\ NoneTold(h)' => NoneTold(h)
          /\ \A i \in 1..Len(workQ') : LastTold(h, i)' =>
               i \in 1..Len(workQ) /\ LastTold(h, i) /\ workQ'[i] = workQ[i]
      BY <2>1, <2>2, <2>3, <2>5, PutLast
    <3>2. FreqReaches(h) /\ AttReaches(h) /\ h \in Generators
      BY <1>1
    <3> QED BY <2>5, <3>1, <3>2 DEF FreqReaches, AttReaches
  <2> QED BY <2>4, <2>5
<1> QED BY <1>2, <1>3

\* Whatever is put into the queue are changes of tones.
LEMMA TellShape ==
  ASSUME SoundShape, NEW g \in Generators, Tell(g, chip'),
         chip'.freq[g] \in Bits, chip'.att[g] \in Levels
  PROVE  workQ' \in Seq(Tone)
<1>1. CASE chip'.callback /\ g \in Tones
  <2> DEFINE w == [g |-> g, freq |-> chip'.freq[g], att |-> chip'.att[g]]
  <2>1. w \in Tone /\ workQ' = Append(workQ, w) /\ workQ \in Seq(Tone)
    BY <1>1 DEF Tone, Tell, SoundShape
  <2> HIDE DEF w
  <2> QED BY <2>1
<1>2. CASE ~(chip'.callback /\ g \in Tones)
  BY <1>2 DEF Tell, SoundShape
<1> QED BY <1>1, <1>2

LEMMA SoundInductive == SoundInv /\ [Next]_vars => SoundInv'
<1> SUFFICES ASSUME SoundInv, [Next]_vars PROVE SoundInv'
  OBVIOUS
<1>0. SoundShape /\ Tones \subseteq Generators /\ 0 \in Tones
  BY ToneAssumption DEF SoundInv
<1> DEFINE Chip == [freq : [Generators -> Bits], att : [Generators -> Levels],
                    generator : Generators, callback : BOOLEAN,
                    setup : {"none", "registers", "done"}]
           Meant == [as : [Generators -> Sounding],
                     half : [g : Generators, bits : Bits] \cup {None}]
           Heard == [Tones -> [freq : Bits, att : Levels]]
<1>a. chip \in Chip /\ meant \in Meant /\ heard \in Heard /\ workQ \in Seq(Tone)
  BY <1>0 DEF SoundShape
<1>1. ASSUME NEW g \in Generators, NEW bits \in SUBSET LowBits, Frequency(g, bits)
      PROVE  SoundInv'
  <2>1. bits \in Bits
    BY DEF Bits
  <2>2. /\ chip' = [chip EXCEPT !.generator = g, !.freq[g] = bits]
        /\ meant' = [meant EXCEPT !.as[g].freq = None, !.half = [g |-> g, bits |-> bits]]
        /\ UNCHANGED <<workQ, heard>>
    BY <1>1 DEF Frequency
  <2>3. chip' \in Chip /\ chip'.freq[g] = bits /\ chip'.generator = g
    BY <1>a, <2>1, <2>2
  <2>4. /\ chip'.callback = chip.callback /\ chip'.setup = chip.setup /\ chip'.att = chip.att
        /\ \A h \in Generators : h # g => chip'.freq[h] = chip.freq[h]
    BY <1>a, <2>2
  <2>5. meant' \in Meant
    <3> DEFINE as == [meant.as EXCEPT ![g].freq = None]
               half == [g |-> g, bits |-> bits]
    <3>1. as \in [Generators -> Sounding]
      BY <1>a DEF Sounding
    <3>2. half \in [g : Generators, bits : Bits]
      BY <2>1
    <3>3. meant' = [meant EXCEPT !.as = as, !.half = half]
      BY <1>a, <2>2
    <3> HIDE DEF as, half
    <3> QED BY <1>a, <3>1, <3>2, <3>3
  <2>6. /\ meant'.half = [g |-> g, bits |-> bits]
        /\ meant'.as[g].freq = None /\ meant'.as[g].att = meant.as[g].att
        /\ \A h \in Generators : h # g => meant'.as[h] = meant.as[h]
    BY <1>a, <2>2 DEF Sounding
  <2>7. SoundShape'
    BY <1>a, <2>2, <2>3, <2>5 DEF SoundShape
  <2>8. HalfSent'
    BY <2>3, <2>6 DEF HalfSent
  <2>9. ASSUME chip.callback, NEW h \in Tones PROVE FreqReaches(h)' /\ AttReaches(h)'
    <3>1. FreqReaches(h) /\ AttReaches(h) /\ h \in Generators
      BY <1>0, <2>9 DEF SoundInv
    <3>2. NoneTold(h)' = NoneTold(h) /\ \A i : LastTold(h, i)' = LastTold(h, i)
      BY <2>2 DEF NoneTold, LastTold
    <3>3. AttReaches(h)'
      BY <2>2, <2>4, <2>6, <3>1, <3>2 DEF AttReaches
    <3>4. FreqReaches(h)'
      BY <2>2, <2>4, <2>6, <3>1, <3>2 DEF FreqReaches
    <3> QED BY <3>3, <3>4
  <2> QED BY <2>4, <2>7, <2>8, <2>9 DEF SoundInv
<1>2. ASSUME NEW g \in Generators, NEW a \in Attenuations, Attenuation(g, a)
      PROVE  SoundInv'
  <2>1. a \in Levels
    BY DEF Levels
  <2>2. /\ chip' = [chip EXCEPT !.generator = g, !.att[g] = a]
        /\ meant' = [meant EXCEPT !.as[g].att = a, !.half = None]
        /\ Tell(g, chip') /\ heard' = heard
    BY <1>2 DEF Attenuation
  <2>3. chip' \in Chip /\ chip'.att[g] = a
    BY <1>a, <2>1, <2>2
  <2>4. /\ chip'.callback = chip.callback /\ chip'.setup = chip.setup /\ chip'.freq = chip.freq
        /\ \A h \in Generators : h # g => chip'.att[h] = chip.att[h]
    BY <1>a, <2>2
  <2>5. meant' \in Meant
    <3> DEFINE as == [meant.as EXCEPT ![g].att = a]
    <3>1. as \in [Generators -> Sounding]
      BY <1>a, <2>1 DEF Sounding
    <3>2. meant' = [meant EXCEPT !.as = as, !.half = None]
      BY <1>a, <2>2
    <3> HIDE DEF as
    <3> QED BY <1>a, <3>1, <3>2
  <2>6. /\ meant'.half = None
        /\ meant'.as[g].att = a /\ meant'.as[g].freq = meant.as[g].freq
        /\ \A h \in Generators : h # g => meant'.as[h] = meant.as[h]
    BY <1>a, <2>2 DEF Sounding
  <2>7. workQ' \in Seq(Tone)
    BY <1>0, <2>2, <2>3, TellShape
  <2>8. SoundShape' /\ HalfSent'
    BY <1>a, <2>2, <2>3, <2>5, <2>6, <2>7 DEF SoundShape, HalfSent
  <2>9. ASSUME chip.callback PROVE \A h \in Tones : FreqReaches(h)' /\ AttReaches(h)'
    <3>1. \A h \in Tones : FreqReaches(h) /\ AttReaches(h)
      BY <2>9 DEF SoundInv
    <3>2. g \in Tones /\ meant'.as[g].freq # None => chip'.freq[g] = meant'.as[g].freq
      BY <2>4, <2>6, <3>1 DEF FreqReaches
    <3> QED BY <1>0, <2>2, <2>3, <2>4, <2>6, <2>8, <2>9, <3>1, <3>2, ToldReaches
  <2> QED BY <2>4, <2>8, <2>9 DEF SoundInv
<1>3. ASSUME NEW bits \in SUBSET HighBits, FrequencyData(bits) PROVE SoundInv'
  <2> DEFINE g == chip.generator
             freq == chip.freq[g] \cup bits
             said == IF meant.half = None THEN None ELSE meant.half.bits \cup bits
  <2>1. g \in Generators /\ freq \in Bits /\ said \in Bits \cup {None}
    <3>1. \A old \in Bits : old \cup bits \in Bits
      BY DEF Bits
    <3>2. chip.freq[g] \in Bits /\ (meant.half # None => meant.half.bits \in Bits)
      BY <1>a
    <3> QED BY <1>a, <3>1, <3>2
  <2>2. /\ chip' = [chip EXCEPT !.freq[g] = freq]
        /\ meant' = [meant EXCEPT !.half = None, !.as[g].freq = said]
        /\ Tell(g, chip') /\ heard' = heard
    <3>1. chip' = [chip EXCEPT !.freq[g] = @ \cup bits]
      BY <1>3 DEF FrequencyData
    <3>2. chip' = [chip EXCEPT !.freq[g] = freq]
      BY <1>a, <3>1
    <3> QED BY <1>3, <3>2 DEF FrequencyData
  <2>a. chip.callback /\ said # None => said = freq
    BY DEF SoundInv, HalfSent
  <2> HIDE DEF g, freq, said
  <2>3. chip' \in Chip /\ chip'.freq[g] = freq
    BY <1>a, <2>1, <2>2
  <2>4. /\ chip'.callback = chip.callback /\ chip'.setup = chip.setup /\ chip'.att = chip.att
        /\ \A h \in Generators : h # g => chip'.freq[h] = chip.freq[h]
    BY <1>a, <2>2
  <2>5. meant' \in Meant
    <3> DEFINE as == [meant.as EXCEPT ![g].freq = said]
    <3>1. as \in [Generators -> Sounding]
      BY <1>a, <2>1 DEF Sounding
    <3>2. meant' = [meant EXCEPT !.as = as, !.half = None]
      BY <1>a, <2>2
    <3> HIDE DEF as
    <3> QED BY <1>a, <3>1, <3>2
  <2>6. /\ meant'.half = None
        /\ meant'.as[g].freq = said /\ meant'.as[g].att = meant.as[g].att
        /\ \A h \in Generators : h # g => meant'.as[h] = meant.as[h]
    BY <1>a, <2>1, <2>2 DEF Sounding
  <2>7. workQ' \in Seq(Tone)
    BY <1>0, <2>1, <2>2, <2>3, TellShape
  <2>8. SoundShape' /\ HalfSent'
    BY <1>a, <2>2, <2>3, <2>5, <2>6, <2>7 DEF SoundShape, HalfSent
  <2>9. ASSUME chip.callback PROVE \A h \in Tones : FreqReaches(h)' /\ AttReaches(h)'
    <3>1. \A h \in Tones : FreqReaches(h) /\ AttReaches(h)
      BY <2>9 DEF SoundInv
    <3>2. g \in Tones /\ meant'.as[g].att # None => chip'.att[g] = meant'.as[g].att
      BY <2>4, <2>6, <3>1 DEF AttReaches
    <3> QED BY <1>0, <2>1, <2>2, <2>3, <2>4, <2>6, <2>8, <2>9, <2>a, <3>1, <3>2, ToldReaches
  <2> QED BY <2>4, <2>8, <2>9 DEF SoundInv
<1>4. CASE SetupRegisters
  <2>1. ~chip.callback
    BY <1>4 DEF SetupRegisters, SoundInv
  <2> DEFINE freq == [g \in Generators |-> IF g \in Tones THEN LowBits \cup HighBits
                                           ELSE chip.freq[g]]
             att == [g \in Generators |-> IF g \in Tones THEN Silent ELSE chip.att[g]]
  <2>2. freq \in [Generators -> Bits] /\ att \in [Generators -> Levels]
    BY <1>a, SilentAssumption DEF Bits, Levels
  <2>3. /\ chip' = [chip EXCEPT !.freq = freq, !.att = att, !.setup = "registers"]
        /\ UNCHANGED <<workQ, heard, meant>>
    <3>1. /\ chip' = [chip EXCEPT
                !.freq = [g \in Generators |-> IF g \in Tones THEN LowBits \cup HighBits ELSE @[g]],
                !.att = [g \in Generators |-> IF g \in Tones THEN Silent ELSE @[g]],
                !.setup = "registers"]
          /\ UNCHANGED <<workQ, heard, meant>>
      BY <1>4 DEF SetupRegisters
    <3> QED BY <1>a, <3>1
  <2> HIDE DEF freq, att
  <2>4. chip' \in Chip /\ ~chip'.callback
    BY <1>a, <2>1, <2>2, <2>3
  <2> QED BY <1>a, <2>3, <2>4 DEF SoundInv, SoundShape
<1>5. CASE SetupCallback
  <2>1. /\ chip' = [chip EXCEPT !.callback = TRUE, !.setup = "done"]
        /\ meant' = [as |-> Silence, half |-> None]
        /\ UNCHANGED <<workQ, heard>>
    BY <1>5 DEF SetupCallback
  <2>2. chip' \in Chip /\ chip'.setup = "done"
    BY <1>a, <2>1
  <2>3. /\ meant' \in Meant /\ meant'.half = None
        /\ \A g \in Generators : meant'.as[g].freq = None /\ meant'.as[g].att = None
    BY <2>1 DEF Silence, Sounding
  <2> QED BY <1>0, <1>a, <2>1, <2>2, <2>3
          DEF SoundInv, SoundShape, HalfSent, FreqReaches, AttReaches
<1>6. CASE Play
  <2> DEFINE w == Head(workQ)
  <2>1. /\ workQ # << >> /\ workQ' = Tail(workQ)
        /\ heard' = [heard EXCEPT ![w.g] = [freq |-> w.freq, att |-> w.att]]
        /\ UNCHANGED <<chip, meant>>
    BY <1>6 DEF Play
  <2>2. w \in Tone /\ w = workQ[1] /\ workQ' \in Seq(Tone)
    BY <1>a, <2>1, HeadTailProperties
  <2> HIDE DEF w
  <2>3. /\ heard' \in Heard
        /\ heard'[w.g].freq = w.freq /\ heard'[w.g].att = w.att
        /\ \A g \in Tones : g # w.g => heard'[g] = heard[g]
    BY <1>a, <2>1, <2>2 DEF Tone
  <2>4. ASSUME chip.callback, NEW g \in Tones PROVE FreqReaches(g)' /\ AttReaches(g)'
    <3>1. FreqReaches(g) /\ AttReaches(g)
      BY <2>4 DEF SoundInv
    <3>2. /\ 1 \in 1..Len(workQ)
          /\ NoneTold(g)' => NoneTold(g) \/ LastTold(g, 1)
          /\ \A i \in 1..Len(workQ') : LastTold(g, i)' =>
               i + 1 \in 1..Len(workQ) /\ LastTold(g, i + 1) /\ workQ'[i] = workQ[i + 1]
      BY <1>a, <2>1, TakeFirst
    <3>3. NoneTold(g) => g # w.g
      BY <2>2, <3>2 DEF NoneTold
    <3>4. LastTold(g, 1) => g = w.g
      BY <2>2 DEF LastTold
    <3>5. FreqReaches(g)'
      BY <2>1, <2>2, <2>3, <3>1, <3>2, <3>3, <3>4 DEF FreqReaches
    <3>6. AttReaches(g)'
      BY <2>1, <2>2, <2>3, <3>1, <3>2, <3>3, <3>4 DEF AttReaches
    <3> QED BY <3>5, <3>6
  <2> QED BY <1>a, <2>1, <2>2, <2>3, <2>4 DEF SoundInv, SoundShape, HalfSent
<1>7. CASE UNCHANGED soundVars
  BY <1>7 DEF soundVars, SoundInv, SoundShape, HalfSent, FreqReaches, AttReaches,
              NoneTold, LastTold
<1>8. CASE UNCHANGED vars
  BY <1>7, <1>8 DEF vars, soundVars
<1> QED BY <1>1, <1>2, <1>3, <1>4, <1>5, <1>6, <1>7, <1>8, SoundSteps DEF SoundNext, SoundElsewhere

LEMMA SoundInvariant == Spec => []SoundInv
<1>1. Init => SoundInv
  <2> SUFFICES ASSUME SoundInit PROVE SoundInv
    BY DEF Init
  <2>1. {} \in Bits /\ 0 \in Levels /\ Silent \in Levels /\ 0 \in Generators
    BY SilentAssumption, ToneAssumption DEF Bits, Levels
  <2>2. /\ chip = [freq |-> [g \in Generators |-> {}], att |-> [g \in Generators |-> 0],
                   generator |-> 0, callback |-> FALSE, setup |-> "none"]
        /\ heard = [g \in Tones |-> [freq |-> {}, att |-> Silent]]
        /\ meant = [as |-> Silence, half |-> None] /\ workQ = << >>
    BY DEF SoundInit
  <2>3. workQ \in Seq(Tone)
    BY <2>2
  <2>4. meant \in [as : [Generators -> Sounding], half : [g : Generators, bits : Bits] \cup {None}]
    BY <2>2 DEF Silence, Sounding
  <2> QED BY <2>1, <2>2, <2>3, <2>4 DEF SoundInv, SoundShape
<1> QED BY <1>1, SoundInductive, PTL DEF Spec

\* Once its queue has been played, each tone generator sounds as the program last told it
\* to, for any number of generators and however far the sound thread is behind.
THEOREM SoundReachesPlayer == Spec => []SoundAsMeant
<1>1. SoundInv => SoundAsMeant
  <2> SUFFICES ASSUME SoundInv, chip.callback, NEW g \in Tones
               PROVE  /\ meant.as[g].freq # None => Coming(g).freq = meant.as[g].freq
                      /\ meant.as[g].att # None => Coming(g).att = meant.as[g].att
    BY DEF SoundAsMeant
  <2> DEFINE told == {k \in 1..Len(workQ) : workQ[k].g = g}
  <2>1. FreqReaches(g) /\ AttReaches(g)
    BY DEF SoundInv
  <2>2. CASE told = {}
    <3>1. NoneTold(g) /\ Coming(g) = heard[g]
      BY <2>2 DEF NoneTold, Coming
    <3> QED BY <2>1, <3>1 DEF FreqReaches, AttReaches
  <2>3. CASE told # {}
    <3> DEFINE last == CHOOSE k \in told : \A j \in told : j <= k
    <3>1. Len(workQ) \in Nat /\ told \in SUBSET (1..Len(workQ))
      BY DEF SoundInv, SoundShape
    <3>2. last \in told /\ \A j \in told : j <= last
      <4> HIDE DEF told
      <4>1. \E k \in told : \A j \in told : j <= k
        BY <2>3, <3>1, LastSlot
      <4> QED BY <4>1
    <3>3. Coming(g) = [freq |-> workQ[last].freq, att |-> workQ[last].att]
      BY <2>3 DEF Coming
    <3>4. last \in 1..Len(workQ) /\ LastTold(g, last)
      <4> HIDE DEF last
      <4> QED BY <3>1, <3>2 DEF LastTold
    <3> HIDE DEF last
    <3> QED BY <2>1, <3>3, <3>4 DEF FreqReaches, AttReaches
  <2> QED BY <2>2, <2>3
<1> QED BY <1>1, SoundInvariant, PTL

-----------------------------------------------------------------------------
(* Types.  The addresses of the VDP leave its memory by one at most, as a   *)
(* fault; those of the GROM wrap.                                          *)

FlagsOK == exception \in BOOLEAN /\ fault \in BOOLEAN

LEMMA FlagsInductive == FlagsOK /\ [Next]_vars => FlagsOK'
<1> SUFFICES ASSUME FlagsOK, [Next]_vars PROVE FlagsOK'
  OBVIOUS
<1>1. CASE UNCHANGED flags
  BY <1>1 DEF flags, FlagsOK
<1>2. ASSUME NEW b \in VdpBytes, VdpSetAddress(b) PROVE FlagsOK'
  <2>1. exception' = exception /\ fault' \in BOOLEAN
    BY <1>2 DEF VdpSetAddress
  <2> QED BY <2>1 DEF FlagsOK
<1>3. CASE VdpData
  BY <1>3 DEF VdpData, FlagsOK
<1>4. ASSUME NEW b \in GromBytes, GromSetAddress(b) PROVE FlagsOK'
  <2>1. fault' = fault /\ exception' \in BOOLEAN
    BY <1>4 DEF GromSetAddress
  <2> QED BY <2>1 DEF FlagsOK
<1>5. CASE GromData
  <2>1. exception' = exception /\ fault' \in BOOLEAN
    BY <1>5 DEF GromData
  <2> QED BY <2>1 DEF FlagsOK
<1>6. CASE Unmapped \/ ClearException
  BY <1>6 DEF Unmapped, ClearException, FlagsOK
<1>7. CASE UNCHANGED vars
  BY <1>1, <1>7 DEF vars
<1>8. Next => \/ UNCHANGED flags
              \/ \E b \in VdpBytes : VdpSetAddress(b)
              \/ VdpData
              \/ \E b \in GromBytes : GromSetAddress(b)
              \/ GromData
              \/ Unmapped \/ ClearException
  BY DEF Next, Access, Elsewhere, NoAnswer, ResetCPU, SaveImage, LoadImage, Undefined,
         MemNext, StoreByteAt, StoreWordAt, VdpNext, GromNext, GromReadAddress,
         SoundNext, Frequency, Attenuation, FrequencyData, vars, flags
<1> QED BY <1>1, <1>2, <1>3, <1>4, <1>5, <1>6, <1>7, <1>8

VdpSentOK == [half : Halves(VdpBytes), at : 0..VdpSize + Run \cup {None}, run : 0..Run]
GromSentOK == [half : Halves(GromBytes), at : 0..AddrSize - 1 \cup {None}, run : 0..Run]

VdpBounds ==
  /\ vdp.addr \in 0..VdpSize + Run
  /\ ~fault => vdp.addr <= VdpSize
  /\ vdpSent \in VdpSentOK
  /\ vdpImage # None => vdpImage.addr \in 0..VdpSize /\ vdpImage.sent \in VdpSentOK

GromBounds ==
  /\ grom.addr \in 0..AddrSize - 1
  /\ gromSent \in GromSentOK
  /\ gromImage # None => gromImage.addr \in 0..AddrSize - 1 /\ gromImage.sent \in GromSentOK

LEMMA ProductsGrow ==
  ASSUME NEW x \in Nat, NEW n \in Nat, NEW s \in Nat, x < n
  PROVE  x * s + s <= n * s
<1>1. x + 1 <= n
  OBVIOUS
<1>2. (n - (x + 1)) * s >= 0
  BY <1>1
<1>3. (n - (x + 1)) * s = n * s - (x * s + s)
  OBVIOUS
<1> QED BY <1>2, <1>3

LEMMA Addresses ==
  /\ VdpSize \in Nat /\ AddrSize \in Nat \ {0}
  /\ \A hi, lo \in Byte : Address(hi, lo) \in 0..VdpSize - 1
  /\ \A hi, lo \in Byte : hi * Size + lo \in 0..AddrSize - 1
<1> DEFINE q == Size \div 4
<1>1. Size \in Nat \ {0} /\ q \in Nat \ {0}
  BY SizeAssumption
<1>2. VdpSize = q * Size /\ AddrSize = Size * Size
  BY DEF VdpSize, AddrSize
<1>3. \A hi, lo \in Byte : Address(hi, lo) = (hi % q) * Size + lo
  BY DEF Address
<1>4. \A n \in Nat \ {0}, hi \in Nat : hi % n \in Nat /\ hi % n < n
  OBVIOUS
<1> HIDE DEF q
<1>5. VdpSize \in Nat /\ AddrSize \in Nat \ {0}
  BY <1>1, <1>2
<1>6. ASSUME NEW n \in Nat, NEW x \in Nat, x < n, NEW lo \in Byte
      PROVE  x * Size + lo \in 0..n * Size - 1
  <2>1. x * Size + Size <= n * Size
    BY <1>1, <1>6, ProductsGrow
  <2>2. x * Size \in Nat /\ n * Size \in Nat /\ lo \in 0..Size - 1
    BY <1>1 DEF Byte
  <2> QED BY <1>1, <2>1, <2>2
<1>7. \A hi, lo \in Byte : Address(hi, lo) \in 0..VdpSize - 1
  <2> TAKE hi \in Byte, lo \in Byte
  <2>1. hi % q \in Nat /\ hi % q < q
    BY <1>1, <1>4 DEF Byte
  <2> QED BY <1>1, <1>2, <1>3, <1>6, <2>1
<1>8. \A hi, lo \in Byte : hi * Size + lo \in 0..AddrSize - 1
  <2> TAKE hi \in Byte, lo \in Byte
  <2>1. hi \in Nat /\ hi < Size
    BY <1>1 DEF Byte
  <2> QED BY <1>1, <1>2, <1>6, <2>1
<1> QED BY <1>5, <1>7, <1>8

LEMMA VdpBounded == VdpInv /\ VdpBounds /\ [Next]_vars => VdpBounds'
<1> USE RunAssumption, NoneAssumption
<1> SUFFICES ASSUME VdpInv, VdpBounds, [Next]_vars PROVE VdpBounds'
  OBVIOUS
<1>0. /\ VdpSize \in Nat /\ (~fault' => ~fault)
      /\ vdp \in [latch : Bit, addr : Int, byte : [Bit -> Byte]] /\ vdpSent \in VdpSentOK
  BY FaultStays, Addresses DEF VdpInv, VdpShape, VdpBounds, vars, flags
<1>1. ASSUME NEW b \in VdpBytes, VdpSetAddress(b) PROVE VdpBounds'
  <2> DEFINE new == VdpLatched(b)
  <2>1. ~fault /\ b \in Byte /\ vdpImage' = vdpImage /\ vdpSent' = VdpSentWith(b)
    BY <1>1, VdpAssumption DEF VdpSetAddress, Running, Byte
  <2>2. new \in [latch : Bit, addr : Int, byte : [Bit -> Byte]] /\ new.addr = vdp.addr
    <3>1. 1 - vdp.latch \in Bit
      BY <1>0 DEF Bit
    <3>2. new = [vdp EXCEPT !.latch = 1 - vdp.latch, !.byte[1 - vdp.latch] = b]
      BY <1>0 DEF VdpLatched
    <3> HIDE DEF new
    <3> QED BY <1>0, <2>1, <3>1, <3>2
  <2>3. vdp' = IF new.latch = 1 \/ NamesRegister(new.byte[0]) THEN new
               ELSE [new EXCEPT !.addr = Address(new.byte[0], new.byte[1])]
    <3> HIDE DEF new
    <3> QED BY <1>1 DEF VdpSetAddress, new
  <2>4. vdp'.addr = vdp.addr \/ vdp'.addr \in 0..VdpSize - 1
    <3> HIDE DEF new
    <3>1. new.byte[0] \in Byte /\ new.byte[1] \in Byte
      BY <2>2 DEF Bit
    <3>2. Address(new.byte[0], new.byte[1]) \in 0..VdpSize - 1
      BY <3>1, Addresses
    <3> QED BY <2>2, <2>3, <3>2
  <2>5. vdpSent' \in VdpSentOK
    <3> DEFINE at == IF vdpSent.half = Torn THEN None ELSE Address(b, vdpSent.half)
    <3>1. CASE vdpSent.half = None
      BY <1>0, <2>1, <3>1 DEF VdpSentWith, VdpSentOK, Halves
    <3>2. CASE vdpSent.half # None /\ NamesRegister(b)
      BY <1>0, <2>1, <3>2 DEF VdpSentWith, VdpSentOK, Halves
    <3>3. CASE vdpSent.half # None /\ ~NamesRegister(b)
      <4>1. vdpSent' = [half |-> None, run |-> 0, at |-> at]
        BY <2>1, <3>3 DEF VdpSentWith
      <4>2. vdpSent.half # Torn => vdpSent.half \in Byte
        BY <1>0, <3>3, VdpAssumption DEF VdpSentOK, Halves, Byte
      <4>3. at \in 0..VdpSize + Run \cup {None}
        <5>1. vdpSent.half # Torn => Address(b, vdpSent.half) \in 0..VdpSize - 1
          BY <2>1, <4>2, Addresses
        <5> QED BY <1>0, <5>1
      <4> HIDE DEF at
      <4> QED BY <4>1, <4>3 DEF VdpSentOK, Halves
    <3> QED BY <3>1, <3>2, <3>3
  <2> QED BY <1>0, <2>1, <2>4, <2>5 DEF VdpBounds
<1>2. CASE VdpData
  <2> DEFINE at == IF vdpSent.at = None THEN None ELSE vdpSent.at + 1
  <2>1. /\ ~fault /\ vdpImage' = vdpImage /\ vdpSent.run < Run
        /\ fault' = (vdp.addr >= VdpSize)
        /\ vdp' = [vdp EXCEPT !.addr = @ + 1]
        /\ vdpSent' = [vdpSent EXCEPT !.at = at, !.run = @ + 1]
    BY <1>2 DEF VdpData, Running
  <2>2. vdp.addr \in 0..VdpSize /\ vdp'.addr = vdp.addr + 1
    BY <1>0, <2>1 DEF VdpBounds
  <2>3. at \in 0..VdpSize + Run \cup {None} /\ vdpSent.run + 1 \in 0..Run /\ Run >= 1
    <3>1. vdpSent.run \in 0..Run
      BY <1>0 DEF VdpSentOK
    <3>2. vdpSent.at = None \/ vdpSent.at = vdp.addr
      BY <2>1 DEF VdpInv, Stands
    <3> QED BY <1>0, <2>1, <2>2, <3>1, <3>2
  <2>4. vdpSent' \in VdpSentOK
    <3> HIDE DEF at
    <3> QED BY <1>0, <2>1, <2>3 DEF VdpSentOK
  <2>5. /\ vdp'.addr \in 0..VdpSize + Run
        /\ ~fault' => vdp'.addr <= VdpSize
    <3>1. ~fault' => ~(vdp.addr >= VdpSize)
      BY <2>1
    <3>2. vdp.addr + 1 \in 0..VdpSize + Run
      BY <1>0, <2>2, <2>3
    <3>3. ~(vdp.addr >= VdpSize) => vdp.addr + 1 <= VdpSize
      BY <1>0, <2>2
    <3> QED BY <2>2, <3>1, <3>2, <3>3
  <2> QED BY <2>1, <2>4, <2>5 DEF VdpBounds
<1>3. CASE VdpReset /\ ~fault /\ UNCHANGED fault
  BY <1>0, <1>3 DEF VdpReset, VdpBounds, VdpSentOK, Halves
<1>4. CASE VdpSave /\ ~fault /\ UNCHANGED fault
  BY <1>0, <1>4 DEF VdpSave, VdpBounds, VdpSentOK, Halves
<1>5. CASE VdpLoad /\ ~fault /\ UNCHANGED fault
  BY <1>0, <1>5 DEF VdpLoad, VdpBounds, VdpSentOK, Halves
<1>6. CASE UNCHANGED vdpVars
  BY <1>0, <1>6 DEF vdpVars, VdpBounds
<1>7. CASE UNCHANGED vars
  BY <1>6, <1>7 DEF vars, vdpVars
<1> QED BY <1>1, <1>2, <1>3, <1>4, <1>5, <1>6, <1>7, VdpSteps

LEMMA GromBounded == GromInv /\ GromBounds /\ [Next]_vars => GromBounds'
<1> USE RunAssumption, NoneAssumption
<1> SUFFICES ASSUME GromInv, GromBounds, [Next]_vars PROVE GromBounds'
  OBVIOUS
<1>0. /\ grom \in [latch : Bit, addr : Int, byte : [Bit -> Byte], read : Bit, cart : Bit]
      /\ gromSent \in GromSentOK /\ AddrSize \in Nat \ {0} /\ 0 \in 0..AddrSize - 1
  BY Addresses DEF GromInv, GromShape, GromBounds
<1>1. ASSUME NEW b \in GromBytes, GromSetAddress(b) PROVE GromBounds'
  <2> DEFINE new == GromLatched(b)
             p == new.byte[1] * Size + new.byte[0]
             at == IF gromSent.half = Torn THEN None ELSE gromSent.half * Size + b
  <2>1. b \in Byte /\ gromImage' = gromImage /\ gromSent' = GromSentWith(b)
    BY <1>1, GromAssumption DEF GromSetAddress, Byte
  <2>2. /\ new \in [latch : Bit, addr : Int, byte : [Bit -> Byte], read : Bit, cart : Bit]
        /\ new.addr = grom.addr
    <3>1. 1 - grom.latch \in Bit /\ 0 \in Bit
      BY <1>0 DEF Bit
    <3>2. new = [grom EXCEPT !.latch = 1 - grom.latch, !.read = 0, !.byte[1 - grom.latch] = b]
      BY <1>0 DEF GromLatched
    <3> HIDE DEF new
    <3> QED BY <1>0, <2>1, <3>1, <3>2
  <2>3. grom' = IF new.latch = 1 THEN new ELSE [new EXCEPT !.addr = p]
    <3> HIDE DEF new
    <3> QED BY <1>1 DEF GromSetAddress, new
  <2>4. grom'.addr \in 0..AddrSize - 1
    <3>1. p \in 0..AddrSize - 1
      <4> HIDE DEF new
      <4>1. new.byte[0] \in Byte /\ new.byte[1] \in Byte
        BY <2>2 DEF Bit
      <4> QED BY <4>1, Addresses
    <3>2. grom.addr \in 0..AddrSize - 1
      BY DEF GromBounds
    <3> HIDE DEF new, p
    <3> QED BY <2>2, <2>3, <3>1, <3>2
  <2>5. gromSent' \in GromSentOK
    <3>1. CASE gromSent.half = None
      BY <1>0, <2>1, <3>1 DEF GromSentWith, GromSentOK, Halves
    <3>2. CASE gromSent.half # None
      <4>1. gromSent' = [half |-> None, run |-> 0, at |-> at]
        BY <2>1, <3>2 DEF GromSentWith
      <4>2. gromSent.half # Torn => gromSent.half \in Byte
        BY <1>0, <3>2, GromAssumption DEF GromSentOK, Halves, Byte
      <4>3. at \in 0..AddrSize - 1 \cup {None}
        BY <2>1, <4>2, Addresses
      <4> HIDE DEF at
      <4> QED BY <4>1, <4>3 DEF GromSentOK, Halves
    <3> QED BY <3>1, <3>2
  <2> QED BY <2>1, <2>4, <2>5 DEF GromBounds
<1>2. CASE GromReadAddress
  <2>1. UNCHANGED <<gromImage, gromSent>> /\ grom'.addr = grom.addr
    BY <1>0, <1>2 DEF GromReadAddress
  <2> QED BY <2>1 DEF GromBounds
<1>3. CASE GromData
  <2> DEFINE next == (grom.addr + 1) % AddrSize
             at == IF gromSent.at = None THEN None ELSE (gromSent.at + 1) % AddrSize
  <2>1. /\ gromImage' = gromImage /\ gromSent.run < Run
        /\ grom' = [grom EXCEPT !.latch = 0, !.read = 0, !.addr = next]
        /\ gromSent' = [gromSent EXCEPT !.half = None, !.run = @ + 1, !.at = at]
    BY <1>3 DEF GromData
  <2>2. \A n \in Nat : (n + 1) % AddrSize \in 0..AddrSize - 1
    BY <1>0
  <2>3. next \in 0..AddrSize - 1
    <3>1. grom.addr \in Nat
      BY DEF GromBounds
    <3> QED BY <2>2, <3>1
  <2>4. at \in 0..AddrSize - 1 \cup {None}
    <3>1. gromSent.at \in Nat \cup {None}
      BY <1>0 DEF GromSentOK
    <3> QED BY <2>2, <3>1
  <2>5. gromSent.run + 1 \in 0..Run
    BY <1>0, <2>1 DEF GromSentOK
  <2> HIDE DEF next, at
  <2>6. grom'.addr = next
    BY <1>0, <2>1
  <2>7. gromSent' \in GromSentOK
    BY <1>0, <2>1, <2>4, <2>5 DEF GromSentOK, Halves
  <2> QED BY <2>1, <2>3, <2>6, <2>7 DEF GromBounds
<1>4. CASE (LoadCartGROM \/ GromReset \/ GromSave \/ GromLoad) /\ ~fault
  <2>1. CASE LoadCartGROM
    BY <1>0, <2>1 DEF LoadCartGROM, GromBounds
  <2>2. CASE GromReset
    <3>1. grom'.addr = 0 /\ gromImage' = gromImage
      BY <1>0, <2>2 DEF GromReset
    <3>2. gromSent' \in GromSentOK
      <4>1. gromSent' = [half |-> None, at |-> 0, run |-> 0]
        BY <2>2 DEF GromReset
      <4> QED BY <1>0, <4>1 DEF GromSentOK, Halves
    <3> QED BY <1>0, <3>1, <3>2 DEF GromBounds
  <2>3. CASE GromSave
    BY <1>0, <2>3 DEF GromSave, GromBounds, GromSentOK, Halves
  <2>4. CASE GromLoad
    BY <1>0, <2>4 DEF GromLoad, GromBounds, GromSentOK, Halves
  <2> QED BY <1>4, <2>1, <2>2, <2>3, <2>4
<1>5. CASE UNCHANGED gromVars
  BY <1>5 DEF gromVars, GromBounds
<1>6. CASE UNCHANGED vars
  BY <1>5, <1>6 DEF vars, gromVars
<1> QED BY <1>1, <1>2, <1>3, <1>4, <1>5, <1>6, GromSteps

\* Addresses, latches and registers stay within their types, for bytes, memories and
\* GROMs of every size.
THEOREM DevicesTypeCorrect == Spec => []DevicesTypeOK
<1>1. Init => VdpInv /\ MemInv /\ FlagsOK /\ VdpBounds /\ GromBounds
  <2> SUFFICES ASSUME Init PROVE VdpInv /\ MemInv /\ FlagsOK /\ VdpBounds /\ GromBounds
    OBVIOUS
  <2>1. /\ vdp = [latch |-> 0, addr |-> 0, byte |-> [i \in {0, 1} |-> 0]]
        /\ vdpImage = None
        /\ vdpSent = [half |-> None, at |-> None, run |-> 0]
    BY DEF Init, VdpInit
  <2>2. grom.addr = 0 /\ gromImage = None /\ gromSent = [half |-> None, at |-> 0, run |-> 0]
    BY DEF Init, GromInit
  <2>3. 0 \in Byte
    BY SizeAssumption DEF Byte
  <2>4. MemInv /\ FlagsOK
    BY <2>3 DEF Init, MemInit, MemInv, KeptIn, FlagsOK
  <2>5. VdpShape
    BY <2>1, <2>3 DEF VdpShape, Bit, Half, Known, SentShape
  <2>6. VdpInv
    BY <2>1, <2>5 DEF VdpInv, InPair, Stands
  <2>7. VdpBounds
    BY <2>1, RunAssumption, Addresses DEF VdpBounds, VdpSentOK, Halves
  <2>8. GromBounds
    BY <2>2, RunAssumption, Addresses DEF GromBounds, GromSentOK, Halves
  <2> QED BY <2>4, <2>6, <2>7, <2>8
<1>2. /\ VdpInv /\ GromInv /\ MemInv /\ SoundInv /\ FlagsOK /\ VdpBounds /\ GromBounds
      => DevicesTypeOK
  <2> SUFFICES ASSUME VdpInv, GromInv, MemInv, SoundInv, FlagsOK, VdpBounds, GromBounds
               PROVE  DevicesTypeOK
    OBVIOUS
  <2>1. vdp \in [latch : {0, 1}, addr : 0..VdpSize + Run, byte : [{0, 1} -> Byte]]
    BY DEF VdpInv, VdpShape, VdpBounds, Bit
  <2>2. grom \in [latch : {0, 1}, addr : 0..AddrSize - 1, byte : [{0, 1} -> Byte],
                  read : {0, 1}, cart : {0, 1}]
    BY DEF GromInv, GromShape, GromBounds, Bit
  <2>3. mem \in [0..2 * HighWords - 1 -> Byte]
    BY DEF MemInv, KeptIn
  <2>4. chip \in [freq : [Generators -> SUBSET (LowBits \cup HighBits)],
                  att : [Generators -> Attenuations \cup {0}], generator : Generators,
                  callback : BOOLEAN, setup : {"none", "registers", "done"}]
    BY DEF SoundInv, SoundShape, Bits, Levels
  <2> QED BY <2>1, <2>2, <2>3, <2>4
          DEF DevicesTypeOK, FlagsOK, VdpBounds, GromBounds, VdpSentOK, GromSentOK
<1>3. /\ VdpInv /\ GromInv /\ MemInv /\ FlagsOK /\ VdpBounds /\ GromBounds /\ [Next]_vars
      => (VdpInv /\ MemInv /\ FlagsOK /\ VdpBounds /\ GromBounds)'
  BY VdpInductive, MemInductive, FlagsInductive, VdpBounded, GromBounded
<1> QED BY <1>1, <1>2, <1>3, GromInvariant, SoundInvariant, PTL DEF Spec
=============================================================================
