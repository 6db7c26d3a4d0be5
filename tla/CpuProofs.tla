------------------------------- MODULE CpuProofs -------------------------------
(***************************************************************************)
(* Theorems about Cpu, for every even size of byte, every program, ROM and *)
(* scratchpad: every instruction leaves numbers of the width of their      *)
(* registers, and the flags a comparison sets mean what the jumps take     *)
(* them for.                                                               *)
(***************************************************************************)
EXTENDS Cpu, TLAPS

-----------------------------------------------------------------------------
(* Numbers *)

LEMMA DivMod ==
  ASSUME NEW n \in Nat, NEW m \in Nat \ {0}
  PROVE  /\ n \div m \in Nat /\ n % m \in 0..m - 1
         /\ n = (n \div m) * m + (n % m)
<1> DEFINE q == n \div m
           r == n % m
<1>1. q \in Int /\ r \in 0..m - 1 /\ n = m * q + r
  OBVIOUS
<1> HIDE DEF q, r
<1>2. m * q = q * m
  BY <1>1
<1>3. CASE q < 0
  <2>1. m * q <= -m
    BY <1>1, <1>3
  <2> QED BY <1>1, <2>1
<1>4. q \in Nat
  BY <1>1, <1>3
<1> QED BY <1>1, <1>2, <1>4 DEF q, r

\* A number below a product is a quotient and a remainder below its factors.
LEMMA DivBelow ==
  ASSUME NEW n \in Nat, NEW a \in Nat \ {0}, NEW b \in Nat, n < a * b
  PROVE  n \div a \in 0..b - 1
<1> DEFINE q == n \div a
           r == n % a
<1>1. q \in Nat /\ r \in 0..a - 1 /\ n = q * a + r
  BY DivMod
<1> HIDE DEF q, r
<1>2. CASE q >= b
  <2>1. (q - b) * a >= 0
    BY <1>1, <1>2
  <2>2. (q - b) * a = q * a - a * b
    BY <1>1
  <2> QED BY <1>1, <2>1, <2>2
<1> QED BY <1>1, <1>2 DEF q

\* A quotient and a remainder below two factors make a number below their product.
LEMMA MulAddBelow ==
  ASSUME NEW a \in Nat, NEW b \in Nat, NEW x \in 0..a - 1, NEW y \in 0..b - 1
  PROVE  x * b + y \in 0..a * b - 1
<1>1. (a - 1 - x) * b >= 0 /\ x * b >= 0
  OBVIOUS
<1>2. (a - 1 - x) * b = a * b - b - x * b
  OBVIOUS
<1>3. x * b \in Int /\ a * b \in Int
  OBVIOUS
<1> QED BY <1>1, <1>2, <1>3

LEMMA Widths ==
  /\ ByteSize \in Nat \ {0} /\ WordSize \in Nat \ {0} /\ Low6 \in Nat \ {0}
  /\ WordSize = 64 * Low6 /\ 0 \in Byte /\ 0 \in Word /\ WordSize - 1 \in Word
  /\ \A m \in {ByteSize, WordSize} : m \in Nat \ {0} /\ m % 2 = 0 /\ m <= WordSize
  /\ \A hi, lo \in Byte : hi * ByteSize + lo \in Word
  /\ \A w \in Word : w \div ByteSize \in Byte /\ w % ByteSize \in Byte
  /\ \A n \in Int : n % WordSize \in Word
  /\ \A w \in Word : w \div 2 \in Word /\ w - (w % 2) \in Word
<1>1. ByteSize \in Nat \ {0} /\ ByteSize >= 2 /\ ByteSize % 2 = 0
  BY WidthAssumption
<1>2. ByteSize * ByteSize >= 2 * ByteSize
  <2>1. (ByteSize - 2) * ByteSize >= 0
    BY <1>1
  <2>2. (ByteSize - 2) * ByteSize = ByteSize * ByteSize - 2 * ByteSize
    BY <1>1
  <2> QED BY <1>1, <2>1, <2>2
<1>3. WordSize \in Nat \ {0} /\ ByteSize <= WordSize /\ WordSize % 64 = 0
  BY <1>1, <1>2, WidthAssumption
<1>4. Low6 \in Nat \ {0} /\ WordSize = 64 * Low6 /\ WordSize % 2 = 0
  BY <1>3 DEF Low6
<1>5. \A hi, lo \in Byte : hi * ByteSize + lo \in Word
  <2> TAKE hi \in Byte, lo \in Byte
  <2>1. hi * ByteSize + lo \in 0..ByteSize * ByteSize - 1
    BY <1>1, MulAddBelow DEF Byte
  <2> QED BY <2>1, WidthAssumption DEF Word
<1>6. \A w \in Word : w \div ByteSize \in Byte /\ w % ByteSize \in Byte
  <2> TAKE w \in Word
  <2>1. w \in Nat /\ w < ByteSize * ByteSize
    BY <1>3, WidthAssumption DEF Word
  <2> QED BY <1>1, <2>1, DivBelow, DivMod DEF Byte
<1>7. \A n \in Int : n % WordSize \in Word
  BY <1>3 DEF Word
<1>8. \A w \in Word : w \div 2 \in Word /\ w - (w % 2) \in Word
  BY <1>3 DEF Word
<1> QED BY <1>1, <1>3, <1>4, <1>5, <1>6, <1>7, <1>8 DEF Byte, Word

\* The flags of the status register, each with a bit above its low ones, make a word.
LEMMA StatusIsWord ==
  ASSUME NEW st \in Status
  PROVE  StWord(st) \in Word
<1>1. st.low \in 0..Low6 - 1
  BY DEF Status, StatusOf
<1>2. \A b : \A n \in Nat : Flag(b, n) \in 0..n
  BY DEF Flag
<1>3. Low6 \in Nat /\ WordSize = 64 * Low6
  BY Widths
<1> HIDE DEF Low6
<1>4. /\ Flag(st.odd, Low6) \in 0..Low6 /\ Flag(st.over, 2 * Low6) \in 0..2 * Low6
      /\ Flag(st.carry, 4 * Low6) \in 0..4 * Low6 /\ Flag(st.eq, 8 * Low6) \in 0..8 * Low6
      /\ Flag(st.agt, 16 * Low6) \in 0..16 * Low6 /\ Flag(st.lgt, 32 * Low6) \in 0..32 * Low6
  <2>1. /\ Low6 \in Nat /\ 2 * Low6 \in Nat /\ 4 * Low6 \in Nat /\ 8 * Low6 \in Nat
        /\ 16 * Low6 \in Nat /\ 32 * Low6 \in Nat
    BY <1>3
  <2> QED BY <1>2, <1>3, <2>1
<1> QED BY <1>1, <1>3, <1>4 DEF StWord, Word

LEMMA WordIsStatus ==
  ASSUME NEW w \in Word
  PROVE  StOf(w) \in Status
<1>1. w % Low6 \in 0..Low6 - 1
  BY Widths DEF Word
<1> QED BY <1>1 DEF StOf, Status, StatusOf, Odd

-----------------------------------------------------------------------------
(* Arithmetic and status *)

Moduli == {ByteSize, WordSize}

LEMMA ResultsFit ==
  ASSUME NEW m \in Moduli, NEW x \in 0..m - 1, NEW y \in 0..m - 1
  PROVE  /\ Add(x, y, m) \in 0..m - 1 /\ Subtract(x, y, m) \in 0..m - 1
         /\ m - 1 - x \in 0..m - 1 /\ Negated(x, m) \in 0..m - 1 /\ Absolute(x, m) \in 0..m - 1
         /\ BitAnd(x, y) \in 0..m - 1 /\ BitOr(x, y) \in 0..m - 1 /\ BitXor(x, y) \in 0..m - 1
<1>1. m \in Nat \ {0}
  BY Widths DEF Moduli
<1>2. \A z \in Int : -m <= z /\ z < 2 * m => Wrap(z, m) \in 0..m - 1
  BY <1>1 DEF Wrap
<1>3. Negated(x, m) \in 0..m - 1
  BY <1>1 DEF Negated, Wrap
<1>4. BitAnd(x, y) \in 0..m - 1 /\ BitOr(x, y) \in 0..m - 1 /\ BitXor(x, y) \in 0..m - 1
  BY BitAssumption DEF Moduli
<1> QED BY <1>1, <1>2, <1>3, <1>4 DEF Add, Subtract, Absolute

LEMMA StatusesFit ==
  ASSUME NEW st \in Status
  PROVE  /\ \A r, m : SetLAE(st, r, m) \in Status
         /\ \A c, v \in BOOLEAN : CarryOver(st, c, v) \in Status
         /\ \A x : SetParity(st, x) \in Status
         /\ \A s, d, m : Compared(st, s, d, m) \in Status
<1>1. ASSUME NEW l \in BOOLEAN, NEW a \in BOOLEAN, NEW e \in BOOLEAN
      PROVE  [st EXCEPT !.lgt = l, !.agt = a, !.eq = e] \in Status
  BY DEF Status, StatusOf
<1>2. \A r, m : SetLAE(st, r, m) \in Status
  <2> TAKE r, m
  <2>1. (r # 0) \in BOOLEAN /\ (r # 0 /\ ~Msb(r, m)) \in BOOLEAN /\ (r = 0) \in BOOLEAN
    OBVIOUS
  <2> QED BY <1>1, <2>1 DEF SetLAE
<1>3. \A s, d, m : Compared(st, s, d, m) \in Status
  <2> TAKE s, d, m
  <2> DEFINE below == Msb(s, m) = Msb(d, m) /\ Msb(Wrap(d - s, m), m)
             l == (Msb(s, m) /\ ~Msb(d, m)) \/ below
             a == (~Msb(s, m) /\ Msb(d, m)) \/ below
  <2>1. l \in BOOLEAN /\ a \in BOOLEAN /\ (s = d) \in BOOLEAN
    OBVIOUS
  <2>2. Compared(st, s, d, m) = [st EXCEPT !.lgt = l, !.agt = a, !.eq = (s = d)]
    BY DEF Compared
  <2> HIDE DEF l, a
  <2> QED BY <1>1, <2>1, <2>2, ZenonT(30)
<1>4. \A c, v \in BOOLEAN : CarryOver(st, c, v) \in Status
  BY DEF CarryOver, Status, StatusOf
<1>5. \A x : SetParity(st, x) \in Status
  <2> TAKE x
  <2>1. Odd(Ones(x)) \in BOOLEAN
    BY DEF Odd
  <2> QED BY <2>1 DEF SetParity, Status, StatusOf
<1> QED BY <1>2, <1>3, <1>4, <1>5

LEMMA SumStatusFits ==
  ASSUME NEW st \in Status, NEW d, NEW s, NEW r, NEW m
  PROVE  SumStatus(st, d, s, r, m) \in Status
<1> DEFINE c == r < d \/ r < s
           v == Msb(s, m) = Msb(d, m) /\ Msb(r, m) # Msb(d, m)
<1>1. c \in BOOLEAN /\ v \in BOOLEAN
  OBVIOUS
<1>2. SumStatus(st, d, s, r, m) = SetLAE(CarryOver(st, c, v), r, m)
  BY DEF SumStatus
<1> HIDE DEF c, v
<1>3. CarryOver(st, c, v) \in Status
  BY <1>1, StatusesFit
<1> QED BY <1>2, <1>3, StatusesFit

LEMMA StepStatusFits ==
  ASSUME NEW st \in Status, NEW w, NEW x, NEW r, NEW up, NEW m
  PROVE  StepStatus(st, w, x, r, up, m) \in Status
<1> DEFINE c == IF up THEN w > m - 1 - x ELSE w > x - 1
           v == Msb(w, m) /\ ~Msb(r, m)
<1>1. c \in BOOLEAN /\ v \in BOOLEAN
  <2>1. CASE up
    BY <2>1
  <2>2. CASE ~up
    BY <2>2
  <2> QED BY <2>1, <2>2
<1>2. StepStatus(st, w, x, r, up, m) = SetLAE(CarryOver(st, c, v), r, m)
  BY DEF StepStatus
<1> HIDE DEF c, v
<1>3. CarryOver(st, c, v) \in Status
  BY <1>1, StatusesFit
<1> QED BY <1>2, <1>3, StatusesFit

-----------------------------------------------------------------------------
(* Memory *)

Reach == 0..PadSize + 32

LEMMA RamReads ==
  ASSUME NEW c \in Machine, NEW i \in Reach
  PROVE  ReadRam(c, i) \in Byte
<1>1. CASE i < PadSize
  BY <1>1, PadAssumption DEF Machine, Reach, ReadRam
<1>2. CASE ~(i < PadSize)
  <2>1. i - PadSize \in 0..32
    BY <1>2, PadAssumption DEF Reach
  <2> QED BY <1>2, <2>1, BehindAssumption DEF ReadRam
<1> QED BY <1>1, <1>2

LEMMA PadOffsets ==
  ASSUME NEW a \in Word, NEW k \in 0..33
  PROVE  (a % PadSize) + k \in Reach /\ a % PadSize \in Reach
<1>1. a % PadSize \in 0..PadSize - 1
  BY PadAssumption, Widths DEF Word
<1> QED BY <1>1, PadAssumption DEF Reach

LEMMA ReadsFit ==
  ASSUME NEW c \in Machine
  PROVE  /\ \A a \in Word : ReadByte(c, a) \in Byte /\ ReadWord(c, a) \in Word
         /\ \A x \in 0..16 : RegAddr(c, x) \in Word
         /\ \A x \in 0..16 : Reg(c, x) \in Word
         /\ Following(c) \in Word /\ ReturnAddress(c) \in Word
<1>1. c.wp \in Word /\ c.pc \in Word
  BY DEF Machine
<1>2. \A a \in Word : ReadByte(c, a) \in Byte /\ ReadWord(c, a) \in Word
  <2> TAKE a \in Word
  <2>1. CASE InPad(a)
    <3>1. ReadRam(c, a % PadSize) \in Byte /\ ReadRam(c, (a % PadSize) + 1) \in Byte
      BY PadOffsets, RamReads
    <3> QED BY <2>1, <3>1, Widths DEF ReadByte, ReadWord
  <2>2. CASE ~InPad(a) /\ a < RomSize
    <3>1. Rom[a] \in Byte /\ Rom[a + 1] \in Byte
      BY <2>2, RomAssumption, Widths DEF Word
    <3> QED BY <2>2, <3>1, Widths DEF ReadByte, ReadWord
  <2>3. CASE ~InPad(a) /\ ~(a < RomSize)
    BY <2>3, DeviceAssumption, Widths DEF ReadByte, ReadWord
  <2> QED BY <2>1, <2>2, <2>3
<1>3. \A x \in 0..16 : RegAddr(c, x) \in Word
  <2> TAKE x \in 0..16
  <2>1. c.wp + 2 * x \in Int
    BY <1>1, Widths, SMTT(30) DEF Word
  <2> QED BY <2>1, Widths DEF RegAddr
<1>4. \A x \in 0..16 : Reg(c, x) \in Word
  <2> TAKE x \in 0..16
  <2>1. WR(c, x) \in Reach /\ WR(c, x) + 1 \in Reach
    <3>1. 2 * x \in 0..33 /\ 2 * x + 1 \in 0..33
      OBVIOUS
    <3>2. (c.wp % PadSize) + 2 * x \in Reach /\ (c.wp % PadSize) + (2 * x + 1) \in Reach
      BY <1>1, <3>1, PadOffsets
    <3>3. (c.wp % PadSize) + (2 * x + 1) = (c.wp % PadSize) + 2 * x + 1
      <4>1. c.wp % PadSize \in Int
        BY <1>1, PadAssumption, Widths DEF Word
      <4> QED BY <4>1
    <3> QED BY <3>2, <3>3 DEF WR
  <2> QED BY <2>1, RamReads, Widths DEF Reg
<1>5. Following(c) \in Word /\ ReturnAddress(c) \in Word
  <2>1. 2 * (c.pc + 1) \in Int
    BY <1>1, Widths DEF Word
  <2>2. (2 * (c.pc + 1)) % WordSize \in Word
    BY <2>1, Widths
  <2> QED BY <1>2, <2>2 DEF Following, ReturnAddress
<1> QED BY <1>2, <1>3, <1>4, <1>5

LEMMA StoresFit ==
  ASSUME NEW c \in Machine
  PROVE  /\ \A i \in Nat, b \in Byte : StoreRam(c, i, b) \in Machine /\ StoreRam(c, i, b).st = c.st
         /\ \A a \in Word, b \in Byte : /\ StoreByte(c, a, b) \in Machine
                                        /\ StoreByte(c, a, b).st = c.st
         /\ \A a, w \in Word : StoreWord(c, a, w) \in Machine /\ StoreWord(c, a, w).st = c.st
<1>1. \A d \in Machine, i \in Nat, b \in Byte :
        StoreRam(d, i, b) \in Machine /\ StoreRam(d, i, b).st = d.st
  BY PadAssumption DEF StoreRam, Machine
<1>2. \A a \in Word : a % PadSize \in Nat /\ (a % PadSize) + 1 \in Nat
  BY PadAssumption, Widths DEF Word
<1>3. \A a \in Word, b \in Byte : StoreByte(c, a, b) \in Machine /\ StoreByte(c, a, b).st = c.st
  BY <1>1, <1>2 DEF StoreByte
<1>4. ASSUME NEW a \in Word, NEW w \in Word
      PROVE  StoreWord(c, a, w) \in Machine /\ StoreWord(c, a, w).st = c.st
  <2>1. CASE InPad(a)
    <3> DEFINE d == StoreRam(c, (a % PadSize) + 1, w % ByteSize)
    <3>1. w % ByteSize \in Byte /\ w \div ByteSize \in Byte
      BY Widths
    <3>2. d \in Machine /\ d.st = c.st
      BY <1>1, <1>2, <3>1
    <3>3. StoreWord(c, a, w) = StoreRam(d, a % PadSize, w \div ByteSize)
      BY <2>1 DEF StoreWord
    <3> HIDE DEF d
    <3> QED BY <1>1, <1>2, <3>1, <3>2, <3>3
  <2>2. CASE ~InPad(a)
    BY <2>2 DEF StoreWord, Raise, Machine
  <2> QED BY <2>1, <2>2
<1> QED BY <1>1, <1>3, <1>4

LEMMA FieldsFit ==
  ASSUME NEW c \in Machine
  PROVE  /\ \A n \in Int : Advance(c, n) \in Machine /\ Advance(c, n).st = c.st
         /\ \A st \in Status : /\ [c EXCEPT !.st = st] \in Machine
                               /\ [c EXCEPT !.st = st].st = st
         /\ \A pc \in Word : [c EXCEPT !.pc = pc] \in Machine
         /\ \A wp \in Word : [c EXCEPT !.wp = wp] \in Machine
<1>1. ASSUME NEW n \in Int PROVE Advance(c, n) \in Machine /\ Advance(c, n).st = c.st
  <2>1. (c.pc + n) % WordSize \in Word
    <3>1. c.pc \in Word
      BY DEF Machine
    <3>2. c.pc \in Int
      BY <3>1, Widths DEF Word
    <3>3. c.pc + n \in Int
      BY <3>2
    <3> QED BY <3>3, Widths
  <2> QED BY <2>1 DEF Advance, Machine
<1> QED BY <1>1 DEF Machine

-----------------------------------------------------------------------------
(* Operands *)

LEMMA AddressesFit ==
  ASSUME NEW c \in Machine, NEW t \in 0..3, NEW x \in 0..15, NEW size \in {1, 2}
  PROVE  LET o == AddressOf(c, t, x, size)
         IN o.at \in Word /\ o.cpu \in Machine /\ o.cpu.st = c.st
<1> DEFINE even(a) == IF size = 2 THEN a - (a % 2) ELSE a
           index == (Following(c) + (IF x = 0 THEN 0 ELSE Reg(c, x))) % WordSize
           next == (Reg(c, x) + size) % WordSize
<1>1. RegAddr(c, x) \in Word /\ Reg(c, x) \in Word /\ Following(c) \in Word
  BY ReadsFit
<1>2. \A a \in Word : even(a) \in Word
  BY Widths
<1>3. index \in Word /\ next \in Word
  <2>1. /\ Following(c) + (IF x = 0 THEN 0 ELSE Reg(c, x)) \in Int
        /\ Reg(c, x) + size \in Int
    BY <1>1, Widths, SMTT(30) DEF Word
  <2> QED BY <2>1, Widths
<1>4. Advance(c, 1) \in Machine /\ Advance(c, 1).st = c.st
  BY FieldsFit
<1>5. /\ StoreWord(c, RegAddr(c, x), next) \in Machine
      /\ StoreWord(c, RegAddr(c, x), next).st = c.st
  BY <1>1, <1>3, StoresFit
<1>6. AddressOf(c, t, x, size) =
        CASE t = 0 -> [at |-> even(RegAddr(c, x)), cpu |-> c]
          [] t = 1 -> [at |-> even(Reg(c, x)), cpu |-> c]
          [] t = 2 -> [at |-> even(index), cpu |-> Advance(c, 1)]
          [] t = 3 -> [at |-> Reg(c, x), cpu |-> StoreWord(c, RegAddr(c, x), next)]
  BY DEF AddressOf
<1> HIDE DEF even, index, next
<1> QED BY <1>1, <1>2, <1>3, <1>4, <1>5, <1>6

Decoded == [op : STRING, ts : 0..3, s : 0..15, td : 0..3, d : 0..15, disp : Int, n : 0..WordBits]

LEMMA IsDecoded ==
  ASSUME NEW ops, Is(ops)
  PROVE  I \in Decoded /\ I.op \in ops
BY DecodeAssumption DEF Is, I, Decoded

LEMMA ModulusFits ==
  ASSUME NEW op
  PROVE  /\ Size(op) \in {1, 2} /\ Modulus(op) \in Moduli
         /\ \A c \in Machine, a \in Word : Read(c, a, op) \in 0..Modulus(op) - 1
         /\ \A c \in Machine, a \in Word, v \in 0..Modulus(op) - 1 :
              Store(c, a, v, op) \in Machine /\ Store(c, a, v, op).st = c.st
<1>1. CASE op \in ByteOps
  BY <1>1, ReadsFit, StoresFit DEF Size, Modulus, Moduli, Read, Store, Byte
<1>2. CASE op \notin ByteOps
  BY <1>2, ReadsFit, StoresFit DEF Size, Modulus, Moduli, Read, Store, Word
<1> QED BY <1>1, <1>2

\* Reading bytes raises the exception at most.
LEMMA ByteReadsFit ==
  ASSUME NEW c \in Machine
  PROVE  /\ \A a : ByteRead(c, a) \in Machine /\ ByteRead(c, a).st = c.st
         /\ \A op, s, d : LET m == OperandsRead(c, op, s, d)
                          IN m \in Machine /\ m.st = c.st
<1>1. \A m \in Machine : \A a : ByteRead(m, a) \in Machine /\ ByteRead(m, a).st = m.st
  BY DEF ByteRead, Raise, Machine
<1> QED BY <1>1 DEF OperandsRead

LEMMA OperandsFit ==
  ASSUME cpu \in Machine, NEW i \in Decoded, NEW o \in Operands(i)
  PROVE  /\ o.cpu \in Machine /\ o.at \in Word /\ o.cpu.st = cpu.st
         /\ o.s \in 0..Modulus(i.op) - 1 /\ o.d \in 0..Modulus(i.op) - 1
<1> DEFINE src == AddressOf(cpu, i.ts, i.s, Size(i.op))
           dst == AddressOf(src.cpu, i.td, i.d, Size(i.op))
<1>1. o = [cpu |-> OperandsRead(dst.cpu, i.op, src.at, dst.at), at |-> dst.at,
           s |-> Read(dst.cpu, src.at, i.op), d |-> Read(dst.cpu, dst.at, i.op)]
  BY DEF Operands
<1>2. i.ts \in 0..3 /\ i.s \in 0..15 /\ i.td \in 0..3 /\ i.d \in 0..15 /\ Size(i.op) \in {1, 2}
  BY ModulusFits DEF Decoded
<1>3. src.at \in Word /\ src.cpu \in Machine /\ src.cpu.st = cpu.st
  BY <1>2, AddressesFit
<1> HIDE DEF src
<1>4. dst.at \in Word /\ dst.cpu \in Machine /\ dst.cpu.st = cpu.st
  BY <1>2, <1>3, AddressesFit
<1> HIDE DEF dst
<1>5. /\ Read(dst.cpu, src.at, i.op) \in 0..Modulus(i.op) - 1
      /\ Read(dst.cpu, dst.at, i.op) \in 0..Modulus(i.op) - 1
  BY <1>3, <1>4, ModulusFits
<1> QED BY <1>1, <1>4, <1>5, ByteReadsFit

\* The operand of a transfer is found like any other, and of a byte is read.
LEMMA CruOperandIs ==
  ASSUME I \in Decoded, NEW o \in CruOperand
  PROVE  \E size \in {1, 2} :
           LET a == AddressOf(cpu, I.ts, I.s, size)
           IN o.at = a.at /\ (o.cpu = a.cpu \/ o.cpu = ByteRead(a.cpu, a.at))
<1>1. CASE Bytewise
  <2>1. PICK a : a = AddressOf(cpu, I.ts, I.s, 1) /\ o = [a EXCEPT !.cpu = ByteRead(@, a.at)]
    BY <1>1 DEF CruOperand
  <2>2. DOMAIN a = {"at", "cpu"}
    BY <2>1 DEF AddressOf, Decoded
  <2>3. o.at = a.at /\ o.cpu = ByteRead(a.cpu, a.at)
    BY <2>1, <2>2
  <2> QED BY <2>1, <2>3
<1>2. CASE ~Bytewise
  BY <1>2 DEF CruOperand
<1> QED BY <1>1, <1>2

LEMMA OneFits ==
  ASSUME cpu \in Machine, I \in Decoded
  PROVE  /\ \A o \in One : o.cpu \in Machine /\ o.at \in Word /\ o.cpu.st = cpu.st
         /\ \A o \in CruOperand : o.cpu \in Machine /\ o.at \in Word /\ o.cpu.st = cpu.st
<1>1. I.ts \in 0..3 /\ I.s \in 0..15
  BY DEF Decoded
<1>2. \A size \in {1, 2} : LET o == AddressOf(cpu, I.ts, I.s, size)
                           IN o.at \in Word /\ o.cpu \in Machine /\ o.cpu.st = cpu.st
  BY <1>1, AddressesFit
<1>3. \A o \in One : o.cpu \in Machine /\ o.at \in Word /\ o.cpu.st = cpu.st
  BY <1>2 DEF One
<1>4. \A o \in CruOperand : o.cpu \in Machine /\ o.at \in Word /\ o.cpu.st = cpu.st
  BY <1>2, CruOperandIs, ByteReadsFit
<1> QED BY <1>3, <1>4

-----------------------------------------------------------------------------
(* What single instructions compute *)

\* Any number whose high word is below the divisor has a quotient of one word.
LEMMA ProductsFit ==
  ASSUME NEW s \in Word, NEW d \in Word, NEW low \in Word
  PROVE  /\ High(d * s, WordSize) \in Word /\ Low(d * s, WordSize) \in Word
         /\ Divides(s, d) => /\ Quotient(s, d, low, WordSize) \in Word
                             /\ Remainder(s, d, low, WordSize) \in Word
<1>1. WordSize \in Nat \ {0} /\ s \in 0..WordSize - 1 /\ d \in 0..WordSize - 1
      /\ low \in 0..WordSize - 1
  BY Widths DEF Word
<1>2. High(d * s, WordSize) \in Word /\ Low(d * s, WordSize) \in Word
  <2>1. d * s \in Nat /\ WordSize * WordSize \in Nat
    BY <1>1
  <2>2. d * s < WordSize * WordSize
    <3>1. (WordSize - 1 - d) * s >= 0 /\ (WordSize - s) * WordSize >= 0
      BY <1>1
    <3>2. (WordSize - 1 - d) * s = WordSize * s - s - d * s
      BY <1>1
    <3>3. (WordSize - s) * WordSize = WordSize * WordSize - WordSize * s
      BY <1>1
    <3>4. CASE s = 0
      BY <1>1, <3>4
    <3>5. CASE s # 0
      <4>1. WordSize * s \in Int
        BY <1>1
      <4> QED BY <1>1, <2>1, <3>1, <3>2, <3>3, <3>5, <4>1
    <3> QED BY <3>4, <3>5
  <2>3. (d * s) \div WordSize \in 0..WordSize - 1
    BY <1>1, <2>1, <2>2, DivBelow
  <2>4. (d * s) % WordSize \in 0..WordSize - 1
    BY <1>1, <2>1, DivMod
  <2> QED BY <2>3, <2>4 DEF High, Low, Word
<1>3. ASSUME Divides(s, d)
      PROVE  Quotient(s, d, low, WordSize) \in Word /\ Remainder(s, d, low, WordSize) \in Word
  <2>1. s \in Nat \ {0} /\ d \in 0..s - 1
    BY <1>1, <1>3 DEF Divides
  <2>2. d * WordSize + low \in 0..s * WordSize - 1
    BY <1>1, <2>1, MulAddBelow
  <2> DEFINE n == d * WordSize + low
  <2>3. n \in Nat /\ n < s * WordSize
    <3>1. s * WordSize \in Nat
      BY <1>1
    <3> QED BY <2>2, <3>1
  <2> HIDE DEF n
  <2>4. n \div s \in 0..WordSize - 1
    BY <1>1, <2>1, <2>3, DivBelow
  <2>5. n % s \in 0..s - 1
    BY <2>1, <2>3, DivMod
  <2>6. n % s \in 0..WordSize - 1
    BY <1>1, <2>5
  <2> QED BY <2>4, <2>6 DEF n, Quotient, Remainder, Word
<1> QED BY <1>2, <1>3

Shifts == {"SLA", "SRA", "SRC", "SRL"}

LEMMA ShiftsFit ==
  ASSUME NEW op \in Shifts, NEW w \in Word, NEW c \in 1..WordBits
  PROVE  /\ Shifted(op, w, c, WordBits) \in Word
         /\ ShiftCarry(op, w, c, WordBits) \in BOOLEAN
         /\ \A st \in Status : ShiftOverflows(st, op, w, c, WordBits) \subseteq BOOLEAN
<1> DEFINE p == 2^c
           q == 2^(WordBits - c)
<1>1. c \in 0..WordBits
  BY PowerAssumption
<1>2. p \in Nat \ {0} /\ p * q = WordSize /\ 2^WordBits = WordSize
  BY <1>1, PowerAssumption
<1>3. q \in Nat \ {0}
  <2>1. WordBits - c \in 0..WordBits
    BY <1>1, PowerAssumption
  <2> QED BY <2>1, PowerAssumption
<1>4. Shifted(op, w, c, WordBits) =
        CASE op = "SLA" -> (w * p) % WordSize
          [] op = "SRL" -> w \div p
          [] op = "SRA" -> (Signed(w, WordSize) \div p) % WordSize
          [] op = "SRC" -> (w \div p) + (w % p) * q
  BY <1>2 DEF Shifted
<1>5. ShiftCarry(op, w, c, WordBits) \in BOOLEAN
  BY DEF ShiftCarry, Odd, Shifts
<1>6. \A st \in Status : ShiftOverflows(st, op, w, c, WordBits) \subseteq BOOLEAN
  <2> TAKE st \in Status
  <2>1. st.over \in BOOLEAN /\ (w >= 2^(WordBits - c - 1)) \in BOOLEAN
    BY DEF Status, StatusOf
  <2> QED BY <2>1 DEF ShiftOverflows
<1> HIDE DEF p, q
<1>7. w \in Nat /\ w < p * q
  BY <1>2, Widths DEF Word
<1>8. w \div p \in 0..q - 1 /\ w % p \in 0..p - 1
  BY <1>2, <1>3, <1>7, DivBelow, DivMod
<1>9. Shifted(op, w, c, WordBits) \in Word
  <2>1. CASE op = "SLA"
    <3>1. w * p \in Int
      BY <1>2, <1>7
    <3>2. (w * p) % WordSize \in Word
      BY <3>1, Widths
    <3> QED BY <1>4, <2>1, <3>2
  <2>2. CASE op = "SRL"
    <3>1. w \div p <= w
      <4>1. w = (w \div p) * p + (w % p)
        BY <1>2, <1>7, DivMod
      <4>2. (w \div p) * (p - 1) >= 0
        BY <1>2, <1>3, <1>8
      <4>3. (w \div p) * (p - 1) = (w \div p) * p - (w \div p)
        BY <1>2, <1>3, <1>8
      <4>4. (w \div p) * p \in Int
        BY <1>2, <1>3, <1>8
      <4> QED BY <1>3, <1>7, <1>8, <4>1, <4>2, <4>3, <4>4, <1>2
    <3>2. w \div p \in Nat
      BY <1>3, <1>8
    <3>3. \A x \in Nat : x <= w => x \in Word
      BY Widths DEF Word
    <3>4. w \div p \in Word
      BY <3>1, <3>2, <3>3
    <3> QED BY <1>4, <2>2, <3>4
  <2>3. CASE op = "SRA"
    <3>1. Signed(w, WordSize) \in Int
      BY <1>7, Widths DEF Signed
    <3>2. Signed(w, WordSize) \div p \in Int
      BY <1>2, <3>1
    <3>3. (Signed(w, WordSize) \div p) % WordSize \in Word
      BY <3>2, Widths
    <3> QED BY <1>4, <2>3, <3>3
  <2>4. CASE op = "SRC"
    <3>1. (w % p) * q + (w \div p) \in 0..p * q - 1
      BY <1>2, <1>3, <1>8, MulAddBelow
    <3>2. (w \div p) + (w % p) * q = (w % p) * q + (w \div p)
      BY <1>2, <1>3, <1>8
    <3> QED BY <1>2, <1>4, <2>4, <3>1, <3>2 DEF Word
  <2> QED BY <2>1, <2>2, <2>3, <2>4 DEF Shifts
<1> QED BY <1>5, <1>6, <1>9

Singles == {"CLR", "SETO", "INV", "NEG", "ABS", "SWPB", "INC", "INCT", "DEC", "DECT"}

LEMMA SinglesFit ==
  ASSUME NEW op \in Singles, NEW w \in Word, NEW st \in Status
  PROVE  /\ SingleResult(op, w) \in Word
         /\ \A r : SingleStatus(op, st, w, r) \in Status
<1>1. SingleResult(op, w) \in Word
  <2>1. WordSize \in Moduli /\ WordSize \in Nat /\ WordSize >= 4
    BY Widths DEF Moduli
  <2>2. w \in 0..WordSize - 1 /\ 1 \in 0..WordSize - 1 /\ 2 \in 0..WordSize - 1
    BY <2>1 DEF Word
  <2>3. /\ Add(w, 1, WordSize) \in Word /\ Add(w, 2, WordSize) \in Word
        /\ Subtract(w, 1, WordSize) \in Word /\ Subtract(w, 2, WordSize) \in Word
        /\ Negated(w, WordSize) \in Word /\ Absolute(w, WordSize) \in Word
        /\ WordSize - 1 - w \in Word
    BY <2>1, <2>2, ResultsFit DEF Word
  <2>4. (w % ByteSize) * ByteSize + (w \div ByteSize) \in Word
    BY Widths
  <2> QED BY <2>3, <2>4, Widths DEF SingleResult, Singles
<1>2. ASSUME NEW r PROVE SingleStatus(op, st, w, r) \in Status
  <2>1. [st EXCEPT !.lgt = TRUE] \in Status
    BY DEF Status, StatusOf
  <2>2. SetLAE(CarryOver(st, FALSE, FALSE), r, WordSize) \in Status
    BY StatusesFit
  <2>3. SetLAE(st, r, WordSize) \in Status
    BY StatusesFit
  <2>4. /\ StepStatus(st, w, 1, r, TRUE, WordSize) \in Status
        /\ StepStatus(st, w, 2, r, TRUE, WordSize) \in Status
        /\ StepStatus(st, w, 1, r, FALSE, WordSize) \in Status
        /\ StepStatus(st, w, 2, r, FALSE, WordSize) \in Status
    BY StepStatusFits
  <2> QED BY <2>1, <2>2, <2>3, <2>4 DEF SingleStatus, Singles
<1> QED BY <1>1, <1>2

-----------------------------------------------------------------------------
(* Comparisons *)

Ordered == Jumps \ {"JMP", "JOC", "JNC", "JNO"}

\* Equal signs and a negative difference, or signs that differ, order two numbers.
LEMMA ComparedRight ==
  ASSUME NEW st \in Status, NEW m \in Moduli, NEW s \in 0..m - 1, NEW d \in 0..m - 1
  PROVE  \A j \in Ordered : Taken(j, Compared(st, s, d, m)) <=> Relation(j, s, d, m)
<1> DEFINE r == Compared(st, s, d, m)
           below == Msb(s, m) = Msb(d, m) /\ Msb(Wrap(d - s, m), m)
           l == (Msb(s, m) /\ ~Msb(d, m)) \/ below
           a == (~Msb(s, m) /\ Msb(d, m)) \/ below
<1>1. PICK h \in Nat \ {0} : m = 2 * h /\ m \div 2 = h
  <2>1. m \in Nat \ {0} /\ m % 2 = 0
    BY Widths DEF Moduli
  <2>2. m \div 2 \in Nat \ {0} /\ m = 2 * (m \div 2)
    BY <2>1
  <2> QED BY <2>2
<1>2. Msb(s, m) <=> s >= h
  BY <1>1 DEF Msb
<1>3. Msb(d, m) <=> d >= h
  BY <1>1 DEF Msb
<1>4. Msb(Wrap(d - s, m), m) <=> (d < s /\ d - s + m >= h) \/ (d >= s /\ d - s >= h)
  BY <1>1 DEF Msb, Wrap
<1>5. below <=> /\ s >= h <=> d >= h
                /\ (d < s /\ d - s + m >= h) \/ (d >= s /\ d - s >= h)
  <2>1. Msb(s, m) \in BOOLEAN /\ Msb(d, m) \in BOOLEAN
    BY DEF Msb
  <2>2. (Msb(s, m) = Msb(d, m)) <=> (Msb(s, m) <=> Msb(d, m))
    BY <2>1
  <2> QED BY <1>2, <1>3, <1>4, <2>2, Zenon
<1>6. l <=> s > d
  <2>1. l <=> (s >= h /\ ~(d >= h)) \/ below
    BY <1>2, <1>3
  <2> HIDE DEF l, below
  <2> QED BY <1>5, <1>1, <2>1
<1>7. a <=> Signed(s, m) > Signed(d, m)
  <2>1. Signed(s, m) = IF s >= h THEN s - m ELSE s
    BY <1>2 DEF Signed
  <2>2. Signed(d, m) = IF d >= h THEN d - m ELSE d
    BY <1>3 DEF Signed
  <2>3. a <=> (~(s >= h) /\ d >= h) \/ below
    BY <1>2, <1>3
  <2> HIDE DEF a, below
  <2> QED BY <1>5, <1>1, <2>1, <2>2, <2>3
<1>8. Signed(s, m) = Signed(d, m) <=> s = d
  <2>1. Signed(s, m) = IF s >= h THEN s - m ELSE s
    BY <1>2 DEF Signed
  <2>2. Signed(d, m) = IF d >= h THEN d - m ELSE d
    BY <1>3 DEF Signed
  <2> QED BY <1>1, <2>1, <2>2
<1>9. Signed(s, m) \in Int /\ Signed(d, m) \in Int
  BY <1>1 DEF Signed
<1>10. r.lgt = l /\ r.agt = a /\ r.eq = (s = d)
  BY DEF Compared, Status, StatusOf
<1> HIDE DEF r, l, a, below
<1>11. (r.lgt <=> s > d) /\ (r.agt <=> Signed(s, m) > Signed(d, m)) /\ (r.eq <=> s = d)
  BY <1>6, <1>7, <1>10
<1>12. /\ s >= d <=> s > d \/ s = d
       /\ s < d <=> ~(s > d) /\ s # d
       /\ s <= d <=> ~(s > d) \/ s = d
       /\ Signed(s, m) < Signed(d, m) <=> ~(Signed(s, m) > Signed(d, m)) /\ s # d
  BY <1>1, <1>8, <1>9
<1> TAKE j \in Ordered
<1> QED BY <1>11, <1>12, Zenon DEF Taken, Relation, r, Ordered, Jumps

\* These jumps look at three flags only.
LEMMA TakenBySame ==
  ASSUME NEW st, NEW tt, SameOrder(st, tt), NEW j \in Ordered
  PROVE  Taken(j, st) <=> Taken(j, tt)
BY DEF SameOrder, Ordered, Jumps, Taken

-----------------------------------------------------------------------------
(* The invariant *)

CruBits == [column : Byte, alpha : {0, 1}, card : {0, 1}, side : {0, 1}]

\* The types, those of the CRU with them (the column chosen bounds what STCR can read),
\* and the flags a comparison left.
CpuInv ==
  /\ CpuTypeOK
  /\ cru \in CruBits
  /\ JumpsFollowComparison

LEMMA RetireKeeps ==
  ASSUME CpuInv, NEW c \in Machine, Retire(c)
  PROVE  CpuTypeOK' /\ JumpsFollowComparison'
<1>1. cpu' = c /\ insn' = None /\ compared' \in {compared, None}
  BY DEF Retire
<1>2. CpuTypeOK'
  BY <1>1 DEF CpuInv, CpuTypeOK
<1>3. JumpsFollowComparison'
  <2> SUFFICES ASSUME compared' # None, NEW j \in Ordered
               PROVE  Taken(j, cpu'.st) <=>
                        Relation(j, compared'.s, compared'.d, compared'.m)
    BY DEF JumpsFollowComparison, Ordered
  <2>1. SameOrder(cpu'.st, cpu.st) /\ compared' = compared
    BY DEF Retire
  <2>2. Taken(j, cpu.st) <=> Relation(j, compared.s, compared.d, compared.m)
    BY <2>1 DEF CpuInv, JumpsFollowComparison, Ordered
  <2>3. Taken(j, cpu'.st) <=> Taken(j, cpu.st)
    BY <2>1, TakenBySame
  <2> QED BY <2>1, <2>2, <2>3
<1> QED BY <1>2, <1>3

\* A step that leaves the flags and what they stand for alone.
LEMMA FetchKeeps ==
  ASSUME CpuInv, cpu' \in Machine, cpu'.st = cpu.st, insn' \in Word, UNCHANGED compared
  PROVE  CpuTypeOK' /\ JumpsFollowComparison'
<1>1. CpuTypeOK'
  BY DEF CpuInv, CpuTypeOK
<1>2. JumpsFollowComparison'
  BY DEF CpuInv, JumpsFollowComparison
<1> QED BY <1>1, <1>2

\* The last part of most instructions: a status, and on to the next word.
LEMMA Onward ==
  ASSUME NEW c \in Machine, NEW st \in Status, NEW n \in Int
  PROVE  Advance([c EXCEPT !.st = st], n) \in Machine
<1> DEFINE e == [c EXCEPT !.st = st]
<1>1. e \in Machine
  BY FieldsFit
<1> HIDE DEF e
<1>2. Advance(e, n) \in Machine
  BY <1>1, FieldsFit
<1> QED BY <1>2 DEF e

LEMMA ResultKeeps ==
  ASSUME CpuInv, NEW ops, Is(ops), NEW o \in Operands(I),
         NEW r \in 0..Modulus(I.op) - 1, NEW st \in Status, Result(o, r, st)
  PROVE  CpuTypeOK' /\ JumpsFollowComparison' /\ UNCHANGED cru
<1> DEFINE marked == IF I.op \in ByteOps THEN SetParity(st, r) ELSE st
           c == Store(o.cpu, o.at, r, I.op)
<1>1. Retire(Advance([c EXCEPT !.st = marked], 1)) /\ UNCHANGED cru
  BY DEF Result
<1>2. marked \in Status
  BY StatusesFit
<1>3. c \in Machine
  <2>1. cpu \in Machine /\ I \in Decoded
    BY IsDecoded DEF CpuInv, CpuTypeOK
  <2>2. o.cpu \in Machine /\ o.at \in Word
    BY <2>1, OperandsFit
  <2> QED BY <2>2, ModulusFits
<1> HIDE DEF marked, c
<1>4. Advance([c EXCEPT !.st = marked], 1) \in Machine
  BY <1>2, <1>3, Onward
<1> QED BY <1>1, <1>4, RetireKeeps

LEMMA Facts ==
  ASSUME CpuInv
  PROVE  /\ cpu \in Machine /\ cpu.st \in Status
         /\ cru \in CruBits
         /\ \A ops : Is(ops) => I \in Decoded /\ I.op \in ops
BY IsDecoded DEF CpuInv, CpuTypeOK, Machine

-----------------------------------------------------------------------------
(* One lemma per group of instructions *)

Kept == CpuTypeOK' /\ JumpsFollowComparison' /\ cru' \in CruBits

LEMMA FetchesKeep ==
  ASSUME CpuInv, Fetch \/ Execute
  PROVE  Kept
<1>1. CASE Fetch
  <2>1. (2 * cpu.pc) % WordSize \in Word
    <3>1. cpu.pc \in Word
      BY Facts DEF Machine
    <3>2. 2 * cpu.pc \in Int
      BY <3>1, Widths DEF Word
    <3> QED BY <3>2, Widths
  <2>2. insn' \in Word
    BY <1>1, <2>1, Facts, ReadsFit DEF Fetch
  <2>3. cpu' \in Machine /\ cpu'.st = cpu.st /\ UNCHANGED <<compared, cru>>
    BY <1>1, Facts DEF Fetch
  <2> QED BY <2>2, <2>3, Facts, FetchKeeps DEF Kept
<1>2. CASE Execute
  <2>1. cpu \in Machine /\ I \in Decoded
    BY <1>2, Facts DEF Execute
  <2>2. PICK o \in One : cpu' = o.cpu /\ insn' = ReadWord(o.cpu, o.at)
    BY <1>2 DEF Execute
  <2>3. o.cpu \in Machine /\ o.at \in Word /\ o.cpu.st = cpu.st
    BY <2>1, OneFits
  <2>4. insn' \in Word /\ cpu' \in Machine /\ cpu'.st = cpu.st
    BY <2>2, <2>3, ReadsFit
  <2>5. UNCHANGED <<compared, cru>>
    BY <1>2 DEF Execute
  <2> QED BY <2>4, <2>5, Facts, FetchKeeps DEF Kept
<1> QED BY <1>1, <1>2

LEMMA TwoOperandsKeep ==
  ASSUME CpuInv, Move \/ Arithmetic \/ Logic
  PROVE  Kept
<1> cpu.st \in Status /\ cru \in CruBits
  BY Facts
<1>1. ASSUME NEW ops, Is(ops), NEW o \in Operands(I)
      PROVE  /\ o.s \in 0..Modulus(I.op) - 1 /\ o.d \in 0..Modulus(I.op) - 1
             /\ Modulus(I.op) \in Moduli
  BY <1>1, Facts, OperandsFit, ModulusFits
<1>2. CASE Move
  <2>1. Is({"MOV", "MOVB"})
    BY <1>2 DEF Move
  <2>2. PICK o \in Operands(I) : Result(o, o.s, SetLAE(cpu.st, o.s, Modulus(I.op)))
    BY <1>2 DEF Move
  <2> DEFINE st == SetLAE(cpu.st, o.s, Modulus(I.op))
  <2>3. st \in Status /\ o.s \in 0..Modulus(I.op) - 1
    BY <1>1, <2>1, StatusesFit
  <2> HIDE DEF st
  <2>4. Result(o, o.s, st)
    BY <2>2 DEF st
  <2> QED BY <2>1, <2>3, <2>4, ResultKeeps DEF Kept
<1>3. CASE Arithmetic
  <2>1. Is({"A", "AB", "S", "SB"})
    BY <1>3 DEF Arithmetic
  <2>2. PICK o \in Operands(I) :
          LET m == Modulus(I.op)
              r == IF I.op \in {"A", "AB"} THEN Add(o.d, o.s, m) ELSE Subtract(o.d, o.s, m)
          IN Result(o, r, SumStatus(cpu.st, o.d, o.s, r, m))
    BY <1>3 DEF Arithmetic
  <2> DEFINE m == Modulus(I.op)
             r == IF I.op \in {"A", "AB"} THEN Add(o.d, o.s, m) ELSE Subtract(o.d, o.s, m)
             st == SumStatus(cpu.st, o.d, o.s, r, m)
  <2>3. Result(o, r, st)
    BY <2>2
  <2>4. r \in 0..m - 1
    <3>1. m \in Moduli /\ o.d \in 0..m - 1 /\ o.s \in 0..m - 1
      BY <1>1, <2>1
    <3> HIDE DEF m
    <3> QED BY <3>1, ResultsFit
  <2>5. st \in Status
    BY SumStatusFits
  <2> HIDE DEF r, st
  <2> QED BY <2>1, <2>3, <2>4, <2>5, ResultKeeps DEF Kept
<1>4. CASE Logic
  <2>1. Is({"SOC", "SOCB", "SZC", "SZCB"})
    BY <1>4 DEF Logic
  <2>2. PICK o \in Operands(I) :
          LET m == Modulus(I.op)
              r == IF I.op \in {"SOC", "SOCB"} THEN BitOr(o.d, o.s) ELSE BitAnd(o.d, m - 1 - o.s)
          IN Result(o, r, SetLAE(cpu.st, r, m))
    BY <1>4 DEF Logic
  <2> DEFINE m == Modulus(I.op)
             r == IF I.op \in {"SOC", "SOCB"} THEN BitOr(o.d, o.s) ELSE BitAnd(o.d, m - 1 - o.s)
             st == SetLAE(cpu.st, r, m)
  <2>3. Result(o, r, st)
    BY <2>2
  <2>4. r \in 0..m - 1
    <3>1. m \in Moduli /\ o.d \in 0..m - 1 /\ o.s \in 0..m - 1
      BY <1>1, <2>1
    <3> HIDE DEF m
    <3>2. m - 1 - o.s \in 0..m - 1
      BY <3>1, ResultsFit
    <3> QED BY <3>1, <3>2, ResultsFit
  <2>5. st \in Status
    BY StatusesFit
  <2> HIDE DEF r, st
  <2> QED BY <2>1, <2>3, <2>4, <2>5, ResultKeeps DEF Kept
<1> QED BY <1>2, <1>3, <1>4

LEMMA ComparesKeep ==
  ASSUME CpuInv, Compare
  PROVE  Kept
<1> DEFINE m == Modulus(I.op)
           operands == IF I.op = "CI"
                       THEN {[cpu |-> Advance(cpu, 1), s |-> ReadWord(cpu, RegAddr(cpu, I.d)),
                              d |-> Following(cpu)]}
                       ELSE Operands(I)
<1>1. cpu \in Machine /\ I \in Decoded /\ cru \in CruBits /\ m \in Moduli
  BY Facts, ModulusFits DEF Compare
<1>2. PICK o \in operands :
        /\ cpu' = Advance([o.cpu EXCEPT !.st = Compared(@, o.s, o.d, m)], 1)
        /\ compared' = [s |-> o.s, d |-> o.d, m |-> m]
  BY DEF Compare
<1>3. o.cpu \in Machine /\ o.s \in 0..m - 1 /\ o.d \in 0..m - 1
  <2>1. CASE I.op = "CI"
    <3>1. m = WordSize
      BY <2>1 DEF Modulus, ByteOps
    <3>2. I.d \in 0..16
      BY <1>1 DEF Decoded
    <3>3. Advance(cpu, 1) \in Machine /\ RegAddr(cpu, I.d) \in Word /\ Following(cpu) \in Word
      BY <1>1, <3>2, FieldsFit, ReadsFit
    <3>4. ReadWord(cpu, RegAddr(cpu, I.d)) \in Word
      BY <1>1, <3>3, ReadsFit
    <3>5. o = [cpu |-> Advance(cpu, 1), s |-> ReadWord(cpu, RegAddr(cpu, I.d)),
               d |-> Following(cpu)]
      BY <2>1
    <3> QED BY <3>1, <3>3, <3>4, <3>5 DEF Word
  <2>2. CASE I.op # "CI"
    BY <1>1, <2>2, OperandsFit
  <2> QED BY <2>1, <2>2
<1> HIDE DEF m, operands
<1> DEFINE st == Compared(o.cpu.st, o.s, o.d, m)
<1>4. o.cpu.st \in Status
  BY <1>3 DEF Machine
<1>5. st \in Status
  BY <1>4, StatusesFit
<1>6. cpu' = Advance([o.cpu EXCEPT !.st = st], 1)
  BY <1>2
<1>7. compared'.s = o.s /\ compared'.d = o.d /\ compared'.m = m
  BY <1>2
<1>8. compared' \in Comparison
  <2>1. m \in Nat \ {0} /\ m <= WordSize /\ WordSize \in Nat
    BY <1>1, Widths DEF Moduli
  <2>2. o.s \in Word /\ o.d \in Word /\ o.s < m /\ o.d < m
    BY <1>3, <2>1 DEF Word
  <2> QED BY <1>1, <1>2, <2>2 DEF Comparison, Moduli
<1>9. \A j \in Ordered : Taken(j, st) <=> Relation(j, o.s, o.d, m)
  BY <1>1, <1>3, <1>4, ComparedRight
<1> HIDE DEF st
<1>10. cpu' \in Machine
  BY <1>3, <1>5, <1>6, Onward
<1>11. cpu'.st = st
  <2> DEFINE e == [o.cpu EXCEPT !.st = st]
  <2>1. e \in Machine /\ e.st = st
    BY <1>3, <1>5, FieldsFit
  <2>2. cpu' = Advance(e, 1)
    BY <1>6
  <2> HIDE DEF e
  <2> QED BY <2>1, <2>2, FieldsFit
<1>12. insn' = None /\ UNCHANGED cru
  BY DEF Compare
<1>13. CpuTypeOK'
  BY <1>8, <1>10, <1>12 DEF CpuTypeOK
<1>14. JumpsFollowComparison'
  BY <1>7, <1>9, <1>11 DEF JumpsFollowComparison, Ordered
<1> QED BY <1>1, <1>12, <1>13, <1>14 DEF Kept

\* LIMI: the low bits of the status below the mask's are replaced, the others stay.
LEMMA MaskFits ==
  ASSUME NEW x \in 0..Low6 - 1, NEW y \in Word
  PROVE  x - (x % MaskSize) + (y % MaskSize) \in 0..Low6 - 1
<1> DEFINE q == x \div MaskSize
           h == Low6 \div MaskSize
<1>1. Low6 \in Nat \ {0} /\ MaskSize \in Nat \ {0} /\ Low6 % MaskSize = 0
  BY Widths, WidthAssumption
<1>2. y \in Nat /\ x \in Nat
  BY <1>1, Widths DEF Word
<1> HIDE DEF Low6
<1>3. q \in Nat /\ x = q * MaskSize + (x % MaskSize) /\ x % MaskSize \in 0..MaskSize - 1
  BY <1>1, <1>2, DivMod
<1>4. h \in Nat /\ Low6 = h * MaskSize
  <2>1. h \in Nat /\ Low6 = h * MaskSize + (Low6 % MaskSize)
    BY <1>1, DivMod
  <2> HIDE DEF h
  <2>2. h * MaskSize \in Nat
    BY <1>1, <2>1
  <2> QED BY <1>1, <2>1, <2>2
<1>5. h * MaskSize = MaskSize * h
  BY <1>1, <1>4
<1>6. q \in 0..h - 1
  BY <1>1, <1>2, <1>4, <1>5, DivBelow
<1>7. y % MaskSize \in 0..MaskSize - 1
  BY <1>1, <1>2, DivMod
<1> HIDE DEF q, h
<1>8. q * MaskSize + (y % MaskSize) \in 0..h * MaskSize - 1
  BY <1>1, <1>4, <1>6, <1>7, MulAddBelow
<1>9. x - (x % MaskSize) = q * MaskSize
  <2>1. q * MaskSize \in Nat
    BY <1>1, <1>3
  <2> QED BY <1>3, <2>1
<1> QED BY <1>4, <1>8, <1>9

LEMMA ImmediatesKeep ==
  ASSUME CpuInv, Immediate \/ LoadPointer \/ StoreStatus \/ Unimplemented
  PROVE  Kept
<1>1. cpu \in Machine /\ I \in Decoded /\ cru \in CruBits /\ cpu.st \in Status
  BY Facts DEF Immediate, LoadPointer, StoreStatus, Unimplemented
<1>2. I.d \in 0..15 /\ I.d \in 0..16
  BY <1>1 DEF Decoded
<1>3. Following(cpu) \in Word /\ RegAddr(cpu, I.d) \in Word
  BY <1>1, <1>2, ReadsFit
<1>4. CASE Immediate
  <2>1. PICK imm \in {Following(cpu)}, w \in {ReadWord(cpu, RegAddr(cpu, I.d))} :
     LET r == CASE I.op = "LI" -> imm           [] I.op = "ANDI" -> BitAnd(w, imm)
                [] I.op = "ORI" -> BitOr(w, imm)   [] I.op = "AI" -> Add(w, imm, WordSize)
         c == IF I.op = "LI"
              THEN StoreRam(StoreRam(cpu, WR(cpu, I.d) + 1, r % ByteSize),
                            WR(cpu, I.d), r \div ByteSize)
              ELSE StoreWord(cpu, RegAddr(cpu, I.d), r)
         st == IF I.op = "AI" THEN SumStatus(cpu.st, w, imm, r, WordSize)
               ELSE SetLAE(cpu.st, r, WordSize)
     IN Retire(Advance([c EXCEPT !.st = st], 2))
    BY <1>4 DEF Immediate
  <2> DEFINE r == CASE I.op = "LI" -> imm           [] I.op = "ANDI" -> BitAnd(w, imm)
                    [] I.op = "ORI" -> BitOr(w, imm)   [] I.op = "AI" -> Add(w, imm, WordSize)
             inRam == StoreRam(StoreRam(cpu, WR(cpu, I.d) + 1, r % ByteSize),
                               WR(cpu, I.d), r \div ByteSize)
             c == IF I.op = "LI" THEN inRam ELSE StoreWord(cpu, RegAddr(cpu, I.d), r)
             st == IF I.op = "AI" THEN SumStatus(cpu.st, w, imm, r, WordSize)
                   ELSE SetLAE(cpu.st, r, WordSize)
  <2>2. Retire(Advance([c EXCEPT !.st = st], 2)) /\ UNCHANGED cru
    BY <1>4, <2>1 DEF Immediate
  <2>3. I.op \in {"LI", "ANDI", "ORI", "AI"}
    BY <1>4, Facts DEF Immediate
  <2>4. imm \in Word /\ w \in Word
    BY <1>1, <1>3, ReadsFit
  <2>5. r \in Word
    <3>1. WordSize \in Moduli /\ imm \in 0..WordSize - 1 /\ w \in 0..WordSize - 1
      BY <2>4 DEF Moduli, Word
    <3>2. /\ BitAnd(w, imm) \in Word /\ BitOr(w, imm) \in Word
          /\ Add(w, imm, WordSize) \in Word
      BY <3>1, ResultsFit DEF Word
    <3> QED BY <2>3, <2>4, <3>2
  <2>6. st \in Status
    BY <1>1, SumStatusFits, StatusesFit
  <2> HIDE DEF r
  <2>7. inRam \in Machine
    <3>1. WR(cpu, I.d) \in Nat /\ WR(cpu, I.d) + 1 \in Nat
      <4>1. cpu.wp \in Word
        BY <1>1 DEF Machine
      <4>2. cpu.wp % PadSize \in Nat
        BY <4>1, PadOffsets, PadAssumption DEF Reach
      <4> QED BY <1>2, <4>2 DEF WR
    <3>2. r % ByteSize \in Byte /\ r \div ByteSize \in Byte
      BY <2>5, Widths
    <3> DEFINE e == StoreRam(cpu, WR(cpu, I.d) + 1, r % ByteSize)
    <3>3. e \in Machine
      BY <1>1, <3>1, <3>2, StoresFit
    <3> HIDE DEF e
    <3>4. StoreRam(e, WR(cpu, I.d), r \div ByteSize) \in Machine
      BY <3>1, <3>2, <3>3, StoresFit
    <3> QED BY <3>4 DEF e
  <2>8. c \in Machine
    BY <1>1, <1>3, <2>5, <2>7, StoresFit
  <2> HIDE DEF c, st
  <2>9. Advance([c EXCEPT !.st = st], 2) \in Machine
    BY <2>6, <2>8, Onward
  <2> QED BY <1>1, <2>2, <2>9, RetireKeeps DEF Kept
<1>5. CASE LoadPointer
  <2> DEFINE imm == Following(cpu)
             low == cpu.st.low - (cpu.st.low % MaskSize) + (imm % MaskSize)
             c == IF I.op = "LWPI" THEN [cpu EXCEPT !.wp = imm] ELSE [cpu EXCEPT !.st.low = low]
  <2>1. Retire(Advance(c, 2)) /\ UNCHANGED cru
    BY <1>5 DEF LoadPointer
  <2>2. low \in 0..Low6 - 1
    BY <1>1, <1>3, MaskFits DEF Status, StatusOf
  <2> HIDE DEF low
  <2>3. [cpu EXCEPT !.st.low = low] \in Machine
    <3>1. [cpu.st EXCEPT !.low = low] \in Status
      BY <1>1, <2>2 DEF Status, StatusOf
    <3>2. [cpu EXCEPT !.st.low = low] = [cpu EXCEPT !.st = [cpu.st EXCEPT !.low = low]]
      BY <1>1 DEF Machine
    <3> QED BY <1>1, <3>1, <3>2, FieldsFit
  <2>4. c \in Machine
    BY <1>1, <1>3, <2>3, FieldsFit
  <2> HIDE DEF c
  <2>5. Advance(c, 2) \in Machine
    BY <2>4, FieldsFit
  <2> QED BY <1>1, <2>1, <2>5, RetireKeeps DEF Kept
<1>6. CASE StoreStatus
  <2> DEFINE w == IF I.op = "STST" THEN StWord(cpu.st) ELSE cpu.wp
             c == StoreWord(cpu, RegAddr(cpu, I.d), w)
  <2>1. Retire(Advance(c, 1)) /\ UNCHANGED cru
    BY <1>6 DEF StoreStatus
  <2>2. w \in Word
    BY <1>1, StatusIsWord DEF Machine
  <2> HIDE DEF w
  <2>3. c \in Machine
    BY <1>1, <1>3, <2>2, StoresFit
  <2> HIDE DEF c
  <2>4. Advance(c, 1) \in Machine
    BY <2>3, FieldsFit
  <2> QED BY <1>1, <2>1, <2>4, RetireKeeps DEF Kept
<1>7. CASE Unimplemented
  BY <1>1, <1>7, RetireKeeps DEF Kept, Unimplemented
<1> QED BY <1>4, <1>5, <1>6, <1>7

LEMMA SinglesKeep ==
  ASSUME CpuInv, Single \/ Shift \/ Jump
  PROVE  Kept
<1>1. cpu \in Machine /\ I \in Decoded /\ cru \in CruBits /\ cpu.st \in Status
  BY Facts DEF Single, Shift, Jump
<1>2. I.d \in 0..15 /\ I.d \in 0..16 /\ I.disp \in Int /\ I.n \in 0..WordBits
  BY <1>1 DEF Decoded
<1>3. CASE Single
  <2>1. I.op \in Singles
    BY <1>3, Facts DEF Single, Singles
  <2>2. PICK o \in One :
          LET w == ReadWord(o.cpu, o.at)
              r == SingleResult(I.op, w)
              c == IF I.op = "ABS" /\ ~Msb(w, WordSize) THEN o.cpu
                   ELSE StoreWord(o.cpu, o.at, r)
          IN Retire(Advance([c EXCEPT !.st = SingleStatus(I.op, @, w, r)], 1))
    BY <1>3 DEF Single
  <2> DEFINE w == ReadWord(o.cpu, o.at)
             r == SingleResult(I.op, w)
             c == IF I.op = "ABS" /\ ~Msb(w, WordSize) THEN o.cpu
                  ELSE StoreWord(o.cpu, o.at, r)
             st == SingleStatus(I.op, c.st, w, r)
  <2>3. Retire(Advance([c EXCEPT !.st = st], 1)) /\ UNCHANGED cru
    BY <1>3, <2>2 DEF Single
  <2>4. o.cpu \in Machine /\ o.at \in Word
    BY <1>1, OneFits
  <2>5. w \in Word
    BY <2>4, ReadsFit
  <2> HIDE DEF w
  <2>6. r \in Word
    BY <1>1, <2>1, <2>5, SinglesFit
  <2>7. c \in Machine
    <3> HIDE DEF r
    <3> QED BY <2>4, <2>6, StoresFit
  <2> HIDE DEF r, c
  <2>8. c.st \in Status
    BY <2>7 DEF Machine
  <2>9. st \in Status
    BY <2>1, <2>5, <2>8, SinglesFit
  <2> HIDE DEF st
  <2>10. Advance([c EXCEPT !.st = st], 1) \in Machine
    BY <2>7, <2>9, Onward
  <2> QED BY <1>1, <2>3, <2>10, RetireKeeps DEF Kept
<1>4. CASE Shift
  <2>1. I.op \in Shifts
    BY <1>4, Facts DEF Shift, Shifts
  <2> DEFINE w == ReadWord(cpu, RegAddr(cpu, I.d))
             r == Shifted(I.op, w, ShiftCount, WordBits)
             carry == ShiftCarry(I.op, w, ShiftCount, WordBits)
             c == StoreWord(cpu, RegAddr(cpu, I.d), r)
  <2>2. PICK over \in ShiftOverflows(cpu.st, I.op, w, ShiftCount, WordBits) :
          Retire(Advance([c EXCEPT !.st = SetLAE(CarryOver(@, carry, over), r, WordSize)], 1))
    BY <1>4 DEF Shift
  <2> DEFINE st == SetLAE(CarryOver(c.st, carry, over), r, WordSize)
  <2>3. Retire(Advance([c EXCEPT !.st = st], 1)) /\ UNCHANGED cru
    BY <1>4, <2>2 DEF Shift
  <2>4. RegAddr(cpu, I.d) \in Word /\ w \in Word
    BY <1>1, <1>2, ReadsFit
  <2>5. ShiftCount \in 1..WordBits
    <3>1. cpu.wp \in Word
      BY <1>1 DEF Machine
    <3>2. ReadWord(cpu, cpu.wp) \in Nat
      <4>1. ReadWord(cpu, cpu.wp) \in Word
        BY <1>1, <3>1, ReadsFit
      <4> QED BY <4>1, Widths DEF Word
    <3>3. ReadWord(cpu, cpu.wp) % WordBits \in 0..WordBits - 1
      BY <3>2, PowerAssumption
    <3> QED BY <1>2, <3>3, PowerAssumption DEF ShiftCount
  <2> HIDE DEF w
  <2>6. r \in Word /\ carry \in BOOLEAN
    BY <2>1, <2>4, <2>5, ShiftsFit
  <2>7. over \in BOOLEAN
    BY <1>1, <2>1, <2>4, <2>5, ShiftsFit
  <2> HIDE DEF r, carry
  <2>8. c \in Machine
    BY <1>1, <2>4, <2>6, StoresFit
  <2> HIDE DEF c
  <2>9. c.st \in Status
    BY <2>8 DEF Machine
  <2>10. CarryOver(c.st, carry, over) \in Status
    BY <2>6, <2>7, <2>9, StatusesFit
  <2>11. st \in Status
    BY <2>10, StatusesFit
  <2> HIDE DEF st
  <2>12. Advance([c EXCEPT !.st = st], 1) \in Machine
    BY <2>8, <2>11, Onward
  <2> QED BY <1>1, <2>3, <2>12, RetireKeeps DEF Kept
<1>5. CASE Jump
  <2> DEFINE n == 1 + (IF Taken(I.op, cpu.st) THEN I.disp ELSE 0)
  <2>1. n \in Int
    BY <1>2
  <2>2. Retire(Advance(cpu, n)) /\ UNCHANGED cru
    BY <1>5 DEF Jump
  <2> HIDE DEF n
  <2>3. Advance(cpu, n) \in Machine
    BY <1>1, <2>1, FieldsFit
  <2> QED BY <1>1, <2>2, <2>3, RetireKeeps DEF Kept
<1> QED BY <1>3, <1>4, <1>5

LEMMA RegisterPairsKeep ==
  ASSUME CpuInv, MultiplyDivide \/ Bits
  PROVE  Kept
<1>1. cpu \in Machine /\ I \in Decoded /\ cru \in CruBits
  BY Facts DEF MultiplyDivide, Bits
<1>2. I.d \in 0..15 /\ I.d \in 0..16 /\ I.d + 1 \in 0..16
  BY <1>1 DEF Decoded
<1>3. ASSUME NEW c \in Machine
      PROVE  /\ RegAddr(c, I.d) \in Word /\ RegAddr(c, I.d + 1) \in Word
             /\ Reg(c, I.d) \in Word /\ Reg(c, I.d + 1) \in Word
  BY <1>2, ReadsFit
<1>4. CASE MultiplyDivide
  <2> DEFINE pair(c, x, y) == StoreWord(StoreWord(c, RegAddr(c, I.d), x), RegAddr(c, I.d + 1), y)
  <2>1. ASSUME NEW c \in Machine, NEW x \in Word, NEW y \in Word
        PROVE  pair(c, x, y) \in Machine
    <3>1. PICK e : e = StoreWord(c, RegAddr(c, I.d), x)
      OBVIOUS
    <3>2. e \in Machine
      BY <1>3, <2>1, <3>1, StoresFit
    <3>3. StoreWord(e, RegAddr(c, I.d + 1), y) \in Machine
      BY <1>3, <3>2, StoresFit
    <3> QED BY <3>1, <3>3
  <2> HIDE DEF pair
  <2>2. PICK o \in One :
     LET s == ReadWord(o.cpu, o.at)
         d == Reg(o.cpu, I.d)
         low == Reg(o.cpu, I.d + 1)
         c == IF I.op = "MPY" THEN pair(o.cpu, High(d * s, WordSize), Low(d * s, WordSize))
              ELSE IF Divides(s, d)
              THEN pair([o.cpu EXCEPT !.st.over = FALSE],
                        Quotient(s, d, low, WordSize), Remainder(s, d, low, WordSize))
              ELSE [o.cpu EXCEPT !.st.over = TRUE]
     IN Retire(Advance(c, 1))
    BY <1>4 DEF MultiplyDivide, pair
  <2> DEFINE s == ReadWord(o.cpu, o.at)
             d == Reg(o.cpu, I.d)
             low == Reg(o.cpu, I.d + 1)
             c == IF I.op = "MPY" THEN pair(o.cpu, High(d * s, WordSize), Low(d * s, WordSize))
                  ELSE IF Divides(s, d)
                  THEN pair([o.cpu EXCEPT !.st.over = FALSE],
                            Quotient(s, d, low, WordSize), Remainder(s, d, low, WordSize))
                  ELSE [o.cpu EXCEPT !.st.over = TRUE]
  <2>3. Retire(Advance(c, 1)) /\ UNCHANGED cru
    BY <1>4, <2>2 DEF MultiplyDivide
  <2>4. o.cpu \in Machine /\ o.at \in Word
    BY <1>1, OneFits
  <2>5. s \in Word /\ d \in Word /\ low \in Word
    BY <1>3, <2>4, ReadsFit
  <2>6. \A b \in BOOLEAN : [o.cpu EXCEPT !.st.over = b] \in Machine
    BY <2>4 DEF Machine, Status, StatusOf
  <2> HIDE DEF s, d, low
  <2>7. c \in Machine
    <3>1. CASE I.op = "MPY"
      BY <2>1, <2>4, <2>5, <3>1, ProductsFit
    <3>2. CASE I.op # "MPY" /\ Divides(s, d)
      <4>1. [o.cpu EXCEPT !.st.over = FALSE] \in Machine
        BY <2>6
      <4>2. Quotient(s, d, low, WordSize) \in Word /\ Remainder(s, d, low, WordSize) \in Word
        BY <2>5, <3>2, ProductsFit
      <4> QED BY <2>1, <3>2, <4>1, <4>2
    <3>3. CASE I.op # "MPY" /\ ~Divides(s, d)
      BY <2>6, <3>3
    <3> QED BY <3>1, <3>2, <3>3
  <2> HIDE DEF c
  <2>8. Advance(c, 1) \in Machine
    BY <2>7, FieldsFit
  <2> QED BY <1>1, <2>3, <2>8, RetireKeeps DEF Kept
<1>5. CASE Bits
  <2>1. PICK o \in One :
     LET s == ReadWord(o.cpu, o.at)
         d == Reg(o.cpu, I.d)
         mask == IF I.op = "CZC" THEN WordSize - 1 - d ELSE d
         r == BitXor(d, s)
         c == IF I.op = "XOR"
              THEN [StoreWord(o.cpu, RegAddr(o.cpu, I.d), r)
                      EXCEPT !.st = SetLAE(@, r, WordSize)]
              ELSE [o.cpu EXCEPT !.st.eq = BitAnd(s, mask) = s]
     IN Retire(Advance(c, 1))
    BY <1>5 DEF Bits
  <2> DEFINE s == ReadWord(o.cpu, o.at)
             d == Reg(o.cpu, I.d)
             mask == IF I.op = "CZC" THEN WordSize - 1 - d ELSE d
             r == BitXor(d, s)
             e == StoreWord(o.cpu, RegAddr(o.cpu, I.d), r)
             c == IF I.op = "XOR" THEN [e EXCEPT !.st = SetLAE(@, r, WordSize)]
                  ELSE [o.cpu EXCEPT !.st.eq = BitAnd(s, mask) = s]
  <2>2. Retire(Advance(c, 1)) /\ UNCHANGED cru
    BY <1>5, <2>1 DEF Bits
  <2>3. o.cpu \in Machine /\ o.at \in Word
    BY <1>1, OneFits
  <2>4. s \in Word /\ d \in Word /\ RegAddr(o.cpu, I.d) \in Word
    BY <1>3, <2>3, ReadsFit
  <2>5. \A b \in BOOLEAN : [o.cpu EXCEPT !.st.eq = b] \in Machine
    BY <2>3 DEF Machine, Status, StatusOf
  <2> HIDE DEF s, d
  <2>6. r \in Word
    BY <2>4, ResultsFit DEF Word, Moduli
  <2> HIDE DEF r
  <2>7. e \in Machine
    BY <2>3, <2>4, <2>6, StoresFit
  <2> HIDE DEF e, mask
  <2>8. [e EXCEPT !.st = SetLAE(@, r, WordSize)] \in Machine
    <3>1. e.st \in Status
      BY <2>7 DEF Machine
    <3>2. SetLAE(e.st, r, WordSize) \in Status
      BY <3>1, StatusesFit
    <3> QED BY <2>7, <3>2, FieldsFit
  <2>9. c \in Machine
    <3>1. (BitAnd(s, mask) = s) \in BOOLEAN
      OBVIOUS
    <3> QED BY <2>5, <2>8, <3>1
  <2> HIDE DEF c
  <2>10. Advance(c, 1) \in Machine
    BY <2>9, FieldsFit
  <2> QED BY <1>1, <2>2, <2>10, RetireKeeps DEF Kept
<1> QED BY <1>4, <1>5

LEMMA SavesFit ==
  ASSUME NEW c \in Machine, NEW wp \in Word, NEW pc \in Word, NEW w \in Word
  PROVE  Saved(c, wp, pc, w) \in Machine
<1>1. PICK d : d = StoreWord(c, RegAddr(c, 13), wp)
  OBVIOUS
<1>2. PICK e : e = StoreWord(d, RegAddr(c, 14), pc)
  OBVIOUS
<1>3. RegAddr(c, 13) \in Word /\ RegAddr(c, 14) \in Word /\ RegAddr(c, 15) \in Word
  BY ReadsFit
<1>4. d \in Machine
  BY <1>1, <1>3, StoresFit
<1>5. e \in Machine
  BY <1>2, <1>3, <1>4, StoresFit
<1>6. StoreWord(e, RegAddr(c, 15), w) \in Machine
  BY <1>3, <1>5, StoresFit
<1> QED BY <1>1, <1>2, <1>6 DEF Saved

LEMMA BranchesKeep ==
  ASSUME CpuInv, Branch \/ Blwp \/ Rtwp
  PROVE  Kept
<1>1. cpu \in Machine /\ I \in Decoded /\ cru \in CruBits /\ cpu.st \in Status
  BY Facts DEF Branch, Blwp, Rtwp
<1>2. CASE Branch
  <2>1. PICK o \in One :
          LET c == IF I.op = "BL"
                   THEN StoreWord(o.cpu, RegAddr(o.cpu, 11), ReturnAddress(o.cpu)) ELSE o.cpu
          IN Retire([c EXCEPT !.pc = o.at \div 2])
    BY <1>2 DEF Branch
  <2> DEFINE c == IF I.op = "BL"
                  THEN StoreWord(o.cpu, RegAddr(o.cpu, 11), ReturnAddress(o.cpu)) ELSE o.cpu
  <2>2. Retire([c EXCEPT !.pc = o.at \div 2]) /\ UNCHANGED cru
    BY <1>2, <2>1 DEF Branch
  <2>3. o.cpu \in Machine /\ o.at \in Word
    BY <1>1, OneFits
  <2>4. RegAddr(o.cpu, 11) \in Word /\ ReturnAddress(o.cpu) \in Word
    BY <2>3, ReadsFit
  <2>5. c \in Machine
    BY <2>3, <2>4, StoresFit
  <2> HIDE DEF c
  <2>6. o.at \div 2 \in Word
    BY <2>3, Widths
  <2>7. [c EXCEPT !.pc = o.at \div 2] \in Machine
    BY <2>5, <2>6, FieldsFit
  <2> QED BY <1>1, <2>2, <2>7, RetireKeeps DEF Kept
<1>3. CASE Blwp
  <2>1. PICK o \in One :
     LET c == [o.cpu EXCEPT !.wp = ReadWord(o.cpu, o.at),
                            !.pc = ReadWord(o.cpu, (o.at + 2) % WordSize) \div 2]
     IN Retire(Saved(c, cpu.wp, ReturnAddress(o.cpu), StWord(cpu.st)))
    BY <1>3 DEF Blwp
  <2> DEFINE wp == ReadWord(o.cpu, o.at)
             pc == ReadWord(o.cpu, (o.at + 2) % WordSize) \div 2
             c == [o.cpu EXCEPT !.wp = wp, !.pc = pc]
  <2>2. Retire(Saved(c, cpu.wp, ReturnAddress(o.cpu), StWord(cpu.st))) /\ UNCHANGED cru
    BY <1>3, <2>1 DEF Blwp
  <2>3. o.cpu \in Machine /\ o.at \in Word
    BY <1>1, OneFits
  <2>4. (o.at + 2) % WordSize \in Word
    <3>1. o.at + 2 \in Int
      BY <2>3, Widths DEF Word
    <3> QED BY <3>1, Widths
  <2>5. wp \in Word /\ ReadWord(o.cpu, (o.at + 2) % WordSize) \in Word
    BY <2>3, <2>4, ReadsFit
  <2>6. pc \in Word
    BY <2>5, Widths
  <2> HIDE DEF wp, pc
  <2>7. c \in Machine
    BY <2>3, <2>5, <2>6 DEF Machine
  <2> HIDE DEF c
  <2>8. cpu.wp \in Word /\ ReturnAddress(o.cpu) \in Word /\ StWord(cpu.st) \in Word
    BY <1>1, <2>3, ReadsFit, StatusIsWord DEF Machine
  <2>9. Saved(c, cpu.wp, ReturnAddress(o.cpu), StWord(cpu.st)) \in Machine
    BY <2>7, <2>8, SavesFit
  <2> QED BY <1>1, <2>2, <2>9, RetireKeeps DEF Kept
<1>4. CASE Rtwp
  <2> DEFINE st == StOf(ReadWord(cpu, RegAddr(cpu, 15)))
             pc == ReadWord(cpu, RegAddr(cpu, 14)) \div 2
             wp == ReadWord(cpu, RegAddr(cpu, 13))
  <2>1. Retire([cpu EXCEPT !.st = st, !.pc = pc, !.wp = wp]) /\ UNCHANGED cru
    BY <1>4 DEF Rtwp
  <2>2. RegAddr(cpu, 13) \in Word /\ RegAddr(cpu, 14) \in Word /\ RegAddr(cpu, 15) \in Word
    BY <1>1, ReadsFit
  <2>3. \A a \in Word : ReadWord(cpu, a) \in Word
    BY <1>1, ReadsFit
  <2>4. st \in Status /\ pc \in Word /\ wp \in Word
    BY <2>2, <2>3, WordIsStatus, Widths
  <2> HIDE DEF st, pc, wp
  <2>5. [cpu EXCEPT !.st = st, !.pc = pc, !.wp = wp] \in Machine
    BY <1>1, <2>4 DEF Machine
  <2> QED BY <1>1, <2>1, <2>5, RetireKeeps DEF Kept
<1> QED BY <1>2, <1>3, <1>4

-----------------------------------------------------------------------------
(* The CRU *)

LEMMA BitsWritten ==
  ASSUME NEW r \in CruBits, NEW a, NEW v \in {0, 1}
  PROVE  DiskBit(r, a, v) \in CruBits /\ WriteBit(r, a, v) \in CruBits
BY DEF DiskBit, WriteBit, CruBits

LEMMA SingleBitKeeps ==
  ASSUME CpuInv, SingleBit
  PROVE  Kept
<1>1. cpu \in Machine /\ cru \in CruBits
  BY Facts
<1> DEFINE a == (Register12 + I.disp) % WordSize
<1>2. CASE I.op = "TB"
  <2>1. PICK v \in BitValues(cru, a) : Retire(Advance([cpu EXCEPT !.st.eq = v = 1], 1))
    BY <1>2 DEF SingleBit
  <2>2. [cpu EXCEPT !.st.eq = v = 1] \in Machine
    <3>1. \A b \in BOOLEAN : [cpu EXCEPT !.st.eq = b] \in Machine
      BY <1>1 DEF Machine, Status, StatusOf
    <3>2. (v = 1) \in BOOLEAN
      OBVIOUS
    <3> QED BY <3>1, <3>2
  <2>3. PICK c : c = [cpu EXCEPT !.st.eq = v = 1]
    OBVIOUS
  <2>4. Advance(c, 1) \in Machine
    BY <2>2, <2>3, FieldsFit
  <2>5. UNCHANGED cru
    BY <1>2 DEF SingleBit
  <2> QED BY <1>1, <2>1, <2>3, <2>4, <2>5, RetireKeeps DEF Kept
<1>3. CASE I.op # "TB"
  <2>1. Retire(Advance(cpu, 1)) /\ cru' = WriteBit(cru, a, IF I.op = "SBO" THEN 1 ELSE 0)
    BY <1>3 DEF SingleBit
  <2>2. cru' \in CruBits
    <3> HIDE DEF a
    <3> QED BY <1>1, <2>1, BitsWritten
  <2>3. Advance(cpu, 1) \in Machine
    BY <1>1, FieldsFit
  <2> QED BY <2>1, <2>2, <2>3, RetireKeeps DEF Kept
<1> QED BY <1>2, <1>3

LEMMA LoadCruKeeps ==
  ASSUME CpuInv, LoadCru
  PROVE  Kept
<1>1. cpu \in Machine /\ I \in Decoded /\ cru \in CruBits /\ cpu.st \in Status
  BY Facts DEF LoadCru
<1> DEFINE Bases(o) == {ReadWord(o.cpu, RegAddr(o.cpu, 12))}
           Sources(o) == {IF Bytewise THEN ReadByte(o.cpu, o.at) * ByteSize
                          ELSE ReadWord(o.cpu, o.at)}
           Loads(o, base, source) ==
             LET disk == CardBase < base /\ base < CardBase + 16
                 k == CardBase + 7 - base
                 rest == IF disk THEN source \div 2^I.n ELSE source
                 st == SetLAE(cpu.st, rest, WordSize)
             IN /\ cru' = IF base = 36 THEN [cru EXCEPT !.column = source \div ByteSize]
                          ELSE IF disk /\ 0 <= k /\ k < I.n
                          THEN DiskBit(cru, CardBase + 7, (source \div 2^k) % 2) ELSE cru
                /\ Retire(Advance([o.cpu EXCEPT !.st = IF Bytewise /\ I.n > 0 /\ ~disk
                                                       THEN SetParity(st, rest) ELSE st], 1))
<1>2. PICK o \in CruOperand :
         \E base \in Bases(o), source \in Sources(o) : Loads(o, base, source)
  BY DEF LoadCru
<1>3. PICK base \in Bases(o), source \in Sources(o) : Loads(o, base, source)
  BY <1>2
<1> DEFINE disk == CardBase < base /\ base < CardBase + 16
           k == CardBase + 7 - base
           rest == IF disk THEN source \div 2^I.n ELSE source
           st == SetLAE(cpu.st, rest, WordSize)
           tt == IF Bytewise /\ I.n > 0 /\ ~disk THEN SetParity(st, rest) ELSE st
<1>4. Retire(Advance([o.cpu EXCEPT !.st = tt], 1))
  BY <1>3
<1>5. o.cpu \in Machine /\ o.at \in Word
  BY <1>1, OneFits
<1>6. source \in Word
  <2>1. ReadByte(o.cpu, o.at) \in Byte /\ ReadWord(o.cpu, o.at) \in Word
    BY <1>5, ReadsFit
  <2>2. ReadByte(o.cpu, o.at) * ByteSize + 0 \in Word
    BY <2>1, Widths
  <2>3. ReadByte(o.cpu, o.at) * ByteSize \in Int
    BY <2>1, Widths DEF Byte
  <2> QED BY <2>1, <2>2, <2>3
<1>7. base \in Word
  <2>1. RegAddr(o.cpu, 12) \in Word
    BY <1>5, ReadsFit
  <2>2. base = ReadWord(o.cpu, RegAddr(o.cpu, 12))
    OBVIOUS
  <2> QED BY <1>5, <2>1, <2>2, ReadsFit
<1>8. cru' \in CruBits
  <2>1. source \div ByteSize \in Byte
    BY <1>6, Widths
  <2>2. ASSUME 0 <= k, k < I.n
        PROVE  (source \div 2^k) % 2 \in {0, 1}
    <3>1. k \in Int /\ I.n \in 0..WordBits
      BY <1>1, <1>7, MatrixAssumption, Widths DEF Decoded, Word
    <3>2. k \in 0..WordBits
      BY <2>2, <3>1, PowerAssumption
    <3> HIDE DEF k
    <3>3. 2^k \in Nat \ {0}
      BY <3>2, PowerAssumption
    <3>4. source \in Nat
      BY <1>6, Widths DEF Word
    <3>5. source \div 2^k \in Nat
      BY <3>3, <3>4, DivMod
    <3> QED BY <3>5
  <2>3. [cru EXCEPT !.column = source \div ByteSize] \in CruBits
    BY <1>1, <2>1 DEF CruBits
  <2>4. CASE base = 36
    BY <1>3, <2>3, <2>4
  <2>5. CASE base # 36 /\ disk /\ 0 <= k /\ k < I.n
    <3> DEFINE v == (source \div 2^k) % 2
    <3>1. cru' = DiskBit(cru, CardBase + 7, v)
      BY <1>3, <2>5
    <3>2. v \in {0, 1}
      BY <2>2, <2>5
    <3> HIDE DEF v
    <3> QED BY <1>1, <3>1, <3>2, BitsWritten
  <2>6. CASE base # 36 /\ ~(disk /\ 0 <= k /\ k < I.n)
    BY <1>1, <1>3, <2>6
  <2> QED BY <2>4, <2>5, <2>6
<1>9. tt \in Status
  <2>1. st \in Status
    BY <1>1, StatusesFit
  <2> HIDE DEF st
  <2>2. SetParity(st, rest) \in Status
    BY <2>1, StatusesFit
  <2> QED BY <2>1, <2>2
<1> HIDE DEF tt
<1>10. Advance([o.cpu EXCEPT !.st = tt], 1) \in Machine
  BY <1>5, <1>9, Onward
<1> QED BY <1>4, <1>8, <1>10, RetireKeeps DEF Kept

LEMMA StoreCruKeeps ==
  ASSUME CpuInv, StoreCru
  PROVE  Kept
<1>1. cpu \in Machine /\ I \in Decoded /\ cru \in CruBits
  BY Facts DEF StoreCru
<1> DEFINE Rows == IF Register12 # 6 THEN {0}
                   ELSE IF cru.column < Columns THEN {Matrix[cru.column]} ELSE Byte
           ByteStored(o, v) == Advance([StoreByte(o.cpu, o.at, v)
                                          EXCEPT !.st = SetLAE(@, v, WordSize)], 1)
           WordStored(o) == Advance([StoreWord(o.cpu, o.at, (ByteSize - 1) * ByteSize)
                                       EXCEPT !.st = SetLAE(@, ByteSize - 1, WordSize)], 1)
<1>2. PICK o \in CruOperand :
        \E row \in Rows : IF Bytewise THEN Retire(ByteStored(o, row % 2^I.n))
                          ELSE Retire(WordStored(o))
  BY DEF StoreCru
<1>3. PICK row \in Rows : IF Bytewise THEN Retire(ByteStored(o, row % 2^I.n))
                          ELSE Retire(WordStored(o))
  BY <1>2
<1>4. o.cpu \in Machine /\ o.at \in Word
  BY <1>1, OneFits
<1>5. row % 2^I.n \in Byte
  <2>1. row \in Byte
    <3>1. cru.column \in Byte
      BY <1>1 DEF CruBits
    <3>2. cru.column < Columns => Matrix[cru.column] \in Byte
      BY <3>1, MatrixAssumption
    <3> QED BY <3>2, Widths
  <2>2. 2^I.n \in Nat \ {0}
    BY <1>1, PowerAssumption DEF Decoded
  <2>3. PICK p \in Nat \ {0} : p = 2^I.n
    BY <2>2
  <2>4. row \in 0..ByteSize - 1 /\ ByteSize \in Nat /\ row \in Nat
    BY <2>1, Widths DEF Byte
  <2>5. row % p \in 0..p - 1 /\ row = (row \div p) * p + (row % p) /\ row \div p \in Nat
    BY <2>4, DivMod
  <2>6. (row \div p) * p \in Nat
    BY <2>5
  <2>7. row % p \in 0..ByteSize - 1
    BY <2>4, <2>5, <2>6
  <2> QED BY <2>3, <2>7 DEF Byte
<1>6. ASSUME NEW v \in Byte PROVE ByteStored(o, v) \in Machine
  <2>1. PICK c : c = StoreByte(o.cpu, o.at, v)
    OBVIOUS
  <2>2. c \in Machine
    BY <1>4, <2>1, StoresFit
  <2>3. SetLAE(c.st, v, WordSize) \in Status
    BY <2>2, StatusesFit DEF Machine
  <2>4. Advance([c EXCEPT !.st = SetLAE(c.st, v, WordSize)], 1) \in Machine
    BY <2>2, <2>3, Onward
  <2> QED BY <2>1, <2>4
<1>7. WordStored(o) \in Machine
  <2> DEFINE w == (ByteSize - 1) * ByteSize
  <2>1. w \in Word
    <3>1. ByteSize \in Nat \ {0} /\ ByteSize - 1 \in Byte /\ 0 \in Byte
      BY Widths DEF Byte
    <3>2. (ByteSize - 1) * ByteSize + 0 \in Word
      BY <3>1, Widths
    <3>3. (ByteSize - 1) * ByteSize \in Int
      BY <3>1
    <3> QED BY <3>2, <3>3
  <2> HIDE DEF w
  <2>2. PICK c : c = StoreWord(o.cpu, o.at, w)
    OBVIOUS
  <2>3. c \in Machine
    BY <1>4, <2>1, <2>2, StoresFit
  <2>4. SetLAE(c.st, ByteSize - 1, WordSize) \in Status
    BY <2>3, StatusesFit DEF Machine
  <2>5. Advance([c EXCEPT !.st = SetLAE(c.st, ByteSize - 1, WordSize)], 1) \in Machine
    BY <2>3, <2>4, Onward
  <2> QED BY <2>2, <2>5 DEF w
<1>8. \E c \in Machine : Retire(c)
  BY <1>3, <1>5, <1>6, <1>7
<1>9. UNCHANGED cru
  BY DEF StoreCru
<1> QED BY <1>1, <1>8, <1>9, RetireKeeps DEF Kept

-----------------------------------------------------------------------------
(* Theorems *)

LEMMA CpuInductive ==
  /\ Init => CpuInv
  /\ CpuInv /\ [Next]_cpuVars => CpuInv'
<1>1. ASSUME Init PROVE CpuInv
  <2>1. cpu \in Machine /\ insn = None /\ compared = None
    BY <1>1, BeginAssumption DEF Init
  <2>2. cru \in CruBits
    BY <1>1, Widths DEF Init, CruBits
  <2> QED BY <2>1, <2>2 DEF CpuInv, CpuTypeOK, JumpsFollowComparison
<1>2. ASSUME CpuInv, Next PROVE CpuInv'
  <2>1. Kept \/ UNCHANGED cpuVars
    BY <1>2, FetchesKeep, TwoOperandsKeep, ComparesKeep, ImmediatesKeep, SinglesKeep,
       RegisterPairsKeep, BranchesKeep, SingleBitKeeps, LoadCruKeeps, StoreCruKeeps DEF Next, Stopped
  <2>2. CASE UNCHANGED cpuVars
    BY <1>2, <2>2 DEF CpuInv, CpuTypeOK, JumpsFollowComparison, cpuVars
  <2> QED BY <2>1, <2>2 DEF Kept, CpuInv
<1>3. ASSUME CpuInv, UNCHANGED cpuVars PROVE CpuInv'
  BY <1>3 DEF CpuInv, CpuTypeOK, JumpsFollowComparison, cpuVars
<1> QED BY <1>1, <1>2, <1>3

THEOREM CpuInvariant == Spec => []CpuInv
BY CpuInductive, PTL DEF Spec

\* Whatever program runs, from whatever ROM: the program counter and the workspace pointer
\* stay words, every byte of the scratchpad a byte and the status register a status; so do
\* the words fetched, and no quotient, shift or product is wider than its registers.
THEOREM CpuTypeCorrect == Spec => []CpuTypeOK
<1>1. CpuInv => CpuTypeOK
  BY DEF CpuInv
<1> QED BY <1>1, CpuInvariant, PTL

\* In every program, after C, CB or CI each conditional jump is taken exactly if the two
\* numbers are in the relation it is named for, signed or not, up to the next instruction
\* that changes the flags it reads, whatever jumps, calls and returns come before that.
THEOREM ComparisonsDecideJumps == Spec => []JumpsFollowComparison
<1>1. CpuInv => JumpsFollowComparison
  BY DEF CpuInv
<1> QED BY <1>1, CpuInvariant, PTL

-----------------------------------------------------------------------------
(* Contexts: what BLWP saves is what RTWP finds. *)

LEMMA DivUnique ==
  ASSUME NEW a \in Nat \ {0}, NEW q \in Nat, NEW r \in 0..a - 1
  PROVE  (q * a + r) \div a = q /\ (q * a + r) % a = r
<1> DEFINE n == q * a + r
           x == n \div a
           y == n % a
<1>1. n \in Nat
  <2>1. q * a \in Nat
    OBVIOUS
  <2> QED BY <2>1
<1>2. x \in Nat /\ y \in 0..a - 1 /\ n = x * a + y
  <2> HIDE DEF n
  <2> QED BY <1>1, DivMod
<1> HIDE DEF x, y
<1>3. q * a \in Nat /\ x * a \in Nat
  BY <1>2
<1>4. CASE x > q
  <2>1. (x - q - 1) * a >= 0 /\ (x - q - 1) * a = x * a - q * a - a
    BY <1>2, <1>4
  <2> QED BY <1>2, <1>3, <2>1
<1>5. CASE x < q
  <2>1. (q - x - 1) * a >= 0 /\ (q - x - 1) * a = q * a - x * a - a
    BY <1>2, <1>5
  <2> QED BY <1>2, <1>3, <2>1
<1>6. x = q
  BY <1>2, <1>4, <1>5
<1>7. y = r
  BY <1>2, <1>3, <1>6
<1> QED BY <1>6, <1>7 DEF x, y

\* The six flags are the digits of a number, which the low bits leave room for.
LEMMA StatusReadsBack ==
  ASSUME NEW st \in Status
  PROVE  StOf(StWord(st)) = st
<1> DEFINE b0 == Flag(st.odd, 1)
           b1 == Flag(st.over, 1)
           b2 == Flag(st.carry, 1)
           b3 == Flag(st.eq, 1)
           b4 == Flag(st.agt, 1)
           b5 == Flag(st.lgt, 1)
           n == b0 + 2 * b1 + 4 * b2 + 8 * b3 + 16 * b4 + 32 * b5
           w == StWord(st)
<1>1. Low6 \in Nat \ {0} /\ st.low \in 0..Low6 - 1
  BY Widths DEF Status, StatusOf
<1>2. \A b : \A k \in Nat : Flag(b, k * Low6) = Flag(b, 1) * (k * Low6) /\ Flag(b, 1) \in {0, 1}
  BY <1>1 DEF Flag
<1> HIDE DEF Low6
<1>3. b0 \in {0, 1} /\ b1 \in {0, 1} /\ b2 \in {0, 1} /\ b3 \in {0, 1} /\ b4 \in {0, 1} /\ b5 \in {0, 1}
  BY <1>2
<1>4. w = n * Low6 + st.low
  <2>1. /\ Flag(st.odd, Low6) = b0 * Low6 /\ Flag(st.over, 2 * Low6) = b1 * (2 * Low6)
        /\ Flag(st.carry, 4 * Low6) = b2 * (4 * Low6) /\ Flag(st.eq, 8 * Low6) = b3 * (8 * Low6)
        /\ Flag(st.agt, 16 * Low6) = b4 * (16 * Low6) /\ Flag(st.lgt, 32 * Low6) = b5 * (32 * Low6)
    <3>1. Low6 = 1 * Low6
      BY <1>1
    <3> QED BY <1>2, <3>1
  <2> HIDE DEF b0, b1, b2, b3, b4, b5
  <2>2. w = st.low + b0 * Low6 + b1 * (2 * Low6) + b2 * (4 * Low6) + b3 * (8 * Low6)
              + b4 * (16 * Low6) + b5 * (32 * Low6)
    BY <2>1 DEF StWord
  <2>3. n * Low6 = b0 * Low6 + b1 * (2 * Low6) + b2 * (4 * Low6) + b3 * (8 * Low6)
                     + b4 * (16 * Low6) + b5 * (32 * Low6)
    BY <1>1, <1>3
  <2>4. n * Low6 \in Int
    BY <1>1, <1>3
  <2> HIDE DEF n, w
  <2>5. /\ b0 * Low6 \in Int /\ b1 * (2 * Low6) \in Int /\ b2 * (4 * Low6) \in Int
        /\ b3 * (8 * Low6) \in Int /\ b4 * (16 * Low6) \in Int /\ b5 * (32 * Low6) \in Int
    BY <1>1, <1>3
  <2> QED BY <1>1, <2>2, <2>3, <2>4, <2>5
<1>5. (st.odd <=> b0 = 1) /\ (st.over <=> b1 = 1) /\ (st.carry <=> b2 = 1)
      /\ (st.eq <=> b3 = 1) /\ (st.agt <=> b4 = 1) /\ (st.lgt <=> b5 = 1)
  BY DEF Flag
<1> HIDE DEF b0, b1, b2, b3, b4, b5
<1>6. n \in Nat
  BY <1>3
<1>7. ASSUME NEW k \in Nat \ {0} PROVE w \div (k * Low6) = n \div k
  <2> HIDE DEF n, w
  <2>1. n \div k \in Nat /\ n % k \in 0..k - 1 /\ n = (n \div k) * k + (n % k)
    BY <1>6, DivMod
  <2>2. PICK q \in Nat, r \in 0..k - 1 : q = n \div k /\ r = n % k /\ n = q * k + r
    BY <2>1
  <2>3. r * Low6 + st.low \in 0..k * Low6 - 1
    BY <1>1, MulAddBelow
  <2>4. k * Low6 \in Nat \ {0}
    BY <1>1
  <2>5. w = q * (k * Low6) + (r * Low6 + st.low)
    <3>1. (q * k + r) * Low6 = q * (k * Low6) + r * Low6
      BY <1>1
    <3>2. q * (k * Low6) \in Int /\ r * Low6 \in Int
      BY <1>1
    <3>3. w = (q * k + r) * Low6 + st.low
      BY <1>4, <2>2
    <3>4. w = q * (k * Low6) + r * Low6 + st.low
      BY <3>1, <3>3
    <3> QED BY <1>1, <3>2, <3>4
  <2> QED BY <2>2, <2>3, <2>4, <2>5, DivUnique
<1>8. w % Low6 = st.low
  <2> HIDE DEF n, w
  <2> QED BY <1>1, <1>4, <1>6, DivUnique
<1>9. /\ Odd(n \div 1) <=> b0 = 1
      /\ Odd(n \div 2) <=> b1 = 1
      /\ Odd(n \div 4) <=> b2 = 1
      /\ Odd(n \div 8) <=> b3 = 1
      /\ Odd(n \div 16) <=> b4 = 1
      /\ Odd(n \div 32) <=> b5 = 1
  BY <1>3 DEF Odd
<1> HIDE DEF n, w
<1>10. /\ Odd(w \div (1 * Low6)) <=> st.odd
       /\ Odd(w \div (2 * Low6)) <=> st.over
       /\ Odd(w \div (4 * Low6)) <=> st.carry
       /\ Odd(w \div (8 * Low6)) <=> st.eq
       /\ Odd(w \div (16 * Low6)) <=> st.agt
       /\ Odd(w \div (32 * Low6)) <=> st.lgt
  BY <1>5, <1>7, <1>9
<1>11. /\ Odd(w \div (1 * Low6)) = st.odd
       /\ Odd(w \div (2 * Low6)) = st.over
       /\ Odd(w \div (4 * Low6)) = st.carry
       /\ Odd(w \div (8 * Low6)) = st.eq
       /\ Odd(w \div (16 * Low6)) = st.agt
       /\ Odd(w \div (32 * Low6)) = st.lgt
  <2>1. \A x : Odd(x) \in BOOLEAN
    BY DEF Odd
  <2>2. /\ st.odd \in BOOLEAN /\ st.over \in BOOLEAN /\ st.carry \in BOOLEAN
        /\ st.eq \in BOOLEAN /\ st.agt \in BOOLEAN /\ st.lgt \in BOOLEAN
    BY DEF Status, StatusOf
  <2> QED BY <1>10, <2>1, <2>2, Zenon
<1>12. StOf(w) = [lgt |-> st.lgt, agt |-> st.agt, eq |-> st.eq, carry |-> st.carry,
                  over |-> st.over, odd |-> st.odd, low |-> st.low]
  BY <1>8, <1>11 DEF StOf
<1>13. st = [lgt |-> st.lgt, agt |-> st.agt, eq |-> st.eq, carry |-> st.carry,
             over |-> st.over, odd |-> st.odd, low |-> st.low]
  BY DEF Status, StatusOf
<1> QED BY <1>12, <1>13 DEF w

\* A word stored in the scratchpad is read back, and no word beside it changes.
LEMMA WordsReadBack ==
  ASSUME NEW c \in Machine, NEW a \in Word, NEW w \in Word, StoreWord(c, a, w).stop = "no"
  PROVE  LET e == StoreWord(c, a, w)
         IN /\ c.stop = "no" /\ e.wp = c.wp
            /\ InPad(a) /\ (a % PadSize) + 1 < PadSize
            /\ ReadWord(e, a) = w
            /\ \A b \in Word :
                 /\ InPad(b) /\ (b % PadSize) + 1 < PadSize
                 /\ b % PadSize \notin {(a % PadSize) - 1, a % PadSize, (a % PadSize) + 1}
                 => ReadWord(e, b) = ReadWord(c, b)
<1> DEFINE k == a % PadSize
           hi == w \div ByteSize
           lo == w % ByteSize
           d == StoreRam(c, k + 1, lo)
           e == StoreWord(c, a, w)
<1>1. PadSize \in Nat \ {0}
  BY PadAssumption
<1>2. \A b \in Word : b % PadSize \in 0..PadSize - 1
  BY <1>1, Widths, SMTT(30) DEF Word
<1>3. k \in 0..PadSize - 1
  BY <1>2
<1>4. hi \in Byte /\ lo \in Byte /\ w = hi * ByteSize + lo
  <2>1. w \in Nat /\ ByteSize \in Nat \ {0}
    BY Widths DEF Word
  <2> QED BY <2>1, DivMod, Widths
<1>5. InPad(a)
  <2>1. CASE ~InPad(a)
    <3>1. e = [c EXCEPT !.stop = IF @ = "no" THEN "exception" ELSE @]
      BY <2>1 DEF StoreWord, Raise
    <3> QED BY <3>1 DEF Machine
  <2> QED BY <2>1
<1>6. e = StoreRam(d, k, hi)
  BY <1>5 DEF StoreWord
<1> HIDE DEF e, hi, lo
<1>7. e = [d EXCEPT !.ram[k] = hi]
  BY <1>1, <1>3, <1>6 DEF StoreRam
<1>8. e.stop = "no"
  BY DEF e
<1>9. d \in Machine
  <2>1. k + 1 \in Nat
    BY <1>3
  <2> HIDE DEF k
  <2> QED BY <1>4, <2>1, StoresFit
<1>10. d.stop = "no"
  <2> HIDE DEF d
  <2> QED BY <1>7, <1>8, <1>9 DEF Machine
<1> HIDE DEF k
<1>11. k + 1 < PadSize
  <2>1. CASE ~(k + 1 < PadSize)
    <3>1. d = [c EXCEPT !.stop = "wild"]
      BY <2>1 DEF StoreRam
    <3> HIDE DEF d
    <3> QED BY <1>10, <3>1 DEF Machine
  <2> QED BY <2>1
<1>12. d = [c EXCEPT !.ram[k + 1] = lo]
  BY <1>11 DEF StoreRam
<1> HIDE DEF d
<1>13. c.stop = "no" /\ e.wp = c.wp
  BY <1>7, <1>9, <1>10, <1>12 DEF Machine
<1>14. e.ram = [c.ram EXCEPT ![k + 1] = lo, ![k] = hi]
  BY <1>7, <1>9, <1>12 DEF Machine
<1>15. c.ram \in [0..PadSize - 1 -> Byte]
  BY DEF Machine
<1>16. e.ram[k] = hi /\ e.ram[k + 1] = lo
  <2>1. k + 1 \in 0..PadSize - 1 /\ k # k + 1
    BY <1>1, <1>3, <1>11
  <2> QED BY <1>3, <1>14, <1>15, <2>1
<1>17. \A i \in 0..PadSize - 1 : i \notin {k, k + 1} => e.ram[i] = c.ram[i]
  BY <1>14, <1>15
<1>18. \A m \in Machine : \A b \in Word :
         InPad(b) /\ (b % PadSize) + 1 < PadSize =>
           ReadWord(m, b) = m.ram[b % PadSize] * ByteSize + m.ram[(b % PadSize) + 1]
  <2> TAKE m \in Machine
  <2> TAKE b \in Word
  <2> HAVE InPad(b) /\ (b % PadSize) + 1 < PadSize
  <2>1. b % PadSize < PadSize
    BY <1>1, <1>2
  <2> QED BY <2>1 DEF ReadWord, ReadRam
<1>19. e \in Machine
  BY StoresFit DEF e
<1>20. ReadWord(e, a) = w
  BY <1>4, <1>5, <1>11, <1>16, <1>18, <1>19 DEF k
<1>21. ASSUME NEW b \in Word, InPad(b), (b % PadSize) + 1 < PadSize,
              b % PadSize \notin {k - 1, k, k + 1}
       PROVE  ReadWord(e, b) = ReadWord(c, b)
  <2>1. PICK i \in 0..PadSize - 1 : i = b % PadSize
    BY <1>2
  <2>2. i \notin {k, k + 1} /\ i + 1 \notin {k, k + 1} /\ i + 1 \in 0..PadSize - 1
    BY <1>1, <1>3, <1>21, <2>1
  <2>3. e.ram[i] = c.ram[i] /\ e.ram[i + 1] = c.ram[i + 1]
    BY <1>17, <2>2
  <2> QED BY <1>18, <1>19, <1>21, <2>1, <2>3
<1> QED BY <1>5, <1>11, <1>13, <1>20, <1>21 DEF e, k

\* Registers follow each other in the scratchpad, from its last word to its first.
LEMMA NextRegister ==
  ASSUME NEW c \in Machine, NEW x \in 0..15
  PROVE  LET k == RegAddr(c, x) % PadSize
         IN RegAddr(c, x + 1) % PadSize = IF k + 2 < PadSize THEN k + 2 ELSE k + 2 - PadSize
<1> DEFINE n == c.wp + 2 * x
<1>1. c.wp \in Nat /\ n \in Nat /\ n + 2 \in Nat
  <2>1. c.wp \in Word
    BY DEF Machine
  <2>2. c.wp \in Nat
    BY <2>1, Widths DEF Word
  <2> QED BY <2>2
<1>2. PadSize \in Nat \ {0} /\ PadSize >= 6 /\ WordSize % PadSize = 0 /\ WordSize \in Nat \ {0}
  BY PadAssumption, Widths
<1>3. ASSUME NEW y \in Nat PROVE (y % WordSize) % PadSize = y % PadSize
  <2>1. PICK j \in Nat : WordSize = j * PadSize
    <3>1. /\ WordSize = (WordSize \div PadSize) * PadSize + (WordSize % PadSize)
          /\ WordSize \div PadSize \in Nat
      BY <1>2, DivMod
    <3>2. (WordSize \div PadSize) * PadSize \in Nat
      BY <1>2, <3>1
    <3> QED BY <1>2, <3>1, <3>2
  <2>2. PICK q \in Nat, r \in 0..WordSize - 1 : y = q * WordSize + r /\ r = y % WordSize
    BY <1>2, DivMod
  <2>3. PICK u \in Nat, v \in 0..PadSize - 1 : r = u * PadSize + v /\ v = r % PadSize
    <3>1. r \in Nat
      BY <1>2
    <3> QED BY <1>2, <3>1, DivMod
  <2>4. y = (q * j + u) * PadSize + v
    <3>1. (q * j + u) * PadSize = q * (j * PadSize) + u * PadSize
      BY <1>2
    <3>2. y = q * (j * PadSize) + (u * PadSize + v)
      BY <2>1, <2>2, <2>3
    <3>3. q * (j * PadSize) \in Int /\ u * PadSize \in Int
      BY <1>2
    <3> QED BY <3>1, <3>2, <3>3, <1>2
  <2>5. q * j + u \in Nat
    OBVIOUS
  <2>6. PICK g \in Nat : g = q * j + u
    BY <2>5
  <2>7. y % PadSize = v
    BY <1>2, <2>4, <2>6, DivUnique
  <2> QED BY <2>2, <2>3, <2>7
<1>4. RegAddr(c, x) % PadSize = n % PadSize
  BY <1>1, <1>3 DEF RegAddr
<1>5. RegAddr(c, x + 1) % PadSize = (n + 2) % PadSize
  <2>1. c.wp + 2 * (x + 1) = n + 2
    BY <1>1
  <2> HIDE DEF n
  <2> QED BY <1>1, <1>3, <2>1 DEF RegAddr
<1> HIDE DEF n
<1>6. PICK q \in Nat, r \in 0..PadSize - 1 : n = q * PadSize + r /\ r = n % PadSize
  BY <1>1, <1>2, DivMod
<1>7. CASE r + 2 < PadSize
  <2>1. r + 2 \in 0..PadSize - 1
    BY <1>2, <1>7
  <2>2. PICK s \in 0..PadSize - 1 : s = r + 2
    BY <2>1
  <2>3. n + 2 = q * PadSize + s
    <3>1. q * PadSize \in Int
      BY <1>2
    <3> QED BY <1>2, <1>6, <2>2, <3>1
  <2>4. (n + 2) % PadSize = s
    BY <1>2, <2>3, DivUnique
  <2> QED BY <1>4, <1>5, <1>6, <1>7, <2>2, <2>4
<1>8. CASE ~(r + 2 < PadSize)
  <2>1. r + 2 - PadSize \in 0..PadSize - 1
    BY <1>2, <1>8
  <2>2. PICK s \in 0..PadSize - 1 : s = r + 2 - PadSize
    BY <2>1
  <2>3. n + 2 = (q + 1) * PadSize + s
    <3>1. (q + 1) * PadSize = q * PadSize + PadSize /\ q * PadSize \in Int
      BY <1>2
    <3> QED BY <1>2, <1>6, <2>2, <3>1
  <2>4. PICK t \in Nat : t = q + 1
    OBVIOUS
  <2>5. n + 2 = t * PadSize + s
    BY <2>3, <2>4
  <2>6. (n + 2) % PadSize = s
    BY <1>2, <2>5, DivUnique, ZenonT(30)
  <2> QED BY <1>4, <1>5, <1>6, <1>8, <2>2, <2>6
<1> QED BY <1>7, <1>8

\* The three registers of a context, stored one after the other, do not overlap.
LEMMA SavedReadsBack ==
  ASSUME NEW c \in Machine, NEW wp \in Word, NEW pc \in Word, NEW w \in Word,
         Saved(c, wp, pc, w).stop = "no"
  PROVE  LET d == Saved(c, wp, pc, w)
         IN /\ ReadWord(d, RegAddr(d, 13)) = wp
            /\ ReadWord(d, RegAddr(d, 14)) = pc
            /\ ReadWord(d, RegAddr(d, 15)) = w
<1> DEFINE a == RegAddr(c, 13)
           b == RegAddr(c, 14)
           g == RegAddr(c, 15)
<1>1. PICK d1 : d1 = StoreWord(c, a, wp)
  OBVIOUS
<1>2. PICK d2 : d2 = StoreWord(d1, b, pc)
  OBVIOUS
<1>3. PICK d3 : d3 = StoreWord(d2, g, w)
  OBVIOUS
<1>4. d3 = Saved(c, wp, pc, w) /\ d3.stop = "no"
  BY <1>1, <1>2, <1>3 DEF Saved
<1>5. a \in Word /\ b \in Word /\ g \in Word
  BY ReadsFit
<1>6. /\ b % PadSize = IF (a % PadSize) + 2 < PadSize THEN (a % PadSize) + 2
                       ELSE (a % PadSize) + 2 - PadSize
      /\ g % PadSize = IF (b % PadSize) + 2 < PadSize THEN (b % PadSize) + 2
                       ELSE (b % PadSize) + 2 - PadSize
  <2>1. RegAddr(c, 13 + 1) = b /\ RegAddr(c, 14 + 1) = g
    OBVIOUS
  <2> QED BY <2>1, NextRegister
<1> HIDE DEF a, b, g
<1>7. d1 \in Machine
  BY <1>1, <1>5, StoresFit
<1>8. d2 \in Machine
  BY <1>2, <1>5, <1>7, StoresFit
<1>9. /\ d2.stop = "no" /\ d3.wp = d2.wp /\ InPad(g) /\ (g % PadSize) + 1 < PadSize
      /\ ReadWord(d3, g) = w
      /\ \A x \in Word : /\ InPad(x) /\ (x % PadSize) + 1 < PadSize
                         /\ x % PadSize \notin {(g % PadSize) - 1, g % PadSize, (g % PadSize) + 1}
                         => ReadWord(d3, x) = ReadWord(d2, x)
  <2>1. StoreWord(d2, g, w).stop = "no"
    BY <1>3, <1>4
  <2> QED BY <1>3, <1>5, <1>8, <2>1, WordsReadBack
<1>10. /\ d1.stop = "no" /\ d2.wp = d1.wp /\ InPad(b) /\ (b % PadSize) + 1 < PadSize
       /\ ReadWord(d2, b) = pc
       /\ \A x \in Word : /\ InPad(x) /\ (x % PadSize) + 1 < PadSize
                          /\ x % PadSize \notin {(b % PadSize) - 1, b % PadSize, (b % PadSize) + 1}
                          => ReadWord(d2, x) = ReadWord(d1, x)
  BY <1>2, <1>5, <1>7, <1>9, WordsReadBack
<1>11. /\ d1.wp = c.wp /\ InPad(a) /\ (a % PadSize) + 1 < PadSize
       /\ ReadWord(d1, a) = wp
  BY <1>1, <1>5, <1>10, WordsReadBack
<1>12. /\ b % PadSize \notin {(g % PadSize) - 1, g % PadSize, (g % PadSize) + 1}
       /\ a % PadSize \notin {(g % PadSize) - 1, g % PadSize, (g % PadSize) + 1}
       /\ a % PadSize \notin {(b % PadSize) - 1, b % PadSize, (b % PadSize) + 1}
  <2>1. PadSize \in Nat /\ PadSize >= 6
    BY PadAssumption
  <2>2. PICK i \in 0..PadSize - 1 : i = a % PadSize
    <3>1. a \in Nat
      BY <1>5, Widths DEF Word
    <3> QED BY <2>1, <3>1
  <2>3. PICK j \in Int : j = b % PadSize /\ j = IF i + 2 < PadSize THEN i + 2 ELSE i + 2 - PadSize
    BY <1>6, <2>1, <2>2
  <2>4. PICK k \in Int : k = g % PadSize /\ k = IF j + 2 < PadSize THEN j + 2 ELSE j + 2 - PadSize
    BY <1>6, <2>1, <2>3
  <2>5. i + 1 < PadSize /\ j + 1 < PadSize /\ k + 1 < PadSize
    BY <1>9, <1>10, <1>11, <2>2, <2>3, <2>4
  <2> QED BY <2>1, <2>2, <2>3, <2>4, <2>5
<1>13. ReadWord(d3, b) = pc
  BY <1>5, <1>9, <1>10, <1>12
<1>14. ReadWord(d3, a) = wp
  BY <1>5, <1>9, <1>10, <1>11, <1>12
<1>15. RegAddr(d3, 13) = a /\ RegAddr(d3, 14) = b /\ RegAddr(d3, 15) = g
  BY <1>9, <1>10, <1>11 DEF RegAddr, a, b, g
<1> QED BY <1>4, <1>9, <1>13, <1>14, <1>15

\* What RTWP would load from the workspace of the machine c is the context f.
Finds(c, f) ==
  /\ ReadWord(c, RegAddr(c, 13)) = f.wp
  /\ ReadWord(c, RegAddr(c, 14)) \div 2 = f.pc
  /\ StOf(ReadWord(c, RegAddr(c, 15))) = f.st

\* Wherever the new workspace is in the scratchpad, its end and its beginning included, BLWP
\* leaves in it what RTWP loads to resume the instruction after the BLWP: the three registers
\* do not overlap, and the status register comes back from its word.  A program counter with
\* its top bit set, which no branch can load, is the exception: that bit has no place in R14.
THEOREM CallsCanReturn ==
  Spec => [][Blwp /\ cpu'.stop = "no" /\ Head(frames').pc < WordSize \div 2
               => Finds(cpu', Head(frames'))]_cpuVars
<1> DEFINE A == Blwp /\ cpu'.stop = "no" /\ Head(frames').pc < WordSize \div 2
                  => Finds(cpu', Head(frames'))
<1>1. ASSUME CpuInv, Next PROVE A
  <2> SUFFICES ASSUME Blwp, cpu'.stop = "no", Head(frames').pc < WordSize \div 2
               PROVE  Finds(cpu', Head(frames'))
    OBVIOUS
  <2>1. cpu \in Machine /\ I \in Decoded /\ cpu.st \in Status /\ cpu.wp \in Word
    BY <1>1, Facts DEF Blwp, Machine
  <2>2. PICK o \in One :
     LET c == [o.cpu EXCEPT !.wp = ReadWord(o.cpu, o.at),
                            !.pc = ReadWord(o.cpu, (o.at + 2) % WordSize) \div 2]
     IN /\ Retire(Saved(c, cpu.wp, ReturnAddress(o.cpu), StWord(cpu.st)))
        /\ frames' = <<[pc |-> o.cpu.pc + 1, wp |-> cpu.wp, st |-> cpu.st]>> \o frames
    BY DEF Blwp
  <2> DEFINE wp == ReadWord(o.cpu, o.at)
             pc == ReadWord(o.cpu, (o.at + 2) % WordSize) \div 2
             c == [o.cpu EXCEPT !.wp = wp, !.pc = pc]
  <2>3. cpu' = Saved(c, cpu.wp, ReturnAddress(o.cpu), StWord(cpu.st))
    BY <2>2 DEF Retire
  <2>4. o.cpu \in Machine /\ o.at \in Word
    BY <2>1, OneFits
  <2>5. wp \in Word /\ pc \in Word
    <3>1. o.at + 2 \in Int
      BY <2>4, Widths, SMTT(30) DEF Word
    <3>2. (o.at + 2) % WordSize \in Word
      BY <3>1, Widths
    <3>3. ReadWord(o.cpu, o.at) \in Word /\ ReadWord(o.cpu, (o.at + 2) % WordSize) \in Word
      BY <2>4, <3>2, ReadsFit
    <3> QED BY <3>3, Widths
  <2> HIDE DEF wp, pc
  <2>6. c \in Machine
    BY <2>4, <2>5 DEF Machine
  <2> HIDE DEF c
  <2>7. ReturnAddress(o.cpu) \in Word /\ StWord(cpu.st) \in Word
    BY <2>1, <2>4, ReadsFit, StatusIsWord
  <2>8. /\ ReadWord(cpu', RegAddr(cpu', 13)) = cpu.wp
        /\ ReadWord(cpu', RegAddr(cpu', 14)) = ReturnAddress(o.cpu)
        /\ ReadWord(cpu', RegAddr(cpu', 15)) = StWord(cpu.st)
    BY <2>1, <2>3, <2>6, <2>7, SavedReadsBack
  <2>9. Head(frames') = [pc |-> o.cpu.pc + 1, wp |-> cpu.wp, st |-> cpu.st]
    BY <2>2
  <2>10. ReturnAddress(o.cpu) \div 2 = o.cpu.pc + 1
    <3>1. o.cpu.pc \in Word
      BY <2>4 DEF Machine
    <3>2. o.cpu.pc \in Nat /\ WordSize \in Nat \ {0} /\ WordSize % 2 = 0
      BY <3>1, Widths DEF Word
    <3>3. o.cpu.pc + 1 < WordSize \div 2
      BY <2>9
    <3>4. PICK n \in Nat : n = o.cpu.pc + 1
      BY <3>2
    <3>5. 2 * n < WordSize
      BY <3>2, <3>3, <3>4
    <3>6. (2 * n) % WordSize = 2 * n
      BY <3>2, <3>5
    <3>7. (2 * n) \div 2 = n
      OBVIOUS
    <3> QED BY <3>4, <3>6, <3>7 DEF ReturnAddress
  <2> QED BY <2>1, <2>8, <2>9, <2>10, StatusReadsBack DEF Finds
<1>2. CpuInv /\ [Next]_cpuVars => [A]_cpuVars
  BY <1>1
<1> QED BY <1>2, CpuInvariant, PTL DEF Spec

-----------------------------------------------------------------------------
(* Words taken *)

Fields == {"pc", "wp", "st", "ram", "stop"}

\* A machine that goes on only if the one before the instruction did.
GoesOn(c) == c.stop = "no" => cpu.stop = "no"

\* A machine, of whatever contents, that has come to p.
At(c, p) == DOMAIN c = Fields /\ c.pc = p /\ GoesOn(c)

LEMMA MachineAt ==
  /\ \A c \in Machine : GoesOn(c) => At(c, c.pc)
  /\ cpu \in Machine => At(cpu, cpu.pc)
BY DEF Machine, Fields, At, GoesOn

\* No store, to memory or to the status, moves the program counter, and none makes a machine
\* go on that has stopped.
LEMMA StoresStay ==
  ASSUME NEW c, NEW p, At(c, p)
  PROVE  /\ \A i, b : At(StoreRam(c, i, b), p)
         /\ \A a, b : At(StoreByte(c, a, b), p)
         /\ \A a, w : At(StoreWord(c, a, w), p)
         /\ \A a, v, op : At(Store(c, a, v, op), p)
         /\ \A st : At([c EXCEPT !.st = st], p)
         /\ \A wp : At([c EXCEPT !.wp = wp], p)
<1>1. \A d, i, b : At(d, p) => At(StoreRam(d, i, b), p)
  BY DEF StoreRam, At, Fields, GoesOn
<1>2. \A a, b : At(StoreByte(c, a, b), p)
  BY <1>1 DEF StoreByte
<1>3. ASSUME NEW a, NEW w PROVE At(StoreWord(c, a, w), p)
  <2>1. CASE InPad(a)
    <3>1. PICK d : d = StoreRam(c, (a % PadSize) + 1, w % ByteSize)
      OBVIOUS
    <3>2. At(d, p)
      BY <1>1, <3>1
    <3>3. StoreWord(c, a, w) = StoreRam(d, a % PadSize, w \div ByteSize)
      BY <2>1, <3>1 DEF StoreWord
    <3> QED BY <1>1, <3>2, <3>3
  <2>2. CASE ~InPad(a)
    BY <2>2 DEF StoreWord, Raise, At, Fields, GoesOn
  <2> QED BY <2>1, <2>2
<1>4. \A a, v, op : At(Store(c, a, v, op), p)
  BY <1>2, <1>3 DEF Store
<1>5. \A st : At([c EXCEPT !.st = st], p)
  BY DEF At, Fields, GoesOn
<1>6. \A wp : At([c EXCEPT !.wp = wp], p)
  BY DEF At, Fields, GoesOn
<1> QED BY <1>1, <1>2, <1>3, <1>4, <1>5, <1>6

\* Nor does the reading of bytes.
LEMMA ByteReadsStay ==
  ASSUME NEW c, NEW p, At(c, p)
  PROVE  /\ \A a : At(ByteRead(c, a), p)
         /\ \A op, s, d : At(OperandsRead(c, op, s, d), p)
<1>1. \A m, a : At(m, p) => At(ByteRead(m, a), p)
  BY DEF ByteRead, Raise, At, Fields, GoesOn
<1> QED BY <1>1 DEF OperandsRead

\* The program counter counts words around its range.
LEMMA PcSteps ==
  ASSUME NEW c \in Machine
  PROVE  /\ \A n \in Int : Advance(c, n).pc = (c.pc + n) % WordSize
         /\ c.pc = (c.pc + 0) % WordSize
         /\ \A n \in 0..2 : (((c.pc + n) % WordSize) + 1) % WordSize = (c.pc + (n + 1)) % WordSize
<1>1. c.pc \in 0..WordSize - 1 /\ WordSize \in Nat /\ WordSize >= 4
  <2>1. c.pc \in Word
    BY DEF Machine
  <2>2. WordSize = 64 * Low6 /\ Low6 \in Nat \ {0}
    BY Widths
  <2> HIDE DEF Low6
  <2> QED BY <2>1, <2>2 DEF Word
<1>2. \A n \in Int : Advance(c, n).pc = (c.pc + n) % WordSize
  BY DEF Advance, Machine
<1>3. PICK p \in 0..WordSize - 1 : p = c.pc
  BY <1>1
<1>4. \A n \in 0..3 : (p + n) % WordSize = IF p + n < WordSize THEN p + n ELSE p + n - WordSize
  <2> TAKE n \in 0..3
  <2>1. CASE p + n < WordSize
    BY <1>1, <2>1
  <2>2. CASE ~(p + n < WordSize)
    <3>1. p + n - WordSize \in 0..WordSize - 1 /\ p + n = 1 * WordSize + (p + n - WordSize)
      BY <1>1, <2>2
    <3>2. PICK r \in 0..WordSize - 1 : r = p + n - WordSize
      BY <3>1
    <3>3. p + n = 1 * WordSize + r
      BY <1>1, <3>2
    <3>4. (p + n) % WordSize = r
      BY <1>1, <3>3, DivUnique
    <3> QED BY <2>2, <3>2, <3>4
  <2> QED BY <2>1, <2>2
<1>5. ASSUME NEW n \in 0..2
      PROVE  (((p + n) % WordSize) + 1) % WordSize = (p + (n + 1)) % WordSize
  <2>1. PICK x \in Int : x = (p + n) % WordSize
                         /\ x = IF p + n < WordSize THEN p + n ELSE p + n - WordSize
    BY <1>1, <1>4
  <2>2. x \in 0..WordSize - 1
    BY <1>1, <2>1
  <2>3. (x + 1) % WordSize = IF x + 1 < WordSize THEN x + 1 ELSE x + 1 - WordSize
    <3>1. CASE x + 1 < WordSize
      BY <1>1, <2>2, <3>1
    <3>2. CASE x + 1 = WordSize
      BY <1>1, <2>2, <3>2
    <3> QED BY <1>1, <2>2, <3>1, <3>2
  <2>4. (p + (n + 1)) % WordSize =
          IF p + (n + 1) < WordSize THEN p + (n + 1) ELSE p + (n + 1) - WordSize
    <3>1. n + 1 \in 0..3
      OBVIOUS
    <3> QED BY <1>4, <3>1
  <2>5. (x + 1) % WordSize = (p + (n + 1)) % WordSize
    BY <1>1, <2>1, <2>3, <2>4
  <2> QED BY <2>1, <2>5
<1>6. p = (p + 0) % WordSize
  BY <1>1
<1> QED BY <1>2, <1>3, <1>5, <1>6

Indexed(t) == IF t = 2 THEN 1 ELSE 0

\* addressOf skips the word of an indexed operand and no other.
LEMMA AddressSkips ==
  ASSUME NEW c \in Machine, GoesOn(c), NEW t \in 0..3, NEW x \in 0..15, NEW size \in {1, 2}
  PROVE  At(AddressOf(c, t, x, size).cpu, (c.pc + Indexed(t)) % WordSize)
<1>1. CASE t = 2
  <2>1. AddressOf(c, t, x, size).cpu = Advance(c, 1)
    BY <1>1 DEF AddressOf
  <2>2. Advance(c, 1).stop = c.stop
    BY DEF Advance, Machine
  <2>3. At(Advance(c, 1), Advance(c, 1).pc)
    BY <2>2, FieldsFit, MachineAt DEF GoesOn
  <2> QED BY <1>1, <2>1, <2>3, PcSteps DEF Indexed
<1>2. CASE t = 3
  <2>1. PICK w : w = (Reg(c, x) + size) % WordSize
    OBVIOUS
  <2>2. AddressOf(c, t, x, size).cpu = StoreWord(c, RegAddr(c, x), w)
    BY <1>2, <2>1 DEF AddressOf
  <2>3. At(StoreWord(c, RegAddr(c, x), w), c.pc)
    BY MachineAt, StoresStay
  <2> QED BY <1>2, <2>2, <2>3, PcSteps DEF Indexed
<1>3. CASE t \in {0, 1}
  <2>1. AddressOf(c, t, x, size).cpu = c
    BY <1>3 DEF AddressOf
  <2> QED BY <1>3, <2>1, MachineAt, PcSteps DEF Indexed
<1> QED BY <1>1, <1>2, <1>3

\* Going on by a word from where operands of n words were found.
LEMMA NextWord ==
  ASSUME NEW c \in Machine, NEW n \in 0..2, NEW e, At(e, (c.pc + n) % WordSize)
  PROVE  Advance(e, 1).pc = (c.pc + (n + 1)) % WordSize /\ GoesOn(Advance(e, 1))
<1>1. Advance(e, 1).pc = (e.pc + 1) % WordSize /\ Advance(e, 1).stop = e.stop
  BY DEF Advance, At, Fields
<1>2. (((c.pc + n) % WordSize) + 1) % WordSize = (c.pc + (n + 1)) % WordSize
  BY PcSteps
<1> QED BY <1>1, <1>2 DEF At, GoesOn

\* Where the operands are found, the program counter is on the last of their words.
LEMMA OperandsAt ==
  ASSUME cpu \in Machine, I \in Decoded
  PROVE  /\ \A o \in Operands(I) :
              At(o.cpu, (cpu.pc + (Indexed(I.ts) + Indexed(I.td))) % WordSize)
         /\ \A o \in One \cup CruOperand : At(o.cpu, (cpu.pc + Indexed(I.ts)) % WordSize)
         /\ Indexed(I.ts) + Indexed(I.td) \in 0..2 /\ Indexed(I.ts) \in 0..2
<1>1. I.ts \in 0..3 /\ I.s \in 0..15 /\ I.td \in 0..3 /\ I.d \in 0..15
  BY DEF Decoded
<1>2. Indexed(I.ts) \in 0..1 /\ Indexed(I.td) \in 0..1
  BY DEF Indexed
<1>3. ASSUME NEW o \in Operands(I)
      PROVE  At(o.cpu, (cpu.pc + (Indexed(I.ts) + Indexed(I.td))) % WordSize)
  <2>1. PICK src : src = AddressOf(cpu, I.ts, I.s, Size(I.op))
    OBVIOUS
  <2>2. PICK dst : /\ dst = AddressOf(src.cpu, I.td, I.d, Size(I.op))
                   /\ o.cpu = OperandsRead(dst.cpu, I.op, src.at, dst.at)
    BY <2>1 DEF Operands
  <2>3. Size(I.op) \in {1, 2}
    BY ModulusFits
  <2>4. src.cpu \in Machine /\ At(src.cpu, (cpu.pc + Indexed(I.ts)) % WordSize)
    BY <1>1, <2>1, <2>3, AddressesFit, AddressSkips DEF GoesOn
  <2>5. At(o.cpu, (src.cpu.pc + Indexed(I.td)) % WordSize)
    <3>1. PICK c \in Machine : c = src.cpu /\ GoesOn(c)
      BY <2>4 DEF At
    <3>2. PICK size \in {1, 2} : size = Size(I.op)
      BY <2>3
    <3>3. At(AddressOf(c, I.td, I.d, size).cpu, (c.pc + Indexed(I.td)) % WordSize)
      BY <1>1, <3>1, AddressSkips
    <3>4. At(dst.cpu, (src.cpu.pc + Indexed(I.td)) % WordSize)
      BY <2>2, <3>1, <3>2, <3>3
    <3> QED BY <2>2, <3>4, ByteReadsStay
  <2>6. (src.cpu.pc + Indexed(I.td)) % WordSize
          = (cpu.pc + (Indexed(I.ts) + Indexed(I.td))) % WordSize
    <3>1. CASE Indexed(I.td) = 0
      <4>1. src.cpu.pc = (src.cpu.pc + 0) % WordSize
        BY <2>4, PcSteps
      <4>2. Indexed(I.ts) + 0 = Indexed(I.ts)
        BY <1>2
      <4> QED BY <2>4, <3>1, <4>1, <4>2 DEF At
    <3>2. CASE Indexed(I.td) = 1
      <4>1. Indexed(I.ts) \in 0..2
        BY <1>2
      <4> QED BY <2>4, <3>2, <4>1, PcSteps DEF At
    <3> QED BY <1>2, <3>1, <3>2
  <2> QED BY <2>5, <2>6
<1>4. ASSUME NEW o \in One \cup CruOperand
      PROVE  At(o.cpu, (cpu.pc + Indexed(I.ts)) % WordSize)
  <2>1. PICK size \in {1, 2} :
          LET a == AddressOf(cpu, I.ts, I.s, size)
          IN o.cpu = a.cpu \/ o.cpu = ByteRead(a.cpu, a.at)
    BY CruOperandIs DEF One
  <2>2. At(AddressOf(cpu, I.ts, I.s, size).cpu, (cpu.pc + Indexed(I.ts)) % WordSize)
    BY <1>1, AddressSkips DEF GoesOn
  <2> QED BY <2>1, <2>2, ByteReadsStay
<1>5. Indexed(I.ts) + Indexed(I.td) \in 0..2 /\ Indexed(I.ts) \in 0..2
  BY <1>2
<1> QED BY <1>3, <1>4, <1>5

LEMMA WordsOf ==
  ASSUME I \in Decoded
  PROVE  /\ I.op \in TwoOperands => Words(I) = (Indexed(I.ts) + Indexed(I.td)) + 1
         /\ I.op \in OneOperand => Words(I) = Indexed(I.ts) + 1
         /\ I.op \in WithImmediate => Words(I) = 2
         /\ I.op \in OneWord => Words(I) = 1
<1>1. Indexed(I.ts) \in Int /\ Indexed(I.td) \in Int
  BY DEF Indexed
<1>2. I.op \in TwoOperands => Words(I) = 1 + Indexed(I.ts) + Indexed(I.td)
  BY DEF Words, Indexed, TwoOperands, OneOperand, WithImmediate, OneWord
<1>3. I.op \in OneOperand => Words(I) = 1 + Indexed(I.ts)
  BY DEF Words, Indexed, TwoOperands, OneOperand, WithImmediate, OneWord
<1>4. I.op \in WithImmediate => Words(I) = 2
  BY DEF Words, TwoOperands, OneOperand, WithImmediate, OneWord
<1>5. I.op \in OneWord => Words(I) = 1
  BY DEF Words, TwoOperands, OneOperand, WithImmediate, OneWord
<1> QED BY <1>1, <1>2, <1>3, <1>4, <1>5

\* The instruction has taken its words, and a machine that has stopped does not go on.
Took == cpu'.pc = (cpu.pc + Words(I)) % WordSize /\ GoesOn(cpu')

LEMMA TwoOperandsTake ==
  ASSUME CpuInv, Move \/ Arithmetic \/ Logic \/ (Compare /\ I.op # "CI")
  PROVE  Took
<1>1. I \in Decoded /\ I.op \in TwoOperands /\ cpu \in Machine
  BY Facts DEF Move, Arithmetic, Logic, Compare, TwoOperands
<1> DEFINE n == Indexed(I.ts) + Indexed(I.td)
<1>2. /\ n \in 0..2 /\ Words(I) = n + 1
      /\ \A o \in Operands(I) : At(o.cpu, (cpu.pc + n) % WordSize)
  BY <1>1, OperandsAt, WordsOf
<1> HIDE DEF n
<1>3. ASSUME NEW o \in Operands(I), NEW r, NEW st, Result(o, r, st)
      PROVE  Took
  <2> DEFINE e == Store(o.cpu, o.at, r, I.op)
             marked == IF I.op \in ByteOps THEN SetParity(st, r) ELSE st
             f == [e EXCEPT !.st = marked]
  <2>1. cpu' = Advance(f, 1)
    BY <1>3 DEF Result, Retire
  <2>2. At(e, (cpu.pc + n) % WordSize)
    BY <1>2, StoresStay
  <2> HIDE DEF e, marked
  <2>3. At(f, (cpu.pc + n) % WordSize)
    BY <2>2, StoresStay
  <2> HIDE DEF f
  <2> QED BY <1>1, <1>2, <2>1, <2>3, NextWord DEF Took
<1>4. CASE Move
  <2>1. \E o \in Operands(I) : \E r, st : Result(o, r, st)
    BY <1>4 DEF Move
  <2> QED BY <1>3, <2>1
<1>5. CASE Arithmetic
  <2>1. \E o \in Operands(I) : \E r, st : Result(o, r, st)
    BY <1>5 DEF Arithmetic
  <2> QED BY <1>3, <2>1
<1>6. CASE Logic
  <2>1. \E o \in Operands(I) : \E r, st : Result(o, r, st)
    BY <1>6 DEF Logic
  <2> QED BY <1>3, <2>1
<1>7. CASE Compare /\ I.op # "CI"
  <2>1. PICK o, st : o \in Operands(I) /\ cpu' = Advance([o.cpu EXCEPT !.st = st], 1)
    BY <1>7 DEF Compare
  <2>2. PICK e : e = [o.cpu EXCEPT !.st = st]
    OBVIOUS
  <2>3. At(o.cpu, (cpu.pc + n) % WordSize)
    BY <1>2, <2>1
  <2>4. At(e, (cpu.pc + n) % WordSize)
    BY <2>2, <2>3, StoresStay
  <2> QED BY <1>1, <1>2, <2>1, <2>2, <2>4, NextWord DEF Took
<1> QED BY <1>4, <1>5, <1>6, <1>7

\* An action that ends one word behind its operand.
LEMMA OneOperandTakes ==
  ASSUME cpu \in Machine, I \in Decoded, I.op \in OneOperand,
         NEW o \in One \cup CruOperand, NEW e,
         \A p : At(o.cpu, p) => At(e, p), cpu' = Advance(e, 1)
  PROVE  Took
<1>1. At(o.cpu, (cpu.pc + Indexed(I.ts)) % WordSize) /\ Indexed(I.ts) \in 0..2
  BY OperandsAt
<1>2. At(e, (cpu.pc + Indexed(I.ts)) % WordSize)
  BY <1>1
<1> QED BY <1>1, <1>2, NextWord, WordsOf DEF Took

LEMMA OneOperandsTake ==
  ASSUME CpuInv, Single \/ MultiplyDivide \/ Bits \/ LoadCru \/ StoreCru
  PROVE  Took
<1>1. I \in Decoded /\ I.op \in OneOperand /\ cpu \in Machine
  BY Facts DEF Single, MultiplyDivide, Bits, LoadCru, StoreCru, OneOperand
<1>2. CASE Single
  <2>1. PICK o \in One :
          LET w == ReadWord(o.cpu, o.at)
              r == SingleResult(I.op, w)
              c == IF I.op = "ABS" /\ ~Msb(w, WordSize) THEN o.cpu
                   ELSE StoreWord(o.cpu, o.at, r)
          IN Retire(Advance([c EXCEPT !.st = SingleStatus(I.op, @, w, r)], 1))
    BY <1>2 DEF Single
  <2> DEFINE w == ReadWord(o.cpu, o.at)
             r == SingleResult(I.op, w)
             c == IF I.op = "ABS" /\ ~Msb(w, WordSize) THEN o.cpu
                  ELSE StoreWord(o.cpu, o.at, r)
             st == SingleStatus(I.op, c.st, w, r)
             e == [c EXCEPT !.st = st]
  <2>2. cpu' = Advance(e, 1)
    BY <2>1 DEF Retire
  <2> HIDE DEF w, r
  <2>3. \A p : At(o.cpu, p) => At(c, p)
    BY StoresStay
  <2> HIDE DEF c, st
  <2>4. \A p : At(o.cpu, p) => At(e, p)
    BY <2>3, StoresStay
  <2> HIDE DEF e
  <2> QED BY <1>1, <2>2, <2>4, OneOperandTakes
<1>3. CASE MultiplyDivide
  <2> DEFINE pair(c, x, y) == StoreWord(StoreWord(c, RegAddr(c, I.d), x), RegAddr(c, I.d + 1), y)
  <2>1. ASSUME NEW c, NEW x, NEW y, NEW p, At(c, p)
        PROVE  At(pair(c, x, y), p)
    <3>1. PICK e : e = StoreWord(c, RegAddr(c, I.d), x)
      OBVIOUS
    <3>2. At(e, p)
      BY <2>1, <3>1, StoresStay
    <3>3. At(StoreWord(e, RegAddr(c, I.d + 1), y), p)
      BY <3>2, StoresStay
    <3> QED BY <3>1, <3>3
  <2> HIDE DEF pair
  <2>2. PICK o \in One :
     LET s == ReadWord(o.cpu, o.at)
         d == Reg(o.cpu, I.d)
         low == Reg(o.cpu, I.d + 1)
         c == IF I.op = "MPY" THEN pair(o.cpu, High(d * s, WordSize), Low(d * s, WordSize))
              ELSE IF Divides(s, d)
              THEN pair([o.cpu EXCEPT !.st.over = FALSE],
                        Quotient(s, d, low, WordSize), Remainder(s, d, low, WordSize))
              ELSE [o.cpu EXCEPT !.st.over = TRUE]
     IN Retire(Advance(c, 1))
    BY <1>3 DEF MultiplyDivide, pair
  <2>3. PICK f, t : f = [o.cpu EXCEPT !.st.over = FALSE] /\ t = [o.cpu EXCEPT !.st.over = TRUE]
    OBVIOUS
  <2>4. PICK e : /\ cpu' = Advance(e, 1)
                 /\ \/ \E x, y : e = pair(o.cpu, x, y)
                    \/ \E x, y : e = pair(f, x, y)
                    \/ e = t
    BY <2>2, <2>3 DEF Retire
  <2>5. \A p : At(o.cpu, p) => At(f, p) /\ At(t, p)
    BY <2>3, StoresStay
  <2>6. \A p : At(o.cpu, p) => At(e, p)
    BY <2>1, <2>4, <2>5
  <2> QED BY <1>1, <2>4, <2>6, OneOperandTakes
<1>4. CASE Bits
  <2>1. PICK o \in One :
     LET s == ReadWord(o.cpu, o.at)
         d == Reg(o.cpu, I.d)
         mask == IF I.op = "CZC" THEN WordSize - 1 - d ELSE d
         r == BitXor(d, s)
         c == IF I.op = "XOR"
              THEN [StoreWord(o.cpu, RegAddr(o.cpu, I.d), r)
                      EXCEPT !.st = SetLAE(@, r, WordSize)]
              ELSE [o.cpu EXCEPT !.st.eq = BitAnd(s, mask) = s]
     IN Retire(Advance(c, 1))
    BY <1>4 DEF Bits
  <2> DEFINE s == ReadWord(o.cpu, o.at)
             d == Reg(o.cpu, I.d)
             mask == IF I.op = "CZC" THEN WordSize - 1 - d ELSE d
             r == BitXor(d, s)
             x == StoreWord(o.cpu, RegAddr(o.cpu, I.d), r)
             y == [x EXCEPT !.st = SetLAE(@, r, WordSize)]
             z == [o.cpu EXCEPT !.st.eq = BitAnd(s, mask) = s]
             e == IF I.op = "XOR" THEN y ELSE z
  <2>2. cpu' = Advance(e, 1)
    BY <2>1 DEF Retire
  <2> HIDE DEF s, d, mask, r
  <2>3. \A p : At(o.cpu, p) => At(x, p) /\ At(z, p)
    BY StoresStay
  <2> HIDE DEF x, z
  <2>4. \A p : At(x, p) => At(y, p)
    BY StoresStay
  <2> HIDE DEF y
  <2>5. \A p : At(o.cpu, p) => At(e, p)
    BY <2>3, <2>4
  <2> HIDE DEF e
  <2> QED BY <1>1, <2>2, <2>5, OneOperandTakes
<1>5. CASE LoadCru
  <2>1. PICK o, st : o \in CruOperand /\ cpu' = Advance([o.cpu EXCEPT !.st = st], 1)
    BY <1>5, ZenonT(30) DEF LoadCru, Retire
  <2>2. PICK e : e = [o.cpu EXCEPT !.st = st]
    OBVIOUS
  <2>3. \A p : At(o.cpu, p) => At(e, p)
    BY <2>2, StoresStay
  <2> QED BY <1>1, <2>1, <2>2, <2>3, OneOperandTakes
<1>6. CASE StoreCru
  <2>1. PICK o, x, st :
          /\ o \in CruOperand
          /\ cpu' = Advance([x EXCEPT !.st = st], 1)
          /\ (\E v : x = StoreByte(o.cpu, o.at, v)) \/ (\E v : x = StoreWord(o.cpu, o.at, v))
    BY <1>6 DEF StoreCru, Retire
  <2>2. PICK e : e = [x EXCEPT !.st = st]
    OBVIOUS
  <2>3. \A p : At(o.cpu, p) => At(x, p)
    BY <2>1, StoresStay
  <2>4. \A p : At(o.cpu, p) => At(e, p)
    BY <2>2, <2>3, StoresStay
  <2> QED BY <1>1, <2>1, <2>2, <2>4, OneOperandTakes
<1> QED BY <1>2, <1>3, <1>4, <1>5, <1>6

LEMMA ImmediatesTake ==
  ASSUME CpuInv, (Compare /\ I.op = "CI") \/ Immediate \/ LoadPointer
  PROVE  Took
<1>1. I \in Decoded /\ I.op \in WithImmediate /\ cpu \in Machine /\ Words(I) = 2
  <2>1. I \in Decoded /\ I.op \in WithImmediate /\ cpu \in Machine
    BY Facts DEF Compare, Immediate, LoadPointer, WithImmediate
  <2> QED BY <2>1, WordsOf
<1>2. At(cpu, cpu.pc)
  BY <1>1, MachineAt
<1>3. ASSUME NEW e, At(e, cpu.pc), cpu' = Advance(e, 2) PROVE Took
  BY <1>1, <1>3 DEF Advance, At, Fields, Took, GoesOn
<1>4. CASE Compare /\ I.op = "CI"
  <2>1. PICK st : cpu' = Advance([Advance(cpu, 1) EXCEPT !.st = st], 1)
    <3> DEFINE found == [cpu |-> Advance(cpu, 1), s |-> ReadWord(cpu, RegAddr(cpu, I.d)),
                         d |-> Following(cpu)]
               m == Modulus(I.op)
    <3>1. cpu' = Advance([found.cpu EXCEPT !.st = Compared(found.cpu.st, found.s, found.d, m)], 1)
      BY <1>4 DEF Compare
    <3>2. found.cpu = Advance(cpu, 1)
      OBVIOUS
    <3> HIDE DEF found, m
    <3> QED BY <3>1, <3>2
  <2>2. PICK x : x = Advance(cpu, 1)
    OBVIOUS
  <2>3. x \in Machine /\ x.pc = (cpu.pc + 1) % WordSize /\ GoesOn(x)
    <3>1. x.stop = cpu.stop
      BY <1>1, <2>2 DEF Advance, Machine
    <3> QED BY <1>1, <2>2, <3>1, FieldsFit, PcSteps DEF GoesOn
  <2>4. PICK e : e = [x EXCEPT !.st = st]
    OBVIOUS
  <2>5. At(e, (cpu.pc + 1) % WordSize)
    BY <2>3, <2>4, MachineAt, StoresStay
  <2>6. Advance(e, 1).pc = (cpu.pc + (1 + 1)) % WordSize /\ GoesOn(Advance(e, 1))
    BY <1>1, <2>5, NextWord
  <2> QED BY <1>1, <2>1, <2>2, <2>4, <2>6 DEF Took
<1>5. CASE Immediate
  <2>1. PICK imm \in {Following(cpu)}, w \in {ReadWord(cpu, RegAddr(cpu, I.d))} :
     LET r == CASE I.op = "LI" -> imm           [] I.op = "ANDI" -> BitAnd(w, imm)
                [] I.op = "ORI" -> BitOr(w, imm)   [] I.op = "AI" -> Add(w, imm, WordSize)
         c == IF I.op = "LI"
              THEN StoreRam(StoreRam(cpu, WR(cpu, I.d) + 1, r % ByteSize),
                            WR(cpu, I.d), r \div ByteSize)
              ELSE StoreWord(cpu, RegAddr(cpu, I.d), r)
         st == IF I.op = "AI" THEN SumStatus(cpu.st, w, imm, r, WordSize)
               ELSE SetLAE(cpu.st, r, WordSize)
     IN Retire(Advance([c EXCEPT !.st = st], 2))
    BY <1>5 DEF Immediate
  <2> DEFINE r == CASE I.op = "LI" -> imm           [] I.op = "ANDI" -> BitAnd(w, imm)
                    [] I.op = "ORI" -> BitOr(w, imm)   [] I.op = "AI" -> Add(w, imm, WordSize)
             inRam == StoreRam(StoreRam(cpu, WR(cpu, I.d) + 1, r % ByteSize),
                               WR(cpu, I.d), r \div ByteSize)
             c == IF I.op = "LI" THEN inRam ELSE StoreWord(cpu, RegAddr(cpu, I.d), r)
             st == IF I.op = "AI" THEN SumStatus(cpu.st, w, imm, r, WordSize)
                   ELSE SetLAE(cpu.st, r, WordSize)
             e == [c EXCEPT !.st = st]
  <2>2. Retire(Advance(e, 2))
    BY <2>1
  <2> HIDE DEF r
  <2>3. At(inRam, cpu.pc)
    <3> DEFINE d == StoreRam(cpu, WR(cpu, I.d) + 1, r % ByteSize)
    <3>1. At(d, cpu.pc)
      BY <1>2, StoresStay
    <3> HIDE DEF d
    <3>2. At(StoreRam(d, WR(cpu, I.d), r \div ByteSize), cpu.pc)
      BY <3>1, StoresStay
    <3> QED BY <3>2 DEF d
  <2> HIDE DEF inRam
  <2>4. At(c, cpu.pc)
    <3>1. At(StoreWord(cpu, RegAddr(cpu, I.d), r), cpu.pc)
      BY <1>2, StoresStay
    <3> QED BY <2>3, <3>1
  <2> HIDE DEF c, st
  <2>5. At(e, cpu.pc)
    BY <2>4, StoresStay
  <2> HIDE DEF e
  <2>6. cpu' = Advance(e, 2)
    BY <2>2 DEF Retire
  <2> QED BY <1>3, <2>5, <2>6
<1>6. CASE LoadPointer
  <2>1. PICK e : /\ cpu' = Advance(e, 2)
                 /\ \/ \E wp : e = [cpu EXCEPT !.wp = wp]
                    \/ \E low : e = [cpu EXCEPT !.st.low = low]
    BY <1>6 DEF LoadPointer, Retire
  <2>2. At(e, cpu.pc)
    BY <1>2, <2>1, StoresStay
  <2> QED BY <1>3, <2>1, <2>2
<1> QED BY <1>4, <1>5, <1>6

LEMMA SingleWordsTake ==
  ASSUME CpuInv, Shift \/ StoreStatus \/ SingleBit
  PROVE  Took
<1>1. I \in Decoded /\ I.op \in OneWord /\ cpu \in Machine /\ Words(I) = 1
  <2>1. I \in Decoded /\ I.op \in OneWord /\ cpu \in Machine
    BY Facts DEF Shift, StoreStatus, SingleBit, OneWord
  <2> QED BY <2>1, WordsOf
<1>2. At(cpu, cpu.pc)
  BY <1>1, MachineAt
<1>3. ASSUME NEW e, At(e, cpu.pc), cpu' = Advance(e, 1) PROVE Took
  BY <1>1, <1>3 DEF Advance, At, Fields, Took, GoesOn
<1>4. CASE Shift
  <2>1. PICK a, w, st : cpu' = Advance([StoreWord(cpu, a, w) EXCEPT !.st = st], 1)
    BY <1>4 DEF Shift, Retire
  <2>2. PICK x : x = StoreWord(cpu, a, w)
    OBVIOUS
  <2>3. At(x, cpu.pc)
    BY <1>2, <2>2, StoresStay
  <2>4. PICK e : e = [x EXCEPT !.st = st]
    OBVIOUS
  <2>5. At(e, cpu.pc)
    BY <2>3, <2>4, StoresStay
  <2> QED BY <1>3, <2>1, <2>2, <2>4, <2>5
<1>5. CASE StoreStatus
  <2>1. PICK a, w : cpu' = Advance(StoreWord(cpu, a, w), 1)
    BY <1>5 DEF StoreStatus, Retire
  <2>2. PICK e : e = StoreWord(cpu, a, w)
    OBVIOUS
  <2>3. At(e, cpu.pc)
    BY <1>2, <2>2, StoresStay
  <2> QED BY <1>3, <2>1, <2>2, <2>3
<1>6. CASE SingleBit
  <2>1. PICK e : cpu' = Advance(e, 1) /\ (e = cpu \/ \E b : e = [cpu EXCEPT !.st.eq = b])
    BY <1>6 DEF SingleBit, Retire
  <2>2. At(e, cpu.pc)
    BY <1>2, <2>1, StoresStay
  <2> QED BY <1>3, <2>1, <2>2
<1> QED BY <1>4, <1>5, <1>6

Sequential == (TwoOperands \cup OneOperand \cup WithImmediate \cup OneWord) \ {"X"}

LEMMA SequentialTakes ==
  ASSUME CpuInv, Next, Is(Sequential)
  PROVE  Took
<1>1. ~Fetch /\ ~Stopped
  BY DEF Fetch, Stopped, Is
<1>2. ~Jump /\ ~Branch /\ ~Blwp /\ ~Rtwp /\ ~Execute /\ ~Unimplemented
  <2>1. I.op \in Sequential
    BY DEF Is
  <2> QED BY <2>1 DEF Sequential, Jump, Branch, Blwp, Rtwp, Execute, Unimplemented, Is, Jumps,
                      TwoOperands, OneOperand, WithImmediate, OneWord
<1>3. CASE Compare
  BY <1>3, TwoOperandsTake, ImmediatesTake
<1>4. CASE Move \/ Arithmetic \/ Logic
  BY <1>4, TwoOperandsTake
<1>5. CASE Single \/ MultiplyDivide \/ Bits \/ LoadCru \/ StoreCru
  BY <1>5, OneOperandsTake
<1>6. CASE Immediate \/ LoadPointer
  BY <1>6, ImmediatesTake
<1>7. CASE Shift \/ StoreStatus \/ SingleBit
  BY <1>7, SingleWordsTake
<1> QED BY <1>1, <1>2, <1>3, <1>4, <1>5, <1>6, <1>7 DEF Next

\* The words an instruction takes, for every program and every way to reach it: from a branch
\* into the middle of another instruction, from X, at the end of the address space.
THEOREM InstructionsTakeTheirWords == Spec => TakesItsWords
<1> DEFINE A == /\ Is(Sequential) => cpu'.pc = (cpu.pc + Words(I)) % WordSize
                /\ Is({"X"}) => cpu'.pc = (cpu.pc + Words(I) - 1) % WordSize
<1>1. ASSUME CpuInv, Next, Is(Sequential) PROVE Took
  BY <1>1, SequentialTakes
<1>2. ASSUME CpuInv, Next, Is({"X"}) PROVE cpu'.pc = (cpu.pc + Words(I) - 1) % WordSize
  <2>1. I \in Decoded /\ I.op = "X" /\ cpu \in Machine /\ insn # None
    BY <1>2, Facts DEF Is
  <2>2. Execute
    BY <1>2, <2>1 DEF Next, Is, Fetch, Stopped, Move, Arithmetic, Logic, Compare, Immediate, Single,
       MultiplyDivide, Bits, Shift, Jump, Branch, Blwp, Rtwp, LoadPointer, StoreStatus,
       Unimplemented, SingleBit, LoadCru, StoreCru, Jumps
  <2>3. PICK o \in One : cpu' = o.cpu
    BY <2>2 DEF Execute
  <2>4. At(o.cpu, (cpu.pc + Indexed(I.ts)) % WordSize)
    BY <2>1, OperandsAt
  <2>5. Words(I) = Indexed(I.ts) + 1 /\ Indexed(I.ts) \in Int
    BY <2>1, WordsOf DEF OneOperand, Indexed
  <2>6. cpu.pc \in Int
    <3>1. cpu.pc \in Word
      BY <2>1 DEF Machine
    <3> QED BY <3>1, Widths DEF Word
  <2>7. cpu.pc + Words(I) - 1 = cpu.pc + Indexed(I.ts)
    BY <2>5, <2>6
  <2> QED BY <2>3, <2>4, <2>7 DEF At
<1>3. CpuInv /\ [Next]_cpuVars => [A]_cpuVars
  BY <1>1, <1>2 DEF Took
<1> QED BY <1>3, CpuInvariant, PTL DEF Spec, TakesItsWords, Sequential

-----------------------------------------------------------------------------
(* Sums *)

\* The code takes the carry from the result, which is below an operand only if the sum did
\* not fit, and the overflow from signs: operands that agree and a result that does not.
LEMMA SumTold ==
  ASSUME NEW st \in Status, NEW m \in Moduli, NEW s \in 0..m - 1, NEW d \in 0..m - 1
  PROVE  TellSum(SumStatus(st, d, s, Add(d, s, m), m), d, s, m)
<1> DEFINE r == Add(d, s, m)
           t == SumStatus(st, d, s, r, m)
           v == Msb(s, m) = Msb(d, m) /\ Msb(r, m) # Msb(d, m)
<1>1. PICK h \in Nat \ {0} : m = 2 * h /\ m \div 2 = h
  <2>1. m \in Nat \ {0} /\ m % 2 = 0
    BY Widths DEF Moduli
  <2>2. m \div 2 \in Nat \ {0} /\ m = 2 * (m \div 2)
    BY <2>1
  <2> QED BY <2>2
<1>2. r = IF d + s >= m THEN d + s - m ELSE d + s
  BY <1>1 DEF Add, Wrap
<1>3. (d + s) % m = r
  <2>1. CASE d + s < m
    BY <1>1, <1>2, <2>1
  <2>2. CASE ~(d + s < m)
    <3>1. PICK k \in 0..m - 1 : k = d + s - m
      BY <1>1, <2>2
    <3>2. d + s = 1 * m + k
      BY <1>1, <3>1
    <3>3. m \in Nat \ {0} /\ (1 * m + k) % m = k
      BY <1>1, DivUnique
    <3> QED BY <1>1, <1>2, <2>2, <3>1, <3>2, <3>3
  <2> QED BY <2>1, <2>2
<1>4. /\ t.carry <=> r < d \/ r < s
      /\ t.over <=> v
      /\ t.eq <=> r = 0
      /\ t.lgt <=> r # 0
      /\ t.agt <=> r # 0 /\ ~Msb(r, m)
  BY DEF SumStatus, SetLAE, CarryOver, Status, StatusOf
<1> HIDE DEF r, t
<1>5. r \in 0..m - 1
  BY <1>1, <1>2
<1>6. /\ Msb(s, m) <=> s >= h
      /\ Msb(d, m) <=> d >= h
      /\ Msb(r, m) <=> r >= h
  BY <1>1 DEF Msb
<1>7. v <=> /\ s >= h <=> d >= h
            /\ ~(r >= h <=> d >= h)
  <2>1. Msb(s, m) \in BOOLEAN /\ Msb(d, m) \in BOOLEAN /\ Msb(r, m) \in BOOLEAN
    BY DEF Msb
  <2>2. v <=> (Msb(s, m) <=> Msb(d, m)) /\ ~(Msb(r, m) <=> Msb(d, m))
    BY <2>1
  <2> QED BY <1>6, <2>2, Zenon
<1> HIDE DEF v
<1>8. /\ Signed(s, m) = IF s >= h THEN s - m ELSE s
      /\ Signed(d, m) = IF d >= h THEN d - m ELSE d
      /\ Signed(r, m) = IF r >= h THEN r - m ELSE r
  BY <1>6 DEF Signed
<1>9. t.carry <=> d + s >= m
  BY <1>1, <1>2, <1>4
<1>10. t.over <=> Signed(d, m) + Signed(s, m) \notin -(m \div 2)..(m \div 2) - 1
  BY <1>1, <1>2, <1>4, <1>7, <1>8
<1>11. t.agt <=> Signed(r, m) > 0
  BY <1>1, <1>4, <1>5, <1>6, <1>8
<1> QED BY <1>3, <1>4, <1>9, <1>10, <1>11 DEF TellSum, r, t

\* The parity of a byte operation's result is a flag of its own.
LEMMA ParityTellsSum ==
  ASSUME NEW st \in Status, NEW x, NEW d, NEW s, NEW m, TellSum(st, d, s, m)
  PROVE  TellSum(SetParity(st, x), d, s, m)
<1>1. LET t == SetParity(st, x)
      IN /\ t.carry = st.carry /\ t.over = st.over /\ t.eq = st.eq
         /\ t.lgt = st.lgt /\ t.agt = st.agt
  BY DEF SetParity, Status, StatusOf
<1> QED BY <1>1 DEF TellSum

\* INC and INCT take the carry from the operand.
LEMMA StepCarries ==
  ASSUME NEW st \in Status, NEW w \in Word, NEW x \in {1, 2}, NEW r
  PROVE  StepStatus(st, w, x, r, TRUE, WordSize).carry <=> w + x >= WordSize
<1>1. StepStatus(st, w, x, r, TRUE, WordSize).carry <=> w > WordSize - 1 - x
  <2> DEFINE c == w > WordSize - 1 - x
             v == Msb(w, WordSize) /\ ~Msb(r, WordSize)
  <2>1. StepStatus(st, w, x, r, TRUE, WordSize) = SetLAE(CarryOver(st, c, v), r, WordSize)
    BY DEF StepStatus
  <2>2. c \in BOOLEAN
    OBVIOUS
  <2> HIDE DEF c, v
  <2>3. SetLAE(CarryOver(st, c, v), r, WordSize).carry = c
    <3>1. \A f \in BOOLEAN : [st EXCEPT !.carry = f, !.over = v].carry = f
      BY DEF Status, StatusOf
    <3>2. \A t : SetLAE(t, r, WordSize).carry = t.carry
      BY DEF SetLAE
    <3> QED BY <2>2, <3>1, <3>2 DEF CarryOver
  <2>4. StepStatus(st, w, x, r, TRUE, WordSize).carry <=> c
    BY <2>1, <2>2, <2>3
  <2> QED BY <2>4 DEF c
<1>2. w > WordSize - 1 - x <=> w + x >= WordSize
  <2>1. w \in Int /\ WordSize \in Int
    BY Widths DEF Word
  <2> QED BY <2>1
<1> QED BY <1>1, <1>2, Zenon

LEMMA StatusAfter ==
  ASSUME NEW c \in Machine, NEW st \in Status, NEW n \in Int
  PROVE  Advance([c EXCEPT !.st = st], n).st = st
<1> DEFINE e == [c EXCEPT !.st = st]
<1>1. e \in Machine /\ e.st = st
  BY FieldsFit
<1> HIDE DEF e
<1>2. Advance(e, n).st = st
  BY <1>1, FieldsFit
<1> QED BY <1>2 DEF e

\* The flags an addition leaves, in every program: bytes or words, whatever the operands'
\* addresses, and whether or not the sum has a place to be stored in.
THEOREM SumsTellTheNumbers == Spec => SumsSetFlags
<1> DEFINE Added == \E o \in Operands(I) : TellSum(cpu'.st, o.d, o.s, Modulus(I.op))
           AddedImmediate ==
             TellSum(cpu'.st, ReadWord(cpu, RegAddr(cpu, I.d)), Following(cpu), WordSize)
           Stepped == \E o \in One : cpu'.st.carry <=>
                        ReadWord(o.cpu, o.at) + (IF I.op = "INC" THEN 1 ELSE 2) >= WordSize
           A == /\ Is({"A", "AB"}) => Added
                /\ Is({"AI"}) => AddedImmediate
                /\ Is({"INC", "INCT"}) => Stepped
<1>1. ASSUME CpuInv, Next, Is({"A", "AB"}) PROVE Added
  <2>1. I \in Decoded /\ I.op \in {"A", "AB"} /\ cpu \in Machine /\ cpu.st \in Status
    BY <1>1, Facts
  <2>2. Arithmetic
    BY <1>1, <2>1 DEF Next, Is, Fetch, Stopped, Move, Logic, Compare, Immediate, Single,
       MultiplyDivide, Bits, Shift, Jump, Branch, Blwp, Rtwp, Execute, LoadPointer, StoreStatus,
       Unimplemented, SingleBit, LoadCru, StoreCru, Jumps
  <2> DEFINE m == Modulus(I.op)
  <2>3. PICK o \in Operands(I) :
          Result(o, Add(o.d, o.s, m), SumStatus(cpu.st, o.d, o.s, Add(o.d, o.s, m), m))
    BY <2>1, <2>2 DEF Arithmetic
  <2>4. o.cpu \in Machine /\ o.at \in Word /\ o.s \in 0..m - 1 /\ o.d \in 0..m - 1 /\ m \in Moduli
    BY <2>1, OperandsFit, ModulusFits
  <2> DEFINE r == Add(o.d, o.s, m)
             st == SumStatus(cpu.st, o.d, o.s, r, m)
             marked == IF I.op \in ByteOps THEN SetParity(st, r) ELSE st
             c == Store(o.cpu, o.at, r, I.op)
  <2>5. r \in 0..m - 1
    <3> HIDE DEF m
    <3> QED BY <2>4, ResultsFit
  <2>6. st \in Status
    BY <2>1, SumStatusFits
  <2>7. TellSum(st, o.d, o.s, m)
    <3> HIDE DEF m
    <3> QED BY <2>1, <2>4, SumTold
  <2>8. cpu' = Advance([c EXCEPT !.st = marked], 1)
    BY <2>3 DEF Result, Retire
  <2> HIDE DEF st
  <2>9. marked \in Status
    BY <2>6, StatusesFit
  <2>10. TellSum(marked, o.d, o.s, m)
    BY <2>6, <2>7, ParityTellsSum
  <2> HIDE DEF r, marked
  <2>11. c \in Machine
    BY <2>4, <2>5, ModulusFits
  <2> HIDE DEF c
  <2>12. cpu'.st = marked
    BY <2>8, <2>9, <2>11, StatusAfter
  <2> QED BY <2>10, <2>12
<1>2. ASSUME CpuInv, Next, Is({"AI"}) PROVE AddedImmediate
  <2>1. I \in Decoded /\ I.op = "AI" /\ cpu \in Machine /\ cpu.st \in Status
    BY <1>2, Facts
  <2>2. Immediate
    BY <1>2, <2>1 DEF Next, Is, Fetch, Stopped, Move, Arithmetic, Logic, Compare, Single,
       MultiplyDivide, Bits, Shift, Jump, Branch, Blwp, Rtwp, Execute, LoadPointer, StoreStatus,
       Unimplemented, SingleBit, LoadCru, StoreCru, Jumps
  <2> DEFINE imm == Following(cpu)
             w == ReadWord(cpu, RegAddr(cpu, I.d))
             r == Add(w, imm, WordSize)
             st == SumStatus(cpu.st, w, imm, r, WordSize)
             c == StoreWord(cpu, RegAddr(cpu, I.d), r)
  <2>3. cpu' = Advance([c EXCEPT !.st = st], 2)
    BY <2>1, <2>2 DEF Immediate, Retire
  <2>4. RegAddr(cpu, I.d) \in Word /\ imm \in Word /\ w \in Word
    <3>1. I.d \in 0..16
      BY <2>1 DEF Decoded
    <3> QED BY <2>1, <3>1, ReadsFit
  <2> HIDE DEF imm, w
  <2>5. WordSize \in Moduli /\ imm \in 0..WordSize - 1 /\ w \in 0..WordSize - 1
    BY <2>4 DEF Moduli, Word
  <2>6. r \in Word
    BY <2>5, ResultsFit DEF Word
  <2>7. st \in Status
    BY <2>1, SumStatusFits
  <2>8. TellSum(st, w, imm, WordSize)
    BY <2>1, <2>5, SumTold
  <2> HIDE DEF r, st
  <2>9. c \in Machine
    BY <2>1, <2>4, <2>6, StoresFit
  <2> HIDE DEF c
  <2>10. cpu'.st = st
    BY <2>3, <2>7, <2>9, StatusAfter
  <2> QED BY <2>8, <2>10 DEF imm, w
<1>3. ASSUME CpuInv, Next, Is({"INC", "INCT"}) PROVE Stepped
  <2>1. I \in Decoded /\ I.op \in {"INC", "INCT"} /\ cpu \in Machine /\ cpu.st \in Status
    BY <1>3, Facts
  <2>2. Single
    BY <1>3, <2>1 DEF Next, Is, Fetch, Stopped, Move, Arithmetic, Logic, Compare, Immediate,
       MultiplyDivide, Bits, Shift, Jump, Branch, Blwp, Rtwp, Execute, LoadPointer, StoreStatus,
       Unimplemented, SingleBit, LoadCru, StoreCru, Jumps
  <2>3. PICK x \in {1, 2} : x = IF I.op = "INC" THEN 1 ELSE 2
    OBVIOUS
  <2>4. PICK o \in One :
          LET w == ReadWord(o.cpu, o.at)
              r == SingleResult(I.op, w)
              c == IF I.op = "ABS" /\ ~Msb(w, WordSize) THEN o.cpu
                   ELSE StoreWord(o.cpu, o.at, r)
          IN Retire(Advance([c EXCEPT !.st = SingleStatus(I.op, @, w, r)], 1))
    BY <2>2 DEF Single
  <2> DEFINE w == ReadWord(o.cpu, o.at)
             r == SingleResult(I.op, w)
             c == StoreWord(o.cpu, o.at, r)
             st == SingleStatus(I.op, c.st, w, r)
  <2>5. cpu' = Advance([c EXCEPT !.st = st], 1)
    BY <2>1, <2>4 DEF Retire
  <2>6. o.cpu \in Machine /\ o.at \in Word
    BY <2>1, OneFits
  <2>7. w \in Word
    BY <2>6, ReadsFit
  <2> HIDE DEF w
  <2>8. I.op \in Singles
    BY <2>1 DEF Singles
  <2>9. r \in Word
    BY <2>1, <2>7, <2>8, SinglesFit
  <2> HIDE DEF r
  <2>10. c \in Machine
    BY <2>6, <2>7, <2>9, StoresFit
  <2> HIDE DEF c
  <2>11. c.st \in Status
    BY <2>10 DEF Machine
  <2>12. st = StepStatus(c.st, w, x, r, TRUE, WordSize)
    BY <2>1, <2>3 DEF SingleStatus
  <2>13. st.carry <=> w + x >= WordSize
    BY <2>7, <2>11, <2>12, StepCarries
  <2>14. st \in Status
    BY <2>11, <2>12, StepStatusFits
  <2> HIDE DEF st
  <2>15. cpu'.st = st
    BY <2>5, <2>10, <2>14, StatusAfter
  <2>16. cpu'.st.carry <=> w + (IF I.op = "INC" THEN 1 ELSE 2) >= WordSize
    BY <2>3, <2>13, <2>15
  <2> QED BY <2>16 DEF w
<1>4. CpuInv /\ [Next]_cpuVars => [A]_cpuVars
  BY <1>1, <1>2, <1>3
<1> QED BY <1>4, CpuInvariant, PTL DEF Spec, SumsSetFlags

-----------------------------------------------------------------------------
(* Products and quotients *)

\* A register and the next one, stored one after the other, do not overlap, though the one
\* may be the last word of the scratchpad and the other its first.
LEMMA PairReadsBack ==
  ASSUME NEW c \in Machine, NEW x \in 0..15, NEW u \in Word, NEW v \in Word, NEW e,
         e = StoreWord(StoreWord(c, RegAddr(c, x), u), RegAddr(c, x + 1), v), e.stop = "no"
  PROVE  ReadWord(e, RegAddr(e, x)) = u /\ ReadWord(e, RegAddr(e, x + 1)) = v
<1> DEFINE a == RegAddr(c, x)
           b == RegAddr(c, x + 1)
<1>1. PICK d : d = StoreWord(c, a, u)
  OBVIOUS
<1>2. a \in Word /\ b \in Word
  <2>1. x \in 0..16 /\ x + 1 \in 0..16
    OBVIOUS
  <2> QED BY <2>1, ReadsFit
<1>3. b % PadSize = IF (a % PadSize) + 2 < PadSize THEN (a % PadSize) + 2
                    ELSE (a % PadSize) + 2 - PadSize
  BY NextRegister
<1>4. e = StoreWord(d, b, v)
  BY <1>1
<1> HIDE DEF a, b
<1>5. d \in Machine
  BY <1>1, <1>2, StoresFit
<1>6. /\ d.stop = "no" /\ e.wp = d.wp /\ InPad(b) /\ (b % PadSize) + 1 < PadSize
      /\ ReadWord(e, b) = v
      /\ \A y \in Word : /\ InPad(y) /\ (y % PadSize) + 1 < PadSize
                         /\ y % PadSize \notin {(b % PadSize) - 1, b % PadSize, (b % PadSize) + 1}
                         => ReadWord(e, y) = ReadWord(d, y)
  <2>1. StoreWord(d, b, v).stop = "no"
    BY <1>4
  <2> QED BY <1>2, <1>4, <1>5, <2>1, WordsReadBack
<1>7. d.wp = c.wp /\ InPad(a) /\ (a % PadSize) + 1 < PadSize /\ ReadWord(d, a) = u
  BY <1>1, <1>2, <1>6, WordsReadBack
<1>8. a % PadSize \notin {(b % PadSize) - 1, b % PadSize, (b % PadSize) + 1}
  <2>1. PadSize \in Nat /\ PadSize >= 6
    BY PadAssumption
  <2>2. PICK i \in 0..PadSize - 1 : i = a % PadSize
    <3>1. a \in Nat
      BY <1>2, Widths DEF Word
    <3> QED BY <2>1, <3>1
  <2>3. PICK j \in Int : j = b % PadSize /\ j = IF i + 2 < PadSize THEN i + 2 ELSE i + 2 - PadSize
    BY <1>3, <2>1, <2>2
  <2>4. i + 1 < PadSize
    BY <1>7, <2>2
  <2> QED BY <2>1, <2>2, <2>3, <2>4
<1>9. ReadWord(e, a) = u
  BY <1>2, <1>6, <1>7, <1>8
<1>10. RegAddr(e, x) = a /\ RegAddr(e, x + 1) = b
  BY <1>6, <1>7 DEF RegAddr, a, b
<1> QED BY <1>6, <1>9, <1>10

\* Going on changes nothing but the program counter.
LEMMA OnlyPcMoves ==
  ASSUME NEW c \in Machine, NEW n \in Int
  PROVE  LET e == Advance(c, n)
         IN /\ e.stop = c.stop /\ e.ram = c.ram
            /\ \A a : ReadWord(e, a) = ReadWord(c, a)
            /\ \A x : RegAddr(e, x) = RegAddr(c, x)
<1> DEFINE e == Advance(c, n)
<1>1. e.stop = c.stop /\ e.ram = c.ram /\ e.wp = c.wp
  BY DEF Advance, Machine
<1> HIDE DEF e
<1>2. \A i : ReadRam(e, i) = ReadRam(c, i)
  BY <1>1 DEF ReadRam
<1>3. \A a : ReadWord(e, a) = ReadWord(c, a)
  BY <1>2 DEF ReadWord
<1>4. \A x : RegAddr(e, x) = RegAddr(c, x)
  BY <1>1 DEF RegAddr
<1> QED BY <1>1, <1>3, <1>4 DEF e

\* A quotient has a place in a word exactly if the divisor exceeds the dividend's high word.
LEMMA DividesRight ==
  ASSUME NEW s \in Word, NEW d \in Word, NEW low \in Word
  PROVE  /\ Divides(s, d) <=> ~(d * WordSize + low >= s * WordSize)
         /\ Divides(s, d) =>
              /\ Quotient(s, d, low, WordSize) * s + Remainder(s, d, low, WordSize)
                   = d * WordSize + low
              /\ Remainder(s, d, low, WordSize) < s
<1>1. WordSize \in Nat \ {0} /\ s \in Nat /\ d \in Nat /\ low \in 0..WordSize - 1
  BY Widths DEF Word
<1>2. s * WordSize \in Int /\ d * WordSize \in Nat
  BY <1>1
<1>3. CASE s > d
  <2>1. (s - 1 - d) * WordSize >= 0
    BY <1>1, <1>3
  <2>2. (s - 1 - d) * WordSize = s * WordSize - WordSize - d * WordSize
    BY <1>1
  <2>3. PICK n \in Nat : n = d * WordSize + low
    BY <1>1, <1>2
  <2>4. n = (n \div s) * s + (n % s) /\ n % s \in 0..s - 1
    <3>1. s \in Nat \ {0}
      BY <1>1, <1>3
    <3> QED BY <3>1, DivMod
  <2>5. n % s < s
    BY <1>1, <2>4
  <2>6. ~(n >= s * WordSize)
    BY <1>1, <1>2, <2>1, <2>2, <2>3
  <2> QED BY <1>3, <2>3, <2>4, <2>5, <2>6 DEF Divides, Quotient, Remainder
<1>4. CASE ~(s > d)
  <2>1. (d - s) * WordSize >= 0 /\ (d - s) * WordSize = d * WordSize - s * WordSize
    BY <1>1, <1>4
  <2> QED BY <1>1, <1>2, <1>4, <2>1 DEF Divides
<1> QED BY <1>3, <1>4

\* The high and the low word make up the product.
LEMMA WholeProduct ==
  ASSUME NEW s \in Word, NEW d \in Word
  PROVE  High(d * s, WordSize) * WordSize + Low(d * s, WordSize) = d * s
<1>1. WordSize \in Nat \ {0} /\ s \in Nat /\ d \in Nat
  BY Widths DEF Word
<1>2. PICK n \in Nat : n = d * s
  BY <1>1
<1>3. n = (n \div WordSize) * WordSize + (n % WordSize)
  BY <1>1, DivMod
<1> QED BY <1>2, <1>3 DEF High, Low

\* What MPY and DIV leave in two registers, in every program and wherever the workspace is,
\* the two ends of the scratchpad included: the whole product, or the quotient and remainder
\* of the two-word dividend, unless the quotient has no place, and then the overflow bit.
THEOREM ProductsAndQuotientsAreWhole == Spec => ProductsAndQuotients
<1> DEFINE Product ==
             cpu'.stop = "no" =>
               \E o \in One : PairInMemory(cpu', I.d) = Reg(o.cpu, I.d) * ReadWord(o.cpu, o.at)
           Division ==
             \E o \in One :
               LET s == ReadWord(o.cpu, o.at)
                   q == ReadWord(cpu', RegAddr(cpu', I.d))
                   r == ReadWord(cpu', RegAddr(cpu', I.d + 1))
               IN /\ cpu'.st.over <=> Pair(o.cpu, I.d) >= s * WordSize
                  /\ cpu'.st.over => cpu'.ram = o.cpu.ram
                  /\ ~cpu'.st.over /\ cpu'.stop = "no"
                       => q * s + r = Pair(o.cpu, I.d) /\ r < s
           A == /\ Is({"MPY"}) /\ cpu'.stop = "no" =>
                     \E o \in One :
                       PairInMemory(cpu', I.d) = Reg(o.cpu, I.d) * ReadWord(o.cpu, o.at)
                /\ Is({"DIV"}) => Division
<1>1. ASSUME CpuInv, Next, Is({"MPY"}) \/ Is({"DIV"})
      PROVE  (I.op = "MPY" => Product) /\ (I.op = "DIV" => Division)
  <2>1. I \in Decoded /\ I.op \in {"MPY", "DIV"} /\ cpu \in Machine /\ I.d \in 0..15
    BY <1>1, Facts DEF Decoded
  <2>2. MultiplyDivide
    BY <1>1, <2>1 DEF Next, Is, Fetch, Stopped, Move, Arithmetic, Logic, Compare, Immediate, Single,
       Bits, Shift, Jump, Branch, Blwp, Rtwp, Execute, LoadPointer, StoreStatus,
       Unimplemented, SingleBit, LoadCru, StoreCru, Jumps
  <2> DEFINE pair(c, x, y) == StoreWord(StoreWord(c, RegAddr(c, I.d), x), RegAddr(c, I.d + 1), y)
  <2>3. PICK o \in One :
     LET s == ReadWord(o.cpu, o.at)
         d == Reg(o.cpu, I.d)
         low == Reg(o.cpu, I.d + 1)
         c == IF I.op = "MPY" THEN pair(o.cpu, High(d * s, WordSize), Low(d * s, WordSize))
              ELSE IF Divides(s, d)
              THEN pair([o.cpu EXCEPT !.st.over = FALSE],
                        Quotient(s, d, low, WordSize), Remainder(s, d, low, WordSize))
              ELSE [o.cpu EXCEPT !.st.over = TRUE]
     IN Retire(Advance(c, 1))
    BY <2>2 DEF MultiplyDivide
  <2> DEFINE s == ReadWord(o.cpu, o.at)
             d == Reg(o.cpu, I.d)
             low == Reg(o.cpu, I.d + 1)
  <2>4. o.cpu \in Machine /\ o.at \in Word
    BY <2>1, OneFits
  <2>5. s \in Word /\ d \in Word /\ low \in Word
    <3>1. I.d \in 0..16 /\ I.d + 1 \in 0..16
      BY <2>1
    <3> QED BY <2>4, <3>1, ReadsFit
  <2>6. \A c \in Machine, x, y \in Word :
          LET e == pair(c, x, y)
          IN /\ e \in Machine /\ e.st = c.st
             /\ e.stop = "no" => /\ ReadWord(e, RegAddr(e, I.d)) = x
                                 /\ ReadWord(e, RegAddr(e, I.d + 1)) = y
    <3> TAKE c \in Machine, x \in Word, y \in Word
    <3>1. PICK b : b = StoreWord(c, RegAddr(c, I.d), x)
      OBVIOUS
    <3>2. RegAddr(c, I.d) \in Word /\ RegAddr(c, I.d + 1) \in Word
      <4>1. I.d \in 0..16 /\ I.d + 1 \in 0..16
        BY <2>1
      <4> QED BY <4>1, ReadsFit
    <3>3. b \in Machine /\ b.st = c.st
      BY <3>1, <3>2, StoresFit
    <3>4. PICK e : e = pair(c, x, y)
      OBVIOUS
    <3>5. e = StoreWord(b, RegAddr(c, I.d + 1), y)
      BY <3>1, <3>4
    <3>6. e \in Machine /\ e.st = c.st
      BY <3>2, <3>3, <3>5, StoresFit
    <3>7. e.stop = "no" => /\ ReadWord(e, RegAddr(e, I.d)) = x
                           /\ ReadWord(e, RegAddr(e, I.d + 1)) = y
      BY <2>1, <3>4, PairReadsBack
    <3> QED BY <3>4, <3>6, <3>7
  <2> HIDE DEF pair
  <2>7. ASSUME I.op = "MPY" PROVE Product
    <3> DEFINE hi == High(d * s, WordSize)
               lo == Low(d * s, WordSize)
    <3>1. hi \in Word /\ lo \in Word /\ hi * WordSize + lo = d * s
      BY <2>5, ProductsFit, WholeProduct
    <3>2. cpu' = Advance(pair(o.cpu, hi, lo), 1)
      BY <2>3, <2>7 DEF Retire
    <3> HIDE DEF hi, lo, s, d
    <3>3. PICK e : e = pair(o.cpu, hi, lo)
      OBVIOUS
    <3>4. /\ e \in Machine
          /\ e.stop = "no" => /\ ReadWord(e, RegAddr(e, I.d)) = hi
                              /\ ReadWord(e, RegAddr(e, I.d + 1)) = lo
      BY <2>4, <2>6, <3>1, <3>3
    <3>5. /\ cpu'.stop = e.stop
          /\ \A a : ReadWord(cpu', a) = ReadWord(e, a)
          /\ \A x : RegAddr(cpu', x) = RegAddr(e, x)
      BY <3>2, <3>3, <3>4, OnlyPcMoves
    <3>6. cpu'.stop = "no" => PairInMemory(cpu', I.d) = d * s
      BY <3>1, <3>4, <3>5 DEF PairInMemory
    <3> QED BY <3>6 DEF d, s
  <2>8. ASSUME I.op = "DIV" PROVE Division
    <3> DEFINE q == Quotient(s, d, low, WordSize)
               r == Remainder(s, d, low, WordSize)
               f == [o.cpu EXCEPT !.st.over = FALSE]
               t == [o.cpu EXCEPT !.st.over = TRUE]
    <3>1. cpu' = Advance(IF Divides(s, d) THEN pair(f, q, r) ELSE t, 1)
      BY <2>3, <2>8 DEF Retire
    <3>2. /\ Divides(s, d) <=> ~(Pair(o.cpu, I.d) >= s * WordSize)
          /\ Divides(s, d) => /\ q \in Word /\ r \in Word
                              /\ q * s + r = Pair(o.cpu, I.d) /\ r < s
      BY <2>5, ProductsFit, DividesRight DEF Pair
    <3>3. /\ f \in Machine /\ f.st.over = FALSE
          /\ t \in Machine /\ t.st.over = TRUE /\ t.ram = o.cpu.ram
      BY <2>4 DEF Machine, Status, StatusOf
    <3> HIDE DEF q, r, f, t, s, d
    <3>4. CASE Divides(s, d)
      <4>1. PICK e : e = pair(f, q, r)
        OBVIOUS
      <4>2. /\ e \in Machine /\ e.st = f.st
            /\ e.stop = "no" => /\ ReadWord(e, RegAddr(e, I.d)) = q
                                /\ ReadWord(e, RegAddr(e, I.d + 1)) = r
        BY <2>6, <3>2, <3>3, <3>4, <4>1
      <4>3. cpu' = Advance(e, 1)
        BY <3>1, <3>4, <4>1
      <4>4. /\ cpu'.stop = e.stop
            /\ \A a : ReadWord(cpu', a) = ReadWord(e, a)
            /\ \A x : RegAddr(cpu', x) = RegAddr(e, x)
        BY <4>2, <4>3, OnlyPcMoves
      <4>5. cpu'.st = e.st
        BY <4>2, <4>3, FieldsFit
      <4>6. ~cpu'.st.over
        BY <3>3, <4>2, <4>5
      <4>7. cpu'.stop = "no" => /\ ReadWord(cpu', RegAddr(cpu', I.d)) = q
                                /\ ReadWord(cpu', RegAddr(cpu', I.d + 1)) = r
        BY <4>2, <4>4
      <4> QED BY <3>2, <3>4, <4>6, <4>7 DEF s
    <3>5. CASE ~Divides(s, d)
      <4>1. cpu' = Advance(t, 1)
        BY <3>1, <3>5
      <4>2. cpu'.st = t.st /\ cpu'.ram = t.ram
        BY <3>3, <4>1, FieldsFit, OnlyPcMoves
      <4>3. cpu'.st.over /\ cpu'.ram = o.cpu.ram
        BY <3>3, <4>2
      <4> QED BY <3>2, <3>5, <4>3 DEF s
    <3> QED BY <3>4, <3>5
  <2> QED BY <2>7, <2>8
<1>2. \A op : Is({op}) => I.op = op
  BY DEF Is
<1>3. CpuInv /\ Next => A
  BY <1>1, <1>2
<1>4. CpuInv /\ [Next]_cpuVars => [A]_cpuVars
  BY <1>3
<1> QED BY <1>4, CpuInvariant, PTL DEF Spec, ProductsAndQuotients

-----------------------------------------------------------------------------
(* Boundaries: what holds of every instruction on its own, and of every branch as the program *)
(* runs, adds up to a program counter that is never on an operand.                            *)

\* Between instructions the program counter is at one, and the instruction being executed
\* leads to one, also where it was X that named it.
BoundaryInv ==
  /\ OnBoundary
  /\ insn # None /\ cpu.stop = "no" => insn \in DOMAIN Decode /\ Leads(Decode[insn], cpu.pc)

LEMMA FetchesOnBoundary ==
  ASSUME WellFormed, CpuInv, BoundaryInv, Fetch
  PROVE  BoundaryInv'
<1>1. insn = None /\ cpu.stop = "no" /\ cpu' = cpu /\ insn' = ReadWord(cpu, (2 * cpu.pc) % WordSize)
  BY DEF Fetch
<1>2. PICK p \in Starts : p = cpu.pc
  BY <1>1 DEF BoundaryInv, OnBoundary
<1>3. /\ p \in Nat /\ 2 * p < RomSize /\ 2 * p < WordSize /\ ~InPad(2 * p)
      /\ LET w == Rom[2 * p] * ByteSize + Rom[2 * p + 1]
         IN w \in DOMAIN Decode /\ Leads(Decode[w], p)
  BY DEF WellFormed
<1>4. (2 * p) % WordSize = 2 * p
  <2>1. p \in Nat /\ 2 * p < WordSize /\ WordSize \in Nat \ {0}
    BY <1>3, Widths
  <2> QED BY <2>1
<1>5. insn' = Rom[2 * p] * ByteSize + Rom[2 * p + 1]
  BY <1>1, <1>2, <1>3, <1>4 DEF ReadWord
<1>6. insn' # None
  <2>1. (2 * p) % WordSize \in Word
    BY <1>3, Widths
  <2>2. insn' \in Word
    BY <1>1, <1>2, <2>1, Facts, ReadsFit
  <2> QED BY <2>2, BeginAssumption
<1> QED BY <1>1, <1>2, <1>3, <1>5, <1>6 DEF BoundaryInv, OnBoundary

\* All actions but these two retire the instruction.
LEMMA Retires ==
  ASSUME Next, ~Fetch, ~Execute
  PROVE  insn' = None
<1>1. \A c : Retire(c) => insn' = None
  BY DEF Retire
<1>2. \A o, r, st : Result(o, r, st) => insn' = None
  BY <1>1 DEF Result
<1>3. CASE Move \/ Arithmetic \/ Logic \/ Stopped
  BY <1>2, <1>3 DEF Move, Arithmetic, Logic, Stopped, cpuVars
<1>4. CASE Compare
  BY <1>4 DEF Compare
<1>5. CASE Immediate \/ Single
  BY <1>1, <1>5 DEF Immediate, Single
<1>6. CASE MultiplyDivide \/ Bits
  BY <1>1, <1>6 DEF MultiplyDivide, Bits
<1>7. CASE Shift \/ Jump \/ Unimplemented
  BY <1>1, <1>7 DEF Shift, Jump, Unimplemented
<1>8. CASE Branch \/ Blwp \/ Rtwp
  BY <1>1, <1>8 DEF Branch, Blwp, Rtwp
<1>9. CASE LoadPointer \/ StoreStatus \/ SingleBit
  BY <1>1, <1>9 DEF LoadPointer, StoreStatus, SingleBit
<1>10. CASE LoadCru
  BY <1>1, <1>10 DEF LoadCru
<1>11. CASE StoreCru
  BY <1>1, <1>11 DEF StoreCru
<1> QED BY <1>3, <1>4, <1>5, <1>6, <1>7, <1>8, <1>9, <1>10, <1>11 DEF Next

LEMMA JumpsOnBoundary ==
  ASSUME CpuInv, BoundaryInv, Jump, cpu'.stop = "no"
  PROVE  cpu'.pc \in Starts
<1>1. I \in Decoded /\ I.op \in Jumps /\ cpu \in Machine /\ insn # None
  BY Facts DEF Jump, Is
<1>2. I.disp \in Int /\ cpu.pc \in Int
  <2>1. cpu.pc \in Word
    BY <1>1 DEF Machine
  <2> QED BY <1>1, <2>1, Widths DEF Decoded, Word
<1> DEFINE n == 1 + (IF Taken(I.op, cpu.st) THEN I.disp ELSE 0)
<1>3. n \in Int /\ cpu' = Advance(cpu, n)
  BY <1>2 DEF Jump, Retire
<1>4. Taken(I.op, cpu.st) => n = 1 + I.disp
  OBVIOUS
<1>5. ~Taken(I.op, cpu.st) => n = 1
  OBVIOUS
<1> HIDE DEF n
<1>6. cpu'.pc = (cpu.pc + n) % WordSize /\ cpu'.stop = cpu.stop
  BY <1>1, <1>3, PcSteps, OnlyPcMoves
<1>7. Leads(I, cpu.pc)
  BY <1>1, <1>6 DEF BoundaryInv, I
<1>8. CASE Taken(I.op, cpu.st)
  <2>1. cpu.pc + n = cpu.pc + 1 + I.disp
    BY <1>2, <1>4, <1>8
  <2> QED BY <1>1, <1>6, <1>7, <2>1 DEF Leads
<1>9. CASE ~Taken(I.op, cpu.st)
  <2>1. I.op # "JMP"
    BY <1>9 DEF Taken
  <2> QED BY <1>1, <1>5, <1>6, <1>7, <1>9, <2>1 DEF Leads
<1> QED BY <1>8, <1>9

\* The addresses that BranchesLand speaks of, in one step.
Lands ==
  cpu'.stop = "no" =>
    /\ Is(Branches) => cpu'.pc \in Starts
    /\ Is({"X"}) => insn' \in DOMAIN Decode /\ Leads(Decode[insn'], cpu'.pc)

LEMMA StaysOnBoundary ==
  ASSUME WellFormed, CpuInv, BoundaryInv, Next, Lands
  PROVE  BoundaryInv'
<1>1. CASE Fetch
  BY <1>1, FetchesOnBoundary
<1>2. CASE Execute
  <2>1. Is({"X"})
    BY <1>2 DEF Execute
  <2>2. insn' # None
    <3>1. cpu \in Machine /\ I \in Decoded
      BY <1>2, Facts DEF Execute
    <3>2. PICK o \in One : insn' = ReadWord(o.cpu, o.at)
      BY <1>2 DEF Execute
    <3>3. o.cpu \in Machine /\ o.at \in Word
      BY <3>1, OneFits
    <3>4. insn' \in Word
      BY <3>2, <3>3, ReadsFit
    <3> QED BY <3>4, BeginAssumption
  <2> QED BY <1>2, <2>1, <2>2 DEF Lands, BoundaryInv, OnBoundary
<1>3. ASSUME ~Fetch, ~Execute, cpu'.stop = "no" => cpu'.pc \in Starts
      PROVE  BoundaryInv'
  BY <1>3, Retires DEF BoundaryInv, OnBoundary
<1>4. CASE Branch \/ Blwp \/ Rtwp
  <2>1. Is(Branches) /\ ~Fetch /\ ~Execute
    BY <1>4 DEF Branch, Blwp, Rtwp, Fetch, Execute, Is, Branches
  <2> QED BY <1>3, <2>1 DEF Lands
<1>5. CASE Jump
  <2>1. ~Fetch /\ ~Execute
    BY <1>5 DEF Jump, Fetch, Execute, Is, Jumps
  <2> QED BY <1>3, <1>5, <2>1, JumpsOnBoundary
<1>6. CASE Unimplemented
  <2>1. I.op \in Caseless /\ insn # None /\ ~Fetch /\ ~Execute /\ cpu' = cpu
    BY <1>6 DEF Unimplemented, Fetch, Execute, Is, Caseless, Retire
  <2>2. cpu.stop = "no" => cpu.pc \in Starts
    BY <2>1 DEF BoundaryInv, Leads, I
  <2> QED BY <1>3, <2>1, <2>2
<1>7. CASE Stopped
  BY <1>7 DEF Stopped, cpuVars, BoundaryInv, OnBoundary
<1>8. CASE ~(Fetch \/ Stopped \/ Execute \/ Branch \/ Blwp \/ Rtwp \/ Jump \/ Unimplemented)
  <2>1. Is(Sequential)
    BY <1>8 DEF Next, Move, Arithmetic, Logic, Compare, Immediate, Single, MultiplyDivide, Bits,
       Shift, LoadPointer, StoreStatus, SingleBit, LoadCru, StoreCru, Is,
       Sequential, TwoOperands, OneOperand, WithImmediate, OneWord
  <2>2. cpu'.pc = (cpu.pc + Words(I)) % WordSize /\ (cpu'.stop = "no" => cpu.stop = "no")
    BY <2>1, SequentialTakes DEF Took, GoesOn
  <2>3. cpu.stop = "no" => (cpu.pc + Words(I)) % WordSize \in Starts
    BY <2>1 DEF BoundaryInv, Leads, Is, I, Sequential
  <2> QED BY <1>3, <1>8, <2>2, <2>3
<1> QED BY <1>1, <1>2, <1>4, <1>5, <1>6, <1>7, <1>8

\* Of a program each of whose words the ROM holds leads to an instruction, as WellFormed says
\* and can be read off the ROM, the branches are all there is to check as it runs: if they
\* land, no operand is ever fetched as an instruction, whatever the addressing modes, the
\* jumps, the calls and the instructions executed by X.
THEOREM ProgramsStayOnBoundary ==
  ASSUME WellFormed
  PROVE  Spec /\ BranchesLand => []OnBoundary
<1>1. Init => BoundaryInv
  BY DEF Init, WellFormed, BoundaryInv, OnBoundary
<1>2. CpuInv /\ BoundaryInv /\ [Next]_cpuVars /\ [Lands]_cpuVars => BoundaryInv'
  <2>1. CASE UNCHANGED cpuVars
    BY <2>1 DEF BoundaryInv, OnBoundary, cpuVars
  <2> QED BY <2>1, StaysOnBoundary
<1>3. BoundaryInv => OnBoundary
  BY DEF BoundaryInv
<1> QED BY <1>1, <1>2, <1>3, CpuInvariant, PTL DEF Spec, BranchesLand, Lands
=============================================================================
