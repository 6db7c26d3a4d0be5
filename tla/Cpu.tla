---------------------------------- MODULE Cpu ----------------------------------
(***************************************************************************)
(* Instruction execution: TMS9900_StepCPU and addressOf (tms9900-core.c)   *)
(* over the console ROM and the scratchpad (tms9900-memory.c).  What comes *)
(* before the fetch of an instruction (interrupts, queued keys, replay) is *)
(* in other modules, as are the devices behind the memory map: here a word *)
(* written to no memory raises the exception flag, as does a byte read     *)
(* where no device answers (external_write, external_read_byte).           *)
(*                                                                         *)
(* Bytes and words have any size; the code's are 8 and 16 bits.  Decoding  *)
(* (the generated table and the fields of the word) is the constant Decode.*)
(***************************************************************************)
EXTENDS Alu, Sequences

CONSTANTS WordBits, ByteBits,  \* 16 and 8
          WordSize, ByteSize,  \* 2^16 and 2^8
          PadLow, PadHigh,     \* the scratchpad answers from PadLow to below PadHigh ...
          PadSize,             \* ... with this many bytes, again and again
          RomSize, Rom,        \* cpu->ROM, and the byte behind it
          Behind,              \* the bytes of struct TMS9900 behind RAM
          Device(_),           \* what a read outside of both returns
          Silent,              \* where no device answers the read of a byte
          Columns, Matrix,     \* keyboard.keys
          CardBase,            \* CRU address of the disk controller card, >1100
          MaskSize,            \* 16: the interrupt mask is ST & 0xf
          Decode,              \* the instruction of every valid word
          Starts,              \* where the program's instructions begin, as written
          Begin,               \* the machines execution may begin with
          None

Word == 0..WordSize - 1
Byte == 0..ByteSize - 1
Low6 == WordSize \div 64  \* ST has six flags above this

ASSUME WidthAssumption ==
  /\ ByteSize \in Nat /\ ByteSize >= 2 /\ ByteSize % 2 = 0
  /\ WordSize \in Nat /\ WordSize = ByteSize * ByteSize
  /\ WordSize % 64 = 0 /\ MaskSize \in Nat \ {0} /\ Low6 % MaskSize = 0
ASSUME PowerAssumption ==
  /\ WordBits \in Nat \ {0} /\ 2^WordBits = WordSize
  /\ \A n \in 0..WordBits : 2^n \in Nat \ {0} /\ 2^n * 2^(WordBits - n) = WordSize
ASSUME BitAssumption ==
  \A m \in {ByteSize, WordSize} : \A x, y \in 0..m - 1 :
    BitAnd(x, y) \in 0..m - 1 /\ BitOr(x, y) \in 0..m - 1 /\ BitXor(x, y) \in 0..m - 1
ASSUME PadAssumption ==
  /\ PadSize \in Nat /\ PadSize >= 6 /\ WordSize % PadSize = 0
  /\ PadLow \in Nat /\ PadHigh \in Nat
ASSUME RomAssumption == RomSize \in Nat /\ Rom \in [0..RomSize -> Byte]
ASSUME BehindAssumption == \A i \in 0..32 : Behind[i] \in Byte
ASSUME DeviceAssumption == \A a \in Word : Device(a) \in Word
ASSUME SilentAssumption == \A a \in Silent : ~(PadLow <= a /\ a < PadHigh) /\ a >= RomSize
ASSUME MatrixAssumption ==
  CardBase \in Nat /\ Columns \in Nat /\ \A k \in Byte : k < Columns => Matrix[k] \in Byte
ASSUME DecodeAssumption ==
  \A w \in DOMAIN Decode :
    Decode[w] \in [op : STRING, ts : 0..3, s : 0..15, td : 0..3, d : 0..15,
                   disp : Int, n : 0..WordBits]

\* The machine as far as an instruction sees it, in the width the code's types give it.
Status == StatusOf(0..Low6 - 1)
Machine == [pc : Word, wp : Word, st : Status, ram : [0..PadSize - 1 -> Byte],
            stop : {"no", "exception", "wild"}]

ASSUME BeginAssumption == Begin \subseteq Machine /\ None \notin Word

VARIABLES cpu,       \* PC (a word address), WP, ST, RAM, and why no more is fetched
          cru,       \* what CRU bits have set: key column, alpha lock, card, disk side
          insn,      \* the word being executed, or None
          compared,  \* history: the comparison the flags stand for, or None
          frames     \* history: the contexts BLWP has saved, the latest first

cpuVars == <<cpu, cru, insn, compared, frames>>

-----------------------------------------------------------------------------
(* Memory *)

InPad(a) == PadLow <= a /\ a < PadHigh

ReadRam(c, i) == IF i < PadSize THEN c.ram[i] ELSE Behind[i - PadSize]

\* A store behind RAM changes other fields of the structure: nothing is said after it.
StoreRam(c, i, b) ==
  IF i < PadSize THEN [c EXCEPT !.ram[i] = b] ELSE [c EXCEPT !.stop = "wild"]

Raise(c) == [c EXCEPT !.stop = IF @ = "no" THEN "exception" ELSE @]

ReadByte(c, a) == IF InPad(a) THEN ReadRam(c, a % PadSize)
                  ELSE IF a < RomSize THEN Rom[a] ELSE Device(a) % ByteSize

\* The machine once the byte at a is read: nobody answering raises the exception.
ByteRead(c, a) == IF a \in Silent THEN Raise(c) ELSE c

ReadWord(c, a) ==
  IF InPad(a) THEN ReadRam(c, a % PadSize) * ByteSize + ReadRam(c, (a % PadSize) + 1)
  ELSE IF a < RomSize THEN Rom[a] * ByteSize + Rom[a + 1] ELSE Device(a)

StoreByte(c, a, b) == IF InPad(a) THEN StoreRam(c, a % PadSize, b) ELSE c

StoreWord(c, a, w) ==
  IF InPad(a)
  THEN StoreRam(StoreRam(c, (a % PadSize) + 1, w % ByteSize), a % PadSize, w \div ByteSize)
  ELSE Raise(c)

\* A workspace register through the memory map, and directly in RAM.
RegAddr(c, x) == (c.wp + 2 * x) % WordSize
WR(c, x) == (c.wp % PadSize) + 2 * x
Reg(c, x) == ReadRam(c, WR(c, x)) * ByteSize + ReadRam(c, WR(c, x) + 1)

Advance(c, n) == [c EXCEPT !.pc = (@ + n) % WordSize]
Following(c) == ReadWord(c, (2 * (c.pc + 1)) % WordSize)

-----------------------------------------------------------------------------
(* addressOf: the operand's address, and the machine after finding it. *)

\* Mutant: an indexed operand's word is not skipped.
AddressOf_NoSkip(c, t, x, size) ==
  LET even(a) == IF size = 2 THEN a - (a % 2) ELSE a
  IN CASE t = 0 -> [at |-> even(RegAddr(c, x)), cpu |-> c]
       [] t = 1 -> [at |-> even(Reg(c, x)), cpu |-> c]
       [] t = 2 -> [at |-> even((Following(c) + (IF x = 0 THEN 0 ELSE Reg(c, x))) % WordSize),
                    cpu |-> IF x = 0 THEN Advance(c, 1) ELSE c]
       [] t = 3 -> [at |-> Reg(c, x), cpu |-> StoreWord(c, RegAddr(c, x), (Reg(c, x) + size) % WordSize)]

AddressOf(c, t, x, size) ==
  LET even(a) == IF size = 2 THEN a - (a % 2) ELSE a
  IN CASE t = 0 -> [at |-> even(RegAddr(c, x)), cpu |-> c]
       [] t = 1 -> [at |-> even(Reg(c, x)), cpu |-> c]
       [] t = 2 -> [at |-> even((Following(c) + (IF x = 0 THEN 0 ELSE Reg(c, x))) % WordSize),
                    cpu |-> Advance(c, 1)]
       [] t = 3 -> [at |-> Reg(c, x),
                    cpu |-> StoreWord(c, RegAddr(c, x), (Reg(c, x) + size) % WordSize)]

ByteOps == {"MOVB", "AB", "SB", "CB", "SOCB", "SZCB"}
Size(op) == IF op \in ByteOps THEN 1 ELSE 2
Modulus(op) == IF op \in ByteOps THEN ByteSize ELSE WordSize
Read(c, a, op) == IF op \in ByteOps THEN ReadByte(c, a) ELSE ReadWord(c, a)
Store(c, a, v, op) == IF op \in ByteOps THEN StoreByte(c, a, v) ELSE StoreWord(c, a, v)

\* The machine once a two-address instruction has read from s and d: MOVB reads s only.
OperandsRead(c, op, s, d) ==
  IF op \notin ByteOps THEN c
  ELSE IF op = "MOVB" THEN ByteRead(c, s) ELSE ByteRead(ByteRead(c, s), d)

\* Both operands of a two-address instruction, as the one member of a set: the source is
\* located first.
Operands(i) ==
  UNION {{[cpu |-> OperandsRead(dst.cpu, i.op, src.at, dst.at), at |-> dst.at,
           s |-> Read(dst.cpu, src.at, i.op), d |-> Read(dst.cpu, dst.at, i.op)] :
             dst \in {AddressOf(src.cpu, i.td, i.d, Size(i.op))}} :
               src \in {AddressOf(cpu, i.ts, i.s, Size(i.op))}}

-----------------------------------------------------------------------------
(* Steps.  StepCPU fetches a word and executes it; X goes back to decoding. *)

Fetch ==
  /\ insn = None
  /\ cpu.stop = "no"
  /\ insn' = ReadWord(cpu, (2 * cpu.pc) % WordSize)
  /\ UNCHANGED <<cpu, cru, compared, frames>>

\* After an exception StepCPU returns at once, for the debugger to attach; of a machine
\* that wrote over itself nothing is said.
Stopped ==
  /\ insn = None
  /\ cpu.stop # "no"
  /\ UNCHANGED cpuVars

I == Decode[insn]
Is(ops) == insn # None /\ insn \in DOMAIN Decode /\ I.op \in ops

SameOrder(a, b) == a.lgt = b.lgt /\ a.agt = b.agt /\ a.eq = b.eq

\* The instruction leaves the machine c.
Retire(c) ==
  /\ cpu' = c
  /\ insn' = None
  /\ compared' = IF SameOrder(cpu'.st, cpu.st) THEN compared ELSE None

\* The result r goes to the destination, and the status with it.
Result(o, r, st) ==
  LET marked == IF I.op \in ByteOps THEN SetParity(st, r) ELSE st
  IN /\ Retire(Advance([Store(o.cpu, o.at, r, I.op) EXCEPT !.st = marked], 1))
     /\ UNCHANGED <<cru, frames>>

Move ==
  /\ Is({"MOV", "MOVB"})
  /\ \E o \in Operands(I) : Result(o, o.s, SetLAE(cpu.st, o.s, Modulus(I.op)))

Arithmetic ==
  /\ Is({"A", "AB", "S", "SB"})
  /\ \E o \in Operands(I) :
       LET m == Modulus(I.op)
           r == IF I.op \in {"A", "AB"} THEN Add(o.d, o.s, m) ELSE Subtract(o.d, o.s, m)
       IN Result(o, r, SumStatus(cpu.st, o.d, o.s, r, m))

Logic ==
  /\ Is({"SOC", "SOCB", "SZC", "SZCB"})
  /\ \E o \in Operands(I) :
       LET m == Modulus(I.op)
           r == IF I.op \in {"SOC", "SOCB"} THEN BitOr(o.d, o.s) ELSE BitAnd(o.d, m - 1 - o.s)
       IN Result(o, r, SetLAE(cpu.st, r, m))

\* C and CB compare operands, CI a register with the word that follows.
Compare ==
  /\ Is({"C", "CB", "CI"})
  /\ \E o \in IF I.op = "CI"
              THEN {[cpu |-> Advance(cpu, 1), s |-> ReadWord(cpu, RegAddr(cpu, I.d)),
                     d |-> Following(cpu)]}
              ELSE Operands(I) :
       LET m == Modulus(I.op)
       IN /\ cpu' = Advance([o.cpu EXCEPT !.st = Compared(@, o.s, o.d, m)], 1)
          /\ compared' = [s |-> o.s, d |-> o.d, m |-> m]
  /\ insn' = None
  /\ UNCHANGED <<cru, frames>>

\* LI stores to RAM directly, the others through the memory map.
Immediate ==
  /\ Is({"LI", "ANDI", "ORI", "AI"})
  /\ \E imm \in {Following(cpu)}, w \in {ReadWord(cpu, RegAddr(cpu, I.d))} :
     LET r == CASE I.op = "LI" -> imm           [] I.op = "ANDI" -> BitAnd(w, imm)
                [] I.op = "ORI" -> BitOr(w, imm)   [] I.op = "AI" -> Add(w, imm, WordSize)
         c == IF I.op = "LI"
              THEN StoreRam(StoreRam(cpu, WR(cpu, I.d) + 1, r % ByteSize),
                            WR(cpu, I.d), r \div ByteSize)
              ELSE StoreWord(cpu, RegAddr(cpu, I.d), r)
         st == IF I.op = "AI" THEN SumStatus(cpu.st, w, imm, r, WordSize)
               ELSE SetLAE(cpu.st, r, WordSize)
     IN Retire(Advance([c EXCEPT !.st = st], 2))
  /\ UNCHANGED <<cru, frames>>

\* Likewise one operand.  SWPB locates its word as if it were a byte.
One == {AddressOf(cpu, I.ts, I.s, IF I.op = "SWPB" THEN 1 ELSE 2)}

SingleResult(op, w) ==
  CASE op = "CLR" -> 0                            [] op = "SETO" -> WordSize - 1
    [] op = "INV" -> WordSize - 1 - w             [] op = "NEG" -> Negated(w, WordSize)
    [] op = "ABS" -> Absolute(w, WordSize)        [] op = "INC" -> Add(w, 1, WordSize)
    [] op = "INCT" -> Add(w, 2, WordSize)         [] op = "DEC" -> Subtract(w, 1, WordSize)
    [] op = "DECT" -> Subtract(w, 2, WordSize)
    [] op = "SWPB" -> (w % ByteSize) * ByteSize + (w \div ByteSize)

SingleStatus(op, st, w, r) ==
  CASE op \in {"CLR", "SWPB"} -> st
    [] op = "SETO" -> [st EXCEPT !.lgt = TRUE]
    [] op = "INV" -> SetLAE(st, r, WordSize)
    [] op \in {"NEG", "ABS"} -> SetLAE(CarryOver(st, FALSE, FALSE), r, WordSize)
    [] op = "INC" -> StepStatus(st, w, 1, r, TRUE, WordSize)
    [] op = "INCT" -> StepStatus(st, w, 2, r, TRUE, WordSize)
    [] op = "DEC" -> StepStatus(st, w, 1, r, FALSE, WordSize)
    [] op = "DECT" -> StepStatus(st, w, 2, r, FALSE, WordSize)

Single ==
  /\ Is({"CLR", "SETO", "INV", "NEG", "ABS", "SWPB", "INC", "INCT", "DEC", "DECT"})
  /\ \E o \in One :
     LET w == ReadWord(o.cpu, o.at)
         r == SingleResult(I.op, w)
         c == IF I.op = "ABS" /\ ~Msb(w, WordSize) THEN o.cpu ELSE StoreWord(o.cpu, o.at, r)
     IN Retire(Advance([c EXCEPT !.st = SingleStatus(I.op, @, w, r)], 1))
  /\ UNCHANGED <<cru, frames>>

\* The product, or quotient and remainder, go to the register and the next one.
MultiplyDivide ==
  /\ Is({"MPY", "DIV"})
  /\ \E o \in One :
     LET s == ReadWord(o.cpu, o.at)
         d == Reg(o.cpu, I.d)
         low == Reg(o.cpu, I.d + 1)
         pair(c, x, y) == StoreWord(StoreWord(c, RegAddr(c, I.d), x), RegAddr(c, I.d + 1), y)
         c == IF I.op = "MPY" THEN pair(o.cpu, High(d * s, WordSize), Low(d * s, WordSize))
              ELSE IF Divides(s, d)
              THEN pair([o.cpu EXCEPT !.st.over = FALSE],
                        Quotient(s, d, low, WordSize), Remainder(s, d, low, WordSize))
              ELSE [o.cpu EXCEPT !.st.over = TRUE]
     IN Retire(Advance(c, 1))
  /\ UNCHANGED <<cru, frames>>

\* COC and CZC test bits of a register; XOR changes it.
Bits ==
  /\ Is({"COC", "CZC", "XOR"})
  /\ \E o \in One :
     LET s == ReadWord(o.cpu, o.at)
         d == Reg(o.cpu, I.d)
         mask == IF I.op = "CZC" THEN WordSize - 1 - d ELSE d
         r == BitXor(d, s)
         c == IF I.op = "XOR"
              THEN [StoreWord(o.cpu, RegAddr(o.cpu, I.d), r)
                      EXCEPT !.st = SetLAE(@, r, WordSize)]
              ELSE [o.cpu EXCEPT !.st.eq = BitAnd(s, mask) = s]
     IN Retire(Advance(c, 1))
  /\ UNCHANGED <<cru, frames>>

\* A count of 0 stands for the low bits of R0, and those being 0 for a whole word.
ShiftCount ==
  LET r0 == ReadWord(cpu, cpu.wp) % WordBits
  IN IF I.n # 0 THEN I.n ELSE IF r0 # 0 THEN r0 ELSE WordBits

Shift ==
  /\ Is({"SLA", "SRA", "SRC", "SRL"})
  /\ LET w == ReadWord(cpu, RegAddr(cpu, I.d))
         r == Shifted(I.op, w, ShiftCount, WordBits)
         carry == ShiftCarry(I.op, w, ShiftCount, WordBits)
     IN \E over \in ShiftOverflows(cpu.st, I.op, w, ShiftCount, WordBits) :
          Retire(Advance([StoreWord(cpu, RegAddr(cpu, I.d), r)
                            EXCEPT !.st = SetLAE(CarryOver(@, carry, over), r, WordSize)], 1))
  /\ UNCHANGED <<cru, frames>>

Jump ==
  /\ Is(Jumps)
  /\ Retire(Advance(cpu, 1 + (IF Taken(I.op, cpu.st) THEN I.disp ELSE 0)))
  /\ UNCHANGED <<cru, frames>>

-----------------------------------------------------------------------------
(* Branches and contexts *)

ReturnAddress(c) == (2 * (c.pc + 1)) % WordSize

\* Mutant of Branch: BL keeps the address behind its own word, operand or not.
Branch_KeepsOperand ==
  /\ Is({"B", "BL"})
  /\ \E o \in One :
     LET c == IF I.op = "BL" THEN StoreWord(o.cpu, RegAddr(o.cpu, 11), ReturnAddress(cpu))
              ELSE o.cpu
     IN Retire([c EXCEPT !.pc = o.at \div 2])
  /\ UNCHANGED <<cru, frames>>

\* BL keeps the return address in R11 and finds its target before it does.
Branch ==
  /\ Is({"B", "BL"})
  /\ \E o \in One :
     LET c == IF I.op = "BL" THEN StoreWord(o.cpu, RegAddr(o.cpu, 11), ReturnAddress(o.cpu))
              ELSE o.cpu
     IN Retire([c EXCEPT !.pc = o.at \div 2])
  /\ UNCHANGED <<cru, frames>>

\* R13, R14 and R15 of the workspace of c hold the context wp, pc, st.
Saved(c, wp, pc, st) ==
  StoreWord(StoreWord(StoreWord(c, RegAddr(c, 13), wp), RegAddr(c, 14), pc), RegAddr(c, 15), st)

Flag(b, n) == IF b THEN n ELSE 0

\* The status register as a word, and back.
StWord(st) ==
  st.low + Flag(st.odd, Low6) + Flag(st.over, 2 * Low6) + Flag(st.carry, 4 * Low6)
    + Flag(st.eq, 8 * Low6) + Flag(st.agt, 16 * Low6) + Flag(st.lgt, 32 * Low6)

StOf(w) ==
  LET bit(k) == Odd(w \div (k * Low6))
  IN [lgt |-> bit(32), agt |-> bit(16), eq |-> bit(8), carry |-> bit(4),
      over |-> bit(2), odd |-> bit(1), low |-> w % Low6]

\* Mutant of Blwp: the context is saved after the program counter has moved.
Blwp_SavesNewPc ==
  /\ Is({"BLWP"})
  /\ \E o \in One :
     LET c == [o.cpu EXCEPT !.wp = ReadWord(o.cpu, o.at),
                            !.pc = ReadWord(o.cpu, (o.at + 2) % WordSize) \div 2]
     IN /\ Retire(Saved(c, cpu.wp, ReturnAddress(cpu), StWord(cpu.st)))
        /\ frames' = <<[pc |-> o.cpu.pc + 1, wp |-> cpu.wp, st |-> cpu.st]>> \o frames
  /\ UNCHANGED cru

Blwp ==
  /\ Is({"BLWP"})
  /\ \E o \in One :
     LET c == [o.cpu EXCEPT !.wp = ReadWord(o.cpu, o.at),
                            !.pc = ReadWord(o.cpu, (o.at + 2) % WordSize) \div 2]
     IN /\ Retire(Saved(c, cpu.wp, ReturnAddress(o.cpu), StWord(cpu.st)))
        /\ frames' = <<[pc |-> o.cpu.pc + 1, wp |-> cpu.wp, st |-> cpu.st]>> \o frames
  /\ UNCHANGED cru

Rtwp ==
  /\ Is({"RTWP"})
  /\ Retire([cpu EXCEPT !.st = StOf(ReadWord(cpu, RegAddr(cpu, 15))),
                        !.pc = ReadWord(cpu, RegAddr(cpu, 14)) \div 2,
                        !.wp = ReadWord(cpu, RegAddr(cpu, 13))])
  /\ frames' = IF frames = << >> THEN frames ELSE Tail(frames)
  /\ UNCHANGED cru

\* Mutant of Execute: X goes on from the word behind it.
Execute_Advances ==
  /\ Is({"X"})
  /\ \E o \in One : cpu' = Advance(o.cpu, 1) /\ insn' = ReadWord(o.cpu, o.at)
  /\ UNCHANGED <<cru, compared, frames>>

\* X decodes the word it names in place of its own, in the same call.
Execute ==
  /\ Is({"X"})
  /\ \E o \in One : cpu' = o.cpu /\ insn' = ReadWord(o.cpu, o.at)
  /\ UNCHANGED <<cru, compared, frames>>

LoadPointer ==
  /\ Is({"LWPI", "LIMI"})
  /\ LET imm == Following(cpu)
     IN Retire(Advance(IF I.op = "LWPI" THEN [cpu EXCEPT !.wp = imm]
                       ELSE [cpu EXCEPT !.st.low = @ - (@ % MaskSize) + (imm % MaskSize)], 2))
  /\ UNCHANGED <<cru, frames>>

StoreStatus ==
  /\ Is({"STST", "STWP"})
  /\ Retire(Advance(StoreWord(cpu, RegAddr(cpu, I.d),
                              IF I.op = "STST" THEN StWord(cpu.st) ELSE cpu.wp), 1))
  /\ UNCHANGED <<cru, frames>>

\* XOP, JOP, IDLE and the like have no case: the program counter stays.
Unimplemented ==
  /\ Is({"XOP", "JOP", "IDLE", "RSET", "CKOF", "CKON", "LREX"})
  /\ Retire(cpu)
  /\ UNCHANGED <<cru, frames>>

-----------------------------------------------------------------------------
(* The CRU.  Bit 2, the interrupt line of the VDP, is the module Interrupts. *)

\* fdc_cru_writebit keeps the side; the card's own bit switches its ROM in.
DiskBit(r, a, v) == IF a = CardBase + 7 THEN [r EXCEPT !.side = v] ELSE r

WriteBit(r, a, v) ==
  IF a = 21 THEN [r EXCEPT !.alpha = v]
  ELSE IF a = CardBase THEN [r EXCEPT !.card = v]
  ELSE IF CardBase < a /\ a <= CardBase + 16 THEN DiskBit(r, a, v) ELSE r

BitValues(r, a) == IF a = 2 THEN {0, 1} ELSE IF a = 7 THEN {r.alpha} ELSE {0}

Register12 == ReadWord(cpu, RegAddr(cpu, 12))

SingleBit ==
  /\ Is({"SBO", "SBZ", "TB"})
  /\ LET a == (Register12 + I.disp) % WordSize
     IN IF I.op = "TB"
        THEN /\ \E v \in BitValues(cru, a) : Retire(Advance([cpu EXCEPT !.st.eq = v = 1], 1))
             /\ UNCHANGED cru
        ELSE /\ Retire(Advance(cpu, 1))
             /\ cru' = WriteBit(cru, a, IF I.op = "SBO" THEN 1 ELSE 0)
  /\ UNCHANGED frames

\* Transfers of up to a byte's bits have a byte for an operand, which both of them read.
Bytewise == I.n <= ByteBits
CruOperand ==
  IF Bytewise
  THEN {[o EXCEPT !.cpu = ByteRead(@, o.at)] : o \in {AddressOf(cpu, I.ts, I.s, 1)}}
  ELSE {AddressOf(cpu, I.ts, I.s, 2)}

\* The high byte of what is written selects a column of the keyboard, unmasked.
LoadCru ==
  /\ Is({"LDCR"})
  /\ \E o \in CruOperand :
     \E base \in {ReadWord(o.cpu, RegAddr(o.cpu, 12))},
        source \in {IF Bytewise THEN ReadByte(o.cpu, o.at) * ByteSize ELSE ReadWord(o.cpu, o.at)} :
     LET disk == CardBase < base /\ base < CardBase + 16
         k == CardBase + 7 - base
         rest == IF disk THEN source \div 2^I.n ELSE source
         st == SetLAE(cpu.st, rest, WordSize)
     IN /\ cru' = IF base = 36 THEN [cru EXCEPT !.column = source \div ByteSize]
                  ELSE IF disk /\ 0 <= k /\ k < I.n
                  THEN DiskBit(cru, CardBase + 7, (source \div 2^k) % 2) ELSE cru
        /\ Retire(Advance([o.cpu EXCEPT !.st = IF Bytewise /\ I.n > 0 /\ ~disk
                                               THEN SetParity(st, rest) ELSE st], 1))
  /\ UNCHANGED frames

\* Reads at base 6 return the selected column of the matrix, others nothing; a
\* column the matrix does not have reads what follows it.
StoreCru ==
  /\ Is({"STCR"})
  /\ \E o \in CruOperand :
     LET rows == IF Register12 # 6 THEN {0}
                 ELSE IF cru.column < Columns THEN {Matrix[cru.column]} ELSE Byte
     IN \E row \in rows :
          LET v == row % 2^I.n
          IN IF Bytewise
             THEN Retire(Advance([StoreByte(o.cpu, o.at, v)
                                    EXCEPT !.st = SetLAE(@, v, WordSize)], 1))
             ELSE Retire(Advance([StoreWord(o.cpu, o.at, (ByteSize - 1) * ByteSize)
                                    EXCEPT !.st = SetLAE(@, ByteSize - 1, WordSize)], 1))
  /\ UNCHANGED <<cru, frames>>

-----------------------------------------------------------------------------
Init ==
  /\ cpu \in Begin
  /\ cru = [column |-> 0, alpha |-> 0, card |-> 0, side |-> 0]
  /\ insn = None
  /\ compared = None
  /\ frames = << >>

Next ==
  \/ Fetch \/ Stopped \/ Move \/ Arithmetic \/ Logic \/ Compare \/ Immediate \/ Single
  \/ MultiplyDivide \/ Bits \/ Shift \/ Jump \/ Branch \/ Blwp \/ Rtwp \/ Execute
  \/ LoadPointer \/ StoreStatus \/ Unimplemented \/ SingleBit \/ LoadCru \/ StoreCru

\* The thread that executes instructions goes on executing them.
Spec == Init /\ [][Next]_cpuVars /\ WF_cpuVars(Next)

-----------------------------------------------------------------------------
(* Properties *)

Comparison ==
  {p \in [s : Word, d : Word, m : {ByteSize, WordSize}] : p.s < p.m /\ p.d < p.m}

\* Registers, memory and status keep the width the code's types give them.
CpuTypeOK ==
  /\ cpu \in Machine
  /\ insn \in Word \cup {None}
  /\ compared \in Comparison \cup {None}

\* A conditional jump after C, CB or CI is taken exactly if the two numbers compared
\* are in the relation the jump is named for, unsigned or signed, however many
\* instructions that leave the flags alone, calls and returns included, lie between.
JumpsFollowComparison ==
  compared # None =>
    \A j \in Jumps \ {"JMP", "JOC", "JNC", "JNO"} :
      Taken(j, cpu.st) <=> Relation(j, compared.s, compared.d, compared.m)

\* Only words the program means as instructions are fetched: whatever the addressing
\* modes, the branches and the returns, the program counter skips every operand.
OnBoundary == insn = None /\ cpu.stop = "no" => cpu.pc \in Starts

TwoOperands == {"A", "AB", "S", "SB", "C", "CB", "MOV", "MOVB", "SOC", "SOCB", "SZC", "SZCB"}
OneOperand == {"CLR", "SETO", "INV", "NEG", "ABS", "SWPB", "INC", "INCT", "DEC", "DECT",
               "MPY", "DIV", "COC", "CZC", "XOR", "X", "LDCR", "STCR"}
WithImmediate == {"LI", "ANDI", "ORI", "AI", "CI", "LWPI", "LIMI"}
OneWord == {"SLA", "SRA", "SRC", "SRL", "STST", "STWP", "SBO", "SBZ", "TB"}

\* An instruction's words: its own, one for each indexed operand, one for an immediate.
Words(i) ==
  LET indexed(t) == IF t = 2 THEN 1 ELSE 0
  IN CASE i.op \in TwoOperands -> 1 + indexed(i.ts) + indexed(i.td)
       [] i.op \in OneOperand -> 1 + indexed(i.ts)
       [] i.op \in WithImmediate -> 2
       [] i.op \in OneWord -> 1

\* Whatever its operands and wherever it is executed from, an instruction that does not
\* branch takes exactly its own words; X takes those of its operand, and leaves the rest
\* to the instruction it executes.
TakesItsWords ==
  [][/\ Is((TwoOperands \cup OneOperand \cup WithImmediate \cup OneWord) \ {"X"})
          => cpu'.pc = (cpu.pc + Words(I)) % WordSize
     /\ Is({"X"}) => cpu'.pc = (cpu.pc + Words(I) - 1) % WordSize]_cpuVars

\* RTWP finds the context of the BLWP it ends: program counter, workspace and status,
\* over calls in between and whatever the routine did in its own workspace.
ReturnRestores ==
  [][Is({"RTWP"}) /\ frames # << >>
       => LET f == Head(frames)
          IN cpu'.pc = f.pc /\ cpu'.wp = f.wp /\ cpu'.st = f.st]_cpuVars

Branches == {"B", "BL", "BLWP", "RTWP"}
Caseless == {"XOP", "JOP", "IDLE", "RSET", "CKOF", "CKON", "LREX"}

\* Where the instruction i, executed with the program counter at p, goes on is where an
\* instruction begins; of a branch and of X this is for the running program to show.
Leads(i, p) ==
  /\ i.op \in (TwoOperands \cup OneOperand \cup WithImmediate \cup OneWord) \ {"X"}
       => (p + Words(i)) % WordSize \in Starts
  /\ i.op \in Jumps => (p + 1 + i.disp) % WordSize \in Starts
  /\ i.op \in Jumps \ {"JMP"} => (p + 1) % WordSize \in Starts
  /\ i.op \in Caseless => p \in Starts

\* A program in the ROM each of whose instructions is followed, and each of whose jumps is
\* led, to an instruction, and that begins with one.
WellFormed ==
  /\ \A p \in Starts :
       /\ p \in Nat /\ 2 * p < RomSize /\ 2 * p < WordSize /\ ~InPad(2 * p)
       /\ LET w == Rom[2 * p] * ByteSize + Rom[2 * p + 1]
          IN w \in DOMAIN Decode /\ Leads(Decode[w], p)
  /\ \A m \in Begin : m.pc \in Starts

\* The addresses a program computes are those of instructions: a branch, a call or a return
\* that does not end in an exception leads to one, and X executes one that fits its place.
BranchesLand ==
  [][cpu'.stop = "no" =>
       /\ Is(Branches) => cpu'.pc \in Starts
       /\ Is({"X"}) => insn' \in DOMAIN Decode /\ Leads(Decode[insn'], cpu'.pc)]_cpuVars

\* What the flags say of the sum of d and s: that it has a carry, that it is none of the
\* signed numbers, and how it compares with zero.
TellSum(st, d, s, m) ==
  LET r == (d + s) % m
  IN /\ st.carry <=> d + s >= m
     /\ st.over <=> Signed(d, m) + Signed(s, m) \notin -(m \div 2)..(m \div 2) - 1
     /\ st.eq <=> r = 0
     /\ st.lgt <=> r # 0
     /\ st.agt <=> Signed(r, m) > 0

\* Sums of several words are built on the carry, and signed tests on the overflow: after an
\* addition both are those of the numbers, though the code computes them from the result
\* and from sign bits.  (Of INC and INCT the carry only.)
SumsSetFlags ==
  [][/\ Is({"A", "AB"})
          => \E o \in Operands(I) : TellSum(cpu'.st, o.d, o.s, Modulus(I.op))
     /\ Is({"AI"})
          => TellSum(cpu'.st, ReadWord(cpu, RegAddr(cpu, I.d)), Following(cpu), WordSize)
     /\ Is({"INC", "INCT"})
          => \E o \in One : cpu'.st.carry <=>
               ReadWord(o.cpu, o.at) + (IF I.op = "INC" THEN 1 ELSE 2) >= WordSize]_cpuVars

\* A register and the next one, as one number.
Pair(c, x) == Reg(c, x) * WordSize + Reg(c, x + 1)
PairInMemory(c, x) ==
  ReadWord(c, RegAddr(c, x)) * WordSize + ReadWord(c, RegAddr(c, x + 1))

\* MPY leaves the whole product; DIV leaves a quotient and a remainder that make up the
\* dividend, and says by the overflow bit, and by nothing else, that the quotient has no
\* place.  The operands are read from RAM directly and the results written through the
\* memory map, where two neighbouring registers may be the last and the first word.
ProductsAndQuotients ==
  [][/\ Is({"MPY"}) /\ cpu'.stop = "no"
          => \E o \in One : PairInMemory(cpu', I.d) = Reg(o.cpu, I.d) * ReadWord(o.cpu, o.at)
     /\ Is({"DIV"})
          => \E o \in One :
               LET s == ReadWord(o.cpu, o.at)
                   q == ReadWord(cpu', RegAddr(cpu', I.d))
                   r == ReadWord(cpu', RegAddr(cpu', I.d + 1))
               IN /\ cpu'.st.over <=> Pair(o.cpu, I.d) >= s * WordSize
                  /\ cpu'.st.over => cpu'.ram = o.cpu.ram
                  /\ ~cpu'.st.over /\ cpu'.stop = "no"
                       => q * s + r = Pair(o.cpu, I.d) /\ r < s]_cpuVars
=============================================================================
