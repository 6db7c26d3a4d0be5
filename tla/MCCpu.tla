--------------------------------- MODULE MCCpu ---------------------------------
(***************************************************************************)
(* Cpu for TLC: bytes of 5 and words of 10 bits, so that the status        *)
(* register has its six flags above a 4-bit mask as in the code, a ROM of  *)
(* 384 bytes, a scratchpad of 128 bytes that answers twice, and nine       *)
(* routines that end in a jump to themselves.                              *)
(***************************************************************************)
EXTENDS Cpu, Bitwise, FiniteSets

CONSTANT Samples  \* the values registers R1 to R4 begin with

\* The operators on words, byte by byte.
AndOf == [a, b \in Byte |-> a & b]
OrOf == [a, b \in Byte |-> a | b]
XorOf == [a, b \in Byte |-> a ^^ b]
ByBytes(f, a, b) == f[a \div ByteSize, b \div ByteSize] * ByteSize + f[a % ByteSize, b % ByteSize]

MCAnd(a, b) == ByBytes(AndOf, a, b)
MCOr(a, b) == ByBytes(OrOf, a, b)
MCXor(a, b) == ByBytes(XorOf, a, b)
MCDevice(a) == 0

Blank == [op |-> "WORD", ts |-> 0, s |-> 0, td |-> 0, d |-> 0, disp |-> 0, n |-> 0]

\* An operand: Content has its value.
W == Blank
One1(op, t, x) == [Blank EXCEPT !.op = op, !.ts = t, !.s = x]
Two(op, t, x, u, y) == [Blank EXCEPT !.op = op, !.ts = t, !.s = x, !.td = u, !.d = y]
Regs(op, x, y) == Two(op, 0, x, 0, y)
Imm(op, y) == [Blank EXCEPT !.op = op, !.d = y]
Go(op, k) == [Blank EXCEPT !.op = op, !.disp = k]
Cnt(op, y, k) == [Blank EXCEPT !.op = op, !.d = y, !.n = k]
Cru(op, x, k) == [Blank EXCEPT !.op = op, !.s = x, !.n = k]

Halt == Go("JMP", -1)

\* R1 R2 := R1 R2 + R3 R4
WideAdd == << Regs("A", 4, 2), Go("JNC", 1), One1("INC", 0, 1), Regs("A", 3, 1), Halt >>

\* R2 R3 := R2 * R1 + R4, and back
DivAt == 5
MulDiv == << Regs("MPY", 1, 2), Regs("A", 4, 3), Go("JNC", 1), One1("INC", 0, 2),
             Regs("DIV", 1, 2), Halt >>

\* R1 <= R2 as numbers without a sign, R3 >= R4 as signed ones
SortAt == 11
Sort == << Regs("C", 1, 2), Go("JLE", 3), Regs("XOR", 1, 2), Regs("XOR", 2, 1),
           Regs("XOR", 1, 2), Regs("C", 4, 3), Go("JGT", 2), Go("JEQ", 5), Go("JLT", 4),
           Regs("MOV", 3, 0), Regs("MOV", 4, 3), Regs("MOV", 0, 4), Halt, Halt >>

\* Calls: a vector, the caller's R1 through R13, a leaf by BL, and X of an
\* instruction with an operand of its own.
CallAt == 25
Call == << One1("BLWP", 2, 0), W, Imm("LI", 10), W,
           One1("X", 0, 10), W, One1("DECT", 0, 1), Halt,
           W, W,
           Imm("AI", 1), W,
           One1("INC", 2, 13), W, One1("BL", 2, 0), W,
           Go("RTWP", 0),
           Two("MOV", 3, 13, 0, 1), One1("DECT", 0, 13), One1("SWPB", 0, 1),
           Imm("CI", 1), W, One1("B", 1, 11) >>

\* Copies four bytes by two kinds of address, comparing them on the way.
CopyAt == 48
Copy == << Imm("LI", 1), W, Imm("LI", 2), W, Imm("LI", 3), W,
           Two("CB", 1, 1, 1, 2), Go("JEQ", 4), Two("MOVB", 3, 1, 3, 2), One1("DEC", 0, 3),
           Go("JNE", -5), Halt,
           One1("INC", 0, 1), One1("INC", 0, 2), One1("DEC", 0, 3), Go("JNE", -10), Halt >>

\* Changes that undo each other leave R1 alone; bits set and cleared test as such.
UndoAt == 65
Undo == << Cnt("SRC", 1, 3), Cnt("SRC", 1, 7), One1("INV", 0, 1), One1("INV", 0, 1),
           One1("NEG", 0, 1), One1("NEG", 0, 1), One1("SWPB", 0, 1), One1("SWPB", 0, 1),
           Regs("S", 2, 1), Regs("A", 2, 1), Regs("SOC", 3, 4), Regs("COC", 3, 4),
           Go("JNE", 8), Regs("SZC", 3, 4), Regs("CZC", 3, 4), Go("JNE", 5),
           Cnt("SRL", 2, 1), Cnt("SLA", 2, 1), Cnt("SRA", 3, 0), Imm("ANDI", 3), W, Halt, Halt >>

\* The column R1's high byte names is read to R2; the alpha lock is set and tested; the
\* card's side is chosen bit by bit; a workspace, mask and status are loaded and stored.
ScanAt == 88
Scan == << Imm("LI", 12), W, Cru("LDCR", 1, 5), Imm("LI", 12), W, Cru("STCR", 2, 5),
           One1("CLR", 0, 12), Go("SBO", 21), Go("TB", 7), Go("JNE", 8),
           Imm("LI", 12), W, Cru("LDCR", 3, 10),
           Imm("LIMI", 0), W, Imm("STST", 4), Imm("LWPI", 0), W, Imm("STWP", 4),
           Go("IDLE", 0) >>

\* R0 tells how R1 and R2 compare, R1 loses its sign, and bytes of R3 and R4 are worked on.
MixAt == 108
Mix == << One1("SETO", 0, 0), One1("INCT", 0, 0), One1("ABS", 0, 1), Regs("AB", 2, 3),
          Regs("SB", 2, 3), Regs("SOCB", 2, 4), Regs("SZCB", 2, 4), Regs("C", 5, 6),
          Go("JH", 2), Go("JL", 4), Go("JHE", 2), Imm("ORI", 0), W, Halt, Go("SBZ", 21), Go("JOC", 0), Go("JNO", 0), One1("DECT", 0, 0), Halt >>

\* A byte is moved from where R1 points to where R2 does, and two are compared where R3 and R4 do.
PeekAt == 127
Peek == << Two("MOVB", 1, 1, 1, 2), Two("CB", 1, 3, 1, 4), Halt >>

Asm == WideAdd \o MulDiv \o Sort \o Call \o Copy \o Undo \o Scan \o Mix \o Peek

MCStarts == {k - 1 : k \in {j \in 1..Len(Asm) : Asm[j].op # "WORD"}}
CodeOf(k) == 512 + k

\* The k-th word of the ROM: an operand, or the code of an instruction.
Content(k) ==
  CASE k = 26 -> 2 * (CallAt + 8)   [] k = 28 -> CodeOf(CallAt + 10)  [] k = 30 -> 3
    [] k = 33 -> 544                [] k = 34 -> 2 * (CallAt + 12)    [] k = 36 -> 0
    [] k = 38 -> 2                  [] k = 40 -> 2 * (CallAt + 17)    [] k = 46 -> 40
    [] k = 49 -> 578                [] k = 51 -> 584                  [] k = 53 -> 4
    [] k = 85 -> 511                [] k = 89 -> 36                   [] k = 92 -> 6
    [] k = 99 -> 773                [] k = 102 -> 2                   [] k = 105 -> 544
    [] k = 120 -> 2                 [] OTHER -> CodeOf(k)

MCRom == [a \in 0..384 |-> IF a % 2 = 0 THEN Content(a \div 2) \div 32 ELSE Content(a \div 2) % 32]
MCDecode == [w \in {CodeOf(k) : k \in MCStarts} |-> Asm[w - 511]]

ASSUME LayoutAssumption ==
  /\ DivAt = Len(WideAdd) /\ SortAt = DivAt + Len(MulDiv) /\ CallAt = SortAt + Len(Sort)
  /\ CopyAt = CallAt + Len(Call) /\ UndoAt = CopyAt + Len(Copy)
  /\ ScanAt = UndoAt + Len(Undo) /\ MixAt = ScanAt + Len(Scan)
  /\ PeekAt = MixAt + Len(Mix)
  /\ MCStarts = {k \in 0..Len(Asm) - 1 : Content(k) = CodeOf(k)}

\* The routines are such programs as the theorem about OnBoundary speaks of.
ASSUME ProgramAssumption == WellFormed

MCBehind == [i \in 0..33 |-> 0]
MCMatrix == [i \in 0..7 |-> 31 - i]

\* R5 to R8 keep a copy of what R1 to R4 begin with.
Pad(v) ==
  LET word(k) == IF k \in 1..4 THEN v[k] ELSE IF k \in 5..8 THEN v[k - 4]
                 ELSE IF k \in 33..34 THEN v[k - 32] ELSE 0
  IN [a \in 0..127 |-> IF a % 2 = 0 THEN word(a \div 2) \div 32 ELSE word(a \div 2) % 32]

Clear == [lgt |-> FALSE, agt |-> FALSE, eq |-> FALSE, carry |-> FALSE, over |-> FALSE,
          odd |-> FALSE, low |-> 0]

EntryAt == {0, DivAt, SortAt, CallAt, CopyAt, UndoAt, ScanAt, MixAt, PeekAt}

MCBegin ==
  {[pc |-> e, wp |-> 512, st |-> Clear, ram |-> Pad(v), stop |-> "no"] :
     e \in EntryAt, v \in [1..4 -> Samples]}

-----------------------------------------------------------------------------
R(k) == ReadWord(cpu, 512 + 2 * k)
Wide(hi, lo) == hi * WordSize + lo
AtHalt(e, s) == insn = None /\ \E k \in 1..Len(s) : s[k] = Halt /\ cpu.pc = e + k - 1

SumRight ==
  AtHalt(0, WideAdd) =>
    Wide(R(1), R(2)) = (Wide(R(5), R(6)) + Wide(R(7), R(8))) % (WordSize * WordSize)

QuotientRight ==
  AtHalt(DivAt, MulDiv) /\ ~cpu.st.over =>
    Wide(0, R(2)) * R(5) + R(3) = R(6) * R(5) + R(8) /\ R(3) < R(5)

OrderRight ==
  AtHalt(SortAt, Sort) =>
    /\ {R(1), R(2)} = {R(5), R(6)} /\ R(1) <= R(2)
    /\ {R(3), R(4)} = {R(7), R(8)} /\ Signed(R(3), WordSize) >= Signed(R(4), WordSize)

CallRight == AtHalt(CallAt, Call) => R(1) = (R(5) + 2) % WordSize

CopyRight == AtHalt(CopyAt, Copy) => \A a \in 578..581 : ReadByte(cpu, a) = ReadByte(cpu, a + 6)

UndoRight == AtHalt(UndoAt, Undo) => R(1) = R(5) /\ R(4) = BitAnd(R(8), 1023 - R(7))

ScanRight ==
  insn = None /\ cpu.pc = ScanAt + Len(Scan) - 1 =>
    R(2) \div 32 = MCMatrix[R(5) \div 32 % 8] \/ R(5) \div 32 >= 8

MixRight ==
  AtHalt(MixAt, Mix) =>
    /\ R(0) = IF R(5) > R(6) THEN 3 ELSE IF R(5) = R(6) THEN 1 ELSE WordSize - 1
    /\ R(1) = IF Signed(R(5), WordSize) < 0 THEN WordSize - R(5) ELSE R(5)
    /\ R(3) = R(7)
    /\ R(4) = BitAnd(R(8), 1023 - 32 * (R(6) \div 32))

\* Of a move only the source is read, of a comparison both operands; a fetch raises nothing.
PeekRight ==
  insn = None /\ cpu.pc \in {PeekAt + 1, PeekAt + 2} =>
    LET peeked == IF cpu.pc = PeekAt + 1 THEN {R(5)} ELSE {R(5), R(7), R(8)}
    IN cpu.stop = "no" <=> peeked \cap Silent = {}

\* The instructions compose: routines that add and divide numbers of two words, sort by
\* both orders, call and return, copy bytes, undo their own changes, scan the keyboard,
\* compare without a sign and look where no device answers leave what they are for,
\* whatever registers they begin with.
RoutinesCompute ==
  /\ SumRight /\ QuotientRight /\ OrderRight /\ CallRight /\ CopyRight /\ UndoRight
  /\ ScanRight /\ MixRight /\ PeekRight
=============================================================================
