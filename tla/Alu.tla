---------------------------------- MODULE Alu ----------------------------------
(***************************************************************************)
(* The arithmetic of TMS9900_StepCPU (tms9900-core.c) and the status bits  *)
(* it leaves behind, for numbers below an even modulus m: 65536 for the    *)
(* word instructions of the code and 256 for the byte ones.  A status is a *)
(* record of the bits ST0..ST5 and of the rest of the register (its low    *)
(* bits, the interrupt mask among them).  The C operators &, | and ^ are   *)
(* constants.                                                              *)
(***************************************************************************)
EXTENDS Integers

CONSTANTS BitAnd(_, _), BitOr(_, _), BitXor(_, _)

\* Mutant of Wrap: a sum keeps the bit that has no place.
Wrap_NoCarry(x, m) == IF x < 0 THEN x + m ELSE x

\* The value of an unsigned sum or difference of two numbers below m.
Wrap(x, m) == IF x < 0 THEN x + m ELSE IF x >= m THEN x - m ELSE x

Msb(x, m) == x >= m \div 2

\* The number that the bits of x stand for in two's complement.
Signed(x, m) == IF Msb(x, m) THEN x - m ELSE x

Odd(n) == n % 2 = 1

-----------------------------------------------------------------------------
(* Status bits *)

StatusOf(mask) == [lgt : BOOLEAN, agt : BOOLEAN, eq : BOOLEAN, carry : BOOLEAN,
                   over : BOOLEAN, odd : BOOLEAN, low : mask]

\* setLAE: the result against zero.
SetLAE(st, r, m) ==
  [st EXCEPT !.lgt = r # 0, !.agt = r # 0 /\ ~Msb(r, m), !.eq = r = 0]

CarryOver(st, c, v) == [st EXCEPT !.carry = c, !.over = v]

\* The number of set bits of a byte or a word.
Ones(x) == LET n[k \in 0..x] == IF k = 0 THEN 0 ELSE n[k \div 2] + (k % 2) IN n[x]

SetParity(st, x) == [st EXCEPT !.odd = Odd(Ones(x))]

\* Mutant of Compared: the difference of the operands taken the other way round.
Compared_Swapped(st, s, d, m) ==
  LET below == Msb(s, m) = Msb(d, m) /\ Msb(Wrap(s - d, m), m)
  IN [st EXCEPT !.lgt = (Msb(s, m) /\ ~Msb(d, m)) \/ below,
                !.agt = (~Msb(s, m) /\ Msb(d, m)) \/ below,
                !.eq = s = d]

\* C, CB and CI compare source and destination by their signs and, where these
\* agree, by the sign of the difference.
Compared(st, s, d, m) ==
  LET below == Msb(s, m) = Msb(d, m) /\ Msb(Wrap(d - s, m), m)
  IN [st EXCEPT !.lgt = (Msb(s, m) /\ ~Msb(d, m)) \/ below,
                !.agt = (~Msb(s, m) /\ Msb(d, m)) \/ below,
                !.eq = s = d]

-----------------------------------------------------------------------------
(* Arithmetic.  Each operator gives the result and the status. *)

Add(d, s, m) == Wrap(d + s, m)
Subtract(d, s, m) == Wrap(d - s, m)

\* Mutant of SumStatus: the carry looks at one operand and accepts equality.
SumStatus_CarryAtEqual(st, d, s, r, m) ==
  SetLAE(CarryOver(st, r <= d, Msb(s, m) = Msb(d, m) /\ Msb(r, m) # Msb(d, m)), r, m)

\* A, AB, AI -- and S, SB, which use the same tests on the difference.
SumStatus(st, d, s, r, m) ==
  SetLAE(CarryOver(st, r < d \/ r < s, Msb(s, m) = Msb(d, m) /\ Msb(r, m) # Msb(d, m)), r, m)

\* INC, INCT, DEC and DECT by x: "not sure about these status bits".
StepStatus(st, w, x, r, up, m) ==
  SetLAE(CarryOver(st, IF up THEN w > m - 1 - x ELSE w > x - 1, Msb(w, m) /\ ~Msb(r, m)), r, m)

\* NEG and ABS hold the word in an int16_t: the tests for >8000 and for a sign bit
\* of 1 compare a negative number with a positive one and never succeed.
Negated(w, m) == Wrap(-w, m)
Absolute(w, m) == IF Msb(w, m) THEN Negated(w, m) ELSE w

\* MPY: the two words of the product.
High(p, m) == p \div m
Low(p, m) == p % m

\* DIV goes ahead only if the divisor s exceeds the high word d of the dividend;
\* otherwise it sets the overflow bit and stores nothing.
Divides(s, d) == s > d

\* Mutant of Quotient: the low word of the dividend is forgotten.
Quotient_HighWord(s, d, low, m) == (d * m) \div s

Quotient(s, d, low, m) == (d * m + low) \div s
Remainder(s, d, low, m) == (d * m + low) % s

-----------------------------------------------------------------------------
(* Shifts by c bits, 1 <= c, of a word of "bits" bits. *)

Shifted(op, w, c, bits) ==
  CASE op = "SLA" -> (w * 2^c) % 2^bits
    [] op = "SRL" -> w \div 2^c
    [] op = "SRA" -> (Signed(w, 2^bits) \div 2^c) % 2^bits
    [] op = "SRC" -> (w \div 2^c) + (w % 2^c) * 2^(bits - c)

\* The last bit shifted out.
ShiftCarry(op, w, c, bits) ==
  CASE op = "SLA" -> Odd(w \div 2^(bits - c))
    [] op = "SRA" -> Odd(Signed(w, 2^bits) \div 2^(c - 1))
    [] op \in {"SRL", "SRC"} -> Odd(w \div 2^(c - 1))

\* SLA sets the overflow bit if one of the top c + 1 bits is set (the comparison that
\* would tell sign changes apart is computed first and overwritten).  With c = bits
\* the code shifts by -1: any value.  The other shifts leave the bit alone.
ShiftOverflows(st, op, w, c, bits) ==
  IF op # "SLA" THEN {st.over}
  ELSE IF c = bits THEN BOOLEAN ELSE {w >= 2^(bits - c - 1)}

-----------------------------------------------------------------------------
(* Conditional jumps *)

Jumps == {"JMP", "JOC", "JNC", "JEQ", "JNE", "JNO", "JH", "JHE", "JL", "JLE", "JGT", "JLT"}

Taken(op, st) ==
  CASE op = "JMP" -> TRUE
    [] op = "JOC" -> st.carry             [] op = "JNC" -> ~st.carry
    [] op = "JEQ" -> st.eq                [] op = "JNE" -> ~st.eq
    [] op = "JH"  -> st.lgt /\ ~st.eq     [] op = "JHE" -> st.lgt \/ st.eq
    [] op = "JL"  -> ~st.lgt /\ ~st.eq    [] op = "JLE" -> ~st.lgt \/ st.eq
    [] op = "JGT" -> st.agt               [] op = "JLT" -> ~st.agt /\ ~st.eq
    [] op = "JNO" -> ~st.over

\* What the jumps mean after a comparison of s with d.
Relation(op, s, d, m) ==
  CASE op = "JEQ" -> s = d                [] op = "JNE" -> s # d
    [] op = "JH"  -> s > d                [] op = "JHE" -> s >= d
    [] op = "JL"  -> s < d                [] op = "JLE" -> s <= d
    [] op = "JGT" -> Signed(s, m) > Signed(d, m)
    [] op = "JLT" -> Signed(s, m) < Signed(d, m)
=============================================================================
