--------------------------- MODULE TraceReplayProofs ---------------------------
(***************************************************************************)
(* Theorems about TraceReplay, for every program and session, and however  *)
(* many interrupts and keys come while it is recorded.                     *)
(*                                                                         *)
(* The invariant speaks of the machine a replay of the trace written so    *)
(* far would go through, beside the recorded one.                          *)
(***************************************************************************)
EXTENDS TraceReplay, SequenceTheorems, TLAPS

Pcs == DOMAIN program
Masks == {0, 2}
Bit == {0, 1}
Frames == [pc : Pcs, mask : Masks, eq : BOOLEAN]
Machine == [pc : Pcs, mask : Masks, eq : BOOLEAN, vdp : Bit, key : Bit, frame : Frames]
Record == [type : {"INTERRUPT"}, icount : Nat, pc : Pcs]
            \cup [type : {"KEYBOARD"}, icount : Nat, pc : Pcs, state : Bit]

\* What ReplayEvents makes of machine c and record r.
Applied(c, r) == IF r.type = "INTERRUPT" THEN [Taken(c) EXCEPT !.vdp = 1]
                 ELSE [c EXCEPT !.key = r.state]

\* At icount k a replay makes n of m.
Fed(k, m, n) ==
  \/ n = m /\ \A i \in 1..Len(trace) : trace[i].icount # k
  \/ \E i \in 1..Len(trace) : /\ trace[i].icount = k /\ trace[i].pc = m.pc
                              /\ n = Applied(m, trace[i])

\* A replay of the first n instructions of the session: the machine before[k] when k are
\* executed, and after[k] when it has followed the trace there.
Run(before, after, n) ==
  /\ before[0] = Start
  /\ \A k \in 0..n - 1 : /\ Fed(k, before[k], after[k])
                         /\ Seen(after[k]) = Seen(path[k + 1])
                         /\ before[k + 1] = Executed(after[k])

\* The replay may not yet know of a tick whose interrupt has not been taken.
Lags(c) ==
  /\ c.vdp = cpu.vdp \/ (cpu.vdp = 1 /\ (interrupt = 1 \/ storing # {}))
  /\ storing = {"vdp_int"} /\ interrupt = 0 => c.vdp = 1 /\ cpu.vdp = 1

Alike(c) == Seen(c) = Seen(cpu) /\ Lags(c)

Recording(before, after) ==
  /\ Run(before, after, icount)
  /\ icount \in Nat /\ cpu \in Machine
  /\ path \in Seq(Machine) /\ Len(path) = icount /\ icount <= Length
  /\ queued \in Seq(Bit)
  /\ phase = "events" => /\ Alike(before[icount])
                         /\ \A i \in 1..Len(trace) : trace[i].icount < icount
  /\ phase = "execute" => /\ icount < Length
                          /\ Alike(after[icount]) /\ Fed(icount, before[icount], after[icount])
                          /\ \A i \in 1..Len(trace) : trace[i].icount <= icount

Replaying(before, after) ==
  /\ Run(before, after, Length)
  /\ \A i \in 1..Len(trace) : trace[i].icount < Length
  /\ next \in 1..Len(trace) + 1
  /\ icount \in 0..Length
  /\ phase = "events" =>
       /\ cpu = before[icount]
       /\ \A i \in 1..Len(trace) : IF i < next THEN trace[i].icount < icount
                                   ELSE trace[i].icount >= icount
  /\ phase = "execute" =>
       /\ icount < Length /\ cpu = after[icount]
       /\ \A i \in 1..Len(trace) : IF i < next THEN trace[i].icount <= icount
                                   ELSE trace[i].icount > icount

TraceOK ==
  /\ trace \in Seq(Record)
  /\ \A i, j \in 1..Len(trace) : i < j => trace[i].icount < trace[j].icount

Beside(before, after) ==
  /\ before \in [Nat -> Machine] /\ after \in [Nat -> Machine]
  /\ mode = "record" => Recording(before, after)
  /\ mode = "replay" => Replaying(before, after)

TraceInv ==
  /\ program \in Programs
  /\ mode \in {"record", "replay", "exit"} /\ phase \in {"events", "execute"}
  /\ mode # "record" => storing = {}
  /\ storing \subseteq {"interrupt", "vdp_int"} /\ interrupt \in Bit
  /\ ~unlike => mode # "exit" /\ TraceOK /\ \E before, after : Beside(before, after)

-----------------------------------------------------------------------------
(* Instructions *)

OpOf(c) == program[c.pc].op
Onward(c) == Successor(program, c.pc)
Onward2(c) == Successor(program, Onward(c))

LEMMA PlacesOK ==
  ASSUME program \in Programs, NEW c \in Machine
  PROVE  /\ {0, IntPC} \subseteq Pcs
         /\ OpOf(c) \in {"LIMI0", "LIMI2", "TB", "STCR", "JEQ", "RTWP"}
         /\ OpOf(c) # "RTWP" => Onward(c) \in Pcs
         /\ OpOf(c) = "JEQ" => Onward2(c) \in Pcs
<1>1. c.pc \in DOMAIN program
  BY DEF Machine, Pcs
<1> QED BY <1>1, ProgramsAssumption DEF Pcs, OpOf, Onward, Onward2

LEMMA StartOK ==
  ASSUME program \in Programs
  PROVE  Start \in Machine
<1>1. 0 \in Pcs
  BY ProgramsAssumption DEF Pcs
<1> QED BY <1>1 DEF Start, Machine, Frames, Masks, Bit

\* What an instruction makes of the machine, by its fields.
LEMMA ExecutedIs ==
  ASSUME NEW c \in Machine
  PROVE  /\ OpOf(c) = "LIMI0" => Executed(c) = [c EXCEPT !.pc = Onward(c), !.mask = 0]
         /\ OpOf(c) = "LIMI2" => Executed(c) = [c EXCEPT !.pc = Onward(c), !.mask = 2]
         /\ OpOf(c) = "TB" =>
              Executed(c) = [c EXCEPT !.pc = Onward(c), !.eq = (c.vdp = 0), !.vdp = 0]
         /\ OpOf(c) = "STCR" => Executed(c) = [c EXCEPT !.pc = Onward(c), !.eq = (c.key = 0)]
         /\ OpOf(c) = "JEQ" =>
              Executed(c) = [c EXCEPT !.pc = IF c.eq THEN Onward2(c) ELSE Onward(c)]
         /\ OpOf(c) = "RTWP" => Executed(c) = [c EXCEPT !.pc = c.frame.pc,
                                                 !.mask = c.frame.mask, !.eq = c.frame.eq]
<1>1. /\ OpOf(c) = "LIMI0" => Executed(c) = After([c EXCEPT !.mask = 0])
      /\ OpOf(c) = "LIMI2" => Executed(c) = After([c EXCEPT !.mask = 2])
      /\ OpOf(c) = "TB" => Executed(c) = After([c EXCEPT !.eq = (c.vdp = 0), !.vdp = 0])
      /\ OpOf(c) = "STCR" => Executed(c) = After([c EXCEPT !.eq = (c.key = 0)])
      /\ OpOf(c) = "JEQ" => Executed(c) = IF c.eq THEN After(After(c)) ELSE After(c)
      /\ OpOf(c) = "RTWP" => Executed(c) = [c EXCEPT !.pc = c.frame.pc,
                                              !.mask = c.frame.mask, !.eq = c.frame.eq]
  BY DEF Executed, OpOf
<1>2. \A d : After(d) = [d EXCEPT !.pc = Onward(d)]
  BY DEF After, Onward
<1> DEFINE limi0 == [c EXCEPT !.mask = 0]
           limi2 == [c EXCEPT !.mask = 2]
           tb == [c EXCEPT !.eq = (c.vdp = 0), !.vdp = 0]
           stcr == [c EXCEPT !.eq = (c.key = 0)]
<1>3. Onward(limi0) = Onward(c) /\ Onward(limi2) = Onward(c)
  BY DEF Machine, Onward
<1>4. tb.pc = c.pc /\ stcr.pc = c.pc
  BY DEF Machine
<1>5. Onward(tb) = Onward(c) /\ Onward(stcr) = Onward(c)
  BY <1>4 DEF Onward
<1>6. After(c) = [c EXCEPT !.pc = Onward(c)] /\ Onward(After(c)) = Onward2(c)
  BY <1>2 DEF Machine, Onward, Onward2
<1>7. After(After(c)) = [c EXCEPT !.pc = Onward2(c)]
  BY <1>2, <1>6 DEF Machine
<1>8. After(limi0) = [c EXCEPT !.pc = Onward(c), !.mask = 0]
  BY <1>2, <1>3 DEF Machine
<1>9. After(limi2) = [c EXCEPT !.pc = Onward(c), !.mask = 2]
  BY <1>2, <1>3 DEF Machine
<1>10. After(tb) = [c EXCEPT !.pc = Onward(c), !.eq = (c.vdp = 0), !.vdp = 0]
  BY <1>2, <1>5 DEF Machine
<1>11. After(stcr) = [c EXCEPT !.pc = Onward(c), !.eq = (c.key = 0)]
  BY <1>2, <1>5 DEF Machine
<1> HIDE DEF limi0, limi2, tb, stcr
<1>12. /\ OpOf(c) = "LIMI0" => Executed(c) = After(limi0)
       /\ OpOf(c) = "LIMI2" => Executed(c) = After(limi2)
       /\ OpOf(c) = "TB" => Executed(c) = After(tb)
       /\ OpOf(c) = "STCR" => Executed(c) = After(stcr)
  BY <1>1 DEF limi0, limi2, tb, stcr
<1>13. OpOf(c) = "JEQ" => Executed(c) = [c EXCEPT !.pc = IF c.eq THEN Onward2(c) ELSE Onward(c)]
  BY <1>1, <1>6, <1>7
<1> QED BY <1>1, <1>8, <1>9, <1>10, <1>11, <1>12, <1>13

LEMMA ExecutedOK ==
  ASSUME program \in Programs, NEW c \in Machine
  PROVE  Executed(c) \in Machine
<1> DEFINE e == Executed(c)
<1>1. /\ c.frame \in Frames /\ (Onward(c) \in Pcs \/ OpOf(c) = "RTWP")
      /\ c.eq \in BOOLEAN /\ {0, 2} \subseteq Masks /\ 0 \in Bit
      /\ (c.vdp = 0) \in BOOLEAN /\ (c.key = 0) \in BOOLEAN
  BY PlacesOK DEF Machine, Masks, Bit
<1>2. CASE OpOf(c) = "LIMI0" \/ OpOf(c) = "LIMI2"
  BY <1>1, <1>2, ExecutedIs DEF Machine
<1>3. CASE OpOf(c) = "TB" \/ OpOf(c) = "STCR"
  BY <1>1, <1>3, ExecutedIs DEF Machine
<1>4. CASE OpOf(c) = "JEQ"
  <2>1. (IF c.eq THEN Onward2(c) ELSE Onward(c)) \in Pcs
    BY <1>4, PlacesOK
  <2> QED BY <1>4, <2>1, ExecutedIs, ZenonT(30) DEF Machine
<1>5. CASE OpOf(c) = "RTWP"
  BY <1>5, ExecutedIs, ZenonT(30) DEF Machine, Frames
<1> QED BY <1>2, <1>3, <1>4, <1>5, PlacesOK

LEMMA ExecutedFields ==
  ASSUME program \in Programs, NEW c \in Machine
  PROVE  LET e == Executed(c)
             op == OpOf(c)
         IN /\ e.key = c.key /\ e.frame = c.frame
            /\ e.vdp = IF op = "TB" THEN 0 ELSE c.vdp
            /\ e.pc = IF op = "RTWP" THEN c.frame.pc
                      ELSE IF op = "JEQ" /\ c.eq THEN Onward2(c) ELSE Onward(c)
            /\ e.mask = IF op = "RTWP" THEN c.frame.mask
                        ELSE IF op = "LIMI0" THEN 0 ELSE IF op = "LIMI2" THEN 2 ELSE c.mask
            /\ e.eq = IF op = "RTWP" THEN c.frame.eq
                      ELSE IF op = "TB" THEN (c.vdp = 0)
                      ELSE IF op = "STCR" THEN (c.key = 0) ELSE c.eq
<1>1. CASE OpOf(c) = "LIMI0" \/ OpOf(c) = "LIMI2"
  BY <1>1, ExecutedIs DEF Machine
<1>2. CASE OpOf(c) = "TB"
  <2>1. Executed(c) = [c EXCEPT !.pc = Onward(c), !.eq = (c.vdp = 0), !.vdp = 0]
    BY <1>2, ExecutedIs
  <2> QED BY <1>2, <2>1 DEF Machine
<1>3. CASE OpOf(c) = "STCR"
  <2>1. Executed(c) = [c EXCEPT !.pc = Onward(c), !.eq = (c.key = 0)]
    BY <1>3, ExecutedIs
  <2> QED BY <1>3, <2>1 DEF Machine
<1>4. CASE OpOf(c) = "JEQ"
  BY <1>4, ExecutedIs, ZenonT(30) DEF Machine
<1>5. CASE OpOf(c) = "RTWP"
  BY <1>5, ExecutedIs, ZenonT(30) DEF Machine
<1> QED BY <1>1, <1>2, <1>3, <1>4, <1>5, PlacesOK

\* Two machines of which a program sees the same stay so, if it does not test the bit or
\* they agree on it.
LEMMA ExecutedSeen ==
  ASSUME program \in Programs, NEW c \in Machine, NEW d \in Machine,
         Seen(c) = Seen(d), OpOf(c) = "TB" => c.vdp = d.vdp
  PROVE  /\ Seen(Executed(c)) = Seen(Executed(d))
         /\ OpOf(c) = "TB" => Executed(c).vdp = 0 /\ Executed(d).vdp = 0
         /\ OpOf(c) # "TB" => Executed(c).vdp = c.vdp /\ Executed(d).vdp = d.vdp
<1> DEFINE x == Executed(c)
           y == Executed(d)
<1>1. c.pc = d.pc /\ c.mask = d.mask /\ c.eq = d.eq /\ c.key = d.key /\ c.frame = d.frame
  BY DEF Seen
<1>2. OpOf(c) = OpOf(d) /\ Onward(c) = Onward(d) /\ Onward2(c) = Onward2(d)
  BY <1>1 DEF OpOf, Onward, Onward2
<1>3. x.key = y.key /\ x.frame = y.frame /\ x.mask = y.mask
  BY <1>1, <1>2, ExecutedFields
<1>4. x.pc = y.pc
  BY <1>1, <1>2, ExecutedFields
<1>5. x.eq = y.eq
  <2>1. CASE OpOf(c) = "TB"
    <3>1. x.eq = (c.vdp = 0) /\ y.eq = (d.vdp = 0)
      BY <1>2, <2>1, ExecutedFields
    <3> QED BY <2>1, <3>1
  <2>2. CASE OpOf(c) = "STCR"
    <3>1. x.eq = (c.key = 0) /\ y.eq = (d.key = 0)
      BY <1>2, <2>2, ExecutedFields
    <3> QED BY <1>1, <3>1
  <2>3. CASE OpOf(c) \notin {"TB", "STCR"}
    BY <1>1, <1>2, <2>3, ExecutedFields
  <2> QED BY <2>1, <2>2, <2>3
<1>6. /\ OpOf(c) = "TB" => x.vdp = 0 /\ y.vdp = 0
      /\ OpOf(c) # "TB" => x.vdp = c.vdp /\ y.vdp = d.vdp
  BY <1>2, ExecutedFields
<1> HIDE DEF x, y
<1>7. Seen(x) = Seen(y)
  BY <1>3, <1>4, <1>5 DEF Seen
<1> QED BY <1>6, <1>7 DEF x, y

\* What a record makes of a machine.
LEMMA AppliedOK ==
  ASSUME program \in Programs, NEW c \in Machine, NEW r \in Record
  PROVE  /\ Taken(c) \in Machine /\ Applied(c, r) \in Machine
         /\ r.type = "INTERRUPT" => Applied(c, r) = [Taken(c) EXCEPT !.vdp = 1]
         /\ r.type # "INTERRUPT" => Applied(c, r) = [c EXCEPT !.key = r.state]
<1>1. Taken(c) \in Machine
  <2>1. [pc |-> c.pc, mask |-> c.mask, eq |-> c.eq] \in Frames
    BY DEF Machine, Frames
  <2> QED BY <2>1, PlacesOK DEF Taken, Machine
<1>2. [Taken(c) EXCEPT !.vdp = 1] \in Machine
  <2> 1 \in Bit
    BY DEF Bit
  <2> QED BY <1>1 DEF Machine
<1>3. r.type # "INTERRUPT" => [c EXCEPT !.key = r.state] \in Machine
  BY DEF Record, Machine
<1> QED BY <1>1, <1>2, <1>3 DEF Applied

-----------------------------------------------------------------------------
(* Recording *)

\* Where no record is written and none executed, the replay stays what it is.
LEMMA Unmoved ==
  ASSUME UNCHANGED <<program, trace, path>>
  PROVE  /\ \A k, m, n : Fed(k, m, n)' = Fed(k, m, n)
         /\ \A before, after, n : Run(before, after, n)' = Run(before, after, n)
         /\ Machine' = Machine /\ TraceOK' = TraceOK
         /\ \A c : Executed(c)' = Executed(c)
<1>1. \A c : Executed(c)' = Executed(c)
  BY DEF Executed, After
<1>2. \A k, m, n : Fed(k, m, n)' = Fed(k, m, n)
  BY DEF Fed
<1>3. \A before, after, n : Run(before, after, n)' = Run(before, after, n)
  BY <1>1, <1>2 DEF Run
<1> QED BY <1>1, <1>2, <1>3 DEF Machine, Frames, Pcs, TraceOK, Record

\* A step between the instructions: the replay lags behind as it may.
LEMMA StepBetween ==
  ASSUME TraceInv, UNCHANGED <<program, mode, phase, icount, trace, next, path, unlike>>,
         mode = "record", ~unlike => cpu' \in Machine /\ queued' \in Seq(Bit),
         \A c : Alike(c) => Alike(c)',
         storing' \subseteq {"interrupt", "vdp_int"}, interrupt' \in Bit
  PROVE  TraceInv'
<1> SUFFICES ASSUME ~unlike PROVE (TraceOK /\ \E before, after : Beside(before, after))'
  BY DEF TraceInv
<1>1. PICK before, after : Beside(before, after)
  BY DEF TraceInv
<1>2. Recording(before, after)
  BY <1>1 DEF Beside
<1>3. Recording(before, after)'
  BY <1>2, Unmoved DEF Recording
<1>4. Beside(before, after)'
  BY <1>1, <1>3, Unmoved DEF Beside
<1> QED BY <1>4, Unmoved DEF TraceInv

LEMMA TicksKeep == TraceInv /\ (Tick \/ StoreInterrupt \/ StoreVdpInt \/ Key) => TraceInv'
<1> SUFFICES ASSUME TraceInv, Tick \/ StoreInterrupt \/ StoreVdpInt \/ Key PROVE TraceInv'
  OBVIOUS
<1>0. /\ storing # {} => mode = "record"
      /\ storing \subseteq {"interrupt", "vdp_int"} /\ interrupt \in Bit
      /\ ~unlike /\ mode = "record" => cpu \in Machine /\ queued \in Seq(Bit)
  BY DEF TraceInv, Beside, Recording
<1>1. CASE Tick
  <2>1. \A c : Alike(c) => Alike(c)'
    BY <1>1 DEF Tick, Alike, Lags
  <2> QED BY <1>0, <1>1, <2>1, StepBetween DEF Tick
<1>2. CASE StoreInterrupt
  <2>1. \A c : Alike(c) => Alike(c)'
    BY <1>2 DEF StoreInterrupt, Alike, Lags
  <2>2. interrupt' \in Bit /\ storing' \subseteq {"interrupt", "vdp_int"} /\ mode = "record"
    BY <1>0, <1>2 DEF StoreInterrupt, Bit
  <2> QED BY <1>0, <1>2, <2>1, <2>2, StepBetween DEF StoreInterrupt
<1>3. CASE StoreVdpInt
  <2>0. storing' \subseteq {"interrupt", "vdp_int"} /\ mode = "record"
    BY <1>0, <1>3 DEF StoreVdpInt
  <2>1. cpu' = [cpu EXCEPT !.vdp = 1] /\ UNCHANGED interrupt
    BY <1>3 DEF StoreVdpInt
  <2>2. cpu \in Machine => /\ cpu' \in Machine /\ cpu'.vdp = 1
                           /\ Seen(cpu') = Seen(cpu)
    BY <2>1 DEF Machine, Bit, Seen
  <2>3. ~unlike => cpu' \in Machine /\ queued' \in Seq(Bit)
    BY <1>0, <1>3, <2>0, <2>2 DEF StoreVdpInt
  <2>4. ASSUME ~unlike, NEW c, Alike(c) PROVE Alike(c)'
    <3>1. /\ Seen(c)' = Seen(c) /\ Seen(cpu)' = Seen(cpu) /\ cpu'.vdp = 1
      BY <1>0, <2>0, <2>2, <2>4 DEF Seen
    <3>2. storing = {"interrupt", "vdp_int"} \/ storing = {"vdp_int"}
      BY <1>0, <1>3 DEF StoreVdpInt
    <3>3. CASE storing = {"interrupt", "vdp_int"}
      <4>1. storing' = {"interrupt"}
        BY <1>3, <3>3 DEF StoreVdpInt
      <4> QED BY <2>4, <3>1, <4>1 DEF Alike, Lags
    <3>4. CASE storing = {"vdp_int"}
      <4>1. storing' = {}
        BY <1>3, <3>4 DEF StoreVdpInt
      <4>2. interrupt = 1 \/ c.vdp = 1
        BY <1>0, <2>4, <3>4 DEF Alike, Lags, Bit
      <4> QED BY <2>1, <2>4, <3>1, <4>1, <4>2 DEF Alike, Lags
    <3> QED BY <3>2, <3>3, <3>4
  <2>5. CASE unlike
    BY <1>0, <1>3, <2>0, <2>5 DEF StoreVdpInt, TraceInv
  <2>6. CASE ~unlike
    BY <1>0, <1>3, <2>0, <2>1, <2>3, <2>4, <2>6, StepBetween DEF StoreVdpInt
  <2> QED BY <2>5, <2>6
<1>4. CASE Key
  <2>1. \A c : Alike(c) => Alike(c)'
    BY <1>4 DEF Key, Alike, Lags
  <2>2. PICK state \in {0, 1} : queued' = Append(queued, state)
    BY <1>4 DEF Key
  <2>3. ~unlike => cpu' \in Machine /\ queued' \in Seq(Bit)
    BY <1>0, <1>4, <2>2 DEF Key, Bit
  <2> QED BY <1>0, <1>4, <2>1, <2>3, StepBetween DEF Key
<1> QED BY <1>1, <1>2, <1>3, <1>4

\* The recorded instruction and that of the replay do the same.
LEMMA RecordExecuteKeeps == TraceInv /\ RecordExecute => TraceInv'
<1> SUFFICES ASSUME TraceInv, RecordExecute, ~unlike, ~EarlyTest
             PROVE  (TraceOK /\ \E before, after : Beside(before, after))'
  BY DEF TraceInv, RecordExecute
<1>0. /\ mode = "record" /\ phase = "execute" /\ mode' = mode /\ phase' = "events"
      /\ path' = Append(path, cpu) /\ cpu' = Executed(cpu) /\ icount' = icount + 1
      /\ UNCHANGED <<program, interrupt, queued, storing, trace, next>>
  BY DEF RecordExecute
<1>1. PICK before, after : Beside(before, after)
  BY DEF TraceInv
<1>2. /\ before \in [Nat -> Machine] /\ after \in [Nat -> Machine]
      /\ Run(before, after, icount)
      /\ icount \in Nat /\ cpu \in Machine /\ program \in Programs
      /\ path \in Seq(Machine) /\ Len(path) = icount /\ queued \in Seq(Bit)
      /\ icount < Length
      /\ Alike(after[icount]) /\ Fed(icount, before[icount], after[icount])
      /\ \A i \in 1..Len(trace) : trace[i].icount <= icount
  BY <1>0, <1>1 DEF Beside, Recording, TraceInv
<1> DEFINE c == after[icount]
<1>3. c \in Machine /\ Seen(c) = Seen(cpu) /\ c.pc = cpu.pc
  BY <1>2 DEF Alike, Seen
<1>4. OpOf(c) = "TB" => c.vdp = cpu.vdp
  BY <1>2, <1>3 DEF Alike, Lags, EarlyTest, OpOf
<1>5. /\ Seen(Executed(c)) = Seen(Executed(cpu))
      /\ OpOf(c) = "TB" => Executed(c).vdp = 0 /\ Executed(cpu).vdp = 0
      /\ OpOf(c) # "TB" => Executed(c).vdp = c.vdp /\ Executed(cpu).vdp = cpu.vdp
  BY <1>2, <1>3, <1>4, ExecutedSeen
<1>6. Executed(c) \in Machine /\ cpu' \in Machine
  BY <1>0, <1>2, <1>3, ExecutedOK
<1>7. PICK b \in [Nat -> Machine] : /\ b[icount + 1] = Executed(c)
                                   /\ \A k \in 0..icount : b[k] = before[k]
  <2> DEFINE d == [before EXCEPT ![icount + 1] = Executed(c)]
  <2>1. /\ d \in [Nat -> Machine] /\ d[icount + 1] = Executed(c)
        /\ \A k \in 0..icount : d[k] = before[k]
    BY <1>2, <1>6
  <2> QED BY <2>1
<1>8. /\ path' \in Seq(Machine) /\ Len(path') = icount + 1 /\ path'[icount + 1] = cpu
      /\ \A k \in 1..icount : path'[k] = path[k]
  BY <1>0, <1>2
<1>9. /\ \A k, m, n : Fed(k, m, n)' = Fed(k, m, n)
      /\ \A d : Executed(d)' = Executed(d)
      /\ Machine' = Machine /\ TraceOK'
  BY <1>0 DEF Fed, Executed, After, Machine, Frames, Pcs, TraceOK, Record, TraceInv
<1> HIDE DEF c
<1>10. Run(b, after, icount)'
  <2>1. b[0] = Start
    BY <1>2, <1>7 DEF Run
  <2>2. ASSUME NEW k \in 0..icount
        PROVE  Fed(k, b[k], after[k]) /\ Seen(after[k]) = Seen(path'[k + 1])
               /\ b[k + 1] = Executed(after[k])
    <3>1. CASE k = icount
      BY <1>2, <1>3, <1>7, <1>8, <3>1 DEF c
    <3>2. CASE k # icount
      <4>1. k \in 0..icount - 1 /\ k + 1 \in 1..icount /\ k + 1 \in 0..icount
        BY <1>2, <3>2
      <4> QED BY <1>2, <1>7, <1>8, <4>1 DEF Run
    <3> QED BY <3>1, <3>2
  <2>3. 0..icount' - 1 = 0..icount
    BY <1>0, <1>2
  <2> QED BY <1>9, <2>1, <2>2, <2>3 DEF Run
<1>11. Alike(b[icount])'
  <2>1. b[icount'] = Executed(c)
    BY <1>0, <1>7
  <2>2. Seen(Executed(c)) = Seen(cpu')
    BY <1>0, <1>5
  <2>3. interrupt' = interrupt /\ storing' = storing
    BY <1>0
  <2>4. CASE OpOf(c) = "TB"
    <3>1. Executed(c).vdp = 0 /\ cpu'.vdp = 0
      BY <1>0, <1>5, <2>4
    <3>2. ~(storing = {"vdp_int"} /\ interrupt = 0)
      <4>1. program[cpu.pc].op = "TB"
        BY <1>3, <2>4 DEF OpOf
      <4> QED BY <1>2, <4>1 DEF Alike, Lags, EarlyTest
    <3> QED BY <2>1, <2>2, <2>3, <3>1, <3>2 DEF Alike, Lags, Seen
  <2>5. CASE OpOf(c) # "TB"
    <3>1. Executed(c).vdp = c.vdp /\ cpu'.vdp = cpu.vdp
      BY <1>0, <1>5, <2>5
    <3>2. Alike(c)
      BY <1>2 DEF c
    <3> QED BY <2>1, <2>2, <2>3, <3>1, <3>2 DEF Alike, Lags, Seen
  <2> QED BY <2>4, <2>5
<1>12. \A i \in 1..Len(trace) : trace[i].icount < icount + 1
  <2> TAKE i \in 1..Len(trace)
  <2>1. trace[i].icount <= icount /\ trace[i].icount \in Nat
    BY <1>2 DEF TraceInv, TraceOK, Record
  <2> QED BY <1>2, <2>1
<1>13. Recording(b, after)'
  <2>1. icount' \in Nat /\ icount' <= Length
    BY <1>0, <1>2, ProgramsAssumption
  <2> QED BY <1>0, <1>2, <1>6, <1>8, <1>9, <1>10, <1>11, <1>12, <2>1 DEF Recording
<1>14. Beside(b, after)'
  BY <1>0, <1>2, <1>7, <1>9, <1>13 DEF Beside
<1> QED BY <1>9, <1>14

\* A record that is written is what the replay makes the same change by.
LEMMA RecordEventsKeeps == TraceInv /\ RecordEvents => TraceInv'
<1> DEFINE take == interrupt = 1 /\ cpu.mask >= 2
           c == IF take THEN Taken(cpu) ELSE cpu
           tick == [type |-> "INTERRUPT", icount |-> icount, pc |-> cpu.pc]
           key == [type |-> "KEYBOARD", icount |-> icount, pc |-> cpu.pc, state |-> queued[1]]
           written == (IF take THEN <<tick>> ELSE << >>) \o KeyRecords(c.pc)
<1> SUFFICES ASSUME TraceInv, RecordEvents PROVE TraceInv'
  OBVIOUS
<1>0. /\ mode = "record" /\ phase = "events" /\ mode' = mode /\ phase' = "execute"
      /\ icount < Length
      /\ cpu' = IF queued = << >> THEN c ELSE [c EXCEPT !.key = queued[1]]
      /\ interrupt' = IF take THEN 0 ELSE interrupt
      /\ trace' = trace \o written
      /\ unlike' = (unlike \/ Len(written) > 1 \/ (take /\ cpu.vdp = 0))
      /\ queued' = << >>
      /\ UNCHANGED <<program, icount, storing, path>>
  BY DEF RecordEvents
<1> HIDE DEF take
<1>a. interrupt' \in Bit /\ storing' \subseteq {"interrupt", "vdp_int"}
  BY <1>0 DEF TraceInv, Bit
<1> SUFFICES ASSUME ~unlike, Len(written) <= 1, take => cpu.vdp # 0
             PROVE  (TraceOK /\ \E before, after : Beside(before, after))'
  <2>1. ~unlike' => ~unlike /\ ~(Len(written) > 1) /\ ~(take /\ cpu.vdp = 0)
    BY <1>0
  <2>2. ~(Len(written) > 1) => Len(written) <= 1
    OBVIOUS
  <2> HIDE DEF written
  <2> QED BY <1>0, <1>a, <2>1, <2>2 DEF TraceInv
<1>1. PICK before, after : Beside(before, after)
  BY DEF TraceInv
<1>2. /\ before \in [Nat -> Machine] /\ after \in [Nat -> Machine]
      /\ Run(before, after, icount)
      /\ icount \in Nat /\ cpu \in Machine /\ program \in Programs
      /\ path \in Seq(Machine) /\ Len(path) = icount /\ queued \in Seq(Bit)
      /\ Alike(before[icount])
      /\ \A i \in 1..Len(trace) : trace[i].icount < icount
      /\ TraceOK /\ trace \in Seq(Record)
  BY <1>0, <1>1 DEF Beside, Recording, TraceInv, TraceOK
<1> DEFINE b == before[icount]
<1>3. b \in Machine /\ Seen(b) = Seen(cpu) /\ b.pc = cpu.pc
  BY <1>2 DEF Alike, Seen
<1> HIDE DEF b, c, tick, key, written
\* What is left to show for each way the trace grows.
<1>4. ASSUME NEW a \in Machine, Fed(icount, b, a)', Seen(a) = Seen(cpu'), Lags(a)',
             cpu' \in Machine, TraceOK',
             \A i \in 1..Len(trace') : trace'[i].icount <= icount,
             \A k \in 0..icount - 1 : \A m, n : Fed(k, m, n) => Fed(k, m, n)'
      PROVE  \E x, y : Beside(x, y)'
  <2>1. PICK y \in [Nat -> Machine] : /\ y[icount] = a
                                      /\ \A k \in 0..icount - 1 : y[k] = after[k]
    <3> DEFINE d == [after EXCEPT ![icount] = a]
    <3>1. d \in [Nat -> Machine] /\ d[icount] = a /\ \A k \in 0..icount - 1 : d[k] = after[k]
      BY <1>2
    <3> QED BY <3>1
  <2>2. Run(before, y, icount)'
    <3>1. Run(before, y, icount)
      BY <1>2, <2>1 DEF Run
    <3>2. Executed(y[0])' = Executed(y[0]) /\ \A d : Executed(d)' = Executed(d)
      BY <1>0 DEF Executed, After
    <3> QED BY <1>0, <1>4, <3>1, <3>2 DEF Run
  <2>3. Fed(icount, before[icount], y[icount])'
    <3>1. Fed(icount, before[icount], a)'
      BY <1>0, <1>4 DEF b
    <3> QED BY <1>0, <2>1, <3>1
  <2>4. Alike(y[icount])'
    <3>1. Alike(a)'
      BY <1>4 DEF Alike, Seen
    <3> QED BY <1>0, <2>1, <3>1
  <2>5. Machine' = Machine
    BY <1>0 DEF Machine, Frames, Pcs
  <2>6. Recording(before, y)'
    <3>1. queued' \in Seq(Bit)
      BY <1>0
    <3>2. icount' = icount /\ path' = path /\ phase' = "execute" /\ icount <= Length
      BY <1>0, <1>2, ProgramsAssumption
    <3>3. path' \in Seq(Machine') /\ cpu' \in Machine'
      BY <1>2, <1>4, <2>5, <3>2
    <3> QED BY <1>0, <1>2, <1>4, <2>2, <2>3, <2>4, <3>1, <3>2, <3>3 DEF Recording
  <2>7. Beside(before, y)'
    BY <1>0, <1>2, <2>5, <2>6 DEF Beside
  <2> QED BY <2>7
<1>5. ASSUME NEW r \in Record, r.icount = icount, r.pc = cpu.pc, trace' = Append(trace, r)
      PROVE  /\ TraceOK' /\ \A i \in 1..Len(trace') : trace'[i].icount <= icount
             /\ \A k \in 0..icount - 1 : \A m, n : Fed(k, m, n) => Fed(k, m, n)'
             /\ Fed(icount, b, Applied(b, r))'
  <2>1. /\ Len(trace) \in Nat /\ Len(trace') = Len(trace) + 1
        /\ trace'[Len(trace) + 1] = r
        /\ \A i \in 1..Len(trace) : trace'[i] = trace[i]
    BY <1>2, <1>5
  <2>2. trace' \in Seq(Record)'
    <3>1. Record' = Record
      BY <1>0 DEF Record, Pcs
    <3> QED BY <1>2, <1>5, <3>1
  <2>3. \A i \in 1..Len(trace) : trace[i].icount \in Nat
    BY <1>2 DEF Record
  <2>4. TraceOK'
    <3>1. ASSUME NEW i \in 1..Len(trace'), NEW j \in 1..Len(trace'), i < j
          PROVE  trace'[i].icount < trace'[j].icount
      <4>1. i \in 1..Len(trace)
        BY <2>1, <3>1
      <4>2. CASE j \in 1..Len(trace)
        BY <1>2, <2>1, <3>1, <4>1, <4>2 DEF TraceOK
      <4>3. CASE j \notin 1..Len(trace)
        <5>1. j = Len(trace) + 1
          BY <2>1, <4>3
        <5> QED BY <1>2, <1>5, <2>1, <4>1, <5>1
      <4> QED BY <4>2, <4>3
    <3> QED BY <2>2, <3>1 DEF TraceOK
  <2>5. \A i \in 1..Len(trace') : trace'[i].icount <= icount
    <3> TAKE i \in 1..Len(trace')
    <3>1. CASE i \in 1..Len(trace)
      BY <1>2, <2>1, <2>3, <3>1
    <3>2. CASE i \notin 1..Len(trace)
      BY <1>2, <1>5, <2>1, <3>2
    <3> QED BY <3>1, <3>2
  <2>6. ASSUME NEW k \in 0..icount - 1, NEW m, NEW n, Fed(k, m, n) PROVE Fed(k, m, n)'
    <3>1. CASE n = m /\ \A i \in 1..Len(trace) : trace[i].icount # k
      <4>1. \A i \in 1..Len(trace') : trace'[i].icount # k
        <5> TAKE i \in 1..Len(trace')
        <5>1. i \in 1..Len(trace) \/ i = Len(trace) + 1
          BY <2>1
        <5> QED BY <1>2, <1>5, <2>1, <3>1, <5>1
      <4> QED BY <3>1, <4>1 DEF Fed
    <3>2. CASE \E i \in 1..Len(trace) : /\ trace[i].icount = k /\ trace[i].pc = m.pc
                                        /\ n = Applied(m, trace[i])
      <4>1. PICK i \in 1..Len(trace) : /\ trace[i].icount = k /\ trace[i].pc = m.pc
                                       /\ n = Applied(m, trace[i])
        BY <3>2
      <4>2. i \in 1..Len(trace') /\ trace'[i] = trace[i]
        BY <2>1
      <4> QED BY <4>1, <4>2 DEF Fed
    <3> QED BY <2>6, <3>1, <3>2 DEF Fed
  <2>7. Fed(icount, b, Applied(b, r))'
    <3>1. Len(trace) + 1 \in 1..Len(trace')
      BY <2>1
    <3>2. b' = b /\ icount' = icount
      BY <1>0 DEF b
    <3>3. b' = b => Applied(b, r)' = Applied(b, r)
      BY DEF Applied, Taken
    <3> QED BY <1>3, <1>5, <2>1, <3>1, <3>2, <3>3 DEF Fed
  <2> QED BY <2>4, <2>5, <2>6, <2>7
<1>6. CASE take
  <2>1. written = <<tick>> \o KeyRecords(c.pc)
    BY <1>6 DEF written
  <2>2. Len(queued) \in Nat
    BY <1>2
  <2>3. queued = << >> /\ written = <<tick>>
    <3> DEFINE n == Len(queued)
               rec(k) == [type |-> "KEYBOARD", icount |-> icount, pc |-> c.pc,
                          state |-> queued[n + 1 - k]]
    <3>1. KeyRecords(c.pc) = [k \in 1..n |-> rec(k)]
      BY DEF KeyRecords
    <3> HIDE DEF rec
    <3>2. Len(written) = 1 + n
      <4> KeyRecords(c.pc) \in Seq({rec(k) : k \in 1..n}) /\ Len(KeyRecords(c.pc)) = n
        BY <2>2, <3>1
      <4> QED BY <2>1, <2>2
    <3>3. n = 0
      BY <2>2, <3>2
    <3>4. KeyRecords(c.pc) = << >>
      BY <3>1, <3>3
    <3> QED BY <1>2, <2>1, <3>3, <3>4
  <2>4. tick \in Record /\ tick.icount = icount /\ tick.pc = cpu.pc /\ tick.type = "INTERRUPT"
    BY <1>2 DEF tick, Record, Machine
  <2> DEFINE a == Applied(b, tick)
  <2>5. trace' = Append(trace, tick)
    BY <1>0, <1>2, <2>3, <2>4
  <2>6. interrupt = 1 /\ cpu.vdp = 1 /\ interrupt' = 0 /\ cpu' = Taken(cpu)
    BY <1>0, <1>2, <1>6, <2>3 DEF take, c, Machine, Bit
  <2>7. a \in Machine /\ a = [Taken(b) EXCEPT !.vdp = 1] /\ cpu' \in Machine
    BY <1>2, <1>3, <2>4, <2>6, AppliedOK
  <2>8. a.vdp = 1 /\ cpu'.vdp = 1
    <3>1. cpu'.vdp = cpu.vdp
      BY <1>2, <2>6 DEF Taken, Machine
    <3>2. Taken(b) \in Machine
      BY <1>2, <1>3, <2>4, AppliedOK
    <3> QED BY <2>6, <2>7, <3>1, <3>2 DEF Machine
  <2>9. Seen(a) = Seen(cpu')
    <3>1. /\ Taken(b).pc = IntPC /\ Taken(b).mask = b.mask /\ Taken(b).eq = b.eq
          /\ Taken(b).key = b.key
          /\ Taken(b).frame = [pc |-> b.pc, mask |-> b.mask, eq |-> b.eq]
      BY <1>3 DEF Taken, Machine
    <3>2. /\ cpu'.pc = IntPC /\ cpu'.mask = cpu.mask /\ cpu'.eq = cpu.eq /\ cpu'.key = cpu.key
          /\ cpu'.frame = [pc |-> cpu.pc, mask |-> cpu.mask, eq |-> cpu.eq]
      BY <1>2, <2>6 DEF Taken, Machine
    <3>3. /\ a.pc = Taken(b).pc /\ a.mask = Taken(b).mask /\ a.eq = Taken(b).eq
          /\ a.key = Taken(b).key /\ a.frame = Taken(b).frame
      <4> Taken(b) \in Machine
        BY <1>2, <1>3, <2>4, AppliedOK
      <4> QED BY <2>7 DEF Machine
    <3>4. b.pc = cpu.pc /\ b.mask = cpu.mask /\ b.eq = cpu.eq /\ b.key = cpu.key
      BY <1>3 DEF Seen
    <3> HIDE DEF a
    <3> QED BY <3>1, <3>2, <3>3, <3>4 DEF Seen
  <2>10. PICK d : d = a
    OBVIOUS
  <2>11. Lags(d)'
    BY <2>6, <2>8, <2>10 DEF Lags
  <2>12. Fed(icount, b, d)'
    <3>1. PICK r : r = tick
      OBVIOUS
    <3>2. Fed(icount, b, Applied(b, r))'
      BY <1>5, <2>4, <2>5, <3>1
    <3>3. Applied(b, r)' = Applied(b, r)
      BY <1>0 DEF b, Applied, Taken
    <3> QED BY <2>10, <3>1, <3>2, <3>3
  <2>13. /\ TraceOK' /\ \A i \in 1..Len(trace') : trace'[i].icount <= icount
         /\ \A k \in 0..icount - 1 : \A m, n : Fed(k, m, n) => Fed(k, m, n)'
    BY <1>5, <2>4, <2>5
  <2>14. d \in Machine /\ Seen(d) = Seen(cpu')
    BY <2>7, <2>9, <2>10
  <2> HIDE DEF a
  <2>15. \E x, y : Beside(x, y)'
    BY <1>4, <2>7, <2>11, <2>12, <2>13, <2>14
  <2> QED BY <2>13, <2>15
<1>7. CASE ~take /\ queued = << >>
  <2>1. written = << >> /\ trace' = trace
    <3>1. KeyRecords(c.pc) = << >>
      BY <1>7 DEF KeyRecords
    <3>2. written = << >>
      BY <1>7, <3>1 DEF written
    <3> QED BY <1>0, <1>2, <3>2
  <2>2. cpu' = cpu /\ interrupt' = interrupt
    BY <1>0, <1>7 DEF c
  <2>3. TraceOK' /\ \A k, m, n : Fed(k, m, n)' = Fed(k, m, n)
    BY <1>0, <1>2, <2>1 DEF TraceOK, Record, Pcs, Fed
  <2>4. PICK d : d = b
    OBVIOUS
  <2>5. Lags(d)' /\ d \in Machine /\ Seen(d) = Seen(cpu')
    BY <1>0, <1>2, <1>3, <2>2, <2>4 DEF Alike, Lags, b
  <2>6. \A i \in 1..Len(trace) : trace[i].icount # icount /\ trace[i].icount <= icount
    <3>1. \A i \in 1..Len(trace) : trace[i].icount \in Nat
      BY <1>2 DEF Record
    <3> QED BY <1>2, <3>1
  <2>7. Fed(icount, b, d)'
    <3>1. b' = b /\ icount' = icount
      BY <1>0 DEF b
    <3> QED BY <2>1, <2>4, <2>6, <3>1 DEF Fed
  <2>8. \E x, y : Beside(x, y)'
    BY <1>2, <1>4, <2>1, <2>2, <2>3, <2>5, <2>6, <2>7
  <2> QED BY <2>3, <2>8
<1>8. CASE ~take /\ queued # << >>
  <2>1. written = KeyRecords(cpu.pc) /\ Len(queued) \in Nat \ {0}
    <3>1. written = << >> \o KeyRecords(cpu.pc)
      BY <1>8 DEF written, c
    <3>2. \E S : KeyRecords(cpu.pc) \in Seq(S)
      <4>1. Len(queued) \in Nat
        BY <1>2
      <4> DEFINE rec(k) == [type |-> "KEYBOARD", icount |-> icount, pc |-> cpu.pc,
                            state |-> queued[Len(queued) + 1 - k]]
      <4>2. [k \in 1..Len(queued) |-> rec(k)] \in Seq({rec(k) : k \in 1..Len(queued)})
        <5> HIDE DEF rec
        <5> QED BY <4>1
      <4> QED BY <4>2 DEF KeyRecords
    <3> QED BY <1>2, <1>8, <3>1, <3>2
  <2>2. Len(queued) = 1
    <3>1. Len(written) = Len(queued)
      BY <2>1 DEF KeyRecords
    <3> QED BY <2>1, <3>1
  <2>3. written = <<key>>
    BY <2>1, <2>2 DEF KeyRecords, key
  <2>4. /\ key \in Record /\ key.icount = icount /\ key.pc = cpu.pc
        /\ key.type # "INTERRUPT" /\ key.state = queued[1] /\ queued[1] \in Bit
    <3>1. queued[1] \in Bit
      <4> queued \in Seq(Bit) /\ 1 \in 1..Len(queued)
        BY <1>2, <2>2
      <4> QED OBVIOUS
    <3> QED BY <1>2, <3>1 DEF key, Record, Machine
  <2>5. trace' = Append(trace, key)
    BY <1>0, <1>2, <2>3, <2>4
  <2>6. cpu' = [cpu EXCEPT !.key = queued[1]] /\ interrupt' = interrupt
    BY <1>0, <1>8 DEF c
  <2> DEFINE a == Applied(b, key)
  <2>7. a \in Machine /\ a = [b EXCEPT !.key = queued[1]]
    BY <1>2, <1>3, <2>4, AppliedOK
  <2>8. /\ cpu' \in Machine /\ Seen(a) = Seen(cpu')
        /\ a.vdp = b.vdp /\ cpu'.vdp = cpu.vdp
    <3> HIDE DEF a
    <3> QED BY <1>2, <1>3, <2>4, <2>6, <2>7 DEF Machine, Seen
  <2>9. PICK d : d = a
    OBVIOUS
  <2>10. Lags(d)' /\ d \in Machine /\ Seen(d) = Seen(cpu')
    <3>1. d.vdp = b.vdp /\ Lags(b)
      BY <1>2, <2>8, <2>9 DEF Alike, b
    <3> QED BY <1>0, <2>6, <2>7, <2>8, <2>9, <3>1 DEF Lags
  <2>11. Fed(icount, b, d)'
    <3>1. PICK r : r = key
      OBVIOUS
    <3>2. Fed(icount, b, Applied(b, r))'
      BY <1>5, <2>4, <2>5, <3>1
    <3>3. Applied(b, r)' = Applied(b, r)
      BY <1>0 DEF b, Applied, Taken
    <3> QED BY <2>9, <3>1, <3>2, <3>3
  <2>12. /\ TraceOK' /\ \A i \in 1..Len(trace') : trace'[i].icount <= icount
         /\ \A k \in 0..icount - 1 : \A m, n : Fed(k, m, n) => Fed(k, m, n)'
    BY <1>5, <2>4, <2>5
  <2> HIDE DEF a
  <2>13. \E x, y : Beside(x, y)'
    BY <1>4, <2>8, <2>10, <2>11, <2>12
  <2> QED BY <2>12, <2>13
<1> QED BY <1>6, <1>7, <1>8

LEMMA ResetKeeps == TraceInv /\ Reset => TraceInv'
<1> SUFFICES ASSUME TraceInv, Reset PROVE TraceInv'
  OBVIOUS
<1>0. /\ mode = "record" /\ phase = "events" /\ storing = {}
      /\ cpu' = Start /\ icount' = 0 /\ interrupt' = 0 /\ queued' = << >>
      /\ trace' = << >> /\ path' = << >> /\ unlike' = FALSE
      /\ UNCHANGED <<program, mode, phase, storing, next, left>>
  BY DEF Reset
<1>1. Start \in Machine' /\ program' \in Programs
  <2>1. program \in Programs /\ Machine' = Machine
    BY <1>0 DEF TraceInv, Machine, Frames, Pcs
  <2> QED BY <1>0, <2>1, StartOK
<1>2. PICK x \in [Nat -> Machine'] : x[0] = Start
  <2> DEFINE y == [k \in Nat |-> Start]
  <2>1. y \in [Nat -> Machine'] /\ y[0] = Start
    BY <1>1
  <2> QED BY <2>1
<1>3. Recording(x, x)'
  <2>1. Len(trace') = 0 /\ Len(path') = 0 /\ path' \in Seq(Machine') /\ queued' \in Seq(Bit)
    BY <1>0
  <2>2. Run(x, x, icount)'
    BY <1>0, <1>2 DEF Run
  <2>3. Alike(x[icount])'
    BY <1>0, <1>2 DEF Alike, Lags, Seen
  <2>4. icount' <= Length /\ icount' \in Nat
    BY <1>0, ProgramsAssumption
  <2> QED BY <1>0, <1>1, <2>1, <2>2, <2>3, <2>4 DEF Recording
<1>4. Beside(x, x)'
  BY <1>0, <1>2, <1>3 DEF Beside
<1>5. TraceOK'
  BY <1>0 DEF TraceOK
<1> QED BY <1>0, <1>1, <1>4, <1>5 DEF TraceInv, Bit

-----------------------------------------------------------------------------
(* Replaying *)

LEMMA StartReplayKeeps == TraceInv /\ StartReplay => TraceInv'
<1> SUFFICES ASSUME TraceInv, StartReplay PROVE TraceInv'
  OBVIOUS
<1>0. /\ mode = "record" /\ phase = "events" /\ icount = Length /\ storing = {}
      /\ mode' = "replay"
      /\ cpu' = Start /\ icount' = 0 /\ interrupt' = 0 /\ queued' = << >>
      /\ next' = 1
      /\ UNCHANGED <<program, phase, storing, trace, left, path, unlike>>
  BY DEF StartReplay
<1> SUFFICES ASSUME ~unlike PROVE (TraceOK /\ \E before, after : Beside(before, after))'
  BY <1>0 DEF TraceInv, Bit
<1>1. PICK before, after : Beside(before, after)
  BY DEF TraceInv
<1>2. /\ Run(before, after, Length) /\ TraceOK
      /\ \A i \in 1..Len(trace) : trace[i].icount < Length
      /\ before \in [Nat -> Machine] /\ after \in [Nat -> Machine]
  BY <1>0, <1>1 DEF Beside, Recording, TraceInv
<1>3. Len(trace) \in Nat /\ \A i \in 1..Len(trace) : i \in Nat /\ trace[i].icount \in Nat
  BY <1>2 DEF TraceOK, Record
<1>4. Replaying(before, after)'
  <2>1. Run(before, after, Length)'
    BY <1>0, <1>2, Unmoved
  <2>2. cpu' = before[0]
    BY <1>0, <1>2 DEF Run
  <2>3. next' \in 1..Len(trace') + 1 /\ icount' \in 0..Length
    BY <1>0, <1>3, ProgramsAssumption
  <2>4. \A i \in 1..Len(trace) : IF i < 1 THEN trace[i].icount < 0 ELSE trace[i].icount >= 0
    BY <1>3
  <2> QED BY <1>0, <1>2, <2>1, <2>2, <2>3, <2>4 DEF Replaying
<1>5. Beside(before, after)'
  BY <1>0, <1>2, <1>4, Unmoved DEF Beside
<1> QED BY <1>0, <1>2, <1>5, Unmoved

\* The record that is due is the one the recorded machine wrote there, and none is left
\* behind or used early.
LEMMA ReplayEventsKeeps == TraceInv /\ ReplayEvents => TraceInv'
<1> SUFFICES ASSUME TraceInv, ReplayEvents PROVE TraceInv'
  OBVIOUS
<1>0. /\ mode = "replay" /\ phase = "events" /\ icount < Length
      /\ UNCHANGED <<program, icount, interrupt, queued, storing, trace, left, path, unlike>>
      /\ phase' \in {"events", "execute"} /\ mode' \in {"replay", "exit"}
  BY DEF ReplayEvents
<1> SUFFICES ASSUME ~unlike PROVE (mode # "exit" /\ TraceOK /\ \E x, y : Beside(x, y))'
  BY <1>0 DEF TraceInv
<1>1. PICK before, after : Beside(before, after)
  BY DEF TraceInv
<1>2. /\ Run(before, after, Length) /\ TraceOK /\ trace \in Seq(Record)
      /\ \A i \in 1..Len(trace) : trace[i].icount < Length
      /\ next \in 1..Len(trace) + 1 /\ icount \in 0..Length
      /\ cpu = before[icount]
      /\ \A i \in 1..Len(trace) : IF i < next THEN trace[i].icount < icount
                                  ELSE trace[i].icount >= icount
      /\ before \in [Nat -> Machine] /\ after \in [Nat -> Machine]
  BY <1>0, <1>1 DEF Beside, Replaying, TraceInv, TraceOK
<1>3. Len(trace) \in Nat /\ Length \in Nat /\ \A i \in 1..Len(trace) : trace[i].icount \in Nat
  BY <1>2, ProgramsAssumption DEF Record
<1>4. Fed(icount, before[icount], after[icount])
  BY <1>0, <1>2, <1>3 DEF Run
<1>5. /\ mode' = "replay" /\ phase' = "execute" /\ cpu' = after[icount]
      /\ next' \in 1..Len(trace) + 1
      /\ \A i \in 1..Len(trace) : IF i < next' THEN trace[i].icount <= icount
                                  ELSE trace[i].icount > icount
  <2>1. CASE ~Due
    <3>1. phase' = "execute" /\ UNCHANGED <<mode, cpu, next>>
      BY <2>1 DEF ReplayEvents
    <3>2. \A i \in 1..Len(trace) : i >= next => trace[i].icount > icount
      <4> SUFFICES ASSUME NEW i \in 1..Len(trace), i >= next PROVE trace[i].icount > icount
        OBVIOUS
      <4>1. next \in 1..Len(trace) /\ trace[next].icount > icount
        BY <1>2, <1>3, <2>1 DEF Due
      <4> QED BY <1>2, <1>3, <4>1 DEF TraceOK
    <3>3. \A i \in 1..Len(trace) : trace[i].icount # icount
      BY <1>2, <1>3, <3>2
    <3>4. after[icount] = before[icount]
      BY <1>4, <3>3 DEF Fed
    <3> QED BY <1>0, <1>2, <1>3, <3>1, <3>2, <3>4, SMTT(30)
  <2>2. CASE Due
    <3>1. next \in 1..Len(trace) /\ trace[next].icount = icount
      BY <1>2, <1>3, <2>2 DEF Due
    <3>2. PICK i \in 1..Len(trace) : /\ trace[i].icount = icount
                                     /\ trace[i].pc = before[icount].pc
                                     /\ after[icount] = Applied(before[icount], trace[i])
      BY <1>4, <3>1 DEF Fed
    <3>3. i = next
      BY <1>2, <1>3, <3>1, <3>2 DEF TraceOK
    <3>4. /\ mode' = "replay" /\ phase' = "execute" /\ next' = next + 1
          /\ cpu' = IF trace[next].type = "INTERRUPT" THEN [Taken(cpu) EXCEPT !.vdp = 1]
                    ELSE [cpu EXCEPT !.key = trace[next].state]
      BY <1>0, <1>2, <2>2, <3>2, <3>3 DEF ReplayEvents
    <3>5. cpu' = after[icount]
      BY <1>2, <3>2, <3>3, <3>4 DEF Applied
    <3>6. \A j \in 1..Len(trace) : IF j < next + 1 THEN trace[j].icount <= icount
                                   ELSE trace[j].icount > icount
      <4> TAKE j \in 1..Len(trace)
      <4>1. CASE j < next
        BY <1>2, <1>3, <4>1
      <4>2. CASE j = next
        BY <1>3, <3>1, <4>2
      <4>3. CASE j > next
        BY <1>2, <1>3, <3>1, <4>3 DEF TraceOK
      <4> QED BY <1>3, <3>1, <4>1, <4>2, <4>3
    <3> QED BY <1>3, <3>1, <3>4, <3>5, <3>6
  <2> QED BY <2>1, <2>2
<1>6. Run(before, after, Length)' /\ TraceOK' /\ Machine' = Machine
  <2>1. \A k, m, n : Fed(k, m, n)' = Fed(k, m, n)
    BY <1>0 DEF Fed
  <2> QED BY <1>0, <1>2, Unmoved
<1>7. Replaying(before, after)'
  BY <1>0, <1>2, <1>5, <1>6 DEF Replaying
<1>8. Beside(before, after)'
  BY <1>2, <1>5, <1>6, <1>7 DEF Beside
<1> QED BY <1>5, <1>6, <1>8

LEMMA ReplayExecuteKeeps == TraceInv /\ ReplayExecute => TraceInv'
<1> SUFFICES ASSUME TraceInv, ReplayExecute PROVE TraceInv'
  OBVIOUS
<1>0. /\ mode = "replay" /\ phase = "execute" /\ mode' = mode /\ phase' = "events"
      /\ cpu' = Executed(cpu) /\ icount' = icount + 1
      /\ UNCHANGED <<program, interrupt, queued, storing, trace, next, left, path, unlike>>
  BY DEF ReplayExecute
<1> SUFFICES ASSUME ~unlike PROVE (TraceOK /\ \E x, y : Beside(x, y))'
  BY <1>0 DEF TraceInv
<1>1. PICK before, after : Beside(before, after)
  BY DEF TraceInv
<1>2. /\ Run(before, after, Length) /\ TraceOK /\ trace \in Seq(Record)
      /\ \A i \in 1..Len(trace) : trace[i].icount < Length
      /\ next \in 1..Len(trace) + 1 /\ icount \in 0..Length /\ icount < Length
      /\ cpu = after[icount]
      /\ \A i \in 1..Len(trace) : IF i < next THEN trace[i].icount <= icount
                                  ELSE trace[i].icount > icount
      /\ before \in [Nat -> Machine] /\ after \in [Nat -> Machine]
  BY <1>0, <1>1 DEF Beside, Replaying, TraceInv, TraceOK
<1>3. Length \in Nat /\ \A i \in 1..Len(trace) : trace[i].icount \in Nat
  BY <1>2, ProgramsAssumption DEF Record
<1>4. cpu' = before[icount + 1]
  BY <1>0, <1>2, <1>3 DEF Run
<1>5. \A i \in 1..Len(trace) : IF i < next THEN trace[i].icount < icount + 1
                               ELSE trace[i].icount >= icount + 1
  BY <1>2, <1>3
<1>6. icount + 1 \in 0..Length
  BY <1>2, <1>3
<1>7. Run(before, after, Length)' /\ TraceOK' /\ Machine' = Machine
  BY <1>0, <1>2, Unmoved
<1>8. Replaying(before, after)'
  BY <1>0, <1>2, <1>4, <1>5, <1>6, <1>7 DEF Replaying
<1>9. Beside(before, after)'
  BY <1>0, <1>2, <1>7, <1>8 DEF Beside
<1> QED BY <1>7, <1>9

LEMMA TraceInductive == TraceInv /\ [Next]_vars => TraceInv'
<1> SUFFICES ASSUME TraceInv, [Next]_vars PROVE TraceInv'
  OBVIOUS
<1>1. CASE UNCHANGED vars
  <2>1. \A x : Alike(x)' = Alike(x)
    BY <1>1 DEF vars, Alike, Lags, Seen
  <2>2. \A x, y : Recording(x, y)' = Recording(x, y)
    BY <1>1, <2>1, Unmoved DEF vars, Recording
  <2>3. \A x, y : Replaying(x, y)' = Replaying(x, y)
    BY <1>1, Unmoved DEF vars, Replaying
  <2>4. \A x, y : Beside(x, y)' = Beside(x, y)
    BY <1>1, <2>2, <2>3, Unmoved DEF vars, Beside
  <2> QED BY <1>1, <2>4, Unmoved DEF vars, TraceInv
<1>2. CASE Over
  BY <1>1, <1>2 DEF Over
<1> QED BY <1>1, <1>2, TicksKeep, RecordEventsKeeps, RecordExecuteKeeps, ResetKeeps,
           StartReplayKeeps, ReplayEventsKeeps, ReplayExecuteKeeps DEF Next

LEMMA TraceInvariant == Spec => []TraceInv
<1>1. Init => TraceInv
  <2> SUFFICES ASSUME Init PROVE TraceInv
    OBVIOUS
  <2>0. /\ program \in Programs /\ mode = "record" /\ phase = "events"
        /\ cpu = Start /\ icount = 0 /\ interrupt = 0 /\ queued = << >> /\ storing = {}
        /\ trace = << >> /\ path = << >>
    BY DEF Init
  <2>1. PICK x \in [Nat -> Machine] : x[0] = Start
    <3> DEFINE y == [k \in Nat |-> Start]
    <3>1. y \in [Nat -> Machine] /\ y[0] = Start
      BY <2>0, StartOK
    <3> QED BY <3>1
  <2>2. Recording(x, x)
    <3>1. Len(trace) = 0 /\ Len(path) = 0 /\ path \in Seq(Machine) /\ queued \in Seq(Bit)
      BY <2>0
    <3>2. Run(x, x, icount) /\ Alike(x[icount]) /\ icount <= Length /\ icount \in Nat
      BY <2>0, <2>1, ProgramsAssumption DEF Run, Alike, Lags, Seen
    <3> QED BY <2>0, <3>1, <3>2, StartOK DEF Recording
  <2>3. Beside(x, x) /\ TraceOK
    BY <2>0, <2>1, <2>2 DEF Beside, TraceOK
  <2> QED BY <2>0, <2>3 DEF TraceInv, Bit
<1> QED BY <1>1, TraceInductive, PTL DEF Spec

\* A session like that is replayed instruction by instruction, for every program and
\* however many interrupts and keys were recorded.
THEOREM ReplayIsFollowed == Spec => []ReplayFollows
<1>1. TraceInv => ReplayFollows
  <2> SUFFICES ASSUME TraceInv, ~unlike PROVE /\ mode # "exit"
                                              /\ mode = "replay" /\ phase = "execute" =>
                                                   Seen(cpu) = Seen(path[icount + 1])
    BY DEF ReplayFollows
  <2>1. PICK before, after : Beside(before, after)
    BY DEF TraceInv
  <2>2. CASE mode = "replay" /\ phase = "execute"
    <3>1. cpu = after[icount] /\ icount \in 0..Length - 1 /\ Run(before, after, Length)
      BY <2>1, <2>2, ProgramsAssumption DEF Beside, Replaying
    <3> QED BY <2>2, <3>1 DEF Run
  <2> QED BY <2>2 DEF TraceInv
<1> QED BY <1>1, TraceInvariant, PTL

\* Its replay has used every record by the time it is over.
THEOREM TraceIsUsed == Spec => []ReplayUsesTrace
<1>1. TraceInv => ReplayUsesTrace
  <2> SUFFICES ASSUME TraceInv, ~unlike, mode = "replay", icount = Length
               PROVE  next = Len(trace) + 1
    BY DEF ReplayUsesTrace
  <2>1. PICK before, after : Beside(before, after)
    BY DEF TraceInv
  <2>2. /\ phase = "events" /\ next \in 1..Len(trace) + 1
        /\ \A i \in 1..Len(trace) : i >= next => trace[i].icount >= Length
        /\ \A i \in 1..Len(trace) : trace[i].icount < Length
    BY <2>1, ProgramsAssumption DEF TraceInv, Beside, Replaying
  <2>3. Len(trace) \in Nat /\ \A i \in 1..Len(trace) : trace[i].icount \in Nat
    BY DEF TraceInv, TraceOK, Record
  <2>4. CASE next <= Len(trace)
    BY <2>2, <2>3, <2>4, ProgramsAssumption
  <2> QED BY <2>2, <2>3, <2>4
<1> QED BY <1>1, TraceInvariant, PTL
=============================================================================
