-------------------------- MODULE InterruptsProofs --------------------------
(***************************************************************************)
(* Theorems about Interrupts, for registers of every even width, every set *)
(* of workspaces and every set of interrupt masks.                         *)
(***************************************************************************)
EXTENDS Interrupts, TLAPS

-----------------------------------------------------------------------------
(* Lemmas about 16-bit registers. *)

\* The remainder of a number that is less than twice the modulus.
LEMMA SmallRemainder ==
  ASSUME NEW w \in Nat \ {0}, NEW x \in 0..(2 * w - 1)
  PROVE  x % w = IF x < w THEN x ELSE x - w
<1>1. x \in Int /\ w \in Int /\ w > 0
  OBVIOUS
<1>2. /\ x = w * (x \div w) + (x % w)
      /\ x \div w \in Int
      /\ x % w \in 0..(w - 1)
  BY <1>1, Z3
<1>3. CASE x \div w = 0
  BY <1>2, <1>3
<1>4. CASE x \div w = 1
  BY <1>2, <1>4
<1>5. CASE x \div w >= 2
  <2>1. w * (x \div w) >= w * 2
    BY <1>1, <1>2, <1>5, Z3
  <2> QED BY <1>2, <2>1
<1>6. CASE x \div w <= -1
  <2>1. w * (x \div w) <= w * (-1)
    BY <1>1, <1>2, <1>6, Z3
  <2> QED BY <1>2, <2>1
<1> QED BY <1>2, <1>3, <1>4, <1>5, <1>6

\* Shifted left on being saved and right on being restored, a word address
\* loses its top bit and still names the same memory word.
LEMMA AddressRoundTrip ==
  ASSUME NEW a \in Address
  PROVE  /\ ByteAddress(a) \in Address
         /\ WordAddress(ByteAddress(a)) \in Address
         /\ ByteAddress(WordAddress(ByteAddress(a))) = ByteAddress(a)
<1> DEFINE b == ByteAddress(a)
           h == Wrap \div 2
           c == IF 2 * a < Wrap THEN a ELSE a - h
<1>1. h \in Nat \ {0} /\ Wrap = 2 * h
  BY WrapAssumption
<1>2. a \in Nat /\ a < Wrap /\ 2 * a \in 0..(2 * Wrap - 1) /\ Wrap \in Nat \ {0}
  BY WrapAssumption DEF Address
<1>3. b = IF 2 * a < Wrap THEN 2 * a ELSE 2 * a - Wrap
  BY <1>2, SmallRemainder DEF ByteAddress
<1>4. c \in Nat /\ b = 2 * c /\ c < h
  <2> HIDE DEF h, b
  <2> QED BY <1>1, <1>2, <1>3
<1> HIDE DEF c, h, b
<1>5. WordAddress(b) = c
  BY <1>4 DEF WordAddress
<1>6. ByteAddress(c) = 2 * c
  <2>1. 2 * c \in 0..(2 * Wrap - 1) /\ 2 * c < Wrap
    BY <1>1, <1>4
  <2> QED BY <1>2, <2>1, SmallRemainder DEF ByteAddress
<1>7. b \in Address /\ c \in Address
  BY <1>1, <1>4 DEF Address
<1> QED BY <1>4, <1>5, <1>6, <1>7 DEF b

\* The program counter wraps.
LEMMA AdvanceTyped ==
  ASSUME NEW a \in Address, NEW words \in {1, 2}
  PROVE  (a + words) % Wrap \in Address
BY WrapAssumption, Z3 DEF Address

-----------------------------------------------------------------------------
LEMMA InitTyped == Init => TypeOK
<1> SUFFICES ASSUME Init PROVE TypeOK
  OBVIOUS
<1>1. pc \in Address /\ wp \in Workspaces /\ st \in Status
  BY WrapAssumption, ContextAssumption DEF Init, Address, Status
<1>2. frame \in [r13 : Workspaces, r14 : Address, r15 : Status] /\ interrupted \in Context
  BY <1>1 DEF Init, Context
<1>3. storing \subseteq Flags /\ ticking \in BOOLEAN /\ phase \in Phases /\ isr \in Routine
  BY DEF Init, Phases, Routine
<1> QED BY <1>1, <1>2, <1>3 DEF Init, TypeOK

(* Type correctness: registers, frame and flags stay in range whatever the   *)
(* programs execute and however the renderer's stores fall between.          *)
THEOREM TypeCorrect == Safety => []TypeOK
<1> USE DEF TypeOK
<1>1. Init => TypeOK
  BY InitTyped
<1>2. TypeOK /\ [Next]_vars => TypeOK'
  <2> SUFFICES ASSUME TypeOK, [Next]_vars PROVE TypeOK'
    OBVIOUS
  <2> USE ContextAssumption DEF cpuVars, rendererVars
  <2>1. CASE Tick
    BY <2>1 DEF Tick
  <2>2. CASE StoreInterrupt
    BY <2>2 DEF StoreInterrupt
  <2>3. CASE StoreVdpInt
    BY <2>3 DEF StoreVdpInt
  <2>4. CASE TestInterrupt
    BY <2>4 DEF TestInterrupt, Test, Phases
  <2>5. CASE Serve
    <3>1. ByteAddress(pc) \in Address
      BY AddressRoundTrip
    <3> QED BY <2>5, <3>1 DEF Serve, Take, Phases, Routine, Context, Address
  <2>6. ASSUME NEW m \in Masks, Limi(m) PROVE TypeOK'
    <3>1. pc' \in Address
      BY <2>6, AdvanceTyped DEF Limi, Advance
    <3> QED BY <2>6, <3>1 DEF Limi, Status, Phases, Routine
  <2>7. CASE TestBit
    BY <2>7 DEF TestBit, Status, Phases
  <2>8. CASE ClearBit
    <3>1. pc' \in Address
      BY <2>8, AdvanceTyped DEF ClearBit, Advance
    <3> QED BY <2>8, <3>1 DEF ClearBit, Phases, Routine
  <2>9. CASE RoutineStep
    BY <2>9 DEF RoutineStep, Status, Phases
  <2>10. CASE MainStep
    BY <2>10 DEF MainStep, Phases
  <2>11. CASE Rtwp
    <3>1. WordAddress(frame.r14) \in Address
      BY WrapAssumption DEF WordAddress, Address
    <3> QED BY <2>11, <3>1 DEF Rtwp, Phases, Routine
  <2>12. CASE SwitchTicking
    BY <2>12 DEF SwitchTicking
  <2>13. CASE UNCHANGED vars
    BY <2>13 DEF vars
  <2> QED BY <2>1, <2>2, <2>3, <2>4, <2>5, <2>6, <2>7, <2>8, <2>9, <2>10,
             <2>11, <2>12, <2>13 DEF Next
<1> QED BY <1>1, <1>2, PTL DEF Safety

-----------------------------------------------------------------------------
(* Why no interrupt nests: the routine has disabled interrupts before the    *)
(* next test.  Its first instruction is executed in the call that took the   *)
(* interrupt, so between two calls the routine is past its LIMI 0.           *)

RoutineMasksInterrupts ==
  /\ isr = "limi" => phase = "execute"
  /\ isr \in {"test", "body"} => st.mask < 2 /\ phase # "serve"

\* While the routine runs, the frame holds the context it interrupted.
FrameHoldsInterrupted ==
  isr # "none" => frame = [r13 |-> interrupted.wp,
                           r14 |-> ByteAddress(interrupted.pc),
                           r15 |-> interrupted.st]

ContextInv == RoutineMasksInterrupts /\ FrameHoldsInterrupted

LEMMA ContextInvNesting == TypeOK /\ ContextInv => NoNesting
BY DEF TypeOK, ContextInv, RoutineMasksInterrupts, NoNesting, Routine

LEMMA ContextInvHolds == Safety => []ContextInv
<1> USE DEF ContextInv, RoutineMasksInterrupts, FrameHoldsInterrupted
<1>1. Init => ContextInv
  BY DEF Init
<1>2. TypeOK /\ ContextInv /\ [Next]_vars => ContextInv'
  <2> SUFFICES ASSUME TypeOK, ContextInv, [Next]_vars PROVE ContextInv'
    OBVIOUS
  <2>1. CASE UNCHANGED cpuVars
    BY <2>1 DEF cpuVars, ByteAddress
  <2>2. CASE TestInterrupt
    <3>1. st.mask \in 0..15
      BY ContextAssumption DEF TypeOK, Status
    <3>2. isr \in {"test", "body"} => phase' # "serve"
      BY <2>2, <3>1 DEF TestInterrupt, Test
    <3>3. isr # "limi"
      BY <2>2 DEF TestInterrupt, Test
    <3> QED BY <2>2, <3>2, <3>3 DEF TestInterrupt, Test, ByteAddress
  <2>3. CASE Serve
    BY <2>3 DEF Serve, Take, ByteAddress
  <2>4. ASSUME NEW m \in Masks, Limi(m) PROVE ContextInv'
    BY <2>4, ContextAssumption DEF Limi, TypeOK, Status, ByteAddress
  <2>5. CASE TestBit
    BY <2>5 DEF TestBit, TypeOK, Status, ByteAddress
  <2>6. CASE ClearBit
    BY <2>6 DEF ClearBit, TypeOK, Status, ByteAddress
  <2>7. CASE RoutineStep
    BY <2>7 DEF RoutineStep, TypeOK, Status, ByteAddress
  <2>8. CASE MainStep
    BY <2>8 DEF MainStep
  <2>9. CASE Rtwp
    BY <2>9 DEF Rtwp
  <2> QED BY <2>1, <2>2, <2>3, <2>4, <2>5, <2>6, <2>7, <2>8, <2>9
          DEF Next, SwitchTicking, Tick, StoreInterrupt, StoreVdpInt, vars
<1> QED BY <1>1, <1>2, TypeCorrect, PTL DEF Safety

(* An interrupt is never taken inside the interrupt routine.                 *)
THEOREM InterruptsDoNotNest == Spec => []NoNesting
BY TypeCorrect, ContextInvHolds, ContextInvNesting, PTL DEF Spec

(* RTWP at the end of the routine goes back to the interrupted context.      *)
THEOREM RoutineResumesProgram == Spec => ResumesInterrupted
<1> DEFINE Step == isr # "none" /\ isr' = "none" => Resumes(interrupted)'
<1>1. TypeOK /\ ContextInv /\ [Next]_vars => [Step]_vars
  <2> SUFFICES ASSUME TypeOK, ContextInv, Next, isr # "none", isr' = "none"
               PROVE  Resumes(interrupted)'
    BY DEF Resumes
  <2>1. Rtwp
    BY DEF Next, SwitchTicking, Tick, StoreInterrupt, StoreVdpInt, cpuVars, TestInterrupt, Test,
           Serve, Take, Limi, TestBit, ClearBit, RoutineStep, MainStep, Routine
  <2>2. /\ st' = interrupted.st /\ wp' = interrupted.wp
        /\ pc' = WordAddress(ByteAddress(interrupted.pc))
        /\ UNCHANGED interrupted
    BY <2>1 DEF Rtwp, ContextInv, FrameHoldsInterrupted
  <2>3. interrupted.pc \in Address
    BY DEF TypeOK, Context
  <2> QED BY <2>2, <2>3, AddressRoundTrip DEF Resumes
<1> QED BY <1>1, TypeCorrect, ContextInvHolds, PTL DEF Spec, Safety, ResumesInterrupted

-----------------------------------------------------------------------------
(* The interrupt as the main program sees it. *)

\* What is about to be served is requested and allowed; and no one but the service itself
\* takes the request back.
ServiceInv == phase = "serve" => interrupt = 1 /\ isr = "none" /\ st.mask >= 2

LEMMA ServiceInvHolds == Safety => []ServiceInv
<1>1. Init => ServiceInv
  BY DEF Init, ServiceInv
<1>2. TypeOK /\ ContextInv /\ ServiceInv /\ [Next]_vars => ServiceInv'
  <2> SUFFICES ASSUME TypeOK, ContextInv, ServiceInv, [Next]_vars PROVE ServiceInv'
    OBVIOUS
  <2>1. CASE TestInterrupt
    <3>1. st.mask >= 2 => isr = "none"
      <4>1. isr \in {"test", "body"} => st.mask < 2
        BY DEF ContextInv, RoutineMasksInterrupts
      <4>2. isr # "limi" /\ isr \in Routine
        BY <2>1 DEF ContextInv, RoutineMasksInterrupts, TestInterrupt, Test, TypeOK
      <4>3. st.mask \in 0..15
        BY ContextAssumption DEF TypeOK, Status
      <4> QED BY <4>1, <4>2, <4>3 DEF Routine
    <3> QED BY <2>1, <3>1 DEF TestInterrupt, Test, ServiceInv
  <2>2. CASE SwitchTicking \/ Tick \/ StoreInterrupt \/ StoreVdpInt \/ UNCHANGED vars
    BY <2>2 DEF SwitchTicking, Tick, StoreInterrupt, StoreVdpInt, vars, cpuVars, ServiceInv
  <2>3. CASE Serve \/ (\E m \in Masks : Limi(m)) \/ TestBit \/ ClearBit \/ RoutineStep
             \/ MainStep \/ Rtwp
    BY <2>3 DEF Serve, Take, Limi, TestBit, ClearBit, RoutineStep, MainStep, Rtwp, ServiceInv
  <2> QED BY <2>1, <2>2, <2>3 DEF Next
<1> QED BY <1>1, <1>2, TypeCorrect, ContextInvHolds, PTL DEF Safety


\* Every step is a step of the abstract program, of its interrupt, or none at all.
LEMMA StepsArePreemption ==
  ASSUME TypeOK, TypeOK', ContextInv, ServiceInv, [Next]_vars
  PROVE  [Preempted!PreemptionNext]_(Preempted!preemptionVars)
<1> DEFINE Same == UNCHANGED <<Program, isr # "none", interrupt = 1>>
<1>1. Same => UNCHANGED Preempted!preemptionVars
  BY DEF Preempted!preemptionVars
<1>2. CASE SwitchTicking \/ Tick \/ StoreVdpInt \/ TestInterrupt \/ UNCHANGED vars
  <2>1. UNCHANGED <<pc, wp, st, frame, isr, interrupt>>
    BY <1>2 DEF SwitchTicking, Tick, StoreVdpInt, TestInterrupt, Test, vars, cpuVars
  <2>2. Program' = Program
    BY <2>1 DEF Program, ByteAddress
  <2> QED BY <1>1, <2>1, <2>2
<1>3. CASE StoreInterrupt
  <2>1. UNCHANGED <<pc, wp, st, frame, isr>> /\ interrupt' = 1
    BY <1>3 DEF StoreInterrupt, cpuVars
  <2>2. Program' = Program
    BY <2>1 DEF Program, ByteAddress
  <2>3. Preempted!Request
    BY <2>1, <2>2 DEF Preempted!Request
  <2> QED BY <2>3 DEF Preempted!PreemptionNext
<1>4. CASE Serve
  <2>1. interrupt = 1 /\ isr = "none" /\ st.mask >= 2
    BY <1>4 DEF ServiceInv, Serve, Take
  <2>2. Program = [at |-> ByteAddress(pc), wp |-> wp, st |-> st]
    BY <2>1 DEF Program
  <2>3. Program' = Program
    BY <1>4, <2>2 DEF Program, Serve, Take
  <2>4. isr' # "none" /\ interrupt' = 0
    BY <1>4 DEF Serve, Take
  <2>5. Preempted!Suspend
    BY <2>1, <2>2, <2>3, <2>4 DEF Preempted!Suspend, Preempted!Allows
  <2> QED BY <2>5 DEF Preempted!PreemptionNext
<1>5. CASE Rtwp
  <2>1. /\ isr = "body" /\ isr' = "none" /\ st' = frame.r15 /\ wp' = frame.r13
        /\ pc' = WordAddress(frame.r14) /\ UNCHANGED interrupt
    BY <1>5 DEF Rtwp
  <2>2. frame.r14 = ByteAddress(interrupted.pc) /\ interrupted.pc \in Address
    BY <2>1 DEF ContextInv, FrameHoldsInterrupted, TypeOK, Context
  <2>3. ByteAddress(WordAddress(frame.r14)) = frame.r14
    BY <2>2, AddressRoundTrip
  <2>4. Program' = Program
    BY <2>1, <2>3 DEF Program, ByteAddress
  <2>5. Preempted!Resume
    BY <2>1, <2>4 DEF Preempted!Resume
  <2> QED BY <2>5 DEF Preempted!PreemptionNext
<1>6. CASE (\E m \in Masks : Limi(m)) \/ TestBit \/ ClearBit \/ RoutineStep \/ MainStep
  <2>1. /\ UNCHANGED <<frame, interrupt>>
        /\ isr = "none" <=> isr' = "none"
    BY <1>6 DEF Limi, TestBit, ClearBit, RoutineStep, MainStep
  <2>2. CASE isr = "none"
    <3>1. Program' = [at |-> ByteAddress(pc'), wp |-> wp', st |-> st']
      BY <2>1, <2>2 DEF Program, ByteAddress
    <3>2. ByteAddress(pc') \in Address /\ wp' \in Workspaces /\ st' \in Status
      BY AddressRoundTrip DEF TypeOK
    <3>3. Preempted!Run
      BY <2>1, <2>2, <3>1, <3>2 DEF Preempted!Run
    <3> QED BY <3>3 DEF Preempted!PreemptionNext
  <2>3. CASE isr # "none"
    <3>1. Program' = Program
      BY <2>1, <2>3 DEF Program
    <3> QED BY <1>1, <2>1, <2>3, <3>1
  <2> QED BY <2>2, <2>3
<1> QED BY <1>2, <1>3, <1>4, <1>5, <1>6 DEF Next

(* To the main program the stores, the test, the service and the routine are one            *)
(* interrupt, taken only when allowed by its mask, which it does not notice.                 *)
THEOREM InterruptsAreTransparent == Spec => ImplementsPreemption
<1>1. Init => Preempted!PreemptionInit
  <2> SUFFICES ASSUME Init PROVE Preempted!PreemptionInit
    OBVIOUS
  <2>1. TypeOK
    BY InitTyped
  <2>2. Program = [at |-> ByteAddress(pc), wp |-> wp, st |-> st] /\ isr = "none" /\ interrupt = 0
    BY DEF Init, Program
  <2>3. ByteAddress(pc) \in Address /\ wp \in Workspaces /\ st \in Status
    BY <2>1, AddressRoundTrip DEF TypeOK
  <2> QED BY <2>2, <2>3 DEF Preempted!PreemptionInit
<1>2. TypeOK /\ TypeOK' /\ ContextInv /\ ServiceInv /\ [Next]_vars
        => [Preempted!PreemptionNext]_(Preempted!preemptionVars)
  BY StepsArePreemption
<1> QED BY <1>1, <1>2, TypeCorrect, ContextInvHolds, ServiceInvHolds, PTL
        DEF Spec, Safety, ImplementsPreemption, Preempted!PreemptionSpec
=============================================================================
