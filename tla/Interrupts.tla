----------------------------- MODULE Interrupts -----------------------------
(***************************************************************************)
(* The vertical interrupt of the TMS9900: raised by the renderer's thread  *)
(* with two plain stores, tested once per TMS9900_StepCPU, taken by saving *)
(* the context in the one frame at >83C0, acknowledged by the CRU bit test *)
(* of the interrupt routine, and left by RTWP.                             *)
(*                                                                         *)
(* The program that runs is external: the console ROM's interrupt routine  *)
(* (LIMI 0 at >0900, the bit test at >0914, RTWP at >0ABE), and any main   *)
(* program, which here may do whatever an instruction can do to the        *)
(* registers of the processor.                                             *)
(***************************************************************************)
EXTENDS Integers

CONSTANTS Wrap,       \* number of values of a register: 65536 in the code
          Workspaces, \* values the workspace pointer takes
          IntWP,      \* >83C0, the workspace of the interrupt routine
          IntPC,      \* >0900 / 2, its first instruction
          Masks       \* interrupt masks, the low four bits of ST

ASSUME WrapAssumption == Wrap \in Nat \ {0} /\ Wrap % 2 = 0
ASSUME ContextAssumption ==
  /\ IntWP \in Workspaces
  /\ IntPC \in 0..(Wrap - 1)
  /\ {0, 2} \subseteq Masks /\ Masks \subseteq 0..15

VARIABLES interrupt, vdpInt, \* TMS9900.interrupt and vdp_int
          storing,           \* the flags VDPInterrupt has still to store
          ticking,           \* whether the end of a frame raises the interrupt
          pc, wp, st,        \* PC (a word address), WP and ST
          frame,             \* R13, R14, R15 of the workspace at >83C0
          phase,             \* where StepCPU is
          isr,               \* where the interrupt routine is
          interrupted        \* history: the context the last interrupt stopped

cpuVars == <<pc, wp, st, frame, phase, isr, interrupted>>
rendererVars == <<storing, ticking>>
vars == <<interrupt, vdpInt, rendererVars, cpuVars>>

Address == 0..(Wrap - 1)
Status == [mask : Masks, equal : BOOLEAN]
Context == [pc : Address, wp : Workspaces, st : Status]

\* StepCPU is between two calls, about to serve an interrupt, about to execute
\* an instruction, or inside TB, after reading vdp_int and before clearing it.
Phases == {"idle", "serve", "execute", "acknowledge"}

\* The interrupt routine is not running, before its LIMI 0, before its bit
\* test, or in the rest of its body.
Routine == {"none", "limi", "test", "body"}

Flags == {"interrupt", "vdp_int"}

TypeOK ==
  /\ interrupt \in {0, 1} /\ vdpInt \in {0, 1}
  /\ storing \subseteq Flags
  /\ ticking \in BOOLEAN
  /\ pc \in Address /\ wp \in Workspaces /\ st \in Status
  /\ frame \in [r13 : Workspaces, r14 : Address, r15 : Status]
  /\ phase \in Phases
  /\ isr \in Routine
  /\ interrupted \in Context

Init ==
  /\ interrupt = 0 /\ vdpInt = 0
  /\ storing = {}
  /\ ticking = FALSE
  /\ pc = 0 /\ wp \in Workspaces \ {IntWP}
  /\ st = [mask |-> 0, equal |-> FALSE]
  /\ frame = [r13 |-> wp, r14 |-> 0, r15 |-> st]
  /\ phase = "idle"
  /\ isr = "none"
  /\ interrupted = [pc |-> pc, wp |-> wp, st |-> st]

-----------------------------------------------------------------------------
(* VDPInterrupt, at the end of a frame on the renderer's thread, and only    *)
(* with the display on (bit >40 of VDP register 1, as the frame read it), no *)
(* replay and the machine not paused.  The two stores are unordered plain    *)
(* writes: the CPU may see either one first.                                 *)

\* The program writes VDP register 1, or the user pauses or continues the machine.
SwitchTicking ==
  /\ ticking' = ~ticking
  /\ UNCHANGED <<interrupt, vdpInt, storing, cpuVars>>

Tick ==
  /\ ticking
  /\ storing = {}
  /\ storing' = Flags
  /\ UNCHANGED <<interrupt, vdpInt, ticking, cpuVars>>

StoreInterrupt ==
  /\ "interrupt" \in storing
  /\ interrupt' = 1
  /\ storing' = storing \ {"interrupt"}
  /\ UNCHANGED <<vdpInt, ticking, cpuVars>>

StoreVdpInt ==
  /\ "vdp_int" \in storing
  /\ vdpInt' = 1
  /\ storing' = storing \ {"vdp_int"}
  /\ UNCHANGED <<interrupt, ticking, cpuVars>>

-----------------------------------------------------------------------------
(* TMS9900_StepCPU *)

Test(taken) ==
  /\ phase = "idle"
  /\ phase' = IF interrupt = 1 /\ taken THEN "serve" ELSE "execute"
  /\ UNCHANGED <<interrupt, vdpInt, rendererVars, pc, wp, st, frame, isr, interrupted>>

\* Mutant of TestInterrupt: a level-2 interrupt needs a mask above 2.
TestInterrupt_Above == Test(st.mask > 2)

\* Mutant of TestInterrupt: the mask is not looked at.
TestInterrupt_Unmasked == Test(TRUE)

\* The one test per call, before the instruction is fetched.
TestInterrupt == Test(st.mask >= 2)

\* Mutant of ByteAddress: the top bit does not fall off.
ByteAddress_NoWrap(a) == 2 * a

\* A program counter shifted left or right by one bit in a 16-bit register.
ByteAddress(a) == (2 * a) % Wrap
WordAddress(b) == b \div 2

\* The context goes to the frame, with workspace savedWP; interrupt is cleared
\* last, and the mask is not lowered.
Take(savedWP, next) ==
  /\ phase = "serve"
  /\ wp' = IntWP
  /\ frame' = [r13 |-> savedWP, r14 |-> ByteAddress(pc), r15 |-> st]
  /\ pc' = IntPC
  /\ interrupt' = 0
  /\ phase' = next
  /\ isr' = "limi"
  /\ interrupted' = [pc |-> pc, wp |-> wp, st |-> st]
  /\ UNCHANGED <<vdpInt, rendererVars, st>>

\* Mutants of Serve: StepCPU returns once the interrupt is taken; WP is loaded
\* before it is saved.
Serve_Returns == Take(wp, "idle")
Serve_LoadsFirst == Take(IntWP, "execute")

\* TMS9900_Interrupt.  The same StepCPU call goes on to execute the first
\* instruction of the routine.
Serve == Take(wp, "execute")

Advance(words) == pc' = (pc + words) % Wrap

\* LIMI m, by the routine (m = 0) or by the main program.
Limi(m) ==
  /\ phase = "execute"
  /\ \/ isr = "limi" /\ m = 0 /\ isr' = "test"
     \/ isr = "none" /\ UNCHANGED isr
  /\ st' = [st EXCEPT !.mask = m]
  /\ Advance(2)
  /\ phase' = "idle"
  /\ UNCHANGED <<interrupt, vdpInt, rendererVars, wp, frame, interrupted>>

\* TB of CRU bit 2: the bit is the inverse of vdp_int, which is then cleared.
TestBit ==
  /\ phase = "execute"
  /\ isr # "limi"
  /\ st' = [st EXCEPT !.equal = (vdpInt = 0)]
  /\ phase' = "acknowledge"
  /\ UNCHANGED <<interrupt, vdpInt, rendererVars, pc, wp, frame, isr, interrupted>>

ClearBit ==
  /\ phase = "acknowledge"
  /\ vdpInt' = 0
  /\ Advance(1)
  /\ isr' = IF isr = "test" THEN "body" ELSE isr
  /\ phase' = "idle"
  /\ UNCHANGED <<interrupt, rendererVars, wp, st, frame, interrupted>>

\* Any other instruction of the routine: it leaves the mask and its frame alone.
RoutineStep ==
  /\ phase = "execute"
  /\ isr \in {"test", "body"}
  /\ pc' \in Address
  /\ wp' \in Workspaces
  /\ \E eq \in BOOLEAN : st' = [st EXCEPT !.equal = eq]
  /\ phase' = "idle"
  /\ UNCHANGED <<interrupt, vdpInt, rendererVars, frame, isr, interrupted>>

\* Any other instruction of the main program, RTWP from a BLWP included.
MainStep ==
  /\ phase = "execute"
  /\ isr = "none"
  /\ pc' \in Address
  /\ wp' \in Workspaces
  /\ st' \in Status
  /\ phase' = "idle"
  /\ UNCHANGED <<interrupt, vdpInt, rendererVars, frame, isr, interrupted>>

\* RTWP at the end of the routine, executed in the routine's own workspace.
Rtwp ==
  /\ phase = "execute"
  /\ isr = "body"
  /\ wp = IntWP
  /\ st' = frame.r15
  /\ pc' = WordAddress(frame.r14)
  /\ wp' = frame.r13
  /\ isr' = "none"
  /\ phase' = "idle"
  /\ UNCHANGED <<interrupt, vdpInt, rendererVars, frame, interrupted>>

Execute ==
  \/ \E m \in Masks : Limi(m)
  \/ TestBit
  \/ RoutineStep
  \/ MainStep
  \/ Rtwp

Cpu == TestInterrupt \/ Serve \/ Execute \/ ClearBit
Renderer == Tick \/ StoreInterrupt \/ StoreVdpInt

Next ==
  \/ SwitchTicking
  \/ Tick \/ StoreInterrupt \/ StoreVdpInt
  \/ TestInterrupt \/ Serve
  \/ \E m \in Masks : Limi(m)
  \/ TestBit \/ ClearBit
  \/ RoutineStep \/ MainStep \/ Rtwp

Safety == Init /\ [][Next]_vars

\* The simulator executes instructions for ever; the renderer finishes the stores it
\* has begun, and begins them while the display stays on and nothing pauses it; the
\* ROM's routine reaches its bit test and its RTWP.
Spec ==
  /\ Safety
  /\ WF_vars(Cpu)
  /\ WF_vars(Renderer)
  /\ SF_vars(isr = "test" /\ TestBit)
  /\ SF_vars(Rtwp)

-----------------------------------------------------------------------------
(* Properties *)

\* An interrupt is never taken inside the interrupt routine, whose one frame
\* it would overwrite -- although taking an interrupt leaves the mask as it is:
\* the routine's LIMI 0 runs before the next test of interrupt.
NoNesting == phase = "serve" => isr = "none"

\* The same instruction, workspace and status: only the top bit of a word
\* address is lost, which no memory access uses.
Resumes(c) ==
  /\ st = c.st
  /\ wp = c.wp
  /\ ByteAddress(pc) = ByteAddress(c.pc)

\* When the routine ends, the program goes on at the instruction, in the
\* workspace and with the status it had when it was interrupted, whatever the
\* routine did to the registers and whenever ticks arrived meanwhile.
ResumesInterrupted ==
  [][isr # "none" /\ isr' = "none" => Resumes(interrupted)']_vars

\* The main program's context: in the registers, or in the frame while the routine runs.
Program ==
  IF isr = "none" THEN [at |-> ByteAddress(pc), wp |-> wp, st |-> st]
  ELSE [at |-> frame.r14, wp |-> frame.r13, st |-> frame.r15]

Preempted ==
  INSTANCE Preemption WITH
    Contexts <- [at : Address, wp : Workspaces, st : Status],
    program <- Program, suspended <- isr # "none", requested <- interrupt = 1

\* Two unordered stores, a test, the service in the same call and a routine of many
\* instructions in the same registers are, to the main program, one interrupt: taken only
\* when requested and allowed by its own mask, once per request, and never noticed.
ImplementsPreemption == Preempted!PreemptionSpec

\* A main program that enables interrupts again and again.
KeepsEnabling == []<>(phase = "idle" /\ isr = "none" /\ st.mask >= 2)

\* A session whose frames raise the interrupt again and again.  A program that blanks
\* the display, and a machine paused for good, have no such session: the last vdp_int
\* then stays set until a bit test of the program's own.
KeepsTicking == []<>(storing = Flags)

\* A frame tick is acknowledged by such a program in such a session: the interrupt
\* flag that is cleared last in TMS9900_Interrupt never takes a later vdp_int with it
\* for good.
TickSeen == KeepsEnabling /\ KeepsTicking => (vdpInt = 1 ~> vdpInt = 0)

\* The comment "all interrupts are VDP" of TMS9900_Interrupt, on which replay
\* relies to set vdp_int: an interrupt that is taken finds vdp_int set.
InterruptIsVdp == phase = "serve" => vdpInt = 1
=============================================================================
