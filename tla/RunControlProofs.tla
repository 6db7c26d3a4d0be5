-------------------------- MODULE RunControlProofs --------------------------
(***************************************************************************)
(* Theorems about RunControl, for every bound on the debugger's count.     *)
(***************************************************************************)
EXTENDS RunControl, TLAPS

-----------------------------------------------------------------------------
(* Type correctness: every thread is where its code can be, and the count of *)
(* "cont n" goes below 0 by one at most, when a new "cont" races the trap's  *)
(* test and decrement.                                                       *)

\* The trap decrements what it has just seen to be positive, or what a "cont"
\* has stored since.
LoopInv == contLoop \in -1..MaxLoop /\ (sim = "dec" => contLoop >= 0)

LEMMA LateTyped ==
  ASSUME late \in Late
  PROVE  /\ SetBreak => late' \in Late
         /\ StartLate("runs") => late' \in Late
         /\ StartLate("steps") => late' \in Late
         /\ StartLate("ticks") => late' \in Late
<1>1. Nothing \in Late
  BY DEF Nothing, Late
<1>2. SetBreak => late' \in Late
  BY <1>1 DEF SetBreak
<1>3. StartLate("runs") => late' \in Late
  BY DEF StartLate, Late
<1>4. StartLate("steps") => late' \in Late
  BY DEF StartLate, Late
<1>5. StartLate("ticks") => late' \in Late
  BY DEF StartLate, Late
<1> QED BY <1>2, <1>3, <1>4, <1>5

SharedOK ==
  /\ debugBreak \in BOOLEAN
  /\ breakLock \in Threads \cup {"free"}
  /\ notified \in BOOLEAN
  /\ soundPaused \in BOOLEAN
  /\ late \in Late

\* The critical sections keep what the threads share in range.
LEMMA SharedTyped ==
  ASSUME SharedOK
  PROVE  /\ \A t \in Threads : BreakEnter(t) \/ ContinueEnter(t) => SharedOK'
         /\ BreakExit \/ ContinueExit => SharedOK'
<1>1. ASSUME NEW t \in Threads, BreakEnter(t) PROVE SharedOK'
  BY <1>1, LateTyped DEF SharedOK, BreakEnter, SetBreak
<1>2. ASSUME NEW t \in Threads, ContinueEnter(t) PROVE SharedOK'
  BY <1>2 DEF SharedOK, ContinueEnter
<1>3. CASE BreakExit
  BY <1>3 DEF SharedOK, BreakExit
<1>4. CASE ContinueExit
  BY <1>4 DEF SharedOK, ContinueExit
<1> QED BY <1>1, <1>2, <1>3, <1>4

PlacesOK ==
  /\ sim \in SimAt /\ ui \in UiAt /\ dbg \in DbgAt /\ gl \in GlAt

DebuggerOK ==
  /\ attached \in BOOLEAN /\ outSet \in BOOLEAN
  /\ LoopInv
  /\ exception \in BOOLEAN

LEMMA SimTyped ==
  ASSUME SharedOK, PlacesOK, DebuggerOK, SimStep \/ SpuriousWake
  PROVE  (SharedOK /\ PlacesOK /\ DebuggerOK)'
<1> USE DEF SimGoes, SimOnly
<1>1. CASE Check
  BY <1>1 DEF Check, SharedOK, PlacesOK, DebuggerOK, LoopInv, SimAt, debuggerVars
<1>2. CASE Wake \/ SpuriousWake \/ TooEarly
  BY <1>2 DEF Wake, SpuriousWake, TooEarly, SharedOK, PlacesOK, DebuggerOK, LoopInv,
              SimAt, shared, debuggerVars
<1>3. CASE StartRun
  BY <1>3, LateTyped DEF StartRun, SharedOK, PlacesOK, DebuggerOK, LoopInv, SimAt,
                         shared, debuggerVars
<1>4. CASE EndRun
  BY <1>4 DEF EndRun, SharedOK, PlacesOK, DebuggerOK, LoopInv, SimAt, shared, debuggerVars
<1>5. CASE Stopped \/ CallTrap
  BY <1>5 DEF Stopped, CallTrap, SharedOK, PlacesOK, DebuggerOK, LoopInv, SimAt,
              shared, debuggerVars
<1>6. CASE MarkBreak
  <2>1. SharedOK'
    BY <1>6, LateTyped DEF MarkBreak, SharedOK, SetBreak
  <2> QED BY <1>6, <2>1 DEF MarkBreak, PlacesOK, DebuggerOK, LoopInv, SimAt, debuggerVars
<1>7. CASE Report
  BY <1>7 DEF Report, SharedOK, PlacesOK, DebuggerOK, LoopInv, SimAt, shared, debuggerVars
<1>8. CASE TestLoop
  BY <1>8 DEF TestLoop, SharedOK, PlacesOK, DebuggerOK, LoopInv, SimAt, shared, debuggerVars
<1>9. CASE DecLoop
  <2>1. LoopInv'
    BY <1>9, MaxLoopAssumption DEF DecLoop, DebuggerOK, LoopInv
  <2> QED BY <1>9, <2>1 DEF DecLoop, SharedOK, PlacesOK, DebuggerOK, SimAt, shared
<1>10. CASE TrapContinue
  <2>1. "sim" \in Threads
    BY DEF Threads
  <2>2. SharedOK'
    BY <1>10, <2>1, SharedTyped DEF TrapContinue
  <2> QED BY <1>10, <2>2 DEF TrapContinue, PlacesOK, DebuggerOK, LoopInv, SimAt,
                             SimLocked, debuggerVars
<1>11. CASE Tail
  BY <1>11, LateTyped DEF Tail, SharedOK, PlacesOK, DebuggerOK, LoopInv, SimAt,
                          shared, debuggerVars
<1> QED BY <1>1, <1>2, <1>3, <1>4, <1>5, <1>6, <1>7, <1>8, <1>9, <1>10, <1>11 DEF SimStep

LEMMA UiTyped ==
  ASSUME SharedOK, PlacesOK, DebuggerOK, UiStep
  PROVE  (SharedOK /\ PlacesOK /\ DebuggerOK)'
<1> USE DEF UiGoes, UiOnly
<1>1. "ui" \in Threads
  BY DEF Threads
<1>2. SharedOK'
  BY <1>1, SharedTyped
     DEF UiStep, OnPause, OnResume, ImageButton, SettingsResult, SharedOK, shared
<1>3. ui' \in UiAt
  BY DEF UiStep, OnPause, OnResume, ImageButton, SettingsResult, UiAt, UiLocked
<1>4. UiOnly
  BY DEF UiStep, OnPause, OnResume, ImageButton, SettingsResult
<1> QED BY <1>2, <1>3, <1>4 DEF PlacesOK, DebuggerOK, LoopInv, debuggerVars

LEMMA DbgTyped ==
  ASSUME SharedOK, PlacesOK, DebuggerOK, DbgStep
  PROVE  (SharedOK /\ PlacesOK /\ DebuggerOK)'
<1> USE DEF DbgGoes, DbgOnly
<1>1. "dbg" \in Threads
  BY DEF Threads
<1>2. SharedOK'
  BY <1>1, SharedTyped
     DEF DbgStep, Attach, OpenOut, Greet, CmdBreak, CmdCont, DbgContinue, CmdNative,
         EndNative, Detach, ClientFails, SharedOK, shared
<1>3. dbg' \in DbgAt /\ UNCHANGED <<sim, ui, gl>>
  BY DEF DbgStep, Attach, OpenOut, Greet, CmdBreak, CmdCont, DbgContinue, CmdNative,
         EndNative, Detach, ClientFails, DbgAt, DbgLocked
<1>4. DebuggerOK'
  <2>1. CASE CmdCont
    BY <2>1, MaxLoopAssumption DEF CmdCont, DebuggerOK, LoopInv
  <2>2. CASE ~CmdCont
    BY <2>2 DEF DbgStep, Attach, OpenOut, Greet, CmdBreak, DbgContinue, CmdNative,
         EndNative, Detach, ClientFails, DebuggerOK, LoopInv, debuggerVars
  <2> QED BY <2>1, <2>2
<1> QED BY <1>2, <1>3, <1>4 DEF PlacesOK

THEOREM TypeCorrect == Spec => []TypeOK
<1> DEFINE Typed == SharedOK /\ PlacesOK /\ DebuggerOK
<1>1. Init => Typed
  <2> SUFFICES ASSUME Init PROVE Typed
    OBVIOUS
  <2>1. SharedOK
    <3>1. Nothing \in Late
      BY DEF Nothing, Late
    <3> QED BY <3>1 DEF Init, SharedOK
  <2>2. PlacesOK
    BY DEF Init, PlacesOK, SimAt, UiAt, DbgAt, GlAt
  <2>3. DebuggerOK
    <3>1. LoopInv
      BY MaxLoopAssumption DEF Init, LoopInv
    <3> QED BY <3>1 DEF Init, DebuggerOK
  <2> QED BY <2>1, <2>2, <2>3
<1>2. Typed /\ [Next]_vars => Typed'
  <2> SUFFICES ASSUME Typed, [Next]_vars PROVE Typed'
    OBVIOUS
  <2>1. CASE SimStep \/ SpuriousWake
    BY <2>1, SimTyped
  <2>2. CASE UiStep
    BY <2>2, UiTyped
  <2>3. CASE DbgStep
    BY <2>3, DbgTyped
  <2>4. CASE DrawFrame \/ PostTick \/ UNCHANGED vars
    BY <2>4, LateTyped DEF DrawFrame, PostTick, vars, SharedOK, PlacesOK, DebuggerOK,
                           LoopInv, GlAt, shared, debuggerVars
  <2> QED BY <2>1, <2>2, <2>3, <2>4 DEF Next, SimStep, UiStep, DbgStep
<1>3. Typed => TypeOK
  BY DEF SharedOK, PlacesOK, DebuggerOK, LoopInv, TypeOK
<1> QED BY <1>1, <1>2, <1>3, PTL DEF Spec, Safety

-----------------------------------------------------------------------------
(* breakLock excludes: a thread is inside a critical section exactly while   *)
(* it holds the lock.                                                        *)
LockHeld ==
  /\ breakLock = "sim" <=> sim \in SimLocked
  /\ breakLock = "ui" <=> ui \in UiLocked
  /\ breakLock = "dbg" <=> dbg \in DbgLocked

\* Between the two effects of breakCPU, debugBreak stays set.
BreakInProgress == ui \in {"pauseExit", "saveExit"} \/ dbg \in {"greetExit", "breakExit"}

\* Between the two effects of continueCPU.
ContinueInProgress ==
  sim = "contExit" \/ ui \in {"resumeExit", "savedExit"} \/ dbg = "contExit"

\* While debugBreak is clear, only a continueCPU still under way can have left
\* the simulator thread asleep, or the sound off.
SectionInv ==
  /\ LockHeld
  /\ BreakInProgress => debugBreak
  /\ sim = "parked" /\ ~debugBreak /\ ~notified => ContinueInProgress
  /\ soundPaused /\ ~debugBreak => ContinueInProgress

LEMMA SectionInvInit == Init => SectionInv
BY DEF Init, SectionInv, LockHeld, BreakInProgress, ContinueInProgress,
       SimLocked, UiLocked, DbgLocked

LEMMA SimKeepsSections ==
  ASSUME SectionInv, SimStep \/ SpuriousWake
  PROVE  SectionInv'
<1> USE DEF SectionInv, LockHeld, BreakInProgress, ContinueInProgress,
            SimLocked, UiLocked, DbgLocked, shared, SimGoes, SimOnly
<1>1. CASE Check
  BY <1>1 DEF Check
<1>2. CASE Wake \/ SpuriousWake
  BY <1>2 DEF Wake, SpuriousWake
<1>3. CASE TooEarly \/ StartRun \/ EndRun \/ Stopped
  BY <1>3 DEF TooEarly, StartRun, EndRun, Stopped
<1>4. CASE MarkBreak
  BY <1>4 DEF MarkBreak, SetBreak
<1>5. CASE CallTrap \/ Report \/ TestLoop \/ DecLoop \/ Tail
  BY <1>5 DEF CallTrap, Report, TestLoop, DecLoop, Tail
<1>6. CASE TrapContinue
  BY <1>6 DEF TrapContinue, ContinueEnter, ContinueExit
<1> QED BY <1>1, <1>2, <1>3, <1>4, <1>5, <1>6 DEF SimStep

LEMMA UiKeepsSections ==
  ASSUME SectionInv, UiStep
  PROVE  SectionInv'
<1> USE DEF SectionInv, LockHeld, BreakInProgress, ContinueInProgress,
            SimLocked, UiLocked, DbgLocked, shared, UiGoes, UiOnly
<1>1. CASE OnPause
  BY <1>1 DEF OnPause, BreakEnter, BreakExit, SetBreak
<1>2. CASE OnResume
  BY <1>2 DEF OnResume, ContinueEnter, ContinueExit
<1>3. CASE ImageButton
  BY <1>3 DEF ImageButton, BreakEnter, BreakExit, SetBreak, ContinueEnter, ContinueExit
<1>4. CASE SettingsResult
  BY <1>4 DEF SettingsResult
<1> QED BY <1>1, <1>2, <1>3, <1>4 DEF UiStep

LEMMA DbgKeepsSections ==
  ASSUME SectionInv, DbgStep
  PROVE  SectionInv'
<1> USE DEF SectionInv, LockHeld, BreakInProgress, ContinueInProgress,
            SimLocked, UiLocked, DbgLocked, shared, DbgGoes, DbgOnly
<1>1. CASE Attach \/ OpenOut \/ CmdCont \/ CmdNative
  BY <1>1 DEF Attach, OpenOut, CmdCont, CmdNative
<1>2. CASE Greet
  BY <1>2 DEF Greet, BreakEnter, BreakExit, SetBreak
<1>3. CASE CmdBreak
  BY <1>3 DEF CmdBreak, BreakEnter, BreakExit, SetBreak
<1>4. CASE DbgContinue
  BY <1>4 DEF DbgContinue, ContinueEnter, ContinueExit
<1>5. CASE EndNative \/ Detach \/ ClientFails
  BY <1>5 DEF EndNative, Detach, ClientFails
<1> QED BY <1>1, <1>2, <1>3, <1>4, <1>5 DEF DbgStep

LEMMA SectionInvHolds == Safety => []SectionInv
<1>1. SectionInv /\ [Next]_vars => SectionInv'
  <2> SUFFICES ASSUME SectionInv, [Next]_vars PROVE SectionInv'
    OBVIOUS
  <2>1. CASE SimStep \/ SpuriousWake
    BY <2>1, SimKeepsSections
  <2>2. CASE UiStep
    BY <2>2, UiKeepsSections
  <2>3. CASE DbgStep
    BY <2>3, DbgKeepsSections
  <2>4. CASE UNCHANGED <<shared, sim, ui, dbg>>
    BY <2>4 DEF SectionInv, LockHeld, BreakInProgress, ContinueInProgress,
                SimLocked, UiLocked, DbgLocked, shared
  <2> QED BY <2>1, <2>2, <2>3, <2>4
          DEF Next, SimStep, UiStep, DbgStep, DrawFrame, PostTick, vars
<1> QED BY <1>1, SectionInvInit, PTL DEF Safety

(* No interleaving of pauses, resumes, debugger commands and traps leaves    *)
(* the simulator thread waiting while debugBreak is clear.                   *)
THEOREM WakeupsAreNotLost == Spec => []NoLostWakeup
<1>1. SectionInv => NoLostWakeup
  BY DEF SectionInv, LockHeld, ContinueInProgress, NoLostWakeup,
         SimLocked, UiLocked, DbgLocked
<1> QED BY <1>1, SectionInvHolds, PTL DEF Spec

(* A running CPU has its sound on, in every interleaving.                    *)
THEOREM SoundFollowsCpu == Spec => []RunningHasSound
<1>1. SectionInv => RunningHasSound
  BY DEF SectionInv, LockHeld, ContinueInProgress, RunningHasSound,
         SimLocked, UiLocked, DbgLocked
<1> QED BY <1>1, SectionInvHolds, PTL DEF Spec

-----------------------------------------------------------------------------
(* Why a break stops the CPU soon: the simulator thread tests debugBreak     *)
(* before every slice, so what it begins after a break belongs to the turn   *)
(* of its loop that was under way; the renderer's test is as old at most.    *)

\* Places of the turn of run() after the test of debugBreak.
InTurn == SimAt \ {"check", "parked", "dead"}

LateInv ==
  /\ BreakBoundsExecution
  /\ debugBreak /\ sim = "clock" => late.runs = 0
  /\ debugBreak /\ sim \in InTurn => late.steps = 0
  /\ debugBreak /\ gl = "post" => late.ticks = 0

LEMMA LateStarted ==
  ASSUME TypeOK
  PROVE  /\ StartLate("runs") => /\ late'.runs = IF debugBreak /\ late.runs < 2 THEN late.runs + 1 ELSE late.runs
                                 /\ late'.steps = late.steps /\ late'.ticks = late.ticks
         /\ StartLate("steps") => /\ late'.steps = IF debugBreak /\ late.steps < 2 THEN late.steps + 1 ELSE late.steps
                                  /\ late'.runs = late.runs /\ late'.ticks = late.ticks
         /\ StartLate("ticks") => /\ late'.ticks = IF debugBreak /\ late.ticks < 2 THEN late.ticks + 1 ELSE late.ticks
                                  /\ late'.runs = late.runs /\ late'.steps = late.steps
BY DEF TypeOK, StartLate, Late

LEMMA BreakRestarts ==
  ASSUME SetBreak, ~debugBreak
  PROVE  late'.runs = 0 /\ late'.steps = 0 /\ late'.ticks = 0
BY DEF SetBreak, Nothing

(* After debugBreak is set, one slice, one instruction and one VDP interrupt *)
(* at most are still begun, until somebody continues the CPU.                *)
THEOREM BreakIsPrompt == Spec => []BreakBoundsExecution
<1>1. Init => LateInv
  BY DEF Init, LateInv, BreakBoundsExecution, Nothing
<1>2. TypeOK /\ LateInv /\ [Next]_vars => LateInv'
  <2> SUFFICES ASSUME TypeOK, LateInv, [Next]_vars PROVE LateInv'
    OBVIOUS
  <2> USE DEF LateInv, BreakBoundsExecution, InTurn, SimAt, SimLocked, shared
  <2>1. CASE Check \/ Wake \/ SpuriousWake \/ TooEarly
    BY <2>1 DEF Check, Wake, SpuriousWake, TooEarly, SimGoes, SimOnly
  <2>2. CASE StartRun
    BY <2>2, LateStarted DEF StartRun, SimGoes, SimOnly, TypeOK
  <2>3. CASE EndRun \/ Stopped \/ CallTrap \/ Report \/ TestLoop \/ DecLoop
    BY <2>3 DEF EndRun, Stopped, CallTrap, Report, TestLoop, DecLoop, SimGoes, SimOnly
  <2>4. CASE MarkBreak
    <3>1. CASE debugBreak
      BY <2>4, <3>1 DEF MarkBreak, SetBreak, SimGoes, SimOnly
    <3>2. CASE ~debugBreak
      BY <2>4, <3>2, BreakRestarts DEF MarkBreak, SimGoes, SimOnly
    <3> QED BY <3>1, <3>2
  <2>5. CASE TrapContinue
    BY <2>5 DEF TrapContinue, ContinueEnter, ContinueExit, SimGoes, SimOnly
  <2>6. CASE Tail
    BY <2>6, LateStarted DEF Tail, SimGoes, TypeOK
  <2>7. ASSUME NEW t \in Threads, BreakEnter(t), UNCHANGED <<sim, gl>> PROVE LateInv'
    <3>1. CASE debugBreak
      BY <2>7, <3>1 DEF BreakEnter, SetBreak
    <3>2. CASE ~debugBreak
      BY <2>7, <3>2, BreakRestarts DEF BreakEnter
    <3> QED BY <3>1, <3>2
  <2>8. ASSUME UNCHANGED <<late, sim, gl>>, debugBreak' = debugBreak \/ ~debugBreak' PROVE LateInv'
    BY <2>8
  <2>9. CASE UiStep
    <3>1. "ui" \in Threads
      BY DEF Threads
    <3> QED BY <2>7, <2>8, <2>9, <3>1
            DEF UiStep, OnPause, OnResume, ImageButton, SettingsResult, UiOnly,
                BreakExit, ContinueEnter, ContinueExit
  <2>10. CASE DbgStep
    <3>1. "dbg" \in Threads
      BY DEF Threads
    <3> QED BY <2>7, <2>8, <2>10, <3>1
            DEF DbgStep, Attach, OpenOut, Greet, CmdBreak, CmdCont, DbgContinue, CmdNative,
                EndNative, Detach, ClientFails, DbgOnly, BreakExit, ContinueEnter, ContinueExit
  <2>11. CASE DrawFrame
    BY <2>11 DEF DrawFrame
  <2>12. CASE PostTick
    BY <2>12, LateStarted DEF PostTick, TypeOK
  <2>13. CASE UNCHANGED vars
    BY <2>13 DEF vars
  <2> QED BY <2>1, <2>2, <2>3, <2>4, <2>5, <2>6, <2>9, <2>10, <2>11, <2>12, <2>13
          DEF Next, UiStep, DbgStep
<1>3. LateInv => BreakBoundsExecution
  BY DEF LateInv
<1> QED BY <1>1, <1>2, <1>3, TypeCorrect, PTL DEF Spec, Safety
=============================================================================
