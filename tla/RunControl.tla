----------------------------- MODULE RunControl -----------------------------
(***************************************************************************)
(* Who runs the emulated CPU, and when: the simulator thread               *)
(* (TI99Simulator.run), the UI thread that pauses, saves and resets it     *)
(* (And99Activity), the debugger thread (SocketDebugBridge) and the        *)
(* renderer's thread that posts VDP interrupts (MyRenderer).  They meet at *)
(* breakLock and debugBreak; the native CPU itself has no lock.            *)
(*                                                                         *)
(* breakLock is explicit, and a critical section is as many steps as it    *)
(* has effects other threads can see.                                      *)
(***************************************************************************)
EXTENDS Integers

CONSTANT MaxLoop  \* the largest n of the debugger's "cont n"

ASSUME MaxLoopAssumption == MaxLoop \in Nat

VARIABLES debugBreak,   \* TI99Simulator.debugBreak
          breakLock,    \* the thread that holds breakLock, or "free"
          notified,     \* notifyAll has reached the simulator thread in wait()
          soundPaused,  \* TISoundGenerator.mPaused
          attached,     \* TI99Simulator.debugger is not null
          outSet,       \* SocketDebugBridge.out is not null
          contLoop,     \* SocketDebugBridge.contLoop
          exception,    \* TMS9900.exception
          sim, ui, dbg, gl,  \* where each thread is
          late          \* history: what was started since debugBreak was set

shared == <<debugBreak, breakLock, notified, soundPaused>>
debuggerVars == <<attached, outSet, contLoop>>
vars == <<shared, debuggerVars, exception, sim, ui, dbg, gl, late>>

Threads == {"sim", "ui", "dbg", "gl"}

\* breakCPU and continueCPU, between their two effects: the names of the places
\* where a thread holds breakLock.
SimLocked == {"contExit"}
UiLocked == {"pauseExit", "saveExit", "savedExit", "resumeExit"}
DbgLocked == {"greetExit", "breakExit", "contExit"}

SimAt == {"check", "parked", "clock", "run", "stopped", "mark", "trap",
          "report", "loop", "dec", "cont", "tail", "dead"} \cup SimLocked
UiAt == {"created", "front", "image", "back", "reset", "sound"} \cup UiLocked
DbgAt == {"accept", "connected", "greet", "prompt", "cont", "step", "image"}
           \cup DbgLocked
GlAt == {"draw", "post"}

Late == [runs : 0..2, steps : 0..2, ticks : 0..2]

TypeOK ==
  /\ debugBreak \in BOOLEAN
  /\ breakLock \in Threads \cup {"free"}
  /\ notified \in BOOLEAN
  /\ soundPaused \in BOOLEAN
  /\ attached \in BOOLEAN /\ outSet \in BOOLEAN
  /\ contLoop \in -1..MaxLoop
  /\ exception \in BOOLEAN
  /\ sim \in SimAt /\ ui \in UiAt /\ dbg \in DbgAt /\ gl \in GlAt
  /\ late \in Late

Nothing == [runs |-> 0, steps |-> 0, ticks |-> 0]

Init ==
  /\ debugBreak = FALSE
  /\ breakLock = "free"
  /\ notified = FALSE
  /\ soundPaused = FALSE
  /\ attached = FALSE /\ outSet = FALSE /\ contLoop = 0
  /\ exception = FALSE
  /\ sim = "check" /\ ui = "created" /\ dbg = "accept" /\ gl = "draw"
  /\ late = Nothing

-----------------------------------------------------------------------------
(* The critical sections of TI99Simulator. *)

\* What runs after this point was started late if debugBreak is set already.
StartLate(what) ==
  late' = IF debugBreak /\ late[what] < 2 THEN [late EXCEPT ![what] = @ + 1] ELSE late

SetBreak ==
  /\ debugBreak' = TRUE
  /\ late' = IF debugBreak THEN late ELSE Nothing

\* Mutant of BreakEnter: the lock is not held up to the second effect.
BreakEnter_NoLock(t) ==
  /\ breakLock = "free"
  /\ SetBreak
  /\ UNCHANGED <<breakLock, notified, soundPaused>>

\* breakCPU: set debugBreak, then stop the sound.
BreakEnter(t) ==
  /\ breakLock = "free"
  /\ breakLock' = t
  /\ SetBreak
  /\ UNCHANGED <<notified, soundPaused>>

BreakExit ==
  /\ soundPaused' = TRUE
  /\ breakLock' = "free"
  /\ UNCHANGED <<debugBreak, notified, late>>

\* continueCPU: clear debugBreak, then start the sound and wake the simulator.
ContinueEnter(t) ==
  /\ breakLock = "free"
  /\ breakLock' = t
  /\ debugBreak' = FALSE
  /\ UNCHANGED <<notified, soundPaused, late>>

\* Mutants of ContinueExit: the simulator is woken only with its sound off; it is
\* not woken.
ContinueExit_IfSilent ==
  /\ soundPaused' = FALSE
  /\ notified' = (sim = "parked" /\ soundPaused)
  /\ breakLock' = "free"
  /\ UNCHANGED <<debugBreak, late>>

ContinueExit_NoNotify ==
  /\ soundPaused' = FALSE
  /\ breakLock' = "free"
  /\ UNCHANGED <<debugBreak, notified, late>>

ContinueExit ==
  /\ soundPaused' = FALSE
  /\ notified' = (sim = "parked")
  /\ breakLock' = "free"
  /\ UNCHANGED <<debugBreak, late>>

-----------------------------------------------------------------------------
(* The simulator thread: TI99Simulator.run and, from it, the trap of the     *)
(* debug bridge.                                                             *)

SimGoes(from, to) == sim = from /\ sim' = to

SimOnly == UNCHANGED <<debuggerVars, exception, ui, dbg, gl>>

\* The test of debugBreak under breakLock; waiting lets the lock go.
Check ==
  /\ breakLock = "free"
  /\ SimGoes("check", IF debugBreak THEN "parked" ELSE "clock")
  /\ notified' = FALSE
  /\ UNCHANGED <<debugBreak, breakLock, soundPaused, late>> /\ SimOnly

\* wait() returns and debugBreak is tested again.
Wake ==
  /\ notified
  /\ SimGoes("parked", "check")
  /\ UNCHANGED <<shared, late>> /\ SimOnly

\* Mutant of SpuriousWake: debugBreak is tested before wait() only.
SpuriousWake_NoRetest ==
  /\ ~notified
  /\ SimGoes("parked", "clock")
  /\ UNCHANGED <<shared, late>> /\ SimOnly

\* Java allows wait() to return for no reason.
SpuriousWake ==
  /\ ~notified
  /\ SimGoes("parked", "check")
  /\ UNCHANGED <<shared, late>> /\ SimOnly

\* Less than 25000 cycles of real time have passed.
TooEarly ==
  /\ SimGoes("clock", "check")
  /\ UNCHANGED <<shared, late>> /\ SimOnly

\* With an exception pending, RunCPU returns at once, its cycles unused.
StartRun ==
  /\ SimGoes("clock", IF exception THEN "stopped" ELSE "run")
  /\ StartLate("runs")
  /\ UNCHANGED shared /\ SimOnly

\* RunCPU returns: out of cycles (its last instruction may have raised an
\* exception), or with cycles left at a breakpoint, an exception or an
\* instruction that leaves PC where it is.
EndRun ==
  /\ \E raised \in BOOLEAN : exception' = (exception \/ raised)
  /\ \/ SimGoes("run", "tail")
     \/ SimGoes("run", "stopped")
  /\ UNCHANGED <<shared, late, debuggerVars, ui, dbg, gl>>

\* "debugger != null"; without one the thread logs the registers and ends.
Stopped ==
  /\ SimGoes("stopped", IF attached THEN "mark" ELSE "dead")
  /\ UNCHANGED <<shared, late>> /\ SimOnly

MarkBreak ==
  /\ breakLock = "free"
  /\ SetBreak
  /\ SimGoes("mark", "trap")
  /\ UNCHANGED <<breakLock, notified, soundPaused>> /\ SimOnly

\* debugger.trap() reads the field again: a null reference ends the process.
CallTrap ==
  /\ SimGoes("trap", IF attached THEN "report" ELSE "dead")
  /\ UNCHANGED <<shared, late>> /\ SimOnly

\* trap writes to out, which has no value before the first client is set up; an
\* IOException on the way is caught.  Then the exception is cleared.
Report ==
  /\ SimGoes("report", IF outSet THEN "loop" ELSE "dead")
  /\ exception' = (exception /\ ~outSet)
  /\ UNCHANGED <<shared, late, debuggerVars, ui, dbg, gl>>

\* Mutant of TestLoop: "if (contLoop)" does not stop below 0.
TestLoop_NonZero ==
  /\ SimGoes("loop", IF contLoop # 0 THEN "dec" ELSE "tail")
  /\ UNCHANGED <<shared, late>> /\ SimOnly

TestLoop ==
  /\ SimGoes("loop", IF contLoop > 0 THEN "dec" ELSE "tail")
  /\ UNCHANGED <<shared, late>> /\ SimOnly

DecLoop ==
  /\ SimGoes("dec", "cont")
  /\ contLoop' = contLoop - 1
  /\ UNCHANGED <<shared, late, attached, outSet, exception, ui, dbg, gl>>

TrapContinue ==
  \/ SimGoes("cont", "contExit") /\ ContinueEnter("sim") /\ SimOnly
  \/ SimGoes("contExit", "tail") /\ ContinueExit /\ SimOnly

\* Mutant of Tail: debugBreak is tested once, before the loop.
Tail_NoTest ==
  /\ SimGoes("tail", "clock")
  /\ StartLate("steps")
  /\ UNCHANGED <<shared, debuggerVars, exception, ui, dbg, gl>>

\* The StepCPU that ends every turn of the loop, one that trapped included.
Tail ==
  /\ SimGoes("tail", "check")
  /\ StartLate("steps")
  /\ \E raised \in BOOLEAN : exception' = (exception \/ raised)
  /\ UNCHANGED <<shared, debuggerVars, ui, dbg, gl>>

-----------------------------------------------------------------------------
(* The UI thread: And99Activity. *)

UiGoes(from, to) == ui = from /\ ui' = to

UiOnly == UNCHANGED <<debuggerVars, exception, sim, dbg, gl>>

OnPause ==
  \/ UiGoes("front", "pauseExit") /\ BreakEnter("ui") /\ UiOnly
  \/ UiGoes("pauseExit", "back") /\ BreakExit /\ UiOnly

\* The first onResume finds the simulator and debugger threads running already.
OnResume ==
  \/ UiGoes("created", "resumeExit") /\ ContinueEnter("ui") /\ UiOnly
  \/ UiGoes("back", "resumeExit") /\ ContinueEnter("ui") /\ UiOnly
  \/ UiGoes("resumeExit", "front") /\ ContinueExit /\ UiOnly

\* The Save and Load buttons: break, sleep 10 ms, save or restore the image,
\* continue.  Nothing waits for the simulator thread to have stopped, so the
\* sleep is no step of its own.
ImageButton ==
  \/ UiGoes("front", "saveExit") /\ BreakEnter("ui") /\ UiOnly
  \/ UiGoes("saveExit", "image") /\ BreakExit /\ UiOnly
  \/ UiGoes("image", "savedExit") /\ ContinueEnter("ui") /\ UiOnly
  \/ UiGoes("savedExit", "front") /\ ContinueExit /\ UiOnly

\* The settings dialog has ended and the activity is still paused: reset the
\* CPU, then start the sound, without breakLock.
SettingsResult ==
  \/ UiGoes("back", "reset") /\ UNCHANGED <<shared, late>> /\ UiOnly
  \/ UiGoes("reset", "sound") /\ UNCHANGED <<shared, late>> /\ UiOnly
  \/ /\ UiGoes("sound", "back")
     /\ soundPaused' = FALSE
     /\ UNCHANGED <<debugBreak, breakLock, notified, late>> /\ UiOnly

-----------------------------------------------------------------------------
(* The debugger thread: SocketDebugBridge. *)

DbgGoes(from, to) == dbg = from /\ dbg' = to

DbgOnly == UNCHANGED <<debuggerVars, exception, sim, ui, gl>>

\* A client connects: attachDebugger first, then out, then breakCPU.
Attach ==
  /\ DbgGoes("accept", "connected")
  /\ attached' = TRUE
  /\ UNCHANGED <<shared, late, outSet, contLoop, exception, sim, ui, gl>>

OpenOut ==
  /\ DbgGoes("connected", "greet")
  /\ outSet' = TRUE
  /\ UNCHANGED <<shared, late, attached, contLoop, exception, sim, ui, gl>>

Greet ==
  \/ DbgGoes("greet", "greetExit") /\ BreakEnter("dbg") /\ DbgOnly
  \/ DbgGoes("greetExit", "prompt") /\ BreakExit /\ DbgOnly

CmdBreak ==
  \/ DbgGoes("prompt", "breakExit") /\ BreakEnter("dbg") /\ DbgOnly
  \/ DbgGoes("breakExit", "prompt") /\ BreakExit /\ DbgOnly

\* "cont" keeps the count of an earlier "cont n".
CmdCont ==
  /\ DbgGoes("prompt", "cont")
  /\ contLoop' \in {contLoop} \cup 0..MaxLoop
  /\ UNCHANGED <<shared, late, attached, outSet, exception, sim, ui, gl>>

DbgContinue ==
  \/ DbgGoes("cont", "contExit") /\ ContinueEnter("dbg") /\ DbgOnly
  \/ DbgGoes("contExit", "prompt") /\ ContinueExit /\ DbgOnly

\* "step", "save" and "load" enter the native code at once.
CmdNative ==
  /\ \/ DbgGoes("prompt", "step")
     \/ DbgGoes("prompt", "image")
  /\ UNCHANGED <<shared, late>> /\ DbgOnly

EndNative ==
  /\ \/ DbgGoes("step", "prompt") /\ \E raised \in BOOLEAN : exception' = (exception \/ raised)
     \/ DbgGoes("image", "prompt") /\ UNCHANGED exception
  /\ UNCHANGED <<shared, late, debuggerVars, sim, ui, gl>>

\* End of input, or an unknown command.
Detach ==
  /\ DbgGoes("prompt", "accept")
  /\ attached' = FALSE
  /\ UNCHANGED <<shared, late, outSet, contLoop, exception, sim, ui, gl>>

\* An IOException while talking to the client leaves the debugger attached.
ClientFails ==
  /\ DbgGoes(dbg, "accept")
  /\ dbg \in {"connected", "prompt"}
  /\ UNCHANGED <<shared, late>> /\ DbgOnly

-----------------------------------------------------------------------------
(* The renderer: DoVDPInterrupt tests debugBreak and then acts on it. *)

DrawFrame ==
  /\ breakLock = "free"
  /\ ~debugBreak
  /\ gl = "draw" /\ gl' = "post"
  /\ UNCHANGED <<shared, late, debuggerVars, exception, sim, ui, dbg>>

PostTick ==
  /\ gl = "post" /\ gl' = "draw"
  /\ StartLate("ticks")
  /\ UNCHANGED <<shared, debuggerVars, exception, sim, ui, dbg>>

-----------------------------------------------------------------------------
SimStep ==
  \/ Check \/ Wake \/ TooEarly \/ StartRun \/ EndRun \/ Stopped \/ MarkBreak
  \/ CallTrap \/ Report \/ TestLoop \/ DecLoop \/ TrapContinue \/ Tail

UiStep == OnPause \/ OnResume \/ ImageButton \/ SettingsResult

DbgStep ==
  \/ Attach \/ OpenOut \/ Greet \/ CmdBreak \/ CmdCont \/ DbgContinue
  \/ CmdNative \/ EndNative \/ Detach \/ ClientFails

Next ==
  \/ Check \/ Wake \/ SpuriousWake \/ TooEarly \/ StartRun \/ EndRun \/ Stopped
  \/ MarkBreak \/ CallTrap \/ Report \/ TestLoop \/ DecLoop \/ TrapContinue \/ Tail
  \/ OnPause \/ OnResume \/ ImageButton \/ SettingsResult
  \/ Attach \/ OpenOut \/ Greet \/ CmdBreak \/ CmdCont \/ DbgContinue
  \/ CmdNative \/ EndNative \/ Detach \/ ClientFails
  \/ DrawFrame \/ PostTick

Safety == Init /\ [][Next]_vars

\* Threads leave the sections they are in; the simulator thread gets breakLock
\* when it keeps asking (sections are short, and users slow), and real time
\* passes.  Nobody has to press a button, type a command or connect.
Spec ==
  /\ Safety
  /\ WF_vars(SimStep)
  /\ SF_vars(Check \/ MarkBreak \/ TrapContinue)
  /\ SF_vars(StartRun)
  /\ WF_vars(ui \in UiLocked /\ UiStep)
  /\ WF_vars(dbg \in DbgLocked /\ DbgStep)

-----------------------------------------------------------------------------
(* Properties *)

\* The simulator thread never sleeps through a continueCPU: outside the critical
\* sections, if it waits although debugBreak is clear, it has been notified.
NoLostWakeup ==
  breakLock = "free" /\ sim = "parked" /\ ~debugBreak => notified

\* Whenever the CPU is not stopped its sound is on, whoever stopped, continued or
\* reset it, and in whatever order.
RunningHasSound == breakLock = "free" /\ ~debugBreak => ~soundPaused

\* Setting debugBreak bounds what still happens: one slice of RunCPU and one
\* StepCPU at most are begun after it, and one VDP interrupt is posted.
BreakBoundsExecution == late.runs <= 1 /\ late.steps <= 1 /\ late.ticks <= 1

\* A CPU that is told to stop, and not to continue, stops.
BreakParks == debugBreak ~> (~debugBreak \/ sim \in {"parked", "dead"})

\* A CPU that is told to continue, and not to stop, runs again.
ContinueRuns == ~debugBreak ~> (debugBreak \/ sim \in {"run", "dead"})

\* The comment "assert that we only call this when we're paused" of
\* TI99Simulator.reset, in its weakest reading: debugBreak is set.
ResetOnlyWhenPaused == ui = "reset" => debugBreak
=============================================================================
