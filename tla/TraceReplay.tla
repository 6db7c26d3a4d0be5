------------------------------ MODULE TraceReplay ------------------------------
(***************************************************************************)
(* The trace of interrupts and keys that TMS9900_StepCPU writes as it      *)
(* records and follows as it replays (tms9900-core.c), for a program that  *)
(* reads both inputs.  Records are stamped with icount, the number of      *)
(* instructions executed, and with PC.  The renderer draws no interrupts   *)
(* during a replay, and here nobody touches the keys then.                 *)
(*                                                                         *)
(* One session is recorded, from a reset on, and then replayed.            *)
(***************************************************************************)
EXTENDS Integers, Sequences

CONSTANTS Programs,   \* main programs, that loop, and the routine at IntPC
          IntPC,      \* >0900 / 2
          Length,     \* bound: instructions of a session
          Ticks,      \* bound: interrupts of a session
          Keys        \* bound: changes of the key

Successor(p, k) == IF p[k].last THEN 0 ELSE k + 1

\* A program executes known instructions only, and does not run off its end.
ASSUME ProgramsAssumption ==
  /\ Length \in Nat
  /\ \A p \in Programs :
       /\ {0, IntPC} \subseteq DOMAIN p
       /\ \A k \in DOMAIN p :
            /\ p[k].op \in {"LIMI0", "LIMI2", "TB", "STCR", "JEQ", "RTWP"}
            /\ p[k].op # "RTWP" => Successor(p, k) \in DOMAIN p
            /\ p[k].op = "JEQ" => Successor(p, Successor(p, k)) \in DOMAIN p

VARIABLES program,
          mode,      \* "record", "replay", or "exit" when replay gives up
          phase,     \* of StepCPU: "events" or "execute"
          cpu,       \* what the program can see: pc, mask, eq, vdp_int, key, frame
          icount,
          interrupt, \* of struct TMS9900
          queued,    \* changes of the key not yet drained, the oldest first
          storing,   \* flags VDPInterrupt has still to store
          trace,     \* the records written
          next,      \* the index of next_event, as far as there is one
          left,      \* bounds: ticks and key changes left
          path,      \* history: what each instruction of the recorded session saw
          unlike     \* history: the recorded machine knew of a tick when the replayed
                     \* one will not, or two records bear one icount

vars == <<program, mode, phase, cpu, icount, interrupt, queued, storing, trace, next, left,
          path, unlike>>

Start == [pc |-> 0, mask |-> 0, eq |-> FALSE, vdp |-> 0, key |-> 1,
          frame |-> [pc |-> 0, mask |-> 0, eq |-> FALSE]]

-----------------------------------------------------------------------------
(* Instructions *)

After(c) == [c EXCEPT !.pc = Successor(program, @)]

Executed(c) ==
  CASE program[c.pc].op = "LIMI0" -> After([c EXCEPT !.mask = 0])
    [] program[c.pc].op = "LIMI2" -> After([c EXCEPT !.mask = 2])
    [] program[c.pc].op = "TB" -> After([c EXCEPT !.eq = c.vdp = 0, !.vdp = 0])
    [] program[c.pc].op = "STCR" -> After([c EXCEPT !.eq = c.key = 0])
    [] program[c.pc].op = "JEQ" -> IF c.eq THEN After(After(c)) ELSE After(c)
    [] program[c.pc].op = "RTWP" -> [c EXCEPT !.pc = c.frame.pc, !.mask = c.frame.mask,
                                              !.eq = c.frame.eq]

\* TMS9900_Interrupt, to the machine.
Taken(c) == [c EXCEPT !.pc = IntPC, !.frame = [pc |-> c.pc, mask |-> c.mask, eq |-> c.eq]]

-----------------------------------------------------------------------------
(* Recording *)

\* VDPInterrupt: two stores in either order.
Tick ==
  /\ mode = "record" /\ storing = {} /\ left.ticks > 0
  /\ storing' = {"interrupt", "vdp_int"}
  /\ left' = [left EXCEPT !.ticks = @ - 1]
  /\ UNCHANGED <<program, mode, phase, cpu, icount, interrupt, queued, trace, next, path, unlike>>

StoreInterrupt ==
  /\ "interrupt" \in storing
  /\ interrupt' = 1
  /\ storing' = storing \ {"interrupt"}
  /\ UNCHANGED <<program, mode, phase, cpu, icount, queued, trace, next, left, path, unlike>>

StoreVdpInt ==
  /\ "vdp_int" \in storing
  /\ cpu' = [cpu EXCEPT !.vdp = 1]
  /\ storing' = storing \ {"vdp_int"}
  /\ UNCHANGED <<program, mode, phase, icount, interrupt, queued, trace, next, left, path, unlike>>

Key ==
  /\ mode = "record" /\ left.keys > 0
  /\ \E state \in {0, 1} : queued' = Append(queued, state)
  /\ left' = [left EXCEPT !.keys = @ - 1]
  /\ UNCHANGED <<program, mode, phase, cpu, icount, interrupt, storing, trace, next, path, unlike>>

\* The records one call writes: the interrupt, then the keys, the newest first.
KeyRecords(pc) ==
  [k \in 1..Len(queued) |->
     [type |-> "KEYBOARD", icount |-> icount, pc |-> pc, state |-> queued[Len(queued) + 1 - k]]]

RecordEvents ==
  /\ mode = "record" /\ phase = "events" /\ icount < Length
  /\ LET take == interrupt = 1 /\ cpu.mask >= 2
         c == IF take THEN Taken(cpu) ELSE cpu
         written == (IF take THEN <<[type |-> "INTERRUPT", icount |-> icount, pc |-> cpu.pc]>>
                     ELSE << >>) \o KeyRecords(c.pc)
     IN /\ cpu' = IF queued = << >> THEN c ELSE [c EXCEPT !.key = queued[1]]
        /\ interrupt' = IF take THEN 0 ELSE interrupt
        /\ trace' = trace \o written
        /\ unlike' = (unlike \/ Len(written) > 1 \/ (take /\ cpu.vdp = 0))
  /\ queued' = << >>
  /\ phase' = "execute"
  /\ UNCHANGED <<program, mode, icount, storing, next, left, path>>

\* A test of the bit sees a tick whose interrupt has not been taken.
EarlyTest == program[cpu.pc].op = "TB" /\ cpu.vdp = 1 /\ (interrupt = 1 \/ storing # {})

RecordExecute ==
  /\ mode = "record" /\ phase = "execute"
  /\ path' = Append(path, cpu)
  /\ unlike' = (unlike \/ EarlyTest)
  /\ cpu' = Executed(cpu)
  /\ icount' = icount + 1
  /\ phase' = "events"
  /\ UNCHANGED <<program, mode, interrupt, queued, storing, trace, next, left>>

\* Mutant of Reset: the trace of the session before is kept.
Reset_KeepsTrace ==
  /\ mode = "record" /\ phase = "events" /\ storing = {}
  /\ cpu' = Start /\ icount' = 0 /\ interrupt' = 0 /\ queued' = << >>
  /\ path' = << >> /\ unlike' = FALSE
  /\ UNCHANGED <<program, mode, phase, storing, trace, next, left>>

\* A reset begins another trace.
Reset ==
  /\ mode = "record" /\ phase = "events" /\ storing = {}
  /\ cpu' = Start /\ icount' = 0 /\ interrupt' = 0 /\ queued' = << >>
  /\ trace' = << >> /\ path' = << >> /\ unlike' = FALSE
  /\ UNCHANGED <<program, mode, phase, storing, next, left>>

-----------------------------------------------------------------------------
(* Replaying *)

\* TMS9900_Create with replay set, which reads the first record.
StartReplay ==
  /\ mode = "record" /\ phase = "events" /\ icount = Length /\ storing = {}
  /\ mode' = "replay"
  /\ cpu' = Start /\ icount' = 0 /\ interrupt' = 0 /\ queued' = << >>
  /\ next' = 1
  /\ UNCHANGED <<program, phase, storing, trace, left, path, unlike>>

\* next_event keeps the last record when there are no more; icount has passed it.
Due == next <= Len(trace) /\ trace[next].icount = icount

\* Mutant of ReplayEvents: the interrupt does not set vdp_int.
ReplayEvents_KeepsVdpInt ==
  /\ mode = "replay" /\ phase = "events" /\ icount < Length
  /\ IF ~Due THEN phase' = "execute" /\ UNCHANGED <<mode, cpu, next>>
     ELSE IF cpu.pc # trace[next].pc THEN mode' = "exit" /\ UNCHANGED <<phase, cpu, next>>
     ELSE /\ cpu' = IF trace[next].type = "INTERRUPT" THEN Taken(cpu)
                    ELSE [cpu EXCEPT !.key = trace[next].state]
          /\ next' = next + 1
          /\ phase' = "execute"
          /\ UNCHANGED mode
  /\ UNCHANGED <<program, icount, interrupt, queued, storing, trace, left, path, unlike>>

\* One record per call, whatever the next one bears; another PC ends the process.
ReplayEvents ==
  /\ mode = "replay" /\ phase = "events" /\ icount < Length
  /\ IF ~Due THEN phase' = "execute" /\ UNCHANGED <<mode, cpu, next>>
     ELSE IF cpu.pc # trace[next].pc THEN mode' = "exit" /\ UNCHANGED <<phase, cpu, next>>
     ELSE /\ cpu' = IF trace[next].type = "INTERRUPT" THEN [Taken(cpu) EXCEPT !.vdp = 1]
                    ELSE [cpu EXCEPT !.key = trace[next].state]
          /\ next' = next + 1
          /\ phase' = "execute"
          /\ UNCHANGED mode
  /\ UNCHANGED <<program, icount, interrupt, queued, storing, trace, left, path, unlike>>

ReplayExecute ==
  /\ mode = "replay" /\ phase = "execute"
  /\ cpu' = Executed(cpu)
  /\ icount' = icount + 1
  /\ phase' = "events"
  /\ UNCHANGED <<program, mode, interrupt, queued, storing, trace, next, left, path, unlike>>

Ended == mode = "exit" \/ (mode = "replay" /\ icount = Length)
Over == Ended /\ UNCHANGED vars

-----------------------------------------------------------------------------
Init ==
  /\ program \in Programs
  /\ mode = "record" /\ phase = "events"
  /\ cpu = Start /\ icount = 0 /\ interrupt = 0 /\ queued = << >> /\ storing = {}
  /\ trace = << >> /\ next = 0
  /\ left = [ticks |-> Ticks, keys |-> Keys]
  /\ path = << >> /\ unlike = FALSE

Next ==
  \/ Tick \/ StoreInterrupt \/ StoreVdpInt \/ Key
  \/ RecordEvents \/ RecordExecute \/ Reset
  \/ StartReplay \/ ReplayEvents \/ ReplayExecute \/ Over

Spec == Init /\ [][Next]_vars

-----------------------------------------------------------------------------
(* Properties *)

Seen(c) == [pc |-> c.pc, mask |-> c.mask, eq |-> c.eq, key |-> c.key, frame |-> c.frame]

\* A session in which no two records bear one icount, every interrupt is taken after its
\* vdp_int is set, and no bit test gets there before the interrupt, is replayed
\* instruction by instruction with the program counter, status, interrupt frame and key
\* of the recording, and never given up.
ReplayFollows ==
  ~unlike =>
    /\ mode # "exit"
    /\ mode = "replay" /\ phase = "execute" => Seen(cpu) = Seen(path[icount + 1])

\* In such a session every record is used by the time it is over.
ReplayUsesTrace == ~unlike /\ mode = "replay" /\ icount = Length => next = Len(trace) + 1
=============================================================================
