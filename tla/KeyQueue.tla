------------------------------ MODULE KeyQueue ------------------------------
(***************************************************************************)
(* The native keyboard: the matrix TMS9900.keyboard.keys the CRU reads,    *)
(* and the bounded queue through which the Android UI thread hands key     *)
(* changes to the thread that executes instructions (tms9900-core.c).      *)
(*                                                                         *)
(* Several threads may execute instructions: the simulator thread, and     *)
(* the debugger thread when it single-steps.  Each of them empties the     *)
(* whole queue, newest event first, under keyboard.lock at the start of    *)
(* every TMS9900_StepCPU call.  The trace record a drained event leaves    *)
(* behind, and the replay of such records, are not part of this module.    *)
(***************************************************************************)
EXTENDS Integers, Sequences

CONSTANTS Keys,      \* positions (CRU row, column) of the keyboard matrix
          Steppers,  \* threads that call TMS9900_StepCPU
          Depth,     \* slots of keyboard.data
          NoThread   \* keyboard.lock is free

ASSUME DepthAssumption == Depth \in Nat \ {0}
ASSUME NoThreadAssumption == NoThread \notin Steppers

VARIABLES keys,      \* the matrix: 1 is "bit set", which the TI reads as not pressed
          queue,     \* keyboard.data[0 .. queued-1], oldest event first
          lock,      \* the stepper that holds keyboard.lock, or NoThread
          running,   \* StepCPU is being called and returns past its exception test
          fault,     \* "none", or the undefined behaviour the program has run into
          level,     \* history: the state of the last change posted since a reset
          doubled    \* history: keys that had two events or more in the last
                     \* batch drained that held an event of theirs

queueVars == <<keys, queue, lock, running, fault, level, doubled>>

Event == [key : Keys, bit : {0, 1}]

\* The events of k that wait in the queue, by slot.
SlotsOf(k) == {i \in 1..Len(queue) : queue[i].key = k}

Pending(k) == SlotsOf(k) # {}

TypeOK ==
  /\ keys \in [Keys -> {0, 1}]
  /\ queue \in Seq(Event)
  /\ Len(queue) <= Depth
  /\ lock \in Steppers \cup {NoThread}
  /\ running \in BOOLEAN
  /\ fault \in {"none", "overflow", "race"}
  /\ level \in [Keys -> {0, 1}]
  /\ doubled \subseteq Keys

Init ==
  /\ keys = [k \in Keys |-> 1]
  /\ queue = << >>
  /\ lock = NoThread
  /\ running = TRUE
  /\ fault = "none"
  /\ level = [k \in Keys |-> 0]
  /\ doubled = {}

-----------------------------------------------------------------------------
(* TMS9900_Keyboard, on the UI thread. *)

\* The state Java sends is inverted before it is stored.
Inverted(s) == 1 - s

\* The critical section of the call.  With no slot left, the event lands in the
\* mutex that follows keyboard.data.
Store(k, s, fits) ==
  /\ fault = "none"
  /\ IF fits
     THEN /\ queue' = Append(queue, [key |-> k, bit |-> Inverted(s)])
          /\ level' = [level EXCEPT ![k] = s]
          /\ UNCHANGED fault
     ELSE /\ fault' = "overflow"
          /\ UNCHANGED <<queue, level>>
  /\ UNCHANGED <<keys, lock, running, doubled>>

\* Mutants of Post: the mutex is not taken; the bound is off by one.
Post_NoLock(k, s) == Store(k, s, Len(queue) < Depth)
Post_OffByOne(k, s) == lock = NoThread /\ Store(k, s, Len(queue) <= Depth)

\* The call takes the mutex; it does not test queued.
Post(k, s) == lock = NoThread /\ Store(k, s, Len(queue) < Depth)

-----------------------------------------------------------------------------
(* The drain at the start of TMS9900_StepCPU. *)

Acquire(t) ==
  /\ fault = "none"
  /\ running
  /\ lock = NoThread
  /\ lock' = t
  /\ doubled' = {k \in Keys : \/ \E i, j \in SlotsOf(k) : i # j
                              \/ k \in doubled /\ ~Pending(k)}
  /\ UNCHANGED <<keys, queue, running, fault, level>>

\* One turn of the while loop: the event in slot queued - 1 sets its bit.
DrainOne(t) ==
  /\ fault = "none"
  /\ lock = t
  /\ queue # << >>
  /\ LET e == queue[Len(queue)] IN keys' = [keys EXCEPT ![e.key] = e.bit]
  /\ queue' = SubSeq(queue, 1, Len(queue) - 1)
  /\ UNCHANGED <<lock, running, fault, level, doubled>>

\* Mutant of Release: one event per call ("if" in place of "while").
Release_OnePerCall(t) ==
  /\ lock = t
  /\ lock' = NoThread
  /\ UNCHANGED <<keys, queue, running, fault, level, doubled>>

Release(t) ==
  /\ fault = "none"
  /\ lock = t
  /\ queue = << >>
  /\ lock' = NoThread
  /\ UNCHANGED <<keys, queue, running, fault, level, doubled>>

-----------------------------------------------------------------------------
(* TMS9900_Reset, on the UI thread, clears the matrix and the queue without *)
(* the lock: done during a drain it is a data race, after which the drain   *)
(* may decrement a queued that is 0 already.                                *)

Reset ==
  /\ fault = "none"
  /\ IF lock = NoThread
     THEN /\ keys' = [k \in Keys |-> 1]
          /\ queue' = << >>
          /\ level' = [k \in Keys |-> 0]
          /\ doubled' = {}
          /\ UNCHANGED fault
     ELSE /\ fault' = "race"
          /\ UNCHANGED <<keys, queue, level, doubled>>
  /\ UNCHANGED <<lock, running>>

(* The simulator is paused or continued, or an exception is raised or       *)
(* cleared: while ~running no StepCPU call gets as far as the drain.        *)
StopStart ==
  /\ fault = "none"
  /\ running' = ~running
  /\ UNCHANGED <<keys, queue, lock, fault, level, doubled>>

\* Nothing is said of the program once its behaviour is undefined.
Undefined ==
  /\ fault # "none"
  /\ UNCHANGED queueVars

Drain == \E t \in Steppers : Acquire(t) \/ DrainOne(t) \/ Release(t)

Next ==
  \/ \E k \in Keys, s \in {0, 1} : Post(k, s)
  \/ \E t \in Steppers : Acquire(t)
  \/ \E t \in Steppers : DrainOne(t)
  \/ \E t \in Steppers : Release(t)
  \/ Reset
  \/ StopStart
  \/ Undefined

\* A thread that executes instructions keeps calling StepCPU, and leaves a
\* critical section it is in; nothing makes the user press or release a key.
Safety == Init /\ [][Next]_queueVars
Spec == Safety /\ WF_queueVars(Drain)

-----------------------------------------------------------------------------
(* Properties *)

\* Once no change of k waits in the queue, the matrix shows k as the user left
\* it -- provided the last batch drained for k held one event of k only.  (The
\* drain works newest first, so of two events in one batch the older one wins.)
MatrixTracksLevel ==
  fault = "none" =>
    \A k \in Keys : ~Pending(k) /\ k \notin doubled => keys[k] = Inverted(level[k])

\* A posted change reaches the matrix while instructions are being executed:
\* the UI thread cannot keep the executing thread from emptying the queue.
QueueDrains ==
  (fault = "none" /\ queue # << >>) ~> (queue = << >> \/ ~running \/ fault # "none")

\* The comment "ASSERT queued < queue depth" of TMS9900_Keyboard, in its weakest
\* reading: an event is only ever stored in a slot the queue has.
QueueDepthAsserted == fault # "overflow"

\* The comment "TI 99 decodes bit set as key not pressed" of TMS9900_Keyboard:
\* with every posted change drained, a bit is set exactly if the user's last
\* change of that key was a release.
BitSetMeansReleased ==
  fault = "none" /\ lock = NoThread /\ queue = << >>
    => \A k \in Keys : keys[k] = 1 <=> level[k] = 0
=============================================================================
