----------------------------- MODULE TouchInput -----------------------------
(***************************************************************************)
(* How Android input becomes key changes: the on-screen keyboard           *)
(* (MyGLSurfaceView.onTouchEvent) with its one-shot SHIFT, FCTN and CTRL   *)
(* latches, and the hardware keys, over the native queue of KeyQueue.      *)
(*                                                                         *)
(* One handler makes up to three TIKeyboardChange calls.  They wait in     *)
(* outbox, and the instruction-executing threads run between them.         *)
(***************************************************************************)
EXTENDS KeyQueue

CONSTANTS Letters,        \* the keys of the screen that are posted as themselves
          HwKeys,         \* the keys a hardware keyboard or the joystick buttons send
          Shift, Fctn, Ctl, \* the matrix positions of the modifiers
          Touched         \* the modifiers the user touches on the screen

Modifiers == {Shift, Fctn, Ctl}

ASSUME KeysAssumption ==
  /\ Letters \subseteq Keys
  /\ HwKeys \subseteq Keys
  /\ Modifiers \subseteq Keys \ Letters
  /\ Touched \subseteq Modifiers
  /\ Shift # Fctn /\ Shift # Ctl /\ Fctn # Ctl

VARIABLES latch,   \* the modifiers latched: shiftLatch, fcntLatch, ctlLatch
          outbox,  \* the changes the running touch handler has still to post
          foreign, \* history: modifiers posted as pressed by another than this view
          chord    \* history: the letter, up before, pressed last as an FCTN chord,
                   \* while no other key is touched and no hardware key interferes

touchVars == <<latch, outbox, foreign, chord>>
vars == <<queueVars, touchVars>>

Change == [key : Keys, state : {0, 1}]

NoKey == "none"

TouchTypeOK ==
  /\ TypeOK
  /\ latch \subseteq Modifiers
  /\ outbox \in Seq(Change)
  /\ Len(outbox) <= 3
  /\ foreign \subseteq Modifiers
  /\ chord \in Letters \cup {NoKey}

TouchInit ==
  /\ Init
  /\ latch = {}
  /\ outbox = << >>
  /\ foreign = {}
  /\ chord = NoKey

-----------------------------------------------------------------------------
(* onTouchEvent: state is 1 for ACTION_DOWN and 0 for every other action     *)
(* (a move as well as a release), at the key under the finger.  Off the      *)
(* keyboard, and in full screen mode, the handler returns at once.           *)

UiIdle == outbox = << >> /\ fault = "none"

\* Touching a modifier only latches it; letting go of one does nothing.
TouchModifier(m) ==
  /\ UiIdle
  /\ latch' = latch \cup {m}
  /\ chord' = NoKey
  /\ UNCHANGED <<queueVars, outbox, foreign>>

On(k)  == [key |-> k, state |-> 1]
Off(k) == [key |-> k, state |-> 0]

IfLatched(m, change) == IF m \in latch THEN <<change>> ELSE << >>

\* Mutant of PressChanges: CTRL is pressed in an FCTN chord too.
PressChanges_NoReturn(k) ==
  IfLatched(Shift, On(Shift)) \o IfLatched(Fctn, On(Fctn)) \o IfLatched(Ctl, On(Ctl))
    \o <<On(k)>>

\* An FCTN chord ends the handler early: CTRL is not looked at.
PressChanges(k) ==
  IfLatched(Shift, On(Shift))
    \o (IF Fctn \in latch THEN <<On(Fctn)>> ELSE IfLatched(Ctl, On(Ctl)))
    \o <<On(k)>>

\* Mutant of ReleaseChanges: FCTN is let go before the key, like SHIFT.
ReleaseChanges_FctnFirst(k) ==
  IfLatched(Shift, Off(Shift)) \o IfLatched(Fctn, Off(Fctn)) \o <<Off(k)>>

\* Mutant of ReleaseChanges: CTRL is unlatched and not let go.
ReleaseChanges_KeepsCtrl(k) ==
  IfLatched(Shift, Off(Shift))
    \o (IF Fctn \in latch THEN <<Off(k), Off(Fctn)>> ELSE <<Off(k)>>)

\* SHIFT and CTRL are let go before the key, FCTN after it.
ReleaseChanges(k) ==
  IfLatched(Shift, Off(Shift))
    \o (IF Fctn \in latch THEN <<Off(k), Off(Fctn)>>
                          ELSE IfLatched(Ctl, Off(Ctl)) \o <<Off(k)>>)

\* The latches a handler consumes on release: CTRL only without FCTN.
Consumed == {Shift} \cup IF Fctn \in latch THEN {Fctn} ELSE {Ctl}

Down(k) == keys[k] = 0

TouchDown(k) ==
  /\ UiIdle
  /\ outbox' = PressChanges(k)
  /\ chord' = IF Fctn \in latch /\ level[k] = 0 /\ ~Down(k) THEN k ELSE NoKey
  /\ UNCHANGED <<queueVars, latch, foreign>>

\* Mutant of TouchOther: releasing a key clears every latch, posted or not.
TouchOther_ClearsAll(k) ==
  /\ UiIdle
  /\ outbox' = ReleaseChanges(k)
  /\ latch' = {}
  /\ chord' = IF chord = k THEN k ELSE NoKey
  /\ UNCHANGED <<queueVars, foreign>>

TouchOther(k) ==
  /\ UiIdle
  /\ outbox' = ReleaseChanges(k)
  /\ latch' = latch \ Consumed
  /\ chord' = IF chord = k THEN k ELSE NoKey
  /\ UNCHANGED <<queueVars, foreign>>

\* onKeyDown, onKeyUp and the joystick buttons: one change, no latch.
HwKey(k, s) ==
  /\ UiIdle
  /\ Post(k, s)
  /\ foreign' = {m \in foreign \cup ({k} \cap Modifiers) : level'[m] = 1}
  /\ chord' = IF k \in {chord, Fctn} THEN NoKey ELSE chord
  /\ UNCHANGED <<latch, outbox>>

\* The next TIKeyboardChange call of the running touch handler.
UiPost ==
  /\ outbox # << >>
  /\ Post(Head(outbox).key, Head(outbox).state)
  /\ outbox' = Tail(outbox)
  /\ foreign' = foreign \ {Head(outbox).key}
  /\ UNCHANGED <<latch, chord>>

\* The settings dialog resets the machine, on the same UI thread; the latches
\* of the view are not part of it.
UiReset ==
  /\ UiIdle
  /\ Reset
  /\ foreign' = {}
  /\ chord' = NoKey
  /\ UNCHANGED <<latch, outbox>>

\* Turning the device creates the activity anew, and a view with no latch set;
\* the native keyboard keeps its state, so a modifier that was pressed at that
\* moment has no one left to release it.
Recreate ==
  /\ UiIdle
  /\ latch' = {}
  /\ foreign' = {m \in Modifiers : level[m] = 1}
  /\ chord' = NoKey
  /\ UNCHANGED <<queueVars, outbox>>

Machine ==
  /\ \/ \E t \in Steppers : Acquire(t)
     \/ \E t \in Steppers : DrainOne(t)
     \/ \E t \in Steppers : Release(t)
     \/ StopStart
     \/ Undefined
  /\ UNCHANGED touchVars

TouchNext ==
  \/ \E m \in Touched : TouchModifier(m)
  \/ \E k \in Letters : TouchDown(k)
  \/ \E k \in Letters : TouchOther(k)
  \/ \E k \in HwKeys, s \in {0, 1} : HwKey(k, s)
  \/ UiPost
  \/ UiReset
  \/ Recreate
  \/ Machine

TouchSpec == TouchInit /\ [][TouchNext]_vars

-----------------------------------------------------------------------------
(* Properties *)

\* Between two handlers, a modifier that this view posted as pressed, and nobody as
\* released since, is still latched, so that the next key let go lets it go too.  No
\* order of presses, slides and chords leaves one down with nothing to release it: a
\* latch is cleared only by a handler that posts the release as well.
HeldStaysLatched ==
  UiIdle => \A m \in Modifiers \ foreign : level[m] = 1 => m \in latch

\* The program never sees the letter of an FCTN chord pressed without FCTN (it
\* would read another character), however its instructions fall between the
\* four changes of the chord -- while nothing else was touched, and unless two
\* changes of one of the two keys were drained together.
FctnCoversLetter ==
  /\ fault = "none"
  /\ lock = NoThread
  /\ chord # NoKey
  /\ {chord, Fctn} \cap doubled = {}
  /\ Down(chord)
  => Down(Fctn)
=============================================================================
