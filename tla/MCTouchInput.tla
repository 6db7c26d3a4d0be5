---------------------------- MODULE MCTouchInput ----------------------------
(* TouchInput for TLC: one letter, on the screen and on a hardware keyboard, *)
(* and the three modifiers of the screen.  A touch may start or end off the  *)
(* letter.  One thread executes instructions; the queue has its 3 slots.     *)
EXTENDS TouchInput, TLC

CONSTANTS a, shift, fctn, ctl, sim

MCKeys == {a, shift, fctn, ctl}
MCLetters == {a}
MCHwKeys == {a}
MCTouched == {shift, fctn, ctl}
MCSteppers == {sim}
=============================================================================
