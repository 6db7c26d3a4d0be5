CONSTANTS
  a = a
  shift = shift
  fctn = fctn
  ctl = ctl
  sim = sim
  NoThread = NoThread
  Keys <- MCKeys
  Letters <- MCLetters
  HwKeys <- MCHwKeys
  Steppers <- MCSteppers
  Shift = shift
  Fctn = fctn
  Ctl = ctl
  Touched <- MCTouched
  Depth = 3
SPECIFICATION TouchSpec
INVARIANTS
  TouchTypeOK
  HeldStaysLatched
  FctnCoversLetter
