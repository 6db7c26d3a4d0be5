CONSTANTS
  k1 = k1
  k2 = k2
  sim = sim
  dbg = dbg
  NoThread = NoThread
  Keys <- MCKeys
  Steppers <- MCSteppers
  Depth = 3
SPECIFICATION Spec
INVARIANTS
  TypeOK
  MatrixTracksLevel
PROPERTY QueueDrains
