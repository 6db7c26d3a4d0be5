CONSTANTS
  Programs <- MCPrograms
  IntPC <- MCIntPC
  MainSize = 2
  Length = 7
  Ticks = 2
  Keys = 1
SPECIFICATION Spec
INVARIANTS
  
  ReplayUsesTrace
