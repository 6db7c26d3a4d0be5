CONSTANTS
  None = None
  Partial = Partial
  Garbage = Garbage
  Sides = 2
  Tracks = 2
  Sectors = 1
  SectorSize = 2
  IdSize = 2
  Size = 4
  Numbers = {0, 1}
  Data = {0, 1}
  Disks <- MCDisks
  WriteBound = 2
  RamBound = 2
  Sessions = {"controller", "files"}
SPECIFICATION Spec
INVARIANTS
  DiskTypeOK
  InTransfer
  ReadsInOrder
PROPERTIES
  ImplementsStore
  RestoresSaved
