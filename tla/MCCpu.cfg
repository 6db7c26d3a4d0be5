CONSTANTS
  None = None
  BitAnd <- MCAnd
  BitOr <- MCOr
  BitXor <- MCXor
  Device <- MCDevice
  Silent = {1023}
  WordBits = 10
  ByteBits = 5
  WordSize = 1024
  ByteSize = 32
  PadLow = 512
  PadHigh = 768
  PadSize = 128
  RomSize = 384
  Rom <- MCRom
  Behind <- MCBehind
  Columns = 8
  Matrix <- MCMatrix
  CardBase = 768
  MaskSize = 16
  Decode <- MCDecode
  Starts <- MCStarts
  Begin <- MCBegin
  Samples = {0, 1, 512, 1023}
SPECIFICATION Spec
INVARIANTS
  CpuTypeOK
  JumpsFollowComparison
  OnBoundary
  RoutinesCompute
PROPERTIES
  ReturnRestores
  TakesItsWords
  BranchesLand
  SumsSetFlags
  ProductsAndQuotients
