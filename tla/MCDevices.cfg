CONSTANTS
  None = None
  Torn = Torn
  Units = {"expansion", "vdp", "grom", "sound"}
  Size = 8
  Bytes = {1, 2}
  VdpBytes = {0, 1, 4, 7}
  GromBytes = {0, 7}
  LowWords = 1
  HighWords = 2
  VdpRegisters = 1
  RegisterNames = 2
  Run = 2
  PageSize = 8
  PageTop = 6
  ConsoleTop = 7
  CartSize = 16
  Generators = {0, 3}
  Tones = {0}
  LowBits = {0}
  HighBits = {1}
  Attenuations = {0, 15}
  Silent = 15
  QueueBound = 2
SPECIFICATION Spec
INVARIANTS
  DevicesTypeOK
  OneWindowReadsBack
  VdpAddressAsSent
  GromAddressAsSent
  ReadPairsInOrder
  SoundAsMeant
