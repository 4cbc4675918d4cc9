SPECIFICATION Spec
CONSTANTS
  None = None
  Unsupported = Unsupported
  DtoError = DtoError
  Brightnesses <- AllBrightnesses
  Kelvins <- AllKelvins
  Bytes = {0, 1, 64, 128, 200, 254, 255}
  Payloads = {0, 1, 16}
  MaxSpeeds = {3, 4, 5, 6, 7, 100}
INVARIANTS
  CommandsReadBack
  FramesWhole
