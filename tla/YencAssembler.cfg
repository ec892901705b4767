SPECIFICATION Spec
CONSTANTS
  MaxSize = 3
  MaxData = 3
  Byte = {0, 1}
  ZeroByte = 0
  CrcValue = {0, 1}
  Crc32 <- Parity
  MaxTotalSize = 3
  RequestedSizes <- Sizes
  DecodedParts <- AllParts
  None = None
INVARIANTS
  TypeOK
  IntervalsDisjoint
  GapsExact
  CrcProvenance
  NeededPartAccepted
PROPERTIES
  FinishedFileVerified
  ImplementsFileAssembly
