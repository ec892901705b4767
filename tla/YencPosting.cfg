SPECIFICATION FairPostingSpec
CONSTANTS
  Byte = {0, 1, 2, 3, 4}
  ZeroByte = 0
  CrcValue <- Spellings
  Crc32 <- Spelled
  MaxTotalSize = 4
  RequestedSizes <- NoSizes
  DecodedParts <- NoParts
  None = None
  File <- FourBytes
  PartEnds <- TwoHalves
  Setups <- TwoSetups
  MaxDamage = 2
INVARIANTS
  OutputIsFile
  BytesInPlace
PROPERTY FileRecovered
CHECK_DEADLOCK FALSE
