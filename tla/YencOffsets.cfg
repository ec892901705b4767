SPECIFICATION PostingSpec
CONSTANTS
  Byte = {0, 1, 2, 3, 4}
  ZeroByte = 0
  CrcValue <- Spellings
  Crc32 <- Spelled
  MaxTotalSize = 4
  RequestedSizes <- NoSizes
  DecodedParts <- NoParts
  None = None
  File <- FourBytes
  PartEnds <- TwoHalves
  Setups <- TwoSetups
  MaxDamage = 2
PROPERTY OffsetlessPartRefused
CHECK_DEADLOCK FALSE
