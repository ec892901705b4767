SPECIFICATION Spec
CONSTANTS
  Crc32 <- Spelled
  None = None
  MaxFragments = 3
  Messages <- AllMessages
  Ranges <- AllRanges
  Written <- KnownArticles
INVARIANTS
  IntactFound
  BlocksAreArticles
PROPERTY ScanEnds
CHECK_DEADLOCK FALSE
