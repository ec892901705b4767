SPECIFICATION FairSpec
CONSTANTS
  Unlimited = 1000
  File <- FourBytes
  PartEnds <- ThreeParts
  Table <- SomeTable
  Strangers <- SomeStrangers
  Setups <- AllSetups
  MaxDamage = 1
  MaxSize = 2000
  None = None
INVARIANTS
  GapsAreUndelivered
  ContentsUnderstood
PROPERTIES
  ImplementsSeriesAssembly
  SeriesRecovered
CHECK_DEADLOCK FALSE
