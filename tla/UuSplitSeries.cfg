SPECIFICATION Spec
CONSTANTS
  Unlimited = 1000
  File <- FourBytes
  PartEnds <- ThreeParts
  Table <- SomeTable
  Strangers <- SomeStrangers
  Setups <- SplitSetups
  MaxDamage = 1
  MaxSize = 2000
  None = None
PROPERTY CompleteSeriesDecodes
CHECK_DEADLOCK FALSE
