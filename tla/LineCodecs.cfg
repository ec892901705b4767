SPECIFICATION CodecSpec
CONSTANTS
  MaxUuData = 5
  MaxLine = 4
  Data <- PatternData
  MaxYencData = 3
  YencData <- CriticalData
  LineLengths <- Lengths
  SliceWidths <- Widths
INVARIANTS
  CodecsRoundTrip
  CodecsWireSafe
CHECK_DEADLOCK FALSE
