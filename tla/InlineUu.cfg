SPECIFICATION InlineSpec
CONSTANTS
  Unlimited = 1000
  MaxLines = 4
  MaxPlain = 5
  Inputs = {}
  Parts <- AllParts
  None = None
INVARIANTS
  AgreesWithDecode
  LossIsLocal
  SoundSliceIsBlock
PROPERTY CallReturns
CHECK_DEADLOCK FALSE
