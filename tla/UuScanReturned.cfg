SPECIFICATION InlineSpec
CONSTANTS
  Unlimited = 1000
  MaxLines = 3
  MaxPlain = 4
  Inputs = {}
  Parts <- AllParts
  None = None
INVARIANT ValidBlocksReturned
CHECK_DEADLOCK FALSE
