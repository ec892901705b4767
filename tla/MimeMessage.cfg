SPECIFICATION MessageSpec
CONSTANTS
  Unlimited = 1000
  MaxParts = 4
  MaxFew = 5
  Dangling = TRUE
  Messages <- AllMessages
  PreviewBytes = 8
  PreviewChars = 2
  BodiesIn <- SomeBodiesIn
  CallsIn <- SomeCallsIn
  ByteOrderMark = ByteOrderMark
  Replacement = Replacement
  Nothing = Nothing
  Mojibake = Mojibake
  ParsedAddress <- SomeAddresses
  ParsedDate <- SomeDates
  ParsedText <- SomeTexts
INVARIANTS
  DocumentOrder
  NothingDropped
  BothOrNeither
  SwitchingScoped
  LimitedIsPrefix
  PreviewIsBeginning
  OnlyBracketsCount
  FormsAgree
CHECK_DEADLOCK FALSE
