SPECIFICATION Spec
CONSTANTS
  MaxDepth = 3
  PathSchemes <- SomePathSchemes
  MaxBagCerts = 4
  MaxSignerInfos = 2
  MaxIssuers = 3
  Bytes = "bytes"
  Nothing = Nothing
  KeyLists <- SomeKeyLists
  Readers <- SomeReaders
  Foreign <- SomeForeign
INVARIANTS
  VerifiedIsGood
  GoodIsVerified
  SignedIsVerified
  RevocationAfterSignatures
PROPERTY VerifyReturns
CHECK_DEADLOCK FALSE
