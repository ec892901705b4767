SPECIFICATION Spec
CONSTANTS
  MaxCerts = 3
  MaxEntries = 4
  CertLists <- SomeCertLists
  Messages <- SomeMessages
  Keys <- SomeKeys
  Nothing = Nothing
INVARIANTS
  EveryRecipientReads
  SearchIsExact
PROPERTY CallsReturn
CHECK_DEADLOCK FALSE
