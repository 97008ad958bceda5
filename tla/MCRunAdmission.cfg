CONSTANTS
  Owners = {o1, o2}
  None = None
  MaxHead = 2
SPECIFICATION FairSpec
INVARIANTS
  TypeOK
  ValidatedTxKeepsTheRow
PROPERTIES
  ExpiryIsFinal
  ImplementsOwnership
  LeasesEnd
CHECK_DEADLOCK FALSE
