CONSTANTS
  r1 = r1
  r2 = r2
  c3 = c3
  Runs = {r1, r2}
  Commands = {c1, c2, c3}
  RunOf <- MCRunOf
  Deletes = {d1}
  None = None
  MaxCrashes = 1
SPECIFICATION Spec
INVARIANTS
  TypeOK
  ReferencesAreSound
  NothingPhysicalIsLost
PROPERTIES
  CommandsKeepTheirSession
CHECK_DEADLOCK FALSE
