CONSTANTS
  r1 = r1
  r2 = r2
  c3 = c3
  Runs = {r1, r2}
  Commands = {c1, c3}
  RunOf <- MCRunOf
  Deletes = {d1}
  None = None
  MaxCrashes = 0
SPECIFICATION Spec
INVARIANT
  ReusedIdsAreResolvedAgain
CHECK_DEADLOCK FALSE
