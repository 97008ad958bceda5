CONSTANTS
  ClientCalls = {c1}
  GatedCalls = {g1}
  Requests = {r1, r2, r3}
  None = None
  MaxCrashes = 0
SPECIFICATION Spec
INVARIANTS
  NeverADeadEnd
CHECK_DEADLOCK FALSE
