CONSTANTS
  ClientCalls = {c1, c2}
  GatedCalls = {g1}
  Requests = {r1, r2, r3}
  None = None
  MaxCrashes = 1
SPECIFICATION Spec
SYMMETRY Symmetry
INVARIANTS
  TypeOK
  LiveParksAreAnswerable
PROPERTIES
  ParksEndAnswered
  ResultsAreFinal
CHECK_DEADLOCK FALSE
