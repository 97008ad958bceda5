CONSTANTS
  Prompts = {p0, p1}
  Legacy = {p0}
  Resumes = {r1, r2}
  Requests = {r1, r2, t1}
  Processes = {a, b}
  None = None
SPECIFICATION Spec
SYMMETRY Symmetry
INVARIANTS
  TypeOK
  DeliveryIsTheConsumers
PROPERTIES
  VoidSparesOwnPark
  RowsOnlyMoveForward
CHECK_DEADLOCK FALSE
