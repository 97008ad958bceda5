CONSTANTS
  Threads = {t1}
  Runs = {q1}
  Cancels = {c1}
  None = None
SPECIFICATION Spec
INVARIANTS
  DrainCoversRouteWork
CHECK_DEADLOCK FALSE
