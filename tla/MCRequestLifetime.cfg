CONSTANTS
  Threads = {t1}
  Runs = {q1, q2, q3}
  Cancels = {c1}
  None = None
SPECIFICATION Spec
INVARIANTS
  TypeOK
  SlotIsTheHeldRun
  StoresOutliveRouteWork
  ShutdownReachesEveryRun
  SettledRequestsLeaveNothing
  ClosedMeansDrained
PROPERTIES
  CancelHitsTheObservedRun
  StoresEventuallyDisposed
CHECK_DEADLOCK FALSE
