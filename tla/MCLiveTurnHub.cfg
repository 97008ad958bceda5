CONSTANTS
  t1 = t1
  t2 = t2
  m = m
  k = k
  x = x
  Done = Done
  None = None
  Threads = {th1}
  Turns = {t1, t2}
  Viewers = {v1, v2}
  Messages = {m}
  Calls = {k}
  Events = {x}
  Size <- MCSize
  DigestMaxBytes = 5
  SubMaxBytes = 2
  SubMaxFrames = 2
  ViewerLimits = {1, 2}
  MaxLog <- MCMaxLog
SPECIFICATION FairSpec
INVARIANTS
  TypeOK
  EntriesAreTheLiveTurns
  SleepersHaveNothingToRead
PROPERTIES
  ImplementsBroadcast
  ViewersOfEndedTurnsFinish
CHECK_DEADLOCK FALSE
