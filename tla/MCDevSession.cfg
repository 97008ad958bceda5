CONSTANTS
  MaxSpawns = 3
  MaxEdits = 3
SPECIFICATION FairSpec
INVARIANTS
  TypeOK
  ChildrenAreAccountedFor
  NoEditIsForgotten
PROPERTIES
  SessionsSettle
CHECK_DEADLOCK FALSE
