CONSTANTS
  Executions = {x1, x2}
  Cleanups = {k1, k2}
  None = None
  Exclusive <- MCExclusive
  Operations <- MCOperations
SPECIFICATION FairSpec
INVARIANTS
  TypeOK
  GateIsFair
  CommandsKeepTheirKeeper
  HandlesInUseAreLive
PROPERTIES
  RecoveryReplacesTheExhausted
  EverybodyIsServed
CHECK_DEADLOCK FALSE
