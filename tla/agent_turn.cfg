CONSTANTS
  Messages = {m1, m2}
  MaxRounds = 1
  MaxRecoveries = 2
  MaxStops = 1
SPECIFICATION FairSpec
INVARIANT TurnInv
INVARIANT LoggedOnce
PROPERTY TurnsEnd
CHECK_DEADLOCK FALSE
