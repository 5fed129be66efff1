CONSTANTS
  N = 2
  Daemons = {1, 2}
  Started = {1}
  MaxWork = 1
  MaxOthers = 1
  MaxFaults = 1
SPECIFICATION FairSpec
INVARIANT HandoffInv
INVARIANT HandoffIsQuiet
INVARIANT IntakeOpen
PROPERTY NoTurnOnPulledCode
PROPERTY QueuedWorkStarts
PROPERTY HandoffsEnd
CHECK_DEADLOCK FALSE
