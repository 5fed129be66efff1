CONSTANTS
  p = p
  q = q
  Schedules = {p}
  MaxTime = 3
  Due <- PThenBoth
  Ticks = {t1}
  Capacity = 1
  NoJob = NoJob
  MaxStops = 1
  MaxFaults = 1
  MaxRestarts = 1
  MaxUnfinished = 1
SPECIFICATION FairSpec
INVARIANT ScheduleInv
PROPERTY OncePerOccurrence
PROPERTY KeepsOccurrences
PROPERTY ScheduleServes
CHECK_DEADLOCK FALSE
