CONSTANTS
  Launches = {a}
  Kinds = {"bg", "turn", "found"}
  None = None
  MaxStops = 1
  MaxFaults = 1
  MaxRestarts = 1
  MaxBlocks = 1
  MaxOwed = 1
SPECIFICATION FairSpec
INVARIANT DetachedInv
INVARIANT LedgerIsTrue
PROPERTY StopSilences
PROPERTY KeepsNotices
PROPERTY NothingHangs
CHECK_DEADLOCK FALSE
