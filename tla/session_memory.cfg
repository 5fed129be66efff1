SPECIFICATION MemoryFairSpec
CONSTANTS
  Chats = {"a"}
  Jobs = {"z"}
  Facts = {"f"}
  None = None
  KeepRecent = 1
  LongCap = 1
  ColonyCap = 1
  ColonyEvery = 1
  MaxWrites = 2
  MaxEvents = 1
INVARIANT SessionInv
PROPERTY FactsKept
PROPERTY MemorySettles
CHECK_DEADLOCK FALSE
