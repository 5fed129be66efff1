CONSTANTS
  a = a
  b = b
  c = c
  dm = dm
  room = room
  NoJob = NoJob
  Jobs <- JobsAB
  Schedules <- OnlyB
  Injects <- None
  Asks <- None
  Chats <- OneChat
  ChatOf <- SameChat
  Revocable <- None
  Stops = {s1}
  SlowStop = FALSE
  Capacity = 2
  MaxRestarts = 1
  MaxFaults = 1
  MaxUpdates = 0
  MaxUnfinished = 1
SPECIFICATION FairSpec
PROPERTY EventuallySettles
PROPERTY KeepsLivePromise
CHECK_DEADLOCK FALSE
