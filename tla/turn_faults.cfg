CONSTANTS
  a = a
  b = b
  c = c
  dm = dm
  room = room
  NoJob = NoJob
  Jobs <- JobsAB
  Schedules <- None
  Injects <- OnlyB
  Asks <- OnlyA
  Chats <- OneChat
  ChatOf <- SameChat
  Revocable <- OneChat
  Stops = {s1}
  SlowStop = TRUE
  Capacity = 2
  MaxRestarts = 1
  MaxFaults = 2
  MaxUpdates = 0
  MaxUnfinished = 1
SPECIFICATION Spec
INVARIANT QueueInv
PROPERTY NoRerunAfterAnswer
CHECK_DEADLOCK FALSE
