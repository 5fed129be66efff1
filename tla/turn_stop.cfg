CONSTANTS
  a = a
  b = b
  c = c
  dm = dm
  room = room
  NoJob = NoJob
  Jobs <- JobsAB
  Schedules <- OnlyB
  Injects <- None
  Asks <- OnlyA
  Chats <- OneChat
  ChatOf <- SameChat
  Revocable <- None
  Stops = {s1, s2}
  SlowStop = FALSE
  Capacity = 2
  MaxRestarts = 1
  MaxFaults = 0
  MaxUpdates = 1
  MaxUnfinished = 1
SPECIFICATION Spec
INVARIANT RestInv
INVARIANT QueueAtRest
PROPERTY StopDiscipline
PROPERTY StartsDurableHead
PROPERTY KeepsPromise
CHECK_DEADLOCK FALSE
