CONSTANTS
  Windows = {5, 100}
  WaveSize = 2
  Recent = 1
  MaxRounds = 1
  MaxSegments = 2
  MaxRetries = 1
  MaxHangs = 1
  MaxShrinks = 1
  RepeatLimit = 1
  BlockedLimit = 2
  MaxIntents = 2
  MaxPrompts = 2
  MaxResumes = 3
  Batches <- MCBatches
  Reads <- MCReads
SPECIFICATION FairSpec
INVARIANT HttpInv
PROPERTY OutcomesDurable
PROPERTY RunsEnd
CHECK_DEADLOCK FALSE
