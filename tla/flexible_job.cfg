SPECIFICATION FlexSpec
CONSTANTS
  Scopes <- MCScopes
  Plans <- MCPlans
  Endings <- MCEndings
  More <- MCMore
  Inspecting = {1, 2}
  Top = 2
  MaxWorkers = 4
  MaxParallel = 2
  MaxQueue = 4
  MaxFollowups = 1
  MaxLeases = 1
  MaxRepeats = 1
  MaxObligations = 2
  MaxJudged = 1
  MaxGuidance = 1
  MaxStarts = 3
INVARIANT FlexInv
 
PROPERTY EvidenceKept
CHECK_DEADLOCK FALSE
