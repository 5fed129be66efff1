SPECIFICATION FairSpec
CONSTANTS
  Texts = {"t"}
  Files = {}
  Inbound = {"u"}
  Calls = {"get"}
  NoOne = "none"
  LateWake = FALSE
  MaxTries = 2
  MaxFaults = 2
  MaxCopies = 2
  MaxStarts = 2
INVARIANT SignalInv
PROPERTY HearsAgain
CHECK_DEADLOCK FALSE
