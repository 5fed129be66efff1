SPECIFICATION Spec
CONSTANTS
  a = a
  b = b
  c = c
  Jobs = {"j", "k"}
  Workers = {a, b, c}
  JobOf <- MCJobOf
  None = None
  MaxTurns = 2
  MaxEvents = 1
SYMMETRY MCSymmetry
INVARIANT NativeInv
PROPERTY LinesStable
CHECK_DEADLOCK FALSE
