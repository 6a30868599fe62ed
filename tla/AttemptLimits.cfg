SPECIFICATION Spec
CONSTANTS
  Keys = {k1, k2, k3, k4}
  Requests = {r1, r2}
  Limit = 2
  Capacity = 2
  Window = 3
  Stall = 1
  MaxTime = 5
  MaxAttempts = 5
  None = None
SYMMETRY Symmetry
CHECK_DEADLOCK FALSE
INVARIANTS TypeOK BurstBound TableBound
PROPERTIES RefusalJustified WindowsSpec
