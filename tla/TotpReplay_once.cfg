SPECIFICATION Spec
CONSTANTS
  Logins = {l1}
  Codes = {2, 4}
  Requests = {r1, r2, r3}
  Period = 1
  Window = 1
  Retention = 4
  Stall = 1
  MaxTime = 6
SYMMETRY Symmetry
CHECK_DEADLOCK FALSE
INVARIANTS TypeOK CodeAcceptedOnce
