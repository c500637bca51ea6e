CONSTANTS
  r1 = r1
  r2 = r2
  k1 = k1
  k2 = k2
  Requests <- MCRequests
  Keys <- MCKeys
  MaxActive = 1
  MaxAttempts = 2
  MaxCodes = 3
SPECIFICATION Spec
SYMMETRY MCSymmetry
INVARIANTS
  CodesBuyOnce
  CapsHold
CHECK_DEADLOCK FALSE
