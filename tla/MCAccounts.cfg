CONSTANTS
  r1 = r1
  r2 = r2
  boss = boss
  other = other
  Requests <- MCRequests
  Users <- MCUsers
  Founders <- MCFounders
  MaxFailed = 2
  LockTime = 2
  CodeTime = 2
  MaxAttempts = 2
  MaxAdmins = 1
  MaxCodes = 2
  MaxBegun = 6
  MaxTime = 2
SPECIFICATION Spec
SYMMETRY MCSymmetry
INVARIANTS
  OldSessionsExplained
  LockoutComes
  CodesResetOnce
PROPERTIES
  LocksHold
CHECK_DEADLOCK FALSE
