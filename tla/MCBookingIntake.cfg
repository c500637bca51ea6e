CONSTANTS
  r1 = r1
  r2 = r2
  r3 = r3
  salon = salon
  barber = barber
  k1 = k1
  k2 = k2
  early = early
  late = late
  Requests <- MCRequests
  Businesses <- MCBusinesses
  Keys <- MCKeys
  Windows <- MCWindows
  Clashes <- MCClashes
SPECIFICATION Spec
SYMMETRY MCSymmetry
INVARIANTS
  BookingsApart
  FilesAccountedFor
  BookedIsTold
PROPERTIES
  ImplementsLedger
CHECK_DEADLOCK FALSE
