CONSTANTS
  b1 = b1
  b2 = b2
  r1 = r1
  r2 = r2
  Bookings <- MCBookings
  Requests <- MCRequests
  Starts <- MCStarts
  Durations <- MCDurations
  MaxTime = 2
SPECIFICATION Spec
SYMMETRY MCSymmetry
INVARIANTS
  RowsAgree
  ActiveHoldsSlot
  NoDoubleBookingUnlessFreed
PROPERTIES
  StatusFollowsMachine
  ImplementsCalendar
CHECK_DEADLOCK FALSE
