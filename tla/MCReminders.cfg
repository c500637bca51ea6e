CONSTANTS
  b1 = b1
  r1 = r1
  Bookings <- MCBookings
  Requests <- MCRequests
  Starts <- MCStarts
  Durations <- MCDurations
  MaxTime = 9
  Hour = 2
  Day = 5
SPECIFICATION FairRSpec
INVARIANTS
  RemindersWritten
  RemindersOfConfirmed
PROPERTIES
  DueBookingsComplete
CHECK_DEADLOCK FALSE
