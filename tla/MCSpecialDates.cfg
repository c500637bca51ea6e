CONSTANTS
  b1 = b1
  b2 = b2
  Bookings <- MCBookings
  LastDate = 1
  DayLength = 4
  Week = 2
  Interval = 2
  Lengths <- MCLengths
  Offsets <- MCOffsets
  Templates <- MCTemplates
  MaxSaved = 2
  MaxKept = 1
SPECIFICATION ScheduleSpec
SYMMETRY MCSymmetry
INVARIANTS
  SpecialDatesAreOfTheirDay
CHECK_DEADLOCK FALSE
