CONSTANTS
  s1 = s1
  s2 = s2
  Selections <- MCSelections
  Nothing = Nothing
  d1 = d1
  d2 = d2
  Dates <- MCDates
  Times = {1}
  MaxSubmits = 2
  MaxChanges = 1
SPECIFICATION PageSpec
SYMMETRY MCSymmetry
INVARIANTS
  SubmittedWasOffered
  ReceiptTrue
  NoBookingForgotten
CHECK_DEADLOCK FALSE
