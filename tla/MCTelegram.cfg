CONSTANTS
  u1 = u1
  u2 = u2
  u3 = u3
  u4 = u4
  c1 = c1
  c2 = c2
  b1 = b1
  code1 = code1
  code2 = code2
  Updates <- MCUpdates
  Chats <- MCChats
  Bookings <- MCBookings
  Codes <- MCCodes
SPECIFICATION Spec
SYMMETRY MCSymmetry
INVARIANTS
  OneCallEach
  DecidedInOwnersChat
  UsedTapsExplained
CHECK_DEADLOCK FALSE
