CONSTANTS
  reminder = reminder
  customer = customer
  s1 = s1
  s2 = s2
  Occasions <- MCReminder
  Reminders <- MCReminder
  Recipients <- MCCustomer
  Owners <- MCNone
  Keys <- MCReminderKeys
  RecipientOf <- MCReminderTo
  KeyOf <- MCReminderKey
  Sweeps <- MCSweeps
  MaxAttempts = 2
SPECIFICATION FairSpec
INVARIANTS
  ResendsAreExcused
PROPERTIES
  SettledUnlessExcused
  EventuallySettled
