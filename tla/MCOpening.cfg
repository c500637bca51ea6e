CONSTANTS
  r1 = r1
  r2 = r2
  Requests <- MCRequests
  MaxVersions = 3
SPECIFICATION FairSpec
INVARIANTS
  ClosedTakesNoBooking
  ResumeActivatesSaves
PROPERTIES
  PausedKeepsSchedule
  AutoResumeEndsDuePauses
  DuePausesEnd
