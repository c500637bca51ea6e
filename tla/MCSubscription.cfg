CONSTANTS
  r1 = r1
  r2 = r2
  p1 = p1
  p2 = p2
  Requests <- MCRequests
  Proofs <- MCProofs
  Trial = 2
  TrialGrace = 1
  Paid = 2
  PaidGrace = 1
  MaxTime = 6
SPECIFICATION Spec
SYMMETRY MCSymmetry
INVARIANTS
  PeriodIsLatestApproval
  PaidSupersedesTrial
  VerdictJustified
PROPERTIES
  PaidTimeIsBought
