------------------------- MODULE SubscriptionProofs -------------------------
(***************************************************************************)
(* Proofs about module Subscription, for any number of requests and proofs *)
(* and any lengths of the bands.                                           *)
(*                                                                         *)
(* That paid time is bought needs nothing but the arithmetic of NextPeriod *)
(* under the lock.  The verdicts, reached without it, need an account of   *)
(* what each request may still rely on between its steps (Grounded).       *)
(***************************************************************************)
EXTENDS Subscription, TLAPS

\* Between the steps of a reconciliation: the status derived was right at some
\* time since it began; the persisted one is still the one it read again, or was
\* right at some time since, or somebody wrote a wrong one.
Grounded ==
  \A r \in Requests :
    /\ stage[r] \in {"behind", "advancing"} => want[r] \in asOf[r]
    /\ stage[r] = "advancing" =>
         status = from[r] \/ status \in asOf[r] \/ r \in misled
    /\ stage[r] = "written" => status \in asOf[r] \/ r \in misled

\* A business that has paid has at least one full period.
FullPeriod == period # 0 => period >= Paid

IInv ==
  /\ TypeOK
  /\ PeriodIsLatestApproval
  /\ FullPeriod
  /\ Grounded
  /\ VerdictJustified

-----------------------------------------------------------------------------
LEMMA CanonicalType ==
  ASSUME NEW p, NEW t
  PROVE  Canonical(p, t) \in Statuses
BY DEF Canonical, Statuses

\* An approval adds a full period to what was there, whatever has lapsed.
LEMMA NextPeriodAdds ==
  ASSUME NEW p \in Nat, NEW t \in Nat
  PROVE  /\ NextPeriod(p, t) \in Nat
         /\ NextPeriod(p, t) >= p + Paid
         /\ NextPeriod(p, t) # 0
BY BandAssumption DEF NextPeriod, PaidGraceEnd

\* What Observe does for the requests that are under way.
LEMMA ObserveFacts ==
  ASSUME TypeOK, Observe
  PROVE  /\ asOf' \in [Requests -> SUBSET Statuses]
         /\ misled' \subseteq Requests
         /\ misled \subseteq misled'
         /\ \A r \in Requests : stage[r] # "idle" =>
              /\ asOf[r] \subseteq asOf'[r]
              /\ status' = status \/ status' \in asOf'[r] \/ r \in misled'
BY CanonicalType DEF TypeOK, Observe, Busy

-----------------------------------------------------------------------------
(* Types.                                                                  *)

LEMMA InitInv == Init => IInv
BY BandAssumption DEF Init, IInv, TypeOK, PeriodIsLatestApproval, FullPeriod,
   Grounded, VerdictJustified, Statuses

\* Approving keeps the types, and the proof that was approved paid for the period.
LEMMA ApproveInv ==
  ASSUME TypeOK, PeriodIsLatestApproval, FullPeriod,
         NEW r \in Requests, NEW p \in Proofs, ApproveProof(r, p)
  PROVE  TypeOK' /\ PeriodIsLatestApproval' /\ FullPeriod'
<1> DEFINE n == NextPeriod(period, at[r])
<1>1. period \in Nat /\ at[r] \in Nat
  BY BandAssumption DEF TypeOK
<1>2. n \in Nat /\ n >= period + Paid /\ n # 0
  BY <1>1, NextPeriodAdds
<1>3. /\ review' = [review EXCEPT ![p] = "APPROVED"]
      /\ until' = [until EXCEPT ![p] = n]
      /\ period' = n /\ status' = "ACTIVE" /\ Observe
      /\ stage' = [stage EXCEPT ![r] = "approved"]
      /\ UNCHANGED <<now, want, from, at>>
  BY DEF ApproveProof, Go
<1> HIDE DEF n
<1>4. TypeOK'
  BY <1>2, <1>3, ObserveFacts DEF TypeOK, Statuses
<1>5. PeriodIsLatestApproval'
  <2>1. review'[p] = "APPROVED" /\ until'[p] = period'
    BY <1>3 DEF TypeOK
  <2>2. ASSUME NEW q \in Proofs, review'[q] = "APPROVED"
        PROVE  until'[q] <= period'
    <3>1. CASE q = p
      BY <3>1, <2>1, <1>2, <1>3
    <3>2. CASE q # p
      <4>1. until'[q] = until[q] /\ until[q] <= period /\ until[q] \in Nat
        BY <3>2, <2>2, <1>3 DEF TypeOK, PeriodIsLatestApproval
      <4> QED
        BY <4>1, <1>1, <1>2, <1>3, BandAssumption
    <3> QED
      BY <3>1, <3>2
  <2> QED
    BY <2>1, <2>2 DEF PeriodIsLatestApproval
<1>6. FullPeriod'
  BY <1>1, <1>2, <1>3, BandAssumption DEF FullPeriod
<1> QED
  BY <1>4, <1>5, <1>6

\* The other steps leave the paid period alone.
LEMMA TypeStep ==
  ASSUME TypeOK, PeriodIsLatestApproval, FullPeriod, [Next]_vars
  PROVE  TypeOK' /\ PeriodIsLatestApproval' /\ FullPeriod'
<1> USE DEF PeriodIsLatestApproval, FullPeriod
<1>1. ASSUME NEW r \in Requests, Reconcile(r)
      PROVE  TypeOK' /\ PeriodIsLatestApproval' /\ FullPeriod'
  BY <1>1, CanonicalType DEF TypeOK, Reconcile, Go, row, proofs
<1>2. ASSUME NEW r \in Requests, ReadAgain(r)
      PROVE  TypeOK' /\ PeriodIsLatestApproval' /\ FullPeriod'
  BY <1>2 DEF TypeOK, ReadAgain, Go, row, proofs
<1>3. ASSUME NEW r \in Requests, Advance(r)
      PROVE  TypeOK' /\ PeriodIsLatestApproval' /\ FullPeriod'
  BY <1>3, ObserveFacts DEF TypeOK, Advance, Go, proofs
<1>4. ASSUME NEW r \in Requests, ReadBack(r)
      PROVE  TypeOK' /\ PeriodIsLatestApproval' /\ FullPeriod'
  BY <1>4 DEF TypeOK, ReadBack, Go, row, proofs
<1>5. ASSUME NEW r \in Requests, Leave(r)
      PROVE  TypeOK' /\ PeriodIsLatestApproval' /\ FullPeriod'
  BY <1>5, BandAssumption DEF TypeOK, Leave, Go, row, proofs, Statuses
<1>6. ASSUME NEW r \in Requests, StartApproval(r)
      PROVE  TypeOK' /\ PeriodIsLatestApproval' /\ FullPeriod'
  BY <1>6 DEF TypeOK, StartApproval, Go, row, proofs
<1>7. ASSUME NEW p \in Proofs, SubmitProof(p) \/ RejectProof(p)
      PROVE  TypeOK' /\ PeriodIsLatestApproval' /\ FullPeriod'
  <2>1. /\ UNCHANGED <<now, row, until, request, asOf, misled>>
        /\ review[p] # "APPROVED"
        /\ review' \in [Proofs -> {"NONE", "PENDING", "APPROVED", "REJECTED"}]
        /\ \A q \in Proofs : review'[q] = "APPROVED" <=> review[q] = "APPROVED"
    BY <1>7 DEF TypeOK, SubmitProof, RejectProof
  <2> QED
    BY <2>1 DEF TypeOK, row, request
<1>8. CASE Tick
  <2>1. now' \in 0..MaxTime /\ Observe /\ UNCHANGED <<row, proofs, request>>
    BY <1>8, BandAssumption DEF TypeOK, Tick
  <2> QED
    BY <2>1, ObserveFacts DEF TypeOK, row, proofs, request
<1>9. CASE UNCHANGED vars
  BY <1>9 DEF TypeOK, vars, row, proofs, request
<1> QED
  BY <1>1, <1>2, <1>3, <1>4, <1>5, <1>6, <1>7, <1>8, <1>9, ApproveInv DEF Next

-----------------------------------------------------------------------------
(* Verdicts.                                                               *)

\* Steps that change the persisted status or the clock keep everybody grounded.
LEMMA ObserveGrounds ==
  ASSUME TypeOK, Grounded, VerdictJustified, Observe,
         NEW s \in Requests,
         stage'[s] = stage[s], want'[s] = want[s], from'[s] = from[s]
  PROVE  /\ stage'[s] \in {"behind", "advancing"} => want'[s] \in asOf'[s]
         /\ stage'[s] = "advancing" =>
              status' = from'[s] \/ status' \in asOf'[s] \/ s \in misled'
         /\ stage'[s] = "written" => status' \in asOf'[s] \/ s \in misled'
         /\ stage'[s] = "answered" => want'[s] \in asOf'[s] \/ s \in misled'
BY ObserveFacts DEF Grounded, VerdictJustified

LEMMA GroundedStep ==
  ASSUME TypeOK, Grounded, VerdictJustified, [Next]_vars
  PROVE  Grounded' /\ VerdictJustified'
<1> USE DEF Grounded, VerdictJustified
<1>1. ASSUME NEW r \in Requests, Reconcile(r)
      PROVE  Grounded' /\ VerdictJustified'
  BY <1>1 DEF TypeOK, Reconcile, Go, row, proofs
<1>2. ASSUME NEW r \in Requests, ReadAgain(r)
      PROVE  Grounded' /\ VerdictJustified'
  BY <1>2 DEF TypeOK, ReadAgain, Go, row, proofs
<1>3. ASSUME NEW r \in Requests, Advance(r)
      PROVE  Grounded' /\ VerdictJustified'
  <2>1. /\ Observe /\ UNCHANGED <<want, from>>
        /\ stage[r] = "advancing"
        /\ stage' = [stage EXCEPT ![r] = "written"]
        /\ status' = IF status = from[r] THEN want[r] ELSE status
    BY <1>3 DEF Advance, Go
  <2>2. stage'[r] = "written" /\ (status' \in asOf'[r] \/ r \in misled')
    BY <2>1, ObserveFacts DEF TypeOK
  <2>3. \A s \in Requests \ {r} : stage'[s] = stage[s]
    BY <2>1 DEF TypeOK
  <2> QED
    BY <2>1, <2>2, <2>3, ObserveGrounds
<1>4. ASSUME NEW r \in Requests, ReadBack(r)
      PROVE  Grounded' /\ VerdictJustified'
  BY <1>4 DEF TypeOK, ReadBack, Go, row, proofs
<1>5. ASSUME NEW r \in Requests, Leave(r)
      PROVE  Grounded' /\ VerdictJustified'
  BY <1>5 DEF TypeOK, Leave, Go, row, proofs
<1>6. ASSUME NEW r \in Requests, StartApproval(r)
      PROVE  Grounded' /\ VerdictJustified'
  BY <1>6 DEF TypeOK, StartApproval, Go, row, proofs
<1>7. ASSUME NEW r \in Requests, NEW p \in Proofs, ApproveProof(r, p)
      PROVE  Grounded' /\ VerdictJustified'
  <2>1. /\ Observe /\ UNCHANGED <<want, from>>
        /\ stage' = [stage EXCEPT ![r] = "approved"]
    BY <1>7 DEF ApproveProof, Go
  <2>2. stage'[r] = "approved" /\ \A s \in Requests \ {r} : stage'[s] = stage[s]
    BY <2>1 DEF TypeOK
  <2> QED
    BY <2>1, <2>2, ObserveGrounds
<1>8. ASSUME NEW p \in Proofs, SubmitProof(p) \/ RejectProof(p)
      PROVE  Grounded' /\ VerdictJustified'
  BY <1>8 DEF SubmitProof, RejectProof, row, request
<1>9. CASE Tick
  BY <1>9, ObserveGrounds DEF Tick, request
<1>10. CASE UNCHANGED vars
  BY <1>10 DEF vars, row, proofs, request
<1> QED
  BY <1>1, <1>2, <1>3, <1>4, <1>5, <1>6, <1>7, <1>8, <1>9, <1>10 DEF Next

-----------------------------------------------------------------------------
LEMMA Invariance == Spec => []IInv
<1>1. IInv /\ [Next]_vars => IInv'
  BY TypeStep, GroundedStep DEF IInv
<1> QED
  BY InitInv, <1>1, PTL DEF Spec

\* The types, and that a paid period and an approved proof go together: the
\* transaction of approveProof writes both.
THEOREM TypeCorrect == Spec => []TypeOK
<1>1. IInv => TypeOK
  BY DEF IInv
<1> QED
  BY <1>1, Invariance, PTL

\* The subscription runs until the end that its latest approval announced: the
\* end of the paid band and approvedUntil are written by one transaction, in an
\* order of approvals that never goes back.
THEOREM LatestApproval == Spec => []PeriodIsLatestApproval
<1>1. IInv => PeriodIsLatestApproval
  BY DEF IInv
<1> QED
  BY <1>1, Invariance, PTL

\* The trial bands never come back for a business that has paid, because the
\* paid bands are at least as long as the trial's (deriveCanonicalStatus).
THEOREM NoTrialAfterPayment == Spec => []PaidSupersedesTrial
<1>1. IInv => PaidSupersedesTrial
  <2> SUFFICES ASSUME IInv, period # 0
               PROVE  Canonical(period, now) \notin {"TRIAL", "TRIAL_GRACE"}
    BY DEF PaidSupersedesTrial
  <2>1. /\ period \in Nat /\ now \in Nat /\ period >= Paid
        /\ {Trial, TrialGrace, Paid, PaidGrace} \subseteq Nat
        /\ Paid + PaidGrace >= Trial + TrialGrace
    BY BandAssumption DEF IInv, TypeOK, FullPeriod
  <2>2. period + PaidGrace >= Trial + TrialGrace
    BY <2>1
  <2> QED
    BY <2>1, <2>2 DEF Canonical, PaidGraceEnd
<1> QED
  BY <1>1, Invariance, PTL

\* Whoever reconciles without the lock still goes by a status that was right
\* while it ran, unless a wrong one was written meanwhile (reconcileStatus).
THEOREM VerdictsJustified == Spec => []VerdictJustified
<1>1. IInv => VerdictJustified
  BY DEF IInv
<1> QED
  BY <1>1, Invariance, PTL

\* The paid period grows only by approvals of pending proofs, one proof and at
\* least one full period at a time (approveProof under the advisory lock).
THEOREM PaidTimeBought == Spec => PaidTimeIsBought
<1> DEFINE Bought ==
      period' # period =>
        /\ period' >= period + Paid
        /\ \E p \in Proofs :
             /\ review[p] = "PENDING" /\ review'[p] = "APPROVED"
             /\ until'[p] = period'
             /\ \A q \in Proofs \ {p} : review'[q] = review[q] /\ until'[q] = until[q]
<1>1. ASSUME IInv, [Next]_vars PROVE [Bought]_vars
  <2>1. ASSUME NEW r \in Requests, NEW p \in Proofs, ApproveProof(r, p)
        PROVE  Bought
    <3>1. period \in Nat /\ at[r] \in Nat
      BY <1>1, BandAssumption DEF IInv, TypeOK
    <3>2. period' >= period + Paid
      BY <2>1, <3>1, NextPeriodAdds DEF ApproveProof
    <3>3. /\ review[p] = "PENDING" /\ review'[p] = "APPROVED"
          /\ until'[p] = period'
          /\ \A q \in Proofs \ {p} : review'[q] = review[q] /\ until'[q] = until[q]
      BY <1>1, <2>1 DEF IInv, TypeOK, ApproveProof
    <3> QED
      BY <3>2, <3>3
  <2>2. ASSUME NEW r \in Requests,
               \/ Reconcile(r) \/ ReadAgain(r) \/ Advance(r) \/ ReadBack(r)
               \/ Leave(r) \/ StartApproval(r)
        PROVE  period' = period
    BY <2>2 DEF Reconcile, ReadAgain, Advance, ReadBack, Leave, StartApproval, row
  <2>3. ASSUME NEW p \in Proofs, SubmitProof(p) \/ RejectProof(p)
        PROVE  period' = period
    BY <2>3 DEF SubmitProof, RejectProof, row
  <2>4. CASE Tick
    BY <2>4 DEF Tick, row
  <2> QED
    BY <1>1, <2>1, <2>2, <2>3, <2>4 DEF Next
<1>2. Spec => [][Bought]_vars
  BY <1>1, Invariance, PTL DEF Spec
<1> QED
  BY <1>2 DEF PaidTimeIsBought
=============================================================================
