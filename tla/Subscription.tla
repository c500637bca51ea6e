---------------------------- MODULE Subscription ----------------------------
(***************************************************************************)
(* The subscription of one business (subscription.service.ts,              *)
(* subscription-billing.service.ts, subscription-lifecycle.ts): trial and  *)
(* paid bands, the persisted status that is brought up to date whenever    *)
(* somebody asks, and the payment proofs that extend the paid band.        *)
(*                                                                         *)
(* Whoever asks (booking gate, owner view, resume, auto-resume) reconciles *)
(* first: read the row and derive the status its bands imply; if another   *)
(* one is persisted, read the row again, update it provided that it still  *)
(* has the status read last, and read it back.  None of this is under the  *)
(* advisory lock, so each read and write is a step of its own here.        *)
(* Reviews hold the lock; a review is one step.                            *)
(*                                                                         *)
(* Both ends of the paid band are written together, a constant apart, so   *)
(* the model keeps one.  The status history, which is written along with   *)
(* each change and read for display only, is left out.                     *)
(***************************************************************************)
EXTENDS Integers, FiniteSets

CONSTANTS Requests,    \* requests and sweeps being served at the same time
          Proofs,      \* subscription payment proofs
          Trial, TrialGrace, Paid, PaidGrace,   \* lengths of the bands
          MaxTime      \* bound on the clock

ASSUME BandAssumption ==
  /\ {Trial, TrialGrace, Paid, PaidGrace} \subseteq Nat \ {0}
  /\ Paid + PaidGrace >= Trial + TrialGrace
  /\ MaxTime \in Nat

VARIABLES
  now,      \* the clock; the business was created at 0
  status,   \* subscription.status
  period,   \* subscription.periodEndsAt (0: null)
  review,   \* subscription_proof.reviewState ("NONE": not submitted yet)
  until,    \* subscription_proof.approvedUntil (0: null)
  stage,    \* how far each request has come
  want,     \* the status it derived, in the end the one it answers by
  from,     \* the status it read right before its update
  at,       \* the time at which it began to approve
  asOf,     \* history: the statuses that were right at some time while it ran
  misled    \* history: the requests during which a wrong status was written

row == <<status, period>>
proofs == <<review, until>>
request == <<stage, want, from, at>>
vars == <<now, row, proofs, request, asOf, misled>>

Statuses == {"TRIAL", "TRIAL_GRACE", "ACTIVE", "PAID_GRACE", "EXPIRED"}
Eligible == Statuses \ {"EXPIRED"}

PaidGraceEnd(p) == p + PaidGrace

TrialFirst(p, t) ==   \* mutant: the trial is looked at before the paid grace
  IF p # 0 /\ t < p THEN "ACTIVE"
  ELSE IF t < Trial THEN "TRIAL"
  ELSE IF t < Trial + TrialGrace THEN "TRIAL_GRACE"
  ELSE IF p # 0 /\ t < PaidGraceEnd(p) THEN "PAID_GRACE"
  ELSE "EXPIRED"

\* deriveCanonicalStatus: the first band, paid before trial, that t falls in.
Canonical(p, t) ==
  IF p # 0 /\ t < p THEN "ACTIVE"
  ELSE IF p # 0 /\ t < PaidGraceEnd(p) THEN "PAID_GRACE"
  ELSE IF t < Trial THEN "TRIAL"
  ELSE IF t < Trial + TrialGrace THEN "TRIAL_GRACE"
  ELSE "EXPIRED"

FromToday(p, t) == t + Paid   \* mutant: what is still covered is forfeited

\* nextPeriodEndsAt: a further paid period after all that is covered, grace too.
NextPeriod(p, t) ==
  IF p # 0 /\ PaidGraceEnd(p) > t THEN PaidGraceEnd(p) + Paid ELSE t + Paid

Init ==
  /\ now = 0
  /\ status = "TRIAL"
  /\ period = 0
  /\ review = [p \in Proofs |-> "NONE"]
  /\ until = [p \in Proofs |-> 0]
  /\ stage = [r \in Requests |-> "idle"]
  /\ want = [r \in Requests |-> "TRIAL"]
  /\ from = [r \in Requests |-> "TRIAL"]
  /\ at = [r \in Requests |-> 0]
  /\ asOf = [r \in Requests |-> {}]
  /\ misled = {}

-----------------------------------------------------------------------------
Busy == {r \in Requests : stage[r] # "idle"}

\* History: what is right from this step on, and whether it wrote something else.
Observe ==
  /\ asOf' = [r \in Requests |->
       IF r \in Busy THEN asOf[r] \cup {Canonical(period', now')} ELSE {}]
  /\ misled' = IF status' # status /\ status' # Canonical(period', now')
               THEN misled \cup Busy ELSE misled

Go(r, s) == stage' = [stage EXCEPT ![r] = s]

\* reconcileStatus reads the row, and the clock as it arrives.
Reconcile(r) ==
  /\ stage[r] \in {"idle", "approved"}
  /\ want' = [want EXCEPT ![r] = Canonical(period, now)]
  /\ Go(r, IF Canonical(period, now) = status THEN "answered" ELSE "behind")
  /\ asOf' = [asOf EXCEPT ![r] = {Canonical(period, now)}]
  /\ misled' = misled \ {r}
  /\ UNCHANGED <<now, row, proofs, from, at>>

\* advanceToCanonicalStatus reads it again: only the status, for its guard.
ReadAgain(r) ==
  /\ stage[r] = "behind"
  /\ from' = [from EXCEPT ![r] = status]
  /\ Go(r, IF status = want[r] THEN "written" ELSE "advancing")
  /\ UNCHANGED <<now, row, proofs, want, at, asOf, misled>>

\* UPDATE ... WHERE status = from.
Advance(r) ==
  /\ stage[r] = "advancing"
  /\ status' = IF status = from[r] THEN want[r] ELSE status
  /\ Go(r, "written")
  /\ UNCHANGED <<now, period, proofs, want, from, at>>
  /\ Observe

AnswerOldRow(r) ==   \* mutant: the row is not read back
  /\ stage[r] = "written"
  /\ want' = [want EXCEPT ![r] = from[r]]
  /\ Go(r, "answered")
  /\ UNCHANGED <<now, row, proofs, from, at, asOf, misled>>

\* The row is read back, and its status is what the caller goes by.
ReadBack(r) ==
  /\ stage[r] = "written"
  /\ want' = [want EXCEPT ![r] = status]
  /\ Go(r, "answered")
  /\ UNCHANGED <<now, row, proofs, from, at, asOf, misled>>

\* The request is over: answered, refused, failed, or cut short by a restart.
Leave(r) ==
  /\ stage[r] # "idle"
  /\ Go(r, "idle")
  /\ want' = [want EXCEPT ![r] = "TRIAL"]
  /\ from' = [from EXCEPT ![r] = "TRIAL"]
  /\ at' = [at EXCEPT ![r] = 0]
  /\ asOf' = [asOf EXCEPT ![r] = {}]
  /\ misled' = misled \ {r}
  /\ UNCHANGED <<now, row, proofs>>

-----------------------------------------------------------------------------
SubmitProof(p) ==
  /\ review[p] = "NONE"
  /\ review' = [review EXCEPT ![p] = "PENDING"]
  /\ UNCHANGED <<now, row, until, request, asOf, misled>>

\* approveProof reads the clock, then queues for the lock.
StartApproval(r) ==
  /\ stage[r] = "idle" /\ \E p \in Proofs : review[p] # "NONE"
  /\ at' = [at EXCEPT ![r] = now]
  /\ Go(r, "approving")
  /\ UNCHANGED <<now, row, proofs, want, from, asOf, misled>>

ApproveAgain(r, p) ==   \* mutant: reviewProof without reviewState = PENDING
  /\ stage[r] = "approving" /\ review[p] # "NONE"
  /\ review' = [review EXCEPT ![p] = "APPROVED"]
  /\ until' = [until EXCEPT ![p] = NextPeriod(period, at[r])]
  /\ period' = NextPeriod(period, at[r])
  /\ status' = "ACTIVE"
  /\ Go(r, "approved")
  /\ UNCHANGED <<now, want, from, at>>
  /\ Observe

\* Its transaction.  Afterwards it may go on to reconcile, for an auto-resume.
ApproveProof(r, p) ==
  /\ stage[r] = "approving" /\ review[p] = "PENDING"
  /\ review' = [review EXCEPT ![p] = "APPROVED"]
  /\ until' = [until EXCEPT ![p] = NextPeriod(period, at[r])]
  /\ period' = NextPeriod(period, at[r])
  /\ status' = "ACTIVE"
  /\ Go(r, "approved")
  /\ UNCHANGED <<now, want, from, at>>
  /\ Observe

RejectProof(p) ==
  /\ review[p] = "PENDING"
  /\ review' = [review EXCEPT ![p] = "REJECTED"]
  /\ UNCHANGED <<now, row, until, request, asOf, misled>>

Tick ==
  /\ now < MaxTime
  /\ now' = now + 1
  /\ UNCHANGED <<row, proofs, request>>
  /\ Observe

Next ==
  \/ \E r \in Requests :
       \/ Reconcile(r) \/ ReadAgain(r) \/ Advance(r) \/ ReadBack(r) \/ Leave(r)
       \/ StartApproval(r) \/ \E p \in Proofs : ApproveProof(r, p)
  \/ \E p \in Proofs : SubmitProof(p) \/ RejectProof(p)
  \/ Tick

Spec == Init /\ [][Next]_vars

-----------------------------------------------------------------------------
(* Properties                                                              *)

\* Every variable stays in its domain, and only an approval gives a paid period.
TypeOK ==
  /\ now \in 0..MaxTime
  /\ status \in Statuses
  /\ period \in Nat
  /\ review \in [Proofs -> {"NONE", "PENDING", "APPROVED", "REJECTED"}]
  /\ until \in [Proofs -> Nat]
  /\ stage \in [Requests -> {"idle", "behind", "advancing", "written", "answered",
                             "approving", "approved"}]
  /\ want \in [Requests -> Statuses]
  /\ from \in [Requests -> Statuses]
  /\ at \in [Requests -> 0..MaxTime]
  /\ asOf \in [Requests -> SUBSET Statuses]
  /\ misled \subseteq Requests
  /\ period # 0 <=> \E p \in Proofs : review[p] = "APPROVED"

\* The paid period moves only when a proof that awaited review is approved, and
\* then by at least one full period beyond what the business had: two admins
\* who approve at the same time neither pay one proof out twice nor let one
\* proof's period disappear in the other's.
PaidTimeIsBought ==
  [][period' # period =>
       /\ period' >= period + Paid
       /\ \E p \in Proofs :
            /\ review[p] = "PENDING" /\ review'[p] = "APPROVED"
            /\ until'[p] = period'
            /\ \A q \in Proofs \ {p} : review'[q] = review[q] /\ until'[q] = until[q]]_vars

\* The subscription runs until the end that its latest approval announced.
PeriodIsLatestApproval ==
  \A p \in Proofs :
    /\ review[p] = "APPROVED" => until[p] <= period
    /\ period # 0 => \E q \in Proofs : review[q] = "APPROVED" /\ until[q] = period

\* Once a business has paid, its trial plays no part: paying early never brings
\* the trial bands back when the paid ones lapse.
PaidSupersedesTrial ==
  period # 0 => Canonical(period, now) \notin {"TRIAL", "TRIAL_GRACE"}

\* Whoever reconciles goes by a status that was right at some moment while it
\* ran, however many others reconcile and approve, unless somebody wrote a status
\* meanwhile that was wrong at that moment.
VerdictJustified ==
  \A r \in Requests :
    stage[r] = "answered" => want[r] \in asOf[r] \/ r \in misled
=============================================================================
