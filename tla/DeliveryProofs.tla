--------------------------- MODULE DeliveryProofs ---------------------------
(***************************************************************************)
(* Proofs about module Delivery, for any number of occasions, recipients,  *)
(* keys and attempts and any finite number of overlapping sweeps.          *)
(*                                                                         *)
(* The argument about repeated messages is a budget (Budget): a row that   *)
(* may still be claimed, and a sweep that may still send it or give it     *)
(* back, each stand for one message, and with those already sent they are  *)
(* never more than one above the number of excuses.                        *)
(***************************************************************************)
EXTENDS Delivery, FiniteSetTheorems, TLAPS

\* A row that may be tried again has attempts left.
AttemptsLeft ==
  \A k \in Keys :
    row[k].state \in {"ABSENT", "PENDING", "SENDING"} => row[k].attempts < MaxAttempts

\* A sweep delivers one row at a time.
OneInHand ==
  \A w \in Sweeps : \A g, h \in hand[w] : g = h

TInv == TypeOK /\ AttemptsLeft /\ OneInHand

-----------------------------------------------------------------------------
(* Types.                                                                  *)

LEMMA RowTypes ==
  ASSUME NEW state \in Settled \cup {"ABSENT", "PENDING", "SENDING"},
         NEW about \in SUBSET Occasions, NEW attempts \in 0..MaxAttempts, NEW due \in BOOLEAN
  PROVE  /\ Row(state, about, attempts, due) \in Rows
         /\ Row(state, about, attempts, due).state = state
         /\ Row(state, about, attempts, due).attempts = attempts
BY DEF Row, Rows

\* A row that is rewritten, and the others left as they are.
LEMMA OneRow ==
  ASSUME TInv, NEW k \in Keys, NEW r \in Rows, row' = [row EXCEPT ![k] = r],
         r.state \in {"ABSENT", "PENDING", "SENDING"} => r.attempts < MaxAttempts
  PROVE  row' \in [Keys -> Rows] /\ AttemptsLeft'
BY DEF TInv, TypeOK, AttemptsLeft

LEMMA RetryTypes ==
  ASSUME TInv, NEW k \in Keys, NEW n \in 0..(MaxAttempts - 1), NEW wait \in BOOLEAN,
         row' = RetryOrBury(k, n + 1, wait)
  PROVE  /\ row' \in [Keys -> Rows] /\ AttemptsLeft'
         /\ row'[k].state \in {"PENDING", "DEAD_LETTERED"}
         /\ \A j \in Keys \ {k} : row'[j] = row[j]
<1> DEFINE r == IF n + 1 >= MaxAttempts
                THEN Row("DEAD_LETTERED", row[k].about, n + 1, FALSE)
                ELSE Row("PENDING", row[k].about, n + 1, ~wait)
<1>1. n + 1 \in 0..MaxAttempts /\ MaxAttempts \in Nat
  BY SweepAssumption
<1>2. row \in [Keys -> Rows] /\ row[k].about \in SUBSET Occasions
  BY DEF TInv, TypeOK, Rows
<1>3. r \in Rows
  BY <1>1, <1>2, RowTypes DEF Settled
<1>4. /\ r.state \in {"PENDING", "DEAD_LETTERED"}
      /\ r.state = "PENDING" => r.attempts < MaxAttempts
  <2>1. CASE n + 1 >= MaxAttempts
    BY <2>1 DEF Row
  <2>2. CASE ~(n + 1 >= MaxAttempts)
    BY <1>1, <2>2 DEF Row
  <2> QED
    BY <2>1, <2>2
<1>5. row' = [row EXCEPT ![k] = r]
  BY <1>2 DEF RetryOrBury
<1> HIDE DEF r
<1> QED
  BY <1>2, <1>3, <1>4, <1>5, OneRow

\* A row whose state is set, and with it the mark of age.
LEMMA SetTypes ==
  ASSUME TInv, NEW k \in Keys, NEW s \in {"SENDING", "SENT", "SUPPRESSED"},
         s = "SENDING" => row[k].state = "PENDING",
         row' = [row EXCEPT ![k].state = s, ![k].old = FALSE]
  PROVE  /\ row' \in [Keys -> Rows] /\ AttemptsLeft'
         /\ row'[k].state = s
         /\ \A j \in Keys \ {k} : row'[j] = row[j]
<1> DEFINE r == [row[k] EXCEPT !.state = s, !.old = FALSE]
<1>1. row \in [Keys -> Rows] /\ row[k] \in Rows
  BY DEF TInv, TypeOK
<1>2. r \in Rows /\ r.state = s /\ r.attempts = row[k].attempts
  BY <1>1 DEF Rows, Settled
<1>3. row' = [row EXCEPT ![k] = r]
  BY <1>1
<1>4. r.state \in {"ABSENT", "PENDING", "SENDING"} => r.attempts < MaxAttempts
  BY <1>2 DEF TInv, AttemptsLeft
<1> HIDE DEF r
<1> QED
  BY <1>1, <1>2, <1>3, <1>4, OneRow

LEMMA OutboxTypes ==
  ASSUME TInv,
         \/ \E r \in Recipients : Connect(r) \/ Revoke(r)
         \/ \E o \in Occasions : Publish(o)
         \/ \E p \in publishing : CreateDelivery(p) \/ LosePublication(p)
         \/ \E k \in Keys : BackoffElapses(k) \/ SendingGrowsOld(k)
  PROVE  TInv'
<1>1. ASSUME NEW r \in Recipients, Connect(r) \/ Revoke(r)
      PROVE  TInv'
  BY <1>1 DEF Connect, Revoke, TInv, TypeOK, AttemptsLeft, OneInHand, sweeping
<1>2. ASSUME NEW o \in Occasions, Publish(o)
      PROVE  TInv'
  <2>1. publishing' \subseteq Publications /\ happened' \subseteq Occasions
    BY <1>2 DEF Publish, TInv, TypeOK, Publications
  <2> QED
    BY <1>2, <2>1 DEF Publish, TInv, TypeOK, AttemptsLeft, OneInHand, sweeping
<1>3. ASSUME NEW p \in publishing, CreateDelivery(p) \/ LosePublication(p)
      PROVE  TInv'
  <2> DEFINE k == KeyOf[p.about]
  <2>1. /\ p.about \in Occasions /\ p.state \in {"PENDING", "SUPPRESSED"}
        /\ k \in Keys /\ publishing' \subseteq publishing
    BY <1>3, OccasionAssumption
    DEF CreateDelivery, LosePublication, TInv, TypeOK, Publications
  <2>2. row' = row \/ row' = [row EXCEPT ![k] = Row(p.state, {p.about}, 0, TRUE)]
    BY <1>3 DEF CreateDelivery, LosePublication
  <2>3. /\ 0 \in 0..MaxAttempts /\ 0 < MaxAttempts
        /\ p.state \in Settled \cup {"ABSENT", "PENDING", "SENDING"}
        /\ {p.about} \in SUBSET Occasions
    BY <2>1, SweepAssumption DEF Settled
  <2>4. /\ Row(p.state, {p.about}, 0, TRUE) \in Rows
        /\ Row(p.state, {p.about}, 0, TRUE).attempts = 0
    BY <2>3, RowTypes
  <2> HIDE DEF k
  <2>5. row' \in [Keys -> Rows] /\ AttemptsLeft'
    <3>1. CASE row' = row
      BY <3>1 DEF TInv, TypeOK, AttemptsLeft
    <3>2. CASE row' = [row EXCEPT ![k] = Row(p.state, {p.about}, 0, TRUE)]
      BY <2>1, <2>3, <2>4, <3>2, OneRow
    <3> QED
      BY <2>2, <3>1, <3>2
  <2>6. UNCHANGED <<connected, happened, sweeping, sent, excused>>
    BY <1>3 DEF CreateDelivery, LosePublication
  <2> QED
    BY <2>1, <2>5, <2>6 DEF TInv, TypeOK, OneInHand, sweeping
<1>4. ASSUME NEW k \in Keys, BackoffElapses(k) \/ SendingGrowsOld(k)
      PROVE  TInv'
  <2>1. PICK r \in {[row[k] EXCEPT !.due = TRUE], [row[k] EXCEPT !.old = TRUE]} :
          row' = [row EXCEPT ![k] = r]
    BY <1>4 DEF BackoffElapses, SendingGrowsOld
  <2>2. row[k] \in Rows
    BY DEF TInv, TypeOK
  <2>3. r \in Rows /\ r.state = row[k].state /\ r.attempts = row[k].attempts
    BY <2>1, <2>2 DEF Rows
  <2>4. row' \in [Keys -> Rows] /\ AttemptsLeft'
    BY <2>1, <2>3, OneRow DEF TInv, AttemptsLeft
  <2>5. UNCHANGED <<outbox, sweeping, sent, excused>>
    BY <1>4 DEF BackoffElapses, SendingGrowsOld
  <2> QED
    BY <2>4, <2>5 DEF TInv, TypeOK, OneInHand, outbox, sweeping
<1> QED
  BY <1>1, <1>2, <1>3, <1>4

LEMMA ListingTypes ==
  ASSUME TInv, NEW w \in Sweeps,
         StartSweep(w) \/ ListPending(w) \/ GiveUpRow(w) \/ EndSweep(w) \/ Crash(w)
  PROVE  TInv'
<1>1. \A k \in Keys : row[k].state \in {"PENDING", "SENDING"} =>
        [key |-> k, attempts |-> row[k].attempts] \in Listed
  <2>1. ASSUME NEW k \in Keys, row[k].state \in {"PENDING", "SENDING"}
        PROVE  row[k].attempts \in 0..(MaxAttempts - 1)
    <3>1. row[k].attempts \in 0..MaxAttempts /\ row[k].attempts < MaxAttempts
      BY <2>1 DEF TInv, TypeOK, AttemptsLeft, Rows
    <3> QED
      BY <3>1, SweepAssumption
  <2> QED
    BY <2>1 DEF Listed
<1>2. CASE StartSweep(w)
  <2>1. stale' \in [Sweeps -> SUBSET Listed]
    BY <1>1, <1>2 DEF StartSweep, TInv, TypeOK
  <2>2. phase' \in [Sweeps -> {"idle", "reclaim", "deliver"}]
    BY <1>2 DEF StartSweep, TInv, TypeOK
  <2> QED
    BY <1>2, <2>1, <2>2 DEF StartSweep, TInv, TypeOK, AttemptsLeft, OneInHand, outbox
<1>3. CASE ListPending(w)
  <2>1. todo' \in [Sweeps -> SUBSET Listed]
    BY <1>1, <1>3 DEF ListPending, TInv, TypeOK
  <2>2. phase' \in [Sweeps -> {"idle", "reclaim", "deliver"}]
    BY <1>3 DEF ListPending, TInv, TypeOK
  <2> QED
    BY <1>3, <2>1, <2>2 DEF ListPending, TInv, TypeOK, AttemptsLeft, OneInHand, outbox
<1>4. CASE GiveUpRow(w)
  BY <1>4 DEF GiveUpRow, TInv, TypeOK, AttemptsLeft, OneInHand, outbox
<1>5. CASE EndSweep(w)
  BY <1>5 DEF EndSweep, TInv, TypeOK, AttemptsLeft, OneInHand, outbox
<1>6. CASE Crash(w)
  BY <1>6 DEF Crash, TInv, TypeOK, AttemptsLeft, OneInHand, outbox
<1> QED
  BY <1>2, <1>3, <1>4, <1>5, <1>6

LEMMA ReclaimTypes ==
  ASSUME TInv, NEW w \in Sweeps, NEW s \in stale[w], Reclaim(w, s)
  PROVE  TInv'
<1>1. s \in Listed /\ s.key \in Keys /\ s.attempts \in 0..(MaxAttempts - 1)
  BY DEF TInv, TypeOK, Listed
<1>2. row' \in [Keys -> Rows] /\ AttemptsLeft'
  BY <1>1, RetryTypes DEF Reclaim
<1>3. stale' \in [Sweeps -> SUBSET Listed]
  BY DEF Reclaim, TInv, TypeOK
<1>4. excused' \in [Keys -> Nat]
  BY <1>1 DEF Reclaim, TInv, TypeOK
<1> QED
  BY <1>2, <1>3, <1>4 DEF Reclaim, TInv, TypeOK, OneInHand, outbox

LEMMA ClaimTypes ==
  ASSUME TInv, NEW w \in Sweeps, NEW s \in todo[w], Claim(w, s)
  PROVE  TInv'
<1>1. s \in Listed /\ s.key \in Keys /\ s.attempts \in 0..(MaxAttempts - 1)
  BY DEF TInv, TypeOK, Listed
<1>2. [key |-> s.key, attempts |-> s.attempts, stage |-> "claimed"] \in Claims
  BY <1>1 DEF Claims
<1>3. row' \in [Keys -> Rows] /\ AttemptsLeft'
  <2>1. CASE row[s.key].state = "PENDING"
    BY <1>1, <2>1, SetTypes DEF Claim
  <2>2. CASE row[s.key].state # "PENDING"
    BY <2>2 DEF Claim, TInv, TypeOK, AttemptsLeft
  <2> QED
    BY <2>1, <2>2
<1>4. hand' \in [Sweeps -> SUBSET Claims] /\ OneInHand'
  BY <1>2 DEF Claim, TInv, TypeOK, OneInHand
<1>5. todo' \in [Sweeps -> SUBSET Listed]
  BY DEF Claim, TInv, TypeOK
<1> QED
  BY <1>3, <1>4, <1>5 DEF Claim, TInv, TypeOK, outbox

\* Whatever becomes of a claim, it is the only one in hand.
LEMMA BecomesTypes ==
  ASSUME TInv, NEW w \in Sweeps, NEW h \in hand[w],
         NEW s \in {"accepted", "failed", "suppress"}, Becomes(w, h, s)
  PROVE  /\ hand' \in [Sweeps -> SUBSET Claims] /\ OneInHand'
         /\ \A v \in Sweeps \ {w} : hand'[v] = hand[v]
         /\ \A g \in hand'[w] : g.key = h.key /\ g.stage = s
<1> DEFINE g == [h EXCEPT !.stage = s]
<1>1. h \in Claims
  BY DEF TInv, TypeOK
<1>2. g \in Claims /\ g.key = h.key /\ g.stage = s
  BY <1>1 DEF Claims
<1>3. hand' = [hand EXCEPT ![w] = {g}] /\ hand \in [Sweeps -> SUBSET Claims]
  BY DEF Becomes, TInv, TypeOK
<1> HIDE DEF g
<1>4. hand'[w] = {g} /\ \A v \in Sweeps \ {w} : hand'[v] = hand[v]
  BY <1>3
<1>5. hand' \in [Sweeps -> SUBSET Claims]
  BY <1>2, <1>3
<1> QED
  BY <1>2, <1>4, <1>5 DEF TInv, OneInHand

LEMMA DeliverTypes ==
  ASSUME TInv, NEW w \in Sweeps, NEW h \in hand[w],
         Unreachable(w, h) \/ Send(w, h) \/ Record(w, h)
  PROVE  TInv'
<1>1. h \in Claims /\ h.key \in Keys /\ h.attempts \in 0..(MaxAttempts - 1)
  BY DEF TInv, TypeOK, Claims
<1>2. CASE Unreachable(w, h)
  <2>1. hand' \in [Sweeps -> SUBSET Claims] /\ OneInHand'
    BY <1>2, BecomesTypes DEF Unreachable
  <2> QED
    BY <1>2, <2>1 DEF Unreachable, TInv, TypeOK, AttemptsLeft, outbox
<1>3. CASE Send(w, h)
  <2>1. hand' \in [Sweeps -> SUBSET Claims] /\ OneInHand'
    BY <1>3, BecomesTypes DEF Send
  <2>2. sent' \in [Keys -> Nat] /\ excused' \in [Keys -> Nat]
    BY <1>1, <1>3 DEF Send, TInv, TypeOK
  <2> QED
    BY <1>3, <2>1, <2>2 DEF Send, TInv, TypeOK, AttemptsLeft, outbox
<1>4. CASE Record(w, h)
  <2>1. row' \in [Keys -> Rows] /\ AttemptsLeft'
    <3>1. CASE h.stage = "accepted"
      BY <1>1, <1>4, <3>1, SetTypes DEF Record
    <3>2. CASE h.stage = "suppress"
      BY <1>1, <1>4, <3>2, SetTypes DEF Record
    <3>3. CASE h.stage = "failed"
      BY <1>1, <1>4, <3>3, RetryTypes DEF Record
    <3> QED
      BY <1>1, <1>4, <3>1, <3>2, <3>3 DEF Record, Claims
  <2>2. hand' \in [Sweeps -> SUBSET Claims] /\ OneInHand'
    BY <1>4 DEF Record, TInv, TypeOK, OneInHand
  <2> QED
    BY <1>4, <2>1, <2>2 DEF Record, TInv, TypeOK, outbox
<1> QED
  BY <1>2, <1>3, <1>4

LEMMA TypesStep ==
  ASSUME TInv, [Next]_vars
  PROVE  TInv'
<1>1. CASE UNCHANGED vars
  BY <1>1 DEF vars, outbox, sweeping, TInv, TypeOK, AttemptsLeft, OneInHand
<1> QED
  BY <1>1, OutboxTypes, ListingTypes, ReclaimTypes, ClaimTypes, DeliverTypes
  DEF Next, Sweep

-----------------------------------------------------------------------------
(* Messages and excuses.                                                   *)

\* The sweeps that may still send the row, or give it back for another try.
Spenders(k) ==
  {w \in Sweeps : \E h \in hand[w] : h.key = k /\ h.stage \in {"claimed", "failed"}}

Claimable(k) == IF row[k].state \in {"ABSENT", "PENDING"} THEN 1 ELSE 0

Budget ==
  \A k \in Keys : sent[k] + Cardinality(Spenders(k)) + Claimable(k) <= 1 + excused[k]

\* Without an excuse a row in hand is in one hand, and waits for its outcome.
HeldOnce ==
  \A k \in Keys : excused[k] = 0 =>
    /\ \A w \in Sweeps : \A h \in hand[w] : h.key = k => row[k].state = "SENDING"
    /\ \A v, w \in Sweeps : \A g \in hand[v], h \in hand[w] :
         g.key = k /\ h.key = k => v = w

LEMMA SpendersFinite ==
  ASSUME NEW k
  PROVE  IsFiniteSet(Spenders(k)) /\ Cardinality(Spenders(k)) \in Nat
<1>1. Spenders(k) \subseteq Sweeps
  BY DEF Spenders
<1> QED
  BY <1>1, SweepAssumption, FS_Subset, FS_CardinalityType

\* Sums, as the steps below need them.
LEMMA BudgetOf ==
  ASSUME TInv, Budget, NEW k \in Keys
  PROVE  /\ sent[k] \in Nat /\ excused[k] \in Nat
         /\ Cardinality(Spenders(k)) \in Nat
         /\ Claimable(k) \in {0, 1}
         /\ sent[k] + Cardinality(Spenders(k)) + Claimable(k) <= 1 + excused[k]
BY SpendersFinite DEF TInv, TypeOK, Budget, Claimable

\* Steps after which there is no more to spend.
LEMMA NothingSpent ==
  ASSUME TInv, TInv', Budget, UNCHANGED <<sent, excused>>,
         \A k \in Keys : Spenders(k)' \subseteq Spenders(k),
         \A k \in Keys : Claimable(k)' <= Claimable(k)
  PROVE  Budget'
<1> SUFFICES ASSUME NEW k \in Keys
             PROVE  sent[k] + Cardinality(Spenders(k)') + Claimable(k)' <= 1 + excused[k]
  BY DEF Budget
<1>1. PICK S, T : S = Spenders(k) /\ T = Spenders(k)'
  OBVIOUS
<1>2. Cardinality(T) \in Nat /\ Cardinality(T) <= Cardinality(S)
  BY <1>1, SpendersFinite, FS_Subset, FS_CardinalityType
<1>3. Claimable(k)' \in {0, 1}
  BY DEF Claimable
<1> QED
  BY <1>1, <1>2, <1>3, BudgetOf

\* Steps that leave the hands alone, and no row more claimable than before.
LEMMA HandsStay ==
  ASSUME TInv, TInv', Budget, UNCHANGED <<hand, sent, excused>>,
         \A k \in Keys : row'[k].state \in {"ABSENT", "PENDING"} =>
           row[k].state \in {"ABSENT", "PENDING"}
  PROVE  Budget'
<1>1. \A k \in Keys : Spenders(k)' \subseteq Spenders(k)
  BY DEF Spenders
<1>2. \A k \in Keys : Claimable(k)' <= Claimable(k)
  BY DEF Claimable
<1> QED
  BY <1>1, <1>2, NothingSpent

\* A sweep stops being one that may spend a row.
LEMMA OneSpenderLess ==
  ASSUME NEW k, NEW w \in Spenders(k), Spenders(k)' \subseteq Spenders(k) \ {w}
  PROVE  /\ Cardinality(Spenders(k)') \in Nat
         /\ Cardinality(Spenders(k)') + 1 <= Cardinality(Spenders(k))
<1>1. PICK S, T : S = Spenders(k) /\ T = Spenders(k)'
  OBVIOUS
<1>2. IsFiniteSet(S) /\ w \in S /\ T \subseteq S \ {w}
  BY <1>1, SpendersFinite
<1>3. IsFiniteSet(S \ {w}) /\ Cardinality(S \ {w}) = Cardinality(S) - 1
  BY <1>2, FS_RemoveElement
<1>4. Cardinality(T) \in Nat /\ Cardinality(T) <= Cardinality(S \ {w})
  BY <1>2, <1>3, FS_Subset, FS_CardinalityType
<1>5. Cardinality(S) \in Nat
  BY <1>2, FS_CardinalityType
<1> QED
  BY <1>1, <1>3, <1>4, <1>5

LEMMA BudgetOutbox ==
  ASSUME TInv, TInv', Budget,
         \/ \E r \in Recipients : Connect(r) \/ Revoke(r)
         \/ \E o \in Occasions : Publish(o)
         \/ \E p \in publishing : CreateDelivery(p) \/ LosePublication(p)
         \/ \E k \in Keys : BackoffElapses(k) \/ SendingGrowsOld(k)
         \/ UNCHANGED vars
  PROVE  Budget'
<1>1. UNCHANGED <<hand, sent, excused>>
  BY DEF Connect, Revoke, Publish, CreateDelivery, LosePublication, BackoffElapses,
     SendingGrowsOld, vars, sweeping
<1>2. ASSUME NEW k \in Keys, BackoffElapses(k) \/ SendingGrowsOld(k)
      PROVE  \A j \in Keys : row'[j].state = row[j].state
  BY <1>2 DEF BackoffElapses, SendingGrowsOld, TInv, TypeOK, Rows
<1>3. ASSUME NEW p \in publishing, CreateDelivery(p)
      PROVE  \A j \in Keys : row'[j].state \in {"ABSENT", "PENDING"} =>
               row[j].state \in {"ABSENT", "PENDING"}
  BY <1>3 DEF CreateDelivery, TInv, TypeOK
<1>4. ASSUME \/ \E r \in Recipients : Connect(r) \/ Revoke(r)
             \/ \E o \in Occasions : Publish(o)
             \/ \E p \in publishing : LosePublication(p)
             \/ UNCHANGED vars
      PROVE  UNCHANGED row
  BY <1>4 DEF Connect, Revoke, Publish, LosePublication, vars
<1> QED
  BY <1>1, <1>2, <1>3, <1>4, HandsStay

LEMMA BudgetListing ==
  ASSUME TInv, TInv', Budget, NEW w \in Sweeps,
         StartSweep(w) \/ ListPending(w) \/ GiveUpRow(w) \/ EndSweep(w) \/ Crash(w)
  PROVE  Budget'
<1>1. UNCHANGED <<row, sent, excused>>
  BY DEF StartSweep, ListPending, GiveUpRow, EndSweep, Crash
<1>2. \A v \in Sweeps : hand'[v] \subseteq hand[v]
  BY DEF StartSweep, ListPending, GiveUpRow, EndSweep, Crash, TInv, TypeOK
<1>3. \A k \in Keys : Spenders(k)' \subseteq Spenders(k)
  BY <1>2 DEF Spenders
<1>4. \A k \in Keys : Claimable(k)' = Claimable(k) /\ Claimable(k) \in {0, 1}
  BY <1>1 DEF Claimable
<1> QED
  BY <1>1, <1>3, <1>4, NothingSpent

LEMMA BudgetReclaim ==
  ASSUME TInv, TInv', Budget, NEW w \in Sweeps, NEW s \in stale[w], Reclaim(w, s)
  PROVE  Budget'
<1> DEFINE k == s.key
<1>1. k \in Keys /\ s.attempts \in 0..(MaxAttempts - 1)
  BY DEF TInv, TypeOK, Listed
<1>2. /\ UNCHANGED <<hand, sent>>
      /\ excused' = [excused EXCEPT ![k] = excused[k] + 1]
      /\ \A j \in Keys \ {k} : row'[j] = row[j]
  BY <1>1, RetryTypes DEF Reclaim
<1> HIDE DEF k
<1>3. \A j \in Keys : Spenders(j)' = Spenders(j)
  BY <1>2 DEF Spenders
<1>4. ASSUME NEW j \in Keys
      PROVE  sent'[j] + Cardinality(Spenders(j)') + Claimable(j)' <= 1 + excused'[j]
  <2>1. Claimable(j)' \in {0, 1}
    BY DEF Claimable
  <2>2. /\ excused'[k] = excused[k] + 1
        /\ j # k => excused'[j] = excused[j] /\ Claimable(j)' = Claimable(j)
    BY <1>1, <1>2 DEF TInv, TypeOK, Claimable
  <2> QED
    BY <1>2, <1>3, <2>1, <2>2, BudgetOf
<1> QED
  BY <1>4 DEF Budget

LEMMA BudgetClaim ==
  ASSUME TInv, TInv', Budget, NEW w \in Sweeps, NEW s \in todo[w], Claim(w, s)
  PROVE  Budget'
<1> DEFINE k == s.key
<1>1. k \in Keys /\ hand[w] = {} /\ UNCHANGED <<sent, excused>>
  BY DEF Claim, TInv, TypeOK, Listed
<1>2. CASE row[k].state # "PENDING"
  <2>1. UNCHANGED <<row, hand>>
    BY <1>2 DEF Claim
  <2> QED
    BY <1>1, <2>1, HandsStay
<1>3. CASE row[k].state = "PENDING"
  <2>1. /\ row'[k].state = "SENDING"
        /\ \A j \in Keys \ {k} : row'[j] = row[j]
    BY <1>1, <1>3, SetTypes DEF Claim
  <2>2. /\ \A v \in Sweeps \ {w} : hand'[v] = hand[v]
        /\ hand'[w] = {[key |-> k, attempts |-> s.attempts, stage |-> "claimed"]}
    BY <1>3 DEF Claim, TInv, TypeOK
  <2>3. \A h \in hand'[w] : h.key = k
    BY <2>2
  <2> HIDE DEF k
  <2>4. ASSUME NEW j \in Keys
        PROVE  sent'[j] + Cardinality(Spenders(j)') + Claimable(j)' <= 1 + excused'[j]
    <3>1. CASE j = k
      <4>1. PICK S, T : S = Spenders(k) /\ T = Spenders(k)'
        OBVIOUS
      <4>2. T \subseteq S \cup {w} /\ IsFiniteSet(S)
        BY <2>2, <4>1, SpendersFinite DEF Spenders
      <4>3. /\ IsFiniteSet(S \cup {w}) /\ Cardinality(S) \in Nat
            /\ Cardinality(S \cup {w}) <= Cardinality(S) + 1
        <5>1. IsFiniteSet(S \cup {w}) /\ Cardinality(S) \in Nat
          BY <4>2, FS_AddElement, FS_CardinalityType
        <5>2. Cardinality(S \cup {w}) \in {Cardinality(S), Cardinality(S) + 1}
          BY <4>2, FS_AddElement
        <5> QED
          BY <5>1, <5>2
      <4>4. Cardinality(T) \in Nat /\ Cardinality(T) <= Cardinality(S \cup {w})
        BY <4>2, <4>3, FS_Subset, FS_CardinalityType
      <4>5. Cardinality(S \cup {w}) \in Nat
        BY <4>3, FS_CardinalityType
      <4>6. Claimable(k) = 1 /\ Claimable(k)' = 0
        BY <1>3, <2>1 DEF Claimable
      <4> QED
        BY <1>1, <3>1, <4>1, <4>3, <4>4, <4>5, <4>6, BudgetOf
    <3>2. CASE j # k
      <4>1. Spenders(j)' = Spenders(j)
        BY <1>1, <2>2, <2>3, <3>2 DEF Spenders
      <4>2. Claimable(j)' = Claimable(j)
        BY <2>1, <3>2 DEF Claimable
      <4> QED
        BY <1>1, <4>1, <4>2, BudgetOf
    <3> QED
      BY <3>1, <3>2
  <2> QED
    BY <2>4 DEF Budget
<1> QED
  BY <1>2, <1>3

\* An outcome known, or a message sent: what the one who spends becomes.
LEMMA BudgetDeliver ==
  ASSUME TInv, TInv', Budget, NEW w \in Sweeps, NEW h \in hand[w],
         Unreachable(w, h) \/ Send(w, h) \/ Record(w, h)
  PROVE  Budget'
<1> DEFINE k == h.key
<1>1. k \in Keys /\ h \in Claims /\ h.attempts \in 0..(MaxAttempts - 1)
  BY DEF TInv, TypeOK, Claims
<1>2. h.stage \in {"claimed", "failed"} => w \in Spenders(k)
  BY DEF Spenders
<1>3. /\ \A v \in Sweeps \ {w} : hand'[v] = hand[v]
      /\ \A g \in hand'[w] : g.key = k
      /\ \A g \in hand[w] : g = h
  <2>1. CASE Record(w, h)
    BY <2>1 DEF Record, TInv, TypeOK, OneInHand
  <2>2. CASE Unreachable(w, h)
    BY <2>2, BecomesTypes DEF Unreachable, TInv, OneInHand
  <2>3. CASE Send(w, h)
    BY <2>3, BecomesTypes DEF Send, TInv, OneInHand
  <2> QED
    BY <2>1, <2>2, <2>3
<1> HIDE DEF k
<1>4. /\ \A j \in Keys \ {k} : Spenders(j)' = Spenders(j)
      /\ \A g \in hand[w] : g.key = k
  BY <1>3 DEF Spenders, k
<1>5. CASE Unreachable(w, h)
  <2>1. /\ UNCHANGED <<row, sent, excused>>
        /\ \A g \in hand'[w] : g.stage = "suppress"
    BY <1>5, BecomesTypes DEF Unreachable
  <2>2. Spenders(k)' \subseteq Spenders(k)
    BY <1>3, <2>1 DEF Spenders
  <2>3. \A j \in Keys : Claimable(j)' = Claimable(j) /\ Claimable(j) \in {0, 1}
    BY <2>1 DEF Claimable
  <2> QED
    BY <1>4, <2>1, <2>2, <2>3, NothingSpent
<1>6. CASE Send(w, h)
  <2>1. UNCHANGED row /\ h.stage = "claimed"
    BY <1>6 DEF Send
  <2>2. \A j \in Keys : Claimable(j)' = Claimable(j)
    BY <2>1 DEF Claimable
  <2>3. \A j \in Keys \ {k} : sent'[j] = sent[j] /\ excused'[j] = excused[j]
    BY <1>6 DEF Send, TInv, TypeOK, k
  <2>4. sent'[k] + Cardinality(Spenders(k)') + Claimable(k) <= 1 + excused'[k]
    <3>1. CASE /\ sent' = [sent EXCEPT ![h.key] = @ + 1]
               /\ Becomes(w, h, "accepted")
               /\ UNCHANGED excused
      <4>1. \A g \in hand'[w] : g.stage = "accepted"
        BY <3>1, BecomesTypes
      <4>2. Spenders(k)' \subseteq Spenders(k) \ {w}
        BY <1>3, <4>1 DEF Spenders
      <4>3. /\ Cardinality(Spenders(k)') \in Nat
            /\ Cardinality(Spenders(k)') + 1 <= Cardinality(Spenders(k))
        BY <1>2, <2>1, <4>2, OneSpenderLess
      <4>4. sent'[k] = sent[k] + 1 /\ excused'[k] = excused[k]
        BY <1>1, <3>1 DEF TInv, TypeOK, k
      <4> QED
        BY <1>1, <4>3, <4>4, BudgetOf
    <3>2. CASE Becomes(w, h, "failed") /\ UNCHANGED <<sent, excused>>
      <4>1. Spenders(k)' = Spenders(k)
        BY <1>2, <1>3, <2>1, <3>2, BecomesTypes DEF Spenders, Becomes
      <4> QED
        BY <1>1, <3>2, <4>1, BudgetOf
    <3>3. CASE /\ sent' = [sent EXCEPT ![h.key] = @ + 1]
               /\ excused' = [excused EXCEPT ![h.key] = @ + 1]
               /\ Becomes(w, h, "failed")
      <4>1. Spenders(k)' \subseteq Spenders(k)
        BY <1>2, <1>3, <2>1 DEF Spenders
      <4>2. /\ Cardinality(Spenders(k)') \in Nat
            /\ Cardinality(Spenders(k)') <= Cardinality(Spenders(k))
        <5>1. PICK S, T : S = Spenders(k) /\ T = Spenders(k)'
          OBVIOUS
        <5> QED
          BY <4>1, <5>1, SpendersFinite, FS_Subset, FS_CardinalityType
      <4>3. sent'[k] = sent[k] + 1 /\ excused'[k] = excused[k] + 1
        BY <1>1, <3>3 DEF TInv, TypeOK, k
      <4> QED
        BY <1>1, <4>2, <4>3, BudgetOf
    <3> QED
      BY <1>6, <3>1, <3>2, <3>3 DEF Send
  <2>5. ASSUME NEW j \in Keys \ {k}
        PROVE  sent'[j] + Cardinality(Spenders(j)') + Claimable(j)' <= 1 + excused'[j]
    BY <1>4, <2>2, <2>3, BudgetOf
  <2> QED
    BY <2>2, <2>4, <2>5 DEF Budget
<1>7. CASE Record(w, h)
  <2>1. UNCHANGED <<sent, excused>> /\ hand'[w] = {}
    BY <1>7 DEF Record, TInv, TypeOK
  <2>2. Spenders(k)' \subseteq Spenders(k) \ {w}
    BY <1>3, <2>1 DEF Spenders
  <2>3. CASE h.stage \in {"accepted", "suppress"}
    <3>1. PICK st \in {"SENT", "SUPPRESSED"} :
            row' = [row EXCEPT ![h.key].state = st, ![h.key].old = FALSE]
      BY <1>7, <2>3 DEF Record
    <3>2. row'[k].state = st /\ \A j \in Keys \ {k} : row'[j] = row[j]
      BY <1>1, <3>1, SetTypes DEF k
    <3>3. \A j \in Keys : Claimable(j)' <= Claimable(j)
      BY <3>2 DEF Claimable
    <3> QED
      BY <1>4, <2>1, <2>2, <3>3, NothingSpent
  <2>4. CASE h.stage = "failed"
    <3>1. \A j \in Keys \ {k} : row'[j] = row[j]
      BY <1>1, <1>7, <2>4, RetryTypes DEF Record, k
    <3>2. /\ Cardinality(Spenders(k)') \in Nat
          /\ Cardinality(Spenders(k)') + 1 <= Cardinality(Spenders(k))
      BY <1>2, <2>2, <2>4, OneSpenderLess
    <3>3. Claimable(k)' \in {0, 1}
      BY DEF Claimable
    <3>4. sent'[k] + Cardinality(Spenders(k)') + Claimable(k)' <= 1 + excused'[k]
      BY <1>1, <2>1, <3>2, <3>3, BudgetOf
    <3>5. ASSUME NEW j \in Keys \ {k}
          PROVE  sent'[j] + Cardinality(Spenders(j)') + Claimable(j)' <= 1 + excused'[j]
      <4>1. Claimable(j)' = Claimable(j)
        BY <3>1 DEF Claimable
      <4> QED
        BY <1>4, <2>1, <4>1, BudgetOf
    <3> QED
      BY <3>4, <3>5 DEF Budget
  <2> QED
    BY <1>1, <1>7, <2>3, <2>4 DEF Record, Claims
<1> QED
  BY <1>5, <1>6, <1>7

LEMMA BudgetStep ==
  ASSUME TInv, TInv', Budget, [Next]_vars
  PROVE  Budget'
BY BudgetOutbox, BudgetListing, BudgetReclaim, BudgetClaim, BudgetDeliver DEF Next, Sweep

-----------------------------------------------------------------------------
(* Rows in hand.                                                           *)

LEMMA HeldOutbox ==
  ASSUME TInv, HeldOnce,
         \/ \E r \in Recipients : Connect(r) \/ Revoke(r)
         \/ \E o \in Occasions : Publish(o)
         \/ \E p \in publishing : CreateDelivery(p) \/ LosePublication(p)
         \/ \E k \in Keys : BackoffElapses(k) \/ SendingGrowsOld(k)
         \/ UNCHANGED vars
  PROVE  HeldOnce'
<1>1. UNCHANGED <<hand, excused>>
  BY DEF Connect, Revoke, Publish, CreateDelivery, LosePublication, BackoffElapses,
     SendingGrowsOld, vars, sweeping
<1>2. \A k \in Keys : row[k].state = "SENDING" => row'[k].state = "SENDING"
  <2>1. ASSUME NEW k \in Keys, BackoffElapses(k) \/ SendingGrowsOld(k)
        PROVE  \A j \in Keys : row'[j].state = row[j].state
    BY <2>1 DEF BackoffElapses, SendingGrowsOld, TInv, TypeOK, Rows
  <2>2. ASSUME NEW p \in publishing, CreateDelivery(p)
        PROVE  \A j \in Keys : row[j].state = "SENDING" => row'[j] = row[j]
    BY <2>2 DEF CreateDelivery, TInv, TypeOK
  <2>3. ASSUME \/ \E r \in Recipients : Connect(r) \/ Revoke(r)
               \/ \E o \in Occasions : Publish(o)
               \/ \E p \in publishing : LosePublication(p)
               \/ UNCHANGED vars
        PROVE  UNCHANGED row
    BY <2>3 DEF Connect, Revoke, Publish, LosePublication, vars
  <2> QED
    BY <2>1, <2>2, <2>3
<1> QED
  BY <1>1, <1>2 DEF HeldOnce

\* Less in hand, and the rows in hand as they were.
LEMMA HeldListing ==
  ASSUME TInv, HeldOnce, NEW w \in Sweeps,
         StartSweep(w) \/ ListPending(w) \/ GiveUpRow(w) \/ EndSweep(w) \/ Crash(w)
  PROVE  HeldOnce'
<1>1. UNCHANGED <<row, excused>>
  BY DEF StartSweep, ListPending, GiveUpRow, EndSweep, Crash
<1>2. \A v \in Sweeps : hand'[v] \subseteq hand[v]
  BY DEF StartSweep, ListPending, GiveUpRow, EndSweep, Crash, TInv, TypeOK
<1> QED
  BY <1>1, <1>2 DEF HeldOnce

LEMMA HeldReclaim ==
  ASSUME TInv, HeldOnce, NEW w \in Sweeps, NEW s \in stale[w], Reclaim(w, s)
  PROVE  HeldOnce'
<1>1. s.key \in Keys /\ s.attempts \in 0..(MaxAttempts - 1)
  BY DEF TInv, TypeOK, Listed
<1>2. UNCHANGED hand /\ \A j \in Keys \ {s.key} : row'[j] = row[j]
  BY <1>1, RetryTypes DEF Reclaim
<1>3. /\ excused'[s.key] # 0
      /\ \A j \in Keys \ {s.key} : excused'[j] = excused[j]
  BY <1>1 DEF Reclaim, TInv, TypeOK
<1> QED
  BY <1>2, <1>3 DEF HeldOnce

LEMMA HeldClaim ==
  ASSUME TInv, HeldOnce, NEW w \in Sweeps, NEW s \in todo[w], Claim(w, s)
  PROVE  HeldOnce'
<1> DEFINE k == s.key
<1>1. k \in Keys /\ hand[w] = {} /\ UNCHANGED excused
  BY DEF Claim, TInv, TypeOK, Listed
<1>2. CASE row[k].state # "PENDING"
  BY <1>1, <1>2 DEF Claim, HeldOnce
<1>3. CASE row[k].state = "PENDING"
  <2>1. /\ row'[k].state = "SENDING"
        /\ \A j \in Keys \ {k} : row'[j] = row[j]
    BY <1>1, <1>3, SetTypes DEF Claim
  <2>2. /\ \A v \in Sweeps \ {w} : hand'[v] = hand[v]
        /\ \A h \in hand'[w] : h.key = k
    BY <1>3 DEF Claim, TInv, TypeOK
  <2>3. excused[k] = 0 => \A v \in Sweeps : \A h \in hand[v] : h.key # k
    BY <1>1, <1>3 DEF HeldOnce
  <2> HIDE DEF k
  <2> QED
    BY <1>1, <2>1, <2>2, <2>3 DEF HeldOnce
<1> QED
  BY <1>2, <1>3

LEMMA HeldDeliver ==
  ASSUME TInv, HeldOnce, NEW w \in Sweeps, NEW h \in hand[w],
         Unreachable(w, h) \/ Send(w, h) \/ Record(w, h)
  PROVE  HeldOnce'
<1> DEFINE k == h.key
<1>1. k \in Keys /\ h \in Claims /\ h.attempts \in 0..(MaxAttempts - 1)
  BY DEF TInv, TypeOK, Claims
<1>2. CASE Unreachable(w, h) \/ Send(w, h)
  <2>1. /\ UNCHANGED row
        /\ \A v \in Sweeps \ {w} : hand'[v] = hand[v]
        /\ \A g \in hand'[w] : g.key = k
    BY <1>2, BecomesTypes DEF Unreachable, Send
  <2>2. \A j \in Keys : excused'[j] = 0 => excused[j] = 0
    BY <1>1, <1>2 DEF Unreachable, Send, TInv, TypeOK
  <2> HIDE DEF k
  <2>3. h.key = k
    BY DEF k
  <2> QED
    BY <2>1, <2>2, <2>3 DEF HeldOnce
<1>3. CASE Record(w, h)
  <2>1. /\ hand'[w] = {} /\ UNCHANGED excused
        /\ \A v \in Sweeps \ {w} : hand'[v] = hand[v]
    BY <1>3 DEF Record, TInv, TypeOK
  <2>2. \A j \in Keys \ {k} : row'[j] = row[j]
    <3>1. CASE h.stage = "accepted"
      BY <1>1, <1>3, <3>1, SetTypes DEF Record
    <3>2. CASE h.stage = "suppress"
      BY <1>1, <1>3, <3>2, SetTypes DEF Record
    <3>3. CASE h.stage = "failed"
      BY <1>1, <1>3, <3>3, RetryTypes DEF Record
    <3> QED
      BY <1>1, <1>3, <3>1, <3>2, <3>3 DEF Record, Claims
  <2>3. excused[k] = 0 => \A v \in Sweeps \ {w} : \A g \in hand[v] : g.key # k
    BY <1>1 DEF HeldOnce
  <2> HIDE DEF k
  <2> QED
    BY <2>1, <2>2, <2>3 DEF HeldOnce
<1> QED
  BY <1>2, <1>3

LEMMA HeldStep ==
  ASSUME TInv, HeldOnce, [Next]_vars
  PROVE  HeldOnce'
BY HeldOutbox, HeldListing, HeldReclaim, HeldClaim, HeldDeliver DEF Next, Sweep

-----------------------------------------------------------------------------
LEMMA Invariance == Spec => [](TInv /\ Budget /\ HeldOnce)
<1>1. Init => TInv /\ Budget /\ HeldOnce
  <2> SUFFICES ASSUME Init PROVE TInv /\ Budget /\ HeldOnce
    OBVIOUS
  <2>1. 0 \in 0..MaxAttempts /\ 0 < MaxAttempts
    BY SweepAssumption
  <2>2. Row("ABSENT", {}, 0, FALSE) \in Rows /\ Row("ABSENT", {}, 0, FALSE).attempts = 0
    BY <2>1, RowTypes
  <2>3. TInv
    BY <2>1, <2>2 DEF Init, TInv, TypeOK, AttemptsLeft, OneInHand
  <2>4. \A k \in Keys : Spenders(k) = {}
    BY DEF Init, Spenders
  <2>5. \A k \in Keys : Cardinality(Spenders(k)) = 0
    BY <2>4, FS_EmptySet
  <2>6. \A k \in Keys : Claimable(k) \in {0, 1}
    BY DEF Claimable
  <2>7. Budget
    BY <2>5, <2>6 DEF Init, Budget
  <2>8. HeldOnce
    BY DEF Init, HeldOnce
  <2> QED
    BY <2>3, <2>7, <2>8
<1>2. TInv /\ Budget /\ HeldOnce /\ [Next]_vars => (TInv /\ Budget /\ HeldOnce)'
  BY TypesStep, BudgetStep, HeldStep
<1> QED
  BY <1>1, <1>2, PTL DEF Spec

\* The types: among them that a sweep lists, claims and reclaims only rows that
\* have attempts left, old counters or not (deliverPending, reclaimStale).
THEOREM TypeCorrect == Spec => []TypeOK
BY Invariance, PTL DEF TInv

\* No more messages than one and the excuses: a claim is made only while the row
\* is PENDING (claim's WHERE), and a row becomes PENDING again only by an excuse,
\* or by a failure in which nothing was sent.
THEOREM ResendsExcused == Spec => []ResendsAreExcused
<1>1. TInv /\ Budget => ResendsAreExcused
  <2> SUFFICES ASSUME TInv, Budget, NEW k \in Keys PROVE sent[k] <= 1 + excused[k]
    BY DEF ResendsAreExcused
  <2> QED
    BY BudgetOf
<1> QED
  BY <1>1, Invariance, PTL

\* A settled row comes back only by a reclaim or with the late answer of a sweep
\* that had lost it, for without an excuse whoever has a row in hand holds it
\* alone and SENDING (the updates by row id alone).
THEOREM SettledStays == Spec => SettledUnlessExcused
<1> DEFINE Stays == \A k \in Keys :
              row[k].state \in Settled /\ row'[k].state \notin Settled => excused'[k] > 0
<1>1. ASSUME TInv, HeldOnce, [Next]_vars PROVE [Stays]_vars
  <2>1. \A k \in Keys : excused[k] \in Nat
    BY <1>1 DEF TInv, TypeOK
  <2>2. ASSUME \/ \E r \in Recipients : Connect(r) \/ Revoke(r)
               \/ \E o \in Occasions : Publish(o)
               \/ \E p \in publishing : LosePublication(p)
               \/ \E w \in Sweeps :
                    \/ StartSweep(w) \/ ListPending(w) \/ GiveUpRow(w) \/ EndSweep(w)
                    \/ Crash(w)
                    \/ \E h \in hand[w] : Unreachable(w, h) \/ Send(w, h)
        PROVE  UNCHANGED row
    BY <2>2 DEF Connect, Revoke, Publish, LosePublication, StartSweep, ListPending,
       GiveUpRow, EndSweep, Crash, Unreachable, Send
  <2>3. ASSUME NEW p \in publishing, CreateDelivery(p)
        PROVE  Stays
    BY <1>1, <2>3 DEF CreateDelivery, TInv, TypeOK, Settled
  <2>4. ASSUME NEW k \in Keys, BackoffElapses(k) \/ SendingGrowsOld(k)
        PROVE  Stays
    BY <1>1, <2>4 DEF BackoffElapses, SendingGrowsOld, TInv, TypeOK, Settled
  <2>5. ASSUME NEW w \in Sweeps, NEW s \in stale[w], Reclaim(w, s)
        PROVE  Stays
    <3>1. s.key \in Keys /\ s.attempts \in 0..(MaxAttempts - 1)
      BY <1>1, <2>5 DEF TInv, TypeOK, Listed
    <3>2. /\ excused'[s.key] = excused[s.key] + 1
          /\ \A j \in Keys \ {s.key} : row'[j] = row[j]
      BY <1>1, <2>5, <3>1, RetryTypes DEF Reclaim, TInv, TypeOK
    <3> QED
      BY <2>1, <3>1, <3>2
  <2>6. ASSUME NEW w \in Sweeps, NEW s \in todo[w], Claim(w, s)
        PROVE  Stays
    BY <1>1, <2>6 DEF Claim, TInv, TypeOK, Settled, Listed
  <2>7. ASSUME NEW w \in Sweeps, NEW h \in hand[w], Record(w, h)
        PROVE  Stays
    <3>1. h.key \in Keys /\ h \in Claims /\ h.attempts \in 0..(MaxAttempts - 1)
      BY <1>1, <2>7 DEF TInv, TypeOK, Claims
    <3>2. excused[h.key] = 0 => row[h.key].state = "SENDING"
      BY <1>1, <3>1, <2>7 DEF HeldOnce
    <3>3. UNCHANGED excused
      BY <2>7 DEF Record
    <3>4. \A j \in Keys \ {h.key} : row'[j] = row[j]
      <4>1. CASE h.stage = "accepted"
        BY <1>1, <2>7, <3>1, <4>1, SetTypes DEF Record
      <4>2. CASE h.stage = "suppress"
        BY <1>1, <2>7, <3>1, <4>2, SetTypes DEF Record
      <4>3. CASE h.stage = "failed"
        BY <1>1, <2>7, <3>1, <4>3, RetryTypes DEF Record
      <4> QED
        BY <2>7, <3>1, <4>1, <4>2, <4>3 DEF Record, Claims
    <3>5. row[h.key].state \in Settled => excused'[h.key] > 0
      BY <2>1, <3>1, <3>2, <3>3 DEF Settled
    <3> QED
      BY <3>4, <3>5
  <2> QED
    BY <1>1, <2>2, <2>3, <2>4, <2>5, <2>6, <2>7 DEF Next, Sweep
<1>2. Spec => [][Stays]_vars
  BY <1>1, Invariance, PTL DEF Spec
<1> QED
  BY <1>2 DEF SettledUnlessExcused
=============================================================================
