--------------------------- MODULE BookingProofs ---------------------------
(***************************************************************************)
(* Proofs about modules Booking and Reminders, for every set of bookings,  *)
(* requests, start times and durations.                                    *)
(*                                                                         *)
(* The invariants of Booking are not inductive one by one: that no two     *)
(* locks overlap survives a reschedule only because the booking's own lock *)
(* is where its row says, and that a confirmed booking's lock is ALLOCATED *)
(* only because a reschedule in flight was read on a CONFIRMED booking.    *)
(* IInv joins them with what is known of requests in flight.               *)
(***************************************************************************)
EXTENDS Reminders, TLAPS

\* What a handler may still rely on after its read: the booking exists, the
\* window it carries has a proper duration, the status it saw was one it accepts,
\* and a booking read as CONFIRMED can only have become terminal since.
InFlightSound ==
  \A q \in inFlight :
    /\ status[q.booking] # "NONE"
    /\ q.end - q.start \in Durations
    /\ q.seen \in Accepts[q.op]
    /\ q.op = "reschedule" => status[q.booking] \in {"CONFIRMED"} \cup Terminal

IInv ==
  /\ TypeOK
  /\ InFlightSound
  /\ LockExclusion
  /\ LockTracksBooking
  /\ LockMatchesStatus
  /\ PaymentAgrees
  /\ ActiveHoldsSlot

-----------------------------------------------------------------------------
\* A window has a positive length, so a start with a duration makes a window
\* whose ends are times.
LEMMA WindowTimes ==
  ASSUME NEW s \in Starts, NEW e, e - s \in Durations, e \in Times
  PROVE  s < e
  <1>1. s \in Nat /\ e \in Int
    BY TimeAssumption DEF Times
  <1>2. e - s \in Nat \ {0}
    BY TimeAssumption
  <1> QED BY <1>1, <1>2

\* Every time the model speaks of is a natural number.
LEMMA TimesAreNat == Starts \subseteq Nat /\ Times \subseteq Nat
  <1>1. \A s \in Starts, d \in Durations : s + d \in Nat
    <2> TAKE s \in Starts, d \in Durations
    <2>1. s \in Nat /\ d \in Nat
      BY TimeAssumption
    <2> QED BY <2>1
  <1> DEFINE Ends == {s + d : s \in Starts, d \in Durations}
  <1>2. Ends \subseteq Nat
    BY <1>1
  <1>3. Times = Starts \cup Ends \cup {0}
    BY DEF Times
  <1> HIDE DEF Ends
  <1> QED BY <1>2, <1>3, TimeAssumption

\* The end of a window that starts on the schedule is a time.
LEMMA StartPlusDuration ==
  ASSUME NEW s \in Starts, NEW d \in Durations
  PROVE  s + d \in Times /\ (s + d) - s = d /\ (s + d) - s \in Durations /\ s < s + d
  <1>1. s \in Nat /\ d \in Nat /\ d # 0
    BY TimeAssumption
  <1>2. (s + d) - s = d /\ s < s + d
    BY <1>1
  <1> QED BY <1>1, <1>2 DEF Times

-----------------------------------------------------------------------------
(* What the lock helpers do to a lock table that satisfies the invariant.  *)

\* Releasing b's locks leaves exactly the locks of the others.
LEMMA UnlockedFacts ==
  ASSUME NEW b \in Bookings, locks \subseteq SlotLocks
  PROVE  /\ Unlocked(b) \subseteq locks
         /\ \A l \in Unlocked(b) : l.booking # b
         /\ \A l \in locks : l.booking # b => l \in Unlocked(b)
  BY DEF Unlocked

\* A lock built from a start, an end and a state of the right types is a slot lock.
LEMMA SlotLockType ==
  ASSUME NEW b \in Bookings, NEW s \in Starts, NEW e \in Times,
         NEW state \in {"LOCKED", "ALLOCATED"}
  PROVE  /\ SlotLock(b, s, e, state) \in SlotLocks
         /\ SlotLock(b, s, e, state).booking = b
         /\ SlotLock(b, s, e, state).start = s
         /\ SlotLock(b, s, e, state).end = e
         /\ SlotLock(b, s, e, state).state = state
  BY DEF SlotLock, SlotLocks

\* Allocation changes nothing but the state of b's own locks.
LEMMA AllocatedFacts ==
  ASSUME NEW b \in Bookings, locks \subseteq SlotLocks
  PROVE  /\ Allocated(b) \subseteq SlotLocks
         /\ \A m \in Allocated(b) :
              /\ m.booking = b => m.state = "ALLOCATED"
              /\ m.booking # b => m \in locks
              /\ \E l \in locks :
                   m.booking = l.booking /\ m.start = l.start /\ m.end = l.end
         /\ \A l \in locks : \E m \in Allocated(b) : m.booking = l.booking
  <1>1. \A l \in locks \ Unlocked(b) :
          LET m == SlotLock(b, l.start, l.end, "ALLOCATED")
          IN  /\ l.booking = b /\ m.booking = b /\ m.start = l.start /\ m.end = l.end
              /\ m.state = "ALLOCATED" /\ m \in SlotLocks
    BY DEF Unlocked, SlotLock, SlotLocks
  <1>2. \A l \in Unlocked(b) : l \in locks /\ l.booking # b
    BY UnlockedFacts
  <1>3. ASSUME NEW m \in Allocated(b)
        PROVE  /\ m \in SlotLocks
               /\ m.booking = b => m.state = "ALLOCATED"
               /\ m.booking # b => m \in locks
               /\ \E l \in locks :
                    m.booking = l.booking /\ m.start = l.start /\ m.end = l.end
    <2>1. CASE m \in Unlocked(b)
      BY <1>2, <2>1
    <2>2. CASE m \notin Unlocked(b)
      <3>1. PICK l \in locks \ Unlocked(b) : m = SlotLock(b, l.start, l.end, "ALLOCATED")
        BY <2>2 DEF Allocated
      <3> QED BY <1>1, <3>1
    <2> QED BY <2>1, <2>2
  <1>4. ASSUME NEW l \in locks
        PROVE  \E m \in Allocated(b) : m.booking = l.booking
    <2>1. CASE l \in Unlocked(b)
      BY <2>1 DEF Allocated
    <2>2. CASE l \notin Unlocked(b)
      <3>1. SlotLock(b, l.start, l.end, "ALLOCATED") \in Allocated(b)
        BY <2>2 DEF Allocated
      <3> QED BY <1>1, <2>2, <3>1
    <2> QED BY <2>1, <2>2
  <1> QED BY <1>3, <1>4

-----------------------------------------------------------------------------
\* The empty calendar satisfies the invariant.
LEMMA InitInv == Init => IInv
  BY TimeAssumption
  DEF Init, IInv, TypeOK, InFlightSound, LockExclusion, LockTracksBooking,
      LockMatchesStatus, PaymentAgrees, ActiveHoldsSlot, Statuses, Active, Terminal,
      Payments, Times, InFlight, SlotLocks

-----------------------------------------------------------------------------
(* One lemma per action: it preserves IInv.                                *)

\* A new booking claims a window that hasActiveOverlap found clear of every lock.
LEMMA CreateBookingInv ==
  ASSUME IInv, NEW b \in Bookings, NEW s \in Starts, NEW d \in Durations,
         CreateBooking(b, s, d)
  PROVE  IInv'
  <1> DEFINE new == SlotLock(b, s, s + d, "LOCKED")
  <1>1. s + d \in Times /\ (s + d) - s \in Durations /\ s < s + d
    BY StartPlusDuration
  <1>2. new \in SlotLocks /\ new.booking = b /\ new.start = s /\ new.end = s + d
          /\ new.state = "LOCKED"
    BY <1>1, SlotLockType
  <1>3. /\ status[b] = "NONE"
        /\ status' = [status EXCEPT ![b] = "PAYMENT_PENDING"]
        /\ startAt' = [startAt EXCEPT ![b] = s]
        /\ endAt' = [endAt EXCEPT ![b] = s + d]
        /\ payment' = [payment EXCEPT ![b] = "PENDING"]
        /\ locks' = locks \cup {new}
        /\ UNCHANGED <<inFlight, due, now, ownerFreed>>
    BY DEF CreateBooking
  <1>4. \A l \in locks : ~Overlaps(l.start, l.end, s, s + d)
    BY DEF CreateBooking, HasActiveOverlap
  <1>5. \A l \in locks : l.booking # b
    BY <1>3 DEF IInv, LockTracksBooking
  <1>6. TypeOK'
    <2>1. s \in Times
      BY DEF Times
    <2>2. status' \in [Bookings -> Statuses] /\ payment' \in [Bookings -> Payments]
      BY <1>3 DEF IInv, TypeOK, Statuses, Active, Payments
    <2>3. startAt' \in [Bookings -> Times] /\ endAt' \in [Bookings -> Times]
      BY <1>1, <1>3, <2>1 DEF IInv, TypeOK
    <2>4. \A c \in Bookings :
            status'[c] # "NONE" =>
              startAt'[c] \in Starts /\ endAt'[c] - startAt'[c] \in Durations
      BY <1>1, <1>3 DEF IInv, TypeOK
    <2>5. locks' \subseteq SlotLocks
      BY <1>2, <1>3 DEF IInv, TypeOK
    <2> QED BY <1>3, <2>2, <2>3, <2>4, <2>5 DEF IInv, TypeOK
  <1>7. InFlightSound'
    BY <1>3 DEF IInv, TypeOK, InFlightSound, InFlight
  <1>8. LockExclusion'
    <2>1. \A l \in locks : l.start \in Nat /\ l.end \in Nat
      BY TimesAreNat DEF IInv, TypeOK, SlotLocks
    <2>2. s \in Nat /\ s + d \in Nat
      BY <1>1, TimesAreNat
    <2>3. \A l \in locks : ~Overlaps(s, s + d, l.start, l.end)
      BY <1>4, <2>1, <2>2 DEF Overlaps
    <2> QED BY <1>2, <1>3, <1>4, <2>3 DEF IInv, LockExclusion
  <1>9. LockTracksBooking'
    BY <1>2, <1>3, <1>5 DEF IInv, TypeOK, LockTracksBooking, SlotLocks
  <1>10. LockMatchesStatus'
    BY <1>2, <1>3, <1>5 DEF IInv, TypeOK, LockMatchesStatus, SlotLocks
  <1>11. PaymentAgrees'
    BY <1>3 DEF IInv, TypeOK, PaymentAgrees
  <1>12. ActiveHoldsSlot'
    BY <1>2, <1>3 DEF IInv, TypeOK, ActiveHoldsSlot
  <1> QED BY <1>6, <1>7, <1>8, <1>9, <1>10, <1>11, <1>12 DEF IInv

\* A request that only reads changes no row; what it carries is well typed.
LEMMA ReadInv ==
  ASSUME IInv, NEW r \in Requests, NEW op \in Ops, NEW b \in Bookings,
         NEW s \in Starts, Read(r, op, b, s)
  PROVE  IInv'
  <1> DEFINE e == s + (endAt[b] - startAt[b])
             q == [id |-> r, op |-> op, booking |-> b, seen |-> status[b],
                   start |-> s, end |-> e]
  <1>1. status[b] \in Accepts[op] /\ inFlight' = inFlight \cup {q}
          /\ UNCHANGED <<status, startAt, endAt, payment, locks, due, now, ownerFreed>>
    BY DEF Read
  <1>2. status[b] # "NONE" /\ (op = "reschedule" => status[b] = "CONFIRMED")
    BY <1>1 DEF Accepts, Ops
  <1>3. endAt[b] - startAt[b] \in Durations
    BY <1>2 DEF IInv, TypeOK
  <1>4. e \in Times /\ e - s \in Durations
    BY <1>3, StartPlusDuration
  <1>5. q \in InFlight
    BY <1>4 DEF IInv, TypeOK, InFlight
  <1>6. TypeOK'
    BY <1>1, <1>5 DEF IInv, TypeOK
  <1>7. InFlightSound'
    <2> SUFFICES ASSUME NEW p \in inFlight'
                 PROVE  /\ status'[p.booking] # "NONE"
                        /\ p.end - p.start \in Durations
                        /\ p.seen \in Accepts[p.op]
                        /\ p.op = "reschedule" =>
                             status'[p.booking] \in {"CONFIRMED"} \cup Terminal
      BY DEF InFlightSound
    <2>1. CASE p \in inFlight
      BY <1>1, <2>1 DEF IInv, InFlightSound
    <2>2. CASE p = q
      <3>1. p.booking = b /\ p.op = op /\ p.start = s /\ p.end = e
              /\ p.seen = status[b]
        BY <2>2
      <3> QED BY <1>1, <1>2, <1>4, <3>1
    <2> QED BY <1>1, <2>1, <2>2
  <1> QED BY <1>1, <1>6, <1>7
          DEF IInv, LockExclusion, LockTracksBooking, LockMatchesStatus, PaymentAgrees,
              ActiveHoldsSlot

-----------------------------------------------------------------------------
(* A transition of one booking that leaves every window where it is.       *)

\* A guarded status change touches one booking; windows and locks keep their place.
LEMMA MoveStatus ==
  ASSUME IInv, NEW b \in Bookings, NEW to \in Statuses \ {"NONE"},
         status[b] # "NONE",
         status[b] \in {"CONFIRMED"} \cup Terminal => to \in {"CONFIRMED"} \cup Terminal,
         status' = [status EXCEPT ![b] = to],
         payment' \in [Bookings -> Payments],
         locks' \subseteq SlotLocks, inFlight' \subseteq inFlight,
         due' \subseteq Bookings,
         UNCHANGED <<startAt, endAt, now, ownerFreed>>
  PROVE  TypeOK' /\ InFlightSound'
  <1>1. \A c \in Bookings : status'[c] = IF c = b THEN to ELSE status[c]
    BY DEF IInv, TypeOK
  <1>2. TypeOK'
    BY <1>1 DEF IInv, TypeOK
  <1>3. InFlightSound'
    <2> SUFFICES ASSUME NEW q \in inFlight'
                 PROVE  /\ status'[q.booking] # "NONE"
                        /\ q.end - q.start \in Durations
                        /\ q.seen \in Accepts[q.op]
                        /\ q.op = "reschedule" =>
                             status'[q.booking] \in {"CONFIRMED"} \cup Terminal
      BY DEF InFlightSound
    <2>1. q \in inFlight /\ q.booking \in Bookings
      BY DEF IInv, TypeOK, InFlight
    <2>2. /\ status[q.booking] # "NONE"
          /\ q.end - q.start \in Durations
          /\ q.seen \in Accepts[q.op]
          /\ q.op = "reschedule" => status[q.booking] \in {"CONFIRMED"} \cup Terminal
      BY <2>1 DEF IInv, InFlightSound
    <2> QED BY <1>1, <2>1, <2>2
  <1> QED BY <1>2, <1>3

\* Giving locks up disturbs neither exclusion nor tracking.
LEMMA FewerLocks ==
  ASSUME IInv, locks' \subseteq locks, UNCHANGED <<startAt, endAt>>,
         \A c \in Bookings : status[c] # "NONE" => status'[c] # "NONE"
  PROVE  LockExclusion' /\ LockTracksBooking'
  <1>1. \A l \in locks : l.booking \in Bookings
    BY DEF IInv, TypeOK, SlotLocks
  <1>2. LockExclusion'
    BY DEF IInv, LockExclusion
  <1>3. LockTracksBooking'
    BY <1>1 DEF IInv, LockTracksBooking
  <1> QED BY <1>2, <1>3

\* What an in-flight request carries is what its first read may return.
LEMMA RequestType ==
  ASSUME IInv, NEW q \in inFlight
  PROVE  /\ q.booking \in Bookings /\ q.seen \in Statuses
         /\ q.start \in Starts /\ q.end \in Times
         /\ inFlight \ {q} \subseteq inFlight
         /\ status[q.booking] # "NONE" /\ q.end - q.start \in Durations
         /\ q.op = "reschedule" => status[q.booking] \in {"CONFIRMED"} \cup Terminal
         /\ locks \subseteq SlotLocks /\ due \subseteq Bookings
         /\ payment \in [Bookings -> Payments]
         /\ status \in [Bookings -> Statuses]
  BY DEF IInv, TypeOK, InFlight, InFlightSound

\* A request that ends without committing changes no row.
LEMMA AbandonInv ==
  ASSUME IInv, NEW q \in inFlight, Abandon(q)
  PROVE  IInv'
  <1>1. inFlight' \subseteq inFlight
          /\ UNCHANGED <<status, startAt, endAt, payment, locks, due, now, ownerFreed>>
    BY DEF Abandon
  <1> QED BY <1>1
          DEF IInv, TypeOK, InFlightSound, LockExclusion, LockTracksBooking,
              LockMatchesStatus, PaymentAgrees, ActiveHoldsSlot

\* Accepting confirms the booking, accepts its payment and allocates its lock.
LEMMA AcceptProofInv ==
  ASSUME IInv, NEW q \in inFlight, AcceptProof(q)
  PROVE  IInv'
  <1> DEFINE b == q.booking
  <1>1. b \in Bookings /\ locks \subseteq SlotLocks /\ inFlight \ {q} \subseteq inFlight
          /\ due \subseteq Bookings /\ payment \in [Bookings -> Payments]
          /\ status \in [Bookings -> Statuses]
    BY RequestType
  <1>2. /\ status[b] = "PAYMENT_PENDING"
        /\ status' = [status EXCEPT ![b] = "CONFIRMED"]
        /\ payment[b] = "PENDING"
        /\ payment' = [payment EXCEPT ![b] = "ACCEPTED"]
        /\ locks' = Allocated(b)
        /\ inFlight' = inFlight \ {q}
        /\ UNCHANGED <<startAt, endAt, due, now, ownerFreed>>
    BY DEF AcceptProof, TransitionStatus, TransitionPayment
  <1> HIDE DEF b
  <1>3. /\ locks' \subseteq SlotLocks
        /\ \A m \in locks' :
              /\ m.booking = b => m.state = "ALLOCATED"
              /\ m.booking # b => m \in locks
              /\ \E l \in locks :
                   m.booking = l.booking /\ m.start = l.start /\ m.end = l.end
        /\ \A l \in locks : \E m \in locks' : m.booking = l.booking
    BY <1>1, <1>2, AllocatedFacts
  <1>4. "CONFIRMED" \in Statuses \ {"NONE"} /\ payment' \in [Bookings -> Payments]
    BY <1>1, <1>2 DEF Statuses, Active, Payments
  <1>5. TypeOK' /\ InFlightSound'
    BY <1>1, <1>2, <1>3, <1>4, MoveStatus DEF Terminal
  <1>6. \A m, n \in locks' : m.booking = n.booking => m = n
    <2> SUFFICES ASSUME NEW m \in locks', NEW n \in locks', m.booking = n.booking
                 PROVE  m = n
      OBVIOUS
    <2>1. m \in SlotLocks /\ n \in SlotLocks
      BY <1>3
    <2>2. PICK l \in locks : m.booking = l.booking /\ m.start = l.start /\ m.end = l.end
      BY <1>3
    <2>3. PICK k \in locks : n.booking = k.booking /\ n.start = k.start /\ n.end = k.end
      BY <1>3
    <2>4. k = l
      BY <2>2, <2>3 DEF IInv, LockTracksBooking
    <2>5. CASE m.booking = b
      <3>1. m.state = n.state
        BY <1>3, <2>5
      <3> QED BY <2>1, <2>2, <2>3, <2>4, <3>1 DEF SlotLocks
    <2>6. CASE m.booking # b
      <3>1. m \in locks /\ n \in locks
        BY <1>3, <2>6
      <3> QED BY <3>1 DEF IInv, LockTracksBooking
    <2> QED BY <2>5, <2>6
  <1>7. LockExclusion'
    <2> SUFFICES ASSUME NEW m \in locks', NEW n \in locks',
                        Overlaps(m.start, m.end, n.start, n.end)
                 PROVE  m = n
      BY DEF LockExclusion
    <2>1. PICK l \in locks : m.booking = l.booking /\ m.start = l.start /\ m.end = l.end
      BY <1>3
    <2>2. PICK k \in locks : n.booking = k.booking /\ n.start = k.start /\ n.end = k.end
      BY <1>3
    <2>3. l = k
      BY <2>1, <2>2 DEF IInv, LockExclusion
    <2> QED BY <1>6, <2>1, <2>2, <2>3
  <1>8. LockTracksBooking'
    <2>1. ASSUME NEW m \in locks'
          PROVE  /\ status'[m.booking] # "NONE"
                 /\ m.start = startAt'[m.booking]
                 /\ m.end = endAt'[m.booking]
      <3>1. PICK l \in locks : m.booking = l.booking /\ m.start = l.start /\ m.end = l.end
        BY <1>3
      <3> QED BY <1>1, <1>2, <3>1 DEF IInv, LockTracksBooking, SlotLocks
    <2> QED BY <1>6, <2>1 DEF LockTracksBooking
  <1>9. LockMatchesStatus'
    <2> SUFFICES ASSUME NEW m \in locks'
                 PROVE  /\ status'[m.booking] \in {"PAYMENT_PENDING", "REJECTED"}
                             => m.state = "LOCKED"
                        /\ status'[m.booking] = "CONFIRMED" => m.state = "ALLOCATED"
      BY DEF LockMatchesStatus
    <2>1. CASE m.booking = b
      BY <1>1, <1>2, <1>3, <2>1
    <2>2. CASE m.booking # b
      <3>1. m \in locks /\ m.booking \in Bookings /\ status'[m.booking] = status[m.booking]
        BY <1>1, <1>2, <1>3, <2>2 DEF SlotLocks
      <3> QED BY <3>1 DEF IInv, LockMatchesStatus
    <2> QED BY <2>1, <2>2
  <1>10. PaymentAgrees'
    BY <1>1, <1>2 DEF IInv, PaymentAgrees
  <1>11. ActiveHoldsSlot'
    BY <1>1, <1>2, <1>3 DEF IInv, ActiveHoldsSlot, Active
  <1> QED BY <1>5, <1>7, <1>8, <1>9, <1>10, <1>11 DEF IInv

\* Rejecting moves booking and payment together and leaves the lock LOCKED.
LEMMA RejectProofInv ==
  ASSUME IInv, NEW q \in inFlight, RejectProof(q)
  PROVE  IInv'
  <1> DEFINE b == q.booking
  <1>1. b \in Bookings /\ locks \subseteq SlotLocks /\ inFlight \ {q} \subseteq inFlight
          /\ due \subseteq Bookings /\ payment \in [Bookings -> Payments]
          /\ status \in [Bookings -> Statuses]
    BY RequestType
  <1>2. /\ status[b] = "PAYMENT_PENDING"
        /\ status' = [status EXCEPT ![b] = "REJECTED"]
        /\ payment' = [payment EXCEPT ![b] = "REJECTED"]
        /\ inFlight' = inFlight \ {q}
        /\ UNCHANGED <<startAt, endAt, locks, due, now, ownerFreed>>
    BY DEF RejectProof, TransitionStatus, TransitionPayment
  <1> HIDE DEF b
  <1>3. "REJECTED" \in Statuses \ {"NONE"} /\ payment' \in [Bookings -> Payments]
    BY <1>1, <1>2 DEF Statuses, Payments
  <1>4. TypeOK' /\ InFlightSound'
    BY <1>1, <1>2, <1>3, MoveStatus DEF Terminal
  <1>5. LockExclusion' /\ LockTracksBooking'
    BY <1>1, <1>2, FewerLocks
  <1>6. LockMatchesStatus'
    BY <1>1, <1>2 DEF IInv, LockMatchesStatus, SlotLocks
  <1>7. PaymentAgrees'
    BY <1>1, <1>2 DEF IInv, PaymentAgrees
  <1>8. ActiveHoldsSlot'
    BY <1>1, <1>2 DEF IInv, ActiveHoldsSlot, Active
  <1> QED BY <1>4, <1>5, <1>6, <1>7, <1>8 DEF IInv

\* A resubmission moves booking and payment back together; locks stay.
LEMMA ResubmitInv ==
  ASSUME IInv, NEW q \in inFlight, Resubmit(q)
  PROVE  IInv'
  <1> DEFINE b == q.booking
  <1>1. b \in Bookings /\ locks \subseteq SlotLocks /\ inFlight \ {q} \subseteq inFlight
          /\ due \subseteq Bookings /\ payment \in [Bookings -> Payments]
          /\ status \in [Bookings -> Statuses]
    BY RequestType
  <1>2. /\ status[b] = "REJECTED"
        /\ status' = [status EXCEPT ![b] = "PAYMENT_PENDING"]
        /\ payment' = [payment EXCEPT ![b] = "PENDING"]
        /\ inFlight' = inFlight \ {q}
        /\ UNCHANGED <<startAt, endAt, locks, due, now, ownerFreed>>
    BY DEF Resubmit, TransitionStatus, TransitionPayment
  <1> HIDE DEF b
  <1>3. "PAYMENT_PENDING" \in Statuses \ {"NONE"} /\ payment' \in [Bookings -> Payments]
    BY <1>1, <1>2 DEF Statuses, Active, Payments
  <1>4. TypeOK' /\ InFlightSound'
    BY <1>1, <1>2, <1>3, MoveStatus DEF Terminal
  <1>5. LockExclusion' /\ LockTracksBooking'
    BY <1>1, <1>2, FewerLocks
  <1>6. LockMatchesStatus'
    BY <1>1, <1>2 DEF IInv, LockMatchesStatus, SlotLocks
  <1>7. PaymentAgrees'
    BY <1>1, <1>2 DEF IInv, PaymentAgrees
  <1>8. ActiveHoldsSlot'
    BY <1>1, <1>2 DEF IInv, ActiveHoldsSlot, Active
  <1> QED BY <1>4, <1>5, <1>6, <1>7, <1>8 DEF IInv

\* What cancelling, a no-show and completion share: a booking becomes terminal
\* and may give up its slot.
LEMMA CloseInv ==
  ASSUME IInv, NEW b \in Bookings, NEW to \in Terminal,
         status[b] # "NONE",
         to # "CANCELLED" => status[b] = "CONFIRMED",
         status' = [status EXCEPT ![b] = to],
         locks' = locks \/ locks' = Unlocked(b),
         inFlight' \subseteq inFlight, due' \subseteq due,
         UNCHANGED <<startAt, endAt, payment, now, ownerFreed>>
  PROVE  IInv'
  <1>1. /\ status \in [Bookings -> Statuses] /\ payment \in [Bookings -> Payments]
        /\ locks \subseteq SlotLocks /\ due \subseteq Bookings
    BY DEF IInv, TypeOK
  <1>2. to \in Statuses \ {"NONE"} /\ to \notin Active \cup {"REJECTED"}
    BY DEF Statuses, Active, Terminal
  <1>3. \A c \in Bookings : status'[c] = IF c = b THEN to ELSE status[c]
    BY <1>1
  <1>4. locks' \subseteq locks /\ \A l \in locks : l.booking # b => l \in locks'
    BY <1>1, UnlockedFacts
  <1>5. TypeOK' /\ InFlightSound'
    BY <1>1, <1>2, <1>4, MoveStatus
  <1>6. LockExclusion' /\ LockTracksBooking'
    BY <1>2, <1>3, <1>4, FewerLocks
  <1>7. LockMatchesStatus'
    BY <1>1, <1>2, <1>3, <1>4 DEF IInv, LockMatchesStatus, SlotLocks, Active
  <1>8. PaymentAgrees'
    BY <1>2, <1>3 DEF IInv, PaymentAgrees, Active, Terminal
  <1>9. ActiveHoldsSlot'
    BY <1>2, <1>3, <1>4 DEF IInv, ActiveHoldsSlot
  <1> QED BY <1>5, <1>6, <1>7, <1>8, <1>9 DEF IInv

\* Cancelling: only a status that was still true when the request committed.
LEMMA CancelBookingInv ==
  ASSUME IInv, NEW q \in inFlight, CancelBooking(q)
  PROVE  IInv'
  <1>1. q.booking \in Bookings /\ inFlight \ {q} \subseteq inFlight
          /\ status[q.booking] # "NONE"
    BY RequestType
  <1>2. /\ status' = [status EXCEPT ![q.booking] = "CANCELLED"]
        /\ locks' = locks \/ locks' = Unlocked(q.booking)
        /\ inFlight' = inFlight \ {q}
        /\ UNCHANGED <<startAt, endAt, payment, due, now, ownerFreed>>
    BY DEF CancelBooking, TransitionStatus
  <1> QED BY <1>1, <1>2, CloseInv DEF Terminal

\* A no-show ends a confirmed booking and frees its slot.
LEMMA MarkNoShowInv ==
  ASSUME IInv, NEW q \in inFlight, MarkNoShow(q)
  PROVE  IInv'
  <1>1. q.booking \in Bookings /\ inFlight \ {q} \subseteq inFlight
    BY RequestType
  <1>2. /\ status[q.booking] = "CONFIRMED"
        /\ status' = [status EXCEPT ![q.booking] = "NO_SHOW"]
        /\ locks' = Unlocked(q.booking)
        /\ inFlight' = inFlight \ {q}
        /\ UNCHANGED <<startAt, endAt, payment, due, now, ownerFreed>>
    BY DEF MarkNoShow, TransitionStatus
  <1> QED BY <1>1, <1>2, CloseInv DEF Terminal

\* Completion ends a confirmed booking and frees its slot.
LEMMA CompleteBookingInv ==
  ASSUME IInv, NEW b \in Bookings, CompleteBooking(b)
  PROVE  IInv'
  <1>1. /\ status[b] = "CONFIRMED"
        /\ status' = [status EXCEPT ![b] = "COMPLETED"]
        /\ locks' = Unlocked(b)
        /\ due' \subseteq due
        /\ UNCHANGED <<startAt, endAt, payment, inFlight, now, ownerFreed>>
    BY DEF CompleteBooking, TransitionStatus
  <1> QED BY <1>1, CloseInv DEF Terminal

\* A slot the owner releases is remembered in ownerFreed.
LEMMA ReleaseSlotInv ==
  ASSUME IInv, NEW q \in inFlight, ReleaseSlot(q)
  PROVE  IInv'
  <1> DEFINE b == q.booking
  <1>1. b \in Bookings /\ locks \subseteq SlotLocks /\ inFlight \ {q} \subseteq inFlight
    BY RequestType
  <1>2. /\ locks' = Unlocked(b)
        /\ ownerFreed' = ownerFreed \cup {b}
        /\ inFlight' = inFlight \ {q}
        /\ UNCHANGED <<status, startAt, endAt, payment, due, now>>
    BY DEF ReleaseSlot
  <1> HIDE DEF b
  <1>3. locks' \subseteq locks /\ \A l \in locks : l.booking # b => l \in locks'
    BY <1>1, <1>2, UnlockedFacts
  <1>4. TypeOK' /\ InFlightSound'
    BY <1>1, <1>2, <1>3 DEF IInv, TypeOK, InFlightSound
  <1>5. LockExclusion' /\ LockTracksBooking'
    BY <1>2, <1>3, FewerLocks
  <1>6. LockMatchesStatus' /\ PaymentAgrees' /\ ActiveHoldsSlot'
    BY <1>2, <1>3 DEF IInv, LockMatchesStatus, PaymentAgrees, ActiveHoldsSlot
  <1> QED BY <1>4, <1>5, <1>6 DEF IInv

\* The booking's own lock is among those the overlap check looks at, so the new
\* window is clear of every other booking's lock as well.
LEMMA RescheduleInv ==
  ASSUME IInv, NEW q \in inFlight, Reschedule(q)
  PROVE  IInv'
  <1> DEFINE b == q.booking
             s == q.start
             e == q.end
             new == SlotLock(b, s, e, "ALLOCATED")
  <1>1. /\ b \in Bookings /\ s \in Starts /\ e \in Times /\ e - s \in Durations
        /\ locks \subseteq SlotLocks /\ inFlight \ {q} \subseteq inFlight
        /\ status[b] # "NONE"
        /\ q.op = "reschedule" => status[b] \in {"CONFIRMED"} \cup Terminal
    BY RequestType
  <1>2. /\ q.op = "reschedule"
        /\ startAt' = [startAt EXCEPT ![b] = s]
        /\ endAt' = [endAt EXCEPT ![b] = e]
        /\ locks' = Unlocked(b) \cup {new}
        /\ inFlight' = inFlight \ {q}
        /\ UNCHANGED <<status, payment, due, now, ownerFreed>>
    BY DEF Reschedule
  <1>3. \A l \in locks : ~Overlaps(l.start, l.end, s, e)
    BY DEF Reschedule, HasActiveOverlap
  <1>4. new \in SlotLocks /\ new.booking = b /\ new.start = s /\ new.end = e
          /\ new.state = "ALLOCATED"
    BY <1>1, SlotLockType
  <1> HIDE DEF b, s, e, new
  <1>5. /\ Unlocked(b) \subseteq locks
        /\ \A l \in Unlocked(b) : l.booking # b
        /\ \A l \in locks : l.booking # b => l \in Unlocked(b)
    BY <1>1, UnlockedFacts
  <1>6. TypeOK'
    <2>1. s \in Times
      BY <1>1 DEF Times
    <2>2. startAt' \in [Bookings -> Times] /\ endAt' \in [Bookings -> Times]
      BY <1>1, <1>2, <2>1 DEF IInv, TypeOK
    <2>3. \A c \in Bookings :
            status'[c] # "NONE" =>
              startAt'[c] \in Starts /\ endAt'[c] - startAt'[c] \in Durations
      BY <1>1, <1>2 DEF IInv, TypeOK
    <2>4. locks' \subseteq SlotLocks
      BY <1>1, <1>2, <1>4, <1>5
    <2> QED BY <1>2, <2>2, <2>3, <2>4 DEF IInv, TypeOK
  <1>7. InFlightSound'
    BY <1>2 DEF IInv, InFlightSound
  <1>8. LockExclusion'
    <2>1. \A l \in locks : l.start \in Nat /\ l.end \in Nat
      BY <1>1, TimesAreNat DEF SlotLocks
    <2>2. s \in Nat /\ e \in Nat
      BY <1>1, TimesAreNat
    <2>3. \A l \in locks : ~Overlaps(s, e, l.start, l.end)
      BY <1>3, <2>1, <2>2 DEF Overlaps
    <2> QED BY <1>2, <1>3, <1>4, <1>5, <2>3 DEF IInv, LockExclusion
  <1>9. LockTracksBooking'
    <2>1. ASSUME NEW l \in locks'
          PROVE  /\ status'[l.booking] # "NONE"
                 /\ l.start = startAt'[l.booking]
                 /\ l.end = endAt'[l.booking]
                 /\ \A m \in locks' : m.booking = l.booking => m = l
      <3>1. CASE l = new
        BY <1>1, <1>2, <1>4, <1>5, <3>1 DEF IInv, TypeOK
      <3>2. CASE l \in Unlocked(b)
        <4>1. l \in locks /\ l.booking # b /\ l.booking \in Bookings
          BY <1>1, <1>5, <3>2 DEF SlotLocks
        <4> QED BY <1>1, <1>2, <1>4, <1>5, <4>1 DEF IInv, TypeOK, LockTracksBooking
      <3> QED BY <1>2, <3>1, <3>2
    <2> QED BY <2>1 DEF LockTracksBooking
  <1>10. LockMatchesStatus'
    BY <1>1, <1>2, <1>4, <1>5 DEF IInv, LockMatchesStatus, Terminal
  <1>11. PaymentAgrees' /\ ActiveHoldsSlot'
    BY <1>2, <1>4, <1>5 DEF IInv, PaymentAgrees, ActiveHoldsSlot
  <1> QED BY <1>6, <1>7, <1>8, <1>9, <1>10, <1>11 DEF IInv

\* The sweep's list and the clock carry no promise of their own.
LEMMA BackgroundInv ==
  ASSUME IInv,
         \/ SweepCompletions \/ RestartWorker \/ Tick
         \/ \E b \in Bookings : SkipCompletion(b)
         \/ UNCHANGED vars
  PROVE  IInv'
  <1>1. /\ UNCHANGED <<status, startAt, endAt, payment, locks, inFlight, ownerFreed>>
        /\ due' \subseteq Bookings
        /\ now' \in 0..MaxTime
    <2>1. due \subseteq Bookings /\ now \in 0..MaxTime
      BY DEF IInv, TypeOK
    <2>2. CASE SweepCompletions
      BY <2>1, <2>2 DEF SweepCompletions, DueBookings
    <2>3. CASE Tick
      BY <2>1, <2>3, TimeAssumption DEF Tick
    <2>4. CASE RestartWorker \/ (\E b \in Bookings : SkipCompletion(b)) \/ UNCHANGED vars
      BY <2>1, <2>4 DEF RestartWorker, SkipCompletion, vars
    <2> QED BY <2>2, <2>3, <2>4
  <1> QED BY <1>1
          DEF IInv, TypeOK, InFlightSound, LockExclusion, LockTracksBooking,
              LockMatchesStatus, PaymentAgrees, ActiveHoldsSlot

-----------------------------------------------------------------------------
\* Every step of the system preserves the invariant.
LEMMA StepInv == IInv /\ [Next]_vars => IInv'
  <1> SUFFICES ASSUME IInv, [Next]_vars PROVE IInv'
    OBVIOUS
  <1>1. ASSUME NEW b \in Bookings, NEW s \in Starts, NEW d \in Durations,
               CreateBooking(b, s, d)
        PROVE  IInv'
    BY <1>1, CreateBookingInv
  <1>2. ASSUME NEW r \in Requests, NEW op \in Ops, NEW b \in Bookings, NEW s \in Starts,
               Read(r, op, b, s)
        PROVE  IInv'
    BY <1>2, ReadInv
  <1>3. ASSUME NEW q \in inFlight, Commit(q) PROVE IInv'
    BY <1>3, AcceptProofInv, RejectProofInv, CancelBookingInv, MarkNoShowInv,
       ReleaseSlotInv, RescheduleInv, ResubmitInv DEF Commit
  <1>4. ASSUME NEW q \in inFlight, Abandon(q) PROVE IInv'
    BY <1>4, AbandonInv
  <1>5. ASSUME NEW b \in Bookings, CompleteBooking(b) PROVE IInv'
    BY <1>5, CompleteBookingInv
  <1>6. CASE \/ SweepCompletions \/ RestartWorker \/ Tick
             \/ \E b \in Bookings : SkipCompletion(b)
             \/ UNCHANGED vars
    BY <1>6, BackgroundInv
  <1> QED BY <1>1, <1>2, <1>3, <1>4, <1>5, <1>6 DEF Next

\* The invariant holds in every reachable state.
LEMMA Invariance == Spec => []IInv
  BY InitInv, StepInv, PTL DEF Spec

\* Every variable keeps its type, and every booking the duration it was made
\* with, whatever the number of bookings, requests and offered windows.
THEOREM TypeCorrect == Spec => []TypeOK
  BY Invariance, PTL DEF IInv

\* No two active slot locks ever overlap: hasActiveOverlap inside the advisory
\* lock is enough for every handler that creates a lock.
THEOREM LocksExclude == Spec => []LockExclusion
  BY Invariance, PTL DEF IInv

\* A lock covers its booking's current window and is the booking's only lock.
THEOREM LocksTrack == Spec => []LockTracksBooking
  BY Invariance, PTL DEF IInv

\* LOCKED and ALLOCATED mean what the booking's status says.
THEOREM LocksMatch == Spec => []LockMatchesStatus
  BY Invariance, PTL DEF IInv

\* Bookings and payments move together although they are guarded separately.
THEOREM PaymentsAgree == Spec => []PaymentAgrees
  BY Invariance, PTL DEF IInv

\* Booking, payment and slot lock tell one story, however their handlers race.
THEOREM RowsKept == Spec => []RowsAgree
  BY LocksTrack, LocksMatch, PaymentsAgree, PTL DEF RowsAgree

\* Only the owner's manual release takes the slot of a booking that may still
\* take place.
THEOREM ActiveHold == Spec => []ActiveHoldsSlot
  BY Invariance, PTL DEF IInv

\* Active bookings hold the locks of their windows, and locks never overlap.
LEMMA HeldWindowsDisjoint == IInv => NoDoubleBookingUnlessFreed
  <1> SUFFICES ASSUME IInv, NEW b \in Bookings, NEW c \in Bookings, b # c,
                      status[b] \in Active, status[c] \in Active,
                      b \notin ownerFreed, c \notin ownerFreed
               PROVE  ~Overlaps(startAt[b], endAt[b], startAt[c], endAt[c])
    BY DEF NoDoubleBookingUnlessFreed
  <1>1. PICK l \in locks : l.booking = b
    BY DEF IInv, ActiveHoldsSlot
  <1>2. PICK m \in locks : m.booking = c
    BY DEF IInv, ActiveHoldsSlot
  <1>3. /\ l.start = startAt[b] /\ l.end = endAt[b]
        /\ m.start = startAt[c] /\ m.end = endAt[c]
    BY <1>1, <1>2 DEF IInv, LockTracksBooking
  <1>4. ~Overlaps(l.start, l.end, m.start, m.end)
    BY <1>1, <1>2 DEF IInv, LockExclusion
  <1> QED BY <1>3, <1>4

\* As long as the owner releases no slot by hand, no two bookings that are
\* pending or confirmed ever overlap: the reason the lock table exists.
THEOREM HeldBookingsDisjoint == Spec => []NoDoubleBookingUnlessFreed
  BY Invariance, HeldWindowsDisjoint, PTL

-----------------------------------------------------------------------------
(* The state machine of a booking.                                         *)

\* Every guarded transition is an arrow of the state machine.
LEMMA StatusStep ==
  IInv /\ [Next]_vars =>
    [\A b \in Bookings :
       status'[b] # status[b] => <<status[b], status'[b]>> \in Transitions]_vars
  <1> SUFFICES ASSUME IInv, Next, NEW b \in Bookings, status'[b] # status[b]
               PROVE  <<status[b], status'[b]>> \in Transitions
    OBVIOUS
  <1>1. status \in [Bookings -> Statuses]
    BY DEF IInv, TypeOK
  <1>2. ASSUME NEW c \in Bookings, NEW s \in Starts, NEW d \in Durations,
               CreateBooking(c, s, d)
        PROVE  <<status[b], status'[b]>> \in Transitions
    BY <1>1, <1>2 DEF CreateBooking, Transitions
  <1>3. ASSUME NEW q \in inFlight, Commit(q)
        PROVE  <<status[b], status'[b]>> \in Transitions
    <2>1. q.booking \in Bookings
      BY RequestType
    <2>2. CASE AcceptProof(q)
      BY <1>1, <2>1, <2>2 DEF AcceptProof, TransitionStatus, Transitions
    <2>3. CASE RejectProof(q)
      BY <1>1, <2>1, <2>3 DEF RejectProof, TransitionStatus, Transitions
    <2>4. CASE CancelBooking(q)
      <3>1. q.seen \in {"CONFIRMED", "PAYMENT_PENDING", "REJECTED"}
        BY <2>4 DEF IInv, InFlightSound, CancelBooking, Accepts
      <3> QED BY <1>1, <2>1, <2>4, <3>1 DEF CancelBooking, TransitionStatus, Transitions
    <2>5. CASE MarkNoShow(q)
      BY <1>1, <2>1, <2>5 DEF MarkNoShow, TransitionStatus, Transitions
    <2>6. CASE Resubmit(q)
      BY <1>1, <2>1, <2>6 DEF Resubmit, TransitionStatus, Transitions
    <2>7. CASE ReleaseSlot(q) \/ Reschedule(q)
      BY <2>7 DEF ReleaseSlot, Reschedule
    <2> QED BY <1>3, <2>2, <2>3, <2>4, <2>5, <2>6, <2>7 DEF Commit
  <1>4. ASSUME NEW c \in Bookings, CompleteBooking(c)
        PROVE  <<status[b], status'[b]>> \in Transitions
    BY <1>1, <1>4 DEF CompleteBooking, TransitionStatus, Transitions
  <1>5. ASSUME \/ SweepCompletions \/ RestartWorker \/ Tick
               \/ \E c \in Bookings : SkipCompletion(c)
               \/ \E q \in inFlight : Abandon(q)
               \/ \E r \in Requests, op \in Ops, c \in Bookings, s \in Starts :
                    Read(r, op, c, s)
        PROVE  FALSE
    BY <1>5 DEF SweepCompletions, RestartWorker, Tick, SkipCompletion, Abandon, Read
  <1> QED BY <1>2, <1>3, <1>4, <1>5 DEF Next

\* Every step moves a booking along the state machine, so a terminal booking
\* stays what it is, whatever the handlers in flight have read.
THEOREM FollowsMachine == Spec => StatusFollowsMachine
  BY Invariance, StatusStep, PTL DEF Spec, StatusFollowsMachine

-----------------------------------------------------------------------------
(* Refinement: the lock table implements SlotCalendar.                     *)

\* The empty lock table is the empty calendar.
LEMMA CalendarInit == Init => Calendar!Init
  BY DEF Init, Calendar!Init, Held

\* A lock and the window it holds.
LEMMA HeldWindow ==
  ASSUME IInv, NEW w
  PROVE  w \in Held <=> \E l \in locks : /\ w = [booking |-> l.booking, start |-> l.start,
                                                 end |-> l.end]
                                         /\ w.booking = l.booking
                                         /\ w.start = l.start /\ w.end = l.end
  BY DEF Held

\* A window that overlaps no lock is free in the calendar.
LEMMA FreeInCalendar ==
  ASSUME IInv, NEW s \in Starts, NEW e \in Times,
         \A l \in locks : ~Overlaps(l.start, l.end, s, e)
  PROVE  Calendar!Free(s, e)
  BY HeldWindow DEF Calendar!Free, Calendar!Meets, Overlaps

\* Giving up b's locks gives up b's windows.
LEMMA GiveUpStep ==
  ASSUME IInv, NEW b \in Bookings, locks' = Unlocked(b)
  PROVE  Held' = {w \in Held : w.booking # b}
  <1>1. \A w : w \in Held' <=> \E l \in Unlocked(b) :
                 w = [booking |-> l.booking, start |-> l.start, end |-> l.end]
    BY DEF Held
  <1>2. \A w : w \in Held <=> \E l \in locks :
                 w = [booking |-> l.booking, start |-> l.start, end |-> l.end]
    BY DEF Held
  <1> QED BY <1>1, <1>2 DEF Unlocked

\* Every step claims, moves or gives up windows of the calendar, or leaves it alone.
LEMMA CalendarStep == IInv /\ [Next]_vars => [Calendar!Next]_Held
  <1> SUFFICES ASSUME IInv, [Next]_vars
               PROVE  Calendar!Next \/ UNCHANGED Held
    OBVIOUS
  <1>0. locks \subseteq SlotLocks
    BY DEF IInv, TypeOK
  <1>1. ASSUME NEW b \in Bookings, NEW s \in Starts, NEW d \in Durations,
               CreateBooking(b, s, d)
        PROVE  Calendar!Next
    <2> DEFINE e == s + d
    <2>1. s \in Times /\ e \in Times /\ s < e
      BY StartPlusDuration DEF Times
    <2>2. status[b] = "NONE" /\ (\A l \in locks : ~Overlaps(l.start, l.end, s, e))
            /\ locks' = locks \cup {SlotLock(b, s, e, "LOCKED")}
      BY <1>1 DEF CreateBooking, HasActiveOverlap
    <2> HIDE DEF e
    <2>3. Calendar!Free(s, e)
      BY <2>1, <2>2, FreeInCalendar
    <2>4. \A w \in Held : w.booking # b
      BY <2>2, HeldWindow DEF IInv, LockTracksBooking
    <2>5. Held' = Held \cup {Calendar!Window(b, s, e)}
      <3>1. \A w : w \in Held' <=> \E l \in locks \cup {SlotLock(b, s, e, "LOCKED")} :
                     w = [booking |-> l.booking, start |-> l.start, end |-> l.end]
        BY <2>2 DEF Held
      <3>2. \A w : w \in Held <=> \E l \in locks :
                     w = [booking |-> l.booking, start |-> l.start, end |-> l.end]
        BY DEF Held
      <3>3. Calendar!Window(b, s, e) =
              LET l == SlotLock(b, s, e, "LOCKED")
              IN  [booking |-> l.booking, start |-> l.start, end |-> l.end]
        BY DEF SlotLock, Calendar!Window
      <3> QED BY <3>1, <3>2, <3>3
    <2>6. Calendar!Claim(b, s, e)
      BY <2>1, <2>3, <2>4, <2>5 DEF Calendar!Claim
    <2> QED BY <2>1, <2>6 DEF Calendar!Next
  <1>2. ASSUME NEW q \in inFlight, Reschedule(q)
        PROVE  Calendar!Next
    <2> DEFINE b == q.booking
               s == q.start
               e == q.end
    <2>1. b \in Bookings /\ s \in Starts /\ e \in Times /\ e - s \in Durations
      BY RequestType
    <2>2. (\A l \in locks : ~Overlaps(l.start, l.end, s, e))
            /\ locks' = Unlocked(b) \cup {SlotLock(b, s, e, "ALLOCATED")}
      BY <1>2 DEF Reschedule, HasActiveOverlap
    <2> HIDE DEF b, s, e
    <2>3. s \in Times /\ s < e
      BY <2>1, WindowTimes DEF Times
    <2>4. Calendar!Free(s, e)
      BY <2>1, <2>2, FreeInCalendar
    <2>5. Held' = {w \in Held : w.booking # b} \cup {Calendar!Window(b, s, e)}
      <3>1. \A w : w \in Held' <=> \E l \in Unlocked(b) \cup {SlotLock(b, s, e, "ALLOCATED")} :
                     w = [booking |-> l.booking, start |-> l.start, end |-> l.end]
        BY <2>2 DEF Held
      <3>2. \A w : w \in {v \in Held : v.booking # b} <=> \E l \in Unlocked(b) :
                     w = [booking |-> l.booking, start |-> l.start, end |-> l.end]
        BY DEF Held, Unlocked
      <3>3. Calendar!Window(b, s, e) =
              LET l == SlotLock(b, s, e, "ALLOCATED")
              IN  [booking |-> l.booking, start |-> l.start, end |-> l.end]
        BY DEF SlotLock, Calendar!Window
      <3> QED BY <3>1, <3>2, <3>3
    <2>6. Calendar!Move(b, s, e)
      BY <2>3, <2>4, <2>5 DEF Calendar!Move
    <2> QED BY <2>1, <2>3, <2>6 DEF Calendar!Next
  <1>3. ASSUME NEW b \in Bookings, locks' = Unlocked(b)
        PROVE  Calendar!Next
    BY <1>3, GiveUpStep DEF Calendar!Next, Calendar!GiveUp
  <1>4. ASSUME NEW q \in inFlight, Commit(q), ~Reschedule(q), ~AcceptProof(q)
        PROVE  UNCHANGED locks \/ \E b \in Bookings : locks' = Unlocked(b)
    <2>1. q.booking \in Bookings
      BY RequestType
    <2> QED BY <1>4, <2>1
            DEF Commit, RejectProof, CancelBooking, MarkNoShow, ReleaseSlot, Resubmit
  <1>5. ASSUME NEW q \in inFlight, AcceptProof(q)
        PROVE  UNCHANGED Held
    <2>1. q.booking \in Bookings
      BY RequestType
    <2>2. locks' = Allocated(q.booking)
      BY <1>5 DEF AcceptProof
    <2>3. \A m \in Allocated(q.booking) : \E l \in locks :
            m.booking = l.booking /\ m.start = l.start /\ m.end = l.end
      BY <1>0, <2>1, AllocatedFacts
    <2>4. \A l \in locks : \E m \in Allocated(q.booking) :
            m.booking = l.booking /\ m.start = l.start /\ m.end = l.end
      <3> TAKE l \in locks
      <3>1. PICK m \in Allocated(q.booking) : m.booking = l.booking
        BY <1>0, <2>1, AllocatedFacts
      <3>2. PICK k \in locks : m.booking = k.booking /\ m.start = k.start /\ m.end = k.end
        BY <2>3
      <3>3. k = l
        BY <3>1, <3>2 DEF IInv, LockTracksBooking
      <3> QED BY <3>1, <3>2, <3>3
    <2> QED BY <2>2, <2>3, <2>4 DEF Held
  <1>6. ASSUME NEW b \in Bookings, CompleteBooking(b)
        PROVE  locks' = Unlocked(b)
    BY <1>6 DEF CompleteBooking
  <1>7. ASSUME \/ SweepCompletions \/ RestartWorker \/ Tick
               \/ \E b \in Bookings : SkipCompletion(b)
               \/ \E q \in inFlight : Abandon(q)
               \/ \E r \in Requests, op \in Ops, b \in Bookings, s \in Starts :
                    Read(r, op, b, s)
               \/ UNCHANGED vars
        PROVE  UNCHANGED locks
    BY <1>7 DEF SweepCompletions, RestartWorker, Tick, SkipCompletion, Abandon, Read, vars
  <1>8. UNCHANGED locks => UNCHANGED Held
    BY DEF Held
  <1> QED BY <1>1, <1>2, <1>3, <1>4, <1>5, <1>6, <1>7, <1>8 DEF Next

\* Every behaviour of the booking lifecycle is, in its lock table, a behaviour
\* of the abstract calendar.
THEOREM RefinesCalendar == Spec => ImplementsCalendar
  BY CalendarInit, CalendarStep, Invariance, PTL
  DEF Spec, ImplementsCalendar, Calendar!Spec

-----------------------------------------------------------------------------
(***************************************************************************)
(* Reminders.  Their sweeps only look at the lifecycle, so what is proved  *)
(* of it holds with them.  That no reminder is missed follows backwards:   *)
(* all of the last hour before a reminder's last moment it is due, a sweep *)
(* was complete in that hour, and what a complete sweep listed is written. *)
(* RInv says so of the sweep under way, of the last complete one, and of   *)
(* the moments that have passed.                                           *)
(***************************************************************************)

\* A reminder due at time t, of a booking settled before.
Owed(b, k, t) ==
  status[b] = "CONFIRMED" /\ settledAt[b] < t /\ k \in DueWith(startAt[b] - t)

\* What is known of every reminder of a list and of the outbox.
RTypeOK ==
  /\ listed \subseteq [booking : Bookings, kind : Kinds]
  /\ written \subseteq [booking : Bookings, kind : Kinds]
  /\ whole \in BOOLEAN /\ skipped \in BOOLEAN
  /\ lastSweep \in Nat /\ lastSweep <= now
  /\ settledAt \in [Bookings -> Nat]
  /\ \A b \in Bookings : settledAt[b] <= now

WholeListed ==
  whole => \A b \in Bookings, k \in Kinds :
             Owed(b, k, now) => Reminder(b, k) \in listed \cup written

SweepWritten ==
  \A b \in Bookings, k \in Kinds : Owed(b, k, lastSweep) => Reminder(b, k) \in written

PassedWritten ==
  ~skipped =>
    \A b \in Bookings, k \in Kinds :
      /\ status[b] = "CONFIRMED" /\ settledAt[b] + Hour <= startAt[b] - Latest(k)
      /\ startAt[b] - Latest(k) < now
      => Reminder(b, k) \in written

RInv ==
  IInv /\ RTypeOK /\ RemindersOfConfirmed /\ WholeListed /\ SweepWritten /\ PassedWritten

-----------------------------------------------------------------------------
\* A step of the model with reminders is a step of the lifecycle, or none.
LEMMA ReminderStep == [RNext]_allVars => [Next]_vars
  <1>1. Live => Next
    BY DEF Live
  <1>2. Pass => Next
    BY DEF Pass, Next
  <1>3. ListReminders => UNCHANGED vars
    BY DEF ListReminders
  <1>4. \A n \in listed : WriteReminder(n) => UNCHANGED vars
    BY DEF WriteReminder
  <1>5. \A lost \in SUBSET listed : LoseSweep(lost) => UNCHANGED vars
    BY DEF LoseSweep
  <1>6. UNCHANGED allVars => UNCHANGED vars
    BY DEF allVars
  <1> QED BY <1>1, <1>2, <1>3, <1>4, <1>5, <1>6 DEF RNext

\* Reminders observe the lifecycle of bookings and leave it what it is: with
\* them, it is still the one of module Booking, and all its theorems hold.
THEOREM RemindersObserve == RSpec => Spec
  <1>1. RInit => Init
    BY DEF RInit
  <1> QED BY <1>1, ReminderStep, PTL DEF RSpec, Spec

\* All of the last hour before its last moment a reminder is due.
LEMMA DueInLastHour ==
  ASSUME NEW start \in Int, NEW k \in Kinds, NEW t \in Int,
         start - Latest(k) - Hour < t, t <= start - Latest(k)
  PROVE  k \in DueWith(start - t)
  BY ReminderAssumption DEF Kinds, Latest, DueWith

\* Clock, start times and last moments are integers.
LEMMA ReminderTypes ==
  ASSUME IInv, RTypeOK
  PROVE  /\ now \in Nat /\ lastSweep \in Nat /\ Hour \in Nat /\ Hour > 0 /\ Day \in Nat
         /\ \A b \in Bookings : startAt[b] \in Int /\ settledAt[b] \in Nat
         /\ \A k \in Kinds : Latest(k) \in Int /\ Latest(k) > 0
  <1>1. now \in Nat /\ startAt \in [Bookings -> Times]
    BY TimeAssumption DEF IInv, TypeOK
  <1>2. \A b \in Bookings : startAt[b] \in Int
    <2> TAKE b \in Bookings
    <2>1. startAt[b] \in Times
      BY <1>1
    <2>2. \A t \in Times : t \in Int
      BY TimesAreNat
    <2> QED BY <2>1, <2>2
  <1>3. \A k \in Kinds : Latest(k) \in Int /\ Latest(k) > 0
    BY ReminderAssumption DEF Latest
  <1> QED BY <1>1, <1>2, <1>3, ReminderAssumption DEF RTypeOK

\* What DueReminders lists are reminders of confirmed bookings, all that are due.
LEMMA DueRemindersFacts ==
  /\ \A n \in DueReminders : /\ n \in [booking : Bookings, kind : Kinds]
                             /\ status[n.booking] = "CONFIRMED"
  /\ \A b \in Bookings, k \in Kinds :
       status[b] = "CONFIRMED" /\ k \in DueWith(startAt[b] - now)
         => Reminder(b, k) \in DueReminders
  <1> DEFINE Of(b) == {Reminder(b, k) : k \in DueWith(startAt[b] - now)}
             Confirmed == {c \in Bookings : status[c] = "CONFIRMED"}
  <1>1. DueReminders = UNION {Of(b) : b \in Confirmed}
    BY DEF DueReminders
  <1>2. ASSUME NEW n \in DueReminders
        PROVE  /\ n \in [booking : Bookings, kind : Kinds]
               /\ status[n.booking] = "CONFIRMED"
    <2>1. PICK b \in Confirmed : n \in Of(b)
      BY <1>1, <1>2
    <2>2. PICK k \in DueWith(startAt[b] - now) : n = Reminder(b, k)
      BY <2>1
    <2>3. k \in Kinds
      BY <2>2 DEF DueWith
    <2> QED BY <2>1, <2>2, <2>3 DEF Reminder
  <1>3. ASSUME NEW b \in Bookings, NEW k \in Kinds, status[b] = "CONFIRMED",
               k \in DueWith(startAt[b] - now)
        PROVE  Reminder(b, k) \in DueReminders
    <2>1. b \in Confirmed /\ Reminder(b, k) \in Of(b)
      BY <1>3
    <2> QED BY <1>1, <2>1
  <1> QED BY <1>2, <1>3

\* The lifecycle settles a booking now or leaves it as settled as it was.
LEMMA LiveKeeps ==
  ASSUME IInv, RTypeOK, Live
  PROVE  /\ RTypeOK'
         /\ \A b \in Bookings :
              status'[b] = "CONFIRMED" /\ settledAt'[b] < now =>
                /\ status[b] = "CONFIRMED" /\ startAt'[b] = startAt[b]
                /\ settledAt'[b] = settledAt[b]
         /\ \A b \in Bookings : settledAt'[b] = now \/ settledAt'[b] = settledAt[b]
  <1>1. \A b \in Bookings : settledAt'[b] =
          IF status'[b] = "CONFIRMED" /\ (status[b] # "CONFIRMED" \/ startAt'[b] # startAt[b])
          THEN now ELSE settledAt[b]
    BY DEF Live
  <1>2. now' = now /\ now \in Nat /\ \A b \in Bookings : settledAt[b] \in Nat
    BY ReminderTypes DEF Live
  <1>3. UNCHANGED <<listed, written, whole, lastSweep, skipped>>
    BY DEF Live
  <1>4. settledAt' \in [Bookings -> Nat]
    BY <1>2 DEF Live, RTypeOK
  <1>5. \A b \in Bookings : settledAt'[b] <= now
    BY <1>1, <1>2 DEF RTypeOK
  <1>6. RTypeOK'
    BY <1>2, <1>3, <1>4, <1>5 DEF RTypeOK
  <1> QED BY <1>1, <1>2, <1>6

\* A confirmed booking stays confirmed or ends, and what has ended stays ended.
LEMMA ConfirmedOrOver ==
  ASSUME IInv, [Next]_vars, NEW b \in Bookings,
         status[b] \in {"CONFIRMED"} \cup Terminal
  PROVE  status'[b] \in {"CONFIRMED"} \cup Terminal
  <1>1. CASE status'[b] = status[b]
    BY <1>1
  <1>2. CASE status'[b] # status[b]
    <2>1. vars' # vars
      BY <1>2 DEF vars
    <2>2. <<status[b], status'[b]>> \in Transitions
      BY <1>2, <2>1, StatusStep
    <2> QED BY <2>2 DEF Transitions, Terminal
  <1> QED BY <1>1, <1>2

-----------------------------------------------------------------------------
\* Nothing is listed or written, and no moment has passed.
LEMMA ReminderInit == RInit => RInv
  <1> SUFFICES ASSUME RInit PROVE RInv
    OBVIOUS
  <1>1. IInv
    BY InitInv DEF RInit
  <1>2. RTypeOK
    <2>1. now = 0 /\ lastSweep = 0 /\ settledAt = [b \in Bookings |-> 0]
      BY DEF RInit, Init
    <2>2. lastSweep \in Nat /\ lastSweep <= now /\ settledAt \in [Bookings -> Nat]
            /\ \A b \in Bookings : settledAt[b] <= now
      BY <2>1
    <2>3. listed = {} /\ written = {} /\ whole \in BOOLEAN /\ skipped \in BOOLEAN
      BY DEF RInit
    <2> QED BY <2>2, <2>3 DEF RTypeOK
  <1>3. \A b \in Bookings : status[b] = "NONE"
    BY DEF RInit, Init
  <1>4. RemindersOfConfirmed /\ WholeListed /\ SweepWritten /\ PassedWritten
    BY <1>3 DEF RInit, RemindersOfConfirmed, WholeListed, SweepWritten, PassedWritten, Owed
  <1> QED BY <1>1, <1>2, <1>4 DEF RInv

\* What the lifecycle settles in between, no list owes anything yet.
LEMMA LiveInv ==
  ASSUME RInv, Live
  PROVE  RInv'
  <1>1. IInv /\ RTypeOK
    BY DEF RInv
  <1>2. Next /\ UNCHANGED <<now, listed, written, whole, lastSweep, skipped>>
    BY DEF Live
  <1>3. IInv'
    BY <1>1, <1>2, StepInv
  <1>4. RTypeOK'
    BY <1>1, LiveKeeps
  <1>5. RemindersOfConfirmed'
    <2>1. \A n \in listed \cup written :
            n.booking \in Bookings /\ status[n.booking] \in {"CONFIRMED"} \cup Terminal
      BY DEF RInv, RTypeOK, RemindersOfConfirmed
    <2> QED BY <1>1, <1>2, <2>1, ConfirmedOrOver DEF RemindersOfConfirmed
  <1>6. \A b \in Bookings, k \in Kinds, t \in Nat :
          t <= now /\ Owed(b, k, t)' => Owed(b, k, t)
    <2> SUFFICES ASSUME NEW b \in Bookings, NEW k \in Kinds, NEW t \in Nat, t <= now,
                        status'[b] = "CONFIRMED", settledAt'[b] < t,
                        k \in DueWith(startAt'[b] - t)
                 PROVE  Owed(b, k, t)
      BY DEF Owed, DueWith
    <2>1. settledAt'[b] < now
      BY <1>4, ReminderTypes, <1>1 DEF RTypeOK
    <2> QED BY <1>1, <2>1, LiveKeeps DEF Owed
  <1>7. \A b \in Bookings, k \in Kinds :
          (Owed(b, k, now)' => Owed(b, k, now)) /\ (Owed(b, k, lastSweep)' => Owed(b, k, lastSweep))
    <2>1. now \in Nat /\ lastSweep \in Nat /\ lastSweep <= now
      BY <1>1, ReminderTypes DEF RTypeOK
    <2> QED BY <1>2, <1>6, <2>1 DEF Owed
  <1>8. WholeListed' /\ SweepWritten'
    BY <1>2, <1>7 DEF RInv, WholeListed, SweepWritten, Reminder
  <1>9. PassedWritten'
    <2> SUFFICES ASSUME ~skipped, NEW b \in Bookings, NEW k \in Kinds,
                        status'[b] = "CONFIRMED",
                        settledAt'[b] + Hour <= startAt'[b] - Latest(k),
                        startAt'[b] - Latest(k) < now
                 PROVE  Reminder(b, k) \in written
      BY <1>2 DEF PassedWritten, Reminder, Latest
    <2>1. startAt'[b] \in Int /\ settledAt'[b] \in Nat /\ Latest(k) \in Int /\ Latest(k) > 0
            /\ Hour \in Nat /\ Hour > 0 /\ now \in Nat
      <3>1. startAt'[b] \in Times
        BY <1>3 DEF IInv, TypeOK
      <3>2. \A t \in Times : t \in Int
        BY TimesAreNat
      <3>3. settledAt'[b] \in Nat
        BY <1>4 DEF RTypeOK
      <3> QED BY <1>1, <3>1, <3>2, <3>3, ReminderTypes
    <2>2. settledAt'[b] < now
      BY <2>1
    <2>3. status[b] = "CONFIRMED" /\ startAt'[b] = startAt[b] /\ settledAt'[b] = settledAt[b]
      BY <1>1, <2>2, LiveKeeps
    <2> QED BY <2>3 DEF RInv, PassedWritten
  <1> QED BY <1>3, <1>4, <1>5, <1>8, <1>9 DEF RInv

\* A sweep lists all that is due, of confirmed bookings.
LEMMA ListInv ==
  ASSUME RInv, ListReminders
  PROVE  RInv'
  <1>1. /\ UNCHANGED <<vars, written, lastSweep, skipped, settledAt>>
        /\ listed' = listed \cup DueReminders /\ whole' = TRUE
    BY DEF ListReminders
  <1>2. IInv'
    BY <1>1, StepInv DEF RInv
  <1>3. RTypeOK'
    BY <1>1, DueRemindersFacts DEF RInv, RTypeOK, vars
  <1>4. RemindersOfConfirmed'
    BY <1>1, DueRemindersFacts DEF RInv, RemindersOfConfirmed, vars
  <1>5. WholeListed'
    <2> SUFFICES ASSUME NEW b \in Bookings, NEW k \in Kinds, Owed(b, k, now)
                 PROVE  Reminder(b, k) \in listed'
      BY <1>1 DEF WholeListed, Owed, Reminder, vars
    <2> QED BY <1>1, DueRemindersFacts DEF Owed
  <1>6. SweepWritten' /\ PassedWritten'
    BY <1>1 DEF RInv, SweepWritten, PassedWritten, Owed, Reminder, vars
  <1> QED BY <1>2, <1>3, <1>4, <1>5, <1>6 DEF RInv

\* Writing a row takes it from the list to the outbox.
LEMMA WriteInv ==
  ASSUME RInv, NEW n \in listed, WriteReminder(n)
  PROVE  RInv'
  <1>1. /\ UNCHANGED <<vars, whole, lastSweep, skipped, settledAt>>
        /\ listed' = listed \ {n} /\ written' = written \cup {n}
    BY DEF WriteReminder, history
  <1>2. IInv'
    BY <1>1, StepInv DEF RInv
  <1>3. listed' \cup written' = listed \cup written /\ written \subseteq written'
    BY <1>1
  <1>4. RTypeOK' /\ RemindersOfConfirmed'
    BY <1>1, <1>3 DEF RInv, RTypeOK, RemindersOfConfirmed, vars
  <1>5. WholeListed' /\ SweepWritten' /\ PassedWritten'
    BY <1>1, <1>3 DEF RInv, WholeListed, SweepWritten, PassedWritten, Owed, Reminder, vars
  <1> QED BY <1>2, <1>4, <1>5 DEF RInv

\* A sweep that is lost was not complete, and owes nothing.
LEMMA LoseInv ==
  ASSUME RInv, NEW lost \in SUBSET listed, LoseSweep(lost)
  PROVE  RInv'
  <1>1. /\ UNCHANGED <<vars, written, lastSweep, skipped, settledAt>>
        /\ listed' \subseteq listed /\ whole' = FALSE
    BY DEF LoseSweep
  <1>2. IInv'
    BY <1>1, StepInv DEF RInv
  <1>3. RTypeOK' /\ RemindersOfConfirmed'
    BY <1>1 DEF RInv, RTypeOK, RemindersOfConfirmed, vars
  <1>4. WholeListed' /\ SweepWritten' /\ PassedWritten'
    BY <1>1 DEF RInv, WholeListed, SweepWritten, PassedWritten, Owed, Reminder, vars
  <1> QED BY <1>2, <1>3, <1>4 DEF RInv

\* The clock passes a reminder's last moment only with its row written: by the
\* sweep of this moment if it is complete, or else by one of the hour before.
LEMMA PassInv ==
  ASSUME RInv, Pass
  PROVE  RInv'
  <1> DEFINE last == IF whole /\ listed = {} THEN now ELSE lastSweep
  <1>1. /\ now' = now + 1
        /\ UNCHANGED <<status, startAt, endAt, payment, locks, inFlight, due, ownerFreed>>
        /\ UNCHANGED <<listed, written, settledAt>>
        /\ lastSweep' = last /\ whole' = FALSE
        /\ skipped' = (skipped \/ now - last >= Hour)
    BY DEF Pass, Tick
  <1>2. IInv'
    <2>1. Next
      BY DEF Pass, Next
    <2> QED BY <2>1, StepInv DEF RInv
  <1>3. /\ now \in Nat /\ lastSweep \in Nat /\ Hour \in Nat
        /\ \A b \in Bookings : startAt[b] \in Int /\ settledAt[b] \in Nat
        /\ \A k \in Kinds : Latest(k) \in Int
    BY ReminderTypes DEF RInv
  <1>4. last \in Nat /\ last <= now
    BY <1>3 DEF RInv, RTypeOK
  <1>5. \A b \in Bookings, k \in Kinds : Owed(b, k, last) => Reminder(b, k) \in written
    <2>1. CASE whole /\ listed = {}
      BY <2>1 DEF RInv, WholeListed
    <2>2. CASE ~(whole /\ listed = {})
      BY <2>2 DEF RInv, SweepWritten
    <2> QED BY <2>1, <2>2
  <1> HIDE DEF last
  <1>6. RTypeOK'
    <2>1. lastSweep' \in Nat /\ lastSweep' <= now' /\ skipped' \in BOOLEAN
            /\ \A b \in Bookings : settledAt[b] <= now + 1
      BY <1>1, <1>3, <1>4 DEF RInv, RTypeOK
    <2> QED BY <1>1, <2>1 DEF RInv, RTypeOK
  <1>7. RemindersOfConfirmed' /\ WholeListed'
    BY <1>1 DEF RInv, RemindersOfConfirmed, WholeListed
  <1>8. SweepWritten'
    BY <1>1, <1>5 DEF SweepWritten, Owed, Reminder
  <1>9. PassedWritten'
    <2> SUFFICES ASSUME ~skipped', NEW b \in Bookings, NEW k \in Kinds,
                        status[b] = "CONFIRMED",
                        settledAt[b] + Hour <= startAt[b] - Latest(k),
                        startAt[b] - Latest(k) < now + 1
                 PROVE  Reminder(b, k) \in written
      BY <1>1 DEF PassedWritten, Reminder, Latest
    <2>1. ~skipped /\ now - last < Hour
      <3>1. ~skipped /\ ~(now - last >= Hour)
        BY <1>1, Zenon
      <3> QED BY <1>3, <1>4, <3>1
    <2>2. CASE startAt[b] - Latest(k) < now
      BY <2>1, <2>2 DEF RInv, PassedWritten
    <2>3. CASE ~(startAt[b] - Latest(k) < now)
      <3>1. startAt[b] - Latest(k) = now
        BY <1>3, <2>3
      <3>2. startAt[b] - Latest(k) - Hour < last /\ last <= startAt[b] - Latest(k)
        BY <1>3, <1>4, <2>1, <3>1
      <3>3. k \in DueWith(startAt[b] - last) /\ settledAt[b] < last
        BY <1>3, <1>4, <3>2, DueInLastHour
      <3> QED BY <1>5, <3>3 DEF Owed
    <2> QED BY <2>2, <2>3
  <1> QED BY <1>2, <1>6, <1>7, <1>8, <1>9 DEF RInv

\* Every step of the lifecycle, the clock and the sweeps preserves the invariant.
LEMMA ReminderStepInv == RInv /\ [RNext]_allVars => RInv'
  <1> SUFFICES ASSUME RInv, [RNext]_allVars PROVE RInv'
    OBVIOUS
  <1>1. CASE UNCHANGED allVars
    <2>1. UNCHANGED vars /\ UNCHANGED <<listed, written, whole, lastSweep, skipped, settledAt>>
      BY <1>1 DEF allVars, reminding, history
    <2>2. IInv'
      BY <2>1, StepInv DEF RInv
    <2>3. RTypeOK' /\ RemindersOfConfirmed'
      BY <2>1 DEF RInv, RTypeOK, RemindersOfConfirmed, vars
    <2>4. WholeListed' /\ SweepWritten' /\ PassedWritten'
      BY <2>1 DEF RInv, WholeListed, SweepWritten, PassedWritten, Owed, Reminder, vars
    <2> QED BY <2>2, <2>3, <2>4 DEF RInv
  <1>2. CASE RNext
    BY <1>2, LiveInv, PassInv, ListInv, WriteInv, LoseInv DEF RNext
  <1> QED BY <1>1, <1>2

LEMMA ReminderInvariance == RSpec => []RInv
  BY ReminderInit, ReminderStepInv, PTL DEF RSpec

\* Nobody is reminded of a booking that was never confirmed or was rejected, for
\* every set of bookings, whatever becomes of a booking between list and row.
THEOREM OnlyConfirmedReminded == RSpec => []RemindersOfConfirmed
  BY ReminderInvariance, PTL DEF RInv

\* With a complete sweep at least once an hour, no start comes without both its
\* reminders written: overlapping and dying sweeps lose none.
THEOREM NoReminderMissed == RSpec => []RemindersWritten
  <1>1. RInv => RemindersWritten
    <2> SUFFICES ASSUME RInv, ~skipped, NEW b \in Bookings, NEW k \in Kinds,
                        status[b] = "CONFIRMED", startAt[b] <= now,
                        settledAt[b] + Hour <= startAt[b] - Latest(k)
                 PROVE  Reminder(b, k) \in written
      BY DEF RemindersWritten
    <2>1. startAt[b] - Latest(k) < now
      <3>1. now \in Nat /\ startAt[b] \in Int /\ Latest(k) \in Int /\ Latest(k) > 0
        BY ReminderTypes DEF RInv
      <3> QED BY <3>1
    <2> QED BY <2>1 DEF RInv, PassedWritten
  <1> QED BY <1>1, ReminderInvariance, PTL
=============================================================================
