------------------------------ MODULE Booking ------------------------------
(***************************************************************************)
(* The booking lifecycle of one business: booking rows, their payment and  *)
(* the slot locks that keep appointments apart (booking.service.ts,        *)
(* resubmission.service.ts, prisma-booking.repository.ts).                 *)
(*                                                                         *)
(* Every handler reads the booking first and decides on that copy whether  *)
(* to go on (action Read); only then does it open a transaction under the  *)
(* business's advisory lock (one action each), so between the two any      *)
(* other handler may commit.  A transaction that finds a guard false       *)
(* throws and rolls back; a request may also die before it commits         *)
(* (Abandon).  The completion worker keeps its own list of due bookings    *)
(* between two transactions.                                               *)
(*                                                                         *)
(* Data of two businesses never meet: every query is scoped by businessId, *)
(* so one business is the whole story.  Slot lock rows in state RELEASED   *)
(* are read by nothing and are not kept.  Notifications published after a  *)
(* commit and the one-time code of a resubmission are other components.    *)
(***************************************************************************)
EXTENDS Integers, FiniteSets

CONSTANTS Bookings,    \* booking ids
          Requests,    \* HTTP requests being served at the same time
          Starts,      \* start times a schedule may offer
          Durations,   \* total durations of the selected services
          MaxTime      \* bound on the clock

ASSUME TimeAssumption ==
  /\ Starts \subseteq Nat
  /\ Durations \subseteq Nat \ {0}
  /\ MaxTime \in Nat

VARIABLES
  status,     \* booking.status ("NONE": the row does not exist yet)
  startAt,    \* booking.startAt
  endAt,      \* booking.endAt
  payment,    \* payment.status
  locks,      \* the active slot_lock rows
  inFlight,   \* requests between their first read and their transaction
  due,        \* bookings on a completion sweep's list, not yet processed
  now,        \* the clock
  ownerFreed  \* history: bookings whose slot the owner released by hand

vars == <<status, startAt, endAt, payment, locks, inFlight, due, now, ownerFreed>>

Active   == {"PAYMENT_PENDING", "CONFIRMED"}
Terminal == {"CANCELLED", "COMPLETED", "NO_SHOW"}
Statuses == Active \cup Terminal \cup {"NONE", "REJECTED"}

Payments == {"NONE", "PENDING", "ACCEPTED", "REJECTED"}

Times == Starts \cup {s + d : s \in Starts, d \in Durations} \cup {0}

\* The statuses each handler requires of the booking it read.
Accepts ==
  [accept     |-> {"PAYMENT_PENDING"},
   reject     |-> {"PAYMENT_PENDING"},
   cancel     |-> {"CONFIRMED", "PAYMENT_PENDING", "REJECTED"},
   noShow     |-> {"CONFIRMED"},
   release    |-> {"CANCELLED", "REJECTED"},
   reschedule |-> {"CONFIRMED"},
   resubmit   |-> {"REJECTED"}]

Ops == DOMAIN Accepts

\* What a request carries from its read into its transaction: the status it
\* saw, and the window it will write (reschedule) or saw (the others).
InFlight ==
  [id : Requests, op : Ops, booking : Bookings, seen : Statuses,
   start : Starts, end : Times]

SlotLocks ==
  [booking : Bookings, start : Starts, end : Times, state : {"LOCKED", "ALLOCATED"}]

-----------------------------------------------------------------------------
(* The repository's queries and updates, as used inside a transaction.     *)

Overlaps(s1, e1, s2, e2) == s1 < e2 /\ s2 < e1

SameStartOnly(start, end, skip) ==   \* mutant: relies on uq_slot_lock_active
  \E l \in locks : l.start = start

\* hasActiveOverlap: a booking other than those skipped, or any active lock.
HasActiveOverlap(start, end, skip) ==
  \/ \E b \in Bookings \ skip :
       status[b] \in Active /\ Overlaps(startAt[b], endAt[b], start, end)
  \/ \E l \in locks : Overlaps(l.start, l.end, start, end)

TransitionBlindly(b, from, to) ==   \* mutant: UPDATE without status = from
  status' = [status EXCEPT ![b] = to]

\* transitionStatus: UPDATE ... WHERE status = from; no row means refusal.
TransitionStatus(b, from, to) ==
  /\ status[b] = from
  /\ status' = [status EXCEPT ![b] = to]

TransitionPayment(b, from, to) ==
  /\ payment[b] = from
  /\ payment' = [payment EXCEPT ![b] = to]

SlotLock(b, start, end, state) ==
  [booking |-> b, start |-> start, end |-> end, state |-> state]

\* releaseSlotLock: every active lock of b becomes RELEASED.
Unlocked(b) == {l \in locks : l.booking # b}

\* allocateSlotLocks: the LOCKED locks of b become ALLOCATED.
Allocated(b) ==
  Unlocked(b) \cup
    {SlotLock(b, l.start, l.end, "ALLOCATED") : l \in locks \ Unlocked(b)}
-----------------------------------------------------------------------------
Init ==
  /\ status = [b \in Bookings |-> "NONE"]
  /\ startAt = [b \in Bookings |-> 0]
  /\ endAt = [b \in Bookings |-> 0]
  /\ payment = [b \in Bookings |-> "NONE"]
  /\ locks = {}
  /\ inFlight = {}
  /\ due = {}
  /\ now = 0
  /\ ownerFreed = {}

(***************************************************************************)
(* createBooking's transaction.  All it relies on is read again inside the *)
(* transaction, so its earlier reads need no step of their own here; the   *)
(* submission key, the proof file and the gates before it are module       *)
(* BookingIntake's subject.  Starts in the past are not refused.           *)
(***************************************************************************)
CreateBooking(b, start, duration) ==
  /\ status[b] = "NONE"
  /\ ~HasActiveOverlap(start, start + duration, {})
  /\ status' = [status EXCEPT ![b] = "PAYMENT_PENDING"]
  /\ startAt' = [startAt EXCEPT ![b] = start]
  /\ endAt' = [endAt EXCEPT ![b] = start + duration]
  /\ payment' = [payment EXCEPT ![b] = "PENDING"]
  /\ locks' = locks \cup {SlotLock(b, start, start + duration, "LOCKED")}
  /\ UNCHANGED <<inFlight, due, now, ownerFreed>>

\* A handler's first read of the booking.  For a reschedule, `start` is the
\* requested slot (it must be on the schedule) and the duration is the one read.
Read(r, op, b, start) ==
  /\ \A q \in inFlight : q.id # r
  /\ status[b] \in Accepts[op]
  /\ op # "reschedule" => start = startAt[b]
  /\ inFlight' = inFlight \cup
       {[id |-> r, op |-> op, booking |-> b, seen |-> status[b],
         start |-> start, end |-> start + (endAt[b] - startAt[b])]}
  /\ UNCHANGED <<status, startAt, endAt, payment, locks, due, now, ownerFreed>>

\* A request ends without having written anything: a guard of its transaction
\* failed, the database did, or the process was restarted.
Abandon(q) ==
  /\ inFlight' = inFlight \ {q}
  /\ UNCHANGED <<status, startAt, endAt, payment, locks, due, now, ownerFreed>>

-----------------------------------------------------------------------------
(* The transactions.  q is the request, as its first read left it.         *)

AcceptProof(q) ==
  /\ q.op = "accept"
  /\ TransitionPayment(q.booking, "PENDING", "ACCEPTED")
  /\ TransitionStatus(q.booking, "PAYMENT_PENDING", "CONFIRMED")
  /\ locks' = Allocated(q.booking)
  /\ inFlight' = inFlight \ {q}
  /\ UNCHANGED <<startAt, endAt, due, now, ownerFreed>>

RejectAndFree(q) ==   \* mutant: the slot does not stay locked
  /\ q.op = "reject"
  /\ TransitionPayment(q.booking, "PENDING", "REJECTED")
  /\ TransitionStatus(q.booking, "PAYMENT_PENDING", "REJECTED")
  /\ locks' = Unlocked(q.booking)
  /\ inFlight' = inFlight \ {q}
  /\ UNCHANGED <<startAt, endAt, due, now, ownerFreed>>

RejectProof(q) ==
  /\ q.op = "reject"
  /\ TransitionPayment(q.booking, "PENDING", "REJECTED")
  /\ TransitionStatus(q.booking, "PAYMENT_PENDING", "REJECTED")
  /\ inFlight' = inFlight \ {q}
  /\ UNCHANGED <<startAt, endAt, locks, due, now, ownerFreed>>

\* Cancelling an unpaid booking keeps its lock; the payment is never touched.
CancelBooking(q) ==
  /\ q.op = "cancel"
  /\ TransitionStatus(q.booking, q.seen, "CANCELLED")
  /\ locks' = IF q.seen = "PAYMENT_PENDING" THEN locks ELSE Unlocked(q.booking)
  /\ inFlight' = inFlight \ {q}
  /\ UNCHANGED <<startAt, endAt, payment, due, now, ownerFreed>>

MarkNoShow(q) ==
  /\ q.op = "noShow"
  /\ TransitionStatus(q.booking, "CONFIRMED", "NO_SHOW")
  /\ locks' = Unlocked(q.booking)
  /\ inFlight' = inFlight \ {q}
  /\ UNCHANGED <<startAt, endAt, payment, due, now, ownerFreed>>

\* The owner frees the slot of a CANCELLED or REJECTED booking.  The status is
\* not read again.
ReleaseSlot(q) ==
  /\ q.op = "release"
  /\ locks' = Unlocked(q.booking)
  /\ ownerFreed' = ownerFreed \cup {q.booking}
  /\ inFlight' = inFlight \ {q}
  /\ UNCHANGED <<status, startAt, endAt, payment, due, now>>

MoveOverOwnLock(q) ==   \* mutant: the old lock is not released
  /\ q.op = "reschedule"
  /\ ~HasActiveOverlap(q.start, q.end, {q.booking})
  /\ startAt' = [startAt EXCEPT ![q.booking] = q.start]
  /\ endAt' = [endAt EXCEPT ![q.booking] = q.end]
  /\ locks' = locks \cup {SlotLock(q.booking, q.start, q.end, "ALLOCATED")}
  /\ inFlight' = inFlight \ {q}
  /\ UNCHANGED <<status, payment, due, now, ownerFreed>>

MoveUnchecked(q) ==   \* mutant: trusts the availability read before the lock
  /\ q.op = "reschedule"
  /\ startAt' = [startAt EXCEPT ![q.booking] = q.start]
  /\ endAt' = [endAt EXCEPT ![q.booking] = q.end]
  /\ locks' = Unlocked(q.booking)
                \cup {SlotLock(q.booking, q.start, q.end, "ALLOCATED")}
  /\ inFlight' = inFlight \ {q}
  /\ UNCHANGED <<status, payment, due, now, ownerFreed>>

\* The booking's own row is skipped by the overlap check, its own lock is not.
\* The status is not read again.
Reschedule(q) ==
  /\ q.op = "reschedule"
  /\ ~HasActiveOverlap(q.start, q.end, {q.booking})
  /\ startAt' = [startAt EXCEPT ![q.booking] = q.start]
  /\ endAt' = [endAt EXCEPT ![q.booking] = q.end]
  /\ locks' = Unlocked(q.booking)
                \cup {SlotLock(q.booking, q.start, q.end, "ALLOCATED")}
  /\ inFlight' = inFlight \ {q}
  /\ UNCHANGED <<status, payment, due, now, ownerFreed>>

\* A rejected booking comes back with a new proof.  No overlap check, no lock.
Resubmit(q) ==
  /\ q.op = "resubmit"
  /\ TransitionStatus(q.booking, "REJECTED", "PAYMENT_PENDING")
  /\ TransitionPayment(q.booking, "REJECTED", "PENDING")
  /\ inFlight' = inFlight \ {q}
  /\ UNCHANGED <<startAt, endAt, locks, due, now, ownerFreed>>

-----------------------------------------------------------------------------
(* The completion worker.  Sweeps may overlap: a list is added to what an  *)
(* earlier sweep still has to do.                                          *)

DueStrictlyPast(t) ==   \* mutant: endAt < now
  {b \in Bookings : status[b] = "CONFIRMED" /\ endAt[b] < t}

\* listDueForCompletion; its limit of 50 is above the bookings of any instance.
DueBookings(t) == {b \in Bookings : status[b] = "CONFIRMED" /\ endAt[b] <= t}

SweepCompletions ==
  /\ ~(DueBookings(now) \subseteq due)
  /\ due' = due \cup DueBookings(now)
  /\ UNCHANGED <<status, startAt, endAt, payment, locks, inFlight, now, ownerFreed>>

\* completeBooking: guarded by the status alone; endAt is not read again.
CompleteBooking(b) ==
  /\ b \in due
  /\ due' = due \ {b}
  /\ TransitionStatus(b, "CONFIRMED", "COMPLETED")
  /\ locks' = Unlocked(b)
  /\ UNCHANGED <<startAt, endAt, payment, inFlight, now, ownerFreed>>

\* The booking left CONFIRMED in the meantime, or its transaction failed: the
\* sweep goes on without it.
SkipCompletion(b) ==
  /\ b \in due
  /\ due' = due \ {b}
  /\ UNCHANGED <<status, startAt, endAt, payment, locks, inFlight, now, ownerFreed>>

\* A restart loses the list.
RestartWorker ==
  /\ due # {}
  /\ due' = {}
  /\ UNCHANGED <<status, startAt, endAt, payment, locks, inFlight, now, ownerFreed>>

Tick ==
  /\ now < MaxTime
  /\ now' = now + 1
  /\ UNCHANGED <<status, startAt, endAt, payment, locks, inFlight, due, ownerFreed>>

-----------------------------------------------------------------------------
Commit(q) ==
  \/ AcceptProof(q)   \/ RejectProof(q)  \/ CancelBooking(q) \/ MarkNoShow(q)
  \/ ReleaseSlot(q)   \/ Reschedule(q)   \/ Resubmit(q)

Next ==
  \/ \E b \in Bookings, s \in Starts, d \in Durations : CreateBooking(b, s, d)
  \/ \E r \in Requests, op \in Ops, b \in Bookings, s \in Starts : Read(r, op, b, s)
  \/ \E q \in inFlight : Commit(q) \/ Abandon(q)
  \/ SweepCompletions
  \/ \E b \in Bookings : CompleteBooking(b) \/ SkipCompletion(b)
  \/ RestartWorker
  \/ Tick

(***************************************************************************)
(* The worker's timer keeps firing (setInterval), and not every sweep is   *)
(* killed before it reaches a booking on its list.  Owners and customers   *)
(* are under no obligation to act.                                         *)
(***************************************************************************)
Fairness ==
  /\ WF_vars(SweepCompletions)
  /\ \A b \in Bookings : SF_vars(CompleteBooking(b))

Spec == Init /\ [][Next]_vars

-----------------------------------------------------------------------------
(* Properties                                                              *)

\* Every variable stays in its domain, and a booking keeps the duration of the
\* services it was made for: no handler leaves it with an empty window.
TypeOK ==
  /\ status \in [Bookings -> Statuses]
  /\ startAt \in [Bookings -> Times]
  /\ endAt \in [Bookings -> Times]
  /\ payment \in [Bookings -> Payments]
  /\ locks \subseteq SlotLocks
  /\ inFlight \subseteq InFlight
  /\ due \subseteq Bookings
  /\ now \in 0..MaxTime
  /\ ownerFreed \subseteq Bookings
  /\ \A b \in Bookings :
       status[b] # "NONE" =>
         startAt[b] \in Starts /\ endAt[b] - startAt[b] \in Durations

\* The slot lock table never holds two active locks that overlap, whoever they
\* belong to and whichever handlers raced: the promise of hasActiveOverlap.
LockExclusion ==
  \A l, m \in locks : Overlaps(l.start, l.end, m.start, m.end) => l = m

\* A lock follows its booking: it covers exactly the booking's window (also
\* after a reschedule that raced with something else), and it is the only one.
LockTracksBooking ==
  \A l \in locks :
    /\ status[l.booking] # "NONE"
    /\ l.start = startAt[l.booking]
    /\ l.end = endAt[l.booking]
    /\ \A m \in locks : m.booking = l.booking => m = l

\* An unpaid or rejected booking's lock is LOCKED, a confirmed one's ALLOCATED.
LockMatchesStatus ==
  \A l \in locks :
    /\ status[l.booking] \in {"PAYMENT_PENDING", "REJECTED"} => l.state = "LOCKED"
    /\ status[l.booking] = "CONFIRMED" => l.state = "ALLOCATED"

\* Booking and payment are moved by separate guarded updates and still agree: a
\* booking awaits review exactly as long as its payment does, is confirmed (or
\* later served, or missed) only on an accepted one, and is rejected with it.
PaymentAgrees ==
  \A b \in Bookings :
    /\ status[b] = "NONE" <=> payment[b] = "NONE"
    /\ status[b] = "PAYMENT_PENDING" => payment[b] = "PENDING"
    /\ status[b] \in {"CONFIRMED", "COMPLETED", "NO_SHOW"} => payment[b] = "ACCEPTED"
    /\ status[b] = "REJECTED" => payment[b] = "REJECTED"

\* The three rows of an appointment, which are written by separate statements on
\* the word of copies that may be old, tell one story.
RowsAgree == LockTracksBooking /\ LockMatchesStatus /\ PaymentAgrees

\* A booking that still expects its appointment (or may come back by
\* resubmission) holds its slot, unless the owner released that slot by hand.
ActiveHoldsSlot ==
  \A b \in Bookings :
    status[b] \in Active \cup {"REJECTED"} =>
      b \in ownerFreed \/ \E l \in locks : l.booking = b

\* Two bookings that both expect their appointment never overlap, as long as the
\* owner released neither one's slot by hand.
NoDoubleBookingUnlessFreed ==
  \A b, c \in Bookings :
    /\ b # c
    /\ status[b] \in Active /\ status[c] \in Active
    /\ b \notin ownerFreed /\ c \notin ownerFreed
    => ~Overlaps(startAt[b], endAt[b], startAt[c], endAt[c])

\* The transitions T1-T10 of the state machine; CANCELLED, COMPLETED and NO_SHOW
\* are final whatever a handler read before they were reached.
Transitions ==
  {<<"NONE", "PAYMENT_PENDING">>,     <<"PAYMENT_PENDING", "CONFIRMED">>,
   <<"PAYMENT_PENDING", "REJECTED">>, <<"PAYMENT_PENDING", "CANCELLED">>,
   <<"REJECTED", "PAYMENT_PENDING">>, <<"REJECTED", "CANCELLED">>,
   <<"CONFIRMED", "CANCELLED">>,      <<"CONFIRMED", "COMPLETED">>,
   <<"CONFIRMED", "NO_SHOW">>}

\* Every step moves a booking along the state machine or leaves it alone.
StatusFollowsMachine ==
  [][\A b \in Bookings :
       status'[b] # status[b] => <<status[b], status'[b]>> \in Transitions]_vars

\* The windows the active locks hold, as the abstract calendar sees them.
Held == {[booking |-> l.booking, start |-> l.start, end |-> l.end] : l \in locks}

Calendar == INSTANCE SlotCalendar WITH held <- Held

\* The lock table implements the abstract calendar: windows are claimed, moved
\* and given up, never taken from under a holder.
ImplementsCalendar == Calendar!Spec

\* A confirmed booking whose end has passed is eventually completed or moved on,
\* or rescheduled to end later, however often the worker restarts.
DueBookingsComplete ==
  \A b \in Bookings :
    (status[b] = "CONFIRMED" /\ endAt[b] <= now)
      ~> (status[b] # "CONFIRMED" \/ endAt[b] > now)
=============================================================================
