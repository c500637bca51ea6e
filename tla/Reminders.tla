------------------------------ MODULE Reminders ------------------------------
(***************************************************************************)
(* The reminders of confirmed bookings (notification-delivery.service.ts,  *)
(* writeDueReminders), against the lifecycle of module Booking.            *)
(*                                                                         *)
(* A sweep lists the confirmed bookings whose start is near, with the       *)
(* reminders due for each, and then writes one outbox row after the other; *)
(* nothing is read again, so a booking may be cancelled, moved or missed    *)
(* between.  The timer does not wait for a sweep to end: the lists of       *)
(* overlapping sweeps are added up here, as those of the completion worker *)
(* are.  A row has one key for each booking and kind of reminder, whatever  *)
(* the booking's start, so it is written once.  Sending it is module        *)
(* Delivery's subject, and so is whether its customer is connected.         *)
(***************************************************************************)
EXTENDS Booking

CONSTANTS Hour,  \* an hour, in units of the clock; REMINDER_GRACE_MS is one too
          Day    \* 24 hours

ASSUME ReminderAssumption ==
  Hour \in Nat \ {0} /\ Day \in Nat /\ Day > 2 * Hour

VARIABLES
  listed,     \* reminders on a sweep's list, not yet written
  written,    \* the outbox rows of reminders
  whole,      \* history: a sweep has listed since the clock moved; none has died
  lastSweep,  \* history: when a sweep was last known to be complete
  skipped,    \* history: an hour has passed without a complete sweep
  settledAt   \* history: when each booking was last confirmed or moved

history == <<whole, lastSweep, skipped, settledAt>>
reminding == <<listed, written, history>>
allVars == <<vars, reminding>>

Kinds == {"REMINDER_24H", "REMINDER_1H"}
Reminder(b, kind) == [booking |-> b, kind |-> kind]

RInit ==
  /\ Init
  /\ listed = {} /\ written = {}
  /\ whole = FALSE /\ lastSweep = 0 /\ skipped = FALSE
  /\ settledAt = [b \in Bookings |-> 0]

TooNarrow(left) ==   \* mutant: untilStart < an hour
  {k \in Kinds : \/ k = "REMINDER_24H" /\ Day - Hour <= left /\ left < Day + Hour
                 \/ k = "REMINDER_1H" /\ 0 < left /\ left < Hour}

\* Which reminders are due when so much time is left until the start.  The query
\* asks for a start after now and before now + 25 hours.
DueWith(left) ==
  {k \in Kinds : \/ k = "REMINDER_24H" /\ Day - Hour <= left /\ left < Day + Hour
                 \/ k = "REMINDER_1H" /\ 0 < left /\ left <= Hour}

DueForAnybody ==   \* mutant: the query forgets status = CONFIRMED
  UNION {{Reminder(b, k) : k \in DueWith(startAt[b] - now)} :
           b \in {c \in Bookings : status[c] # "NONE"}}

DueReminders ==
  UNION {{Reminder(b, k) : k \in DueWith(startAt[b] - now)} :
           b \in {c \in Bookings : status[c] = "CONFIRMED"}}

\* writeDueReminders' query.
ListReminders ==
  /\ ~whole \/ ~(DueReminders \subseteq listed \cup written)
  /\ listed' = listed \cup DueReminders
  /\ whole' = TRUE
  /\ UNCHANGED <<vars, written, lastSweep, skipped, settledAt>>

\* writeCustomerDelivery: a second row with the same key is skipped.
WriteReminder(n) ==
  /\ n \in listed
  /\ listed' = listed \ {n}
  /\ written' = written \cup {n}
  /\ UNCHANGED <<vars, history>>

\* The process dies, or a write fails and the rest of its sweep is given up.
LoseSweep(lost) ==
  /\ lost # {} /\ listed' = listed \ lost
  /\ whole' = FALSE
  /\ UNCHANGED <<vars, written, lastSweep, skipped, settledAt>>

-----------------------------------------------------------------------------
\* What the lifecycle does meanwhile, and what history makes of it.
Live ==
  /\ Next /\ now' = now
  /\ settledAt' = [b \in Bookings |->
       IF status'[b] = "CONFIRMED" /\ (status[b] # "CONFIRMED" \/ startAt'[b] # startAt[b])
       THEN now ELSE settledAt[b]]
  /\ UNCHANGED <<listed, written, whole, lastSweep, skipped>>

\* A sweep was complete if all it listed is written by the time the clock moves.
Pass ==
  LET complete == whole /\ listed = {}
      last     == IF complete THEN now ELSE lastSweep
  IN  /\ Tick
      /\ lastSweep' = last
      /\ skipped' = (skipped \/ now - last >= Hour)
      /\ whole' = FALSE
      /\ UNCHANGED <<listed, written, settledAt>>

RNext ==
  \/ Live \/ Pass
  \/ ListReminders
  \/ \E n \in listed : WriteReminder(n)
  \/ \E lost \in SUBSET listed : LoseSweep(lost)

RSpec == RInit /\ [][RNext]_allVars

\* Nothing is assumed of reminders: their timer may stop.
FairRSpec == RSpec /\ Fairness

-----------------------------------------------------------------------------
(* Properties                                                              *)

Latest(kind) == IF kind = "REMINDER_24H" THEN Day - Hour ELSE 1

\* As long as a sweep gets through at least once an hour, no booking's start
\* comes without both its reminders having been written, provided that it was
\* confirmed, or last moved, an hour before the reminder's last moment: however
\* sweeps overlap and die, and whatever happens to other bookings.
RemindersWritten ==
  ~skipped =>
    \A b \in Bookings, k \in Kinds :
      /\ status[b] = "CONFIRMED" /\ startAt[b] <= now
      /\ settledAt[b] + Hour <= startAt[b] - Latest(k)
      => Reminder(b, k) \in written

\* Nobody is reminded of a booking that was never confirmed, or was rejected; one
\* that a list has outlived is over, and cannot come back to be confirmed anew.
RemindersOfConfirmed ==
  \A n \in listed \cup written : status[n.booking] \in {"CONFIRMED"} \cup Terminal
=============================================================================
