# A verification of Werefa

Werefa lets businesses publish a booking page, take prepaid appointments and
review the payment proofs their customers upload. This directory holds TLA+
models of the parts of it in which concurrency, failure, order and boundaries
matter (mostly `src/backend`, NestJS over Prisma and PostgreSQL, and the booking
wizard of `src/frontend`), the TLC runs that check them, and TLAPS proofs about
all of them. Everything below refers to the source as it stands in `src/`;
`PROJECT.json` maps each definition to its lines and lists the hazards each
property is for.

## The system

All state that matters is in PostgreSQL. Several things act on it at once: HTTP
requests (customers, owners, admins), the Telegram webhook, and two timers in
the process (`business-lifecycle.worker.ts`, `notification-background.worker.ts`)
that start a new sweep whether or not the last one has ended.

Nearly every handler has the same form, and most of the hazards come from it:
it **reads** rows outside any transaction and decides on that copy whether to go
on, then opens a transaction that takes a per-business advisory lock
(`withBusinessAdvisoryLock`) and **writes**, sometimes with a guard
(`UPDATE ... WHERE status = from`), sometimes without; after the commit it
**publishes** a notification, whose failure is swallowed. Accounts are the
exception: their handlers are chains of single statements with no transaction.

| Component | State | Operations | What is hard | What makes it correct |
|---|---|---|---|---|
| Booking lifecycle, slot locks (`booking.service.ts`, `resubmission.service.ts`, `prisma-booking.repository.ts`) | booking, payment, slot_lock | create, accept, reject, cancel, no-show, release, reschedule, resubmit, complete | decisions on stale copies; separately guarded updates; sweeps with old lists | locks disjoint and in step with their bookings; payment and booking agree; state machine; due bookings complete |
| Booking intake (`createBooking`) | payment_proof.submission_key, proof storage | one request from arrival to answer | retries, overlapping attempts, death at any step, unclear commits, a file outside the transaction | one booking per key; right answers; no lost or stray files; the owner is told |
| Availability and the schedule in force (`availability.ts`, `availability.service.ts`, `schedule.service.ts`) | schedule_version and its periods, schedule_exception | slots of a day, conflicts, exceptions | boundaries of days, blocks and special dates; offers read before the lock | what is offered fits the schedule read as a calendar; conflicts are real; exceptions are decided |
| Opening: pause, deactivation, resume, versions, the gates (`subscription.service.ts`, `schedule.service.ts`, `business.service.ts`) | business, business_settings, schedule_version | save, pause, resume, sweep, deactivate, pass the gates | flags read before the lock, due dates, expiry, gates read one by one | one active version; resume activates what was saved; due pauses end; who is closed takes no booking |
| Subscription and billing | subscription, subscription_proof | reconcile, submit, approve, reject | reconciliation without a lock, bands that end meanwhile, concurrent approvals | paid time is bought once; a verdict was right at some time |
| Resubmission codes | resubmission_verification | request, check, use | check-then-register attempts, replays | a code buys one proof; attempts and live codes capped |
| Notification outbox and delivery | notification_delivery | publish, claim, send, record, reclaim, bury | overlapping sweeps, lost answers, stuck rows, overwritten outcomes | no unexplained repetition; everything settled in the end |
| Reminders (`writeDueReminders`) | notification_delivery | list, write | windows of time, sweeps that come late or die, bookings that move | both reminders are written in time, and of confirmed bookings only |
| Telegram connections, webhook, callbacks | telegram_connection(_token), telegram_callback, telegram_update, pending rejections (memory) | issue, redeem, accept, reject in two messages | concurrent redemptions, buttons outliving the chat they were sent to, memory lost at restarts | one call per button and update, from the owner's chat only |
| Authentication, recovery, admin accounts | user, session, emergency_recovery | login, logout, register, change and reset passwords, recover, create and deactivate admins | check-then-increment, sessions issued while all are revoked, requests cut short | lockout comes and holds; old sessions do not survive a new password; a code resets once |
| Booking wizard (`features/public-booking`) | React state of `useBookingFlow` and `DateTimeStep` | select, query, submit, try again, start over | late, lost and overtaken answers; edits under way; one key for many tries | what is sent was offered; the receipt is true; no booking goes unnoticed |
| Catalog, profile, reports, customer status | rows of their own | single-row updates, projections | little | - |
| API layer, owner's and admin's pages, configuration, deployment | none that decides anything | parse, authorise, render | - | - |

Interactions: the wizard asks for availability and submits to the intake. Intake
passes the gates of *Opening* (the last of which reconciles the *Subscription*),
asks *Schedule* for its offers and enters *Booking* by its insert. Each decision
on a booking publishes to *Delivery*, which asks *Telegram* for the chat; the
notification timer adds *Reminders* of confirmed bookings. Telegram callbacks
call accept and reject of *Booking*. Approving a subscription proof attempts an
auto-resume. The lifecycle worker drives completion and auto-resume.

## Modules

| Module | Contents |
|---|---|
| `SlotCalendar` | abstract specification: windows claimed, moved, given up, never overlapping |
| `SubmissionLedger` | abstract specification: a key makes one booking for good, and success is said of nothing else |
| `Booking` | booking lifecycle; implements `SlotCalendar` |
| `Reminders` | the reminder sweep, composed with `Booking`, which it extends |
| `BookingIntake` | `createBooking` step by step, with retries and crashes; implements `SubmissionLedger` |
| `BookingPage` | the customer's wizard over the promises of `BookingIntake`; implements `SubmissionLedger` |
| `Schedule` | offers, conflicts and exceptions of a schedule; bookings and moves made from offers; implements `SlotCalendar` |
| `Opening` | pause, deactivation, resume, schedule versions, the gates of a booking |
| `Subscription` | bands, reconciliation, proof review |
| `Resubmission` | one-time codes for a rejected booking, and their use |
| `Delivery` | outbox and delivery sweeps |
| `Telegram` | the owner's connections, updates, buttons, reasons for rejections |
| `Accounts` | logins, lockout, sessions, passwords, recovery codes, admins |
| `BookingProofs`, `BookingIntakeProofs`, `SubscriptionProofs`, `OpeningProofs`, `ResubmissionProofs`, `DeliveryProofs`, `TelegramProofs`, `AccountsProofs` | theorems about the modules they are named after; the first of them also about `Reminders`, the second about `BookingPage`, the fourth about `Schedule` |
| `MC*` | small instances of the above for TLC, one `.cfg` per run |

Each module opens with what it takes over from the code and what it leaves to
others. Operators marked `\* mutant:` are plausible bugs: no specification uses
them, they are there to be put in the place of the definition after them, to see
that a property notices.

### Booking

One business (all queries are scoped by business). `Read` is what a handler does
before its transaction (`withVerifiedBooking` and the guards after it); the
request then sits in `inFlight` with the status and window it saw, and one action
per handler is its whole transaction: `AcceptProof`, `RejectProof`,
`CancelBooking`, `MarkNoShow`, `ReleaseSlot`, `Reschedule`, `Resubmit`. A
transaction with a false guard rolls back: that, like a restart, is `Abandon`.
`CreateBooking` is the transaction of `createBooking`; whatever it relies on is
read again inside it. `SweepCompletions`, `CompleteBooking`, `SkipCompletion` and
`RestartWorker` are the completion worker; `due` is the list it keeps in memory.

History rows of bookings and payments, RELEASED locks (nothing reads them),
prices and notifications are left out. `ownerFreed` remembers whose slot was
released by hand, since that is how double booking comes about.

### Reminders

Extends `Booking`: `Live` is any step of the lifecycle, `Pass` the clock.
`ListReminders` is the query of a sweep with the arithmetic of its two windows
(`DueWith`), `WriteReminder` one outbox row (a second with its key is skipped),
`LoseSweep` a sweep that dies, or whose rest is given up after a failed write.
Nothing is read again between the list and the write. `lastSweep`, `skipped` and
`settledAt` are histories: `RemindersWritten` is a promise for as long as a sweep
gets through once an hour.

### BookingIntake

A request is a small state machine with a `stage` for each point at which it can
be overtaken or die: key looked up, file stored, availability checked, lock
taken and both looked at again, rows inserted, committed, published, cleaned up.
The lock is per business and the key global, so `Insert` is guarded by the two
unique indexes as well. `InsertUnanswered` is a commit whose acknowledgement is
lost. Two failures are swallowed by the code, which answers all the same: that of
a notification (the second case of `Publish`) and that of a deletion (the second
case of `Discard`); the histories `unwritten` and `undeleted` record them. Catalog, gates and file checks only decide on `Refuse`. Two windows clash
or not; their arithmetic is in `Booking` and `Schedule`.

### BookingPage

What a customer can do with the wizard's buttons, and the answers that arrive.
A query of `DateTimeStep` is asked (`Mount`, `SelectDate`), answered by the server
at one moment (`AnswerQuery`) and received at a later one (`ReceiveDay`,
`ReceiveStrip`), unless it fails (`FailQuery`; `Retry` is "Try again") or its
effect was cleaned up meanwhile (`Cancelled`). A date can be chosen before the
strip is known, and one without times too, in the calendar dialog, which lets every
day be picked while none is known to have times: `SelectDate` has no further guard. `Send`
makes the submission key once and keeps it until `Restart`; `Process` is the
server (one step, the promise of `BookingIntake`), which may work on a submission
the page has given up (`Fail`). The form can be edited while an answer is
awaited. `shown`, `toldOf` and `edited` are histories.

Both modules implement `SubmissionLedger` (`ImplementsLedger`, `KeepsPromise`):
what is made are the committed bookings with their keys, what is confirmed is
what a request has answered, or what the page has shown. So the one-step server
of the page and the many steps of `createBooking` are held to the same promise.

### Schedule

Local time in units; a day is `DayLength` units, UTC is `offset` units behind.
`WorkingWindows`, `BlocksOf`, `Cut`, `OpenWindows` and `Offers` are the functions
of `availability.ts`, `OccupiedSpans` what `availability.service.ts` hands them,
`Conflicts` and `OpenConflicts` those of `schedule.service.ts`. `AskForTime`,
`AskToMove` and `AskToKeep` are what a request reads before the lock, `Commit`,
`Take` and `RecordException` its transaction. The reference definition, `Fits`,
reads the template as a calendar, moment by moment. What bookings hold, a
rejected one's slot included, is a `SlotCalendar` (`KeepsCalendar`), as it is in
`Booking`: the two modules agree on what a calendar is, one from the side of
the statuses and one from that of the offers.

### Opening

`ReadForSave`, `ReadForResume` and `AttemptAutoResume` are what a request reads
before the lock; `SaveTemplate` and `Resume` are the transactions. Versions are
numbers, `Promote` is the demotion, promotion and pointer update of
`prisma-schedule.repository.ts`. The histories `newest` (the newest version saved
during the last pause) and `undone` (a resume gave it up) are what
`ResumeActivatesSaves` needs to know of the past. `AskToBook`, `PassGate` and `AnswerBooking` are a
new booking at the three gates: `createBooking` looks at each once and
`getSlotsForDay` again, six reads at six moments, none under the lock. The
outcome of reconciling the subscription is a fact that changes at will, so
`Opening` needs nothing of `Subscription`.

### Subscription

The paid band is one number (its grace end is a constant later). Reconciliation
is four steps: read and derive, read again, guarded update, read back. A review
holds the lock and is one step, except that approval reads the clock before.
`asOf` records which statuses were right while a request ran, `misled` the
requests during which a wrong one was written; no action reads them.

### Resubmission

One booking and one customer, to whom codes are scoped. A request for a code is
three steps (`CountCodes`, `IssueCode`, `SendCode`), since nothing locks; a
resubmission reads the known keys (`LookUpKey`), reads one code and compares
(`CheckCode`), and then either counts a wrong guess (`RegisterAttempt`) or runs
the transaction (`Resubmit`), which looks at the booking, the key and the use of
the code again, but not at its attempts or expiry. All codes live equally long,
so `expired` is the number of the last one that has expired. `guesses` is a
history: the wrong codes each code was compared with, less those whose request
ended before it could count them.

### Delivery

Rows are identified by idempotency key. `Publish` is the read of the connection
after some handler's commit, `CreateDelivery` the insert (a second one with the
same key is skipped), `LosePublication` a crash or the swallowed exception. A
sweep reads stuck rows, takes each back, lists due rows, and for each: claims
(the only guarded write), sends, records by row id with the attempt counter of
its list. A lost answer of the provider is the third case of `Send`. Time is two
facts about a row: its next attempt is due; it has been SENDING too long.

### Telegram

An update is delivered at least once and handled at most once, which `Deliver`
(the insert of its update_id) and the absence of any way back say together.
Connections are named by the code that made them, since two overlapping first
redemptions make two. `ReadButton` and `Claim` are the two halves of `claim`,
`pending` is the map in the process's memory, `Restart` empties it. `Stop` is
any refusal or failure between two steps; what was in hand then is lost. The
calls of accept and reject are recorded in `calls`; what they do is in
*Booking*. `welcome` and `forgotten` are histories that no action reads.

### Accounts

Every statement of a handler is an action and every handler can end between two
of them (`Abandon`, which records in `lost` a lock or a revocation that was still
to come). A request carries what it has read. A password is the number of times
it has been set, and whether the one presented is right is the client's choice
at the comparison with the copy. `late` marks a session whose login had read the
account before its password changed; `resets` counts what each code has done.
`Register` goes straight on to the session; a first login with Google
(`RegisterWithGoogle`) is recorded as a success (`Succeed`) before.
E-mails, the journals and hashing are left out.

## Runs

Two workers; each under two minutes, most under one.

| Run | Instance | Shows |
|---|---|---|
| `booking_safety` | 2 bookings, 2 requests in flight, starts 0 and 1, durations 1 and 2, clock to 2; 1.1 million states | safety of the lifecycle, refinement of `SlotCalendar` |
| `reminders` | 1 booking, 1 request, starts 6 and 8, an hour of 2 units and a day of 5, clock to 9, fair; 488 000 states | reminders in time and of confirmed bookings only; due bookings are completed |
| `intake` | 3 requests, 2 businesses, 2 keys, 2 windows that overlap; 586 000 states | refinement of `SubmissionLedger`; slots, files, notification |
| `page` | 2 selections, 2 dates, 1 time, 2 submissions, 1 change of what is offered; 1.5 million states | what is sent, shown and forgotten |
| `schedule` | 2 bookings, 2 days of 4 units, 4 templates, 2 time zones, 2 versions, 1 exception; 275 000 states | offers, conflicts, exceptions |
| `opening` | 2 requests to save, pause or resume, 1 request for a booking at the gates, 3 versions, fair; 329 000 states | schedule versions, pauses, gates |
| `subscription` | 2 requests, 2 proofs, trial 2 + 1, paid 2 + 1, clock to 6; 456 000 states | paid time, verdicts |
| `resubmission` | 2 requests, 2 keys, 3 codes, at most 1 active code and 2 attempts; 3.8 million states | single use, caps |
| `delivery` | 1 recurring reminder, 2 sweeps, 2 attempts, fair; 54 000 states | repetition is excused, settled rows stay settled, all rows settle |
| `telegram` | 4 updates, 2 chats, 1 booking, 2 codes; 155 000 states | taps, connections, reasons |
| `accounts` | a super admin and somebody else, 2 requests at a time, 6 in all, 2 failures, 2 codes, clock to 2; 1.3 million states | sessions, lockout, recovery codes |
| `special_dates` | as `schedule` | ends with a counterexample: the finding below |

### The finding

`availability.ts:20` and `:74` say that special dates replace the hours "for that
calendar day" and that the entries passed are those of the day.
`availability.service.ts:100-105` passes all special dates of the active version
and `buildWorkingWindows` (`availability.ts:103`) compares no date: one CLOSED
date closes every day, one CUSTOM date sets the hours of every day. The conflict
report of `schedule.service.ts:236` does compare them. Run `special_dates`;
`OffersAreRight` and `NewTimesFit` exempt versions with a special date of another
day, and hold otherwise.

### Disagreements the models contain

What follows is in the models, as the code has it, and named as an exception in
properties. It has no run of its own: `special_dates` is the one that contradicts
a comment in every use of the feature; the ones below need an overlap, a failure
or a time zone other than UTC, and the runs of their modules show that nothing
beyond them goes wrong.

- A resubmission relies on "the slot stays LOCKED" (`resubmission.service.ts:43`)
  and checks nothing (`:253`). Reject, release by the owner, another booking of
  the slot, resubmission: two bookings await review for one slot.
  `NoDoubleBookingUnlessFreed` says that a release by hand is the only way there.
- A reschedule that read CONFIRMED commits after a cancellation
  (`booking.service.ts:472` updates with no status): a cancelled booking gets an
  ALLOCATED lock. `LockMatchesStatus` says nothing of terminal bookings.
- A booking on a sweep's list that is rescheduled before its turn is completed
  before it has taken place (`CompleteBooking` reads the status again, not the
  end).
- The owner is to be notified of every proof, but a resubmitted one has the
  idempotency key of the first (`notification-catalog.ts:69`) and is dropped as a
  duplicate (`notification-outbox-event-bus.ts:289`); for the same reason a
  rescheduled booking is not reminded of again. `RemindersWritten` asks for one
  row of each kind only.
- Replaced schedule versions are PENDING too (`subscription.service.ts:137`), and a
  resume promotes the last PENDING one whatever is in force. So a resume without a
  new save brings the previous schedule back; a version saved during a pause by a
  save that had read the flag before (`schedule.service.ts:37`) is promoted at once
  and demoted by the resume; and so does a second resume with the version the first
  one has promoted, as `manualResume` does not ask whether there is a pause.
  `ResumeActivatesSaves` calls these `undone`. A save that read the flag during a
  pause and commits after its end stays PENDING; nothing is claimed of it.
- The clean-up after an attempt says that it removes the proof of an "idempotent
  replay" (`booking.service.ts:198`). A replay that finds its key under the lock
  has returned from the transaction, counts as committed, and keeps its copy,
  linked to nothing. The test of replays (`http-api.db.spec.ts:1303`) sends them one
  after another, so that the second is answered before it stores a file, and counts
  the rows of files, not the objects. `StrayFilesExplained` names these copies.
- The same clean-up swallows a failing deletion, as `discardStaged` does (`:202`,
  `:631`), and leaves the file; and it removes a file that a proof is linked to if
  the commit took effect but was not acknowledged. A notification that cannot be
  written is given up and the request answered as booked
  (`notification-outbox-event-bus.ts:66`, on purpose); nor does a retry publish what
  its first attempt did not come to. `FilesAccountedFor` and `BookedIsTold` name
  all of these.
- A reconciliation that straddles the end of a band writes its outdated status
  over EXPIRED, and another reads it back (`misled` in `VerdictJustified`).
- A connection code redeemed in two chats at the same time moves the connection
  to the second (`Bind` does not look at the code's state). Buttons tapped in the
  old chat decide nothing from then on, but a reason typed there still does if its
  prompt was claimed before: `submitRejectReason` does not look at the connection's
  chat again.
- Occupied spans are counted from midnight UTC and compared with local minutes
  (`availability.service.ts:66-90`), although `availability.ts:23-26`,
  `availability.service.ts:17-18` and `global-clock.ts:1-9` have all of it in the
  global time zone, by default Africa/Addis_Ababa. Away from UTC, taken times are
  therefore offered and free ones held back. `OffersAreRight` says which times are
  taken under UTC only, and of other zones just that what is offered fits the
  calendar; the check under the lock keeps bookings apart all the same
  (`NewTimesFit`).
- A booking that lasts until midnight ends at minute 0 of its day
  (`schedule.service.ts:234`), so its conflict may be overlooked:
  `ConflictsAreReal` exempts it.
- A login that read the account before a password changed keeps the session it
  opens afterwards (`late`), and one that has read no lock lifts one that was set
  since (`LocksHold`).
- After an answer "error" the wizard offers only to try again with the same
  form; one whose key has booked something else in the meantime gets no further.
- The loser of a race for one subscription submission key is answered with the
  winner's proof, whichever business it belongs to
  (`subscription-billing.service.ts:118`); not modelled, the submission being one
  step of `Subscription`.

### The properties

- **Booking** `RowsAgree`: the three rows of an appointment (window and lock,
  lock and status, status and payment), written by separate statements on old
  copies, tell one story; `ActiveHoldsSlot` and `NoDoubleBookingUnlessFreed`
  bookings keep their slots, so that the one way to a double booking is a release
  by hand; `StatusFollowsMachine` stale decisions never leave the state machine;
  `ImplementsCalendar`.
- **Reminders** `RemindersWritten`; `RemindersOfConfirmed` nobody is reminded of a
  booking that was rejected or never confirmed, however old the list;
  `DueBookingsComplete` (of `Booking`, in this composition) due bookings are
  completed by the other worker.
- **BookingIntake** `BookingsApart` one booking per key and per slot;
  `ImplementsLedger` success is said of what the key has made only, and that is
  exactly what was asked for (`AnswersAreOwn` says the latter of each request);
  `FilesAccountedFor` and `BookedIsTold`: an unacknowledged commit, a deletion or a
  notification that failed, and a replay found under the lock are the only ways in
  which a file is lost or left over, or an owner not told of what a client was
  answered.
- **BookingPage** `SubmittedWasOffered`; `ReceiptTrue`, unless the form was edited
  while the answer was awaited; `NoBookingForgotten` a booking the customer was
  not told of is still within reach of the key in use.
- **Schedule** `OffersAreRight`, `ConflictsAreReal`, `NewTimesFit`,
  `KeptAreDecided`: each with the exceptions above.
- **Opening** `ResumeActivatesSaves` from the end of a pause until a save is
  promoted or the next pause begins, the newest version saved during it is in force,
  whoever saved and resumed meanwhile, unless a resume found it so already;
  `PausedKeepsSchedule`, `AutoResumeEndsDuePauses`, `DuePausesEnd`;
  `ClosedTakesNoBooking` who has passed
  all gates has met a moment at which all were open, or two were shut on the way:
  looking twice is worth exactly one such coincidence.
- **Subscription** `PaidTimeIsBought`, `PeriodIsLatestApproval`,
  `PaidSupersedesTrial`, `VerdictJustified`.
- **Resubmission** `CodesBuyOnce` a code buys one proof and a key makes one;
  `CapsHold` what is checked in one step and counted in another exceeds its cap
  by less than the number of overlapping requests.
- **Delivery** `ResendsAreExcused` the n-th repetition needs n rows given back
  without a recorded answer; `SettledUnlessExcused`; `EventuallySettled`.
- **Telegram** `OneCallEach`; `DecidedInOwnersChat` once a connection has
  moved, no button tapped in its old chat decides anything; `UsedTapsExplained` a used button that came to
  nothing was undone by an error, a restart, an old prompt or a later one.
- **Accounts** `OldSessionsExplained`, `LockoutComes`, `LocksHold`,
  `CodesResetOnce`.

Each module also has a type invariant, which is proved.

### Why the bounds are enough to be of interest

Every hazard of the lifecycle is between two handlers on one booking or two
bookings on one slot, with at most two of them in flight; starts 0 and 1 with
durations 1 and 2 give windows that are equal, nested, overlapping with
different starts (where the unique index does not help) and adjacent. Reminders
of different bookings do not meet, so one booking will do; of its
two starts one is outside both windows when the clock begins and one inside the
first, so that it can be confirmed before, in and after either window and be
moved out of it and into it again. In `intake`, three
requests are a first attempt, its retry and a stranger. In `page`, two selections
and two dates make two queries that can overtake each other, two submissions a
first try and a second, one change an offer that has gone. The templates of
`schedule` have windows that adjoin, blocks that overlap or last all day, and
special dates of both kinds; bookings may cross a block and midnight. In
`delivery`, two sweeps are what it takes to race, and two attempts to have one
retry and a burial. The bands of `subscription` are long enough for a proof to
be approved in each of them, and the clock to see all of them end. Three
versions in `opening` are one in force, one replaced and one saved during a
pause. In `resubmission`, one active code and two attempts are the smallest caps
that two requests can overrun together, and the third code is one issued after
the second was voided or used. Four updates in `telegram` are two redemptions, a
tap and its reason, or one redemption, two taps and a reason. Six requests in
`accounts` are two failures, a login, and three more to race with. What the
bounds cut off for the modules with proofs, the proofs restore.

Symmetry is used for ids, in runs without liveness only. Deadlock is checked
except where everything may be over: all bookings finished and the clock at its
bound, all requests answered, all submissions made.

### Fairness

- `Booking`, and `reminders` with it: the lifecycle worker's timer keeps firing
  (`WF` of a sweep), and not every sweep is killed before it reaches a given
  booking (`SF` of its completion). Of the notification timer nothing is assumed;
  `RemindersWritten` has its condition instead.
- `Delivery`: timers fire and time passes (`WF`); a claimed row whose sweep is
  not cut short is sent and recorded (`fetch` has a time limit); crashes may
  recur for ever but not always at the same point (`SF` of listing, claiming and
  reclaiming a row).
- `Opening`: every request ends, if only by its transaction's time limit (`WF`
  of `Abandon`); sweeps keep being started and are not cut off for ever at the
  same point (`SF`). Eligibility may come and go.

Nobody has to act: no fairness on customers, owners, admins or the provider.

## Proofs

All theorems hold for any sets of requests, bookings, users, codes and so on, any
caps, and any bounds on clocks, under the assumptions named in the modules. None
of the invariants is inductive alone; the strengthenings carry the argument.

**BookingProofs** (`TimeAssumption`: starts are natural numbers, durations
positive): `TypeCorrect`, `RowsKept`, `LocksExclude`, `LocksTrack`, `LocksMatch`,
`PaymentsAgree`, `ActiveHold`, `HeldBookingsDisjoint`, `FollowsMachine` and the
refinement `RefinesCalendar`.

    IInv = TypeOK /\ InFlightSound /\ LockExclusion /\ LockTracksBooking
           /\ LockMatchesStatus /\ PaymentAgrees /\ ActiveHoldsSlot

where `InFlightSound` says what a request's old copy is still good for: the
booking exists, the window it carries has a proper duration, the status it saw is
one its handler accepts, and a booking read for rescheduling is still CONFIRMED
or has become terminal since (so that a stale reschedule can never meet an
unpaid booking again, and `LockMatchesStatus` survives it). A reschedule keeps
`LockExclusion` because the overlap check skips the booking's own row but none of
the locks, including its own. `ReleaseSlot`, which reads nothing again, keeps
`ActiveHoldsSlot` only by what `ownerFreed` records. There is one lemma per action
(`CreateBookingInv` to `BackgroundInv`), put together in `StepInv`; the refinement
has `CalendarInit` and `CalendarStep`, which uses `IInv` to see that an allocation
keeps the held windows.

About `Reminders` (`ReminderAssumption`: a day is longer than two hours, however
long those are): `RemindersObserve`, the sweep of reminders changes nothing of a
booking, so that every behaviour with it is one of `Booking` and all the theorems
above hold of it; `OnlyConfirmedReminded`; `NoReminderMissed`. The invariant is
`IInv` with three conjuncts about what is `Owed` at a moment, a reminder of a
booking confirmed or moved before it and inside the reminder's window:
`WholeListed`, what is owed now is on the list or written, once a sweep has listed
and none has died since the clock moved; `SweepWritten`, what was owed at the last
sweep that got through is written; `PassedWritten`, unless an hour went by without
such a sweep, a window that has closed on a booking settled an hour earlier left
its reminder. The last follows from the others because a window is no shorter than
the time between two sweeps.

**BookingIntakeProofs** (`ClashAssumption`: overlap is reflexive and symmetric):
`TypeCorrect`, `OneBooking`, `SlotsApart`, `BookingsKeptApart`, `OwnAnswers`,
`LinkedFilesKept`, `StraysExplained`, `FilesKept`, `OwnerTold`. `LockedSlot`: the
request that is about to insert holds its business's lock, and its slot is free
for as long as it does; this is what makes the check before the insert as good
as one with it. `Answers`: who is told of a booking has one of exactly what it
asked for. `Makers`: who has made a booking has committed, or does not know that
it has. `Files`: the file of a committed request is its booking's proof, or a
replay's copy, and whoever has ended has given its file up or failed to. `KeepsLedger`, the refinement of `SubmissionLedger`: an insert is
`Make` (the key is looked at under the lock and once more by the unique index), a
request that ends well is `Confirm`, by `Answers`, and nothing else matters to the
ledger, in particular no retry, clean-up or crash.

About `BookingPage` (`PageAssumption`: the values that stand for null are none of
those they stand for the lack of): `SubmitsOffers`, `ReceiptsTrue`,
`NothingForgotten`, `PageKeepsPromise`. `QueriesCurrent`: a query whose answer is
still wanted is for what is on the page, which is all that its effects' clean-up
does; with `FormShown`, the chosen time was in a view of this selection and date.
`OneAwaited` and `ReceiptKept`: of all submissions under way only the last is
awaited, and its answer is the answer to the form as long as that is not
edited. `KeysKept`: a key is dropped only after its booking was shown, and
"unavailable" is never said of the attempt that booked. `ToldBooked`, for the
refinement: what the customer was told of stays booked under its key.

**SubscriptionProofs** (`BandAssumption`): `TypeCorrect`, `LatestApproval`,
`NoTrialAfterPayment`, `VerdictsJustified`, `PaidTimeBought`. `FullPeriod`: what is
paid for is never less than a whole period, so that the paid bands end after the
trial's. `Grounded`: what a request derived was right at some time since it
began, and the stored status is still the one it read, or was right at some time
since, or somebody wrote a wrong one and the request is among the misled.

**OpeningProofs**: `TypeCorrect` (with one ACTIVE version, the one pointed at),
`ClosedBusinessRefuses`, `PauseHoldsSchedule`, `ResumePromotes`,
`SweepsEndDuePauses`. The state falls into parts that hardly touch.
`VersionsInv`: versions are numbered without gaps, so a save takes a fresh number
(and the highest pending one exists, by well-founded induction on numbers).
`PauseInv` with `ReadsStand`: what a request has read holds unless the pause
changed. `FateInv`: the newest version saved during a pause is the last of all as
long as that lasts, so the resume finds it last among the PENDING. `GatesInv`: as long as the business has not been open and no gate has
shut, a request gets past two looks at most, and with one shut past four.

About `Schedule` (`ScheduleAssumption`, whose `ValidTemplate` is what
`validateTemplate` and the validators of `payloads.ts` let through: bounds within
the day, no date twice, no period empty but blocked ones that lack a bound):
`OffersAreExact`, `ConflictsAreExact`,
`KeptKnowingly`, `NewTimesAreGood`, `CalendarKept`. Half of the proof is about
the operators, for days, periods and services of any length. `CutsDefined` and
`CutsExactly`, by well-founded induction on the number of blocked periods:
whatever the order in which windows are cut, a span fits what is left exactly if
it fits a window and meets no block. `OpenExactly`, `FitsExactly` and
`OccupiedExactly`, under UTC with `TakenUnshifted`, carry that over to a day's offers and to the calendar read
moment by moment, `FitsIsNoConflict` compares both with
`scheduleConflictReason`. The invariant proper is small: `SlotsOffered`, a
booking's time lies within one day of the calendar and did not conflict with the
version it was offered under, which stays as it is; `ExcusedDecided`, an
exception was decided on. For `CalendarKept`, a commit is `Move`: it compares with
all locks, the booking's own included.

**ResubmissionProofs**: `TypeCorrect`, `BuyOnce`, `Capped`. The caps are compared
with copies, so the proofs count what is under way: `Counted`, a wrong guess not
yet charged to its code; `RoomLeft`, a code granted and not yet issued.

**DeliveryProofs**: `TypeCorrect`, `ResendsExcused`, `SettledStays`. A budget
(`Budget`): a row that may still be claimed, and each sweep that may still send or
give back one, stand for one message, and with those sent they are never more
than one above the excuses. `HeldOnce`: until there is an excuse, a claimed row is
in one hand and SENDING. `AttemptsLeft`: a row that waits has attempts left.

**TelegramProofs**: `TypeCorrect`, `EachCallsOnce`, `OwnersChatDecides`,
`UsedTapsAccountedFor`. `Tokens`: a used button is in one place, in the hand of one
update, in one chat's memory, in a call made, or forgotten. `Welcomed`: whoever
holds it was sent from a chat in which it was tapped and which its connection had
since.

**AccountsProofs** (`LimitAssumption`): `TypeCorrect`, `OldSessions`, `Lockout`,
`CodeOnce`, `LocksKept`. With no transactions, the argument is about what a request
may rely on between two statements: its user has an account (`Existing`), the
lock it read, if it found an account, had run out (`ReadUnlocked`), the code it claimed is its alone
(`Claims`).

Only model-checked: all liveness, which the prover cannot reason about under
fairness (`DueBookingsComplete`, `DuePausesEnd`, `EventuallySettled`). Every other
property of a passing run is stated by a theorem. `KeepsPromise` and
`KeepsCalendar` are the other way round: they hold on the instances of `page` and
`schedule`, and as they are proved for all, no run repeats them.

## Not modelled

- Prepayment amounts and file signatures (`prepayment.ts`, `proof-file.ts`): pure
  functions; of the amount only whether one is due matters elsewhere.
- Catalog, profile, payment settings, reports, customer status: validated
  single-row writes, reads and projections.
- Customers' Telegram connections (made as the owner's are), the webhook's
  secret, the wording of messages; email rows, which are always suppressed as
  only the disabled provider is wired.
- Batches of deliveries (`CLAIM_BATCH`): lists are whole.
- The submission key and file of a subscription proof; status histories.
- The API layer (parses, authorises, delegates), the owner's and the admin's
  pages (they show lists and call one endpoint a button), reloads of the page and
  the browser's own time zone, configuration, migrations and deployment.

## Plan

Done, from the centre of the system outwards: `SlotCalendar`, `Booking`,
`BookingIntake`, `Delivery`, `Subscription`, `Opening`, `Resubmission`, `Telegram`,
`Accounts`, `Schedule`, `BookingPage`, `Reminders`, `SubmissionLedger`, and the
proofs of them all.

Next:

1. Batches in `Delivery`: a full batch of failing rows before younger ones.
2. The submission of a subscription proof step by step, with its key and file,
   in `Subscription`.
3. `Prepayment` against a reference definition, with the rounding of amounts.
4. An abstract specification of an outbox, which `Delivery` implements, and one
   of the codes of `Resubmission`.
