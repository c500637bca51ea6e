---------------------------- MODULE BookingPage ----------------------------
(***************************************************************************)
(* The booking wizard a customer uses (features/public-booking: the hook    *)
(* useBookingFlow, the wizard and its steps), against the two endpoints it  *)
(* calls: availability and the creation of a booking.                      *)
(*                                                                         *)
(* The page is what a customer can do with its buttons, plus the answers    *)
(* that arrive.  A query for availability is answered by the server at one  *)
(* moment and received at a later one; the effects of DateTimeStep drop the *)
(* answers to queries they have cancelled.  A submission that the page has  *)
(* given up may still be processed.  The server is the promise of module    *)
(* BookingIntake, one step for each submission; what it offers and whether  *)
(* it asks for a deposit may change at any time.                           *)
(*                                                                         *)
(* A selection is a whole combination of services; the customer's details   *)
(* always pass validation; closing or reloading the page is left out.       *)
(***************************************************************************)
EXTENDS Naturals, FiniteSets

CONSTANTS Selections,  \* combinations of services
          Dates, Times,
          Nothing,     \* null, where it is not 0
          MaxSubmits,  \* bound on the submissions
          MaxChanges   \* bound on the changes of what the server offers

VARIABLES
  \* the server
  offered,   \* the appointments offered
  due,       \* the selections that require a prepayment
  changes,   \* changes so far
  booked,    \* the submission that made the booking of each submission key
  \* useBookingFlow
  step, sel, date, time,   \* 0: null
  deposit,   \* depositMinor > 0
  paid,      \* a payment method is chosen and a proof attached
  key,       \* submissionKeyRef (0: null)
  keys,      \* keys made so far
  awaited,   \* the submission being awaited (0: not submitting)
  result,
  \* DateTimeStep
  strip,     \* the dates with times, once loaded
  slots,     \* the times of the chosen date, once loaded
  queries,   \* availability calls whose answer is still wanted
  \* under way
  sent,      \* submissions so far
  attempts,  \* submissions the server has not processed yet
  answer,    \* what the server has answered to the one awaited
  \* history
  shown,     \* what the page has been told of: appointments and deposits
  toldOf,    \* keys whose booking the customer has been told of
  edited     \* the form has changed since it was last submitted

server == <<offered, due, changes, booked>>
form == <<sel, date, time, deposit, paid>>
views == <<strip, slots, queries, shown>>
sending == <<key, keys, awaited, result, sent, attempts, answer, toldOf>>
pageVars == <<server, step, form, views, sending, edited>>

Appointments == [sel : Selections, date : Dates, time : Times]
Appointment(s, d, t) == [sel |-> s, date |-> d, time |-> t]
Quote(s, asked) == [sel |-> s, deposit |-> asked]
SubmissionKeys == 1..MaxSubmits
View == [times : SUBSET Times, dates : SUBSET Dates, deposit : BOOLEAN]
Submissions == [id : 1..MaxSubmits, key : SubmissionKeys, appointment : Appointments,
                asked : BOOLEAN, proof : BOOLEAN]

\* null is none of the values it stands for the lack of.
ASSUME PageAssumption ==
  /\ Selections # {} /\ 0 \notin Dates /\ 0 \notin Times
  /\ MaxSubmits \in Nat /\ MaxChanges \in Nat
  /\ Nothing \notin Submissions \cup {"created", "unavailable", "error"}

PageInit ==
  /\ offered = Appointments /\ due \in SUBSET Selections /\ changes = 0
  /\ booked = [k \in SubmissionKeys |-> Nothing]
  /\ step = "SERVICES" /\ sel \in Selections /\ date = 0 /\ time = 0
  /\ deposit = FALSE /\ paid = FALSE
  /\ key = 0 /\ keys = 0 /\ awaited = 0 /\ result = Nothing
  /\ strip = Nothing /\ slots = Nothing /\ queries = {}
  /\ sent = 0 /\ attempts = {} /\ answer = Nothing
  /\ shown = {} /\ toldOf = {} /\ edited = FALSE

Submitting == awaited # 0

-----------------------------------------------------------------------------
(* Availability                                                            *)

\* A query of DateTimeStep: for the strip of dates, or for the times of one.
Query(kind, s, d) == [kind |-> kind, sel |-> s, date |-> d, view |-> Nothing]

KeepAll(qs) == qs   \* mutant: the effects do not cancel

\* What is left of queries whose effect is cleaned up: their answers are dropped.
Cancelled(qs) == {}

OfKind(kind) == {q \in queries : q.kind = kind}

\* DateTimeStep appears: both effects run.
Mount(d) ==
  /\ step' = "DATE_TIME"
  /\ strip' = Nothing /\ slots' = Nothing
  /\ queries' = Cancelled(queries) \cup {Query("strip", sel, 0)}
                \cup (IF d = 0 THEN {} ELSE {Query("day", sel, d)})
  /\ UNCHANGED shown

\* Another step takes its place.
Leave(next) ==
  /\ step' = next
  /\ strip' = Nothing /\ slots' = Nothing
  /\ queries' = Cancelled(queries)
  /\ UNCHANGED shown

\* buildAvailability: the times offered and the deposit; the strip is one call
\* for each date, taken here at one moment.
Available(q) ==
  [times |-> {t \in Times : q.kind = "day" /\ Appointment(q.sel, q.date, t) \in offered},
   dates |-> {d \in Dates : \E t \in Times : Appointment(q.sel, d, t) \in offered},
   deposit |-> q.sel \in due]

AnswerQuery(q) ==
  /\ q \in queries /\ q.view = Nothing
  /\ queries' = (queries \ {q}) \cup {[q EXCEPT !.view = Available(q)]}
  /\ UNCHANGED <<server, step, form, strip, slots, shown, sending, edited>>

\* onDeposit; the times, and a chosen time that is not among them is cleared.
ReceiveDay(q) ==
  /\ q \in OfKind("day") /\ q.view # Nothing
  /\ slots' = q.view.times
  /\ deposit' = q.view.deposit
  /\ time' = IF time \in q.view.times THEN time ELSE 0
  /\ edited' = (edited \/ time' # time)
  /\ queries' = queries \ {q}
  /\ shown' = shown \cup {Appointment(q.sel, q.date, t) : t \in q.view.times}
                   \cup {Quote(q.sel, q.view.deposit)}
  /\ UNCHANGED <<server, step, sel, date, paid, strip, sending>>

\* The deposit is taken from the first view of the strip.
ReceiveStrip(q) ==
  /\ q \in OfKind("strip") /\ q.view # Nothing
  /\ strip' = q.view.dates
  /\ deposit' = q.view.deposit
  /\ queries' = queries \ {q}
  /\ shown' = shown \cup {Quote(q.sel, q.view.deposit)}
  /\ UNCHANGED <<server, step, sel, date, time, paid, slots, sending, edited>>

\* A call fails (datesError, slotsError): what it asks for stays unknown.
FailQuery(q) ==
  /\ queries' = queries \ {q}
  /\ UNCHANGED <<server, step, form, strip, slots, shown, sending, edited>>

\* "Try again", where an error is shown: both effects run again.
Retry ==
  /\ step = "DATE_TIME"
  /\ \/ strip = Nothing /\ OfKind("strip") = {}
     \/ date # 0 /\ slots = Nothing /\ OfKind("day") = {}
  /\ Mount(date)
  /\ UNCHANGED <<server, form, sending, edited>>

-----------------------------------------------------------------------------
(* The steps                                                               *)

\* toggleService, setVariation, toggleAddOn.
Select(s) ==
  /\ step = "SERVICES" /\ s # sel
  /\ sel' = s /\ date' = 0 /\ time' = 0
  /\ edited' = TRUE
  /\ UNCHANGED <<server, step, deposit, paid, views, sending>>

\* A chip of the strip, or the calendar.  While no date with times is known every day
\* of the calendar can be picked, and its OK, which may come after the strip, does not
\* look again; that the calendar was open before is not kept track of.
SelectDate(d) ==
  /\ step = "DATE_TIME"
  /\ date' = d /\ time' = 0
  /\ IF d = date THEN UNCHANGED <<slots, queries>>
     ELSE /\ slots' = Nothing
          /\ queries' = OfKind("strip") \cup Cancelled(OfKind("day"))
                        \cup {Query("day", sel, d)}
  /\ edited' = TRUE
  /\ UNCHANGED <<server, step, sel, deposit, paid, strip, shown, sending>>

SelectTime(t) ==
  /\ step = "DATE_TIME" /\ slots # Nothing /\ t \in slots /\ t # time
  /\ time' = t
  /\ edited' = TRUE
  /\ UNCHANGED <<server, step, sel, date, deposit, paid, views, sending>>

\* timeValid
Continue ==
  /\ step = "DATE_TIME" /\ date # 0 /\ slots # Nothing /\ time \in slots
  /\ Leave("CUSTOMER")
  /\ UNCHANGED <<server, form, sending, edited>>

Attach ==
  /\ step = "PAYMENT" /\ paid' = TRUE
  /\ edited' = TRUE
  /\ UNCHANGED <<server, step, sel, date, time, deposit, views, sending>>

\* goTo, to a step that makes no queries: the other buttons of the steps.
Turn(from, to) ==
  /\ step = from
  /\ Leave(to)
  /\ UNCHANGED <<server, form, sending, edited>>

TurnPages ==
  \/ Turn("DATE_TIME", "SERVICES")
  \/ Turn("CUSTOMER", "REVIEW")
  \/ \E to \in {"SERVICES", "CUSTOMER"} : Turn("REVIEW", to)
  \/ deposit /\ Turn("REVIEW", "PAYMENT")
  \/ Turn("PAYMENT", "REVIEW")

ToDateTime ==
  /\ step \in {"SERVICES", "CUSTOMER", "REVIEW"}
  /\ Mount(date)
  /\ UNCHANGED <<server, form, sending, edited>>

-----------------------------------------------------------------------------
(* Submission                                                              *)

SendAs(k) ==
  /\ ~Submitting /\ date # 0 /\ time # 0 /\ (deposit => paid)
  /\ sent < MaxSubmits /\ sent' = sent + 1
  /\ awaited' = sent + 1 /\ answer' = Nothing /\ result' = Nothing
  /\ key' = k /\ keys' = IF k > keys THEN k ELSE keys
  /\ attempts' = attempts \cup
       {[id |-> sent + 1, key |-> k, appointment |-> Appointment(sel, date, time),
         asked |-> deposit, proof |-> paid]}
  /\ edited' = FALSE
  /\ UNCHANGED <<server, step, form, views, toldOf>>

SendNew == SendAs(keys + 1)   \* mutant: a new key for every try

\* submit: the key is made once and kept until reset.
Send == SendAs(IF key = 0 THEN keys + 1 ELSE key)

\* The buttons: Confirm booking, Confirm & send, Try again.
Submit ==
  /\ \/ step = "REVIEW" /\ ~deposit
     \/ step = "PAYMENT"
     \/ step = "DONE" /\ result = "error"
  /\ Send

OutcomeByKey(a) ==   \* mutant: bookingDiffers is not looked at
  IF booked[a.key] # Nothing THEN "created"
  ELSE IF a.appointment.sel \in due /\ ~a.proof THEN "error"
  ELSE IF a.appointment \in offered THEN "created" ELSE "unavailable"

\* What becomes of a submission (module BookingIntake).
Outcome(a) ==
  IF booked[a.key] # Nothing
  THEN IF booked[a.key].appointment = a.appointment THEN "created" ELSE "error"
  ELSE IF a.appointment.sel \in due /\ ~a.proof THEN "error"
  ELSE IF a.appointment \in offered THEN "created" ELSE "unavailable"

\* createBooking; a booked time is not offered any more, for any selection.
Process(a) ==
  LET new == Outcome(a) = "created" /\ booked[a.key] = Nothing
  IN  /\ attempts' = attempts \ {a}
      /\ answer' = IF a.id = awaited THEN Outcome(a) ELSE answer
      /\ booked' = IF new THEN [booked EXCEPT ![a.key] = a] ELSE booked
      /\ offered' = IF new THEN {o \in offered : \/ o.date # a.appointment.date
                                                \/ o.time # a.appointment.time}
                    ELSE offered
      /\ UNCHANGED <<due, changes, step, form, views, key, keys, awaited, result, sent,
                     toldOf, edited>>

Show(r) ==
  /\ Submitting
  /\ result' = r /\ awaited' = 0 /\ answer' = Nothing
  /\ toldOf' = IF r = "created" THEN toldOf \cup {key} ELSE toldOf
  /\ Leave("DONE")
  /\ UNCHANGED <<server, form, key, keys, sent, attempts, edited>>

Receive == answer # Nothing /\ Show(answer)

\* No answer, or one that is not SLOT_UNAVAILABLE.
Fail == Show("error")

ChooseAnotherTime ==
  /\ step = "DONE" /\ result = "unavailable"
  /\ time' = 0
  /\ Mount(date)
  /\ UNCHANGED <<server, sel, date, deposit, paid, sending, edited>>

ChangeServices ==
  /\ step = "DONE" /\ result = "unavailable"
  /\ Leave("SERVICES")
  /\ UNCHANGED <<server, form, sending, edited>>

\* reset; of the selection it clears, only the next one matters.
Restart ==
  /\ step = "DONE" /\ result = "created"
  /\ sel' \in Selections
  /\ key' = 0 /\ result' = Nothing
  /\ date' = 0 /\ time' = 0 /\ deposit' = FALSE /\ paid' = FALSE
  /\ Leave("SERVICES")
  /\ UNCHANGED <<server, keys, awaited, sent, attempts, answer, toldOf, edited>>

-----------------------------------------------------------------------------
\* Others book and cancel, and the owner changes the schedule or the settings.
ChangeOffers ==
  /\ changes < MaxChanges /\ changes' = changes + 1
  /\ \/ \E a \in Appointments :
          /\ \A k \in SubmissionKeys : booked[k] # Nothing =>
               \/ booked[k].appointment.date # a.date
               \/ booked[k].appointment.time # a.time
          /\ offered' = IF a \in offered THEN offered \ {a} ELSE offered \cup {a}
          /\ UNCHANGED due
     \/ \E s \in Selections :
          /\ due' = IF s \in due THEN due \ {s} ELSE due \cup {s}
          /\ UNCHANGED offered
  /\ UNCHANGED <<booked, step, form, views, sending, edited>>

PageNext ==
  \/ \E q \in queries : AnswerQuery(q) \/ ReceiveDay(q) \/ ReceiveStrip(q) \/ FailQuery(q)
  \/ \E s \in Selections : Select(s)
  \/ \E d \in Dates : SelectDate(d)
  \/ \E t \in Times : SelectTime(t)
  \/ Continue \/ Attach \/ TurnPages \/ ToDateTime \/ Retry
  \/ Submit \/ Receive \/ Fail
  \/ \E a \in attempts : Process(a)
  \/ ChooseAnotherTime \/ ChangeServices \/ Restart
  \/ ChangeOffers

PageSpec == PageInit /\ [][PageNext]_pageVars

-----------------------------------------------------------------------------
(* Properties                                                              *)

\* Whatever is submitted, the server has offered for that very selection and
\* date; and whether a deposit was asked for is what it said for that selection.
SubmittedWasOffered ==
  \A a \in attempts :
    /\ a.appointment \in shown
    /\ Quote(a.appointment.sel, a.asked) \in shown

\* The receipt of DoneStep, which is printed from the form, is that of the booking
\* made, unless the customer changed the form while waiting for the answer.
ReceiptTrue ==
  result = "created" /\ ~edited => booked[key].appointment = Appointment(sel, date, time)

\* No booking is made behind the customer's back: one is told of every booking, or
\* is still at its submission, whose key will find it.  Only a try that was given
\* up before may have booked when the last one shows "nothing was reserved".
NoBookingForgotten ==
  \A k \in SubmissionKeys : booked[k] # Nothing =>
    \/ k \in toldOf
    \/ k = key /\ (result = "unavailable" => booked[k].id < sent)

\* What the keys have made, and what the customer was told of.
EntryOf(k) == [key |-> k, appointment |-> booked[k].appointment, name |-> booked[k].id]
MadeByKey == {EntryOf(k) : k \in {l \in SubmissionKeys : booked[l] # Nothing}}
Receipts == {EntryOf(k) : k \in toldOf}

Promise == INSTANCE SubmissionLedger
  WITH Keys <- SubmissionKeys, Names <- 1..MaxSubmits,
       made <- MadeByKey, confirmed <- Receipts

\* The page and the server as it is taken here keep to what module BookingIntake
\* keeps to: the receipts shown are of bookings made, one for each key.
KeepsPromise == Promise!Spec
=============================================================================
