------------------------------ MODULE Schedule ------------------------------
(***************************************************************************)
(* What a schedule offers and what it rules out (availability.ts,          *)
(* availability.service.ts, schedule.service.ts, global-clock.ts): the      *)
(* start times offered for a day, the bookings and moves made from those    *)
(* offers, the conflicts of bookings with the schedule in force, and the    *)
(* exceptions by which an owner keeps a booking all the same.              *)
(*                                                                         *)
(* Offers are read before the advisory lock is taken, and so is the         *)
(* conflict that an exception needs: a request reads in one step and       *)
(* commits in another.  When a business takes bookings at all and which    *)
(* version is in force is module Opening's subject, what becomes of a       *)
(* booking module Booking's; here both change at will.                     *)
(*                                                                         *)
(* Time is local time in units of which a day has DayLength; date d begins  *)
(* at d * DayLength.  UTC is `offset' units behind.  An empty bound of a    *)
(* blocked period is written as the beginning or the end of the day.        *)
(***************************************************************************)
EXTENDS Integers, FiniteSets, Sequences, FiniteSetsExt

CONSTANTS Bookings,
          LastDate,     \* bound on the dates
          DayLength,    \* MINUTES_PER_DAY, in units of time
          Week,         \* days of a week
          Interval,     \* bookingIntervalMins
          Lengths,      \* durations that combinations of services may have
          Offsets,      \* possible time zones, of UTC and east of it
          Templates,    \* the templates an owner may save
          MaxSaved,     \* bound on the versions saved
          MaxKept       \* bound on the exceptions asked for

Dates == 0..LastDate
Weekdays == 1..Week
Everyday == 0
Instants == 0..((LastDate + 1) * DayLength)
VersionNos == 1..MaxSaved

Meets(s, t) == s.from < t.to /\ t.from < s.to
Within(s, t) == t.from <= s.from /\ s.to <= t.to
Span(from, to) == [from |-> from, to |-> to]

\* What the payload's validators and validateTemplate let through: no bound beyond
\* the day, no date twice, no period empty but blocked ones that lack a bound.
Minutes == 0..DayLength
ValidTemplate(t) ==
  /\ t.working \subseteq [day : Weekdays, from : Minutes, to : Minutes]
  /\ t.blocked \subseteq [day : Weekdays \cup {Everyday}, from : Minutes, to : Minutes]
  /\ IsFiniteSet(t.blocked)
  /\ t.special \in Seq([date : Nat, kind : {"CLOSED", "CUSTOM"}, from : Minutes, to : Minutes])
  /\ t.working # {} \/ t.special # <<>>
  /\ \A w \in t.working : w.from < w.to
  /\ \A b \in t.blocked : b.from < b.to \/ b.from = 0 \/ b.to = DayLength
  /\ \A i, j \in DOMAIN t.special : t.special[i].date = t.special[j].date => i = j
  /\ \A i \in DOMAIN t.special :
       t.special[i].kind = "CUSTOM" => t.special[i].from < t.special[i].to

ASSUME ScheduleAssumption ==
  /\ LastDate \in Nat /\ DayLength \in Nat \ {0} /\ Week \in Nat \ {0}
  /\ Interval \in Nat \ {0} /\ MaxSaved \in Nat /\ MaxKept \in Nat
  /\ Lengths \subseteq Nat \ {0} /\ Offsets \subseteq 0..(DayLength - 1)
  /\ \A t \in Templates : ValidTemplate(t)

VARIABLES
  offset,    \* PRODUCT_APP_TIMEZONE
  template,  \* the templates saved, by versionNo
  inForce,   \* the version that is ACTIVE (0: none)
  booking,   \* startAt and duration of each booking; "held": its slot is locked
             \* (PAYMENT_PENDING, CONFIRMED), "rejected": still locked, "gone"
  request,   \* for each booking: the creation or move being served, if any
  keeping,   \* exceptions whose conflict has been checked
  excused,   \* "schedule_exception": <<booking, versionNo>>
  decided    \* history: what the owner was shown when deciding to keep a booking

scheduleVars == <<offset, template, inForce, booking, request, keeping, excused, decided>>

\* under: the version that was in force when the time was offered (history).
Slots == [state : {"none", "held", "rejected", "gone"}, start : Instants,
          length : Lengths \cup {0}, under : 0..MaxSaved]
NoSlot == [state |-> "none", start |-> 0, length |-> 0, under |-> 0]
Window(s) == Span(s.start, s.start + s.length)

DateOf(instant) == instant \div DayLength
TimeOf(instant) == instant % DayLength
Weekday(date) == (date % Week) + 1
Midnight(date) == date * DayLength

ScheduleInit ==
  /\ offset \in Offsets
  /\ template = <<>> /\ inForce = 0
  /\ booking = [b \in Bookings |-> NoSlot]
  /\ request = [b \in Bookings |-> NoSlot]
  /\ keeping = {} /\ excused = {} /\ decided = {}

-----------------------------------------------------------------------------
(* The offers of a day (getSlotsForDay, computeAvailableSlotStarts).        *)

\* buildWorkingWindows.  Every special date of the version counts, whatever day
\* it is for; the first custom one wins.
WorkingWindows(t, date) ==
  LET custom == {i \in DOMAIN t.special : t.special[i].kind = "CUSTOM"}
  IN  IF \E i \in DOMAIN t.special : t.special[i].kind = "CLOSED" THEN {}
      ELSE IF custom # {} THEN {Span(t.special[Min(custom)].from, t.special[Min(custom)].to)}
      ELSE {Span(w.from, w.to) : w \in {p \in t.working : p.day = Weekday(date)}}

BlocksOf(t, date) == {b \in t.blocked : b.day \in {Everyday, Weekday(date)}}

CutLeft(windows, block) ==   \* mutant: the right remnant is forgotten
  {w \in windows : ~Meets(w, block)}
  \cup {Span(w.from, block.from) : w \in {v \in windows : Meets(v, block) /\ v.from < block.from}}

\* subtractBlocked, one block: a window it meets leaves what is before and after.
Cut(windows, block) ==
  LET hit == {w \in windows : Meets(w, block)}
  IN  (windows \ hit)
      \cup {Span(w.from, block.from) : w \in {v \in hit : v.from < block.from}}
      \cup {Span(block.to, w.to) : w \in {v \in hit : block.to < v.to}}

OpenWindows(t, date) ==
  FoldSet(LAMBDA block, windows : Cut(windows, block), WorkingWindows(t, date),
          {b \in BlocksOf(t, date) : b.from < b.to})

\* The active bookings that meet the UTC day, and the locks of the date, as
\* spans counted from UTC midnight and clipped to the day.
OccupiedSpans(date) ==
  LET dawn == Midnight(date) + offset
      held == {b \in Bookings : booking[b].state = "held"
                                /\ Meets(Window(booking[b]), Span(dawn, dawn + DayLength))}
      locked == {b \in Bookings : booking[b].state \in {"held", "rejected"}
                                  /\ DateOf(booking[b].start) = date}
  IN  {Span(Max({0, booking[b].start - dawn}),
            Min({DayLength, booking[b].start + booking[b].length - dawn})) :
         b \in held \cup locked}

\* The times of day offered: on the grid, in one open window, free.
Offers(date, length) ==
  IF inForce = 0 THEN {}
  ELSE {time \in 0..(DayLength - 1) :
          /\ time % Interval = 0
          /\ \E w \in OpenWindows(template[inForce], date) : Within(Span(time, time + length), w)
          /\ \A s \in OccupiedSpans(date) : ~Meets(s, Span(time, time + length))}

-----------------------------------------------------------------------------
(* Conflicts (scheduleConflictReason, listOpenConflicts).                  *)

\* The special date of one date, none or one.
SpecialOf(t, date) == {i \in DOMAIN t.special : t.special[i].date = date}

\* The hours of a date.
Hours(t, date) ==
  IF SpecialOf(t, date) = {}
  THEN {Span(w.from, w.to) : w \in {p \in t.working : p.day = Weekday(date)}}
  ELSE {Span(t.special[i].from, t.special[i].to) :
          i \in {j \in SpecialOf(t, date) : t.special[j].kind = "CUSTOM"}}

ConflictsUnblocked(t, slot) ==   \* mutant: blocked periods are not looked at
  ~\E w \in Hours(t, DateOf(slot.start)) :
      Within(Span(TimeOf(slot.start), TimeOf(slot.start + slot.length)), w)

\* CLOSED, OUTSIDE_HOURS or BLOCKED.  Both ends go through minuteOfDay, so the
\* end of a booking that lasts until midnight is 0.
Conflicts(t, slot) ==
  LET date == DateOf(slot.start)
      times == Span(TimeOf(slot.start), TimeOf(slot.start + slot.length))
  IN  \/ ~\E w \in Hours(t, date) : Within(times, w)
      \/ \E b \in BlocksOf(t, date) : Meets(times, b)

OpenConflicts ==
  {b \in Bookings : /\ inForce # 0 /\ booking[b].state = "held"
                    /\ <<b, inForce>> \notin excused
                    /\ Conflicts(template[inForce], booking[b])}

-----------------------------------------------------------------------------
\* saveTemplate: in force at once unless the business is paused.
SaveVersion(t) ==
  /\ Len(template) < MaxSaved
  /\ template' = Append(template, t)
  /\ inForce' \in {inForce, Len(template) + 1}
  /\ UNCHANGED <<offset, booking, request, keeping, excused, decided>>

\* A resume promotes a version that was saved before (module Opening).
PromoteVersion(v) ==
  /\ v \in DOMAIN template /\ v # inForce
  /\ inForce' = v
  /\ UNCHANGED <<offset, template, booking, request, keeping, excused, decided>>

\* createBooking and reschedule look for the requested time among the offers ...
Ask(b, date, time, length) ==
  /\ request[b] = NoSlot
  /\ time \in Offers(date, length)
  /\ request' = [request EXCEPT ![b] =
       [state |-> "held", start |-> Midnight(date) + time, length |-> length,
        under |-> inForce]]
  /\ UNCHANGED <<offset, template, inForce, booking, keeping, excused, decided>>

AskForTime(b, date, time, length) ==
  booking[b].state = "none" /\ Ask(b, date, time, length)

AskToMove(b, date, time) ==
  booking[b].state = "held" /\ Ask(b, date, time, booking[b].length)

Take(b) == booking' = [booking EXCEPT ![b] = request[b]]
Answer(b) == /\ request' = [request EXCEPT ![b] = NoSlot]
             /\ UNCHANGED <<offset, template, inForce, keeping, excused, decided>>

CommitUnchecked(b) == request[b] # NoSlot /\ Take(b) /\ Answer(b)   \* mutant: no hasActiveOverlap

\* ... and look under the lock only whether it is still free.
Commit(b) ==
  /\ request[b] # NoSlot
  /\ IF \E c \in Bookings : booking[c].state \in {"held", "rejected"}
                            /\ Meets(Window(booking[c]), Window(request[b]))
     THEN UNCHANGED booking ELSE Take(b)
  /\ Answer(b)

\* A proof is rejected, sent anew, or the slot is given up, by the other handlers
\* of a booking; which of them wins a race with a move is left to Booking.
Become(b, from, to) ==
  /\ booking[b].state \in from /\ request[b] = NoSlot
  /\ booking' = [booking EXCEPT ![b].state = to]
  /\ UNCHANGED <<offset, template, inForce, request, keeping, excused, decided>>

Reject(b) == Become(b, {"held"}, "rejected")
Resubmit(b) == Become(b, {"rejected"}, "held")
GiveUp(b) == Become(b, {"held", "rejected"}, "gone")

\* recordScheduleException: any version, any booking, but a real conflict ...
AskToKeep(b, v) ==
  /\ booking[b].state # "none" /\ v \in DOMAIN template
  /\ Conflicts(template[v], booking[b])
  /\ Cardinality(keeping) + Cardinality(decided) < MaxKept
  /\ keeping' = keeping \cup
       {[booking |-> b, version |-> v, start |-> booking[b].start]}
  /\ UNCHANGED <<offset, template, inForce, booking, request, excused, decided>>

KeepForGood(k) ==   \* mutant: the exception holds for every version
  /\ k \in keeping
  /\ excused' = excused \cup ({k.booking} \X VersionNos)
  /\ decided' = decided \cup {k}
  /\ keeping' = keeping \ {k}
  /\ UNCHANGED <<offset, template, inForce, booking, request>>

\* ... which is not looked at again under the lock.  One that exists is returned.
RecordException(k) ==
  /\ k \in keeping
  /\ excused' = excused \cup {<<k.booking, k.version>>}
  /\ decided' = decided \cup {k}
  /\ keeping' = keeping \ {k}
  /\ UNCHANGED <<offset, template, inForce, booking, request>>

ScheduleNext ==
  \/ \E t \in Templates : SaveVersion(t)
  \/ \E v \in VersionNos : PromoteVersion(v)
  \/ \E b \in Bookings :
       \/ \E date \in Dates, time \in 0..(DayLength - 1) :
            \/ \E length \in Lengths : AskForTime(b, date, time, length)
            \/ AskToMove(b, date, time)
       \/ Commit(b) \/ Reject(b) \/ Resubmit(b) \/ GiveUp(b)
       \/ \E v \in VersionNos : AskToKeep(b, v)
  \/ \E k \in keeping : RecordException(k)

ScheduleSpec == ScheduleInit /\ [][ScheduleNext]_scheduleVars

-----------------------------------------------------------------------------
(* Properties                                                              *)

\* The template as a calendar: the slot lies in one period of its date's hours
\* and no moment of it is blocked.
Fits(t, slot) ==
  LET date == DateOf(slot.start)
      from == TimeOf(slot.start)
  IN  /\ \E w \in Hours(t, date) : Within(Span(from, from + slot.length), w)
      /\ \A m \in from..(from + slot.length - 1) :
           ~\E b \in BlocksOf(t, date) : b.from <= m /\ m < b.to

\* A version with a special date of another day.
Foreign(t, date) == \E i \in DOMAIN t.special : t.special[i].date # date

SlotAt(date, time, length) ==
  [NoSlot EXCEPT !.start = Midnight(date) + time, !.length = length]

\* A booking that takes up its slot, the lock of a rejected proof included.
Taken(slot) ==
  \E b \in Bookings : /\ booking[b].state \in {"held", "rejected"}
                      /\ Meets(Window(booking[b]), Window(slot))

\* What is offered fits the calendar, in every time zone; and under UTC it is all
\* that fits and that no booking takes.  Away from UTC nothing is said of what is
\* taken: there the code compares spans counted from UTC midnight with local times,
\* though both are said to be local (availability.ts:23).  Versions with a special
\* date of another day are left to SpecialDatesAreOfTheirDay.
OffersAreRight ==
  inForce # 0 =>
    \A date \in Dates, length \in Lengths :
      ~Foreign(template[inForce], date) =>
        LET slot(time) == SlotAt(date, time, length)
            fitting == {time \in 0..(DayLength - 1) :
                          time % Interval = 0 /\ Fits(template[inForce], slot(time))}
        IN  /\ Offers(date, length) \subseteq fitting
            /\ offset = 0 =>
                 Offers(date, length) = {time \in fitting : ~Taken(slot(time))}

\* A conflict is listed exactly if the booking does not fit the schedule in force
\* and is not excused; only one that lasts until midnight may be overlooked.
ConflictsAreReal ==
  inForce # 0 =>
    \A b \in Bookings :
      booking[b].state = "held" /\ <<b, inForce>> \notin excused =>
        /\ b \in OpenConflicts => ~Fits(template[inForce], booking[b])
        /\ ~Fits(template[inForce], booking[b]) =>
             b \in OpenConflicts \/ TimeOf(booking[b].start + booking[b].length) = 0

\* Whoever gets a time does not conflict with the schedule by getting it, unless
\* the version in force has changed since the time was offered or has a special
\* date of another day; and takes it from nobody.
NewTimesFit ==
  [][\A b \in Bookings :
       Window(booking'[b]) # Window(booking[b]) =>
         /\ \A c \in Bookings \ {b} : booking[c].state \in {"held", "rejected"} =>
              ~Meets(Window(booking[c]), Window(booking'[b]))
         /\ b \in OpenConflicts' =>
              \/ booking'[b].under # inForce
              \/ Foreign(template[inForce], DateOf(booking'[b].start))]_scheduleVars

\* What bookings hold of the calendar: a rejected proof's slot is still locked.
HeldWindows ==
  {[booking |-> b, start |-> booking[b].start, end |-> booking[b].start + booking[b].length] :
     b \in {c \in Bookings : booking[c].state \in {"held", "rejected"}}}

Calendar == INSTANCE SlotCalendar WITH Times <- Instants, held <- HeldWindows

\* Bookings and moves made from offers read before the lock keep what the calendar
\* promises, as those of module Booking do: no two windows held overlap.
KeepsCalendar == Calendar!Spec

\* A conflict that an exception hides is one the owner was shown, for the same
\* version; and for the same time, unless the booking has got its time by one of
\* the two exemptions of NewTimesFit.
KeptAreDecided ==
  \A b \in Bookings :
    inForce # 0 /\ booking[b].state = "held" /\ <<b, inForce>> \in excused
    /\ Conflicts(template[inForce], booking[b]) =>
      \E k \in decided :
        /\ k.booking = b /\ k.version = inForce
        /\ \/ k.start = booking[b].start
           \/ booking[b].under # inForce
           \/ Foreign(template[inForce], DateOf(booking[b].start))

\* availability.ts:20: special dates replace the working windows "for that calendar
\* day": what is offered lies within the hours of its own date.
SpecialDatesAreOfTheirDay ==
  inForce # 0 =>
    \A date \in Dates, length \in Lengths : \A time \in Offers(date, length) :
      Fits(template[inForce], SlotAt(date, time, length))
=============================================================================
