--------------------------- MODULE BookingIntake ---------------------------
(***************************************************************************)
(* createBooking from the request to its answer (booking.service.ts): the  *)
(* submission key that makes a retry return the first booking, the proof   *)
(* file that is stored before the transaction and removed when it is not   *)
(* needed, the advisory lock, the two unique indexes behind it, and the    *)
(* notification after the commit.                                          *)
(*                                                                         *)
(* A client retries with the same key; the retry may overtake, or overlap  *)
(* with, the first attempt, which may have died at any step.  The lock is  *)
(* per business and the key is global, so two businesses' transactions run *)
(* side by side.  The gates (pause, subscription, deactivation), the       *)
(* catalog and the file checks decide only whether a request is refused.   *)
(* Windows are opaque here: two of them clash or not.                      *)
(***************************************************************************)
EXTENDS FiniteSets

CONSTANTS Requests,    \* calls of createBooking; also names what each creates
          Businesses,
          Keys,        \* submission keys, chosen by the clients
          Windows,     \* appointment windows, told apart by their start
          Clashes      \* the pairs of windows that overlap

ASSUME ClashAssumption ==
  /\ Clashes \subseteq Windows \X Windows
  /\ \A w \in Windows : <<w, w>> \in Clashes
  /\ \A w, x \in Windows : <<w, x>> \in Clashes => <<x, w>> \in Clashes

VARIABLES
  stage,     \* how far each request has come
  ask,       \* what it asks for
  got,       \* the booking it will answer with, if any
  lock,      \* holder of each business's advisory lock
  bookings,  \* committed bookings with their payment proof
  held,      \* bookings that still hold their slot lock
  files,     \* proof objects in storage, by the request that stored them
  told,      \* bookings whose PAYMENT_PROOF_RECEIVED has been published
  unclear,   \* history: requests whose commit took effect unanswered
  undeleted, \* history: requests whose file could not be deleted
  unwritten  \* history: bookings of which a notification could not be written

rows == <<bookings, held>>
swallowed == <<undeleted, unwritten>>
vars == <<stage, ask, got, lock, rows, files, told, unclear, swallowed>>

Stages == {"idle", "asked", "keyed", "staged", "checked", "doubtful", "inserting",
           "committed", "cleanup", "booked", "refused", "dead"}
Finished == {"idle", "booked", "refused", "dead"}

Asks == [business : Businesses, key : Keys, window : Windows]
BookingRows == [id : Requests, ask : Asks, proof : BOOLEAN]

TypeOK ==
  /\ stage \in [Requests -> Stages]
  /\ ask \in [Requests -> Asks]
  /\ got \in [Requests -> SUBSET Requests]
  /\ lock \in [Businesses -> SUBSET Requests]
  /\ bookings \subseteq BookingRows
  /\ held \subseteq bookings
  /\ files \subseteq Requests
  /\ told \subseteq Requests
  /\ unclear \subseteq Requests
  /\ undeleted \subseteq Requests
  /\ unwritten \subseteq Requests

\* What is asked before a request arrives is of no consequence.
Init ==
  /\ stage = [r \in Requests |-> "idle"]
  /\ ask \in {[r \in Requests |-> a] : a \in Asks}
  /\ got = [r \in Requests |-> {}]
  /\ lock = [b \in Businesses |-> {}]
  /\ bookings = {} /\ held = {}
  /\ files = {} /\ told = {} /\ unclear = {}
  /\ undeleted = {} /\ unwritten = {}

-----------------------------------------------------------------------------
Go(r, s) == stage' = [stage EXCEPT ![r] = s]

\* findBySubmissionKey: the committed proof with this key, whatever its business.
WithKey(key) == {b \in bookings : b.ask.key = key}

SameKeyOnly(r) == WithKey(ask[r].key)   \* mutant: whatever was asked before

\* idempotentRef: the booking is the very appointment asked for.
SameAppointment(r) == {b \in WithKey(ask[r].key) : b.ask = ask[r]}

\* hasActiveOverlap.
Occupied(business, window) ==
  \E b \in held : b.ask.business = business /\ <<b.ask.window, window>> \in Clashes

-----------------------------------------------------------------------------
Arrive(r, a) ==
  /\ stage[r] = "idle"
  /\ ask' = [ask EXCEPT ![r] = a]
  /\ Go(r, "asked")
  /\ UNCHANGED <<got, lock, rows, files, told, unclear, swallowed>>

\* A gate, the catalog or the proof's own checks say no; nothing is stored yet.
Refuse(r) ==
  /\ stage[r] \in {"asked", "keyed"}
  /\ Go(r, "refused")
  /\ UNCHANGED <<ask, got, lock, rows, files, told, unclear, swallowed>>

\* The fast path: a known key is answered, or refused as a conflict.
LookUpKey(r) ==
  /\ stage[r] = "asked"
  /\ IF WithKey(ask[r].key) = {} THEN Go(r, "keyed") /\ UNCHANGED got
     ELSE /\ got' = [got EXCEPT ![r] = {b.id : b \in SameAppointment(r)}]
          /\ Go(r, IF SameAppointment(r) # {} THEN "booked" ELSE "refused")
  /\ UNCHANGED <<ask, lock, rows, files, told, unclear, swallowed>>

\* proofStorage.store; without a prepayment there may be no proof.
Stage(r) ==
  /\ stage[r] = "keyed"
  /\ files' \in {files, files \cup {r}}
  /\ Go(r, "staged")
  /\ UNCHANGED <<ask, got, lock, rows, told, unclear, swallowed>>

\* getSlotsForDay, outside any transaction; it also knows of schedules.
PreCheck(r) ==
  /\ stage[r] = "staged"
  /\ \/ ~Occupied(ask[r].business, ask[r].window) /\ Go(r, "checked")
     \/ Go(r, "doubtful")
  /\ UNCHANGED <<ask, got, lock, rows, files, told, unclear, swallowed>>

\* The slot may be gone because this very key has it.
LookUpKeyAgain(r) ==
  /\ stage[r] = "doubtful"
  /\ got' = [got EXCEPT ![r] = {b.id : b \in SameAppointment(r)}]
  /\ Go(r, "cleanup")
  /\ UNCHANGED <<ask, lock, rows, files, told, unclear, swallowed>>

-----------------------------------------------------------------------------
(* The transaction: under the lock, first the key and the slot again.      *)

ClaimUnlocked(r) ==   \* mutant: no advisory lock
  /\ stage[r] = "checked"
  /\ WithKey(ask[r].key) = {} /\ ~Occupied(ask[r].business, ask[r].window)
  /\ Go(r, "inserting")
  /\ UNCHANGED <<ask, got, lock, rows, files, told, unclear, swallowed>>

\* Nothing stands in the way: the rows are about to be inserted.
Claim(r) ==
  /\ stage[r] = "checked" /\ lock[ask[r].business] = {}
  /\ WithKey(ask[r].key) = {} /\ ~Occupied(ask[r].business, ask[r].window)
  /\ lock' = [lock EXCEPT ![ask[r].business] = {r}]
  /\ Go(r, "inserting")
  /\ UNCHANGED <<ask, got, rows, files, told, unclear, swallowed>>

\* The key was committed meanwhile.  The same appointment is a success, and the
\* transaction commits; anything else is thrown as a conflict.
ClaimReplayed(r) ==
  /\ stage[r] = "checked" /\ lock[ask[r].business] = {}
  /\ WithKey(ask[r].key) # {}
  /\ got' = [got EXCEPT ![r] = {b.id : b \in SameAppointment(r)}]
  /\ Go(r, IF SameAppointment(r) # {} THEN "committed" ELSE "cleanup")
  /\ UNCHANGED <<ask, lock, rows, files, told, unclear, swallowed>>

ClaimTooLate(r) ==
  /\ stage[r] = "checked" /\ lock[ask[r].business] = {}
  /\ WithKey(ask[r].key) = {} /\ Occupied(ask[r].business, ask[r].window)
  /\ Go(r, "cleanup")
  /\ UNCHANGED <<ask, got, lock, rows, files, told, unclear, swallowed>>

Unlock(r) == lock' = [lock EXCEPT ![ask[r].business] = @ \ {r}]

\* The unique indexes on the submission key and on the start of an active lock.
Unique(r) ==
  /\ WithKey(ask[r].key) = {}
  /\ ~\E b \in held : b.ask.business = ask[r].business /\ b.ask.window = ask[r].window

NewBooking(r) == [id |-> r, ask |-> ask[r], proof |-> r \in files]

InsertThenClean(r) ==   \* mutant: committed = true is forgotten
  /\ stage[r] = "inserting" /\ Unique(r)
  /\ bookings' = bookings \cup {NewBooking(r)}
  /\ held' = held \cup {NewBooking(r)}
  /\ got' = [got EXCEPT ![r] = {r}]
  /\ Unlock(r)
  /\ Go(r, "cleanup")
  /\ UNCHANGED <<ask, files, told, unclear, swallowed>>

\* The booking, its payment and proof, and its slot lock are inserted; commit.
Insert(r) ==
  /\ stage[r] = "inserting" /\ Unique(r)
  /\ bookings' = bookings \cup {NewBooking(r)}
  /\ held' = held \cup {NewBooking(r)}
  /\ got' = [got EXCEPT ![r] = {r}]
  /\ Unlock(r)
  /\ Go(r, "committed")
  /\ UNCHANGED <<ask, files, told, unclear, swallowed>>

\* The commit takes effect, its acknowledgement does not arrive.
InsertUnanswered(r) ==
  /\ stage[r] = "inserting" /\ Unique(r)
  /\ bookings' = bookings \cup {NewBooking(r)}
  /\ held' = held \cup {NewBooking(r)}
  /\ unclear' = unclear \cup {r}
  /\ Unlock(r)
  /\ Go(r, "cleanup")
  /\ UNCHANGED <<ask, got, files, told, swallowed>>

\* P2002 from an index, or any other failure: the transaction rolls back.
InsertFails(r) ==
  /\ stage[r] = "inserting"
  /\ Unlock(r)
  /\ Go(r, "cleanup")
  /\ UNCHANGED <<ask, got, rows, files, told, unclear, swallowed>>

-----------------------------------------------------------------------------
AnswerUntold(r) ==   \* mutant: the event is not published
  /\ stage[r] = "committed"
  /\ Go(r, "booked")
  /\ UNCHANGED <<ask, got, lock, rows, files, told, unclear, swallowed>>

\* afterCommit.  A notification that cannot be written is given up without a word,
\* and the request is answered all the same.
Publish(r) ==
  /\ stage[r] = "committed"
  /\ \/ told' = told \cup got[r] /\ UNCHANGED unwritten
     \/ unwritten' = unwritten \cup got[r] /\ UNCHANGED told
  /\ Go(r, "booked")
  /\ UNCHANGED <<ask, got, lock, rows, files, unclear, undeleted>>

\* discardStaged, or the finally block of an attempt that did not commit.  A file
\* that cannot be deleted is left behind, again without a word.
Discard(r) ==
  /\ stage[r] = "cleanup"
  /\ \/ files' = files \ {r} /\ UNCHANGED undeleted
     \/ r \in files /\ undeleted' = undeleted \cup {r} /\ UNCHANGED files
  /\ Go(r, IF got[r] = {} THEN "refused" ELSE "booked")
  /\ UNCHANGED <<ask, got, lock, rows, told, unclear, unwritten>>

\* The process dies; the database rolls back and gives the lock up.
Crash(r) ==
  /\ stage[r] \notin Finished
  /\ Unlock(r)
  /\ Go(r, "dead")
  /\ UNCHANGED <<ask, got, rows, files, told, unclear, swallowed>>

\* A booking's slot is given up later on (module Booking says when).
GiveUpSlot(b) ==
  /\ b \in held
  /\ held' = held \ {b}
  /\ UNCHANGED <<stage, ask, got, lock, bookings, files, told, unclear, swallowed>>

Next ==
  \/ \E r \in Requests :
       \/ \E a \in Asks : Arrive(r, a)
       \/ Refuse(r)       \/ LookUpKey(r)     \/ Stage(r)        \/ PreCheck(r)
       \/ LookUpKeyAgain(r)
       \/ Claim(r)        \/ ClaimReplayed(r) \/ ClaimTooLate(r)
       \/ Insert(r)       \/ InsertUnanswered(r) \/ InsertFails(r)
       \/ Publish(r)      \/ Discard(r)       \/ Crash(r)
  \/ \E b \in held : GiveUpSlot(b)

Spec == Init /\ [][Next]_vars

-----------------------------------------------------------------------------
(* Properties                                                              *)

\* However often and however concurrently a submission is repeated, in one
\* business or in two, its key makes one booking.
OneBookingPerKey ==
  \A b, c \in bookings : b.ask.key = c.ask.key => b = c

\* Two bookings that hold their slots in one business never clash: windows with
\* different starts are kept apart by the lock alone, the index cannot help.
SlotsDisjoint ==
  \A b, c \in held :
    /\ b # c
    /\ b.ask.business = c.ask.business
    => <<b.ask.window, c.ask.window>> \notin Clashes

\* Repeated and competing submissions leave one booking per key and per slot.
BookingsApart == OneBookingPerKey /\ SlotsDisjoint

\* A success names the booking of exactly the appointment that was asked for;
\* retries of one submission that succeed therefore name the same booking.
AnswersAreOwn ==
  \A r \in Requests :
    stage[r] = "booked" =>
      \E b \in bookings : b.ask = ask[r] /\ got[r] = {b.id}

\* What each key has made, and what clients whose request has come to an end were
\* told of: what they asked for, and the booking they were answered with.
Made == {[key |-> b.ask.key, appointment |-> b.ask, name |-> b.id] : b \in bookings}
AnswerOf(r) == {[key |-> ask[r].key, appointment |-> ask[r], name |-> n] : n \in got[r]}
Confirmed == UNION {AnswerOf(r) : r \in {q \in Requests : stage[q] = "booked"}}

Ledger == INSTANCE SubmissionLedger
  WITH Appointments <- Asks, Names <- Requests, made <- Made, confirmed <- Confirmed

\* createBooking keeps the promise of a submission: one booking for each key, for
\* good, and success only for what was made, whatever attempts overlap, repeat or
\* die.
ImplementsLedger == Ledger!Spec

\* A committed proof's file is never removed by the clean-up of another attempt,
\* nor by its own, unless its commit went unanswered.
LinkedFilesExist ==
  \A b \in bookings : b.proof => b.id \in files \cup unclear

\* A request that has been answered leaves a file behind only if the file is its
\* booking's proof, if storage failed to delete it, or if it found its key committed
\* once it had the lock: such a replay commits, and keeps its copy, although the
\* clean-up says that it removes the object of an idempotent replay.
StrayFilesExplained ==
  \A r \in files :
    stage[r] \in {"booked", "refused"} =>
      \/ \E b \in bookings : b.id = r /\ b.proof
      \/ r \in undeleted
      \/ got[r] # {} /\ got[r] # {r}

\* Files are neither lost nor left over, but for the ways named above.
FilesAccountedFor == LinkedFilesExist /\ StrayFilesExplained

\* A booking that some client was told it has, its owner has been told of, unless
\* the request that made it does not know that it committed, or a notification of it
\* could not be written (validity never depends on notification, REQ-056).  Whoever
\* ends well after the commit, the maker or a replay under the lock, has tried.
BookedIsTold ==
  \A r \in Requests : \A c \in got[r] :
    stage[r] = "booked" /\ stage[c] \in {"booked", "refused"} =>
      c \in told \cup unclear \cup unwritten
=============================================================================
