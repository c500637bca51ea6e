------------------------ MODULE BookingIntakeProofs ------------------------
(***************************************************************************)
(* Proofs about module BookingIntake, for any number of attempts,          *)
(* businesses, keys and windows, and about its client, module BookingPage, *)
(* for any number of selections, dates, times and tries.                   *)
(*                                                                         *)
(* The slots are kept apart by the advisory lock (LockedSlot), the answers *)
(* by what an attempt has found so far (Answers), and files and            *)
(* notifications by knowing where an attempt that has made a booking can   *)
(* be (Makers).  Both modules implement SubmissionLedger.                  *)
(***************************************************************************)
EXTENDS BookingIntake, BookingPage, TLAPS

\* Stages before anything was found or made.
Early == {"idle", "asked", "keyed", "staged", "checked", "doubtful", "inserting"}

\* An attempt about to insert holds the lock, and its slot is still free.
LockedSlot ==
  \A r \in Requests :
    stage[r] = "inserting" =>
      lock[ask[r].business] = {r} /\ ~Occupied(ask[r].business, ask[r].window)

\* What an attempt has got is the booking of exactly what it asked for.
Answers ==
  \A r \in Requests :
    /\ stage[r] \in Early => got[r] = {}
    /\ stage[r] \in {"committed", "booked"} => got[r] # {}
    /\ got[r] # {} => \E b \in bookings : b.ask = ask[r] /\ got[r] = {b.id}

\* An attempt that has made a booking has committed, or does not know that it has.
Makers ==
  /\ \A b \in bookings :
       /\ stage[b.id] \in {"committed", "booked", "dead"} \/ b.id \in unclear
       /\ stage[b.id] = "committed" => got[b.id] = {b.id}
       /\ stage[b.id] = "booked" => b.id \in told \cup unclear \cup unwritten
  /\ \A r \in unclear : stage[r] \in {"cleanup", "refused", "booked", "dead"}

\* A file belongs to an attempt that got as far as storing it; once that attempt
\* has committed, the file is its booking's proof or it is a replay's copy; once it
\* has been answered, it may also be a file that could not be deleted.
Files ==
  \A r \in files :
    /\ stage[r] \notin {"idle", "asked", "keyed"}
    /\ stage[r] \in {"committed", "booked", "refused"} =>
         \/ \E b \in bookings : b.id = r /\ b.proof
         \/ got[r] # {} /\ got[r] # {r}
         \/ stage[r] # "committed" /\ r \in undeleted

IInv ==
  /\ TypeOK
  /\ OneBookingPerKey
  /\ LockedSlot
  /\ SlotsDisjoint
  /\ Answers
  /\ Makers
  /\ Files
  /\ LinkedFilesExist

-----------------------------------------------------------------------------
\* An attempt that has not come to its insert has made no booking.
LEMMA NoRowYet ==
  ASSUME Makers, NEW r \in Requests,
         stage[r] \notin {"committed", "booked", "refused", "cleanup", "dead"}
  PROVE  r \notin unclear /\ \A b \in bookings : b.id # r
BY DEF Makers

LEMMA Ids == TypeOK => \A b \in bookings : b.id \in Requests
BY DEF TypeOK, BookingRows

\* What a lookup by key finds is nothing or the one booking asked for.
LEMMA Found ==
  ASSUME TypeOK, OneBookingPerKey, NEW r \in Requests
  PROVE  LET ids == {b.id : b \in SameAppointment(r)}
         IN  /\ ids \subseteq Requests
             /\ ids = {} <=> SameAppointment(r) = {}
             /\ ids # {} => \E b \in bookings : b.ask = ask[r] /\ ids = {b.id}
<1>1. \A b \in SameAppointment(r) : b \in bookings /\ b.ask = ask[r]
  BY DEF SameAppointment, WithKey
<1>2. \A b, c \in SameAppointment(r) : b = c
  BY <1>1 DEF OneBookingPerKey
<1>3. \A b \in bookings : b.id \in Requests
  BY Ids
<1> QED
  BY <1>1, <1>2, <1>3

\* The row an attempt inserts.
LEMMA NewBookingFacts ==
  ASSUME TypeOK, NEW r \in Requests
  PROVE  LET b == NewBooking(r)
         IN  /\ b \in BookingRows /\ b.id = r /\ b.ask = ask[r]
             /\ b.proof <=> r \in files
<1>1. ASSUME NEW a \in Asks, NEW p \in BOOLEAN
      PROVE  LET b == [id |-> r, ask |-> a, proof |-> p]
             IN  b \in BookingRows /\ b.id = r /\ b.ask = a /\ b.proof = p
  BY DEF BookingRows
<1>2. ask[r] \in Asks
  BY DEF TypeOK
<1>3. CASE r \in files
  BY <1>1, <1>2, <1>3 DEF NewBooking
<1>4. CASE r \notin files
  <2>1. (r \in files) = FALSE
    BY <1>4
  <2>2. NewBooking(r) = [id |-> r, ask |-> ask[r], proof |-> FALSE]
    BY <2>1, Zenon DEF NewBooking
  <2> QED
    BY <1>1, <1>2, <1>4, <2>2
<1> QED
  BY <1>3, <1>4

LEMMA InitInv == Init => IInv
BY DEF Init, IInv, TypeOK, Stages, OneBookingPerKey, LockedSlot, SlotsDisjoint,
   Answers, Early, Makers, Files, LinkedFilesExist

-----------------------------------------------------------------------------
(* One lemma for each action, or group of actions of one kind.             *)

\* Nothing is stored or found; nobody comes to his insert.
LEMMA BeforeInv ==
  ASSUME IInv, NEW r \in Requests,
         (\E a \in Asks : Arrive(r, a)) \/ Refuse(r) \/ PreCheck(r) \/ ClaimTooLate(r)
  PROVE  IInv'
<1> USE DEF IInv
<1>1. /\ UNCHANGED <<got, lock, bookings, held, files, told, unclear, undeleted, unwritten>>
      /\ stage[r] \in {"idle", "asked", "keyed", "staged", "checked"}
      /\ stage' \in {[stage EXCEPT ![r] = s] :
            s \in {"asked", "refused", "checked", "doubtful", "cleanup"}}
      /\ stage[r] = "idle" => stage'[r] = "asked"
      /\ stage'[r] = "asked" => stage[r] = "idle"
      /\ stage'[r] = "refused" => stage[r] \in {"asked", "keyed"}
      /\ ask' \in [Requests -> Asks]
      /\ \A q \in Requests \ {r} : ask'[q] = ask[q]
      /\ stage[r] # "idle" => ask' = ask
  BY DEF Arrive, Refuse, PreCheck, ClaimTooLate, Go, rows, swallowed, TypeOK
<1>2. \A q \in Requests \ {r} : stage'[q] = stage[q]
  BY <1>1 DEF TypeOK
<1>3. stage'[r] \in {"asked", "refused", "checked", "doubtful", "cleanup"}
  BY <1>1 DEF TypeOK
<1>4. TypeOK'
  BY <1>1 DEF TypeOK, Stages
<1>5. OneBookingPerKey' /\ SlotsDisjoint' /\ LinkedFilesExist'
  BY <1>1 DEF OneBookingPerKey, SlotsDisjoint, LinkedFilesExist
<1>6. LockedSlot'
  BY <1>1, <1>2, <1>3 DEF LockedSlot, Occupied
<1>7. Answers'
  BY <1>1, <1>2, <1>3 DEF Answers, Early
<1>8. Makers'
  BY <1>1, <1>2, <1>3, NoRowYet, Ids DEF Makers, TypeOK
<1>9. Files'
  BY <1>1, <1>2, <1>3 DEF Files, TypeOK
<1> QED
  BY <1>4, <1>5, <1>6, <1>7, <1>8, <1>9

\* The key is looked up: by the fast path, after a failed check, or under the lock.
LEMMA LookUpInv ==
  ASSUME IInv, NEW r \in Requests,
         LookUpKey(r) \/ LookUpKeyAgain(r) \/ ClaimReplayed(r)
  PROVE  IInv'
<1> USE DEF IInv
<1> DEFINE ids == {b.id : b \in SameAppointment(r)}
<1>1. /\ UNCHANGED <<ask, lock, bookings, held, files, told, unclear, undeleted, unwritten>>
      /\ stage[r] \in {"asked", "doubtful", "checked"}
      /\ \/ got' = got /\ stage' = [stage EXCEPT ![r] = "keyed"] /\ stage[r] = "asked"
         \/ /\ got' = [got EXCEPT ![r] = ids]
            /\ \E s \in {"booked", "refused", "committed", "cleanup"} :
                 /\ stage' = [stage EXCEPT ![r] = s]
                 /\ s \in {"booked", "committed"} => SameAppointment(r) # {}
                 /\ s \in {"booked", "refused"} => stage[r] = "asked"
  BY DEF LookUpKey, LookUpKeyAgain, ClaimReplayed, Go, rows, swallowed
<1>2. \A q \in Requests \ {r} : stage'[q] = stage[q] /\ got'[q] = got[q]
  BY <1>1 DEF TypeOK
<1>3. /\ ids \subseteq Requests
      /\ ids = {} <=> SameAppointment(r) = {}
      /\ ids # {} => \E b \in bookings : b.ask = ask[r] /\ ids = {b.id}
  BY Found
<1>4. \A b \in bookings : b.id # r
  BY <1>1, NoRowYet
<1> HIDE DEF ids
<1>5. TypeOK'
  BY <1>1, <1>3 DEF TypeOK, Stages
<1>6. OneBookingPerKey' /\ SlotsDisjoint' /\ LinkedFilesExist'
  BY <1>1 DEF OneBookingPerKey, SlotsDisjoint, LinkedFilesExist
<1>7. LockedSlot'
  BY <1>1, <1>2 DEF LockedSlot, Occupied, TypeOK
<1>8. Answers'
  <2>1. CASE got' = got /\ stage' = [stage EXCEPT ![r] = "keyed"]
    BY <2>1, <1>1, <1>2 DEF Answers, Early, TypeOK
  <2>2. CASE got' = [got EXCEPT ![r] = ids]
    <3>1. /\ got'[r] = ids
          /\ stage'[r] \in {"booked", "refused", "committed", "cleanup", "keyed"}
          /\ stage'[r] \in {"booked", "committed"} => ids # {}
          /\ stage'[r] = "keyed" => got'[r] = got[r] /\ got[r] = {}
      BY <2>2, <1>1, <1>3 DEF Answers, Early, TypeOK
    <3> QED
      BY <3>1, <1>1, <1>2, <1>3 DEF Answers, Early
  <2> QED
    BY <1>1, <2>1, <2>2
<1>9. Makers'
  BY <1>1, <1>2, <1>4, NoRowYet, Ids DEF Makers, TypeOK
<1>10. Files'
  <2>1. ASSUME r \in files PROVE stage'[r] \in {"committed", "cleanup"}
    BY <2>1, <1>1 DEF Files, TypeOK
  <2>2. stage'[r] = "committed" => got'[r] # {} /\ got'[r] # {r}
    BY <1>1, <1>3, <1>4 DEF TypeOK
  <2> QED
    BY <2>1, <2>2, <1>1, <1>2 DEF Files, TypeOK
<1> QED
  BY <1>5, <1>6, <1>7, <1>8, <1>9, <1>10

LEMMA StageInv ==
  ASSUME IInv, NEW r \in Requests, Stage(r)
  PROVE  IInv'
<1> USE DEF IInv
<1>1. /\ UNCHANGED <<ask, got, lock, bookings, held, told, unclear, undeleted, unwritten>>
      /\ stage[r] = "keyed" /\ stage' = [stage EXCEPT ![r] = "staged"]
      /\ files \subseteq files' /\ files' \subseteq files \cup {r}
  BY DEF Stage, Go, rows, swallowed
<1>2. TypeOK'
  BY <1>1 DEF TypeOK, Stages
<1>3. OneBookingPerKey' /\ SlotsDisjoint' /\ LinkedFilesExist'
  BY <1>1 DEF OneBookingPerKey, SlotsDisjoint, LinkedFilesExist
<1>4. LockedSlot'
  BY <1>1 DEF LockedSlot, Occupied, TypeOK
<1>5. Answers'
  BY <1>1 DEF Answers, Early, TypeOK
<1>6. Makers'
  BY <1>1, NoRowYet, Ids DEF Makers, TypeOK
<1>7. Files'
  BY <1>1 DEF Files, TypeOK
<1> QED
  BY <1>2, <1>3, <1>4, <1>5, <1>6, <1>7

\* The lock is free, so nobody else of this business is about to insert.
LEMMA ClaimInv ==
  ASSUME IInv, NEW r \in Requests, Claim(r)
  PROVE  IInv'
<1> USE DEF IInv
<1>1. /\ UNCHANGED <<ask, got, bookings, held, files, told, unclear, undeleted, unwritten>>
      /\ stage[r] = "checked" /\ stage' = [stage EXCEPT ![r] = "inserting"]
      /\ lock[ask[r].business] = {}
      /\ ~Occupied(ask[r].business, ask[r].window)
      /\ lock' = [lock EXCEPT ![ask[r].business] = {r}]
      /\ ask[r].business \in Businesses
  BY DEF Claim, Go, rows, swallowed, TypeOK, Asks
<1>2. TypeOK'
  BY <1>1 DEF TypeOK, Stages
<1>3. OneBookingPerKey' /\ SlotsDisjoint' /\ LinkedFilesExist'
  BY <1>1 DEF OneBookingPerKey, SlotsDisjoint, LinkedFilesExist
<1>4. LockedSlot'
  <2> SUFFICES ASSUME NEW q \in Requests, stage'[q] = "inserting"
               PROVE  /\ lock'[ask[q].business] = {q}
                      /\ ~Occupied(ask[q].business, ask[q].window)
    <3>1. ask' = ask /\ held' = held
      BY <1>1
    <3> QED
      BY <3>1 DEF LockedSlot, Occupied
  <2>1. CASE q = r
    BY <2>1, <1>1 DEF TypeOK
  <2>2. CASE q # r
    <3>1. stage[q] = "inserting"
      BY <2>2, <1>1 DEF TypeOK
    <3>2. /\ lock[ask[q].business] = {q}
          /\ ~Occupied(ask[q].business, ask[q].window)
      BY <3>1 DEF LockedSlot
    <3>3. lock'[ask[q].business] = lock[ask[q].business]
      BY <3>2, <1>1 DEF TypeOK
    <3> QED
      BY <3>2, <3>3
  <2> QED
    BY <2>1, <2>2
<1>5. Answers'
  BY <1>1 DEF Answers, Early, TypeOK
<1>6. Makers'
  BY <1>1, NoRowYet, Ids DEF Makers, TypeOK
<1>7. Files'
  BY <1>1 DEF Files, TypeOK
<1> QED
  BY <1>2, <1>3, <1>4, <1>5, <1>6, <1>7

\* Giving up one's lock never takes another's away.
LEMMA UnlockKeepsOthers ==
  ASSUME TypeOK, LockedSlot, NEW r \in Requests, Unlock(r)
  PROVE  /\ lock' \in [Businesses -> SUBSET Requests]
         /\ \A q \in Requests \ {r} :
              stage[q] = "inserting" => lock'[ask[q].business] = {q}
<1>1. \A q \in Requests : ask[q].business \in Businesses
  BY DEF TypeOK, Asks
<1> QED
  BY <1>1 DEF TypeOK, LockedSlot, Unlock

\* The insert, answered or not: the key is new by its index, the slot by the lock.
LEMMA InsertInv ==
  ASSUME IInv, NEW r \in Requests, Insert(r) \/ InsertUnanswered(r)
  PROVE  IInv'
<1> USE DEF IInv
<1> DEFINE b == NewBooking(r)
<1>1. /\ UNCHANGED <<ask, files, told, undeleted, unwritten>>
      /\ stage[r] = "inserting" /\ Unique(r) /\ Unlock(r)
      /\ bookings' = bookings \cup {b} /\ held' = held \cup {b}
      /\ \/ /\ stage' = [stage EXCEPT ![r] = "committed"]
            /\ got' = [got EXCEPT ![r] = {r}] /\ unclear' = unclear
         \/ /\ stage' = [stage EXCEPT ![r] = "cleanup"]
            /\ got' = got /\ unclear' = unclear \cup {r}
  BY DEF Insert, InsertUnanswered, Go, swallowed
<1>2. b \in BookingRows /\ b.id = r /\ b.ask = ask[r] /\ (b.proof <=> r \in files)
  BY NewBookingFacts
<1>3. r \notin unclear /\ \A c \in bookings : c.id # r
  BY <1>1, NoRowYet
<1>4. got[r] = {}
  BY <1>1 DEF Answers, Early
<1> HIDE DEF b
<1>5. TypeOK'
  BY <1>1, <1>2, UnlockKeepsOthers DEF TypeOK, Stages
<1>6. OneBookingPerKey'
  BY <1>1, <1>2 DEF OneBookingPerKey, Unique, WithKey
<1>7. SlotsDisjoint'
  <2>1. ASSUME NEW c \in held, c.ask.business = b.ask.business
        PROVE  /\ <<c.ask.window, b.ask.window>> \notin Clashes
               /\ <<b.ask.window, c.ask.window>> \notin Clashes
    <3>1. <<c.ask.window, b.ask.window>> \notin Clashes
      BY <2>1, <1>1, <1>2 DEF LockedSlot, Occupied
    <3>2. c.ask.window \in Windows /\ b.ask.window \in Windows
      BY <1>2 DEF TypeOK, BookingRows, Asks
    <3> QED
      BY <3>1, <3>2, ClashAssumption
  <2> QED
    BY <1>1, <2>1 DEF SlotsDisjoint
<1>8. LockedSlot'
  <2> SUFFICES ASSUME NEW q \in Requests, stage'[q] = "inserting"
               PROVE  /\ lock'[ask[q].business] = {q}
                      /\ ~Occupied(ask[q].business, ask[q].window)'
    BY <1>1 DEF LockedSlot, Occupied
  <2>1. q # r /\ stage[q] = "inserting"
    BY <1>1 DEF TypeOK
  <2>2. ask[q].business # b.ask.business
    BY <2>1, <1>1, <1>2 DEF LockedSlot
  <2> QED
    BY <2>1, <2>2, <1>1, UnlockKeepsOthers DEF LockedSlot, Occupied
<1>9. Answers'
  <2>1. \A q \in Requests \ {r} : stage'[q] = stage[q] /\ got'[q] = got[q]
    BY <1>1 DEF TypeOK
  <2>2. \/ stage'[r] = "committed" /\ got'[r] = {r}
        \/ stage'[r] = "cleanup" /\ got'[r] = {}
    BY <1>1, <1>4 DEF TypeOK
  <2> QED
    BY <2>1, <2>2, <1>1, <1>2 DEF Answers, Early
<1>10. Makers'
  <2>1. \A q \in Requests \ {r} : stage'[q] = stage[q] /\ got'[q] = got[q]
    BY <1>1 DEF TypeOK
  <2>2. \/ stage'[r] = "committed" /\ got'[r] = {r} /\ unclear' = unclear
        \/ stage'[r] = "cleanup" /\ unclear' = unclear \cup {r}
    BY <1>1 DEF TypeOK
  <2>3. \A c \in bookings : c.id \in Requests \ {r}
    BY <1>3 DEF TypeOK, BookingRows
  <2> QED
    BY <2>1, <2>2, <2>3, <1>1, <1>2, <1>3 DEF Makers, TypeOK
<1>11. Files' /\ LinkedFilesExist'
  BY <1>1, <1>2 DEF Files, LinkedFilesExist, TypeOK
<1> QED
  BY <1>5, <1>6, <1>7, <1>8, <1>9, <1>10, <1>11

\* A transaction that rolls back, or a process that dies, leaves its lock.
LEMMA FailInv ==
  ASSUME IInv, NEW r \in Requests, InsertFails(r) \/ Crash(r)
  PROVE  IInv'
<1> USE DEF IInv
<1>1. /\ UNCHANGED <<ask, got, bookings, held, files, told, unclear, undeleted, unwritten>>
      /\ Unlock(r)
      /\ \/ stage[r] = "inserting" /\ stage' = [stage EXCEPT ![r] = "cleanup"]
         \/ stage[r] \notin Finished /\ stage' = [stage EXCEPT ![r] = "dead"]
  BY DEF InsertFails, Crash, Go, rows, swallowed
<1>2. TypeOK'
  BY <1>1, UnlockKeepsOthers DEF TypeOK, Stages
<1>3. OneBookingPerKey' /\ SlotsDisjoint' /\ LinkedFilesExist'
  BY <1>1 DEF OneBookingPerKey, SlotsDisjoint, LinkedFilesExist
<1>4. LockedSlot'
  <2>1. \A q \in Requests : stage'[q] = "inserting" => q # r /\ stage[q] = "inserting"
    BY <1>1 DEF TypeOK
  <2> QED
    BY <2>1, <1>1, UnlockKeepsOthers DEF LockedSlot, Occupied
<1>5. Answers'
  BY <1>1 DEF Answers, Early, TypeOK
<1>6. Makers'
  <2>1. stage[r] = "inserting" => r \notin unclear /\ \A b \in bookings : b.id # r
    BY NoRowYet
  <2> QED
    BY <2>1, <1>1, Ids DEF Makers, Finished, TypeOK
<1>7. Files'
  BY <1>1 DEF Files, Finished, TypeOK
<1> QED
  BY <1>2, <1>3, <1>4, <1>5, <1>6, <1>7

\* The notification, and the clean-up of an attempt that made nothing it knows of.
LEMMA AfterInv ==
  ASSUME IInv, NEW r \in Requests, Publish(r) \/ Discard(r)
  PROVE  IInv'
<1> USE DEF IInv
<1>1. /\ UNCHANGED <<ask, got, lock, bookings, held, unclear>>
      /\ \/ /\ stage[r] = "committed" /\ stage' = [stage EXCEPT ![r] = "booked"]
            /\ files' = files /\ undeleted' = undeleted
            /\ \/ told' = told \cup got[r] /\ unwritten' = unwritten
               \/ told' = told /\ unwritten' = unwritten \cup got[r]
         \/ /\ stage[r] = "cleanup" /\ told' = told /\ unwritten' = unwritten
            /\ stage' = [stage EXCEPT ![r] = IF got[r] = {} THEN "refused" ELSE "booked"]
            /\ \/ files' = files \ {r} /\ undeleted' = undeleted
               \/ files' = files /\ undeleted' = undeleted \cup {r}
  BY DEF Publish, Discard, Go, rows
<1>2. TypeOK'
  BY <1>1 DEF TypeOK, Stages
<1>3. OneBookingPerKey' /\ SlotsDisjoint'
  BY <1>1 DEF OneBookingPerKey, SlotsDisjoint
<1>4. LockedSlot'
  BY <1>1 DEF LockedSlot, Occupied, TypeOK
<1>5. Answers'
  BY <1>1 DEF Answers, Early, TypeOK
<1>6. Makers'
  BY <1>1, Ids DEF Makers, TypeOK
<1>7. Files'
  BY <1>1 DEF Files, TypeOK
<1>8. LinkedFilesExist'
  BY <1>1 DEF LinkedFilesExist, Makers
<1> QED
  BY <1>2, <1>3, <1>4, <1>5, <1>6, <1>7, <1>8

\* A slot that is given up clashes with nothing any more.
LEMMA GiveUpInv ==
  ASSUME IInv, NEW b \in held, GiveUpSlot(b)
  PROVE  IInv'
BY DEF IInv, GiveUpSlot, swallowed, TypeOK, OneBookingPerKey, LockedSlot, Occupied,
   SlotsDisjoint, Answers, Makers, Files, LinkedFilesExist

LEMMA StepInv == IInv /\ [Next]_vars => IInv'
<1> SUFFICES ASSUME IInv, [Next]_vars PROVE IInv'
  OBVIOUS
<1>1. ASSUME NEW r \in Requests,
             \/ \E a \in Asks : Arrive(r, a)
             \/ Refuse(r)       \/ LookUpKey(r)     \/ Stage(r)        \/ PreCheck(r)
             \/ LookUpKeyAgain(r)
             \/ Claim(r)        \/ ClaimReplayed(r) \/ ClaimTooLate(r)
             \/ Insert(r)       \/ InsertUnanswered(r) \/ InsertFails(r)
             \/ Publish(r)      \/ Discard(r)       \/ Crash(r)
      PROVE  IInv'
  BY <1>1, BeforeInv, LookUpInv, StageInv, ClaimInv, InsertInv, FailInv, AfterInv
<1>2. ASSUME NEW b \in held, GiveUpSlot(b) PROVE IInv'
  BY <1>2, GiveUpInv
<1>3. CASE UNCHANGED vars
  BY <1>3 DEF vars, rows, swallowed, IInv, TypeOK, OneBookingPerKey, LockedSlot, Occupied,
     SlotsDisjoint, Answers, Makers, Files, LinkedFilesExist
<1> QED
  BY <1>1, <1>2, <1>3 DEF Next

LEMMA Invariance == Spec => []IInv
BY InitInv, StepInv, PTL DEF Spec

-----------------------------------------------------------------------------
\* The types; whoever holds a slot lock has a committed booking.
THEOREM TypeCorrect == Spec => []TypeOK
<1>1. IInv => TypeOK
  BY DEF IInv
<1> QED
  BY <1>1, Invariance, PTL

\* A submission key makes one booking, across retries and businesses, because the
\* unique index backs what the lookups cannot see (createBooking).
THEOREM OneBooking == Spec => []OneBookingPerKey
<1>1. IInv => OneBookingPerKey
  BY DEF IInv
<1> QED
  BY <1>1, Invariance, PTL

\* Slots held in one business never clash, because the slot is checked and
\* inserted under one holding of the business's advisory lock.
THEOREM SlotsApart == Spec => []SlotsDisjoint
<1>1. IInv => SlotsDisjoint
  BY DEF IInv
<1> QED
  BY <1>1, Invariance, PTL

\* One booking per key and per slot, whatever is repeated and whatever competes.
THEOREM BookingsKeptApart == Spec => []BookingsApart
  BY OneBooking, SlotsApart, PTL DEF BookingsApart

\* A success names the booking of exactly what was asked for (idempotentRef).
THEOREM OwnAnswers == Spec => []AnswersAreOwn
<1>1. IInv => AnswersAreOwn
  BY DEF IInv, Answers, AnswersAreOwn
<1> QED
  BY <1>1, Invariance, PTL

\* The clean-up of createBooking never takes a linked file, unless the commit
\* that linked it went unanswered.
THEOREM LinkedFilesKept == Spec => []LinkedFilesExist
<1>1. IInv => LinkedFilesExist
  BY DEF IInv
<1> QED
  BY <1>1, Invariance, PTL

\* An answered attempt of createBooking leaves a file only to its booking, or one
\* that storage failed to delete, or a replay's copy once that replay has committed.
THEOREM StraysExplained == Spec => []StrayFilesExplained
<1>1. IInv => StrayFilesExplained
  BY DEF IInv, Files, StrayFilesExplained, TypeOK
<1> QED
  BY <1>1, Invariance, PTL

\* The clean-up neither loses a proof file nor leaves one over unexplained.
THEOREM FilesKept == Spec => []FilesAccountedFor
  BY LinkedFilesKept, StraysExplained, PTL DEF FilesAccountedFor

\* The owner has been told of every booking a client was told it has, unless its
\* maker's commit went unanswered or a notification of it could not be written
\* (afterCommit, publish).
THEOREM OwnerTold == Spec => []BookedIsTold
<1>1. IInv => BookedIsTold
  BY DEF IInv, Answers, Makers, BookedIsTold, TypeOK
<1> QED
  BY <1>1, Invariance, PTL

-----------------------------------------------------------------------------
(* Refinement: createBooking implements SubmissionLedger.                  *)

\* What has been confirmed to those whose requests ended well, and what a step adds
\* to it, if anything.
LEMMA ConfirmedGrows ==
  ASSUME NEW R \in SUBSET Requests,
         {q \in Requests : stage'[q] = "booked"} = {q \in Requests : stage[q] = "booked"} \cup R,
         \A q \in Requests : stage[q] = "booked" => got'[q] = got[q] /\ ask'[q] = ask[q]
  PROVE  Confirmed' = Confirmed \cup
           UNION {AnswerOf(q)' : q \in R}
<1> DEFINE Q == {q \in Requests : stage[q] = "booked"}
<1>1. \A q \in Q : AnswerOf(q)' = AnswerOf(q)
  BY DEF AnswerOf
<1>2. Confirmed = UNION {AnswerOf(q) : q \in Q}
  BY Zenon DEF Confirmed
<1>3. Confirmed' = UNION {AnswerOf(q)' : q \in Q \cup R}
  <2>1. Confirmed' = UNION {AnswerOf(q)' : q \in {p \in Requests : stage'[p] = "booked"}}
    BY Zenon DEF Confirmed
  <2>2. {p \in Requests : stage'[p] = "booked"} = Q \cup R
    OBVIOUS
  <2> HIDE DEF Q
  <2> QED
    BY <2>1, <2>2, Zenon
<1> HIDE DEF Q
<1>4. UNION {AnswerOf(q)' : q \in Q \cup R} =
        (UNION {AnswerOf(q) : q \in Q}) \cup (UNION {AnswerOf(q)' : q \in R})
  BY <1>1
<1> QED
  BY <1>2, <1>3, <1>4, Zenon

\* No step but an insert changes what is made, none but the end of a request what
\* has been confirmed.
LEMMA LedgerKept ==
  ASSUME bookings' = bookings,
         \A q \in Requests : /\ stage'[q] = "booked" <=> stage[q] = "booked"
                             /\ stage[q] = "booked" => got'[q] = got[q] /\ ask'[q] = ask[q]
  PROVE  Made' = Made /\ Confirmed' = Confirmed
<1>1. Made' = Made
  BY DEF Made
<1>2. {q \in Requests : stage'[q] = "booked"} = {q \in Requests : stage[q] = "booked"} \cup {}
  OBVIOUS
<1>3. Confirmed' = Confirmed \cup UNION {AnswerOf(q)' : q \in {}}
  <2>1. \A q \in Requests : stage[q] = "booked" => got'[q] = got[q] /\ ask'[q] = ask[q]
    OBVIOUS
  <2> QED
    BY <1>2, <2>1, ConfirmedGrows
<1>4. UNION {AnswerOf(q)' : q \in {}} = {}
  OBVIOUS
<1> QED
  BY <1>1, <1>3, <1>4

\* A request that ends well confirms the booking it has found or made.
LEMMA EndConfirms ==
  ASSUME IInv, NEW r \in Requests, NEW b \in bookings, b.ask = ask[r],
         stage[r] # "booked", stage' = [stage EXCEPT ![r] = "booked"],
         \A q \in Requests \ {r} : got'[q] = got[q], got'[r] = {b.id},
         ask' = ask, bookings' = bookings
  PROVE  Ledger!Confirm(ask[r].key, ask[r], b.id)
<1>1. {q \in Requests : stage'[q] = "booked"} = {q \in Requests : stage[q] = "booked"} \cup {r}
  BY DEF IInv, TypeOK
<1>2. Confirmed' = Confirmed \cup UNION {AnswerOf(q)' : q \in {r}}
  <2>1. \A q \in Requests : stage[q] = "booked" => got'[q] = got[q] /\ ask'[q] = ask[q]
    OBVIOUS
  <2> QED
    BY <1>1, <2>1, ConfirmedGrows
<1>3. AnswerOf(r)' = {Ledger!Entry(ask[r].key, ask[r], b.id)}
  BY DEF AnswerOf, Ledger!Entry
<1>4. UNION {AnswerOf(q)' : q \in {r}} = AnswerOf(r)'
  <2> QED
    OBVIOUS
<1>5. Made' = Made /\ Ledger!Entry(ask[r].key, ask[r], b.id) \in Made
  BY DEF Made, Ledger!Entry
<1> QED
  BY <1>2, <1>3, <1>4, <1>5, Zenon DEF Ledger!Confirm

\* A request that inserts makes the booking of its key.
LEMMA InsertMakes ==
  ASSUME IInv, NEW r \in Requests, Insert(r) \/ InsertUnanswered(r)
  PROVE  Ledger!Make(ask[r].key, ask[r], r)
<1>1. /\ bookings' = bookings \cup {NewBooking(r)} /\ WithKey(ask[r].key) = {}
      /\ ask' = ask /\ stage[r] = "inserting"
      /\ \A q \in Requests : /\ stage'[q] = "booked" <=> stage[q] = "booked"
                             /\ q # r => got'[q] = got[q]
  BY DEF Insert, InsertUnanswered, Unique, Go, IInv, TypeOK
<1>2. NewBooking(r).id = r /\ NewBooking(r).ask = ask[r]
  BY NewBookingFacts DEF IInv
<1>3. Made' = Made \cup {Ledger!Entry(ask[r].key, ask[r], r)}
  BY <1>1, <1>2 DEF Made, Ledger!Entry
<1>4. \A e \in Made : e.key # ask[r].key
  BY <1>1 DEF Made, WithKey
<1>5. Confirmed' = Confirmed
  <2>1. {q \in Requests : stage'[q] = "booked"} = {q \in Requests : stage[q] = "booked"} \cup {}
    BY <1>1
  <2>2. \A q \in Requests : stage[q] = "booked" => got'[q] = got[q] /\ ask'[q] = ask[q]
    BY <1>1
  <2>3. Confirmed' = Confirmed \cup UNION {AnswerOf(q)' : q \in {}}
    BY <2>1, <2>2, ConfirmedGrows
  <2>4. UNION {AnswerOf(q)' : q \in {}} = {}
    OBVIOUS
  <2> QED
    BY <2>3, <2>4
<1> QED
  BY <1>3, <1>4, <1>5 DEF Ledger!Make

\* Every step is one of the ledger's, or leaves it alone.
LEMMA LedgerStep ==
  IInv /\ [Next]_vars => [Ledger!Next]_<<Made, Confirmed>>
<1> SUFFICES ASSUME IInv, [Next]_vars
             PROVE  Ledger!Next \/ (Made' = Made /\ Confirmed' = Confirmed)
  OBVIOUS
<1>1. \A r \in Requests : ask[r] \in Asks /\ ask[r].key \in Keys
  BY DEF IInv, TypeOK, Asks
<1>2. ASSUME NEW r \in Requests, Insert(r) \/ InsertUnanswered(r)
      PROVE  Ledger!Next
  BY <1>1, <1>2, InsertMakes DEF Ledger!Next
<1>3. ASSUME NEW r \in Requests, stage[r] # "booked", stage' = [stage EXCEPT ![r] = "booked"],
             ask' = ask, bookings' = bookings,
             \A q \in Requests \ {r} : got'[q] = got[q],
             \E b \in bookings : b.ask = ask[r] /\ got'[r] = {b.id}
      PROVE  Ledger!Next
  <2>1. PICK b \in bookings : b.ask = ask[r] /\ got'[r] = {b.id}
    BY <1>3
  <2>2. Ledger!Confirm(ask[r].key, ask[r], b.id)
    BY <1>3, <2>1, EndConfirms
  <2>3. b.id \in Requests
    BY Ids DEF IInv
  <2> QED
    BY <1>1, <2>2, <2>3 DEF Ledger!Next
<1>4. ASSUME NEW r \in Requests, stage[r] # "booked",
             NEW s, s # "booked", stage' = [stage EXCEPT ![r] = s], bookings' = bookings,
             \A q \in Requests \ {r} : got'[q] = got[q] /\ ask'[q] = ask[q]
      PROVE  Made' = Made /\ Confirmed' = Confirmed
  <2>1. \A q \in Requests : /\ stage'[q] = "booked" <=> stage[q] = "booked"
                            /\ stage[q] = "booked" => got'[q] = got[q] /\ ask'[q] = ask[q]
    BY <1>4 DEF IInv, TypeOK
  <2> QED
    BY <1>4, <2>1, LedgerKept
<1>5. ASSUME NEW r \in Requests, LookUpKey(r)
      PROVE  Ledger!Next \/ (Made' = Made /\ Confirmed' = Confirmed)
  <2> DEFINE ids == {b.id : b \in SameAppointment(r)}
  <2>1. /\ ids = {} <=> SameAppointment(r) = {}
        /\ ids # {} => \E b \in bookings : b.ask = ask[r] /\ ids = {b.id}
    BY Found DEF IInv
  <2>2. /\ UNCHANGED <<ask, bookings>> /\ stage[r] = "asked"
        /\ \A q \in Requests \ {r} : got'[q] = got[q]
        /\ \/ \E s \in {"keyed", "refused"} : stage' = [stage EXCEPT ![r] = s]
           \/ stage' = [stage EXCEPT ![r] = "booked"] /\ got'[r] = ids /\ SameAppointment(r) # {}
    BY <1>5 DEF LookUpKey, Go, rows, IInv, TypeOK
  <2> HIDE DEF ids
  <2>3. stage[r] # "booked" /\ "keyed" # "booked" /\ "refused" # "booked"
    BY <2>2
  <2> QED
    BY <1>3, <1>4, <2>1, <2>2, <2>3
<1>6. ASSUME NEW r \in Requests, Publish(r) \/ Discard(r)
      PROVE  Ledger!Next \/ (Made' = Made /\ Confirmed' = Confirmed)
  <2>1. /\ UNCHANGED <<ask, bookings, got>> /\ stage[r] \in {"committed", "cleanup"}
        /\ \/ stage' = [stage EXCEPT ![r] = "refused"]
           \/ stage' = [stage EXCEPT ![r] = "booked"] /\ got[r] # {}
    BY <1>6 DEF Publish, Discard, Go, rows, IInv, Answers
  <2>2. got[r] # {} => \E b \in bookings : b.ask = ask[r] /\ got[r] = {b.id}
    BY DEF IInv, Answers
  <2>3. stage[r] # "booked" /\ "refused" # "booked"
    BY <2>1
  <2> QED
    BY <1>3, <1>4, <2>1, <2>2, <2>3
<1>7. ASSUME NEW r \in Requests,
             \/ \E a \in Asks : Arrive(r, a)
             \/ Refuse(r) \/ Stage(r) \/ PreCheck(r) \/ LookUpKeyAgain(r) \/ Claim(r)
             \/ ClaimReplayed(r) \/ ClaimTooLate(r) \/ InsertFails(r) \/ Crash(r)
      PROVE  Made' = Made /\ Confirmed' = Confirmed
  <2>1. /\ bookings' = bookings /\ stage[r] # "booked"
        /\ \A q \in Requests \ {r} : got'[q] = got[q] /\ ask'[q] = ask[q]
        /\ \E s \in Stages \ {"booked"} : stage' = [stage EXCEPT ![r] = s]
    BY <1>7 DEF Arrive, Refuse, Stage, PreCheck, LookUpKeyAgain, Claim, ClaimReplayed, ClaimTooLate,
         InsertFails, Crash, Go, rows, Stages, Finished, IInv, TypeOK
  <2> QED
    BY <1>4, <2>1
<1>8. ASSUME UNCHANGED <<stage, ask, got, bookings>>
      PROVE  Made' = Made /\ Confirmed' = Confirmed
  BY <1>8, LedgerKept
<1> QED
  BY <1>2, <1>5, <1>6, <1>7, <1>8 DEF Next, vars, rows, GiveUpSlot

\* createBooking keeps the promise of a submission: its key makes one booking, for
\* good, and success is only ever said of that, for any number of attempts.
THEOREM KeepsLedger == Spec => ImplementsLedger
<1>1. Init => Ledger!Init
  <2>1. ASSUME Init PROVE Made = {} /\ {q \in Requests : stage[q] = "booked"} = {}
    BY <2>1 DEF Init, Made
  <2>2. Confirmed = UNION {AnswerOf(q) : q \in {p \in Requests : stage[p] = "booked"}}
    BY Zenon DEF Confirmed
  <2>3. ASSUME {q \in Requests : stage[q] = "booked"} = {} PROVE Confirmed = {}
    BY <2>2, <2>3
  <2> QED
    BY <2>1, <2>3 DEF Ledger!Init
<1> QED
  BY <1>1, LedgerStep, Invariance, PTL DEF Spec, ImplementsLedger, Ledger!Spec, Ledger!ledger

-----------------------------------------------------------------------------
(***************************************************************************)
(* The wizard of module BookingPage.  What it submits was shown to it      *)
(* because the queries it still wants are for its current selection and    *)
(* date (QueriesCurrent, FormShown); what it shows as the answer is the    *)
(* answer to its form as long as the attempt awaited is the form's         *)
(* (ReceiptKept); and a key is only dropped once its booking was shown     *)
(* (KeysKept).                                                             *)
(***************************************************************************)

PageTypeOK ==
  /\ offered \subseteq Appointments /\ due \subseteq Selections
  /\ booked \in [SubmissionKeys -> Submissions \cup {Nothing}]
  /\ sel \in Selections /\ date \in Dates \cup {0} /\ time \in Times \cup {0}
  /\ deposit \in BOOLEAN /\ paid \in BOOLEAN /\ edited \in BOOLEAN
  /\ strip \in {Nothing} \cup SUBSET Dates /\ slots \in {Nothing} \cup SUBSET Times
  /\ queries \subseteq [kind : {"strip", "day"}, sel : Selections, date : Dates \cup {0},
                        view : {Nothing} \cup View]
  /\ sent \in 0..MaxSubmits /\ keys \in 0..sent /\ key \in 0..keys /\ awaited \in {0, sent}
  /\ attempts \subseteq Submissions
  /\ \A a \in attempts : a.id <= sent /\ a.key <= keys
  /\ {answer, result} \subseteq {Nothing, "created", "unavailable", "error"}

\* Only answers for what is on the page are still wanted.
QueriesCurrent ==
  \A q \in queries :
    step = "DATE_TIME" /\ q.sel = sel /\ (q.kind = "day" => q.date = date)

Shown(s, d, t) == Appointment(s, d, t) \in shown
ShownDeposit(s, asked) == Quote(s, asked) \in shown

\* The times on the page, and the one chosen, are times the page was shown.
FormShown ==
  /\ slots # Nothing => step = "DATE_TIME" /\ \A t \in slots : Shown(sel, date, t)
  /\ time # 0 => Shown(sel, date, time)
  /\ time # 0 \/ slots \notin {Nothing, {}} => ShownDeposit(sel, deposit)

\* One submission at a time is awaited, and an answer is the last one's.
OneAwaited ==
  /\ \A a, b \in attempts : a.id = b.id => a = b
  /\ awaited # 0 => key # 0 /\ result = Nothing
  /\ answer # Nothing => awaited # 0
  /\ answer # Nothing \/ result = "unavailable" => \A a \in attempts : a.id # sent

FormOf == Appointment(sel, date, time)
Receipt == booked[key] # Nothing /\ (~edited => booked[key].appointment = FormOf)

ReceiptKept ==
  /\ \A a \in attempts :
       awaited # 0 /\ a.id = awaited => a.key = key /\ (~edited => a.appointment = FormOf)
  /\ answer = "created" => Receipt
  /\ result = "created" => step = "DONE" /\ key # 0 /\ key \in toldOf /\ Receipt

\* A key is kept until the customer is told of its booking.
KeysKept ==
  /\ \A a \in attempts : a.key = key \/ a.key \in toldOf
  /\ \A k \in SubmissionKeys : booked[k] # Nothing => k = key \/ k \in toldOf
  /\ "unavailable" \in {answer, result} =>
       key # 0 /\ (booked[key] # Nothing => booked[key].id < sent)

PageInv ==
  /\ PageTypeOK /\ QueriesCurrent /\ FormShown /\ SubmittedWasOffered
  /\ OneAwaited /\ ReceiptKept /\ KeysKept

-----------------------------------------------------------------------------
\* What the page has been told is not forgotten.
LEMMA ShownGrows ==
  ASSUME shown \subseteq shown', NEW s, NEW d, NEW t, NEW asked
  PROVE  (Shown(s, d, t) => Shown(s, d, t)') /\ (ShownDeposit(s, asked) => ShownDeposit(s, asked)')
  BY DEF Shown, ShownDeposit

\* What is known of submissions and their answers survives whatever the customer
\* does to the form: a change that matters to the receipt is on record.
LEMMA SendingKept ==
  ASSUME PageInv, UNCHANGED <<sending, booked>>, shown \subseteq shown',
         edited' \/ (~edited /\ UNCHANGED FormOf),
         step = "DONE" => step' = "DONE"
  PROVE  SubmittedWasOffered' /\ OneAwaited' /\ ReceiptKept' /\ KeysKept'
  <1>1. UNCHANGED <<key, keys, awaited, result, sent, attempts, answer, toldOf, booked>>
    BY DEF sending
  <1>2. SubmittedWasOffered'
    BY <1>1 DEF PageInv, SubmittedWasOffered
  <1>3. OneAwaited' /\ KeysKept'
    BY <1>1 DEF PageInv, OneAwaited, KeysKept
  <1>4. ReceiptKept'
    BY <1>1 DEF PageInv, ReceiptKept, Receipt
  <1> QED BY <1>2, <1>3, <1>4

\* The server answers a query for what is still on the page.
LEMMA AnswerQueryPage ==
  ASSUME PageInv, NEW q \in queries, AnswerQuery(q)
  PROVE  PageInv'
  <1> DEFINE p == [q EXCEPT !.view = Available(q)]
  <1>1. /\ queries' = (queries \ {q}) \cup {p}
        /\ UNCHANGED <<server, step, form, strip, slots, shown, sending, edited>>
    BY DEF AnswerQuery
  <1>2. UNCHANGED <<offered, due, booked, step, sel, date, time, deposit, paid, strip, slots,
                    shown, edited>>
    BY <1>1 DEF server, form
  <1>3. q \in [kind : {"strip", "day"}, sel : Selections, date : Dates \cup {0},
               view : {Nothing} \cup View]
    BY DEF PageInv, PageTypeOK
  <1>4. Available(q) \in View
    BY DEF Available, View
  <1>5. /\ p \in [kind : {"strip", "day"}, sel : Selections, date : Dates \cup {0},
                  view : {Nothing} \cup View]
        /\ p.kind = q.kind /\ p.sel = q.sel /\ p.date = q.date
    BY <1>3, <1>4
  <1> HIDE DEF p
  <1>6. PageTypeOK'
    BY <1>1, <1>2, <1>5 DEF PageInv, PageTypeOK, sending
  <1>7. QueriesCurrent'
    BY <1>1, <1>2, <1>5 DEF PageInv, QueriesCurrent
  <1>8. FormShown'
    BY <1>2 DEF PageInv, FormShown, Shown, ShownDeposit
  <1>9. SubmittedWasOffered' /\ OneAwaited' /\ ReceiptKept' /\ KeysKept'
    BY <1>1, <1>2, SendingKept DEF FormOf
  <1> QED BY <1>6, <1>7, <1>8, <1>9 DEF PageInv

\* A query whose answer is received is one of the current selection and date.
LEMMA ReceivedQuery ==
  ASSUME PageInv, NEW q \in queries, q.view # Nothing
  PROVE  /\ step = "DATE_TIME" /\ q.sel = sel /\ (q.kind = "day" => q.date = date)
         /\ q.view.times \in SUBSET Times /\ q.view.dates \in SUBSET Dates
         /\ q.view.deposit \in BOOLEAN
  <1>1. q.view \in View
    BY DEF PageInv, PageTypeOK
  <1> QED BY <1>1 DEF PageInv, QueriesCurrent, View

LEMMA ReceiveDayPage ==
  ASSUME PageInv, NEW q \in queries, ReceiveDay(q)
  PROVE  PageInv'
  <1> DEFINE seen == {Appointment(q.sel, q.date, t) : t \in q.view.times}
  <1>1. /\ q.kind = "day" /\ q.view # Nothing
        /\ slots' = q.view.times /\ deposit' = q.view.deposit
        /\ time' = IF time \in q.view.times THEN time ELSE 0
        /\ edited' = (edited \/ time' # time)
        /\ queries' = queries \ {q}
        /\ shown' = shown \cup seen \cup {Quote(q.sel, q.view.deposit)}
        /\ UNCHANGED <<server, step, sel, date, paid, strip, sending>>
    BY DEF ReceiveDay, OfKind
  <1>2. UNCHANGED <<offered, due, booked>>
    BY <1>1 DEF server
  <1>3. /\ step = "DATE_TIME" /\ q.sel = sel /\ q.date = date
        /\ q.view.times \in SUBSET Times /\ q.view.deposit \in BOOLEAN
    BY <1>1, ReceivedQuery
  <1>4. /\ \A t \in q.view.times : Shown(sel, date, t)'
        /\ ShownDeposit(sel, deposit)'
    BY <1>1, <1>3 DEF Shown, ShownDeposit
  <1>5. edited' \/ (~edited /\ time' = time)
    BY <1>1, Zenon
  <1>6. edited' \in BOOLEAN
    BY <1>1, Zenon
  <1> HIDE DEF seen
  <1>7. PageTypeOK'
    BY <1>1, <1>2, <1>3, <1>6 DEF PageInv, PageTypeOK, sending
  <1>8. QueriesCurrent'
    BY <1>1 DEF PageInv, QueriesCurrent
  <1>9. FormShown'
    BY <1>1, <1>3, <1>4 DEF PageInv, FormShown, Shown, ShownDeposit
  <1>10. SubmittedWasOffered' /\ OneAwaited' /\ ReceiptKept' /\ KeysKept'
    BY <1>1, <1>2, <1>3, <1>5, SendingKept DEF FormOf, Appointment
  <1> QED BY <1>7, <1>8, <1>9, <1>10 DEF PageInv

LEMMA ReceiveStripPage ==
  ASSUME PageInv, NEW q \in queries, ReceiveStrip(q)
  PROVE  PageInv'
  <1>1. /\ q.view # Nothing
        /\ strip' = q.view.dates /\ deposit' = q.view.deposit
        /\ queries' = queries \ {q}
        /\ shown' = shown \cup {Quote(q.sel, q.view.deposit)}
        /\ UNCHANGED <<server, step, sel, date, time, paid, slots, sending, edited>>
    BY DEF ReceiveStrip
  <1>2. UNCHANGED <<offered, due, booked>>
    BY <1>1 DEF server
  <1>3. /\ step = "DATE_TIME" /\ q.sel = sel
        /\ q.view.dates \in SUBSET Dates /\ q.view.deposit \in BOOLEAN
    BY <1>1, ReceivedQuery
  <1>4. ShownDeposit(sel, deposit)'
    BY <1>1, <1>3 DEF ShownDeposit
  <1>5. PageTypeOK'
    BY <1>1, <1>2, <1>3 DEF PageInv, PageTypeOK, sending
  <1>6. QueriesCurrent'
    BY <1>1 DEF PageInv, QueriesCurrent
  <1>7. FormShown'
    BY <1>1, <1>4 DEF PageInv, FormShown, Shown, ShownDeposit
  <1>8. SubmittedWasOffered' /\ OneAwaited' /\ ReceiptKept' /\ KeysKept'
    BY <1>1, <1>2, SendingKept DEF FormOf
  <1> QED BY <1>5, <1>6, <1>7, <1>8 DEF PageInv

\* A call that fails leaves one query less, and what it asked for unknown.
LEMMA FailQueryPage ==
  ASSUME PageInv, NEW q \in queries, FailQuery(q)
  PROVE  PageInv'
  <1>1. /\ queries' = queries \ {q}
        /\ UNCHANGED <<server, step, form, strip, slots, shown, sending, edited>>
    BY DEF FailQuery
  <1>2. UNCHANGED <<offered, due, booked, step, sel, date, time, deposit, paid, strip, slots,
                    shown, edited>>
    BY <1>1 DEF server, form
  <1>3. PageTypeOK' /\ QueriesCurrent'
    BY <1>1, <1>2 DEF PageInv, PageTypeOK, QueriesCurrent, sending
  <1>4. FormShown'
    BY <1>2 DEF PageInv, FormShown, Shown, ShownDeposit
  <1>5. SubmittedWasOffered' /\ OneAwaited' /\ ReceiptKept' /\ KeysKept'
    BY <1>1, <1>2, SendingKept DEF FormOf
  <1> QED BY <1>3, <1>4, <1>5 DEF PageInv

\* A new selection meets no query and no times: those of the old one are gone.
LEMMA SelectPage ==
  ASSUME PageInv, NEW s \in Selections, Select(s)
  PROVE  PageInv'
  <1>1. /\ step = "SERVICES" /\ sel' = s /\ date' = 0 /\ time' = 0 /\ edited' = TRUE
        /\ UNCHANGED <<server, step, deposit, paid, views, sending>>
    BY DEF Select
  <1>2. UNCHANGED <<offered, due, booked, strip, slots, queries, shown>>
    BY <1>1 DEF server, views
  <1>3. PageTypeOK'
    BY <1>1, <1>2 DEF PageInv, PageTypeOK, sending
  <1>4. queries = {} /\ slots = Nothing
    BY <1>1 DEF PageInv, QueriesCurrent, FormShown
  <1>5. QueriesCurrent' /\ FormShown'
    BY <1>1, <1>2, <1>4 DEF QueriesCurrent, FormShown
  <1>6. SubmittedWasOffered' /\ OneAwaited' /\ ReceiptKept' /\ KeysKept'
    BY <1>1, <1>2, SendingKept
  <1> QED BY <1>3, <1>5, <1>6 DEF PageInv

\* Another date cancels the queries for the last one.
LEMMA SelectDatePage ==
  ASSUME PageInv, NEW d \in Dates, SelectDate(d)
  PROVE  PageInv'
  <1>1. /\ step = "DATE_TIME" /\ date' = d /\ time' = 0 /\ edited' = TRUE
        /\ UNCHANGED <<server, step, sel, deposit, paid, strip, shown, sending>>
    BY DEF SelectDate
  <1>2. UNCHANGED <<offered, due, booked>>
    BY <1>1 DEF server
  <1>3. \/ d = date /\ UNCHANGED <<slots, queries>>
        \/ /\ slots' = Nothing
           /\ queries' = OfKind("strip") \cup {Query("day", sel, d)}
    BY DEF SelectDate, Cancelled
  <1>4. /\ Query("day", sel, d) \in [kind : {"strip", "day"}, sel : Selections,
                                    date : Dates \cup {0}, view : {Nothing} \cup View]
        /\ Query("day", sel, d).sel = sel /\ Query("day", sel, d).date = d
    BY DEF Query, PageInv, PageTypeOK
  <1>5. \A q \in OfKind("strip") : q \in queries /\ q.kind = "strip"
    BY DEF OfKind
  <1>6. PageTypeOK'
    BY <1>1, <1>2, <1>3, <1>4, <1>5 DEF PageInv, PageTypeOK, sending
  <1>7. QueriesCurrent'
    BY <1>1, <1>3, <1>4, <1>5 DEF PageInv, QueriesCurrent
  <1>8. FormShown'
    BY <1>1, <1>3 DEF PageInv, FormShown, Shown, ShownDeposit
  <1>9. SubmittedWasOffered' /\ OneAwaited' /\ ReceiptKept' /\ KeysKept'
    BY <1>1, <1>2, SendingKept
  <1> QED BY <1>6, <1>7, <1>8, <1>9 DEF PageInv

LEMMA SelectTimePage ==
  ASSUME PageInv, NEW t \in Times, SelectTime(t)
  PROVE  PageInv'
  <1>1. /\ step = "DATE_TIME" /\ slots # Nothing /\ t \in slots /\ time' = t /\ edited' = TRUE
        /\ UNCHANGED <<server, step, sel, date, deposit, paid, views, sending>>
    BY DEF SelectTime
  <1>2. UNCHANGED <<offered, due, booked, strip, slots, queries, shown>>
    BY <1>1 DEF server, views
  <1>3. PageTypeOK' /\ QueriesCurrent'
    BY <1>1, <1>2 DEF PageInv, PageTypeOK, QueriesCurrent, sending
  <1>4. FormShown'
    BY <1>1, <1>2 DEF PageInv, FormShown, Shown, ShownDeposit
  <1>5. SubmittedWasOffered' /\ OneAwaited' /\ ReceiptKept' /\ KeysKept'
    BY <1>1, <1>2, SendingKept
  <1> QED BY <1>3, <1>4, <1>5 DEF PageInv

-----------------------------------------------------------------------------
(* Turning pages.                                                          *)

\* Whatever takes the place of DateTimeStep finds no query and no times.
LEMMA LeavePage ==
  ASSUME PageInv, NEW next, Leave(next), next # "DATE_TIME",
         UNCHANGED <<sel, date, deposit>>, time' \in {0, time}
  PROVE  /\ step' = next /\ queries' = {} /\ slots' = Nothing /\ strip' = Nothing
         /\ shown' = shown /\ QueriesCurrent' /\ FormShown'
  <1>1. /\ step' = next /\ queries' = {} /\ slots' = Nothing /\ strip' = Nothing
        /\ shown' = shown
    BY DEF Leave, Cancelled
  <1> QED BY <1>1 DEF PageInv, QueriesCurrent, FormShown, Shown, ShownDeposit

\* DateTimeStep asks anew, for the selection and the date of the form.
LEMMA MountPage ==
  ASSUME PageInv, Mount(date), UNCHANGED <<sel, date, deposit>>, time' \in {0, time}
  PROVE  /\ step' = "DATE_TIME" /\ slots' = Nothing /\ strip' = Nothing /\ shown' = shown
         /\ queries' \subseteq [kind : {"strip", "day"}, sel : Selections,
                                date : Dates \cup {0}, view : {Nothing} \cup View]
         /\ QueriesCurrent' /\ FormShown'
  <1>1. /\ step' = "DATE_TIME" /\ slots' = Nothing /\ strip' = Nothing /\ shown' = shown
        /\ queries' \subseteq {Query("strip", sel, 0), Query("day", sel, date)}
    BY DEF Mount, Cancelled
  <1>2. /\ {Query("strip", sel, 0), Query("day", sel, date)}
             \subseteq [kind : {"strip", "day"}, sel : Selections,
                        date : Dates \cup {0}, view : {Nothing} \cup View]
        /\ \A q \in {Query("strip", sel, 0), Query("day", sel, date)} :
             q.sel = sel /\ (q.kind = "day" => q.date = date)
    BY DEF Query, PageInv, PageTypeOK
  <1>3. QueriesCurrent'
    BY <1>1, <1>2 DEF QueriesCurrent
  <1>4. FormShown'
    BY <1>1 DEF PageInv, FormShown, Shown, ShownDeposit
  <1> QED BY <1>1, <1>2, <1>3, <1>4

\* The steps of the wizard before it is done leave the form alone.
LEMMA TurnPage ==
  ASSUME PageInv, Continue \/ TurnPages
  PROVE  PageInv'
  <1>1. PICK next \in {"SERVICES", "CUSTOMER", "REVIEW", "PAYMENT"} :
          /\ Leave(next) /\ step # "DONE"
          /\ UNCHANGED <<server, form, sending, edited>>
    <2>1. \A from, to : Turn(from, to) =>
            step = from /\ Leave(to) /\ UNCHANGED <<server, form, sending, edited>>
      BY DEF Turn
    <2>2. Continue => step # "DONE" /\ Leave("CUSTOMER") /\ UNCHANGED <<server, form, sending, edited>>
      BY DEF Continue
    <2> QED BY <2>1, <2>2 DEF TurnPages
  <1>2. UNCHANGED <<offered, due, booked, sel, date, time, deposit, paid>>
    BY <1>1 DEF server, form
  <1>3. /\ step' = next /\ queries' = {} /\ slots' = Nothing /\ strip' = Nothing
        /\ shown' = shown /\ QueriesCurrent' /\ FormShown'
    BY <1>1, <1>2, LeavePage
  <1>4. PageTypeOK'
    BY <1>1, <1>2, <1>3 DEF PageInv, PageTypeOK, sending
  <1>5. SubmittedWasOffered' /\ OneAwaited' /\ ReceiptKept' /\ KeysKept'
    BY <1>1, <1>2, <1>3, SendingKept DEF FormOf
  <1> QED BY <1>3, <1>4, <1>5 DEF PageInv

LEMMA ToDateTimePage ==
  ASSUME PageInv, ToDateTime \/ Retry
  PROVE  PageInv'
  <1>1. step # "DONE" /\ Mount(date) /\ UNCHANGED <<server, form, sending, edited>>
    BY DEF ToDateTime, Retry
  <1>2. UNCHANGED <<offered, due, booked, sel, date, time, deposit, paid>>
    BY <1>1 DEF server, form
  <1>3. /\ step' = "DATE_TIME" /\ slots' = Nothing /\ strip' = Nothing /\ shown' = shown
        /\ queries' \subseteq [kind : {"strip", "day"}, sel : Selections,
                               date : Dates \cup {0}, view : {Nothing} \cup View]
        /\ QueriesCurrent' /\ FormShown'
    BY <1>1, <1>2, MountPage
  <1>4. PageTypeOK'
    BY <1>1, <1>2, <1>3 DEF PageInv, PageTypeOK, sending
  <1>5. SubmittedWasOffered' /\ OneAwaited' /\ ReceiptKept' /\ KeysKept'
    BY <1>1, <1>2, <1>3, SendingKept DEF FormOf
  <1> QED BY <1>3, <1>4, <1>5 DEF PageInv

LEMMA AttachPage ==
  ASSUME PageInv, Attach
  PROVE  PageInv'
  <1>1. /\ step = "PAYMENT" /\ paid' = TRUE /\ edited' = TRUE
        /\ UNCHANGED <<server, step, sel, date, time, deposit, views, sending>>
    BY DEF Attach
  <1>2. UNCHANGED <<offered, due, booked, strip, slots, queries, shown>>
    BY <1>1 DEF server, views
  <1>3. PageTypeOK' /\ QueriesCurrent' /\ FormShown'
    BY <1>1, <1>2
    DEF PageInv, PageTypeOK, QueriesCurrent, FormShown, Shown, ShownDeposit, sending
  <1>4. SubmittedWasOffered' /\ OneAwaited' /\ ReceiptKept' /\ KeysKept'
    BY <1>1, <1>2, SendingKept
  <1> QED BY <1>3, <1>4 DEF PageInv

-----------------------------------------------------------------------------
(* Submitting.                                                             *)

\* What is sent is the form, under the key kept or a new one.
LEMMA SubmitPage ==
  ASSUME PageInv, Submit
  PROVE  PageInv'
  <1> DEFINE k == IF key = 0 THEN keys + 1 ELSE key
             new == [id |-> sent + 1, key |-> k, appointment |-> FormOf,
                     asked |-> deposit, proof |-> paid]
  <1>1. /\ awaited = 0 /\ date # 0 /\ time # 0
        /\ sent < MaxSubmits /\ sent' = sent + 1
        /\ awaited' = sent + 1 /\ answer' = Nothing /\ result' = Nothing
        /\ key' = k /\ keys' = IF k > keys THEN k ELSE keys
        /\ attempts' = attempts \cup {new}
        /\ edited' = FALSE
        /\ UNCHANGED <<server, step, form, views, toldOf>>
    BY DEF Submit, Send, SendAs, Submitting, FormOf
  <1>2. UNCHANGED <<offered, due, booked, sel, date, time, deposit, paid, strip, slots,
                    queries, shown>>
    BY <1>1 DEF server, form, views
  <1>3. /\ sent \in Nat /\ keys \in Nat /\ key \in Nat /\ MaxSubmits \in Nat
        /\ keys <= sent /\ key <= keys
    BY PageAssumption DEF PageInv, PageTypeOK
  <1>4. /\ k \in 1..(sent + 1) /\ sent + 1 \in 1..MaxSubmits
        /\ keys' \in k..(sent + 1) /\ keys <= keys' /\ (key # 0 => k = key)
    BY <1>1, <1>3
  <1>5. FormOf \in Appointments
    BY <1>1 DEF PageInv, PageTypeOK, FormOf, Appointment, Appointments
  <1>6. /\ new \in Submissions
        /\ new.id = sent + 1 /\ new.key = k /\ new.appointment = FormOf /\ new.asked = deposit
    BY <1>1, <1>3, <1>4, <1>5 DEF PageInv, PageTypeOK, Submissions, SubmissionKeys
  <1> HIDE DEF k, new
  <1>7. \A a \in attempts :
          a.id \in Nat /\ a.id <= sent /\ a.key \in Nat /\ a.key # 0 /\ a.key <= keys
    BY DEF PageInv, PageTypeOK, Submissions, SubmissionKeys
  <1>8. PageTypeOK'
    <2>1. /\ sent' \in 0..MaxSubmits /\ keys' \in 0..sent' /\ key' \in 0..keys'
          /\ awaited' \in {0, sent'}
      BY <1>1, <1>3, <1>4
    <2>2. attempts' \subseteq Submissions
      BY <1>1, <1>6 DEF PageInv, PageTypeOK
    <2>3. \A a \in attempts' : a.id <= sent' /\ a.key <= keys'
      <3> TAKE a \in attempts'
      <3>1. CASE a = new
        BY <1>1, <1>3, <1>4, <1>6, <3>1
      <3>2. CASE a \in attempts
        BY <1>1, <1>3, <1>4, <1>7, <3>2
      <3> QED BY <1>1, <3>1, <3>2
    <2> QED BY <1>1, <1>2, <2>1, <2>2, <2>3 DEF PageInv, PageTypeOK
  <1>9. QueriesCurrent' /\ FormShown'
    BY <1>1, <1>2 DEF PageInv, QueriesCurrent, FormShown, Shown, ShownDeposit
  <1>10. SubmittedWasOffered'
    <2>1. Shown(sel, date, time) /\ ShownDeposit(sel, deposit)
      BY <1>1 DEF PageInv, FormShown
    <2>2. new.appointment = Appointment(sel, date, time) /\ new.appointment.sel = sel
      BY <1>6 DEF FormOf, Appointment
    <2> QED BY <1>1, <1>2, <1>6, <2>1, <2>2
            DEF PageInv, SubmittedWasOffered, Shown, ShownDeposit
  <1>11. OneAwaited'
    <2>1. \A a, b \in attempts' : a.id = b.id => a = b
      BY <1>1, <1>3, <1>6, <1>7 DEF PageInv, OneAwaited
    <2> QED BY <1>1, <1>4, <2>1, PageAssumption DEF OneAwaited
  <1>12. ReceiptKept'
    <2>1. \A a \in attempts' : a.id = sent + 1 => a = new
      BY <1>1, <1>3, <1>7
    <2>2. UNCHANGED FormOf
      BY <1>2 DEF FormOf
    <2> QED BY <1>1, <1>6, <2>1, <2>2, PageAssumption DEF ReceiptKept
  <1>13. KeysKept'
    <2>1. key = 0 \/ key' = key
      BY <1>1, <1>4
    <2>2. \A a \in attempts' : a.key = key' \/ a.key \in toldOf'
      BY <1>1, <1>6, <1>7, <2>1 DEF PageInv, KeysKept
    <2>3. \A j \in SubmissionKeys : booked'[j] # Nothing => j = key' \/ j \in toldOf'
      <3>1. 0 \notin SubmissionKeys
        BY DEF SubmissionKeys
      <3> QED BY <1>1, <1>2, <2>1, <3>1 DEF PageInv, KeysKept
    <2> QED BY <1>1, <2>2, <2>3, PageAssumption DEF KeysKept
  <1> QED BY <1>8, <1>9, <1>10, <1>11, <1>12, <1>13 DEF PageInv

-----------------------------------------------------------------------------
(* Answers.                                                                *)

\* The server processes a submission, awaited or given up.
LEMMA ProcessPage ==
  ASSUME PageInv, NEW a \in attempts, Process(a)
  PROVE  PageInv'
  <1> DEFINE new == Outcome(a) = "created" /\ booked[a.key] = Nothing
  <1>1. /\ attempts' = attempts \ {a}
        /\ answer' = IF a.id = awaited THEN Outcome(a) ELSE answer
        /\ booked' = IF new THEN [booked EXCEPT ![a.key] = a] ELSE booked
        /\ offered' = IF new THEN {o \in offered : \/ o.date # a.appointment.date
                                                  \/ o.time # a.appointment.time}
                      ELSE offered
        /\ UNCHANGED <<due, changes, step, form, views, key, keys, awaited, result, sent,
                       toldOf, edited>>
    BY DEF Process
  <1>2. UNCHANGED <<sel, date, time, deposit, paid, strip, slots, queries, shown>>
    BY <1>1 DEF form, views
  <1>3. /\ a \in Submissions /\ a.key \in SubmissionKeys /\ a.id \in Nat /\ a.id # 0
        /\ a.id <= sent /\ sent \in Nat /\ awaited \in {0, sent}
        /\ booked \in [SubmissionKeys -> Submissions \cup {Nothing}]
    BY DEF PageInv, PageTypeOK, Submissions
  <1>4. /\ Outcome(a) \in {"created", "unavailable", "error"}
        /\ Outcome(a) = "created" =>
             new \/ (booked[a.key] # Nothing /\ booked[a.key].appointment = a.appointment)
        /\ Outcome(a) = "unavailable" => booked[a.key] = Nothing
    <2>1. CASE booked[a.key] = Nothing
      BY <2>1 DEF Outcome
    <2>2. CASE booked[a.key] # Nothing
      BY <2>2 DEF Outcome
    <2> QED BY <2>1, <2>2
  <1> HIDE DEF new
  <1>5. /\ \A k \in SubmissionKeys : k # a.key => booked'[k] = booked[k]
        /\ booked'[a.key] = IF new THEN a ELSE booked[a.key]
        /\ booked' \in [SubmissionKeys -> Submissions \cup {Nothing}]
        /\ new => booked[a.key] = Nothing /\ a # Nothing
    BY <1>1, <1>3, PageAssumption DEF new
  <1>6. PageTypeOK'
    <2>1. answer' \in {Nothing, "created", "unavailable", "error"}
      BY <1>1, <1>4 DEF PageInv, PageTypeOK
    <2>2. offered' \subseteq Appointments /\ attempts' \subseteq attempts
      BY <1>1 DEF PageInv, PageTypeOK
    <2> QED BY <1>1, <1>2, <1>5, <2>1, <2>2 DEF PageInv, PageTypeOK
  <1>7. QueriesCurrent' /\ FormShown' /\ SubmittedWasOffered'
    BY <1>1, <1>2
    DEF PageInv, QueriesCurrent, FormShown, Shown, ShownDeposit, SubmittedWasOffered
  <1>8. a.id = awaited => \A b \in attempts' : b.id # sent
    BY <1>1, <1>3 DEF PageInv, OneAwaited
  <1>9. OneAwaited'
    BY <1>1, <1>3, <1>8 DEF PageInv, OneAwaited
  <1>10. a.id = awaited => a.key = key /\ (~edited => a.appointment = FormOf)
    BY <1>3 DEF PageInv, ReceiptKept
  <1>11. key \in SubmissionKeys /\ Receipt => Receipt'
    <2>1. UNCHANGED FormOf
      BY <1>2 DEF FormOf
    <2> QED BY <1>1, <1>5, <2>1 DEF Receipt
  <1>12. key # 0 => key \in SubmissionKeys
    BY PageAssumption DEF PageInv, PageTypeOK, SubmissionKeys
  <1>13. a.id = awaited /\ Outcome(a) = "created" => Receipt'
    <2> SUFFICES ASSUME a.id = awaited, Outcome(a) = "created" PROVE Receipt'
      OBVIOUS
    <2>1. booked'[key] # Nothing /\ booked'[key].appointment = a.appointment
      BY <1>4, <1>5, <1>10
    <2>2. UNCHANGED <<FormOf, key, edited>>
      BY <1>1, <1>2 DEF FormOf
    <2> QED BY <1>10, <2>1, <2>2 DEF Receipt
  <1>14. ReceiptKept'
    <2>1. UNCHANGED FormOf
      BY <1>2 DEF FormOf
    <2>2. answer' = "created" => Receipt'
      <3>1. CASE a.id = awaited
        BY <1>1, <1>13, <3>1
      <3>2. CASE a.id # awaited /\ answer = "created"
        <4>1. key # 0 /\ Receipt
          BY <3>2, PageAssumption DEF PageInv, OneAwaited, ReceiptKept
        <4> QED BY <1>11, <1>12, <4>1
      <3> QED BY <1>1, <3>1, <3>2
    <2>3. result = "created" => Receipt'
      BY <1>11, <1>12 DEF PageInv, ReceiptKept
    <2> QED BY <1>1, <2>1, <2>2, <2>3 DEF PageInv, ReceiptKept
  <1>15. a.key = key \/ a.key \in toldOf
    BY DEF PageInv, KeysKept
  <1>16. "unavailable" \in {answer', result'} =>
           key # 0 /\ (booked'[key] # Nothing => booked'[key].id < sent)
    <2>1. CASE a.id = awaited /\ Outcome(a) = "unavailable"
      <3>1. a.key = key /\ booked[key] = Nothing /\ ~new /\ key # 0
        BY <1>3, <1>4, <1>10, <2>1 DEF new, SubmissionKeys
      <3> QED BY <1>5, <3>1
    <2>2. CASE "unavailable" \in {answer, result}
      <3>1. key # 0 /\ (booked[key] # Nothing => booked[key].id < sent)
        BY <2>2 DEF PageInv, KeysKept
      <3>2. a.id # sent
        BY <2>2, PageAssumption DEF PageInv, OneAwaited
      <3> QED BY <1>3, <1>5, <1>12, <3>1, <3>2
    <2>3. CASE ~(a.id = awaited /\ Outcome(a) = "unavailable")
                 /\ "unavailable" \notin {answer, result}
      BY <1>1, <2>3
    <2> QED BY <2>1, <2>2, <2>3
  <1>17. KeysKept'
    BY <1>1, <1>5, <1>15, <1>16 DEF PageInv, KeysKept
  <1> QED BY <1>6, <1>7, <1>9, <1>14, <1>17 DEF PageInv

\* The page shows an answer, or that none came.
LEMMA ShowPage ==
  ASSUME PageInv, NEW r, Show(r), r = "error" \/ (r = answer /\ answer # Nothing)
  PROVE  PageInv'
  <1>1. /\ awaited # 0 /\ result' = r /\ awaited' = 0 /\ answer' = Nothing
        /\ toldOf' = IF r = "created" THEN toldOf \cup {key} ELSE toldOf
        /\ Leave("DONE")
        /\ UNCHANGED <<server, form, key, keys, sent, attempts, edited>>
    BY DEF Show, Submitting
  <1>2. UNCHANGED <<offered, due, booked, sel, date, time, deposit, paid>>
    BY <1>1 DEF server, form
  <1>3. /\ step' = "DONE" /\ queries' = {} /\ slots' = Nothing /\ strip' = Nothing
        /\ shown' = shown /\ QueriesCurrent' /\ FormShown'
    BY <1>1, <1>2, LeavePage
  <1>4. PageTypeOK'
    BY <1>1, <1>2, <1>3 DEF PageInv, PageTypeOK
  <1>5. SubmittedWasOffered'
    BY <1>1, <1>3 DEF PageInv, SubmittedWasOffered
  <1>6. OneAwaited'
    BY <1>1 DEF PageInv, OneAwaited
  <1>7. ReceiptKept'
    <2>1. r = "created" => key # 0 /\ Receipt
      BY <1>1, PageAssumption DEF PageInv, OneAwaited, ReceiptKept
    <2>2. Receipt => Receipt'
      BY <1>1, <1>2 DEF Receipt, FormOf
    <2> QED BY <1>1, <1>3, <2>1, <2>2, PageAssumption DEF ReceiptKept
  <1>8. KeysKept'
    BY <1>1, <1>2, PageAssumption DEF PageInv, KeysKept
  <1> QED BY <1>3, <1>4, <1>5, <1>6, <1>7, <1>8 DEF PageInv

\* After "unavailable" nothing is awaited, so the form's time may be cleared.
LEMMA AnotherTryPage ==
  ASSUME PageInv, ChooseAnotherTime \/ ChangeServices
  PROVE  PageInv'
  <1>1. /\ result = "unavailable" /\ awaited = 0 /\ answer = Nothing
        /\ time' \in {0, time}
        /\ UNCHANGED <<server, sel, date, deposit, paid, sending, edited>>
        /\ Mount(date) \/ Leave("SERVICES")
    BY PageAssumption DEF PageInv, OneAwaited, ChooseAnotherTime, ChangeServices, form
  <1>2. UNCHANGED <<offered, due, booked>>
    BY <1>1 DEF server
  <1>3. /\ strip' = Nothing /\ slots' = Nothing /\ shown' = shown
        /\ queries' \subseteq [kind : {"strip", "day"}, sel : Selections,
                               date : Dates \cup {0}, view : {Nothing} \cup View]
        /\ QueriesCurrent' /\ FormShown'
    BY <1>1, LeavePage, MountPage
  <1>4. UNCHANGED <<key, keys, awaited, result, sent, attempts, answer, toldOf>>
    BY <1>1 DEF sending
  <1>5. PageTypeOK'
    BY <1>1, <1>2, <1>3, <1>4 DEF PageInv, PageTypeOK
  <1>6. SubmittedWasOffered' /\ OneAwaited' /\ KeysKept'
    BY <1>2, <1>3, <1>4 DEF PageInv, SubmittedWasOffered, OneAwaited, KeysKept
  <1>7. ReceiptKept'
    BY <1>1, <1>4, PageAssumption DEF ReceiptKept
  <1> QED BY <1>3, <1>5, <1>6, <1>7 DEF PageInv

\* The key that is dropped has led to a booking the customer has seen.
LEMMA RestartPage ==
  ASSUME PageInv, Restart
  PROVE  PageInv'
  <1>1. /\ result = "created" /\ sel' \in Selections
        /\ key' = 0 /\ result' = Nothing
        /\ date' = 0 /\ time' = 0 /\ deposit' = FALSE /\ paid' = FALSE
        /\ Leave("SERVICES")
        /\ UNCHANGED <<server, keys, awaited, sent, attempts, answer, toldOf, edited>>
    BY DEF Restart
  <1>2. UNCHANGED <<offered, due, booked>>
    BY <1>1 DEF server
  <1>3. /\ step' = "SERVICES" /\ queries' = {} /\ slots' = Nothing /\ strip' = Nothing
        /\ shown' = shown
    BY <1>1 DEF Leave, Cancelled
  <1>4. awaited = 0 /\ answer = Nothing /\ key \in toldOf
    BY <1>1, PageAssumption DEF PageInv, OneAwaited, ReceiptKept
  <1>5. PageTypeOK'
    <2>1. key' \in 0..keys'
      BY <1>1, PageAssumption DEF PageInv, PageTypeOK
    <2>2. deposit' \in BOOLEAN /\ paid' \in BOOLEAN /\ edited' \in BOOLEAN
      BY <1>1 DEF PageInv, PageTypeOK
    <2>3. {answer', result'} \subseteq {Nothing, "created", "unavailable", "error"}
      BY <1>1 DEF PageInv, PageTypeOK
    <2> QED BY <1>1, <1>2, <1>3, <2>1, <2>2, <2>3 DEF PageInv, PageTypeOK
  <1>6. QueriesCurrent' /\ FormShown'
    BY <1>1, <1>3 DEF QueriesCurrent, FormShown
  <1>7. SubmittedWasOffered'
    BY <1>1, <1>3 DEF PageInv, SubmittedWasOffered
  <1>8. OneAwaited' /\ ReceiptKept'
    BY <1>1, <1>4, PageAssumption DEF PageInv, OneAwaited, ReceiptKept
  <1>9. KeysKept'
    BY <1>1, <1>2, <1>4, PageAssumption DEF PageInv, KeysKept
  <1> QED BY <1>5, <1>6, <1>7, <1>8, <1>9 DEF PageInv

\* What the server offers may change under the page's feet.
LEMMA ChangeOffersPage ==
  ASSUME PageInv, ChangeOffers
  PROVE  PageInv'
  <1>1. /\ offered' \subseteq Appointments /\ due' \subseteq Selections
        /\ UNCHANGED <<booked, step, form, views, sending, edited>>
    BY DEF ChangeOffers, PageInv, PageTypeOK
  <1>2. UNCHANGED <<sel, date, time, deposit, paid, strip, slots, queries, shown>>
    BY <1>1 DEF form, views
  <1>3. PageTypeOK' /\ QueriesCurrent' /\ FormShown'
    BY <1>1, <1>2
    DEF PageInv, PageTypeOK, QueriesCurrent, FormShown, Shown, ShownDeposit, sending
  <1>4. SubmittedWasOffered' /\ OneAwaited' /\ ReceiptKept' /\ KeysKept'
    BY <1>1, <1>2, SendingKept DEF FormOf
  <1> QED BY <1>3, <1>4 DEF PageInv

-----------------------------------------------------------------------------
LEMMA PageInitInv == PageInit => PageInv
  <1> SUFFICES ASSUME PageInit PROVE PageInv
    OBVIOUS
  <1>1. PageTypeOK
    <2>1. /\ sent \in 0..MaxSubmits /\ keys \in 0..sent /\ key \in 0..keys
          /\ awaited \in {0, sent}
      BY PageAssumption DEF PageInit
    <2>2. booked \in [SubmissionKeys -> Submissions \cup {Nothing}]
      BY DEF PageInit
    <2> QED BY <2>1, <2>2 DEF PageInit, PageTypeOK
  <1>2. QueriesCurrent /\ FormShown /\ SubmittedWasOffered /\ OneAwaited
    BY PageAssumption DEF PageInit, QueriesCurrent, FormShown, SubmittedWasOffered, OneAwaited
  <1>3. ReceiptKept /\ KeysKept
    BY PageAssumption DEF PageInit, ReceiptKept, KeysKept
  <1> QED BY <1>1, <1>2, <1>3 DEF PageInv

\* Every step of the customer, of answers and of the server preserves the invariant.
LEMMA PageStepInv == PageInv /\ [PageNext]_pageVars => PageInv'
  <1> SUFFICES ASSUME PageInv, [PageNext]_pageVars PROVE PageInv'
    OBVIOUS
  <1>1. CASE UNCHANGED pageVars
    BY <1>1
    DEF pageVars, server, form, views, sending, PageInv, PageTypeOK, QueriesCurrent,
        FormShown, Shown, ShownDeposit, SubmittedWasOffered, OneAwaited, ReceiptKept,
        Receipt, FormOf, KeysKept
  <1>2. ASSUME NEW q \in queries, AnswerQuery(q) \/ ReceiveDay(q) \/ ReceiveStrip(q) \/ FailQuery(q)
        PROVE  PageInv'
    BY <1>2, AnswerQueryPage, ReceiveDayPage, ReceiveStripPage, FailQueryPage
  <1>3. ASSUME \/ \E s \in Selections : Select(s)
               \/ \E d \in Dates : SelectDate(d)
               \/ \E t \in Times : SelectTime(t)
        PROVE  PageInv'
    BY <1>3, SelectPage, SelectDatePage, SelectTimePage
  <1>4. CASE Continue \/ Attach \/ TurnPages \/ ToDateTime \/ Retry
    BY <1>4, TurnPage, AttachPage, ToDateTimePage
  <1>5. CASE Submit
    BY <1>5, SubmitPage
  <1>6. CASE Receive \/ Fail
    BY <1>6, ShowPage DEF Receive, Fail
  <1>7. ASSUME NEW a \in attempts, Process(a) PROVE PageInv'
    BY <1>7, ProcessPage
  <1>8. CASE ChooseAnotherTime \/ ChangeServices \/ Restart \/ ChangeOffers
    BY <1>8, AnotherTryPage, RestartPage, ChangeOffersPage
  <1> QED BY <1>1, <1>2, <1>3, <1>4, <1>5, <1>6, <1>7, <1>8 DEF PageNext

LEMMA PageInvariance == PageSpec => []PageInv
  BY PageInitInv, PageStepInv, PTL DEF PageSpec

\* What the wizard submits the server has offered for that selection and date, and
\* asked that deposit for, for any number of selections, dates, times and tries.
THEOREM SubmitsOffers == PageSpec => []SubmittedWasOffered
  BY PageInvariance, PTL DEF PageInv

\* The receipt shows the booking made, whatever answers were late or given up.
THEOREM ReceiptsTrue == PageSpec => []ReceiptTrue
  <1>1. PageInv => ReceiptTrue
    BY DEF PageInv, ReceiptKept, Receipt, ReceiptTrue, FormOf
  <1> QED BY <1>1, PageInvariance, PTL

\* Every booking made is one the customer was told of or will find by its key.
THEOREM NothingForgotten == PageSpec => []NoBookingForgotten
  <1>1. PageInv => NoBookingForgotten
    BY DEF PageInv, KeysKept, NoBookingForgotten
  <1> QED BY <1>1, PageInvariance, PTL

-----------------------------------------------------------------------------
(* Refinement: the page and its server keep the promise of a submission.   *)

\* Whatever the customer is told of was booked.
ToldBooked == \A k \in toldOf : k \in SubmissionKeys /\ booked[k] # Nothing

\* A submission that is processed makes the booking of its key, if it has none.
LEMMA ProcessMakes ==
  ASSUME PageInv, ToldBooked, NEW a \in attempts, Process(a)
  PROVE  ToldBooked' /\ [Promise!Next]_<<MadeByKey, Receipts>>
  <1>1. /\ a \in Submissions /\ a.key \in SubmissionKeys /\ a.id \in 1..MaxSubmits
        /\ a.appointment \in Appointments /\ a # Nothing
        /\ booked \in [SubmissionKeys -> Submissions \cup {Nothing}]
    BY PageAssumption DEF PageInv, PageTypeOK, Submissions
  <1>2. toldOf' = toldOf
    BY DEF Process
  <1>3. CASE booked' = booked
    BY <1>2, <1>3 DEF ToldBooked, MadeByKey, Receipts, EntryOf
  <1>4. CASE booked[a.key] = Nothing /\ booked' = [booked EXCEPT ![a.key] = a]
    <2>1. /\ booked'[a.key] = a
          /\ \A k \in SubmissionKeys : k # a.key => booked'[k] = booked[k]
      BY <1>1, <1>4
    <2>2. a.key \notin toldOf
      BY <1>4 DEF ToldBooked
    <2>3. \A k \in toldOf : booked'[k] = booked[k]
      BY <2>1, <2>2 DEF ToldBooked
    <2>4. ToldBooked' /\ Receipts' = Receipts
      BY <1>2, <2>3 DEF ToldBooked, Receipts, EntryOf
    <2>5. MadeByKey' = MadeByKey \cup {Promise!Entry(a.key, a.appointment, a.id)}
      <3>1. {l \in SubmissionKeys : booked'[l] # Nothing} =
              {l \in SubmissionKeys : booked[l] # Nothing} \cup {a.key}
        BY <1>1, <2>1
      <3>2. EntryOf(a.key)' = Promise!Entry(a.key, a.appointment, a.id)
        BY <2>1 DEF EntryOf, Promise!Entry
      <3>3. \A k \in SubmissionKeys : booked[k] # Nothing => EntryOf(k)' = EntryOf(k)
        BY <1>4, <2>1 DEF EntryOf
      <3> QED BY <3>1, <3>2, <3>3 DEF MadeByKey
    <2>6. \A e \in MadeByKey : e.key # a.key
      BY <1>4 DEF MadeByKey, EntryOf
    <2>7. Promise!Make(a.key, a.appointment, a.id)
      BY <2>4, <2>5, <2>6 DEF Promise!Make
    <2> QED BY <1>1, <2>4, <2>7 DEF Promise!Next
  <1> QED BY <1>3, <1>4 DEF Process

\* The page that shows a success confirms the booking of its key.
LEMMA ShowConfirms ==
  ASSUME PageInv, ToldBooked, NEW r, Show(r), r = "error" \/ (r = answer /\ answer # Nothing)
  PROVE  ToldBooked' /\ [Promise!Next]_<<MadeByKey, Receipts>>
  <1>1. /\ awaited # 0 /\ booked' = booked
        /\ toldOf' = IF r = "created" THEN toldOf \cup {key} ELSE toldOf
    BY DEF Show, Submitting, server
  <1>2. MadeByKey' = MadeByKey
    BY <1>1 DEF MadeByKey, EntryOf
  <1>3. CASE r = "created"
    <2>1. key \in SubmissionKeys /\ booked[key] # Nothing
      BY <1>1, <1>3, PageAssumption
      DEF PageInv, PageTypeOK, OneAwaited, ReceiptKept, Receipt, SubmissionKeys
    <2>2. booked[key].appointment \in Appointments /\ booked[key].id \in 1..MaxSubmits
      BY <2>1 DEF PageInv, PageTypeOK, Submissions
    <2>3. EntryOf(key) = Promise!Entry(key, booked[key].appointment, booked[key].id)
      BY DEF EntryOf, Promise!Entry
    <2>4. EntryOf(key) \in MadeByKey
      BY <2>1 DEF MadeByKey
    <2>5. Receipts' = Receipts \cup {EntryOf(key)} /\ ToldBooked'
      BY <1>1, <1>3, <2>1 DEF Receipts, EntryOf, ToldBooked
    <2>6. Promise!Confirm(key, booked[key].appointment, booked[key].id)
      BY <1>2, <2>3, <2>4, <2>5 DEF Promise!Confirm
    <2> QED BY <2>1, <2>2, <2>5, <2>6 DEF Promise!Next
  <1>4. CASE r # "created"
    BY <1>1, <1>2, <1>4 DEF ToldBooked, Receipts, EntryOf
  <1> QED BY <1>3, <1>4

\* Of all steps only these two matter to the promise.
LEMMA PromiseStep ==
  PageInv /\ ToldBooked /\ [PageNext]_pageVars =>
    ToldBooked' /\ [Promise!Next]_<<MadeByKey, Receipts>>
  <1> SUFFICES ASSUME PageInv, ToldBooked, [PageNext]_pageVars
               PROVE  ToldBooked' /\ [Promise!Next]_<<MadeByKey, Receipts>>
    OBVIOUS
  <1>1. ASSUME UNCHANGED <<booked, toldOf>>
        PROVE  ToldBooked' /\ [Promise!Next]_<<MadeByKey, Receipts>>
    BY <1>1 DEF ToldBooked, MadeByKey, Receipts, EntryOf
  <1>2. ASSUME NEW q \in queries, AnswerQuery(q) \/ ReceiveDay(q) \/ ReceiveStrip(q) \/ FailQuery(q)
        PROVE  UNCHANGED <<booked, toldOf>>
    BY <1>2 DEF AnswerQuery, ReceiveDay, ReceiveStrip, FailQuery, server, sending
  <1>3. ASSUME \/ \E s \in Selections : Select(s)
               \/ \E d \in Dates : SelectDate(d)
               \/ \E t \in Times : SelectTime(t)
        PROVE  UNCHANGED <<booked, toldOf>>
    BY <1>3 DEF Select, SelectDate, SelectTime, server, sending
  <1>4. CASE Continue \/ Attach \/ TurnPages \/ ToDateTime \/ Retry
    BY <1>1, <1>4 DEF Continue, Attach, TurnPages, Turn, ToDateTime, Retry, server, sending
  <1>5. CASE Submit
    BY <1>1, <1>5 DEF Submit, Send, SendAs, server
  <1>6. CASE Receive \/ Fail
    BY <1>6, ShowConfirms DEF Receive, Fail
  <1>7. CASE ChooseAnotherTime \/ ChangeServices \/ Restart \/ ChangeOffers
    BY <1>1, <1>7 DEF ChooseAnotherTime, ChangeServices, Restart, ChangeOffers, server, sending
  <1>8. CASE UNCHANGED pageVars
    BY <1>1, <1>8 DEF pageVars, server, sending
  <1> QED BY <1>1, <1>2, <1>3, <1>4, <1>5, <1>6, <1>7, <1>8, ProcessMakes DEF PageNext

\* The page tells its customer of bookings that were made, one for each key and for
\* good: with it createBooking (KeepsLedger) is used to the end it promises.
THEOREM PageKeepsPromise == PageSpec => KeepsPromise
  <1>1. PageInit => Promise!Init /\ ToldBooked
    BY DEF PageInit, Promise!Init, ToldBooked, MadeByKey, Receipts
  <1> QED
    BY <1>1, PromiseStep, PageInvariance, PTL
    DEF PageSpec, KeepsPromise, Promise!Spec, Promise!ledger
=============================================================================
