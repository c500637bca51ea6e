-------------------------- MODULE SubmissionLedger --------------------------
(***************************************************************************)
(* What the submission of a booking promises a client who sends it with a  *)
(* key of his own: the key makes one booking at most, for good, and whoever *)
(* is told of success is told of that booking, and has asked for exactly    *)
(* what was booked.  How it comes about - retries, locks, files, crashes -  *)
(* is left to module BookingIntake; module BookingPage is the client.      *)
(***************************************************************************)
CONSTANTS Keys,          \* submission keys
          Appointments,  \* what one can ask for
          Names          \* what bookings are told apart by

VARIABLES
  made,       \* the bookings made, each with the key it was made under
  confirmed   \* what clients have been told of, likewise

ledger == <<made, confirmed>>

Entry(k, a, n) == [key |-> k, appointment |-> a, name |-> n]

Init == made = {} /\ confirmed = {}

\* A key that has made no booking makes one.
Make(k, a, n) ==
  /\ \A e \in made : e.key # k
  /\ made' = made \cup {Entry(k, a, n)}
  /\ UNCHANGED confirmed

\* A client is told of what its key has made.
Confirm(k, a, n) ==
  /\ Entry(k, a, n) \in made
  /\ confirmed' = confirmed \cup {Entry(k, a, n)}
  /\ UNCHANGED made

Next ==
  \E k \in Keys, a \in Appointments, n \in Names : Make(k, a, n) \/ Confirm(k, a, n)

Spec == Init /\ [][Next]_ledger
=============================================================================
