----------------------------- MODULE MCBooking -----------------------------
(* Small instances of Booking for TLC.                                     *)
EXTENDS Booking, TLC

CONSTANTS b1, b2, r1, r2

MCBookings == {b1, b2}
MCRequests == {r1, r2}
MCStarts == {0, 1}
MCDurations == {1, 2}

\* Bookings and requests are interchangeable.
MCSymmetry == Permutations(MCBookings) \cup Permutations(MCRequests)
=============================================================================
