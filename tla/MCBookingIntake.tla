-------------------------- MODULE MCBookingIntake --------------------------
(* A small instance of BookingIntake: three requests, two businesses, two  *)
(* keys, and two windows with different starts that overlap.               *)
EXTENDS BookingIntake, TLC

CONSTANTS r1, r2, r3, salon, barber, k1, k2, early, late

MCRequests == {r1, r2, r3}
MCBusinesses == {salon, barber}
MCKeys == {k1, k2}
MCWindows == {early, late}
MCClashes == MCWindows \X MCWindows

MCSymmetry ==
  Permutations(MCRequests) \cup Permutations(MCBusinesses)
    \cup Permutations(MCKeys) \cup Permutations(MCWindows)
=============================================================================
