--------------------------- MODULE MCBookingPage ---------------------------
(* Two selections, two dates of one time each.                            *)
EXTENDS BookingPage, TLC

CONSTANTS s1, s2, d1, d2

MCSelections == {s1, s2}
MCDates == {d1, d2}
MCSymmetry == Permutations(MCSelections) \cup Permutations(MCDates)
=============================================================================
