--------------------------- MODULE MCResubmission ---------------------------
(* A small instance of Resubmission: two requests, two keys.               *)
EXTENDS Resubmission, TLC

CONSTANTS r1, r2, k1, k2

MCRequests == {r1, r2}
MCKeys == {k1, k2}

MCSymmetry == Permutations(MCRequests) \cup Permutations(MCKeys)
=============================================================================
