--------------------------- MODULE MCSubscription ---------------------------
(* A small instance of Subscription: two proofs, two requests, bands of    *)
(* one or two time units.                                                  *)
EXTENDS Subscription, TLC

CONSTANTS r1, r2, p1, p2

MCRequests == {r1, r2}
MCProofs == {p1, p2}

MCSymmetry == Permutations(MCRequests) \cup Permutations(MCProofs)
=============================================================================
