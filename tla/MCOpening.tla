----------------------------- MODULE MCOpening -----------------------------
(* A small instance of Opening: two requests at a time, three versions.    *)
EXTENDS Opening

CONSTANTS r1, r2

MCRequests == {r1, r2}
=============================================================================
