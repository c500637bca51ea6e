----------------------------- MODULE MCAccounts -----------------------------
(* A small instance of Accounts: a super admin and somebody else.          *)
EXTENDS Accounts, TLC

CONSTANTS r1, r2, boss, other

MCRequests == {r1, r2}
MCUsers == {boss, other}
MCFounders == {boss}

MCSymmetry == Permutations(MCRequests)
=============================================================================
