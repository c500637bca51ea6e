----------------------------- MODULE MCTelegram -----------------------------
(* A small instance of Telegram: four updates, two chats, a booking, and   *)
(* two codes, so that the owner can move from one chat to the other.       *)
EXTENDS Telegram, TLC

CONSTANTS u1, u2, u3, u4, c1, c2, b1, code1, code2

MCUpdates == {u1, u2, u3, u4}
MCChats == {c1, c2}
MCBookings == {b1}
MCCodes == {code1, code2}

MCSymmetry ==
  Permutations(MCUpdates) \cup Permutations(MCChats) \cup Permutations(MCCodes)
=============================================================================
