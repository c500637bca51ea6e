---------------------------- MODULE MCReminders ----------------------------
(* One booking, whose start may be moved within the reach of both reminders: *)
(* an hour of two units, a "day" of five.                                  *)
EXTENDS Reminders

CONSTANTS b1, r1

MCBookings == {b1}
MCRequests == {r1}
MCStarts == {6, 8}
MCDurations == {1}
=============================================================================
