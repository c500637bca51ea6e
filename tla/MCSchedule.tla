----------------------------- MODULE MCSchedule -----------------------------
(* Two days of four units, weekdays 1 and 2, and the templates that bring out  *)
(* windows that adjoin, blocks that overlap or last all day, and special dates. *)
EXTENDS Schedule, TLC

CONSTANTS b1, b2

MCBookings == {b1, b2}
MCSymmetry == Permutations(MCBookings)

On(day, from, to) == [day |-> day, from |-> from, to |-> to]
Closed(date) == [date |-> date, kind |-> "CLOSED", from |-> 0, to |-> 0]
Custom(date, from, to) == [date |-> date, kind |-> "CUSTOM", from |-> from, to |-> to]
Template(working, blocked, special) ==
  [working |-> working, blocked |-> blocked, special |-> special]

AllDay == {On(1, 0, 4), On(2, 0, 4)}

MCTemplates ==
  { Template({On(1, 0, 2), On(1, 2, 4)}, {On(2, 0, 4)}, <<>>),
    Template(AllDay, {On(0, 1, 2), On(1, 0, 2)}, <<>>),
    Template(AllDay, {}, <<Closed(1)>>),
    Template({On(1, 0, 4), On(2, 0, 2)}, {On(0, 3, 4)}, <<Custom(0, 1, 4)>>) }

MCOffsets == {0, 1}
MCLengths == {1, 2}
=============================================================================
