---------------------------- MODULE SlotCalendar ----------------------------
(***************************************************************************)
(* What a business's appointment calendar promises its customers: a set of *)
(* windows held by bookings, no two of which overlap.  A window can be      *)
(* claimed when nothing held overlaps it, given up, or moved to a window   *)
(* that nothing held overlaps (the mover's own window included).  How the   *)
(* backend decides to do so - statuses, payments, requests in flight - is   *)
(* left to module Booking, which implements this specification.             *)
(***************************************************************************)
EXTENDS Integers

CONSTANTS Bookings,  \* whoever may hold a window
          Times      \* the instants a window may start or end at

VARIABLE held     \* the held windows, as [booking, start, end] records

Meets(w, start, end) == w.start < end /\ start < w.end

Free(start, end) == \A w \in held : ~Meets(w, start, end)

Window(b, start, end) == [booking |-> b, start |-> start, end |-> end]

Init == held = {}

\* A booking that holds nothing takes a free window.
Claim(b, start, end) ==
  /\ start < end
  /\ Free(start, end)
  /\ \A w \in held : w.booking # b
  /\ held' = held \cup {Window(b, start, end)}

\* A booking gives up whatever it holds.
GiveUp(b) == held' = {w \in held : w.booking # b}

\* A booking exchanges its window for a free one.
Move(b, start, end) ==
  /\ start < end
  /\ Free(start, end)
  /\ held' = {w \in held : w.booking # b} \cup {Window(b, start, end)}

Next ==
  \E b \in Bookings :
    \/ GiveUp(b)
    \/ \E start, end \in Times : Claim(b, start, end) \/ Move(b, start, end)

Spec == Init /\ [][Next]_held
=============================================================================
