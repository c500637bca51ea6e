----------------------------- MODULE MCDelivery -----------------------------
(* A small instance of Delivery for TLC: a reminder told to one customer.  *)
EXTENDS Delivery

CONSTANTS reminder, customer, s1, s2

MCReminder == {reminder}
MCCustomer == {customer}
MCReminderTo == [o \in MCReminder |-> customer]
MCReminderKey == [o \in MCReminder |-> "reminder"]
MCReminderKeys == {"reminder"}

MCNone == {}
MCSweeps == {s1, s2}
=============================================================================
