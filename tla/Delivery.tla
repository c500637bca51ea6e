------------------------------ MODULE Delivery ------------------------------
(***************************************************************************)
(* The notification outbox and its delivery sweeps                         *)
(* (notification-outbox-event-bus.ts, notification-delivery.service.ts).   *)
(*                                                                         *)
(* A request that has committed publishes what happened; that write may be *)
(* lost (the process dies, the error is swallowed) but is never made twice *)
(* under one idempotency key.  Sweeps are started by a timer that does not *)
(* wait for the previous one, so several run at once, each with a list of  *)
(* rows, and a copy of their attempt counters, read at its beginning.      *)
(* Only the claim of a row is guarded; what follows a claim is written by  *)
(* row id alone.                                                           *)
(*                                                                         *)
(* Time is kept as two facts about a row: its next attempt is due; it has  *)
(* been SENDING for longer than STALE_SENDING_MS.  Lists are taken whole   *)
(* (CLAIM_BATCH is above the rows of any instance).  Email rows are always *)
(* SUPPRESSED when written, as only the disabled provider is ever wired,   *)
(* so a row here is a Telegram delivery.                                   *)
(***************************************************************************)
EXTENDS Naturals, FiniteSets

CONSTANTS Occasions,    \* what happens and is to be told
          Reminders,    \* the occasions every sweep finds again while they are due
          Recipients,   \* whom it is told
          Owners,       \* the recipients that are owner connections
          Keys,         \* idempotency keys
          RecipientOf,  \* [Occasions -> Recipients]
          KeyOf,        \* [Occasions -> Keys]
          Sweeps,       \* delivery sweeps running at the same time
          MaxAttempts   \* TELEGRAM_DELIVERY_MAX_ATTEMPTS

ASSUME OccasionAssumption ==
  /\ Reminders \subseteq Occasions
  /\ Owners \subseteq Recipients
  /\ RecipientOf \in [Occasions -> Recipients]
  /\ KeyOf \in [Occasions -> Keys]

ASSUME SweepAssumption == IsFiniteSet(Sweeps) /\ MaxAttempts \in Nat \ {0}

VARIABLES
  connected,   \* recipients with a CONNECTED telegram_connection
  happened,    \* occasions that have taken place
  publishing,  \* publications between their commit and their outbox write
  row,         \* notification_delivery, by idempotency key
  phase,       \* what each sweep is doing
  stale,       \* rows each sweep has read as stuck, with their attempts
  todo,        \* rows each sweep has listed as due, with their attempts
  hand,        \* the claimed row each sweep is delivering, if any
  sent,        \* history: messages the provider has accepted, per key
  excused      \* history: rows given back without a recorded answer, per key

outbox == <<connected, happened, publishing>>
sweeping == <<phase, stale, todo, hand>>
vars == <<outbox, row, sweeping, sent, excused>>

Settled == {"SENT", "SUPPRESSED", "DEAD_LETTERED"}
Rows ==
  [state : Settled \cup {"ABSENT", "PENDING", "SENDING"}, about : SUBSET Occasions,
   attempts : 0..MaxAttempts, due : BOOLEAN, old : BOOLEAN]
Listed == [key : Keys, attempts : 0..(MaxAttempts - 1)]
Claims == [key : Keys, attempts : 0..(MaxAttempts - 1),
           stage : {"claimed", "accepted", "failed", "suppress"}]

Publications == [about : Occasions, state : {"PENDING", "SUPPRESSED"}]

Row(state, about, attempts, due) ==
  [state |-> state, about |-> about, attempts |-> attempts, due |-> due, old |-> FALSE]

Init ==
  /\ connected = {}
  /\ happened = {}
  /\ publishing = {}
  /\ row = [k \in Keys |-> Row("ABSENT", {}, 0, FALSE)]
  /\ phase = [w \in Sweeps |-> "idle"]
  /\ stale = [w \in Sweeps |-> {}]
  /\ todo = [w \in Sweeps |-> {}]
  /\ hand = [w \in Sweeps |-> {}]
  /\ sent = [k \in Keys |-> 0]
  /\ excused = [k \in Keys |-> 0]

-----------------------------------------------------------------------------
(* The outbox.                                                             *)

Connect(r) ==
  /\ r \notin connected
  /\ connected' = connected \cup {r}
  /\ UNCHANGED <<happened, publishing, row, sweeping, sent, excused>>

\* Nothing in the code revokes a connection; the schema and the sweep provide
\* for it.
Revoke(r) ==
  /\ r \in connected
  /\ connected' = connected \ {r}
  /\ UNCHANGED <<happened, publishing, row, sweeping, sent, excused>>

\* An occasion has committed and its publication has read the connection.  An
\* owner without one gets no row at all, a customer a SUPPRESSED one.
Publish(o) ==
  /\ o \in happened => o \in Reminders
  /\ happened' = happened \cup {o}
  /\ publishing' = publishing \cup
       IF RecipientOf[o] \in connected THEN {[about |-> o, state |-> "PENDING"]}
       ELSE IF RecipientOf[o] \in Owners THEN {}
       ELSE {[about |-> o, state |-> "SUPPRESSED"]}
  /\ UNCHANGED <<connected, row, sweeping, sent, excused>>

OverwriteDelivery(p) ==   \* mutant: an upsert instead of an insert
  /\ row' = [row EXCEPT ![KeyOf[p.about]] = Row(p.state, {p.about}, 0, TRUE)]
  /\ publishing' = publishing \ {p}
  /\ UNCHANGED <<connected, happened, sweeping, sent, excused>>

\* createDelivery: the unique key makes the second insert a P2002, skipped.
CreateDelivery(p) ==
  /\ row' = IF row[KeyOf[p.about]].state = "ABSENT"
            THEN [row EXCEPT ![KeyOf[p.about]] = Row(p.state, {p.about}, 0, TRUE)]
            ELSE row
  /\ publishing' = publishing \ {p}
  /\ UNCHANGED <<connected, happened, sweeping, sent, excused>>

\* The process dies after the commit, or the write fails and is swallowed.
LosePublication(p) ==
  /\ publishing' = publishing \ {p}
  /\ UNCHANGED <<connected, happened, row, sweeping, sent, excused>>

-----------------------------------------------------------------------------
(* What time does to a row.                                                *)

BackoffElapses(k) ==
  /\ row[k].state = "PENDING" /\ ~row[k].due
  /\ row' = [row EXCEPT ![k].due = TRUE]
  /\ UNCHANGED <<outbox, sweeping, sent, excused>>

SendingGrowsOld(k) ==
  /\ row[k].state = "SENDING" /\ ~row[k].old
  /\ row' = [row EXCEPT ![k].old = TRUE]
  /\ UNCHANGED <<outbox, sweeping, sent, excused>>

-----------------------------------------------------------------------------
(* One sweep.                                                              *)

\* What a row becomes after `attempts` attempts.  An update by id: whatever
\* state the row is in by now is overwritten.
RetryOrBury(k, attempts, wait) ==
  [row EXCEPT ![k] = IF attempts >= MaxAttempts
                     THEN Row("DEAD_LETTERED", @.about, attempts, FALSE)
                     ELSE Row("PENDING", @.about, attempts, ~wait)]

StartWithoutReclaim(w) ==   \* mutant: stuck rows are not looked for
  /\ phase[w] = "idle"
  /\ phase' = [phase EXCEPT ![w] = "reclaim"]
  /\ UNCHANGED <<outbox, row, stale, todo, hand, sent, excused>>

\* reclaimStale's query.
StartSweep(w) ==
  /\ phase[w] = "idle"
  /\ phase' = [phase EXCEPT ![w] = "reclaim"]
  /\ stale' = [stale EXCEPT ![w] =
       {[key |-> k, attempts |-> row[k].attempts] :
          k \in {j \in Keys : row[j].state = "SENDING" /\ row[j].old}}]
  /\ UNCHANGED <<outbox, row, todo, hand, sent, excused>>

\* One row of reclaimStale: it goes back to the queue, or its attempts are spent.
Reclaim(w, s) ==
  /\ s \in stale[w]
  /\ row' = RetryOrBury(s.key, s.attempts + 1, FALSE)
  /\ stale' = [stale EXCEPT ![w] = @ \ {s}]
  /\ excused' = [excused EXCEPT ![s.key] = @ + 1]
  /\ UNCHANGED <<outbox, phase, todo, hand, sent>>

\* deliverPending's query.
ListPending(w) ==
  /\ phase[w] = "reclaim" /\ stale[w] = {}
  /\ phase' = [phase EXCEPT ![w] = "deliver"]
  /\ todo' = [todo EXCEPT ![w] =
       {[key |-> k, attempts |-> row[k].attempts] :
          k \in {j \in Keys : row[j].state = "PENDING" /\ row[j].due}}]
  /\ UNCHANGED <<outbox, row, stale, hand, sent, excused>>

ClaimBlindly(w, s) ==   \* mutant: UPDATE without state = PENDING
  /\ hand[w] = {} /\ s \in todo[w]
  /\ todo' = [todo EXCEPT ![w] = @ \ {s}]
  /\ row' = [row EXCEPT ![s.key].state = "SENDING", ![s.key].old = FALSE]
  /\ hand' = [hand EXCEPT ![w] =
       {[key |-> s.key, attempts |-> s.attempts, stage |-> "claimed"]}]
  /\ UNCHANGED <<outbox, phase, stale, sent, excused>>

\* The claim succeeds while the row is PENDING; if another sweep was first, this
\* one goes on to the next row.  Neither due nor attempts is looked at again.
Claim(w, s) ==
  /\ hand[w] = {} /\ s \in todo[w]
  /\ todo' = [todo EXCEPT ![w] = @ \ {s}]
  /\ IF row[s.key].state = "PENDING"
     THEN /\ row' = [row EXCEPT ![s.key].state = "SENDING", ![s.key].old = FALSE]
          /\ hand' = [hand EXCEPT ![w] =
               {[key |-> s.key, attempts |-> s.attempts, stage |-> "claimed"]}]
     ELSE UNCHANGED <<row, hand>>
  /\ UNCHANGED <<outbox, phase, stale, sent, excused>>

Becomes(w, h, stage) == hand' = [hand EXCEPT ![w] = {[h EXCEPT !.stage = stage]}]

\* The recipient of a row: that of any occasion with its key.
RecipientOfKey(k) == {RecipientOf[o] : o \in {p \in Occasions : KeyOf[p] = k}}

\* The chat cannot be resolved any more.
Unreachable(w, h) ==
  /\ h \in hand[w] /\ h.stage = "claimed"
  /\ RecipientOfKey(h.key) \cap connected = {}
  /\ Becomes(w, h, "suppress")
  /\ UNCHANGED <<outbox, row, phase, stale, todo, sent, excused>>

\* The provider accepts the message, refuses it, or accepts it and the answer is
\* lost, which the adapter reports as a failure.
Send(w, h) ==
  /\ h \in hand[w] /\ h.stage = "claimed"
  /\ RecipientOfKey(h.key) \cap connected # {}
  /\ \/ /\ sent' = [sent EXCEPT ![h.key] = @ + 1]
        /\ Becomes(w, h, "accepted")
        /\ UNCHANGED excused
     \/ /\ Becomes(w, h, "failed")
        /\ UNCHANGED <<sent, excused>>
     \/ /\ sent' = [sent EXCEPT ![h.key] = @ + 1]
        /\ excused' = [excused EXCEPT ![h.key] = @ + 1]
        /\ Becomes(w, h, "failed")
  /\ UNCHANGED <<outbox, row, phase, stale, todo>>

\* The outcome is written by row id, with the attempts the sweep has listed.
Record(w, h) ==
  /\ h \in hand[w] /\ h.stage # "claimed"
  /\ row' = CASE h.stage = "accepted" -> [row EXCEPT ![h.key].state = "SENT", ![h.key].old = FALSE]
              [] h.stage = "suppress" -> [row EXCEPT ![h.key].state = "SUPPRESSED", ![h.key].old = FALSE]
              [] h.stage = "failed"   -> RetryOrBury(h.key, h.attempts + 1, TRUE)
  /\ hand' = [hand EXCEPT ![w] = {}]
  /\ UNCHANGED <<outbox, phase, stale, todo, sent, excused>>

\* An exception on the way leaves the row SENDING; the sweep goes on.
GiveUpRow(w) ==
  /\ hand[w] # {}
  /\ hand' = [hand EXCEPT ![w] = {}]
  /\ UNCHANGED <<outbox, row, phase, stale, todo, sent, excused>>

EndSweep(w) ==
  /\ phase[w] = "deliver" /\ todo[w] = {} /\ hand[w] = {}
  /\ phase' = [phase EXCEPT ![w] = "idle"]
  /\ UNCHANGED <<outbox, row, stale, todo, hand, sent, excused>>

\* The process dies, or a query fails and the sweep is abandoned.
Crash(w) ==
  /\ phase[w] # "idle"
  /\ phase' = [phase EXCEPT ![w] = "idle"]
  /\ stale' = [stale EXCEPT ![w] = {}]
  /\ todo' = [todo EXCEPT ![w] = {}]
  /\ hand' = [hand EXCEPT ![w] = {}]
  /\ UNCHANGED <<outbox, row, sent, excused>>

-----------------------------------------------------------------------------
Sweep(w) ==
  \/ StartSweep(w) \/ ListPending(w) \/ GiveUpRow(w) \/ EndSweep(w) \/ Crash(w)
  \/ \E s \in stale[w] : Reclaim(w, s)
  \/ \E s \in todo[w] : Claim(w, s)
  \/ \E h \in hand[w] : Unreachable(w, h) \/ Send(w, h) \/ Record(w, h)

Next ==
  \/ \E r \in Recipients : Connect(r) \/ Revoke(r)
  \/ \E o \in Occasions : Publish(o)
  \/ \E p \in publishing : CreateDelivery(p) \/ LosePublication(p)
  \/ \E k \in Keys : BackoffElapses(k) \/ SendingGrowsOld(k)
  \/ \E w \in Sweeps : Sweep(w)

(***************************************************************************)
(* The timer keeps starting sweeps and time passes.  A sweep whose step is *)
(* not cut short takes it (a provider call ends: fetch gives up after its  *)
(* own time limit).  Crashes may go on for ever, but not so that no sweep  *)
(* ever reclaims a row or gets to claim one.                               *)
(***************************************************************************)
Fairness ==
  /\ \A k \in Keys : WF_vars(BackoffElapses(k)) /\ WF_vars(SendingGrowsOld(k))
  /\ \A w \in Sweeps :
       /\ WF_vars(StartSweep(w)) /\ SF_vars(ListPending(w)) /\ WF_vars(EndSweep(w))
       /\ WF_vars(\E h \in hand[w] : Unreachable(w, h) \/ Send(w, h) \/ Record(w, h))
       /\ \A k \in Keys :
            /\ SF_vars(\E s \in stale[w] : s.key = k /\ Reclaim(w, s))
            /\ SF_vars(\E s \in todo[w] : s.key = k /\ Claim(w, s))

Spec == Init /\ [][Next]_vars

FairSpec == Spec /\ Fairness

-----------------------------------------------------------------------------
(* Properties                                                              *)

\* Every variable stays in its domain: in particular a sweep lists, claims and
\* reclaims only rows that have attempts left.
TypeOK ==
  /\ connected \subseteq Recipients
  /\ happened \subseteq Occasions
  /\ publishing \subseteq Publications
  /\ row \in [Keys -> Rows]
  /\ phase \in [Sweeps -> {"idle", "reclaim", "deliver"}]
  /\ stale \in [Sweeps -> SUBSET Listed]
  /\ todo \in [Sweeps -> SUBSET Listed]
  /\ hand \in [Sweeps -> SUBSET Claims]
  /\ sent \in [Keys -> Nat]
  /\ excused \in [Keys -> Nat]

\* A message goes out more than once only as often as its row was given back
\* without a recorded answer: taken from a sweep that seemed stuck, or failed
\* although the provider had accepted.  Overlapping sweeps alone, repeated
\* reminders and replayed publications never send twice.
ResendsAreExcused ==
  \A k \in Keys : sent[k] <= 1 + excused[k]

\* A settled delivery stays settled, except by a reclaim or the late answer of a
\* sweep whose row was reclaimed.
SettledUnlessExcused ==
  [][\A k \in Keys :
       row[k].state \in Settled /\ row'[k].state \notin Settled => excused'[k] > 0]_vars

\* However sweeps crash, overlap and overwrite each other, a delivery that waits
\* is settled in the end: retries run out even though a sweep may write back an
\* old attempt counter.
EventuallySettled ==
  \A k \in Keys :
    row[k].state \in {"PENDING", "SENDING"} ~> row[k].state \in Settled
=============================================================================
