------------------------------ MODULE Opening ------------------------------
(***************************************************************************)
(* Whether a business takes bookings, and by which schedule: deactivation, *)
(* pause, manual and scheduled resume, the versions of the schedule, and   *)
(* the gates a new booking passes (business.service.ts,                    *)
(* subscription.service.ts, schedule.service.ts, availability.service.ts,  *)
(* business-lifecycle.worker.ts).                                          *)
(*                                                                         *)
(* A save reads the pause flag, an auto-resume the whole pause and then    *)
(* the subscription, before they take the advisory lock; nothing is read   *)
(* again under it.  Each transaction under the lock is one step (the lists *)
(* of versions are read by another connection, but only lock holders write *)
(* versions).                                                              *)
(*                                                                         *)
(* A new booking looks at the three gates one after another, twice, and    *)
(* never again under the lock.  Bookings have no effect on anything here,  *)
(* so one request for a booking at a time says all.                        *)
(*                                                                         *)
(* What reconciling the subscription answers is module Subscription's      *)
(* subject; here it is a fact about the business that changes at will.     *)
(* Time is one fact about a pause: its reopenAt has come.                  *)
(***************************************************************************)
EXTENDS Naturals, FiniteSets

CONSTANTS Requests,    \* requests and sweeps being served at the same time
          MaxVersions  \* bound on the schedule versions saved

ASSUME VersionAssumption == MaxVersions \in Nat

VARIABLES
  deactivated,   \* business.deactivatedAt # null
  paused,    \* business_settings.isPaused
  reopen,    \* business_settings.reopenAt: "never" (null), "later" or "due"
  eligible,  \* whether a reconciled subscription is eligible
  version,   \* schedule_version.status, by versionNo ("NONE": not saved yet)
  active,    \* business.activeScheduleVersionId (0: null)
  inFlight,  \* requests between their reads and their transaction
  renewed,   \* history: the requests in flight since before the pause changed
  newest,    \* history: the newest version saved during the last pause (0: none)
  undone,    \* history: a resume found that one in force, and gave it up
  looks,     \* gates a request for a booking has passed (0: there is none)
  sawOpen,   \* history: the business was open at some moment since it began
  shut       \* history: until then, how many times a gate was shut

fate == <<newest, undone>>
asking == <<looks, sawOpen, shut>>
vars == <<deactivated, paused, reopen, eligible, version, active, inFlight, renewed,
          fate, asking>>

Versions == 1..MaxVersions
Pending == {v \in Versions : version[v] = "PENDING"}
Saved == {v \in Versions : version[v] # "NONE"}

Lowest(S) == CHOOSE v \in S : \A w \in S : v <= w   \* mutant: the oldest comes first

\* The last of a list ordered by versionNo.
Highest(S) == CHOOSE v \in S : \A w \in S : w <= v

InFlight == [id : Requests, op : {"save", "resume", "check", "auto"}, paused : BOOLEAN]

Request(r, op, flag) == [id |-> r, op |-> op, paused |-> flag]

Free(r) == \A q \in inFlight : q.id # r

Open == ~deactivated /\ ~paused /\ eligible

Init ==
  /\ deactivated = FALSE
  /\ paused = FALSE
  /\ reopen = "never"
  /\ eligible = TRUE
  /\ version = [v \in Versions |-> "NONE"]
  /\ active = 0
  /\ inFlight = {}
  /\ renewed = {}
  /\ newest = 0 /\ undone = FALSE
  /\ looks = 0 /\ sawOpen = FALSE /\ shut = 0

\* History, for whoever changes a gate: twice is as often as more.
WatchGates ==
  LET shuts == \/ deactivated' /\ ~deactivated
               \/ paused' /\ ~paused
               \/ eligible /\ ~eligible'
  IN  /\ sawOpen' = (looks # 0 /\ (sawOpen \/ Open'))
      /\ shut' = IF looks = 0 \/ sawOpen' THEN 0
                 ELSE IF shuts /\ shut < 2 THEN shut + 1 ELSE shut
      /\ UNCHANGED looks

-----------------------------------------------------------------------------
(* Schedule versions.                                                      *)

\* demoteActiveVersions, promotePendingVersion, setBusinessActiveVersion: what was
\* ACTIVE goes back to PENDING.
Promote(v, saved) ==
  /\ version' = [w \in Versions |->
       IF w = v THEN "ACTIVE" ELSE IF saved[w] = "ACTIVE" THEN "PENDING" ELSE saved[w]]
  /\ active' = v

\* promoteLatestPending, called by both ways to resume.
PromoteLatestPending ==
  IF Pending = {} THEN UNCHANGED <<version, active>>
  ELSE Promote(Highest(Pending), version)

\* saveTemplate reads whether the business is paused ...
ReadForSave(r) ==
  /\ Free(r)
  /\ inFlight' = inFlight \cup {Request(r, "save", paused)}
  /\ UNCHANGED <<deactivated, paused, reopen, eligible, version, active, renewed, fate, asking>>

\* History: what is saved during a pause, until a save is promoted without one.
Remember(q, next) ==
  /\ newest' = IF paused THEN next ELSE IF q.paused THEN newest ELSE 0
  /\ undone' = (undone /\ q.paused)

SaveAndPromote(q) ==   \* mutant: the pause is not heeded
  /\ q.op = "save" /\ Cardinality(Saved) < MaxVersions
  /\ LET next == Cardinality(Saved) + 1
     IN  Promote(next, [version EXCEPT ![next] = "PENDING"]) /\ Remember(q, next)
  /\ inFlight' = inFlight \ {q}
  /\ renewed' = renewed \ {q.id}
  /\ UNCHANGED <<deactivated, paused, reopen, eligible, asking>>

\* ... and goes by that when it has the lock.
SaveTemplate(q) ==
  /\ q.op = "save" /\ Cardinality(Saved) < MaxVersions
  /\ LET next == Cardinality(Saved) + 1
         saved == [version EXCEPT ![next] = "PENDING"]
     IN  /\ IF q.paused THEN version' = saved /\ UNCHANGED active
            ELSE Promote(next, saved)
         /\ Remember(q, next)
  /\ inFlight' = inFlight \ {q}
  /\ renewed' = renewed \ {q.id}
  /\ UNCHANGED <<deactivated, paused, reopen, eligible, asking>>

-----------------------------------------------------------------------------
(* Pausing and resuming.                                                   *)

\* setPaused.  Nothing demands that reopenAt lies ahead, or that the business is
\* open: a new pause replaces the old one.
Pause(until) ==
  /\ paused' = TRUE
  /\ reopen' = until
  /\ renewed' = {q.id : q \in inFlight}
  /\ newest' = (IF paused THEN newest ELSE 0) /\ undone' = FALSE
  /\ UNCHANGED <<deactivated, eligible, version, active, inFlight>>
  /\ WatchGates

\* manualResume reconciles, and refuses an expired subscription.
ReadForResume(r) ==
  /\ Free(r) /\ eligible
  /\ inFlight' = inFlight \cup {Request(r, "resume", paused)}
  /\ UNCHANGED <<deactivated, paused, reopen, eligible, version, active, renewed, fate, asking>>

\* Both ways to resume end in this transaction; neither looks at the pause again.
Resume(q) ==
  /\ q.op \in {"resume", "auto"}
  /\ paused' = FALSE
  /\ reopen' = "never"
  /\ PromoteLatestPending
  /\ inFlight' = inFlight \ {q}
  /\ renewed' = {p.id : p \in inFlight'}
  /\ undone' = (undone \/ (newest # 0 /\ active = newest /\ Pending # {}))
  /\ UNCHANGED <<deactivated, eligible, newest>>
  /\ WatchGates

SweepAll(r) ==   \* mutant: every pause is looked at, due or not
  /\ Free(r) /\ paused
  /\ inFlight' = inFlight \cup {Request(r, "check", TRUE)}
  /\ UNCHANGED <<deactivated, paused, reopen, eligible, version, active, renewed, fate, asking>>

SweepTooEarly(r) ==   \* mutant: now < reopenAt the wrong way round
  /\ Free(r) /\ paused /\ reopen = "later"
  /\ inFlight' = inFlight \cup {Request(r, "check", TRUE)}
  /\ UNCHANGED <<deactivated, paused, reopen, eligible, version, active, renewed, fate, asking>>

\* attemptAutoResume reads the settings: called by the worker for the businesses
\* it has listed, and after the approval of a subscription proof.
AttemptAutoResume(r) ==
  /\ Free(r) /\ paused /\ reopen = "due"
  /\ inFlight' = inFlight \cup {Request(r, "check", TRUE)}
  /\ UNCHANGED <<deactivated, paused, reopen, eligible, version, active, renewed, fate, asking>>

\* It reconciles; an expired subscription keeps the business closed.
CheckEligible(q) ==
  /\ q.op = "check" /\ eligible
  /\ inFlight' = (inFlight \ {q}) \cup {[q EXCEPT !.op = "auto"]}
  /\ UNCHANGED <<deactivated, paused, reopen, eligible, version, active, renewed, fate, asking>>

\* The request is refused or fails, or the process is restarted.
Abandon(q) ==
  /\ inFlight' = inFlight \ {q}
  /\ renewed' = renewed \ {q.id}
  /\ UNCHANGED <<deactivated, paused, reopen, eligible, version, active, fate, asking>>

\* deactivate, reactivate: nothing asks for it to be the other way.
SetDeactivated(flag) ==
  /\ deactivated' = flag
  /\ UNCHANGED <<paused, reopen, eligible, version, active, inFlight, renewed, fate>>
  /\ WatchGates

-----------------------------------------------------------------------------
(* The gates of createBooking.                                             *)

\* Both services look at them in this order.
Passable(n) ==
  CASE n % 3 = 1 -> ~deactivated
    [] n % 3 = 2 -> ~paused
    [] n % 3 = 0 -> eligible

gates == <<deactivated, paused, reopen, eligible, version, active, inFlight, renewed, fate>>

\* createBooking reads the business ...
AskToBook ==
  /\ looks = 0 /\ Passable(1)
  /\ looks' = 1 /\ sawOpen' = Open /\ shut' = 0
  /\ UNCHANGED gates

PassOnce ==   \* mutant: getSlotsForDay with includeBusinessGates = false
  /\ looks \in 1..5 /\ (looks < 3 => Passable(looks + 1))
  /\ looks' = looks + 1
  /\ UNCHANGED <<gates, sawOpen, shut>>

\* ... its settings and its subscription, and getSlotsForDay all three again.
PassGate ==
  /\ looks \in 1..5 /\ Passable(looks + 1)
  /\ looks' = looks + 1
  /\ UNCHANGED <<gates, sawOpen, shut>>

\* It is booked (module Booking), once past all gates, or refused, or has failed.
AnswerBooking ==
  /\ looks # 0
  /\ looks' = 0 /\ sawOpen' = FALSE /\ shut' = 0
  /\ UNCHANGED gates

-----------------------------------------------------------------------------
(* What time and module Subscription do.                                   *)

ReopenComes ==
  /\ reopen = "later"
  /\ reopen' = "due"
  /\ UNCHANGED <<deactivated, paused, eligible, version, active, inFlight, renewed, fate,
                 asking>>

ExpireOrRenew ==
  /\ eligible' = ~eligible
  /\ UNCHANGED <<deactivated, paused, reopen, version, active, inFlight, renewed, fate>>
  /\ WatchGates

Next ==
  \/ \E r \in Requests : ReadForSave(r) \/ ReadForResume(r) \/ AttemptAutoResume(r)
  \/ \E until \in {"never", "later", "due"} : Pause(until)
  \/ \E q \in inFlight : SaveTemplate(q) \/ Resume(q) \/ CheckEligible(q) \/ Abandon(q)
  \/ \E flag \in BOOLEAN : SetDeactivated(flag)
  \/ AskToBook \/ PassGate \/ AnswerBooking
  \/ ReopenComes \/ ExpireOrRenew

(***************************************************************************)
(* The worker's timer keeps starting sweeps, and they are not cut short    *)
(* for ever at the same point.  Every request ends (a transaction has 30   *)
(* seconds), if only by failing; nobody has to save, pause or resume.      *)
(***************************************************************************)
Fairness ==
  /\ \A r \in Requests : WF_vars(\E q \in inFlight : q.id = r /\ Abandon(q))
  /\ SF_vars(\E r \in Requests : AttemptAutoResume(r))
  /\ SF_vars(\E q \in inFlight : CheckEligible(q))
  /\ SF_vars(\E q \in inFlight : q.op = "auto" /\ Resume(q))

Spec == Init /\ [][Next]_vars

FairSpec == Spec /\ Fairness

-----------------------------------------------------------------------------
(* Properties                                                              *)

\* The business points at the one version that is ACTIVE, whoever promoted it:
\* the promise behind uq_active_schedule_version.
OneActiveVersion ==
  \A v \in Versions : version[v] = "ACTIVE" <=> v = active

\* Every variable stays in its domain; an open business has no date to reopen at
\* that a sweep could take up, and exactly one schedule version in force.
TypeOK ==
  /\ deactivated \in BOOLEAN
  /\ paused \in BOOLEAN
  /\ reopen \in {"never", "later", "due"}
  /\ eligible \in BOOLEAN
  /\ version \in [Versions -> {"NONE", "PENDING", "ACTIVE"}]
  /\ active \in 0..MaxVersions
  /\ inFlight \subseteq InFlight
  /\ renewed \subseteq {q.id : q \in inFlight}
  /\ newest \in 0..MaxVersions /\ undone \in BOOLEAN
  /\ looks \in 0..6 /\ sawOpen \in BOOLEAN /\ shut \in 0..2
  /\ ~paused => reopen = "never"
  /\ OneActiveVersion

\* While a business stays paused its schedule stays as it is, unless a save read
\* the pause flag before the pause changed.
PausedKeepsSchedule ==
  [][paused /\ paused' /\ active' # active =>
       \E q \in inFlight \ inFlight' : q.op = "save" /\ q.id \in renewed]_vars

\* From the end of a pause until a save is promoted or the next pause begins, the
\* version in force is the newest saved during the pause, whoever saved and resumed
\* meanwhile.  The exception is a resume that meets that version in force already:
\* a save with a stale flag promoted it, or an earlier resume did.  Such a resume
\* promotes what is PENDING all the same, and so brings an older version back.
ResumeActivatesSaves ==
  ~paused /\ newest # 0 /\ ~undone => active = newest

\* A pause ends by itself only when its time has come, unless it was changed
\* while the sweep that ends it was under way: an indefinite pause that nobody
\* touches lasts.
AutoResumeEndsDuePauses ==
  [][\A q \in inFlight \ inFlight' :
       q.op = "auto" /\ q.id \notin renewed /\ paused /\ ~paused' => reopen = "due"]_vars

\* A business that is closed all the while, if by one gate now and by another
\* then, takes no booking: a request that has passed all gates met a moment at
\* which every one of them was open, or two were shut while it was looking.  (One
\* look at each would be deceived by one.)
ClosedTakesNoBooking ==
  looks = 6 => sawOpen \/ shut = 2

\* A pause whose time has come ends as long as the subscription allows it, in
\* spite of refused, failing and overlapping sweeps.
DuePausesEnd ==
  []<>~(paused /\ reopen = "due" /\ eligible)
=============================================================================
