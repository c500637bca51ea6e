---------------------------- MODULE OpeningProofs ----------------------------
(***************************************************************************)
(* Proofs about module Opening, for any number of requests under way and   *)
(* of schedule versions, and about module Schedule, whose part says more   *)
(* below.                                                                  *)
(*                                                                         *)
(* The state of Opening falls into three parts that hardly touch: the      *)
(* versions, the pause with the requests under way, and the request for a  *)
(* booking.  Each has its own inductive invariant; what becomes of the     *)
(* versions saved during a pause (FateInv) rests on the first two.         *)
(***************************************************************************)
EXTENDS Opening, Schedule, FiniteSetTheorems, WellFoundedInduction, TLAPS

\* Versions are numbered without gaps, so the next number is a fresh one.
SavedInOrder ==
  \E n \in 0..MaxVersions : Saved = 1..n

VersionsInv ==
  /\ version \in [Versions -> {"NONE", "PENDING", "ACTIVE"}]
  /\ active \in 0..MaxVersions
  /\ OneActiveVersion
  /\ SavedInOrder

\* What a request under way has read still holds, unless the pause was changed.
ReadsStand ==
  \A q \in inFlight : q.id \notin renewed =>
    /\ q.op = "save" => q.paused = paused
    /\ q.op \in {"check", "auto"} => reopen = "due"

PauseInv ==
  /\ paused \in BOOLEAN
  /\ reopen \in {"never", "later", "due"}
  /\ ~paused => reopen = "never"
  /\ inFlight \subseteq InFlight
  /\ renewed \subseteq {q.id : q \in inFlight}
  /\ \A p, q \in inFlight : p.id = q.id => p = q
  /\ ReadsStand

\* How far a request for a booking gets at a business that is never open: with no
\* gate shut since, up to the first shut one; with one, to the next.
GatesInv ==
  /\ deactivated \in BOOLEAN
  /\ paused \in BOOLEAN
  /\ eligible \in BOOLEAN
  /\ looks \in 0..6 /\ sawOpen \in BOOLEAN /\ shut \in 0..2
  /\ looks # 0 /\ ~sawOpen =>
       /\ ~Open
       /\ shut = 0 => /\ looks <= 2 /\ ~deactivated
                      /\ looks = 2 => ~paused
       /\ shut = 1 => /\ looks <= 4
                      /\ looks >= 3 => eligible
                      /\ looks = 4 => ~deactivated

\* While a pause lasts, the newest version saved during it is the last of all; from
\* its end on it is the one in force, until a resume gives it up.
FateInv ==
  /\ newest \in 0..MaxVersions /\ undone \in BOOLEAN
  /\ newest # 0 => newest \in Saved
  /\ paused /\ newest # 0 => Saved = 1..newest
  /\ ResumeActivatesSaves

IInv == VersionsInv /\ PauseInv /\ GatesInv /\ FateInv

-----------------------------------------------------------------------------
(* Versions.                                                               *)

\* A list of versions that is not empty has a last one.
LEMMA HighestOf ==
  ASSUME NEW S, S \subseteq Versions, S # {}
  PROVE  /\ Highest(S) \in S
         /\ \A w \in S : w <= Highest(S)
<1> DEFINE T == {k \in Nat : MaxVersions - k \in S}
<1>1. \A v \in S : MaxVersions - v \in T
  BY VersionAssumption DEF Versions
<1>2. T \subseteq Nat /\ T # {}
  BY <1>1
<1>3. PICK x \in T : \A y \in T : ~ (<<y, x>> \in OpToRel(<, Nat))
  <2> HIDE DEF T
  <2> QED
    BY <1>2, NatLessThanWellFounded, WFMin
<1>4. \A y \in T : ~(y < x)
  BY <1>3 DEF OpToRel
<1>5. \E v \in S : \A w \in S : w <= v
  BY <1>1, <1>4, VersionAssumption DEF Versions
<1> QED
  BY <1>5 DEF Highest

\* Promoting any version demotes the one that was active.
LEMMA PromoteKeeps ==
  ASSUME NEW v \in Versions,
         NEW saved \in [Versions -> {"NONE", "PENDING", "ACTIVE"}],
         NEW n \in 0..MaxVersions,
         {w \in Versions : saved[w] # "NONE"} = 1..n, v \in 1..n,
         Promote(v, saved)
  PROVE  VersionsInv'
<1>1. /\ version' \in [Versions -> {"NONE", "PENDING", "ACTIVE"}]
      /\ active' \in 0..MaxVersions
      /\ OneActiveVersion'
  BY VersionAssumption DEF Promote, OneActiveVersion, Versions
<1>2. \A w \in Versions : version'[w] # "NONE" <=> saved[w] # "NONE"
  BY VersionAssumption DEF Promote, Versions
<1>3. Saved' = 1..n
  BY <1>2 DEF Saved
<1> QED
  BY <1>1, <1>3 DEF VersionsInv, SavedInOrder

\* The number of the next version, where there is room for one.
LEMMA NextVersion ==
  ASSUME VersionsInv, Cardinality(Saved) < MaxVersions
  PROVE  LET next == Cardinality(Saved) + 1
         IN  /\ next \in Versions /\ version[next] = "NONE"
             /\ Saved = 1..(next - 1)
<1>1. PICK n \in 0..MaxVersions : Saved = 1..n
  BY DEF VersionsInv, SavedInOrder
<1>2. n \in Nat /\ Cardinality(Saved) = n
  BY <1>1, FS_Interval, VersionAssumption
<1>3. n + 1 \in Versions /\ n + 1 \notin Saved /\ (n + 1) - 1 = n
  BY <1>1, <1>2, VersionAssumption DEF Versions
<1> QED
  BY <1>1, <1>2, <1>3 DEF VersionsInv, Saved

LEMMA VersionsStep ==
  ASSUME VersionsInv, [Next]_vars
  PROVE  VersionsInv'
<1>1. ASSUME NEW q \in inFlight, SaveTemplate(q)
      PROVE  VersionsInv'
  <2> DEFINE next == Cardinality(Saved) + 1
             saved == [version EXCEPT ![next] = "PENDING"]
  <2>1. next \in Versions /\ version[next] = "NONE" /\ Saved = 1..(next - 1)
    BY <1>1, NextVersion DEF SaveTemplate
  <2>2. IF q.paused THEN version' = saved /\ UNCHANGED active
        ELSE Promote(next, saved)
    BY <1>1 DEF SaveTemplate
  <2> HIDE DEF next
  <2>3. /\ saved \in [Versions -> {"NONE", "PENDING", "ACTIVE"}]
        /\ saved[next] = "PENDING"
        /\ \A w \in Versions \ {next} : saved[w] = version[w]
    BY <2>1 DEF VersionsInv
  <2> HIDE DEF saved
  <2>4. {w \in Versions : saved[w] # "NONE"} = Saved \cup {next}
    BY <2>1, <2>3 DEF Saved
  <2>5. next \in 0..MaxVersions /\ Saved \cup {next} = 1..next
    BY <2>1, VersionAssumption DEF Versions
  <2>6. CASE q.paused
    <3>1. version' = saved /\ active' = active
      BY <2>2, <2>6
    <3>2. Saved' = 1..next
      BY <3>1, <2>4, <2>5 DEF Saved
    <3>3. OneActiveVersion'
      BY <3>1, <2>1, <2>3 DEF VersionsInv, OneActiveVersion
    <3> QED
      BY <3>1, <3>2, <3>3, <2>3, <2>5 DEF VersionsInv, SavedInOrder
  <2>7. CASE ~q.paused
    <3>1. next \in 1..next
      BY <2>1 DEF Versions
    <3> QED
      BY <2>1, <2>2, <2>3, <2>4, <2>5, <2>7, <3>1, PromoteKeeps
  <2> QED
    BY <2>6, <2>7
<1>2. ASSUME NEW q \in inFlight, Resume(q)
      PROVE  VersionsInv'
  <2>1. CASE Pending = {}
    BY <1>2, <2>1 DEF Resume, PromoteLatestPending, VersionsInv, OneActiveVersion,
       SavedInOrder, Saved
  <2>2. CASE Pending # {}
    <3>1. Promote(Highest(Pending), version)
      BY <1>2, <2>2 DEF Resume, PromoteLatestPending
    <3>2. Highest(Pending) \in Pending
      BY <2>2, HighestOf DEF Pending
    <3>3. Highest(Pending) \in Versions /\ Highest(Pending) \in Saved
      BY <3>2 DEF Pending, Saved
    <3> QED
      BY <3>1, <3>3, PromoteKeeps DEF VersionsInv, SavedInOrder, Saved
  <2> QED
    BY <2>1, <2>2
<1>3. ASSUME UNCHANGED <<version, active>>
      PROVE  VersionsInv'
  BY <1>3 DEF VersionsInv, OneActiveVersion, SavedInOrder, Saved
<1>4. ASSUME NEW r \in Requests, ReadForSave(r) \/ ReadForResume(r) \/ AttemptAutoResume(r)
      PROVE  UNCHANGED <<version, active>>
  BY <1>4 DEF ReadForSave, ReadForResume, AttemptAutoResume
<1>5. ASSUME NEW q \in inFlight, CheckEligible(q) \/ Abandon(q)
      PROVE  UNCHANGED <<version, active>>
  BY <1>5 DEF CheckEligible, Abandon
<1>6. ASSUME \/ \E until \in {"never", "later", "due"} : Pause(until)
             \/ \E flag \in BOOLEAN : SetDeactivated(flag)
             \/ AskToBook \/ PassGate \/ AnswerBooking
             \/ ReopenComes \/ ExpireOrRenew \/ UNCHANGED vars
      PROVE  UNCHANGED <<version, active>>
  BY <1>6 DEF Pause, SetDeactivated, AskToBook, PassGate, AnswerBooking, ReopenComes,
     ExpireOrRenew, vars, gates
<1> QED
  BY <1>1, <1>2, <1>3, <1>4, <1>5, <1>6 DEF Next

-----------------------------------------------------------------------------
(* The pause and the requests under way.                                   *)

\* A request that begins with what the state says.
LEMMA Begins ==
  ASSUME PauseInv, NEW r \in Requests, Free(r),
         NEW op \in {"save", "resume", "check"}, NEW flag \in BOOLEAN,
         op = "save" => flag = paused,
         op = "check" => reopen = "due",
         inFlight' = inFlight \cup {Request(r, op, flag)},
         UNCHANGED <<paused, reopen, renewed>>
  PROVE  PauseInv'
<1> DEFINE new == Request(r, op, flag)
<1>1. /\ new \in InFlight
      /\ new.id = r /\ new.op = op /\ new.paused = flag
  BY DEF Request, InFlight
<1> HIDE DEF new
<1>2. inFlight' = inFlight \cup {new}
  BY DEF new
<1>3. \A q \in inFlight : q.id # r
  BY DEF Free
<1>4. ReadsStand'
  BY <1>1, <1>2 DEF PauseInv, ReadsStand
<1>5. inFlight' \subseteq InFlight /\ renewed' \subseteq {q.id : q \in inFlight'}
  BY <1>1, <1>2 DEF PauseInv
<1>6. \A p, q \in inFlight' : p.id = q.id => p = q
  BY <1>1, <1>2, <1>3 DEF PauseInv
<1> QED
  BY <1>4, <1>5, <1>6 DEF PauseInv

\* A request that ends without touching the pause.
LEMMA Ends ==
  ASSUME PauseInv, NEW q \in inFlight,
         inFlight' = inFlight \ {q}, renewed' = renewed \ {q.id},
         UNCHANGED <<paused, reopen>>
  PROVE  PauseInv'
BY DEF PauseInv, ReadsStand

LEMMA PauseStep ==
  ASSUME PauseInv, [Next]_vars
  PROVE  PauseInv'
<1>1. ASSUME NEW r \in Requests, ReadForSave(r)
      PROVE  PauseInv'
  BY <1>1, Begins DEF ReadForSave, PauseInv
<1>2. ASSUME NEW r \in Requests, ReadForResume(r)
      PROVE  PauseInv'
  BY <1>2, Begins DEF ReadForResume, PauseInv
<1>3. ASSUME NEW r \in Requests, AttemptAutoResume(r)
      PROVE  PauseInv'
  BY <1>3, Begins DEF AttemptAutoResume
<1>4. ASSUME NEW until \in {"never", "later", "due"}, Pause(until)
      PROVE  PauseInv'
  BY <1>4 DEF Pause, PauseInv, ReadsStand
<1>5. ASSUME NEW q \in inFlight, SaveTemplate(q) \/ Abandon(q)
      PROVE  PauseInv'
  BY <1>5, Ends DEF SaveTemplate, Abandon
<1>6. ASSUME NEW q \in inFlight, Resume(q)
      PROVE  PauseInv'
  BY <1>6 DEF Resume, PauseInv, ReadsStand
<1>7. ASSUME NEW q \in inFlight, CheckEligible(q)
      PROVE  PauseInv'
  <2> DEFINE on == [q EXCEPT !.op = "auto"]
  <2>1. /\ q \in InFlight /\ q.op = "check"
        /\ inFlight' = (inFlight \ {q}) \cup {on}
        /\ UNCHANGED <<paused, reopen, renewed>>
    BY <1>7 DEF CheckEligible, PauseInv
  <2>2. on \in InFlight /\ on.id = q.id /\ on.op = "auto"
    BY <2>1 DEF InFlight
  <2> HIDE DEF on
  <2>3. ReadsStand'
    BY <2>1, <2>2 DEF PauseInv, ReadsStand
  <2>4. inFlight' \subseteq InFlight /\ renewed' \subseteq {p.id : p \in inFlight'}
    BY <2>1, <2>2 DEF PauseInv
  <2>5. \A p, s \in inFlight' : p.id = s.id => p = s
    BY <2>1, <2>2 DEF PauseInv
  <2> QED
    BY <2>1, <2>3, <2>4, <2>5 DEF PauseInv
<1>8. CASE ReopenComes
  BY <1>8 DEF ReopenComes, PauseInv, ReadsStand
<1>9. ASSUME \/ \E flag \in BOOLEAN : SetDeactivated(flag)
             \/ AskToBook \/ PassGate \/ AnswerBooking \/ ExpireOrRenew \/ UNCHANGED vars
      PROVE  PauseInv'
  <2>1. UNCHANGED <<paused, reopen, inFlight, renewed>>
    BY <1>9 DEF SetDeactivated, AskToBook, PassGate, AnswerBooking, ExpireOrRenew,
       gates, vars
  <2> QED
    BY <2>1 DEF PauseInv, ReadsStand
<1> QED
  BY <1>1, <1>2, <1>3, <1>4, <1>5, <1>6, <1>7, <1>8, <1>9 DEF Next

-----------------------------------------------------------------------------
(* The gates.                                                              *)

\* Opening or shutting one gate, whichever it is.
LEMMA GateMoves ==
  ASSUME GatesInv, WatchGates,
         deactivated' \in BOOLEAN, paused' \in BOOLEAN, eligible' \in BOOLEAN
  PROVE  GatesInv'
<1>1. looks' = looks /\ looks' \in 0..6 /\ sawOpen' \in BOOLEAN /\ shut' \in 0..2
  BY DEF WatchGates, GatesInv
<1>2. ASSUME looks' # 0, ~sawOpen'
      PROVE  /\ ~Open'
             /\ shut' = 0 => /\ looks' <= 2 /\ ~deactivated'
                             /\ looks' = 2 => ~paused'
             /\ shut' = 1 => /\ looks' <= 4
                             /\ looks' >= 3 => eligible'
                             /\ looks' = 4 => ~deactivated'
  <2>1. ~Open' /\ ~sawOpen /\ looks # 0
    BY <1>1, <1>2 DEF WatchGates
  <2>2. shut' = IF \/ deactivated' /\ ~deactivated
                   \/ paused' /\ ~paused
                   \/ eligible /\ ~eligible'
                THEN IF shut < 2 THEN shut + 1 ELSE shut
                ELSE shut
    BY <1>1, <1>2 DEF WatchGates, GatesInv
  <2> QED
    BY <1>1, <2>1, <2>2 DEF GatesInv
<1> QED
  BY <1>1, <1>2 DEF GatesInv

LEMMA GatesStep ==
  ASSUME GatesInv, [Next]_vars
  PROVE  GatesInv'
<1>1. ASSUME NEW until \in {"never", "later", "due"}, Pause(until)
      PROVE  GatesInv'
  BY <1>1, GateMoves DEF Pause, GatesInv
<1>2. ASSUME NEW q \in inFlight, Resume(q)
      PROVE  GatesInv'
  BY <1>2, GateMoves DEF Resume, GatesInv
<1>3. ASSUME NEW flag \in BOOLEAN, SetDeactivated(flag)
      PROVE  GatesInv'
  BY <1>3, GateMoves DEF SetDeactivated, GatesInv
<1>4. CASE ExpireOrRenew
  BY <1>4, GateMoves DEF ExpireOrRenew, GatesInv
<1>5. CASE AskToBook
  BY <1>5 DEF AskToBook, GatesInv, gates, Open, Passable
<1>6. CASE PassGate
  <2>1. /\ looks \in 1..5 /\ looks' = looks + 1
        /\ Passable(looks + 1)
        /\ UNCHANGED <<deactivated, paused, eligible, sawOpen, shut>>
    BY <1>6 DEF PassGate, gates
  <2>2. 2 % 3 = 2 /\ 3 % 3 = 0 /\ 4 % 3 = 1 /\ 5 % 3 = 2
    OBVIOUS
  <2>3. /\ Passable(2) => ~paused
        /\ Passable(3) => eligible
        /\ Passable(4) => ~deactivated
        /\ Passable(5) => ~paused
    BY <2>2 DEF Passable
  <2>4. /\ looks = 1 => ~paused
        /\ looks = 2 => eligible
        /\ looks = 3 => ~deactivated
        /\ looks = 4 => ~paused
    BY <2>1, <2>3
  <2> QED
    BY <2>1, <2>4 DEF GatesInv, Open
<1>7. CASE AnswerBooking
  <2>1. /\ looks' = 0 /\ sawOpen' = FALSE /\ shut' = 0
        /\ UNCHANGED <<deactivated, paused, eligible>>
    BY <1>7 DEF AnswerBooking, gates
  <2>2. looks' \in 0..6 /\ shut' \in 0..2
    BY <2>1
  <2> QED
    BY <2>1, <2>2 DEF GatesInv
<1>8. ASSUME UNCHANGED <<deactivated, paused, eligible, asking>>
      PROVE  GatesInv'
  BY <1>8 DEF GatesInv, asking, Open
<1>9. ASSUME \/ \E r \in Requests : ReadForSave(r) \/ ReadForResume(r) \/ AttemptAutoResume(r)
             \/ \E q \in inFlight : SaveTemplate(q) \/ CheckEligible(q) \/ Abandon(q)
             \/ ReopenComes \/ UNCHANGED vars
      PROVE  UNCHANGED <<deactivated, paused, eligible, asking>>
  BY <1>9 DEF ReadForSave, ReadForResume, AttemptAutoResume, SaveTemplate, CheckEligible,
     Abandon, ReopenComes, vars
<1> QED
  BY <1>1, <1>2, <1>3, <1>4, <1>5, <1>6, <1>7, <1>8, <1>9 DEF Next

-----------------------------------------------------------------------------
(* What becomes of the versions saved during a pause.                      *)

LEMMA FateStep ==
  ASSUME VersionsInv, PauseInv, FateInv, [Next]_vars
  PROVE  FateInv'
<1>1. ASSUME NEW q \in inFlight, SaveTemplate(q)
      PROVE  FateInv'
  <2> DEFINE next == Cardinality(Saved) + 1
             saved == [version EXCEPT ![next] = "PENDING"]
  <2>1. next \in Versions /\ version[next] = "NONE" /\ Saved = 1..(next - 1)
    BY <1>1, NextVersion DEF SaveTemplate
  <2>2. /\ IF q.paused THEN version' = saved /\ UNCHANGED active
           ELSE Promote(next, saved)
        /\ newest' = IF paused THEN next ELSE IF q.paused THEN newest ELSE 0
        /\ undone' = (undone /\ q.paused) /\ paused' = paused
    BY <1>1 DEF SaveTemplate, Remember
  <2>3. q.paused \in BOOLEAN
    BY DEF PauseInv, InFlight
  <2> HIDE DEF next
  <2>4. /\ saved \in [Versions -> {"NONE", "PENDING", "ACTIVE"}]
        /\ saved[next] = "PENDING"
        /\ \A w \in Versions \ {next} : saved[w] = version[w]
    BY <2>1 DEF VersionsInv
  <2> HIDE DEF saved
  <2>5. \A w \in Versions : version'[w] # "NONE" <=> saved[w] # "NONE"
    <3>1. CASE q.paused
      BY <2>2, <3>1
    <3>2. CASE ~q.paused
      BY <2>2, <2>4, <3>2 DEF Promote
    <3> QED
      BY <2>3, <3>1, <3>2
  <2>6. Saved' = Saved \cup {next}
    BY <2>1, <2>4, <2>5 DEF Saved
  <2>7. next \in 1..MaxVersions /\ Saved \cup {next} = 1..next
    BY <2>1, VersionAssumption DEF Versions
  <2>8. newest' \in 0..MaxVersions /\ undone' \in BOOLEAN
    BY <2>2, <2>3, <2>7, VersionAssumption DEF FateInv
  <2>9. newest' # 0 => newest' \in Saved'
    BY <2>2, <2>6 DEF FateInv
  <2>10. paused' /\ newest' # 0 => Saved' = 1..newest'
    BY <2>2, <2>6, <2>7
  <2>11. ResumeActivatesSaves'
    BY <2>2 DEF FateInv, ResumeActivatesSaves
  <2> QED
    BY <2>8, <2>9, <2>10, <2>11 DEF FateInv
<1>2. ASSUME NEW q \in inFlight, Resume(q)
      PROVE  FateInv'
  <2>1. /\ ~paused' /\ newest' = newest
        /\ undone' = (undone \/ (newest # 0 /\ active = newest /\ Pending # {}))
        /\ PromoteLatestPending
    BY <1>2 DEF Resume
  <2>2. Saved' = Saved
    <3>1. CASE Pending = {}
      BY <2>1, <3>1 DEF PromoteLatestPending, Saved
    <3>2. CASE Pending # {}
      <4>1. Promote(Highest(Pending), version)
        BY <2>1, <3>2 DEF PromoteLatestPending
      <4>2. Highest(Pending) \in Pending
        BY <3>2, HighestOf DEF Pending
      <4>3. \A w \in Versions : version'[w] # "NONE" <=> version[w] # "NONE"
        BY <4>1, <4>2 DEF Promote, Pending, VersionsInv
      <4> QED
        BY <4>3 DEF Saved
    <3> QED
      BY <3>1, <3>2
  <2>3. ASSUME newest # 0, ~undone'
        PROVE  active' = newest
    <3>1. newest \in Saved /\ newest \in Versions
      BY <2>3 DEF FateInv, Saved
    <3>2. version[newest] = "PENDING" \/ active = newest
      BY <3>1 DEF VersionsInv, OneActiveVersion, Saved
    <3>3. CASE Pending = {}
      BY <2>1, <3>1, <3>2, <3>3 DEF PromoteLatestPending, Pending
    <3>4. CASE Pending # {}
      <4>1. active # newest /\ ~undone
        BY <2>1, <2>3, <3>4
      <4>2. paused /\ Saved = 1..newest
        BY <2>3, <4>1 DEF FateInv, ResumeActivatesSaves, PauseInv
      <4>3. newest \in Pending
        BY <3>1, <3>2, <4>1 DEF Pending
      <4>4. Highest(Pending) \in Pending /\ newest <= Highest(Pending)
        BY <3>4, <4>3, HighestOf DEF Pending
      <4>5. Highest(Pending) \in 1..newest
        BY <4>2, <4>4 DEF Pending, Saved
      <4>6. Highest(Pending) = newest
        BY <4>4, <4>5, <3>1, VersionAssumption DEF Versions
      <4> QED
        BY <2>1, <3>4, <4>6 DEF PromoteLatestPending, Promote
    <3> QED
      BY <3>3, <3>4
  <2>4. undone' \in BOOLEAN
    BY <2>1 DEF FateInv
  <2> QED
    BY <2>1, <2>2, <2>3, <2>4 DEF FateInv, ResumeActivatesSaves
<1>3. ASSUME NEW until \in {"never", "later", "due"}, Pause(until)
      PROVE  FateInv'
  <2>1. /\ paused' /\ newest' = (IF paused THEN newest ELSE 0) /\ undone' = FALSE
        /\ UNCHANGED <<version, active>>
    BY <1>3 DEF Pause
  <2>2. Saved' = Saved /\ 0 \in 0..MaxVersions
    BY <2>1, VersionAssumption DEF Saved
  <2> QED
    BY <2>1, <2>2 DEF FateInv, PauseInv, ResumeActivatesSaves
<1>4. ASSUME UNCHANGED <<paused, version, active, newest, undone>>
      PROVE  FateInv'
  BY <1>4 DEF FateInv, ResumeActivatesSaves, Saved
<1>5. ASSUME \/ \E r \in Requests : ReadForSave(r) \/ ReadForResume(r) \/ AttemptAutoResume(r)
             \/ \E q \in inFlight : CheckEligible(q) \/ Abandon(q)
             \/ \E flag \in BOOLEAN : SetDeactivated(flag)
             \/ AskToBook \/ PassGate \/ AnswerBooking
             \/ ReopenComes \/ ExpireOrRenew \/ UNCHANGED vars
      PROVE  UNCHANGED <<paused, version, active, newest, undone>>
  BY <1>5 DEF ReadForSave, ReadForResume, AttemptAutoResume, CheckEligible, Abandon,
     SetDeactivated, AskToBook, PassGate, AnswerBooking, ReopenComes, ExpireOrRenew,
     vars, gates, fate
<1> QED
  BY <1>1, <1>2, <1>3, <1>4, <1>5 DEF Next

-----------------------------------------------------------------------------
LEMMA Invariance == Spec => []IInv
<1>1. Init => IInv
  <2> SUFFICES ASSUME Init PROVE IInv
    OBVIOUS
  <2>1. Saved = 1..0
    BY DEF Init, Saved
  <2>2. 0 \in 0..MaxVersions /\ 0 \notin Versions
    BY VersionAssumption DEF Versions
  <2>3. OneActiveVersion
    BY <2>2 DEF Init, OneActiveVersion
  <2>4. VersionsInv
    BY <2>1, <2>2, <2>3 DEF Init, VersionsInv, SavedInOrder
  <2>5. PauseInv
    BY DEF Init, PauseInv, ReadsStand
  <2>6. looks \in 0..6 /\ shut \in 0..2
    BY DEF Init
  <2>7. GatesInv
    BY <2>6 DEF Init, GatesInv
  <2>8. FateInv
    BY <2>2 DEF Init, FateInv, ResumeActivatesSaves
  <2> QED
    BY <2>4, <2>5, <2>7, <2>8 DEF IInv
<1>2. IInv /\ [Next]_vars => IInv'
  BY VersionsStep, PauseStep, GatesStep, FateStep DEF IInv
<1> QED
  BY <1>1, <1>2, PTL DEF Spec

\* The types, that an open business has no date to reopen at, and that the version
\* of the schedule which is ACTIVE is the one the business points at: every
\* promotion demotes what was active before (demoteActiveVersions).
THEOREM TypeCorrect == Spec => []TypeOK
<1>1. IInv => TypeOK
  BY DEF IInv, VersionsInv, PauseInv, GatesInv, FateInv, TypeOK
<1> QED
  BY <1>1, Invariance, PTL

\* A booking that has passed all six gates met the business open, or two of them
\* were shut while it looked (createBooking, getSlotsForDay).
THEOREM ClosedBusinessRefuses == Spec => []ClosedTakesNoBooking
<1>1. IInv => ClosedTakesNoBooking
  BY DEF IInv, GatesInv, ClosedTakesNoBooking
<1> QED
  BY <1>1, Invariance, PTL

\* A paused business keeps its schedule, but for saves that read the flag before
\* the pause changed (saveTemplate, setPaused).
THEOREM PauseHoldsSchedule == Spec => PausedKeepsSchedule
<1> DEFINE Keeps == paused /\ paused' /\ active' # active =>
                      \E q \in inFlight \ inFlight' : q.op = "save" /\ q.id \in renewed
<1>1. ASSUME IInv, [Next]_vars PROVE [Keeps]_vars
  <2>1. ASSUME NEW q \in inFlight, SaveTemplate(q)
        PROVE  Keeps
    <3>1. q \in inFlight \ inFlight' /\ q.op = "save"
      BY <2>1 DEF SaveTemplate
    <3>2. q.paused => active' = active
      BY <2>1 DEF SaveTemplate
    <3>3. q.id \notin renewed => q.paused = paused
      BY <1>1, <3>1 DEF IInv, PauseInv, ReadsStand
    <3> QED
      BY <3>1, <3>2, <3>3
  <2>2. ASSUME NEW q \in inFlight, Resume(q)
        PROVE  ~paused'
    BY <2>2 DEF Resume
  <2>3. ASSUME \/ \E r \in Requests : ReadForSave(r) \/ ReadForResume(r) \/ AttemptAutoResume(r)
               \/ \E until \in {"never", "later", "due"} : Pause(until)
               \/ \E q \in inFlight : CheckEligible(q) \/ Abandon(q)
               \/ \E flag \in BOOLEAN : SetDeactivated(flag)
               \/ AskToBook \/ PassGate \/ AnswerBooking
               \/ ReopenComes \/ ExpireOrRenew
        PROVE  active' = active
    BY <2>3 DEF ReadForSave, ReadForResume, AttemptAutoResume, Pause, CheckEligible, Abandon,
       SetDeactivated, AskToBook, PassGate, AnswerBooking, ReopenComes, ExpireOrRenew, gates
  <2> QED
    BY <1>1, <2>1, <2>2, <2>3 DEF Next
<1>2. Spec => [][Keeps]_vars
  BY <1>1, Invariance, PTL DEF Spec
<1> QED
  BY <1>2 DEF PausedKeepsSchedule

\* After a pause the newest version saved during it is in force, whichever requests
\* saved and resumed, until a save is promoted; unless a resume found it in force
\* already and gave it up for one that was PENDING (promoteLatestPending).
THEOREM ResumePromotes == Spec => []ResumeActivatesSaves
<1>1. IInv => ResumeActivatesSaves
  BY DEF IInv, FateInv
<1> QED
  BY <1>1, Invariance, PTL

\* A sweep ends a pause that is due, or one that was changed under its hands
\* (attemptAutoResume).
THEOREM SweepsEndDuePauses == Spec => AutoResumeEndsDuePauses
<1> DEFINE EndsDue ==
             \A q \in inFlight \ inFlight' :
               q.op = "auto" /\ q.id \notin renewed /\ paused /\ ~paused' => reopen = "due"
<1>1. ASSUME IInv PROVE EndsDue
  BY <1>1 DEF IInv, PauseInv, ReadsStand
<1>2. Spec => [][EndsDue]_vars
  BY <1>1, Invariance, PTL DEF Spec
<1> QED
  BY <1>2 DEF AutoResumeEndsDuePauses

-----------------------------------------------------------------------------
(***************************************************************************)
(* Offers and conflicts (module Schedule), for any templates, lengths of    *)
(* day, week and services, time zones and numbers of bookings.             *)
(*                                                                         *)
(* What is offered is computed by cutting blocked periods out of windows,   *)
(* what conflicts by comparing the ends of a booking with both.  The two    *)
(* agree (OpenExactly, FitsIsNoConflict): a time that was offered conflicts *)
(* with no version but a later one, and that is all the rest needs to know  *)
(* of a booking (Offered).                                                 *)
(***************************************************************************)

ScheduleTypeOK ==
  /\ offset \in Offsets
  /\ template \in Seq(Templates) /\ Len(template) <= MaxSaved
  /\ inForce \in 0..Len(template)
  /\ booking \in [Bookings -> Slots] /\ request \in [Bookings -> Slots]
  /\ keeping \subseteq [booking : Bookings, version : VersionNos, start : Instants]
  /\ decided \subseteq [booking : Bookings, version : VersionNos, start : Instants]
  /\ excused \subseteq Bookings \X VersionNos

\* A slot within one day that did not conflict with the version it was offered
\* under, unless that version has a special date of another day.
Offered(versions, slot) ==
  /\ slot.length \in Lengths /\ DateOf(slot.start) \in Dates
  /\ TimeOf(slot.start) + slot.length <= DayLength
  /\ slot.under \in DOMAIN versions
  /\ \/ Foreign(versions[slot.under], DateOf(slot.start))
     \/ ~Conflicts(versions[slot.under], slot)

SlotsOffered ==
  \A b \in Bookings :
    /\ booking[b] = NoSlot \/ Offered(template, booking[b])
    /\ request[b] = NoSlot \/ (request[b].state = "held" /\ Offered(template, request[b]))

ExcusedDecided ==
  \A b \in Bookings, v \in VersionNos :
    <<b, v>> \in excused => \E k \in decided : k.booking = b /\ k.version = v

ScheduleInv == ScheduleTypeOK /\ SlotsOffered /\ ExcusedDecided

-----------------------------------------------------------------------------
(* Dates and times.                                                        *)

\* A date and a time of day make an instant of that date and time.
LEMMA DayTime ==
  ASSUME NEW date \in Nat, NEW time \in 0..(DayLength - 1)
  PROVE  /\ Midnight(date) + time \in Nat
         /\ DateOf(Midnight(date) + time) = date
         /\ TimeOf(Midnight(date) + time) = time
<1>1. DayLength \in Nat \ {0}
  BY ScheduleAssumption
<1>2. \A D \in Nat \ {0}, d \in Nat : \A m \in 0..(D - 1) :
        d * D + m \in Nat /\ (d * D + m) \div D = d /\ (d * D + m) % D = m
  OBVIOUS
<1> QED
  BY <1>1, <1>2 DEF Midnight, DateOf, TimeOf

LEMMA InstantParts ==
  ASSUME NEW n \in Nat
  PROVE  /\ DateOf(n) \in Nat /\ TimeOf(n) \in 0..(DayLength - 1)
         /\ n = Midnight(DateOf(n)) + TimeOf(n)
<1>1. DayLength \in Nat \ {0}
  BY ScheduleAssumption
<1>2. \A D \in Nat \ {0} :
        n \div D \in Nat /\ n % D \in 0..(D - 1) /\ n = (n \div D) * D + (n % D)
  OBVIOUS
<1> QED
  BY <1>1, <1>2 DEF Midnight, DateOf, TimeOf

\* Through minuteOfDay, the end of what lasts until midnight is 0.
LEMMA EndTime ==
  ASSUME NEW n \in Nat, NEW length \in Nat \ {0}, TimeOf(n) + length <= DayLength
  PROVE  TimeOf(n + length) = IF TimeOf(n) + length = DayLength THEN 0 ELSE TimeOf(n) + length
<1> DEFINE d == DateOf(n)
           m == TimeOf(n) + length
<1>1. d \in Nat /\ TimeOf(n) \in Nat /\ n = Midnight(d) + TimeOf(n) /\ Midnight(d) \in Int
        /\ DayLength \in Nat \ {0}
  BY InstantParts, ScheduleAssumption DEF Midnight
<1>2. n + length = Midnight(d) + m /\ m \in Nat
  BY <1>1
<1>3. CASE m < DayLength
  <2>1. m \in 0..(DayLength - 1)
    BY <1>1, <1>2, <1>3
  <2> HIDE DEF d, m
  <2>2. TimeOf(n + length) = m
    BY <1>1, <1>2, <2>1, DayTime
  <2> QED
    BY <1>1, <1>2, <1>3, <2>2 DEF m
<1>4. CASE m = DayLength
  <2>1. Midnight(d) + m = Midnight(d + 1) + 0
    BY <1>1, <1>4 DEF Midnight
  <2>2. d + 1 \in Nat /\ 0 \in 0..(DayLength - 1)
    BY <1>1
  <2> HIDE DEF d, m
  <2>3. TimeOf(n + length) = 0
    BY <1>2, <2>1, <2>2, DayTime
  <2> QED
    BY <1>4, <2>3 DEF m
<1> QED
  BY <1>1, <1>3, <1>4

-----------------------------------------------------------------------------
(* Cutting blocked periods out of windows (subtractBlocked).               *)

Windows == [from : Int, to : Int]

LEMMA SpanFacts ==
  ASSUME NEW from, NEW to
  PROVE  Span(from, to).from = from /\ Span(from, to).to = to
  BY DEF Span

LEMMA CutWindows ==
  ASSUME NEW W \in SUBSET Windows, NEW block, block.from \in Int, block.to \in Int
  PROVE  Cut(W, block) \in SUBSET Windows
<1>1. \A v \in Windows : /\ v.from \in Int /\ v.to \in Int
                         /\ Span(v.from, block.from) \in Windows
                         /\ Span(block.to, v.to) \in Windows
  BY DEF Windows, Span
<1> QED
  BY <1>1 DEF Cut

\* A span fits a window that is left of a cut exactly if it fitted one before and
\* does not meet the block.
LEMMA CutExactly ==
  ASSUME NEW W \in SUBSET Windows,
         NEW block, block.from \in Int, block.to \in Int, block.from < block.to,
         NEW s, s.from \in Int, s.to \in Int, s.from < s.to
  PROVE  (\E w \in Cut(W, block) : Within(s, w))
           <=> (\E w \in W : Within(s, w)) /\ ~Meets(s, block)
<1>1. \A v \in W : v.from \in Int /\ v.to \in Int
  BY DEF Windows
<1>2. ASSUME NEW w \in Cut(W, block), Within(s, w)
      PROVE  (\E v \in W : Within(s, v)) /\ ~Meets(s, block)
  <2>1. CASE w \in W /\ ~Meets(w, block)
    BY <1>1, <1>2, <2>1 DEF Within, Meets
  <2>2. ASSUME NEW v \in W, Meets(v, block), v.from < block.from,
               w = Span(v.from, block.from)
        PROVE  Within(s, v) /\ ~Meets(s, block)
    BY <1>1, <1>2, <2>2, SpanFacts DEF Within, Meets
  <2>3. ASSUME NEW v \in W, Meets(v, block), block.to < v.to, w = Span(block.to, v.to)
        PROVE  Within(s, v) /\ ~Meets(s, block)
    BY <1>1, <1>2, <2>3, SpanFacts DEF Within, Meets
  <2> QED
    BY <2>1, <2>2, <2>3 DEF Cut
<1>3. ASSUME NEW v \in W, Within(s, v), ~Meets(s, block)
      PROVE  \E w \in Cut(W, block) : Within(s, w)
  <2>1. CASE ~Meets(v, block)
    BY <1>3, <2>1 DEF Cut
  <2>2. CASE Meets(v, block) /\ s.to <= block.from
    <3>1. v.from < block.from /\ Within(s, Span(v.from, block.from))
      BY <1>1, <1>3, <2>2, SpanFacts DEF Within
    <3>2. Span(v.from, block.from) \in Cut(W, block)
      BY <2>2, <3>1 DEF Cut
    <3> QED
      BY <3>1, <3>2
  <2>3. CASE Meets(v, block) /\ block.to <= s.from
    <3>1. block.to < v.to /\ Within(s, Span(block.to, v.to))
      BY <1>1, <1>3, <2>3, SpanFacts DEF Within
    <3>2. Span(block.to, v.to) \in Cut(W, block)
      BY <2>3, <3>1 DEF Cut
    <3> QED
      BY <3>1, <3>2
  <2>4. s.to <= block.from \/ block.to <= s.from
    BY <1>3 DEF Meets
  <2> QED
    BY <2>1, <2>2, <2>3, <2>4
<1> QED
  BY <1>2, <1>3

\* Induction over numbers, for a set of them.
LEMMA AllNumbers ==
  ASSUME NEW T \in SUBSET Nat, 0 \in T, \A n \in T : n + 1 \in T
  PROVE  T = Nat
<1> SUFFICES ASSUME T # Nat PROVE FALSE
  OBVIOUS
<1> DEFINE U == Nat \ T
<1>1. U \subseteq Nat /\ U # {}
  OBVIOUS
<1>2. PICK x \in U : \A y \in U : ~ (<<y, x>> \in OpToRel(<, Nat))
  <2> HIDE DEF U
  <2> QED
    BY <1>1, NatLessThanWellFounded, WFMin
<1>3. x \in Nat /\ x \notin T
  BY <1>2
<1>4. x # 0
  BY <1>3
<1>5. x - 1 \in Nat /\ x - 1 < x /\ (x - 1) + 1 = x
  BY <1>3, <1>4
<1>6. x - 1 \in T
  BY <1>2, <1>3, <1>5 DEF OpToRel
<1> QED
  BY <1>3, <1>5, <1>6

OneOf(S) == CHOOSE x \in S : TRUE

LEMMA OneLess ==
  ASSUME NEW B, IsFiniteSet(B), NEW S \in SUBSET B
  PROVE  /\ IsFiniteSet(S) /\ Cardinality(S) \in Nat /\ Cardinality(S) <= Cardinality(B)
         /\ S = {} <=> Cardinality(S) = 0
         /\ S # {} => /\ OneOf(S) \in S /\ S \ {OneOf(S)} \in SUBSET B
                      /\ Cardinality(S \ {OneOf(S)}) = Cardinality(S) - 1
<1>1. IsFiniteSet(S) /\ Cardinality(S) <= Cardinality(B)
  BY FS_Subset
<1>2. Cardinality(S) \in Nat /\ Cardinality(B) \in Nat
  BY <1>1, FS_CardinalityType
<1>3. S = {} <=> Cardinality(S) = 0
  BY <1>1, FS_EmptySet
<1>4. ASSUME S # {} PROVE OneOf(S) \in S
  BY <1>4 DEF OneOf
<1>5. ASSUME S # {} PROVE Cardinality(S \ {OneOf(S)}) = Cardinality(S) - 1
  BY <1>1, <1>4, <1>5, FS_RemoveElement
<1> QED
  BY <1>1, <1>2, <1>3, <1>4, <1>5

\* The recursion by which the blocks of a set are cut out one after the other.
CutRest(f, S, W) == IF S = {} THEN W ELSE Cut(f[S \ {OneOf(S)}], OneOf(S))
Cuts(W, B) == CHOOSE f : f = [S \in SUBSET B |-> CutRest(f, S, W)]

LEMMA CutsDefined ==
  ASSUME NEW W, NEW B, IsFiniteSet(B)
  PROVE  Cuts(W, B) = [S \in SUBSET B |-> CutRest(Cuts(W, B), S, W)]
<1> DEFINE Small(n) == {S \in SUBSET B : Cardinality(S) <= n}
           IsCuts(f, n) == f = [S \in Small(n) |-> CutRest(f, S, W)]
           T == {n \in Nat : \E f : IsCuts(f, n)}
<1>0. \A S \in SUBSET B :
        /\ Cardinality(S) \in Nat /\ Cardinality(S) <= Cardinality(B)
        /\ S = {} <=> Cardinality(S) = 0
        /\ S # {} => /\ OneOf(S) \in S /\ S \ {OneOf(S)} \in SUBSET B
                     /\ Cardinality(S \ {OneOf(S)}) = Cardinality(S) - 1
  BY OneLess, Zenon
<1>2. 0 \in T
  <2> DEFINE f == [S \in Small(0) |-> W]
  <2>1. \A S \in Small(0) : S = {}
    <3> TAKE S \in Small(0)
    <3>1. Cardinality(S) \in Nat /\ Cardinality(S) <= 0
      BY <1>0, Zenon
    <3>2. Cardinality(S) = 0
      BY <3>1
    <3> QED
      BY <1>0, <3>2, Zenon
  <2>2. \A S \in Small(0) : CutRest(f, S, W) = W
    BY <2>1 DEF CutRest
  <2>3. IsCuts(f, 0)
    <3> HIDE DEF Small
    <3> QED
      BY <2>2, Zenon
  <2> QED
    BY <2>3, Zenon
<1>3. ASSUME NEW n \in T PROVE n + 1 \in T
  <2>1. PICK g : IsCuts(g, n)
    BY <1>3, Zenon
  <2>2. n \in Nat
    OBVIOUS
  <2>3. \A S \in Small(n + 1) : S # {} => S \ {OneOf(S)} \in Small(n)
    BY <2>2, <1>0
  <2>4. \A S \in Small(n) : S \in Small(n + 1)
    <3> TAKE S \in Small(n)
    <3>1. Cardinality(S) \in Nat /\ Cardinality(S) <= n
      BY <1>0, Zenon
    <3>2. Cardinality(S) <= n + 1
      BY <2>2, <3>1
    <3> QED
      BY <3>2, Zenon
  <2> DEFINE f == [S \in Small(n + 1) |-> CutRest(g, S, W)]
  <2> HIDE DEF Small, T
  <2>5. \A S \in Small(n) : g[S] = CutRest(g, S, W)
    BY <2>1, Zenon
  <2>6. \A S \in Small(n) : f[S] = g[S]
    BY <2>4, <2>5, Zenon
  <2>7. \A S \in Small(n + 1) : CutRest(f, S, W) = CutRest(g, S, W)
    <3> HIDE DEF f
    <3> QED
      BY <2>3, <2>6, Zenon DEF CutRest
  <2>8. IsCuts(f, n + 1)
    BY <2>7, Zenon
  <2>9. n + 1 \in Nat
    BY <2>2
  <2> QED
    BY <2>8, <2>9, Zenon DEF T
<1>4. T = Nat
  <2>1. T \in SUBSET Nat
    OBVIOUS
  <2> HIDE DEF T
  <2> QED
    BY <1>2, <1>3, <2>1, AllNumbers
<1>5. Small(Cardinality(B)) = SUBSET B
  BY <1>0
<1>6. Cardinality(B) \in T
  <2> HIDE DEF T
  <2> QED
    BY <1>4, FS_CardinalityType
<1>7. PICK f : IsCuts(f, Cardinality(B))
  BY <1>6, Zenon
<1>8. f = [S \in SUBSET B |-> CutRest(f, S, W)]
  <2> HIDE DEF Small
  <2> QED
    BY <1>5, <1>7, Zenon
<1> HIDE DEF T, Small
<1> QED
  BY <1>8, Zenon DEF Cuts

\* Cutting all blocks out leaves what meets none of them, in whatever order.
LEMMA CutsExactly ==
  ASSUME NEW W \in SUBSET Windows, NEW B, IsFiniteSet(B),
         \A b \in B : b.from \in Int /\ b.to \in Int /\ b.from < b.to,
         NEW s, s.from \in Int, s.to \in Int, s.from < s.to
  PROVE  (\E w \in Cuts(W, B)[B] : Within(s, w))
           <=> (\E w \in W : Within(s, w)) /\ \A b \in B : ~Meets(s, b)
<1> DEFINE left == Cuts(W, B)
           Fitting(S) == \E w \in left[S] : Within(s, w)
           Unblocked(S) == (\E w \in W : Within(s, w)) /\ \A b \in S : ~Meets(s, b)
           Right(S) == left[S] \in SUBSET Windows /\ (Fitting(S) <=> Unblocked(S))
           T == {n \in Nat : \A S \in SUBSET B : Cardinality(S) = n => Right(S)}
<1>0. \A S \in SUBSET B :
        /\ Cardinality(S) \in Nat /\ Cardinality(S) <= Cardinality(B)
        /\ S = {} <=> Cardinality(S) = 0
        /\ S # {} => /\ OneOf(S) \in S /\ S \ {OneOf(S)} \in SUBSET B
                     /\ Cardinality(S \ {OneOf(S)}) = Cardinality(S) - 1
  BY OneLess, Zenon
<1>1. \A S \in SUBSET B : left[S] = CutRest(left, S, W)
  <2>1. left = [S \in SUBSET B |-> CutRest(left, S, W)]
    BY CutsDefined, Zenon
  <2> HIDE DEF left
  <2> QED
    BY <2>1, Zenon
<1> HIDE DEF left
<1>3. 0 \in T
  <2>1. left[{}] = W
    BY <1>1 DEF CutRest
  <2>2. Right({})
    BY <2>1, Zenon
  <2> HIDE DEF Right
  <2>3. \A S \in SUBSET B : Cardinality(S) = 0 => S = {}
    BY <1>0
  <2> QED
    BY <2>2, <2>3
<1>4. ASSUME NEW n \in T PROVE n + 1 \in T
  <2> SUFFICES ASSUME NEW S \in SUBSET B, Cardinality(S) = n + 1 PROVE Right(S)
    <3> HIDE DEF Right
    <3> QED
      OBVIOUS
  <2> DEFINE x == OneOf(S)
             R == S \ {x}
  <2>1. n \in Nat /\ S # {}
    <3>1. n \in Nat
      BY Zenon
    <3>2. n + 1 # 0
      BY <3>1
    <3> QED
      BY <1>0, <3>1, <3>2, Zenon
  <2>2. x \in B /\ x \in S /\ R \in SUBSET B /\ Cardinality(R) = n
    BY <1>0, <2>1
  <2>3. Right(R)
    <3> HIDE DEF Right, R
    <3> QED
      BY <1>4, <2>2
  <2>4. left[S] = Cut(left[R], x)
    BY <1>1, <2>1 DEF CutRest
  <2>5. x.from \in Int /\ x.to \in Int /\ x.from < x.to
    BY <2>2
  <2>6. left[S] \in SUBSET Windows
    BY <2>3, <2>4, <2>5, CutWindows
  <2>7. Fitting(S) <=> Fitting(R) /\ ~Meets(s, x)
    <3> HIDE DEF R, x
    <3> QED
      BY <2>3, <2>4, <2>5, CutExactly
  <2>8. Unblocked(S) <=> Unblocked(R) /\ ~Meets(s, x)
    BY <2>2, Zenon
  <2> HIDE DEF Fitting, Unblocked
  <2> QED
    BY <2>3, <2>6, <2>7, <2>8
<1>5. T = Nat
  <2> HIDE DEF Right
  <2>1. T \in SUBSET Nat
    OBVIOUS
  <2> HIDE DEF T
  <2> QED
    BY <1>3, <1>4, <2>1, AllNumbers
<1>6. Cardinality(B) \in T
  <2> HIDE DEF T
  <2> QED
    BY <1>5, FS_CardinalityType
<1>7. Right(B)
  <2> HIDE DEF Right
  <2> QED
    BY <1>6
<1> QED
  BY <1>7 DEF left

-----------------------------------------------------------------------------
(* What is open (computeAvailableSlotStarts).                              *)

\* What the assumption about templates says of one.
LEMMA TemplateFacts ==
  ASSUME NEW t \in Templates
  PROVE  /\ \A w \in t.working : w.from \in Minutes /\ w.to \in Minutes
         /\ \A b \in t.blocked : /\ b.from \in Minutes /\ b.to \in Minutes
                                 /\ b.from < b.to \/ b.from = 0 \/ b.to = DayLength
         /\ IsFiniteSet(t.blocked)
         /\ DOMAIN t.special \in SUBSET Nat
         /\ \A i \in DOMAIN t.special :
              /\ t.special[i].kind \in {"CLOSED", "CUSTOM"}
              /\ t.special[i].from \in Minutes /\ t.special[i].to \in Minutes
         /\ \A i, j \in DOMAIN t.special :
              t.special[i].date = t.special[j].date => i = j
<1>1. ValidTemplate(t)
  BY ScheduleAssumption
<1>2. /\ t.special \in Seq([date : Nat, kind : {"CLOSED", "CUSTOM"},
                            from : Minutes, to : Minutes])
      /\ \A i, j \in DOMAIN t.special :
           t.special[i].date = t.special[j].date => i = j
  BY <1>1 DEF ValidTemplate
<1>3. /\ \A w \in t.working : w.from \in Minutes /\ w.to \in Minutes
      /\ \A b \in t.blocked : /\ b.from \in Minutes /\ b.to \in Minutes
                              /\ b.from < b.to \/ b.from = 0 \/ b.to = DayLength
      /\ IsFiniteSet(t.blocked)
  BY <1>1 DEF ValidTemplate
<1>4. \A i \in DOMAIN t.special :
        /\ i \in Nat
        /\ t.special[i].kind \in {"CLOSED", "CUSTOM"}
        /\ t.special[i].from \in Minutes /\ t.special[i].to \in Minutes
  <2> DEFINE T == [date : Nat, kind : {"CLOSED", "CUSTOM"}, from : Minutes, to : Minutes]
  <2>1. \A s \in Seq(T) : \A i \in DOMAIN s : i \in Nat /\ s[i] \in T
    <3> HIDE DEF T
    <3> QED
      OBVIOUS
  <2>2. \A r \in T : r.kind \in {"CLOSED", "CUSTOM"} /\ r.from \in Minutes /\ r.to \in Minutes
    OBVIOUS
  <2>3. t.special \in Seq(T)
    BY <1>2
  <2> HIDE DEF T
  <2> QED
    BY <2>1, <2>2, <2>3
<1> QED
  BY <1>2, <1>3, <1>4

\* Numbers that are some have a least one.
LEMMA LeastOf ==
  ASSUME NEW S \in SUBSET Nat, S # {}
  PROVE  Min(S) \in S
<1>1. PICK x \in S : \A y \in S : ~ (<<y, x>> \in OpToRel(<, Nat))
  BY NatLessThanWellFounded, WFMin
<1>2. \A y \in S : ~(y < x)
  BY <1>1 DEF OpToRel
<1>3. \A y \in S : x <= y
  BY <1>2
<1> QED
  BY <1>3 DEF Min

LEMMA WorkingInDay ==
  ASSUME NEW t \in Templates, NEW date
  PROVE  \A w \in WorkingWindows(t, date) : w \in Windows /\ 0 <= w.from /\ w.to <= DayLength
<1> DEFINE custom == {i \in DOMAIN t.special : t.special[i].kind = "CUSTOM"}
           first == Span(t.special[Min(custom)].from, t.special[Min(custom)].to)
<1>1. \A from, to \in Minutes :
        Span(from, to) \in Windows /\ 0 <= Span(from, to).from /\ Span(from, to).to <= DayLength
  BY ScheduleAssumption DEF Span, Windows, Minutes
<1>2. ASSUME custom # {}
      PROVE  first \in Windows /\ 0 <= first.from /\ first.to <= DayLength
  <2>1. custom \in SUBSET Nat
    BY TemplateFacts
  <2>2. Min(custom) \in custom
    BY <1>2, <2>1, LeastOf
  <2> QED
    BY <1>1, <2>2, TemplateFacts
<1>3. \A w \in t.working : /\ Span(w.from, w.to) \in Windows
                           /\ 0 <= Span(w.from, w.to).from
                           /\ Span(w.from, w.to).to <= DayLength
  BY <1>1, TemplateFacts
<1>4. TAKE w \in WorkingWindows(t, date)
<1>5. \/ custom # {} /\ w = first
      \/ \E p \in t.working : w = Span(p.from, p.to)
  BY Zenon DEF WorkingWindows
<1> HIDE DEF custom, first
<1> QED
  BY <1>2, <1>3, <1>5

\* The windows that are open are what cutting out the blocked periods leaves.
LEMMA OpenIsCuts ==
  ASSUME NEW t, NEW date
  PROVE  LET B == {b \in BlocksOf(t, date) : b.from < b.to}
         IN  OpenWindows(t, date) = Cuts(WorkingWindows(t, date), B)[B]
  BY DEF OpenWindows, FoldSet, MapThenFoldSet, Cuts, CutRest, OneOf

\* A span fits a window that is open exactly if it fits a working window and meets
\* no blocked period that is not empty.
LEMMA OpenExactly ==
  ASSUME NEW t \in Templates, NEW date,
         NEW s, s.from \in Int, s.to \in Int, s.from < s.to
  PROVE  (\E w \in OpenWindows(t, date) : Within(s, w))
           <=> /\ \E w \in WorkingWindows(t, date) : Within(s, w)
               /\ \A b \in BlocksOf(t, date) : b.from < b.to => ~Meets(s, b)
<1> DEFINE B == {b \in BlocksOf(t, date) : b.from < b.to}
           W == WorkingWindows(t, date)
<1>1. OpenWindows(t, date) = Cuts(W, B)[B]
  BY OpenIsCuts, Zenon
<1>2. W \in SUBSET Windows
  <2>1. \A w \in W : w \in Windows
    BY WorkingInDay, Zenon
  <2> HIDE DEF W
  <2> QED
    BY <2>1
<1>3. IsFiniteSet(B)
  <2>1. B \in SUBSET t.blocked
    BY DEF BlocksOf
  <2> HIDE DEF B
  <2> QED
    BY <2>1, TemplateFacts, FS_Subset
<1>4. \A b \in B : b.from \in Int /\ b.to \in Int /\ b.from < b.to
  BY TemplateFacts, ScheduleAssumption DEF BlocksOf, Minutes
<1>5. (\A b \in B : ~Meets(s, b))
        <=> \A b \in BlocksOf(t, date) : b.from < b.to => ~Meets(s, b)
  OBVIOUS
<1> HIDE DEF B, W
<1>6. (\E w \in Cuts(W, B)[B] : Within(s, w))
        <=> (\E w \in W : Within(s, w)) /\ \A b \in B : ~Meets(s, b)
  BY <1>2, <1>3, <1>4, CutsExactly
<1> QED
  BY <1>1, <1>5, <1>6, Zenon DEF W

\* Unless a special date is of another day, the windows of a date are its hours.
LEMMA HoursOfDay ==
  ASSUME NEW t \in Templates, NEW date, ~Foreign(t, date)
  PROVE  WorkingWindows(t, date) = Hours(t, date)
<1> DEFINE special == t.special
           D == DOMAIN special
           custom == {i \in D : special[i].kind = "CUSTOM"}
<1>1. \A i \in D : special[i].date = date
  BY DEF Foreign
<1>2. \A i, j \in D : i = j
  BY <1>1, TemplateFacts
<1>3. SpecialOf(t, date) = D
  BY <1>1 DEF SpecialOf
<1>4. CASE D = {}
  BY <1>3, <1>4 DEF WorkingWindows, Hours
<1>5. ASSUME NEW i \in D, special[i].kind = "CLOSED"
      PROVE  WorkingWindows(t, date) = Hours(t, date)
  <2>1. custom = {}
    BY <1>2, <1>5
  <2>2. Hours(t, date) = {}
    BY <1>3, <1>5, <2>1 DEF Hours
  <2> QED
    BY <1>5, <2>2 DEF WorkingWindows
<1>6. ASSUME NEW i \in D, special[i].kind = "CUSTOM"
      PROVE  WorkingWindows(t, date) = Hours(t, date)
  <2>1. custom = {i}
    BY <1>2, <1>6
  <2>2. D \in SUBSET Nat
    BY TemplateFacts
  <2>3. Min(custom) = i
    BY <2>1, <2>2, LeastOf
  <2>4. Hours(t, date) = {Span(special[i].from, special[i].to)}
    BY <1>3, <1>6, <2>1 DEF Hours
  <2>5. ~\E j \in D : special[j].kind = "CLOSED"
    BY <1>2, <1>6
  <2>6. WorkingWindows(t, date) = {Span(special[i].from, special[i].to)}
    <3>1. WorkingWindows(t, date) = {Span(special[Min(custom)].from, special[Min(custom)].to)}
      BY <2>1, <2>5, Zenon DEF WorkingWindows
    <3> QED
      BY <3>1, <2>3, Zenon
  <2> QED
    BY <2>4, <2>6
<1>7. \A i \in D : special[i].kind \in {"CLOSED", "CUSTOM"}
  BY TemplateFacts
<1> QED
  BY <1>4, <1>5, <1>6, <1>7

LEMMA BlocksInDay ==
  ASSUME NEW t \in Templates, NEW date
  PROVE  \A b \in BlocksOf(t, date) :
           /\ b.from \in Int /\ b.to \in Int /\ 0 <= b.from /\ b.to <= DayLength
           /\ 0 <= b.to /\ b.from <= DayLength
           /\ b.from < b.to \/ b.from = 0 \/ b.to = DayLength
  BY TemplateFacts, ScheduleAssumption DEF BlocksOf, Minutes

\* No moment of a slot is blocked exactly if it meets no period that is not empty.
LEMMA FitsExactly ==
  ASSUME NEW t \in Templates, NEW slot, slot.start \in Nat, slot.length \in Nat \ {0}
  PROVE  LET date == DateOf(slot.start)
             s == Span(TimeOf(slot.start), TimeOf(slot.start) + slot.length)
         IN  Fits(t, slot) <=>
               /\ \E w \in Hours(t, date) : Within(s, w)
               /\ \A b \in BlocksOf(t, date) : b.from < b.to => ~Meets(s, b)
<1> DEFINE date == DateOf(slot.start)
           from == TimeOf(slot.start)
           s == Span(from, from + slot.length)
           blocks == BlocksOf(t, date)
           some == \E w \in Hours(t, date) : Within(s, w)
<1>1. from \in Nat
  BY InstantParts, ScheduleAssumption
<1>2. \A b \in blocks : b.from \in Int /\ b.to \in Int
  BY BlocksInDay
<1>3. s.from = from /\ s.to = from + slot.length
  BY SpanFacts
<1>4. ASSUME NEW b \in blocks,
             \A m \in from..(from + slot.length - 1) : ~(b.from <= m /\ m < b.to),
             b.from < b.to
      PROVE  ~Meets(s, b)
  <2> SUFFICES ASSUME from < b.to, b.from < from + slot.length PROVE FALSE
    BY <1>3 DEF Meets
  <2> DEFINE m == IF from < b.from THEN b.from ELSE from
  <2> QED
    <3> HIDE DEF from, s, blocks
    <3>1. m \in from..(from + slot.length - 1) /\ b.from <= m /\ m < b.to
      BY <1>1, <1>2, <1>4
    <3> QED
      BY <1>4, <3>1
<1>5. ASSUME NEW b \in blocks, b.from < b.to => ~Meets(s, b),
             NEW m \in from..(from + slot.length - 1), b.from <= m, m < b.to
      PROVE  FALSE
  <2> HIDE DEF from, s, blocks
  <2> QED
    BY <1>1, <1>2, <1>3, <1>5 DEF Meets
<1>6. (\A m \in from..(from + slot.length - 1) : ~\E b \in blocks : b.from <= m /\ m < b.to)
        <=> \A b \in blocks : b.from < b.to => ~Meets(s, b)
  <2> HIDE DEF from, s, blocks
  <2> QED
    BY <1>4, <1>5
<1>7. Fits(t, slot) <=>
        /\ some
        /\ \A m \in from..(from + slot.length - 1) :
             ~\E b \in blocks : b.from <= m /\ m < b.to
  BY Zenon DEF Fits
<1> HIDE DEF some, from, blocks
<1> QED
  BY <1>6, <1>7, Zenon DEF some, from, blocks

LEMMA HoursInDay ==
  ASSUME NEW t \in Templates, NEW date
  PROVE  \A w \in Hours(t, date) :
           /\ w.from \in Int /\ w.to \in Int /\ 0 <= w.to /\ w.to <= DayLength
<1>1. \A from, to \in Minutes :
        LET w == Span(from, to)
        IN  w.from \in Int /\ w.to \in Int /\ 0 <= w.to /\ w.to <= DayLength
  BY ScheduleAssumption DEF Span, Minutes
<1> QED
  BY <1>1, TemplateFacts DEF Hours, SpecialOf

\* A booking conflicts if it does not fit, and only then; one that lasts until
\* midnight need not.
LEMMA FitsIsNoConflict ==
  ASSUME NEW t \in Templates, NEW slot, slot.start \in Nat, slot.length \in Nat \ {0},
         TimeOf(slot.start) + slot.length <= DayLength
  PROVE  /\ Fits(t, slot) => ~Conflicts(t, slot)
         /\ ~Fits(t, slot) =>
              Conflicts(t, slot) \/ TimeOf(slot.start + slot.length) = 0
<1> DEFINE date == DateOf(slot.start)
           from == TimeOf(slot.start)
           to == TimeOf(slot.start + slot.length)
           s == Span(from, from + slot.length)
           e == Span(from, to)
<1>1. from \in Nat /\ DayLength \in Nat /\ from + slot.length <= DayLength
  BY InstantParts, ScheduleAssumption
<1>2. to = IF from + slot.length = DayLength THEN 0 ELSE from + slot.length
  BY EndTime
<1>3. s.from = from /\ s.to = from + slot.length /\ e.from = from /\ e.to = to
  BY SpanFacts
<1>4. Fits(t, slot) <=>
        /\ \E w \in Hours(t, date) : Within(s, w)
        /\ \A b \in BlocksOf(t, date) : b.from < b.to => ~Meets(s, b)
  BY FitsExactly
<1>5. Conflicts(t, slot) <=>
        \/ ~\E w \in Hours(t, date) : Within(e, w)
        \/ \E b \in BlocksOf(t, date) : Meets(e, b)
  BY DEF Conflicts
<1> HIDE DEF from, to, s, e
<1>6. \A w \in Hours(t, date) : Within(s, w) => Within(e, w)
  BY <1>1, <1>2, <1>3, HoursInDay DEF Within
<1>7. \A b \in BlocksOf(t, date) : Meets(e, b) => b.from < b.to /\ Meets(s, b)
  <2> TAKE b \in BlocksOf(t, date)
  <2>1. /\ b.from \in Int /\ b.to \in Int /\ 0 <= b.from /\ b.to <= DayLength
        /\ 0 <= b.to /\ b.from <= DayLength
        /\ b.from < b.to \/ b.from = 0 \/ b.to = DayLength
    BY BlocksInDay
  <2> QED
    BY <1>1, <1>2, <1>3, <2>1 DEF Meets
<1>8. Fits(t, slot) => ~Conflicts(t, slot)
  BY <1>4, <1>5, <1>6, <1>7
<1>9. ASSUME to # 0 PROVE ~Fits(t, slot) => Conflicts(t, slot)
  <2>1. to = from + slot.length
    BY <1>2, <1>9
  <2>2. s = e
    BY <2>1 DEF s, e
  <2> QED
    BY <1>4, <1>5, <2>2
<1> QED
  BY <1>8, <1>9 DEF to

-----------------------------------------------------------------------------
(* What is offered (getSlotsForDay).                                       *)

\* On a date that no special date is mistaken for, a slot fits exactly if it has
\* its place in an open window; and ends by midnight.
LEMMA OpenSlots ==
  ASSUME NEW t \in Templates, NEW date \in Nat, NEW time \in 0..(DayLength - 1),
         NEW length \in Nat \ {0},
         NEW slot, slot.start = Midnight(date) + time, slot.length = length
  PROVE  LET s == Span(time, time + length)
             open == \E w \in OpenWindows(t, date) : Within(s, w)
         IN  /\ open => time + length <= DayLength
             /\ ~Foreign(t, date) => (open <=> Fits(t, slot))
<1> DEFINE s == Span(time, time + length)
           open == \E w \in OpenWindows(t, date) : Within(s, w)
           unblocked == \A b \in BlocksOf(t, date) : b.from < b.to => ~Meets(s, b)
<1>1. time \in Int /\ DayLength \in Nat
  BY ScheduleAssumption
<1>2. s.from = time /\ s.to = time + length
  BY SpanFacts
<1>3. open <=> (\E w \in WorkingWindows(t, date) : Within(s, w)) /\ unblocked
  <2>1. s.from \in Int /\ s.to \in Int /\ s.from < s.to
    BY <1>1, <1>2
  <2> HIDE DEF s
  <2> QED
    BY <2>1, OpenExactly
<1>4. DateOf(slot.start) = date /\ TimeOf(slot.start) = time /\ slot.start \in Nat
  BY DayTime
<1>5. Fits(t, slot) <=> (\E w \in Hours(t, date) : Within(s, w)) /\ unblocked
  BY <1>4, FitsExactly
<1>6. ASSUME open PROVE time + length <= DayLength
  <2>1. PICK w \in WorkingWindows(t, date) : Within(s, w)
    BY <1>3, <1>6
  <2>2. w.to <= DayLength /\ w.to \in Int
    BY <2>1, WorkingInDay DEF Windows
  <2> HIDE DEF s
  <2> QED
    BY <1>1, <1>2, <2>1, <2>2 DEF Within
<1> HIDE DEF open, unblocked, s
<1>7. ASSUME ~Foreign(t, date) PROVE open <=> Fits(t, slot)
  BY <1>3, <1>5, <1>7, HoursOfDay
<1> QED
  BY <1>6, <1>7 DEF open, s

LEMMA TwoOf ==
  ASSUME NEW m \in Int, NEW n \in Int
  PROVE  /\ Max({m, n}) = IF m < n THEN n ELSE m
         /\ Min({m, n}) = IF m < n THEN m ELSE n
<1>1. Max({m, n}) \in {m, n} /\ \A y \in {m, n} : Max({m, n}) >= y
  <2>1. \E x \in {m, n} : \A y \in {m, n} : x >= y
    OBVIOUS
  <2> QED
    BY <2>1 DEF Max
<1>2. Min({m, n}) \in {m, n} /\ \A y \in {m, n} : Min({m, n}) <= y
  <2>1. \E x \in {m, n} : \A y \in {m, n} : x <= y
    OBVIOUS
  <2> QED
    BY <2>1 DEF Min
<1> HIDE DEF Max, Min
<1> QED
  BY <1>1, <1>2

\* The slot meets a booking, as if every booking began `shift' earlier than it does.
ShiftedTaken(slot, shift) ==
  \E b \in Bookings : /\ \/ booking[b].state = "held"
                         \/ /\ booking[b].state = "rejected"
                            /\ DateOf(booking[b].start) = DateOf(slot.start)
                      /\ Meets(Span(booking[b].start - shift,
                                    booking[b].start + booking[b].length - shift),
                               Window(slot))

\* Clipping the busy spans to the day hides none that a slot within the day meets.
LEMMA OccupiedExactly ==
  ASSUME ScheduleTypeOK, NEW date \in Nat, NEW time \in 0..(DayLength - 1),
         NEW length \in Nat \ {0}, time + length <= DayLength,
         NEW slot, slot.start = Midnight(date) + time, slot.length = length
  PROVE  (\E s \in OccupiedSpans(date) : Meets(s, Span(time, time + length)))
           <=> ShiftedTaken(slot, offset)
<1> DEFINE dawn == Midnight(date) + offset
           s == Span(time, time + length)
           from(b) == booking[b].start - dawn
           to(b) == booking[b].start + booking[b].length - dawn
           clipped(b) == Span(Max({0, from(b)}), Min({DayLength, to(b)}))
           busy(b) == \/ booking[b].state = "held" /\ Meets(Window(booking[b]), Span(dawn, dawn + DayLength))
                      \/ booking[b].state \in {"held", "rejected"} /\ DateOf(booking[b].start) = date
           taken(b) == /\ \/ booking[b].state = "held"
                          \/ booking[b].state = "rejected" /\ DateOf(booking[b].start) = date
                       /\ Meets(Span(booking[b].start - offset,
                                     booking[b].start + booking[b].length - offset),
                                Window(slot))
<1>1. /\ DayLength \in Nat \ {0} /\ offset \in Int /\ Midnight(date) \in Int /\ dawn \in Int
      /\ time \in Int /\ 0 <= time /\ time < DayLength
  BY ScheduleAssumption DEF ScheduleTypeOK, Midnight
<1>2. \A b \in Bookings : booking[b].start \in Int /\ booking[b].length \in Int
  <2>1. Instants \in SUBSET Int /\ (Lengths \cup {0}) \in SUBSET Int
    BY ScheduleAssumption DEF Instants
  <2>2. \A b \in Bookings : booking[b].start \in Instants
                           /\ booking[b].length \in Lengths \cup {0}
    BY DEF ScheduleTypeOK, Slots
  <2> QED
    BY <2>1, <2>2
<1>3. DateOf(slot.start) = date
  BY DayTime
<1>4. \A b \in Bookings : busy(b) /\ Meets(clipped(b), s) <=> taken(b)
  <2> TAKE b \in Bookings
  <2> DEFINE f == booking[b].start
             l == booking[b].length
  <2>1. f \in Int /\ l \in Int
    BY <1>2
  <2>2. from(b) = f - dawn /\ to(b) = f + l - dawn /\ from(b) \in Int /\ to(b) \in Int
    BY <1>1, <2>1
  <2>3. Meets(clipped(b), s) <=> f - dawn < time + length /\ time < f + l - dawn
    <3>1. /\ Max({0, from(b)}) = IF 0 < from(b) THEN from(b) ELSE 0
          /\ Min({DayLength, to(b)}) = IF DayLength < to(b) THEN DayLength ELSE to(b)
      <4>1. \A m, n \in Int : /\ Max({m, n}) = IF m < n THEN n ELSE m
                              /\ Min({m, n}) = IF m < n THEN m ELSE n
        BY TwoOf
      <4>2. 0 \in Int /\ DayLength \in Int
        BY <1>1
      <4> HIDE DEF from, to
      <4> QED
        BY <2>2, <4>1, <4>2, Zenon
    <3>2. Meets(clipped(b), s) <=> /\ Max({0, from(b)}) < time + length
                                   /\ time < Min({DayLength, to(b)})
      BY SpanFacts DEF Meets
    <3> HIDE DEF from, to, clipped, s, dawn, f, l
    <3> QED
      BY <1>1, <2>1, <2>2, <3>1, <3>2
  <2>4. Meets(Span(f - offset, f + l - offset), Window(slot))
          <=> f - dawn < time + length /\ time < f + l - dawn
    <3>1. Meets(Span(f - offset, f + l - offset), Window(slot))
            <=> /\ f - offset < Midnight(date) + time + length
                /\ Midnight(date) + time < f + l - offset
      BY SpanFacts DEF Meets, Window
    <3> HIDE DEF f, l
    <3> QED
      BY <1>1, <2>1, <3>1
  <2>5. f - dawn < time + length /\ time < f + l - dawn =>
          Meets(Window(booking[b]), Span(dawn, dawn + DayLength))
    <3>1. Meets(Window(booking[b]), Span(dawn, dawn + DayLength))
            <=> f < dawn + DayLength /\ dawn < f + l
      BY SpanFacts DEF Meets, Window
    <3> HIDE DEF f, l, dawn
    <3> QED
      BY <1>1, <2>1, <3>1
  <2> QED
    BY <2>3, <2>4, <2>5, Zenon
<1>5. (\E r \in OccupiedSpans(date) : Meets(r, s))
        <=> \E b \in Bookings : busy(b) /\ Meets(clipped(b), s)
  <2>1. OccupiedSpans(date) = {clipped(b) : b \in {c \in Bookings : busy(c)}}
    <3>1. OccupiedSpans(date) =
            {clipped(b) : b \in
               {c \in Bookings : booking[c].state = "held"
                                 /\ Meets(Window(booking[c]), Span(dawn, dawn + DayLength))}
               \cup {c \in Bookings : booking[c].state \in {"held", "rejected"}
                                      /\ DateOf(booking[c].start) = date}}
      BY Zenon DEF OccupiedSpans
    <3> QED
      BY <3>1, Zenon
  <2> HIDE DEF clipped, busy, s
  <2> QED
    BY <2>1
<1>6. ShiftedTaken(slot, offset) <=> \E b \in Bookings : taken(b)
  BY <1>3, Zenon DEF ShiftedTaken
<1> HIDE DEF busy, clipped, taken
<1> QED
  BY <1>4, <1>5, <1>6, Zenon

\* The template in force is one of those saved, and those are valid.
LEMMA InForceSaved ==
  ASSUME ScheduleTypeOK, inForce # 0
  PROVE  inForce \in DOMAIN template /\ template[inForce] \in Templates
<1>1. template \in Seq(Templates) /\ inForce \in 0..Len(template)
  BY DEF ScheduleTypeOK
<1>2. inForce \in 1..Len(template)
  BY <1>1
<1> QED
  BY <1>1, <1>2

\* Bookings lie within a day, so only those of its date can meet a slot within one,
\* and under UTC nothing is shifted.
LEMMA TakenUnshifted ==
  ASSUME ScheduleInv, NEW date \in Nat, NEW time \in 0..(DayLength - 1),
         NEW length \in Nat \ {0}, time + length <= DayLength,
         NEW slot, slot.start = Midnight(date) + time, slot.length = length
  PROVE  ShiftedTaken(slot, 0) <=> Taken(slot)
<1>1. DayLength \in Nat \ {0} /\ DateOf(slot.start) = date
  BY ScheduleAssumption, DayTime
<1>2. \A D \in Nat \ {0}, d, e \in Nat : d < e => d * D + D <= e * D
  <2> TAKE D \in Nat \ {0}, d, e \in Nat
  <2>1. \A k \in Nat : (d + 1 + k) * D = d * D + D + k * D /\ k * D >= 0
    OBVIOUS
  <2>2. d < e => e = d + 1 + (e - d - 1) /\ e - d - 1 \in Nat
    OBVIOUS
  <2>3. d * D \in Nat /\ e * D \in Nat
    OBVIOUS
  <2> QED
    BY <2>1, <2>2, <2>3
<1>3. ASSUME NEW b \in Bookings, booking[b].state \in {"held", "rejected"}
      PROVE  /\ booking[b].start \in Int /\ booking[b].length \in Int
             /\ Meets(Window(booking[b]), Window(slot)) => DateOf(booking[b].start) = date
  <2> DEFINE f == booking[b].start
             l == booking[b].length
             d == DateOf(booking[b].start)
  <2>1. Offered(template, booking[b]) /\ f \in Nat /\ l \in Nat \ {0}
    <3>1. booking[b] # NoSlot
      BY <1>3 DEF NoSlot
    <3>2. Offered(template, booking[b]) /\ booking[b] \in Slots
      BY <3>1 DEF ScheduleInv, SlotsOffered, ScheduleTypeOK
    <3>3. f \in Instants /\ l \in Lengths
      BY <3>2 DEF Offered, Slots
    <3>4. Instants \in SUBSET Nat /\ Lengths \in SUBSET (Nat \ {0})
      BY ScheduleAssumption DEF Instants
    <3> QED
      BY <3>2, <3>3, <3>4
  <2>2. /\ d \in Nat /\ TimeOf(f) \in 0..(DayLength - 1) /\ f = Midnight(d) + TimeOf(f)
    BY <2>1, InstantParts
  <2>3. TimeOf(f) + l <= DayLength
    BY <2>1 DEF Offered
  <2>4. Meets(Window(booking[b]), Window(slot))
          <=> f < Midnight(date) + time + length /\ Midnight(date) + time < f + l
    BY SpanFacts DEF Meets, Window
  <2>5. /\ d < date => Midnight(d) + DayLength <= Midnight(date)
        /\ date < d => Midnight(date) + DayLength <= Midnight(d)
        /\ Midnight(d) \in Int /\ Midnight(date) \in Int
    BY <1>1, <1>2, <2>2 DEF Midnight
  <2> HIDE DEF f, l, d
  <2>6. f < Midnight(date) + time + length /\ Midnight(date) + time < f + l => d = date
    BY <1>1, <2>1, <2>2, <2>3, <2>5
  <2> QED
    BY <2>1, <2>4, <2>6 DEF f, l, d
<1>4. \A b \in Bookings : booking[b].state \in {"held", "rejected"} =>
        Span(booking[b].start - 0, booking[b].start + booking[b].length - 0) = Window(booking[b])
  BY <1>3 DEF Window
<1> QED
  BY <1>1, <1>3, <1>4 DEF ShiftedTaken, Taken

LEMMA OffersRight ==
  ASSUME ScheduleInv
  PROVE  OffersAreRight
<1> SUFFICES ASSUME inForce # 0, NEW date \in Dates, NEW length \in Lengths,
                    ~Foreign(template[inForce], date)
             PROVE  LET fitting == {time \in 0..(DayLength - 1) :
                          /\ time % Interval = 0
                          /\ Fits(template[inForce], SlotAt(date, time, length))}
                    IN  /\ Offers(date, length) \subseteq fitting
                        /\ offset = 0 =>
                             Offers(date, length) =
                               {time \in fitting : ~Taken(SlotAt(date, time, length))}
  BY Zenon DEF OffersAreRight
<1> DEFINE open(time) == \E w \in OpenWindows(template[inForce], date) :
                           Within(Span(time, time + length), w)
           free(time) == \A s \in OccupiedSpans(date) : ~Meets(s, Span(time, time + length))
           fits(time) == Fits(template[inForce], SlotAt(date, time, length))
           taken(time) == Taken(SlotAt(date, time, length))
<1>1. /\ date \in Nat /\ length \in Nat \ {0} /\ template[inForce] \in Templates
      /\ ScheduleTypeOK
  BY InForceSaved, ScheduleAssumption DEF Dates, ScheduleInv
<1>2. \A time \in 0..(DayLength - 1) :
        /\ open(time) <=> fits(time)
        /\ open(time) /\ offset = 0 => (free(time) <=> ~taken(time))
  <2> TAKE time \in 0..(DayLength - 1)
  <2> DEFINE slot == SlotAt(date, time, length)
  <2>1. slot.start = Midnight(date) + time /\ slot.length = length
    BY DEF SlotAt, NoSlot
  <2> HIDE DEF slot
  <2>2. (open(time) => time + length <= DayLength) /\ (open(time) <=> Fits(template[inForce], slot))
    BY <1>1, <2>1, OpenSlots, Zenon
  <2>3. time + length <= DayLength /\ offset = 0 => (free(time) <=> ~Taken(slot))
    <3> SUFFICES ASSUME time + length <= DayLength, offset = 0 PROVE free(time) <=> ~Taken(slot)
      OBVIOUS
    <3>1. (\E s \in OccupiedSpans(date) : Meets(s, Span(time, time + length)))
            <=> ShiftedTaken(slot, offset)
      BY <1>1, <2>1, OccupiedExactly
    <3>2. ShiftedTaken(slot, 0) <=> Taken(slot)
      BY <1>1, <2>1, TakenUnshifted
    <3>3. ShiftedTaken(slot, offset) <=> ShiftedTaken(slot, 0)
      OBVIOUS
    <3> QED
      BY <3>1, <3>2, <3>3, Zenon
  <2> QED
    BY <2>2, <2>3, Zenon DEF slot
<1>3. Offers(date, length) =
        {time \in 0..(DayLength - 1) : time % Interval = 0 /\ open(time) /\ free(time)}
  BY Zenon DEF Offers
<1> HIDE DEF open, free, fits, taken
<1> DEFINE fitting == {time \in 0..(DayLength - 1) : time % Interval = 0 /\ fits(time)}
<1>4. Offers(date, length) \subseteq fitting
  BY <1>2, <1>3, Zenon
<1>5. offset = 0 => Offers(date, length) = {time \in fitting : ~taken(time)}
  BY <1>2, <1>3, Zenon
<1> QED
  BY <1>4, <1>5, Zenon DEF fits, taken

\* Who asks for an offer has one.
LEMMA OfferKept ==
  ASSUME ScheduleTypeOK, NEW date \in Dates, NEW length \in Lengths,
         NEW time \in Offers(date, length),
         NEW slot, slot = [state |-> "held", start |-> Midnight(date) + time,
                           length |-> length, under |-> inForce]
  PROVE  slot \in Slots /\ Offered(template, slot)
<1>1. inForce # 0
  BY DEF Offers
<1>2. /\ time \in 0..(DayLength - 1)
      /\ \E w \in OpenWindows(template[inForce], date) : Within(Span(time, time + length), w)
  BY <1>1 DEF Offers
<1>3. date \in Nat /\ length \in Nat \ {0} /\ DayLength \in Nat \ {0} /\ LastDate \in Nat
  BY ScheduleAssumption DEF Dates
<1>4. inForce \in DOMAIN template /\ template[inForce] \in Templates
  BY <1>1, InForceSaved
<1>5. slot.start = Midnight(date) + time /\ slot.length = length /\ slot.under = inForce
  OBVIOUS
<1>6. /\ time + length <= DayLength
      /\ ~Foreign(template[inForce], date) => Fits(template[inForce], slot)
  BY <1>2, <1>3, <1>4, <1>5, OpenSlots, Zenon
<1>7. DateOf(slot.start) = date /\ TimeOf(slot.start) = time /\ slot.start \in Nat
  BY <1>2, <1>3, <1>5, DayTime
<1>8. Fits(template[inForce], slot) => ~Conflicts(template[inForce], slot)
  BY <1>3, <1>4, <1>5, <1>6, <1>7, FitsIsNoConflict
<1>9. Offered(template, slot)
  BY <1>4, <1>5, <1>6, <1>7, <1>8 DEF Offered
<1>10. Midnight(date) + time \in Instants
  <2>1. \A D \in Nat \ {0}, n \in Nat : \A d \in 0..n, m \in 0..(D - 1) :
          d * D + m \in 0..((n + 1) * D)
    <3> SUFFICES ASSUME NEW D \in Nat \ {0}, NEW n \in Nat, NEW d \in 0..n, NEW m \in 0..(D - 1)
                 PROVE  d * D + m \in 0..((n + 1) * D)
      OBVIOUS
    <3>1. d * D <= n * D /\ d * D \in Nat /\ n * D \in Nat
      OBVIOUS
    <3>2. (n + 1) * D = n * D + D
      OBVIOUS
    <3> QED
      BY <3>1, <3>2
  <2> QED
    BY <1>2, <1>3, <2>1 DEF Instants, Midnight, Dates
<1>11. inForce \in 0..MaxSaved
  BY ScheduleAssumption DEF ScheduleTypeOK
<1> QED
  BY <1>9, <1>10, <1>11 DEF Slots

-----------------------------------------------------------------------------
(* What becomes of a slot that was offered.                                *)

\* A version saved later leaves those saved before as they are.
LEMMA OfferedStays ==
  ASSUME NEW versions \in Seq(Templates), NEW t, NEW slot, Offered(versions, slot)
  PROVE  Offered(Append(versions, t), slot)
<1>1. slot.under \in DOMAIN versions
  BY DEF Offered
<1>2. slot.under \in DOMAIN Append(versions, t)
      /\ Append(versions, t)[slot.under] = versions[slot.under]
  BY <1>1
<1> QED
  BY <1>2 DEF Offered

LEMMA OfferedState ==
  ASSUME NEW versions, NEW slot, NEW other, Offered(versions, slot),
         other.start = slot.start, other.length = slot.length, other.under = slot.under
  PROVE  Offered(versions, other)
  BY DEF Offered, Conflicts

\* Becoming another state leaves a slot's time and the version it was offered under.
LEMMA BecomeKeeps ==
  ASSUME ScheduleTypeOK, NEW b \in Bookings, NEW from, NEW to, Become(b, from, to)
  PROVE  \A c \in Bookings : /\ booking'[c].start = booking[c].start
                             /\ booking'[c].length = booking[c].length
                             /\ booking'[c].under = booking[c].under
                             /\ c # b => booking'[c] = booking[c]
  BY DEF ScheduleTypeOK, Slots, Become

\* The versions saved are added to at the end, one or none at a time.
LEMMA VersionsAdded ==
  ASSUME ScheduleTypeOK, ScheduleNext
  PROVE  template' = template \/ \E t \in Templates : template' = Append(template, t)
  BY DEF ScheduleNext, SaveVersion, PromoteVersion, AskForTime, AskToMove, Ask, Commit, Answer,
         Reject, Resubmit, GiveUp, Become, AskToKeep, RecordException

LEMMA StillOffered ==
  ASSUME ScheduleTypeOK, ScheduleNext, NEW slot, Offered(template, slot)
  PROVE  Offered(template', slot)
<1>1. template \in Seq(Templates)
  BY DEF ScheduleTypeOK
<1> QED
  BY <1>1, VersionsAdded, OfferedStays

LEMMA NoSlotTyped ==
  NoSlot \in Slots
  BY ScheduleAssumption DEF NoSlot, Slots, Instants

LEMMA AskSteps ==
  ASSUME ScheduleInv, ScheduleNext, NEW b \in Bookings, NEW date \in Dates,
         NEW time \in 0..(DayLength - 1), NEW length \in Lengths,
         Ask(b, date, time, length)
  PROVE  ScheduleInv'
<1> DEFINE slot == [state |-> "held", start |-> Midnight(date) + time, length |-> length,
                    under |-> inForce]
<1>1. slot \in Slots /\ Offered(template, slot)
  BY OfferKept DEF ScheduleInv, Ask
<1>2. /\ UNCHANGED <<offset, template, inForce, booking, keeping, excused, decided>>
      /\ request' = [request EXCEPT ![b] = slot]
  BY DEF Ask
<1>3. slot.state = "held"
  OBVIOUS
<1> HIDE DEF slot
<1>4. ScheduleTypeOK'
  BY <1>1, <1>2 DEF ScheduleInv, ScheduleTypeOK
<1>5. SlotsOffered'
  <2>1. \A c \in Bookings : request'[c] = IF c = b THEN slot ELSE request[c]
    BY <1>2 DEF ScheduleInv, ScheduleTypeOK
  <2> QED
    BY <1>1, <1>2, <1>3, <2>1 DEF ScheduleInv, SlotsOffered
<1>6. ExcusedDecided'
  BY <1>2 DEF ScheduleInv, ExcusedDecided
<1> QED
  BY <1>4, <1>5, <1>6 DEF ScheduleInv

LEMMA CommitSteps ==
  ASSUME ScheduleInv, NEW b \in Bookings, Commit(b)
  PROVE  ScheduleInv'
<1>1. /\ UNCHANGED <<offset, template, inForce, keeping, excused, decided>>
      /\ request' = [request EXCEPT ![b] = NoSlot]
      /\ booking' = booking \/ booking' = [booking EXCEPT ![b] = request[b]]
      /\ request[b] # NoSlot
  BY DEF Commit, Take, Answer
<1>2. ScheduleTypeOK'
  BY <1>1, NoSlotTyped DEF ScheduleInv, ScheduleTypeOK
<1>3. SlotsOffered'
  <2>1. \A c \in Bookings :
          /\ request'[c] = IF c = b THEN NoSlot ELSE request[c]
          /\ booking'[c] = booking[c] \/ (c = b /\ booking'[c] = request[c])
    BY <1>1 DEF ScheduleInv, ScheduleTypeOK
  <2> QED
    BY <1>1, <2>1 DEF ScheduleInv, SlotsOffered
<1>4. ExcusedDecided'
  BY <1>1 DEF ScheduleInv, ExcusedDecided
<1> QED
  BY <1>2, <1>3, <1>4 DEF ScheduleInv

LEMMA BecomeSteps ==
  ASSUME ScheduleInv, NEW b \in Bookings,
         NEW from \in SUBSET {"held", "rejected"}, NEW to \in {"held", "rejected", "gone"},
         Become(b, from, to)
  PROVE  ScheduleInv'
<1>1. UNCHANGED <<offset, template, inForce, request, keeping, excused, decided>>
  BY DEF Become
<1>2. ScheduleTypeOK'
  <2>1. booking' \in [Bookings -> Slots]
    BY DEF ScheduleInv, ScheduleTypeOK, Slots, Become
  <2> QED
    BY <1>1, <2>1 DEF ScheduleInv, ScheduleTypeOK
<1>3. SlotsOffered'
  <2>1. booking[b] # NoSlot
    BY DEF Become, NoSlot
  <2>2. Offered(template, booking'[b])
    BY <2>1, BecomeKeeps, OfferedState DEF ScheduleInv, SlotsOffered
  <2>3. \A c \in Bookings : c # b => booking'[c] = booking[c]
    BY BecomeKeeps DEF ScheduleInv
  <2> QED
    BY <1>1, <2>2, <2>3 DEF ScheduleInv, SlotsOffered
<1>4. ExcusedDecided'
  BY <1>1 DEF ScheduleInv, ExcusedDecided
<1> QED
  BY <1>2, <1>3, <1>4 DEF ScheduleInv

LEMMA ScheduleStarts ==
  ASSUME ScheduleInit
  PROVE  ScheduleInv
<1>1. ScheduleTypeOK
  BY NoSlotTyped, ScheduleAssumption DEF ScheduleInit, ScheduleTypeOK
<1>2. SlotsOffered
  BY DEF ScheduleInit, SlotsOffered
<1> QED
  BY <1>1, <1>2 DEF ScheduleInit, ScheduleInv, ExcusedDecided

LEMMA ScheduleSteps ==
  ASSUME ScheduleInv, [ScheduleNext]_scheduleVars
  PROVE  ScheduleInv'
<1>1. ASSUME NEW t \in Templates, SaveVersion(t)
      PROVE  ScheduleInv'
  <2>0. ScheduleNext
    BY <1>1 DEF ScheduleNext
  <2>1. /\ template' = Append(template, t) /\ Len(template) < MaxSaved
        /\ inForce' \in {inForce, Len(template) + 1}
        /\ UNCHANGED <<offset, booking, request, keeping, excused, decided>>
    BY <1>1 DEF SaveVersion
  <2>2. template' \in Seq(Templates) /\ Len(template') = Len(template) + 1
        /\ inForce' \in 0..Len(template')
    BY <2>1 DEF ScheduleInv, ScheduleTypeOK
  <2>3. Len(template') <= MaxSaved
    <3>1. Len(template) \in Nat
      BY DEF ScheduleInv, ScheduleTypeOK
    <3> QED
      BY <2>1, <2>2, <3>1, ScheduleAssumption
  <2>4. ScheduleTypeOK'
    BY <2>1, <2>2, <2>3 DEF ScheduleInv, ScheduleTypeOK
  <2>5. \A c \in Bookings : /\ booking[c] = NoSlot \/ Offered(template', booking[c])
                            /\ request[c] = NoSlot \/
                                 (request[c].state = "held" /\ Offered(template', request[c]))
    BY <2>0, StillOffered DEF ScheduleInv, SlotsOffered
  <2>6. SlotsOffered'
    BY <2>1, <2>5 DEF SlotsOffered
  <2>7. ExcusedDecided'
    BY <2>1 DEF ScheduleInv, ExcusedDecided
  <2> QED
    BY <2>4, <2>6, <2>7 DEF ScheduleInv
<1>2. ASSUME NEW v \in VersionNos, PromoteVersion(v)
      PROVE  ScheduleInv'
  <2>1. inForce' \in 0..Len(template) /\ template' = template
    BY <1>2 DEF ScheduleInv, ScheduleTypeOK, PromoteVersion
  <2> QED
    BY <1>2, <2>1 DEF ScheduleInv, ScheduleTypeOK, SlotsOffered, ExcusedDecided, PromoteVersion
<1>3. ASSUME NEW b \in Bookings, NEW date \in Dates, NEW time \in 0..(DayLength - 1),
             NEW length \in Lengths, AskForTime(b, date, time, length)
      PROVE  ScheduleInv'
  <2>1. ScheduleNext
    BY <1>3 DEF ScheduleNext
  <2> QED
    BY <1>3, <2>1, AskSteps DEF AskForTime
<1>4. ASSUME NEW b \in Bookings, NEW date \in Dates, NEW time \in 0..(DayLength - 1),
             AskToMove(b, date, time)
      PROVE  ScheduleInv'
  <2>1. ScheduleNext
    BY <1>4 DEF ScheduleNext
  <2>2. booking[b].length \in Lengths
    BY <1>4 DEF ScheduleInv, SlotsOffered, Offered, AskToMove, NoSlot
  <2> QED
    BY <1>4, <2>1, <2>2, AskSteps DEF AskToMove
<1>5. ASSUME NEW b \in Bookings, Commit(b)
      PROVE  ScheduleInv'
  BY <1>5, CommitSteps
<1>6. ASSUME NEW b \in Bookings, Reject(b) \/ Resubmit(b) \/ GiveUp(b)
      PROVE  ScheduleInv'
  BY <1>6, BecomeSteps DEF Reject, Resubmit, GiveUp
<1>7. ASSUME NEW b \in Bookings, NEW v \in VersionNos, AskToKeep(b, v)
      PROVE  ScheduleInv'
  <2>1. [booking |-> b, version |-> v, start |-> booking[b].start]
          \in [booking : Bookings, version : VersionNos, start : Instants]
    BY <1>7 DEF ScheduleInv, ScheduleTypeOK, Slots
  <2>2. /\ UNCHANGED <<offset, template, inForce, booking, request, excused, decided>>
        /\ keeping' = keeping \cup {[booking |-> b, version |-> v, start |-> booking[b].start]}
    BY <1>7 DEF AskToKeep
  <2>3. ScheduleTypeOK'
    BY <2>1, <2>2 DEF ScheduleInv, ScheduleTypeOK
  <2> QED
    BY <2>2, <2>3 DEF ScheduleInv, SlotsOffered, ExcusedDecided
<1>8. ASSUME NEW k \in keeping, RecordException(k)
      PROVE  ScheduleInv'
  <2>1. /\ UNCHANGED <<offset, template, inForce, booking, request>>
        /\ excused' = excused \cup {<<k.booking, k.version>>}
        /\ decided' = decided \cup {k} /\ keeping' = keeping \ {k}
    BY <1>8 DEF RecordException
  <2>2. k.booking \in Bookings /\ k.version \in VersionNos
        /\ k \in [booking : Bookings, version : VersionNos, start : Instants]
    BY DEF ScheduleInv, ScheduleTypeOK
  <2>3. ScheduleTypeOK'
    BY <2>1, <2>2 DEF ScheduleInv, ScheduleTypeOK
  <2>4. ExcusedDecided'
    BY <2>1 DEF ScheduleInv, ExcusedDecided
  <2> QED
    BY <2>1, <2>3, <2>4 DEF ScheduleInv, SlotsOffered
<1>9. CASE UNCHANGED scheduleVars
  BY <1>9 DEF scheduleVars, ScheduleInv, ScheduleTypeOK, SlotsOffered, ExcusedDecided
<1> QED
  BY <1>1, <1>2, <1>3, <1>4, <1>5, <1>6, <1>7, <1>8, <1>9 DEF ScheduleNext

LEMMA ScheduleInvariant ==
  ScheduleSpec => []ScheduleInv
<1>1. ScheduleInv /\ [ScheduleNext]_scheduleVars => ScheduleInv'
  BY ScheduleSteps
<1> QED
  BY ScheduleStarts, <1>1, PTL DEF ScheduleSpec

-----------------------------------------------------------------------------
(* The properties of module Schedule.                                      *)

\* What computeAvailableSlotStarts offers fits the calendar, cut out of however many
\* windows by however many blocked periods; under UTC it is exactly what fits and no
\* booking takes.
THEOREM OffersAreExact ==
  ScheduleSpec => []OffersAreRight
<1>1. ScheduleInv => OffersAreRight
  BY OffersRight
<1> QED
  BY <1>1, ScheduleInvariant, PTL

\* scheduleConflictReason finds what does not fit, but may overlook what lasts
\* until midnight.
THEOREM ConflictsAreExact ==
  ScheduleSpec => []ConflictsAreReal
<1>1. ASSUME ScheduleInv
      PROVE  ConflictsAreReal
  <2> SUFFICES ASSUME inForce # 0, NEW b \in Bookings, booking[b].state = "held",
                      <<b, inForce>> \notin excused
               PROVE  /\ b \in OpenConflicts => ~Fits(template[inForce], booking[b])
                      /\ ~Fits(template[inForce], booking[b]) =>
                           \/ b \in OpenConflicts
                           \/ TimeOf(booking[b].start + booking[b].length) = 0
    BY DEF ConflictsAreReal
  <2>1. Offered(template, booking[b])
    BY <1>1 DEF ScheduleInv, SlotsOffered, NoSlot
  <2>2. booking[b].length \in Nat \ {0} /\ booking[b].start \in Nat
    <3>1. booking[b].start \in Instants /\ Instants \in SUBSET Nat
      BY <1>1, ScheduleAssumption DEF ScheduleInv, ScheduleTypeOK, Slots, Instants
    <3> QED
      BY <2>1, <3>1, ScheduleAssumption DEF Offered
  <2>3. template[inForce] \in Templates
    BY <1>1, InForceSaved DEF ScheduleInv
  <2>4. /\ Fits(template[inForce], booking[b]) => ~Conflicts(template[inForce], booking[b])
        /\ ~Fits(template[inForce], booking[b]) =>
             \/ Conflicts(template[inForce], booking[b])
             \/ TimeOf(booking[b].start + booking[b].length) = 0
    <3>1. TimeOf(booking[b].start) + booking[b].length <= DayLength
      BY <2>1 DEF Offered
    <3> QED
      BY <2>2, <2>3, <3>1, FitsIsNoConflict
  <2>5. b \in OpenConflicts <=> Conflicts(template[inForce], booking[b])
    BY DEF OpenConflicts
  <2> QED
    BY <2>4, <2>5
<1> QED
  BY <1>1, ScheduleInvariant, PTL

\* recordScheduleException hides no conflict by a version that the owner was not
\* shown, and none that a new time brings.
THEOREM KeptKnowingly ==
  ScheduleSpec => []KeptAreDecided
<1>1. ASSUME ScheduleInv
      PROVE  KeptAreDecided
  <2> SUFFICES ASSUME NEW b \in Bookings, inForce # 0, booking[b].state = "held",
                      <<b, inForce>> \in excused, Conflicts(template[inForce], booking[b])
               PROVE  \E k \in decided :
                        /\ k.booking = b /\ k.version = inForce
                        /\ \/ k.start = booking[b].start
                           \/ booking[b].under # inForce
                           \/ Foreign(template[inForce], DateOf(booking[b].start))
    BY DEF KeptAreDecided
  <2>1. inForce \in VersionNos
    BY <1>1 DEF ScheduleInv, ScheduleTypeOK
  <2>2. PICK k \in decided : k.booking = b /\ k.version = inForce
    BY <1>1, <2>1 DEF ScheduleInv, ExcusedDecided
  <2>3. Offered(template, booking[b])
    BY <1>1 DEF ScheduleInv, SlotsOffered, NoSlot
  <2> QED
    BY <2>2, <2>3 DEF Offered
<1> QED
  BY <1>1, ScheduleInvariant, PTL

\* Under createBooking's lock, hasActiveOverlap alone keeps a slot from being taken
\* twice; that it lies in the schedule was checked before, against the version then
\* in force.
THEOREM NewTimesAreGood ==
  ScheduleSpec => NewTimesFit
<1>1. ASSUME ScheduleInv, ScheduleNext, NEW b \in Bookings,
             Window(booking'[b]) # Window(booking[b])
      PROVE  /\ Commit(b) /\ booking'[b] = request[b]
             /\ \A c \in Bookings : booking[c].state \in {"held", "rejected"} =>
                  ~Meets(Window(booking[c]), Window(request[b]))
  <2>1. ASSUME NEW c \in Bookings, Reject(c) \/ Resubmit(c) \/ GiveUp(c)
        PROVE  FALSE
    <3>1. booking'[b].start = booking[b].start /\ booking'[b].length = booking[b].length
      BY <1>1, <2>1, BecomeKeeps DEF ScheduleInv, Reject, Resubmit, GiveUp
    <3> QED
      BY <1>1, <3>1 DEF Window
  <2>2. ASSUME booking' = booking PROVE FALSE
    BY <1>1, <2>2
  <2>3. ASSUME NEW c \in Bookings, Commit(c)
        PROVE  c = b /\ booking' = [booking EXCEPT ![c] = request[c]]
    <3>1. booking' = [booking EXCEPT ![c] = request[c]]
      BY <2>2, <2>3 DEF Commit, Take
    <3> QED
      BY <1>1, <3>1 DEF ScheduleInv, ScheduleTypeOK
  <2>4. \E c \in Bookings : Commit(c)
    BY <1>1, <2>1, <2>2 DEF ScheduleNext, SaveVersion, PromoteVersion, AskForTime, AskToMove, Ask,
         AskToKeep, RecordException
  <2>5. Commit(b) /\ booking'[b] = request[b]
    BY <1>1, <2>3, <2>4 DEF ScheduleInv, ScheduleTypeOK
  <2> QED
    BY <2>2, <2>5 DEF Commit
<1>2. ASSUME ScheduleInv, [ScheduleNext]_scheduleVars, NEW b \in Bookings,
             Window(booking'[b]) # Window(booking[b])
      PROVE  /\ \A c \in Bookings \ {b} : booking[c].state \in {"held", "rejected"} =>
                  ~Meets(Window(booking[c]), Window(booking'[b]))
             /\ b \in OpenConflicts' =>
                  \/ booking'[b].under # inForce
                  \/ Foreign(template[inForce], DateOf(booking'[b].start))
  <2>1. ScheduleNext
    BY <1>2 DEF scheduleVars
  <2>2. /\ Commit(b) /\ booking'[b] = request[b]
        /\ \A c \in Bookings : booking[c].state \in {"held", "rejected"} =>
             ~Meets(Window(booking[c]), Window(request[b]))
    BY <1>1, <1>2, <2>1
  <2>3. template' = template /\ inForce' = inForce /\ request[b] # NoSlot
    BY <2>2 DEF Commit, Answer
  <2>4. Offered(template, request[b])
    BY <1>2, <2>3 DEF ScheduleInv, SlotsOffered
  <2>5. b \in OpenConflicts' => Conflicts(template[inForce], booking'[b])
    BY <2>3 DEF OpenConflicts
  <2> QED
    BY <2>2, <2>4, <2>5 DEF Offered
<1>3. ScheduleInv /\ [ScheduleNext]_scheduleVars =>
        [\A b \in Bookings :
           Window(booking'[b]) # Window(booking[b]) =>
             /\ \A c \in Bookings \ {b} : booking[c].state \in {"held", "rejected"} =>
                  ~Meets(Window(booking[c]), Window(booking'[b]))
             /\ b \in OpenConflicts' =>
                  \/ booking'[b].under # inForce
                  \/ Foreign(template[inForce], DateOf(booking'[b].start))]_scheduleVars
  BY <1>2
<1> QED
  BY <1>3, ScheduleInvariant, PTL DEF ScheduleSpec, NewTimesFit

-----------------------------------------------------------------------------
(* Refinement: what bookings hold is a calendar of module SlotCalendar.    *)

\* What a booking holds, if it holds anything.
WindowOf(b) == Calendar!Window(b, booking[b].start, booking[b].start + booking[b].length)
Holders == {b \in Bookings : booking[b].state \in {"held", "rejected"}}

\* What is held, before and after a step, one window for each holder.
LEMMA HeldByHolders ==
  /\ HeldWindows = {WindowOf(b) : b \in Holders}
  /\ HeldWindows' = {WindowOf(b)' : b \in Holders'}
BY DEF HeldWindows, WindowOf, Holders, Calendar!Window

\* An offered slot lies in the calendar: it ends with its day at the latest.
LEMMA SlotInCalendar ==
  ASSUME NEW slot \in Slots, Offered(template, slot)
  PROVE  /\ slot.start \in Instants /\ slot.start + slot.length \in Instants
         /\ slot.start < slot.start + slot.length
<1> DEFINE date == DateOf(slot.start)
           time == TimeOf(slot.start)
<1>1. DayLength \in Nat \ {0} /\ LastDate \in Nat
  BY ScheduleAssumption
<1>2. slot.start \in Nat /\ slot.start \in Instants
  BY <1>1 DEF Slots, Instants
<1>3. slot.length \in Nat \ {0}
  BY ScheduleAssumption DEF Offered
<1>4. date \in 0..LastDate /\ time + slot.length <= DayLength
  BY DEF Offered, Dates
<1>5. time \in Nat /\ slot.start = Midnight(date) + time
  BY <1>1, <1>2, InstantParts
<1> HIDE DEF date, time
<1>6. \A D \in Nat \ {0}, n \in Nat : \A d \in 0..n, m \in Nat, l \in Nat :
        m + l <= D => (d * D + m) + l \in 0..((n + 1) * D)
  <2> SUFFICES ASSUME NEW D \in Nat \ {0}, NEW n \in Nat, NEW d \in 0..n, NEW m \in Nat,
                      NEW l \in Nat, m + l <= D
               PROVE  (d * D + m) + l \in 0..((n + 1) * D)
    OBVIOUS
  <2>1. d * D <= n * D /\ d * D \in Nat /\ n * D \in Nat
    OBVIOUS
  <2>2. (n + 1) * D = n * D + D
    OBVIOUS
  <2> QED
    BY <2>1, <2>2
<1>7. slot.start + slot.length \in 0..((LastDate + 1) * DayLength)
  BY <1>1, <1>3, <1>4, <1>5, <1>6 DEF Midnight
<1> QED
  BY <1>2, <1>3, <1>7 DEF Instants

\* Under the lock a booking takes, or moves to, a window that nothing held meets.
LEMMA CommitMoves ==
  ASSUME ScheduleInv, NEW b \in Bookings, Commit(b), booking' # booking
  PROVE  Calendar!Next
<1> DEFINE start == request[b].start
           end == request[b].start + request[b].length
<1>1. /\ request[b] # NoSlot /\ booking' = [booking EXCEPT ![b] = request[b]]
      /\ \A c \in Holders : ~Meets(Window(booking[c]), Window(request[b]))
  BY DEF Commit, Take, Holders
<1>2. request[b] \in Slots /\ request[b].state = "held" /\ Offered(template, request[b])
  BY <1>1 DEF ScheduleInv, ScheduleTypeOK, SlotsOffered
<1>3. start \in Instants /\ end \in Instants /\ start < end
  BY <1>2, SlotInCalendar
<1>4. /\ booking'[b] = request[b]
      /\ \A c \in Bookings \ {b} : booking'[c] = booking[c]
  BY <1>1 DEF ScheduleInv, ScheduleTypeOK
<1>5. \A w \in HeldWindows : ~Calendar!Meets(w, start, end)
  BY <1>1, HeldByHolders DEF WindowOf, Calendar!Window, Calendar!Meets, Meets, Window, Span
<1>6. HeldWindows' = {w \in HeldWindows : w.booking # b} \cup {Calendar!Window(b, start, end)}
  <2>1. Holders' = (Holders \ {b}) \cup {b}
    BY <1>2, <1>4 DEF Holders
  <2>2. WindowOf(b)' = Calendar!Window(b, start, end)
    BY <1>4 DEF WindowOf, Calendar!Window
  <2>3. \A c \in Holders \ {b} : WindowOf(c)' = WindowOf(c)
    BY <1>4 DEF WindowOf, Holders, Calendar!Window
  <2>4. HeldWindows' = {WindowOf(c)' : c \in Holders'}
    BY HeldByHolders
  <2>5. \A c \in Holders : WindowOf(c).booking = c
    BY DEF WindowOf, Calendar!Window
  <2>6. {w \in HeldWindows : w.booking # b} = {WindowOf(c) : c \in Holders \ {b}}
    BY <2>5, HeldByHolders
  <2> QED
    BY <2>1, <2>2, <2>3, <2>4, <2>6
<1> HIDE DEF start, end
<1>7. Calendar!Move(b, start, end)
  BY <1>3, <1>5, <1>6 DEF Calendar!Move, Calendar!Free
<1> QED
  BY <1>3, <1>7 DEF Calendar!Next

\* A rejected booking keeps its window, a booking that is given up loses it.
LEMMA BecomeGivesUp ==
  ASSUME ScheduleInv, NEW b \in Bookings, Reject(b) \/ Resubmit(b) \/ GiveUp(b)
  PROVE  Calendar!GiveUp(b) \/ HeldWindows' = HeldWindows
<1>1. /\ b \in Holders
      /\ \A c \in Bookings : /\ booking'[c].start = booking[c].start
                             /\ booking'[c].length = booking[c].length
                             /\ c # b => booking'[c] = booking[c]
      /\ booking'[b].state \in {"held", "rejected", "gone"}
  BY DEF Reject, Resubmit, GiveUp, Become, Holders, ScheduleInv, ScheduleTypeOK, Slots
<1>2. \A c \in Bookings : WindowOf(c)' = WindowOf(c)
  BY <1>1 DEF WindowOf, Calendar!Window
<1>3. HeldWindows' = {WindowOf(c)' : c \in Holders'}
  BY HeldByHolders
<1>4. CASE booking'[b].state = "gone"
  <2>1. Holders' = Holders \ {b}
    BY <1>1, <1>4 DEF Holders
  <2>2. \A c \in Holders : WindowOf(c).booking = c
    BY DEF WindowOf, Calendar!Window
  <2>3. {w \in HeldWindows : w.booking # b} = {WindowOf(c) : c \in Holders \ {b}}
    BY <2>2, HeldByHolders
  <2> QED
    BY <1>2, <1>3, <2>1, <2>3 DEF Holders, Calendar!GiveUp
<1>5. CASE booking'[b].state \in {"held", "rejected"}
  <2>1. Holders' = Holders
    BY <1>1, <1>5 DEF Holders
  <2> QED
    BY <1>2, <1>3, <2>1, HeldByHolders DEF Holders
<1> QED
  BY <1>1, <1>4, <1>5

\* Every step is one of the calendar's, or leaves it alone.
LEMMA CalendarStep ==
  ScheduleInv /\ [ScheduleNext]_scheduleVars => [Calendar!Next]_HeldWindows
<1> SUFFICES ASSUME ScheduleInv, [ScheduleNext]_scheduleVars
             PROVE  Calendar!Next \/ HeldWindows' = HeldWindows
  OBVIOUS
<1>1. ASSUME booking' = booking PROVE HeldWindows' = HeldWindows
  BY <1>1 DEF HeldWindows
<1>2. ASSUME NEW b \in Bookings, Reject(b) \/ Resubmit(b) \/ GiveUp(b)
      PROVE  Calendar!Next \/ HeldWindows' = HeldWindows
  BY <1>2, BecomeGivesUp DEF Calendar!Next
<1>3. ASSUME NEW b \in Bookings, Commit(b)
      PROVE  Calendar!Next \/ HeldWindows' = HeldWindows
  BY <1>1, <1>3, CommitMoves
<1> QED
  BY <1>1, <1>2, <1>3 DEF ScheduleNext, scheduleVars, SaveVersion, PromoteVersion, AskForTime,
     AskToMove, Ask, AskToKeep, RecordException

\* What is booked and moved from the offers of a day is, for any time zone, template
\* and number of bookings, a calendar in which no two windows overlap.
THEOREM CalendarKept == ScheduleSpec => KeepsCalendar
<1>1. ScheduleInit => Calendar!Init
  BY DEF ScheduleInit, Calendar!Init, HeldWindows, NoSlot
<1> QED
  BY <1>1, CalendarStep, ScheduleInvariant, PTL DEF ScheduleSpec, KeepsCalendar, Calendar!Spec
=============================================================================
