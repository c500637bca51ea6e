---------------------------- MODULE Resubmission ----------------------------
(***************************************************************************)
(* The resubmission of a rejected booking's proof (resubmission.service.ts, *)
(* prisma-resubmission.repository.ts): one-time codes, their attempts and  *)
(* their expiry, and the resubmission that spends one.                     *)
(*                                                                         *)
(* Codes are per booking and customer, so one booking is the whole story.  *)
(* Every read of a handler, and every write outside the transaction, is a  *)
(* step of its own; only the transaction holds the advisory lock.  The     *)
(* payment's status, which moves along with the booking's, is in module    *)
(* Booking; the proof's file is staged and discarded as in BookingIntake,  *)
(* the notification is Delivery's.  The security journal is left out.      *)
(***************************************************************************)
EXTENDS Naturals, FiniteSets

CONSTANTS Requests,     \* requests being served at the same time
          Keys,         \* submission keys the customer chooses, other than the first
              \* proof's, which is answered like one that is in proofs
          MaxActive,    \* MAX_ACTIVE_CODES
          MaxAttempts,  \* MAX_ATTEMPTS
          MaxCodes      \* bound on the codes ever issued

ASSUME CapAssumption ==
  /\ IsFiniteSet(Requests)
  /\ MaxActive \in Nat \ {0} /\ MaxAttempts \in Nat \ {0} /\ MaxCodes \in Nat

VARIABLES
  status,    \* booking.status ("CLOSED": neither of the two that matter here)
  issued,    \* codes issued so far; a code is its number, in order of createdAt
  expired,   \* how many of them have expired; they all live equally long
  used,      \* codes with a usedAt
  attempts,  \* resubmission_verification.attempts
  proofs,    \* committed resubmissions: their keys, and the codes they spent
  stage,     \* how far each request has come
  ask,       \* the code and the key it presents
  found,     \* the code it has issued, or has read
  guesses    \* history: wrong codes compared with each code, less those of
             \* requests that ended right there

codes == <<issued, expired, used, attempts>>
vars == <<status, codes, proofs, stage, ask, found, guesses>>

Codes == 1..MaxCodes
Asks == [code : 0..MaxCodes, key : Keys]
Nothing == [code |-> 0, key |-> "none"]
Stages == {"idle", "issuing", "sending", "asked", "keyed", "wrong", "right"}

Init ==
  /\ status = "REJECTED"
  /\ issued = 0 /\ expired = 0 /\ used = {} /\ proofs = {}
  /\ attempts = [c \in Codes |-> 0]
  /\ stage = [r \in Requests |-> "idle"]
  /\ ask = [r \in Requests |-> Nothing]
  /\ found = [r \in Requests |-> 0]
  /\ guesses = [c \in Codes |-> 0]

-----------------------------------------------------------------------------
Go(r, s) == stage' = [stage EXCEPT ![r] = s]

\* The request is answered.
Finish(r) ==
  /\ Go(r, "idle")
  /\ ask' = [ask EXCEPT ![r] = Nothing]
  /\ found' = [found EXCEPT ![r] = 0]

Unused == (1..issued) \ used

\* The codes a customer may still present with success.
Live == {c \in Unused : c > expired}

\* findActiveByBookingAndPhone: the newest unused code, expired or not.
IsNewest(c) == c \in Unused /\ \A d \in Unused : d <= c

IsUsable(c) == attempts[c] < MaxAttempts /\ c > expired

-----------------------------------------------------------------------------
(* requestCode.                                                            *)

CountCodes(r) ==
  /\ stage[r] = "idle" /\ status = "REJECTED"
  /\ Cardinality(Live) < MaxActive
  /\ Go(r, "issuing")
  /\ UNCHANGED <<status, codes, proofs, ask, found, guesses>>

\* Neither the status nor the count is looked at again.
IssueCode(r) ==
  /\ stage[r] = "issuing" /\ issued < MaxCodes
  /\ issued' = issued + 1
  /\ found' = [found EXCEPT ![r] = issued + 1]
  /\ Go(r, "sending")
  /\ UNCHANGED <<status, expired, used, attempts, proofs, ask, guesses>>

\* The code reaches the customer, or is voided because it cannot (unless the
\* channel is switched off, or voiding fails: it then stays what it is).
SendCode(r) ==
  /\ stage[r] = "sending"
  /\ used' \in {used, used \cup {found[r]}}
  /\ Finish(r)
  /\ UNCHANGED <<status, issued, expired, attempts, proofs, guesses>>

-----------------------------------------------------------------------------
(* resubmit.                                                               *)

\* The code presented is one that exists, or none (0).
Submit(r, code, key) ==
  /\ stage[r] = "idle" /\ status = "REJECTED"
  /\ code \in 0..issued
  /\ ask' = [ask EXCEPT ![r] = [code |-> code, key |-> key]]
  /\ Go(r, "asked")
  /\ UNCHANGED <<status, codes, proofs, found, guesses>>

\* A key that is known is answered at once, and nothing happens.
LookUpKey(r) ==
  /\ stage[r] = "asked"
  /\ IF \E p \in proofs : p.key = ask[r].key THEN Finish(r)
     ELSE Go(r, "keyed") /\ UNCHANGED <<ask, found>>
  /\ UNCHANGED <<status, codes, proofs, guesses>>

CheckTooGenerously(r) ==   \* mutant: > MAX_ATTEMPTS for >= MAX_ATTEMPTS
  /\ stage[r] = "keyed"
  /\ \E c \in Codes :
       /\ IsNewest(c) /\ attempts[c] <= MaxAttempts /\ c > expired
       /\ found' = [found EXCEPT ![r] = c]
       /\ IF ask[r].code = c THEN Go(r, "right") /\ UNCHANGED guesses
          ELSE Go(r, "wrong") /\ guesses' = [guesses EXCEPT ![c] = @ + 1]
  /\ UNCHANGED <<status, codes, proofs, ask>>

\* One code is read, and all that follows is decided on that copy.
CheckCode(r) ==
  /\ stage[r] = "keyed"
  /\ \E c \in Codes :
       /\ IsNewest(c) /\ IsUsable(c)
       /\ found' = [found EXCEPT ![r] = c]
       /\ IF ask[r].code = c THEN Go(r, "right") /\ UNCHANGED guesses
          ELSE Go(r, "wrong") /\ guesses' = [guesses EXCEPT ![c] = @ + 1]
  /\ UNCHANGED <<status, codes, proofs, ask>>

\* registerAttempt: an increment in the database, on a code that is unused.
RegisterAttempt(r) ==
  /\ stage[r] = "wrong"
  /\ attempts' = IF found[r] \in used THEN attempts
                 ELSE [attempts EXCEPT ![found[r]] = @ + 1]
  /\ Finish(r)
  /\ UNCHANGED <<status, issued, expired, used, proofs, guesses>>

ResubmitUnclaimed(r) ==   \* mutant: the outcome of markUsed is ignored
  /\ stage[r] = "right" /\ status = "REJECTED"
  /\ \A p \in proofs : p.key # ask[r].key
  /\ status' = "PAYMENT_PENDING"
  /\ used' = used \cup {found[r]}
  /\ proofs' = proofs \cup {[key |-> ask[r].key, code |-> found[r]]}
  /\ Finish(r)
  /\ UNCHANGED <<issued, expired, attempts, guesses>>

\* The transaction: the booking, the unique key and markUsed are its guards; the
\* expiry and the attempts are not looked at again.
Resubmit(r) ==
  /\ stage[r] = "right" /\ status = "REJECTED"
  /\ \A p \in proofs : p.key # ask[r].key
  /\ found[r] \notin used
  /\ status' = "PAYMENT_PENDING"
  /\ used' = used \cup {found[r]}
  /\ proofs' = proofs \cup {[key |-> ask[r].key, code |-> found[r]]}
  /\ Finish(r)
  /\ UNCHANGED <<issued, expired, attempts, guesses>>

\* A request is refused, rolls back, fails, or is cut short by a restart.
End(r) ==
  /\ stage[r] # "idle"
  /\ guesses' = IF stage[r] = "wrong" THEN [guesses EXCEPT ![found[r]] = @ - 1]
                 ELSE guesses
  /\ Finish(r)
  /\ UNCHANGED <<status, codes, proofs>>

-----------------------------------------------------------------------------
\* The owner rejects the new proof, or the booking is decided for good.
OwnerDecides ==
  /\ status' \in {"REJECTED", "CLOSED"}
  /\ \/ status = "PAYMENT_PENDING"
     \/ status = "REJECTED" /\ status' = "CLOSED"
  /\ UNCHANGED <<codes, proofs, stage, ask, found, guesses>>

Expire ==
  /\ expired < issued
  /\ expired' = expired + 1
  /\ UNCHANGED <<status, issued, used, attempts, proofs, stage, ask, found, guesses>>

Next ==
  \/ \E r \in Requests :
       \/ CountCodes(r) \/ IssueCode(r) \/ SendCode(r)
       \/ \E c \in Codes \cup {0}, k \in Keys : Submit(r, c, k)
       \/ LookUpKey(r) \/ CheckCode(r) \/ RegisterAttempt(r) \/ Resubmit(r) \/ End(r)
  \/ OwnerDecides
  \/ Expire

Spec == Init /\ [][Next]_vars

-----------------------------------------------------------------------------
(* Properties                                                              *)

\* Every variable stays in its domain.  No code is ever charged with more
\* attempts than it was compared with.
TypeOK ==
  /\ status \in {"REJECTED", "PAYMENT_PENDING", "CLOSED"}
  /\ issued \in 0..MaxCodes /\ expired \in 0..issued
  /\ used \subseteq 1..issued
  /\ attempts \in [Codes -> Nat]
  /\ proofs \subseteq [key : Keys, code : Codes]
  /\ stage \in [Requests -> Stages]
  /\ ask \in [Requests -> Asks \cup {Nothing}]
  /\ found \in [Requests -> 0..issued]
  /\ guesses \in [Codes -> Nat]
  /\ \A c \in Codes : attempts[c] <= guesses[c]

\* A code is single-use and a key makes one proof, in however many requests
\* they are presented at the same time and however often the owner rejects.
CodesBuyOnce ==
  /\ \A p \in proofs : p.code \in used
  /\ \A p, q \in proofs : p.code = q.code \/ p.key = q.key => p = q

\* Attempts are checked on one copy and counted on another, so requests that
\* overlap get a guess each; but no more than that, however long it goes on
\* (guesses whose request ended before it could count them come on top).
GuessesCapped ==
  \A c \in Codes : guesses[c] <= MaxAttempts + (Cardinality(Requests) - 1)

\* Codes are counted before they are issued, so requests that overlap may
\* exceed the limit, by one each.
LiveCodesCapped ==
  Cardinality(Live) <= MaxActive + (Cardinality(Requests) - 1)

\* Both caps of the code are exceeded only by requests that overlap, never by
\* their sum over time.
CapsHold == GuessesCapped /\ LiveCodesCapped
=============================================================================
