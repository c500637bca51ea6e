------------------------------ MODULE Accounts ------------------------------
(***************************************************************************)
(* Accounts of owners, admins and super admins (auth.service.ts,           *)
(* recovery.service.ts, admin-management.service.ts and the repositories    *)
(* they use): logins and their lock-out, passwords, sessions, emergency     *)
(* recovery codes, the admins a super admin manages.                        *)
(*                                                                         *)
(* There is no transaction but that of createAdmin: every handler is a      *)
(* chain of single statements, and each is an action.  A password is the    *)
(* number of times it has been set; whether the one presented is right is   *)
(* the client's choice, compared with the copy the handler has read.  A     *)
(* login with Google is a login whose password is right, or, the first      *)
(* time, a registration that goes on as one.                                *)
(* Journals (security and audit events), e-mails, tokens and hashing are    *)
(* left out.  Times are in steps of the clock.                              *)
(***************************************************************************)
EXTENDS Naturals, FiniteSets

CONSTANTS Requests,      \* requests being served at the same time
          Users,         \* the e-mail addresses there may be accounts for
          Founders,      \* those of the super admins, who are seeded
          MaxFailed,     \* MAX_FAILED_LOGIN_ATTEMPTS
          LockTime,      \* LOCKOUT_DURATION_MINUTES
          CodeTime,      \* authRecoveryTtlMinutes
          MaxAttempts,   \* authRecoveryMaxAttempts
          MaxAdmins,     \* MAX_ACTIVE_ADMINS
          MaxCodes,      \* bound on the recovery codes ever issued
          MaxBegun,      \* bound on the requests ever begun
          MaxTime        \* bound on the clock

ASSUME LimitAssumption ==
  /\ Users # {} /\ Founders \subseteq Users
  /\ MaxFailed \in Nat \ {0} /\ LockTime \in Nat \ {0}
  /\ CodeTime \in Nat \ {0} /\ MaxAttempts \in Nat \ {0}
  /\ MaxAdmins \in Nat /\ MaxCodes \in Nat /\ MaxBegun \in Nat /\ MaxTime \in Nat

VARIABLES
  account,   \* "user": role, password, failedLoginAttempts, isLockedUntil, isDeactivated
  sessions,  \* "session": the rows neither revoked nor expired; alike ones are one
  code,      \* emergency_recovery; a code is its number, in order of createdAt
  issued,    \* codes issued so far
  begun,     \* requests begun so far
  clock,
  req,       \* what each request has read and how far it is
  lost,      \* history: what a request that ended early did not do any more
  resets     \* history: how often each code has set a password

vars == <<account, sessions, code, issued, begun, clock, req, lost, resets>>

Codes == 1..MaxCodes
Stages == {"idle", "verify", "welcome", "lock", "session", "update", "revoke",
           "evict", "issue", "confirm", "void"}

Account == [role : {"NONE", "OWNER", "ADMIN", "SUPER_ADMIN"}, password : Nat,
            failures : Nat, lockedUntil : Nat, deactivated : BOOLEAN]
\* late: issued by a login that had read the account before its password changed.
Session == [user : Users, password : Nat, late : BOOLEAN]
Code == [user : Users, fate : {"none", "live", "void", "spent"},
         expires : Nat, attempts : Nat]
\* start: `now' of the handler; password, lockedUntil: as it has read them.
\* A field that is not used any more is 0.
Request == [at : Stages, user : Users, start : Nat, password : Nat,
            lockedUntil : Nat, code : 0..MaxCodes]

NoAccount == [role |-> "NONE", password |-> 0, failures |-> 0,
              lockedUntil |-> 0, deactivated |-> FALSE]
NewAccount(role) == [role |-> role, password |-> 1, failures |-> 0,
                     lockedUntil |-> 0, deactivated |-> FALSE]
Somebody == CHOOSE u \in Users : TRUE
NoCode == [user |-> Somebody, fate |-> "none", expires |-> 0, attempts |-> 0]
Asking(stage, u) == [at |-> stage, user |-> u, start |-> 0, password |-> 0,
                     lockedUntil |-> 0, code |-> 0]
Idle == Asking("idle", Somebody)

Init ==
  /\ account = [u \in Users |-> IF u \in Founders THEN NewAccount("SUPER_ADMIN")
                                ELSE NoAccount]
  /\ sessions = {} /\ issued = 0 /\ begun = 0 /\ clock = 0 /\ lost = {}
  /\ code = [c \in Codes |-> NoCode]
  /\ req = [r \in Requests |-> Idle]
  /\ resets = [c \in Codes |-> 0]

-----------------------------------------------------------------------------
IsAt(r, stage) == req[r].at = stage
Go(r, stage) == req' = [req EXCEPT ![r].at = stage]
Finish(r) == req' = [req EXCEPT ![r] = Idle]

Start(r, request) ==
  /\ IsAt(r, "idle")
  /\ begun < MaxBegun /\ begun' = begun + 1
  /\ req' = [req EXCEPT ![r] = request]
Begin(r, u, stage) == Start(r, Asking(stage, u))

\* resolveActorFromToken.
Resolves(s) == s \in sessions /\ ~account[s.user].deactivated
ActsAs(u) == \E s \in sessions : s.user = u /\ Resolves(s)
SuperAdminActs == \E u \in Users : account[u].role = "SUPER_ADMIN" /\ ActsAs(u)

ActiveAdmins == {u \in Users : account[u].role = "ADMIN" /\ ~account[u].deactivated}

\* A login or a new password wipes the slate.
Unlocked(a) == [a EXCEPT !.failures = 0, !.lockedUntil = 0]
NewPassword(a) == [Unlocked(a) EXCEPT !.password = a.password + 1]
Settle(u) == lost' = lost \ {<<u, "lock">>}

-----------------------------------------------------------------------------
(* login                                                                   *)

\* The handler reads the account and takes the time; all that follows is
\* decided on this copy.
BeginLogin(r, u) ==
  Start(r, [at |-> "verify", user |-> u, start |-> clock,
            password |-> account[u].password,
            lockedUntil |-> account[u].lockedUntil, code |-> 0])

LoginWhileLocked(r, u) ==   \* mutant: isLockedUntil is not looked at
  /\ account[u].role # "NONE" /\ ~account[u].deactivated
  /\ BeginLogin(r, u)
  /\ UNCHANGED <<account, sessions, code, issued, clock, lost, resets>>

Login(r, u) ==
  /\ account[u].role # "NONE" /\ ~account[u].deactivated
  /\ account[u].lockedUntil <= clock
  /\ BeginLogin(r, u)
  /\ UNCHANGED <<account, sessions, code, issued, clock, lost, resets>>

WrongPasswordLate(r) ==   \* mutant: > MAX_FAILED_LOGIN_ATTEMPTS for >=
  LET u == req[r].user
      failures == account[u].failures + 1 IN
  /\ IsAt(r, "verify")
  /\ account' = [account EXCEPT ![u].failures = failures]
  /\ IF failures > MaxFailed
     THEN req' = [req EXCEPT ![r] = [@ EXCEPT !.at = "lock", !.password = 0]]
     ELSE Finish(r)
  /\ UNCHANGED <<begun, sessions, code, issued, clock, lost, resets>>

\* The increment happens in the database and returns the new count.
WrongPassword(r) ==
  LET u == req[r].user
      failures == account[u].failures + 1 IN
  /\ IsAt(r, "verify")
  /\ account' = [account EXCEPT ![u].failures = failures]
  /\ IF failures >= MaxFailed
     THEN req' = [req EXCEPT ![r] = [@ EXCEPT !.at = "lock", !.password = 0]]
     ELSE Finish(r)
  /\ UNCHANGED <<begun, sessions, code, issued, clock, lost, resets>>

\* The lock counts from the beginning of the request.
Lock(r) ==
  LET u == req[r].user IN
  /\ IsAt(r, "lock")
  /\ account' = [account EXCEPT ![u] =
                   [@ EXCEPT !.lockedUntil = req[r].start + LockTime, !.failures = 0]]
  /\ Settle(u)
  /\ Finish(r)
  /\ UNCHANGED <<begun, sessions, code, issued, clock, resets>>

\* recordSuccessfulLogin, whatever has happened to the account meanwhile.
Succeed(r) ==
  LET u == req[r].user IN
  /\ req[r].at \in {"verify", "welcome"}
  /\ account' = [account EXCEPT ![u] = Unlocked(@)]
  /\ Settle(u)
  /\ req' = [req EXCEPT ![r] =
                 [@ EXCEPT !.at = "session", !.start = 0, !.lockedUntil = 0]]
  /\ UNCHANGED <<begun, sessions, code, issued, clock, resets>>

IssueSession(r) ==
  LET u == req[r].user IN
  /\ IsAt(r, "session")
  /\ sessions' = sessions \cup
       {[user |-> u, password |-> req[r].password,
         late |-> req[r].password # account[u].password]}
  /\ Finish(r)
  /\ UNCHANGED <<begun, account, code, issued, clock, lost, resets>>

\* createOwner; `next' is what the request does then.
CreateOwner(r, u, next) ==
  /\ account[u].role = "NONE"
  /\ account' = [account EXCEPT ![u] = NewAccount("OWNER")]
  /\ Start(r, [Asking(next, u) EXCEPT !.password = 1])
  /\ UNCHANGED <<sessions, code, issued, clock, lost, resets>>

\* registerOwner goes straight on to the session.
Register(r, u) == CreateOwner(r, u, "session")

\* A first login with Google is recorded as a success before.
RegisterWithGoogle(r, u) == CreateOwner(r, u, "welcome")

\* logout; likewise a session that reaches its expiresAt.
Logout(s) ==
  /\ s \in sessions
  /\ sessions' = sessions \ {s}
  /\ UNCHANGED <<begun, account, code, issued, clock, req, lost, resets>>

-----------------------------------------------------------------------------
(* changePassword, resetAdminPassword and the other admin operations       *)

ChangePassword(r, u) ==
  /\ account[u].role \in {"OWNER", "SUPER_ADMIN"} /\ ActsAs(u)
  /\ Begin(r, u, "update")
  /\ UNCHANGED <<account, sessions, code, issued, clock, lost, resets>>

ResetAdminPassword(r, u) ==
  /\ SuperAdminActs /\ account[u].role = "ADMIN"
  /\ Begin(r, u, "update")
  /\ UNCHANGED <<account, sessions, code, issued, clock, lost, resets>>

UpdateOnly(r) ==   \* mutant: the sessions are left alone
  LET u == req[r].user IN
  /\ IsAt(r, "update")
  /\ account' = [account EXCEPT ![u] = NewPassword(@)]
  /\ Settle(u)
  /\ resets' = IF req[r].code = 0 THEN resets
               ELSE [resets EXCEPT ![req[r].code] = @ + 1]
  /\ Finish(r)
  /\ UNCHANGED <<begun, sessions, code, issued, clock>>

\* updatePassword: the password goes by nothing that has happened since it was
\* allowed, neither by another new password nor by a deactivation.
UpdatePassword(r) ==
  LET u == req[r].user IN
  /\ IsAt(r, "update")
  /\ account' = [account EXCEPT ![u] = NewPassword(@)]
  /\ Settle(u)
  /\ resets' = IF req[r].code = 0 THEN resets
               ELSE [resets EXCEPT ![req[r].code] = @ + 1]
  /\ req' = [req EXCEPT ![r] = [@ EXCEPT !.at = "revoke", !.code = 0]]
  /\ UNCHANGED <<begun, sessions, code, issued, clock>>

\* revokeAllByUserId, after a new password or any of the two below.
RevokeAll(r) ==
  LET u == req[r].user IN
  /\ req[r].at \in {"revoke", "evict"}
  /\ sessions' = {s \in sessions : s.user # u}
  /\ lost' = lost \ {<<u, "revoke">>}
  /\ Finish(r)
  /\ UNCHANGED <<begun, account, code, issued, clock, resets>>

\* createAdmin is a transaction under a lock of its own.
CreateAdmin(u) ==
  /\ begun < MaxBegun /\ begun' = begun + 1
  /\ SuperAdminActs
  /\ account[u].role = "NONE"
  /\ Cardinality(ActiveAdmins) < MaxAdmins
  /\ account' = [account EXCEPT ![u] = NewAccount("ADMIN")]
  /\ UNCHANGED <<sessions, code, issued, clock, req, lost, resets>>

DeactivateAdmin(r, u) ==
  /\ SuperAdminActs /\ account[u].role = "ADMIN"
  /\ account' = [account EXCEPT ![u].deactivated = TRUE]
  /\ Begin(r, u, "evict")
  /\ UNCHANGED <<sessions, code, issued, clock, lost, resets>>

ForceLogout(r, u) ==
  /\ SuperAdminActs /\ account[u].role \in {"OWNER", "ADMIN"}
  /\ Begin(r, u, "evict")
  /\ UNCHANGED <<account, sessions, code, issued, clock, lost, resets>>

-----------------------------------------------------------------------------
(* Emergency recovery                                                      *)

\* expireAllForUser: the unused codes are marked used.
WithoutCodesOf(u) ==
  [c \in Codes |-> IF code[c].user = u /\ code[c].fate = "live"
                   THEN [code[c] EXCEPT !.fate = "void"] ELSE code[c]]

\* requestCode: voids first and issues then, with no lock.
RequestCode(r, u) ==
  /\ account[u].role = "SUPER_ADMIN"
  /\ Start(r, [Asking("issue", u) EXCEPT !.start = clock])
  /\ code' = WithoutCodesOf(u)
  /\ UNCHANGED <<account, sessions, issued, clock, lost, resets>>

IssueCode(r) ==
  /\ IsAt(r, "issue") /\ issued < MaxCodes
  /\ issued' = issued + 1
  /\ code' = [code EXCEPT ![issued + 1] =
       [user |-> req[r].user, fate |-> "live",
        expires |-> req[r].start + CodeTime, attempts |-> 0]]
  /\ Finish(r)
  /\ UNCHANGED <<begun, account, sessions, clock, lost, resets>>

\* findActiveByUserId: the newest code that is unused and has not expired.
Active(u) == {c \in Codes : /\ code[c].user = u /\ code[c].fate = "live"
                            /\ code[c].expires > clock}

ConfirmReset(r, u) ==
  /\ account[u].role = "SUPER_ADMIN"
  /\ \E c \in Active(u) :
       /\ \A d \in Active(u) : d <= c
       /\ Start(r, [Asking("confirm", u) EXCEPT !.code = c])
  /\ UNCHANGED <<account, sessions, code, issued, clock, lost, resets>>

WrongCode(r) ==
  LET c == req[r].code
      attempts == code[c].attempts + 1 IN
  /\ IsAt(r, "confirm")
  /\ code' = [code EXCEPT ![c].attempts = attempts]
  /\ IF attempts >= MaxAttempts
     THEN req' = [req EXCEPT ![r] = [@ EXCEPT !.at = "void", !.code = 0]]
     ELSE Finish(r)
  /\ UNCHANGED <<begun, account, sessions, issued, clock, lost, resets>>

VoidCodes(r) ==
  /\ IsAt(r, "void")
  /\ code' = WithoutCodesOf(req[r].user)
  /\ Finish(r)
  /\ UNCHANGED <<begun, account, sessions, issued, clock, lost, resets>>

RightCodeUnclaimed(r) ==   \* mutant: the outcome of consume is ignored
  /\ IsAt(r, "confirm")
  /\ code' = [code EXCEPT ![req[r].code].fate = "spent"]
  /\ Go(r, "update")
  /\ UNCHANGED <<begun, account, sessions, issued, clock, lost, resets>>

\* consume is guarded; who loses the claim is refused.
RightCode(r) ==
  /\ IsAt(r, "confirm")
  /\ IF code[req[r].code].fate = "live"
     THEN code' = [code EXCEPT ![req[r].code].fate = "spent"] /\ Go(r, "update")
     ELSE Finish(r) /\ UNCHANGED code
  /\ UNCHANGED <<begun, account, sessions, issued, clock, lost, resets>>

-----------------------------------------------------------------------------
\* A request is refused, fails or is cut short between two statements.
Abandon(r) ==
  /\ ~IsAt(r, "idle")
  /\ lost' = lost \cup {<<req[r].user, w>> : w \in {"lock", "revoke"} \cap {req[r].at}}
  /\ Finish(r)
  /\ UNCHANGED <<begun, account, sessions, code, issued, clock, resets>>

Tick ==
  /\ clock < MaxTime
  /\ clock' = clock + 1
  /\ UNCHANGED <<begun, account, sessions, code, issued, req, lost, resets>>

LoginStep(r) ==
  \/ \E u \in Users : Login(r, u) \/ Register(r, u) \/ RegisterWithGoogle(r, u)
  \/ WrongPassword(r) \/ Lock(r) \/ Succeed(r) \/ IssueSession(r)

PasswordStep(r) ==
  \/ \E u \in Users : ChangePassword(r, u) \/ ResetAdminPassword(r, u)
                      \/ DeactivateAdmin(r, u) \/ ForceLogout(r, u)
  \/ UpdatePassword(r) \/ RevokeAll(r)

RecoveryStep(r) ==
  \/ \E u \in Users : RequestCode(r, u) \/ ConfirmReset(r, u)
  \/ IssueCode(r) \/ WrongCode(r) \/ VoidCodes(r) \/ RightCode(r)

Next ==
  \/ \E r \in Requests : LoginStep(r) \/ PasswordStep(r) \/ RecoveryStep(r) \/ Abandon(r)
  \/ \E s \in sessions : Logout(s)
  \/ \E u \in Users : CreateAdmin(u)
  \/ Tick

Spec == Init /\ [][Next]_vars

-----------------------------------------------------------------------------
(* Properties                                                              *)

\* Every variable stays in its domain.
TypeOK ==
  /\ account \in [Users -> Account]
  /\ sessions \subseteq Session
  /\ code \in [Codes -> Code]
  /\ issued \in 0..MaxCodes /\ begun \in 0..MaxBegun /\ clock \in 0..MaxTime
  /\ req \in [Requests -> Request]
  /\ lost \subseteq Users \X {"lock", "revoke"}
  /\ resets \in [Codes -> Nat]

\* A session outlives the password it was opened with only if its login had
\* already read the account when the password was changed (late), if the
\* revocation is still under way, or if that was cut short.
OldSessionsExplained ==
  \A s \in sessions : s.password # account[s.user].password =>
     \/ s.late
     \/ \E r \in Requests : IsAt(r, "revoke") /\ req[r].user = s.user
     \/ <<s.user, "revoke">> \in lost

\* Whenever the failures have reached the limit, a request is about to lock the
\* account, however logins overlap; or it ended just there.
LockoutComes ==
  \A u \in Users : account[u].failures >= MaxFailed =>
     \/ \E r \in Requests : IsAt(r, "lock") /\ req[r].user = u
     \/ <<u, "lock">> \in lost

\* A lock in force is lifted or shortened only together with a new password, or
\* by a login that had read the account, or created it, before that lock was set.
LocksHold ==
  [][\A u \in Users :
       /\ account[u].lockedUntil > clock
       /\ account'[u].lockedUntil < account[u].lockedUntil
       => \/ account'[u].password # account[u].password
          \/ \E r \in Requests : /\ req[r].at \in {"verify", "welcome", "lock"}
                                 /\ req[r].user = u
                                 /\ req[r].lockedUntil # account[u].lockedUntil
                                 /\ req'[r] # req[r]]_vars

\* A recovery code sets at most one password, and none once it is voided.
CodesResetOnce ==
  \A c \in Codes : /\ resets[c] <= 1
                   /\ resets[c] = 1 => code[c].fate = "spent"
=============================================================================
