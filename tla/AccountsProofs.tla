--------------------------- MODULE AccountsProofs ---------------------------
(***************************************************************************)
(* Proofs about module Accounts, for any number of requests, accounts,      *)
(* attempts and codes.                                                     *)
(*                                                                         *)
(* Nothing here is protected by a transaction, so the argument is about     *)
(* what a request may still rely on between two statements: that its user   *)
(* has an account (Existing), that the lock it read had run out (ReadUnlocked), *)
(* that the code it claimed is its alone (Claims).                          *)
(***************************************************************************)
EXTENDS Accounts, TLAPS

\* Only accounts have sessions and requests; an e-mail without one is blank.
Existing ==
  /\ \A s \in sessions : account[s.user].role # "NONE"
  /\ \A r \in Requests : ~IsAt(r, "idle") => account[req[r].user].role # "NONE"
  /\ \A u \in Users : account[u].role = "NONE" => account[u] = NoAccount

\* A login gets past the first check only if the lock it has read was over; a
\* new account has none.
ReadUnlocked ==
  \A r \in Requests : req[r].at \in {"verify", "welcome", "lock"} =>
     req[r].lockedUntil <= req[r].start /\ req[r].start <= clock

\* Who claimed a code and has not used it yet is the only one.
Claims ==
  /\ \A c \in Codes : c > issued => code[c].fate = "none"
  /\ \A r \in Requests : req[r].code # 0 => req[r].at \in {"confirm", "update"}
  /\ \A r \in Requests : IsAt(r, "confirm") => req[r].code # 0
  /\ \A r \in Requests : IsAt(r, "update") /\ req[r].code # 0 =>
       /\ code[req[r].code].fate = "spent" /\ resets[req[r].code] = 0
       /\ \A q \in Requests : IsAt(q, "update") /\ req[q].code = req[r].code => q = r

IInv ==
  /\ TypeOK
  /\ OldSessionsExplained
  /\ LockoutComes
  /\ CodesResetOnce
  /\ Existing
  /\ ReadUnlocked
  /\ Claims

-----------------------------------------------------------------------------
LEMMA Somewhere == Somebody \in Users
BY LimitAssumption DEF Somebody

LEMMA BlankTypes ==
  /\ Idle \in Request /\ NoCode \in Code /\ NoAccount \in Account
  /\ \A role \in {"OWNER", "ADMIN", "SUPER_ADMIN"} : NewAccount(role) \in Account
  /\ \A stage \in Stages, u \in Users : Asking(stage, u) \in Request
BY Somewhere, LimitAssumption
DEF Idle, Asking, NoCode, Request, Code, Stages, NoAccount, NewAccount, Account

LEMMA InitInv == Init => IInv
BY BlankTypes, LimitAssumption
DEF Init, IInv, TypeOK, OldSessionsExplained, LockoutComes, CodesResetOnce,
    Existing, ReadUnlocked, Claims, IsAt, Idle, Asking, NoCode, NoAccount, NewAccount, Account

LEMMA AccountFields ==
  ASSUME NEW a \in Account
  PROVE  a.failures \in Nat /\ a.password \in Nat /\ a.lockedUntil \in Nat
BY DEF Account

LEMMA AccountTypes ==
  ASSUME NEW a \in Account, NEW n \in Nat
  PROVE  /\ [a EXCEPT !.failures = n] \in Account
         /\ [a EXCEPT !.lockedUntil = n, !.failures = 0] \in Account
         /\ [a EXCEPT !.deactivated = TRUE] \in Account
         /\ Unlocked(a) \in Account /\ NewPassword(a) \in Account
<1>1. a.password \in Nat
  BY AccountFields
<1>2. [a EXCEPT !.failures = n] \in Account
  BY DEF Account
<1>3. [a EXCEPT !.lockedUntil = n, !.failures = 0] \in Account
  BY DEF Account
<1>4. [a EXCEPT !.deactivated = TRUE] \in Account
  BY DEF Account
<1>5. Unlocked(a) \in Account
  BY DEF Account, Unlocked
<1>6. \A b \in Account, p \in Nat : [b EXCEPT !.password = p] \in Account
  BY DEF Account
<1>7. NewPassword(a) \in Account
  BY <1>1, <1>5, <1>6 DEF NewPassword
<1> QED
  BY <1>2, <1>3, <1>4, <1>5, <1>7

LEMMA RequestTypes ==
  ASSUME NEW q \in Request
  PROVE  /\ \A stage \in Stages : [q EXCEPT !.at = stage] \in Request
         /\ [q EXCEPT !.at = "lock", !.password = 0] \in Request
         /\ [q EXCEPT !.at = "session", !.start = 0, !.lockedUntil = 0] \in Request
         /\ [q EXCEPT !.at = "revoke", !.code = 0] \in Request
         /\ [q EXCEPT !.at = "void", !.code = 0] \in Request
         /\ \A n \in Nat : [q EXCEPT !.password = n] \in Request
         /\ \A n \in Nat : [q EXCEPT !.start = n] \in Request
         /\ \A c \in Codes : [q EXCEPT !.code = c] \in Request
<1>1. ASSUME NEW stage \in Stages
      PROVE  [q EXCEPT !.at = stage] \in Request
  BY DEF Request
<1>2. [q EXCEPT !.at = "lock", !.password = 0] \in Request
  BY DEF Request, Stages
<1>3. [q EXCEPT !.at = "session", !.start = 0, !.lockedUntil = 0] \in Request
  <2>1. PICK p : p = [q EXCEPT !.at = "session", !.start = 0]
    OBVIOUS
  <2>2. p \in Request
    BY <2>1 DEF Request, Stages
  <2>3. [p EXCEPT !.lockedUntil = 0] \in Request
    BY <2>2 DEF Request
  <2> QED
    BY <2>1, <2>3
<1>4. [q EXCEPT !.at = "revoke", !.code = 0] \in Request
  <2>1. 0 \in 0..MaxCodes
    BY LimitAssumption
  <2> QED
    BY <2>1 DEF Request, Stages
<1>5. [q EXCEPT !.at = "void", !.code = 0] \in Request
  <2>1. 0 \in 0..MaxCodes
    BY LimitAssumption
  <2> QED
    BY <2>1 DEF Request, Stages
<1>6. ASSUME NEW n \in Nat
      PROVE  [q EXCEPT !.password = n] \in Request /\ [q EXCEPT !.start = n] \in Request
  BY DEF Request
<1>7. ASSUME NEW c \in Codes
      PROVE  [q EXCEPT !.code = c] \in Request
  <2>1. c \in 0..MaxCodes
    BY LimitAssumption DEF Codes
  <2> QED
    BY <2>1 DEF Request
<1> QED
  BY <1>1, <1>2, <1>3, <1>4, <1>5, <1>6, <1>7

LEMMA CodeTypes ==
  ASSUME NEW k \in Code
  PROVE  /\ \A f \in {"void", "spent"} : [k EXCEPT !.fate = f] \in Code
         /\ \A n \in Nat : [k EXCEPT !.attempts = n] \in Code
BY DEF Code

LEMMA ReqStep ==
  ASSUME TypeOK, NEW r \in Requests
  PROVE  /\ Finish(r) => req' \in [Requests -> Request]
         /\ \A stage \in Stages : Go(r, stage) => req' \in [Requests -> Request]
         /\ \A q \in Request : Start(r, q) =>
              req' \in [Requests -> Request] /\ begun' \in 0..MaxBegun
         /\ req[r] \in Request
         /\ req[r].user \in Users /\ req[r].start \in Nat
         /\ req[r].password \in Nat /\ req[r].code \in 0..MaxCodes
<1>1. req \in [Requests -> Request] /\ begun \in 0..MaxBegun
  BY DEF TypeOK
<1>2. Finish(r) => req' \in [Requests -> Request]
  BY <1>1, BlankTypes DEF Finish
<1>3. ASSUME NEW stage \in Stages, Go(r, stage)
      PROVE  req' \in [Requests -> Request]
  <2>1. [req[r] EXCEPT !.at = stage] \in Request
    BY <1>1, RequestTypes
  <2> QED
    BY <1>1, <1>3, <2>1 DEF Go
<1>4. \A q \in Request : Start(r, q) =>
        req' \in [Requests -> Request] /\ begun' \in 0..MaxBegun
  BY <1>1, LimitAssumption DEF Start
<1>5. req[r] \in Request
  BY <1>1
<1> QED
  BY <1>2, <1>3, <1>4, <1>5 DEF Request

\* Every statement that writes one account, one code or one request keeps the
\* types of the others.
LEMMA TypeStep ==
  ASSUME TypeOK, [Next]_vars
  PROVE  TypeOK'
<1> USE BlankTypes, LimitAssumption
<1>0. /\ account \in [Users -> Account] /\ code \in [Codes -> Code]
      /\ sessions \subseteq Session /\ resets \in [Codes -> Nat]
      /\ issued \in 0..MaxCodes /\ begun \in 0..MaxBegun /\ clock \in 0..MaxTime
      /\ lost \subseteq Users \X {"lock", "revoke"}
      /\ req \in [Requests -> Request]
  BY DEF TypeOK
<1>a. \A u \in Users : WithoutCodesOf(u) \in [Codes -> Code]
  BY <1>0, CodeTypes DEF WithoutCodesOf, Codes
<1>b. clock \in Nat /\ \A u \in Users : account[u] \in Account
  BY <1>0
<1>1. ASSUME NEW r \in Requests, NEW u \in Users, Login(r, u)
      PROVE  TypeOK'
  <2>1. req' \in [Requests -> Request] /\ begun' \in 0..MaxBegun
    <3>1. account[u].password \in Nat /\ account[u].lockedUntil \in Nat /\ clock \in Nat
      BY <1>b, AccountFields
    <3>2. [at |-> "verify", user |-> u, start |-> clock,
           password |-> account[u].password,
           lockedUntil |-> account[u].lockedUntil, code |-> 0] \in Request
      BY <3>1 DEF Request, Stages
    <3> QED
      BY <1>1, <3>2, ReqStep DEF Login, BeginLogin
  <2> QED
    BY <1>1, <1>0, <2>1 DEF Login, TypeOK
<1>2. ASSUME NEW r \in Requests, NEW u \in Users,
             NEW next \in {"session", "welcome"}, CreateOwner(r, u, next)
      PROVE  TypeOK'
  <2>1. [Asking(next, u) EXCEPT !.password = 1] \in Request
    BY RequestTypes DEF Stages
  <2> QED
    BY <1>2, <1>0, <2>1, ReqStep DEF CreateOwner, TypeOK
<1>3. ASSUME NEW r \in Requests, NEW u \in Users, ChangePassword(r, u)
      PROVE  TypeOK'
  BY <1>3, <1>0, ReqStep DEF ChangePassword, Begin, Stages, TypeOK
<1>4. ASSUME NEW r \in Requests, NEW u \in Users, ResetAdminPassword(r, u)
      PROVE  TypeOK'
  BY <1>4, <1>0, ReqStep DEF ResetAdminPassword, Begin, Stages, TypeOK
<1>5. ASSUME NEW r \in Requests, NEW u \in Users, DeactivateAdmin(r, u)
      PROVE  TypeOK'
  BY <1>5, <1>0, ReqStep, AccountTypes DEF DeactivateAdmin, Begin, Stages, TypeOK
<1>6. ASSUME NEW r \in Requests, NEW u \in Users, ForceLogout(r, u)
      PROVE  TypeOK'
  BY <1>6, <1>0, ReqStep DEF ForceLogout, Begin, Stages, TypeOK
<1>7. ASSUME NEW r \in Requests, NEW u \in Users, RequestCode(r, u)
      PROVE  TypeOK'
  <2>1. [Asking("issue", u) EXCEPT !.start = clock] \in Request
    <3>1. Asking("issue", u) \in Request
      BY DEF Stages
    <3> QED
      BY <1>b, <3>1, RequestTypes
  <2> QED
    BY <1>7, <1>0, <1>a, <2>1, ReqStep DEF RequestCode, TypeOK
<1>8. ASSUME NEW r \in Requests, NEW u \in Users, ConfirmReset(r, u)
      PROVE  TypeOK'
  <2>1. \A c \in Codes : [Asking("confirm", u) EXCEPT !.code = c] \in Request
    BY <1>0, RequestTypes DEF Stages
  <2>2. Active(u) \subseteq Codes
    BY DEF Active
  <2> QED
    BY <1>8, <1>0, <2>1, <2>2, ReqStep DEF ConfirmReset, TypeOK
<1>9. ASSUME NEW r \in Requests, WrongPassword(r)
      PROVE  TypeOK'
  <2> DEFINE f == account[req[r].user].failures + 1
  <2>1. f \in Nat /\ [account[req[r].user] EXCEPT !.failures = f] \in Account
    <3>1. account[req[r].user] \in Account
      BY <1>b, ReqStep
    <3>2. f \in Nat
      BY <3>1, AccountFields
    <3>3. \A m \in Nat : [account[req[r].user] EXCEPT !.failures = m] \in Account
      BY <3>1, AccountTypes
    <3> QED
      BY <3>2, <3>3
  <2>2. [req[r] EXCEPT !.at = "lock", !.password = 0] \in Request
    BY ReqStep, RequestTypes
  <2>3. req' \in [Requests -> Request]
    BY <1>9, <1>0, <2>2, ReqStep DEF WrongPassword
  <2> QED
    BY <1>9, <1>0, <2>1, <2>3, ReqStep DEF WrongPassword, TypeOK
<1>10. ASSUME NEW r \in Requests, Lock(r)
      PROVE  TypeOK'
  <2>1. req[r].start + LockTime \in Nat
    BY ReqStep
  <2>2. [account[req[r].user] EXCEPT !.lockedUntil = req[r].start + LockTime,
                                    !.failures = 0] \in Account
    BY <1>0, <2>1, ReqStep, AccountTypes
  <2> QED
    BY <1>10, <1>0, <2>2, ReqStep DEF Lock, Settle, TypeOK
<1>11. ASSUME NEW r \in Requests, Succeed(r)
      PROVE  TypeOK'
  <2>1. Unlocked(account[req[r].user]) \in Account
    BY <1>0, ReqStep, AccountTypes
  <2>2. [req[r] EXCEPT !.at = "session", !.start = 0, !.lockedUntil = 0] \in Request
    BY ReqStep, RequestTypes
  <2> QED
    BY <1>11, <1>0, <2>1, <2>2, ReqStep DEF Succeed, Settle, TypeOK
<1>12. ASSUME NEW r \in Requests, IssueSession(r)
      PROVE  TypeOK'
  <2>1. [user |-> req[r].user, password |-> req[r].password,
         late |-> req[r].password # account[req[r].user].password] \in Session
    BY ReqStep DEF Session
  <2> QED
    BY <1>12, <1>0, <2>1, ReqStep DEF IssueSession, TypeOK
<1>13. ASSUME NEW r \in Requests, UpdatePassword(r)
      PROVE  TypeOK'
  <2>1. NewPassword(account[req[r].user]) \in Account
    BY <1>0, ReqStep, AccountTypes
  <2>2. [req[r] EXCEPT !.at = "revoke", !.code = 0] \in Request
    BY ReqStep, RequestTypes
  <2>3. req[r].code # 0 => req[r].code \in Codes
    BY ReqStep DEF Codes
  <2>4. resets' \in [Codes -> Nat]
    BY <1>13, <1>0, <2>3 DEF UpdatePassword
  <2> QED
    BY <1>13, <1>0, <2>1, <2>2, <2>4, ReqStep DEF UpdatePassword, Settle, TypeOK
<1>14. ASSUME NEW r \in Requests, RevokeAll(r)
      PROVE  TypeOK'
  BY <1>14, <1>0, ReqStep DEF RevokeAll, TypeOK
<1>15. ASSUME NEW r \in Requests, IssueCode(r)
      PROVE  TypeOK'
  <2>1. req[r].start + CodeTime \in Nat
    BY ReqStep
  <2>2. [user |-> req[r].user, fate |-> "live",
         expires |-> req[r].start + CodeTime, attempts |-> 0] \in Code
    BY <2>1, ReqStep DEF Code
  <2> QED
    <3>1. issued + 1 \in 0..MaxCodes /\ issued + 1 \in Codes
      BY <1>15, <1>0 DEF IssueCode, Codes
    <3> QED
      BY <1>15, <1>0, <2>2, <3>1, ReqStep DEF IssueCode, TypeOK
<1>16. ASSUME NEW r \in Requests, WrongCode(r)
      PROVE  TypeOK'
  <2>1. ASSUME req[r].code \in Codes
        PROVE  [code[req[r].code] EXCEPT !.attempts = code[req[r].code].attempts + 1] \in Code
    <3>1. code[req[r].code] \in Code /\ code[req[r].code].attempts + 1 \in Nat
      BY <1>0, <2>1 DEF Code
    <3> QED
      BY <3>1, CodeTypes
  <2>2. code' \in [Codes -> Code]
    BY <1>16, <1>0, <2>1 DEF WrongCode
  <2>3. [req[r] EXCEPT !.at = "void", !.code = 0] \in Request
    BY ReqStep, RequestTypes
  <2>4. req' \in [Requests -> Request]
    BY <1>16, <1>0, <2>3, ReqStep DEF WrongCode
  <2> QED
    BY <1>16, <1>0, <2>2, <2>4 DEF WrongCode, TypeOK
<1>17. ASSUME NEW r \in Requests, VoidCodes(r)
      PROVE  TypeOK'
  BY <1>17, <1>0, <1>a, ReqStep DEF VoidCodes, TypeOK
<1>18. ASSUME NEW r \in Requests, RightCode(r)
      PROVE  TypeOK'
  <2>1. code' \in [Codes -> Code]
    <3>1. ASSUME req[r].code \in Codes
          PROVE  [code[req[r].code] EXCEPT !.fate = "spent"] \in Code
      BY <1>0, <3>1, CodeTypes
    <3> QED
      BY <1>18, <1>0, <3>1 DEF RightCode
  <2>2. req' \in [Requests -> Request]
    BY <1>18, <1>0, ReqStep DEF RightCode, Stages
  <2> QED
    BY <1>18, <1>0, <2>1, <2>2 DEF RightCode, TypeOK
<1>19. ASSUME NEW r \in Requests, Abandon(r)
      PROVE  TypeOK'
  BY <1>19, <1>0, ReqStep DEF Abandon, TypeOK
<1>20. ASSUME NEW s \in sessions, Logout(s)
      PROVE  TypeOK'
  BY <1>20, <1>0 DEF Logout, TypeOK
<1>21. ASSUME NEW u \in Users, CreateAdmin(u)
      PROVE  TypeOK'
  BY <1>21, <1>0 DEF CreateAdmin, TypeOK
<1>22. CASE Tick
  BY <1>22, <1>0 DEF Tick, TypeOK
<1>23. CASE UNCHANGED vars
  BY <1>23, <1>0 DEF vars, TypeOK
<1> QED
  BY <1>1, <1>2, <1>3, <1>4, <1>5, <1>6, <1>7, <1>8, <1>9, <1>10, <1>11, <1>12,
     <1>13, <1>14, <1>15, <1>16, <1>17, <1>18, <1>19, <1>20, <1>21, <1>22, <1>23
  DEF Next, LoginStep, Register, RegisterWithGoogle, PasswordStep, RecoveryStep

-----------------------------------------------------------------------------
(* What the actions do to one field of one row.                            *)

LEMMA Fields ==
  ASSUME NEW a \in Account
  PROVE  /\ Unlocked(a).password = a.password /\ NewPassword(a).password # a.password
         /\ Unlocked(a).failures = 0 /\ NewPassword(a).failures = 0
         /\ Unlocked(a).role = a.role /\ NewPassword(a).role = a.role
         /\ \A n : /\ [a EXCEPT !.failures = n].password = a.password
                   /\ [a EXCEPT !.failures = n].failures = n
                   /\ [a EXCEPT !.failures = n].role = a.role
                   /\ [a EXCEPT !.failures = n].lockedUntil = a.lockedUntil
                   /\ [a EXCEPT !.lockedUntil = n, !.failures = 0].password = a.password
                   /\ [a EXCEPT !.lockedUntil = n, !.failures = 0].failures = 0
                   /\ [a EXCEPT !.lockedUntil = n, !.failures = 0].role = a.role
                   /\ [a EXCEPT !.lockedUntil = n, !.failures = 0].lockedUntil = n
         /\ [a EXCEPT !.deactivated = TRUE].password = a.password
         /\ [a EXCEPT !.deactivated = TRUE].failures = a.failures
         /\ [a EXCEPT !.deactivated = TRUE].role = a.role
         /\ [a EXCEPT !.deactivated = TRUE].lockedUntil = a.lockedUntil
<1>1. Unlocked(a) \in Account /\ a.password \in Nat
  BY AccountTypes, AccountFields
<1>2. /\ Unlocked(a).password = a.password
      /\ Unlocked(a).failures = 0
      /\ Unlocked(a).role = a.role
  BY DEF Unlocked, Account
<1>3. \A b \in Account, n \in Nat :
        /\ [b EXCEPT !.password = n].password = n
        /\ [b EXCEPT !.password = n].failures = b.failures
        /\ [b EXCEPT !.password = n].role = b.role
  BY DEF Account
<1>4. /\ NewPassword(a).password = a.password + 1
      /\ NewPassword(a).failures = 0
      /\ NewPassword(a).role = a.role
  BY <1>1, <1>2, <1>3 DEF NewPassword
<1>5. \A n : /\ [a EXCEPT !.failures = n].password = a.password
             /\ [a EXCEPT !.failures = n].failures = n
             /\ [a EXCEPT !.failures = n].role = a.role
             /\ [a EXCEPT !.failures = n].lockedUntil = a.lockedUntil
  BY DEF Account
<1>6. \A n : /\ [a EXCEPT !.lockedUntil = n, !.failures = 0].password = a.password
             /\ [a EXCEPT !.lockedUntil = n, !.failures = 0].failures = 0
             /\ [a EXCEPT !.lockedUntil = n, !.failures = 0].role = a.role
             /\ [a EXCEPT !.lockedUntil = n, !.failures = 0].lockedUntil = n
  BY DEF Account
<1>7. /\ [a EXCEPT !.deactivated = TRUE].password = a.password
      /\ [a EXCEPT !.deactivated = TRUE].failures = a.failures
      /\ [a EXCEPT !.deactivated = TRUE].role = a.role
      /\ [a EXCEPT !.deactivated = TRUE].lockedUntil = a.lockedUntil
  BY DEF Account
<1> QED
  BY <1>1, <1>2, <1>4, <1>5, <1>6, <1>7

-----------------------------------------------------------------------------
(* Accounts come and stay.                                                 *)

\* Whatever a step writes, it writes to an account that exists from then on.
LEMMA RoleStep ==
  ASSUME TypeOK, Existing, [Next]_vars
  PROVE  \A v \in Users : account'[v] = account[v] \/ account'[v].role # "NONE"
<1>0. /\ account \in [Users -> Account] /\ req \in [Requests -> Request]
      /\ \A q \in Requests : req[q].user \in Users
      /\ NoAccount.role = "NONE"
  BY ReqStep DEF TypeOK, NoAccount
<1>1. ASSUME NEW r \in Requests, NEW u \in Users, Login(r, u)
      PROVE  \A v \in Users : account'[v] = account[v] \/ account'[v].role # "NONE"
  BY <1>1, <1>0
  DEF Login, BeginLogin, Start, Existing, IsAt, NewAccount
<1>2. ASSUME NEW r \in Requests, NEW u \in Users,
             NEW next \in {"session", "welcome"}, CreateOwner(r, u, next)
      PROVE  \A v \in Users : account'[v] = account[v] \/ account'[v].role # "NONE"
  BY <1>2, <1>0
  DEF CreateOwner, Start, Asking, Existing, IsAt, NewAccount
<1>3. ASSUME NEW r \in Requests, NEW u \in Users, ChangePassword(r, u)
      PROVE  \A v \in Users : account'[v] = account[v] \/ account'[v].role # "NONE"
  BY <1>3, <1>0
  DEF ChangePassword, Begin, Start, Asking, Existing, IsAt, NewAccount
<1>4. ASSUME NEW r \in Requests, NEW u \in Users, ResetAdminPassword(r, u)
      PROVE  \A v \in Users : account'[v] = account[v] \/ account'[v].role # "NONE"
  BY <1>4, <1>0
  DEF ResetAdminPassword, Begin, Start, Asking, Existing, IsAt, NewAccount
<1>5. ASSUME NEW r \in Requests, NEW u \in Users, DeactivateAdmin(r, u)
      PROVE  \A v \in Users : account'[v] = account[v] \/ account'[v].role # "NONE"
  BY <1>5, <1>0, Fields DEF DeactivateAdmin, Begin, Start, Asking, Existing, IsAt
<1>6. ASSUME NEW r \in Requests, NEW u \in Users, ForceLogout(r, u)
      PROVE  \A v \in Users : account'[v] = account[v] \/ account'[v].role # "NONE"
  BY <1>6, <1>0
  DEF ForceLogout, Begin, Start, Asking, Existing, IsAt, NewAccount
<1>7. ASSUME NEW r \in Requests, NEW u \in Users, RequestCode(r, u)
      PROVE  \A v \in Users : account'[v] = account[v] \/ account'[v].role # "NONE"
  BY <1>7, <1>0
  DEF RequestCode, Start, Asking, WithoutCodesOf, Existing, IsAt, NewAccount
<1>8. ASSUME NEW r \in Requests, NEW u \in Users, ConfirmReset(r, u)
      PROVE  \A v \in Users : account'[v] = account[v] \/ account'[v].role # "NONE"
  BY <1>8, <1>0
  DEF ConfirmReset, Start, Asking, Active, Existing, IsAt, NewAccount
<1>9. ASSUME NEW r \in Requests, WrongPassword(r)
      PROVE  \A v \in Users : account'[v] = account[v] \/ account'[v].role # "NONE"
  BY <1>9, <1>0, Fields DEF WrongPassword, Finish, Existing, IsAt
<1>10. ASSUME NEW r \in Requests, Lock(r)
      PROVE  \A v \in Users : account'[v] = account[v] \/ account'[v].role # "NONE"
  BY <1>10, <1>0, Fields DEF Lock, Finish, Settle, Existing, IsAt
<1>11. ASSUME NEW r \in Requests, Succeed(r)
      PROVE  \A v \in Users : account'[v] = account[v] \/ account'[v].role # "NONE"
  BY <1>11, <1>0, Fields DEF Succeed, Settle, Existing, IsAt
<1>12. ASSUME NEW r \in Requests, IssueSession(r)
      PROVE  \A v \in Users : account'[v] = account[v] \/ account'[v].role # "NONE"
  BY <1>12, <1>0
  DEF IssueSession, Finish, Existing, IsAt, NewAccount
<1>13. ASSUME NEW r \in Requests, UpdatePassword(r)
      PROVE  \A v \in Users : account'[v] = account[v] \/ account'[v].role # "NONE"
  BY <1>13, <1>0, Fields DEF UpdatePassword, Settle, Existing, IsAt
<1>14. ASSUME NEW r \in Requests, RevokeAll(r)
      PROVE  \A v \in Users : account'[v] = account[v] \/ account'[v].role # "NONE"
  BY <1>14, <1>0
  DEF RevokeAll, Finish, Existing, IsAt, NewAccount
<1>15. ASSUME NEW r \in Requests, IssueCode(r)
      PROVE  \A v \in Users : account'[v] = account[v] \/ account'[v].role # "NONE"
  BY <1>15, <1>0
  DEF IssueCode, Finish, Existing, IsAt, NewAccount
<1>16. ASSUME NEW r \in Requests, WrongCode(r)
      PROVE  \A v \in Users : account'[v] = account[v] \/ account'[v].role # "NONE"
  BY <1>16, <1>0
  DEF WrongCode, Finish, Existing, IsAt, NewAccount
<1>17. ASSUME NEW r \in Requests, VoidCodes(r)
      PROVE  \A v \in Users : account'[v] = account[v] \/ account'[v].role # "NONE"
  BY <1>17, <1>0
  DEF VoidCodes, Finish, WithoutCodesOf, Existing, IsAt, NewAccount
<1>18. ASSUME NEW r \in Requests, RightCode(r)
      PROVE  \A v \in Users : account'[v] = account[v] \/ account'[v].role # "NONE"
  BY <1>18, <1>0
  DEF RightCode, Finish, Go, Existing, IsAt, NewAccount
<1>19. ASSUME NEW r \in Requests, Abandon(r)
      PROVE  \A v \in Users : account'[v] = account[v] \/ account'[v].role # "NONE"
  BY <1>19, <1>0
  DEF Abandon, Finish, Existing, IsAt, NewAccount
<1>20. ASSUME NEW s \in sessions, Logout(s)
      PROVE  \A v \in Users : account'[v] = account[v] \/ account'[v].role # "NONE"
  BY <1>20, <1>0
  DEF Logout, Existing, IsAt, NewAccount
<1>21. ASSUME NEW u \in Users, CreateAdmin(u)
      PROVE  \A v \in Users : account'[v] = account[v] \/ account'[v].role # "NONE"
  BY <1>21, <1>0
  DEF CreateAdmin, Existing, IsAt, NewAccount
<1>22. CASE Tick
  BY <1>22, <1>0
  DEF Tick, Existing, IsAt, NewAccount
<1>23. CASE UNCHANGED vars
  BY <1>23, <1>0
  DEF vars, Existing, IsAt, NewAccount
<1> QED
  BY <1>1, <1>2, <1>3, <1>4, <1>5, <1>6, <1>7, <1>8, <1>9, <1>10, <1>11, <1>12,
     <1>13, <1>14, <1>15, <1>16, <1>17, <1>18, <1>19, <1>20, <1>21, <1>22, <1>23
  DEF Next, LoginStep, Register, RegisterWithGoogle, PasswordStep, RecoveryStep

\* What a request becomes.
LEMMA RequestFields ==
  ASSUME NEW q \in Request, NEW stage, NEW n, NEW u
  PROVE  /\ [q EXCEPT !.at = stage].at = stage
         /\ [q EXCEPT !.at = stage].user = q.user
         /\ [q EXCEPT !.at = stage].start = q.start
         /\ [q EXCEPT !.at = stage].lockedUntil = q.lockedUntil
         /\ [q EXCEPT !.at = stage].code = q.code
         /\ [q EXCEPT !.at = stage, !.password = n].at = stage
         /\ [q EXCEPT !.at = stage, !.password = n].user = q.user
         /\ [q EXCEPT !.at = stage, !.password = n].start = q.start
         /\ [q EXCEPT !.at = stage, !.password = n].lockedUntil = q.lockedUntil
         /\ [q EXCEPT !.at = stage, !.password = n].code = q.code
         /\ [q EXCEPT !.at = stage, !.code = n].at = stage
         /\ [q EXCEPT !.at = stage, !.code = n].user = q.user
         /\ [q EXCEPT !.at = stage, !.code = n].code = n
         /\ [q EXCEPT !.password = n].at = q.at
         /\ [q EXCEPT !.password = n].user = q.user
         /\ [q EXCEPT !.password = n].start = q.start
         /\ [q EXCEPT !.password = n].lockedUntil = q.lockedUntil
         /\ [q EXCEPT !.password = n].code = q.code
         /\ [q EXCEPT !.start = n].at = q.at
         /\ [q EXCEPT !.start = n].user = q.user
         /\ [q EXCEPT !.start = n].code = q.code
         /\ [q EXCEPT !.code = n].at = q.at
         /\ [q EXCEPT !.code = n].user = q.user
         /\ [q EXCEPT !.code = n].code = n
BY DEF Request

LEMMA SessionRequest ==
  ASSUME NEW q \in Request
  PROVE  LET p == [q EXCEPT !.at = "session", !.start = 0, !.lockedUntil = 0] IN
         p.at = "session" /\ p.user = q.user /\ p.code = q.code
BY DEF Request

\* One request moves: r goes to stage, and keeps its user unless it was idle.
Moves(r, stage) ==
  /\ req' \in [Requests -> Request]
  /\ \A q \in Requests : q # r => req'[q] = req[q]
  /\ req'[r].at = stage
  /\ stage # "idle" /\ req[r].at # "idle" => req'[r].user = req[r].user

LEMMA FinishMoves ==
  ASSUME TypeOK, NEW r \in Requests, Finish(r)
  PROVE  Moves(r, "idle") /\ req'[r].code = 0
BY ReqStep DEF TypeOK, Finish, Moves, Idle, Asking

LEMMA GoMoves ==
  ASSUME TypeOK, NEW r \in Requests, NEW stage \in Stages, Go(r, stage)
  PROVE  Moves(r, stage) /\ req'[r].code = req[r].code
<1>1. req \in [Requests -> Request] /\ req[r] \in Request
      /\ req' = [req EXCEPT ![r] = [req[r] EXCEPT !.at = stage]]
  BY ReqStep DEF TypeOK, Go
<1>2. req' \in [Requests -> Request]
  BY ReqStep
<1> QED
  BY <1>1, <1>2, RequestFields DEF Moves

LEMMA BeginMoves ==
  ASSUME TypeOK, NEW r \in Requests, NEW u \in Users, NEW stage \in Stages,
         Begin(r, u, stage)
  PROVE  /\ Moves(r, stage) /\ req[r].at = "idle"
         /\ req'[r].user = u /\ req'[r].code = 0
<1>1. Asking(stage, u) \in Request
  BY BlankTypes
<1> QED
  BY <1>1, ReqStep DEF TypeOK, Begin, Start, Moves, IsAt, Asking

\* How each of the other statements moves its request.
LEMMA LoginMoves ==
  ASSUME TypeOK, NEW r \in Requests, NEW u \in Users, Login(r, u)
  PROVE  /\ Moves(r, "verify") /\ req[r].at = "idle"
         /\ req'[r].user = u /\ req'[r].code = 0
         /\ req'[r].start = clock /\ req'[r].lockedUntil = account[u].lockedUntil
<1>1. req' \in [Requests -> Request]
  <2>1. TypeOK'
    BY TypeStep DEF Next, LoginStep
  <2> QED
    BY <2>1 DEF TypeOK
<1> QED
  BY <1>1 DEF TypeOK, Login, BeginLogin, Start, Moves, IsAt

LEMMA RegisterMoves ==
  ASSUME TypeOK, NEW r \in Requests, NEW u \in Users,
         NEW next \in {"session", "welcome"}, CreateOwner(r, u, next)
  PROVE  /\ Moves(r, next) /\ req[r].at = "idle"
         /\ req'[r].user = u /\ req'[r].code = 0
         /\ req'[r].start = 0 /\ req'[r].lockedUntil = 0
<1>1. Asking(next, u) \in Request
  BY BlankTypes DEF Stages
<1>2. [Asking(next, u) EXCEPT !.password = 1] \in Request
  BY <1>1, RequestTypes
<1>3. /\ Asking(next, u).at = next /\ Asking(next, u).user = u
      /\ Asking(next, u).code = 0
      /\ Asking(next, u).start = 0 /\ Asking(next, u).lockedUntil = 0
  BY DEF Asking
<1>4. /\ [Asking(next, u) EXCEPT !.password = 1].at = next
      /\ [Asking(next, u) EXCEPT !.password = 1].user = u
      /\ [Asking(next, u) EXCEPT !.password = 1].code = 0
      /\ [Asking(next, u) EXCEPT !.password = 1].start = 0
      /\ [Asking(next, u) EXCEPT !.password = 1].lockedUntil = 0
  BY <1>1, <1>3, RequestFields
<1> QED
  BY <1>2, <1>4, ReqStep DEF TypeOK, CreateOwner, Start, Moves, IsAt

LEMMA RequestCodeMoves ==
  ASSUME TypeOK, NEW r \in Requests, NEW u \in Users, RequestCode(r, u)
  PROVE  /\ Moves(r, "issue") /\ req[r].at = "idle"
         /\ req'[r].user = u /\ req'[r].code = 0
<1>1. Asking("issue", u) \in Request
  BY BlankTypes DEF Stages
<1>2. [Asking("issue", u) EXCEPT !.start = clock] \in Request
  <2>1. clock \in Nat
    BY LimitAssumption DEF TypeOK
  <2> QED
    BY <1>1, <2>1, RequestTypes
<1>3. Asking("issue", u).at = "issue" /\ Asking("issue", u).user = u
      /\ Asking("issue", u).code = 0
  BY DEF Asking
<1>4. [Asking("issue", u) EXCEPT !.start = clock].at = "issue"
      /\ [Asking("issue", u) EXCEPT !.start = clock].user = u
      /\ [Asking("issue", u) EXCEPT !.start = clock].code = 0
  BY <1>1, <1>3, RequestFields
<1> QED
  BY <1>2, <1>4, ReqStep DEF TypeOK, RequestCode, Start, Moves, IsAt

LEMMA ConfirmMoves ==
  ASSUME TypeOK, NEW r \in Requests, NEW u \in Users, ConfirmReset(r, u)
  PROVE  /\ Moves(r, "confirm") /\ req[r].at = "idle"
         /\ req'[r].user = u /\ req'[r].code \in Codes
<1>1. PICK c \in Codes : Start(r, [Asking("confirm", u) EXCEPT !.code = c])
  BY DEF ConfirmReset, Active
<1>2. Asking("confirm", u) \in Request
  BY BlankTypes DEF Stages
<1>3. [Asking("confirm", u) EXCEPT !.code = c] \in Request
  BY <1>2, RequestTypes
<1>4. Asking("confirm", u).at = "confirm" /\ Asking("confirm", u).user = u
  BY DEF Asking
<1>5. [Asking("confirm", u) EXCEPT !.code = c].at = "confirm"
      /\ [Asking("confirm", u) EXCEPT !.code = c].user = u
      /\ [Asking("confirm", u) EXCEPT !.code = c].code = c
  BY <1>2, <1>4, RequestFields
<1> QED
  BY <1>1, <1>3, <1>5, ReqStep DEF TypeOK, Start, Moves, IsAt

LEMMA WrongPasswordMoves ==
  ASSUME TypeOK, NEW r \in Requests, WrongPassword(r)
  PROVE  \/ /\ Moves(r, "idle") /\ req'[r].code = 0
            /\ ~(account[req[r].user].failures + 1 >= MaxFailed)
         \/ /\ Moves(r, "lock") /\ req'[r].code = req[r].code
            /\ req'[r].start = req[r].start /\ req'[r].lockedUntil = req[r].lockedUntil
<1>1. CASE ~(account[req[r].user].failures + 1 >= MaxFailed)
  BY <1>1, FinishMoves DEF WrongPassword
<1>2. CASE account[req[r].user].failures + 1 >= MaxFailed
  <2>1. req' = [req EXCEPT ![r] = [req[r] EXCEPT !.at = "lock", !.password = 0]]
    BY <1>2 DEF WrongPassword
  <2>2. req[r] \in Request /\ [req[r] EXCEPT !.at = "lock", !.password = 0] \in Request
    BY ReqStep, RequestTypes
  <2> QED
    BY <2>1, <2>2, RequestFields DEF TypeOK, Moves
<1> QED
  BY <1>1, <1>2

LEMMA SucceedMoves ==
  ASSUME TypeOK, NEW r \in Requests, Succeed(r)
  PROVE  Moves(r, "session") /\ req'[r].code = req[r].code
<1>1. req[r] \in Request
      /\ [req[r] EXCEPT !.at = "session", !.start = 0, !.lockedUntil = 0] \in Request
  BY ReqStep, RequestTypes
<1> QED
  BY <1>1, SessionRequest DEF TypeOK, Moves, Succeed

LEMMA UpdateMoves ==
  ASSUME TypeOK, NEW r \in Requests, UpdatePassword(r)
  PROVE  Moves(r, "revoke") /\ req'[r].code = 0
<1>1. req[r] \in Request /\ [req[r] EXCEPT !.at = "revoke", !.code = 0] \in Request
  BY ReqStep, RequestTypes
<1> QED
  BY <1>1, RequestFields DEF TypeOK, Moves, UpdatePassword

LEMMA WrongCodeMoves ==
  ASSUME TypeOK, NEW r \in Requests, WrongCode(r)
  PROVE  (Moves(r, "idle") \/ Moves(r, "void")) /\ req'[r].code = 0
<1>1. CASE Finish(r)
  BY <1>1, FinishMoves
<1>2. CASE ~Finish(r)
  <2>1. req' = [req EXCEPT ![r] = [req[r] EXCEPT !.at = "void", !.code = 0]]
    BY <1>2 DEF WrongCode
  <2>2. req[r] \in Request /\ [req[r] EXCEPT !.at = "void", !.code = 0] \in Request
    BY ReqStep, RequestTypes
  <2> QED
    BY <2>1, <2>2, RequestFields DEF TypeOK, Moves
<1> QED
  BY <1>1, <1>2

LEMMA RightCodeMoves ==
  ASSUME TypeOK, NEW r \in Requests, RightCode(r)
  PROVE  \/ Moves(r, "idle") /\ req'[r].code = 0 /\ code' = code
         \/ /\ Moves(r, "update") /\ req'[r].code = req[r].code
            /\ code[req[r].code].fate = "live"
            /\ code' = [code EXCEPT ![req[r].code].fate = "spent"]
BY FinishMoves, GoMoves DEF RightCode, Stages

-----------------------------------------------------------------------------
(* The invariants, each kept by every step.                                *)

LEMMA ExistingStep ==
  ASSUME TypeOK, Existing, [Next]_vars
  PROVE  Existing'
<1> DEFINE Known ==
      /\ \A s \in sessions' : s \in sessions \/ account[s.user].role # "NONE"
      /\ \A q \in Requests : req'[q].at # "idle" =>
           \/ req[q].at # "idle" /\ req'[q].user = req[q].user
           \/ account'[req'[q].user].role # "NONE"
<1>0. /\ account \in [Users -> Account] /\ req \in [Requests -> Request]
      /\ sessions \subseteq Session /\ \A q \in Requests : req[q].user \in Users
  BY ReqStep DEF TypeOK
<1>a. \A v \in Users : account'[v] = account[v] \/ account'[v].role # "NONE"
  BY RoleStep
<1>b. /\ \A s \in sessions' : s.user \in Users
      /\ \A v \in Users : account'[v].role = "NONE" => account'[v] = NoAccount
  <2>1. TypeOK'
    BY TypeStep
  <2> QED
    BY <1>a, <2>1 DEF Existing, TypeOK, Session
<1>c. Known => Existing'
  <2> HAVE Known
  <2>1. \A s \in sessions' : account'[s.user].role # "NONE"
    BY <1>a, <1>b DEF Existing
  <2>2. \A q \in Requests : req'[q].at # "idle" => account'[req'[q].user].role # "NONE"
    BY <1>a, <1>0 DEF Existing, IsAt
  <2> QED
    BY <1>b, <2>1, <2>2 DEF Existing, IsAt
<1>1. ASSUME NEW r \in Requests, NEW u \in Users, Login(r, u)
      PROVE  Existing'
  <2>1. Moves(r, req'[r].at) /\ req'[r].user = u
    BY <1>1, LoginMoves DEF Login, Moves
  <2>2. account'[u].role # "NONE" /\ sessions' = sessions
    BY <1>1, <1>0 DEF Login
  <2> QED
    BY <1>c, <1>0, <2>1, <2>2 DEF Moves, Known
<1>2. ASSUME NEW r \in Requests, NEW u \in Users,
             NEW next \in {"session", "welcome"}, CreateOwner(r, u, next)
      PROVE  Existing'
  <2>1. Moves(r, next) /\ req'[r].user = u
    BY <1>2, RegisterMoves
  <2>2. account'[u].role # "NONE" /\ sessions' = sessions
    BY <1>2, <1>0 DEF CreateOwner, NewAccount
  <2> QED
    BY <1>c, <1>0, <2>1, <2>2 DEF Moves, Known
<1>3. ASSUME NEW r \in Requests, NEW u \in Users, ChangePassword(r, u)
      PROVE  Existing'
  <2>1. Moves(r, req'[r].at) /\ req'[r].user = u
    BY <1>3, BeginMoves DEF ChangePassword, Stages, Moves
  <2>2. account'[u].role # "NONE" /\ sessions' = sessions
    BY <1>3, <1>0 DEF ChangePassword
  <2> QED
    BY <1>c, <1>0, <2>1, <2>2 DEF Moves, Known
<1>4. ASSUME NEW r \in Requests, NEW u \in Users, ResetAdminPassword(r, u)
      PROVE  Existing'
  <2>1. Moves(r, req'[r].at) /\ req'[r].user = u
    BY <1>4, BeginMoves DEF ResetAdminPassword, Stages, Moves
  <2>2. account'[u].role # "NONE" /\ sessions' = sessions
    BY <1>4, <1>0 DEF ResetAdminPassword
  <2> QED
    BY <1>c, <1>0, <2>1, <2>2 DEF Moves, Known
<1>5. ASSUME NEW r \in Requests, NEW u \in Users, DeactivateAdmin(r, u)
      PROVE  Existing'
  <2>1. Moves(r, req'[r].at) /\ req'[r].user = u
    BY <1>5, BeginMoves DEF DeactivateAdmin, Stages, Moves
  <2>2. account'[u].role # "NONE" /\ sessions' = sessions
    BY <1>5, <1>0, Fields DEF DeactivateAdmin
  <2> QED
    BY <1>c, <1>0, <2>1, <2>2 DEF Moves, Known
<1>6. ASSUME NEW r \in Requests, NEW u \in Users, ForceLogout(r, u)
      PROVE  Existing'
  <2>1. Moves(r, req'[r].at) /\ req'[r].user = u
    BY <1>6, BeginMoves DEF ForceLogout, Stages, Moves
  <2>2. account'[u].role # "NONE" /\ sessions' = sessions
    BY <1>6, <1>0 DEF ForceLogout
  <2> QED
    BY <1>c, <1>0, <2>1, <2>2 DEF Moves, Known
<1>7. ASSUME NEW r \in Requests, NEW u \in Users, RequestCode(r, u)
      PROVE  Existing'
  <2>1. Moves(r, req'[r].at) /\ req'[r].user = u
    BY <1>7, RequestCodeMoves DEF RequestCode, Moves
  <2>2. account'[u].role # "NONE" /\ sessions' = sessions
    BY <1>7, <1>0 DEF RequestCode
  <2> QED
    BY <1>c, <1>0, <2>1, <2>2 DEF Moves, Known
<1>8. ASSUME NEW r \in Requests, NEW u \in Users, ConfirmReset(r, u)
      PROVE  Existing'
  <2>1. Moves(r, req'[r].at) /\ req'[r].user = u
    BY <1>8, ConfirmMoves DEF ConfirmReset, Moves
  <2>2. account'[u].role # "NONE" /\ sessions' = sessions
    BY <1>8, <1>0 DEF ConfirmReset
  <2> QED
    BY <1>c, <1>0, <2>1, <2>2 DEF Moves, Known
<1>9. ASSUME NEW r \in Requests, WrongPassword(r)
      PROVE  Existing'
  <2>1. Moves(r, req'[r].at) /\ (req'[r].at # "idle" => req[r].at # "idle")
    BY <1>9, WrongPasswordMoves DEF WrongPassword, IsAt, Moves
  <2>2. sessions' \subseteq sessions
    BY <1>9 DEF WrongPassword
  <2> QED
    BY <1>c, <1>0, <2>1, <2>2 DEF Moves, Known
<1>10. ASSUME NEW r \in Requests, Lock(r)
      PROVE  Existing'
  <2>1. Moves(r, req'[r].at) /\ (req'[r].at # "idle" => req[r].at # "idle")
    BY <1>10, FinishMoves DEF Lock, IsAt, Moves
  <2>2. sessions' \subseteq sessions
    BY <1>10 DEF Lock
  <2> QED
    BY <1>c, <1>0, <2>1, <2>2 DEF Moves, Known
<1>11. ASSUME NEW r \in Requests, Succeed(r)
      PROVE  Existing'
  <2>1. Moves(r, req'[r].at) /\ (req'[r].at # "idle" => req[r].at # "idle")
    BY <1>11, SucceedMoves DEF Succeed, IsAt, Moves
  <2>2. sessions' \subseteq sessions
    BY <1>11 DEF Succeed
  <2> QED
    BY <1>c, <1>0, <2>1, <2>2 DEF Moves, Known
<1>12. ASSUME NEW r \in Requests, IssueSession(r)
      PROVE  Existing'
  <2>1. Moves(r, "idle")
    BY <1>12, FinishMoves DEF IssueSession
  <2>2. account[req[r].user].role # "NONE"
    BY <1>12 DEF IssueSession, IsAt, Existing
  <2>3. \A s \in sessions' : s \in sessions \/ account[s.user].role # "NONE"
    BY <1>12, <2>2 DEF IssueSession
  <2> QED
    BY <1>c, <1>0, <2>1, <2>3 DEF Moves, Known
<1>13. ASSUME NEW r \in Requests, UpdatePassword(r)
      PROVE  Existing'
  <2>1. Moves(r, req'[r].at) /\ (req'[r].at # "idle" => req[r].at # "idle")
    BY <1>13, UpdateMoves DEF UpdatePassword, IsAt, Moves
  <2>2. sessions' \subseteq sessions
    BY <1>13 DEF UpdatePassword
  <2> QED
    BY <1>c, <1>0, <2>1, <2>2 DEF Moves, Known
<1>14. ASSUME NEW r \in Requests, RevokeAll(r)
      PROVE  Existing'
  <2>1. Moves(r, req'[r].at) /\ (req'[r].at # "idle" => req[r].at # "idle")
    BY <1>14, FinishMoves DEF RevokeAll, IsAt, Moves
  <2>2. sessions' \subseteq sessions
    BY <1>14 DEF RevokeAll
  <2> QED
    BY <1>c, <1>0, <2>1, <2>2 DEF Moves, Known
<1>15. ASSUME NEW r \in Requests, IssueCode(r)
      PROVE  Existing'
  <2>1. Moves(r, req'[r].at) /\ (req'[r].at # "idle" => req[r].at # "idle")
    BY <1>15, FinishMoves DEF IssueCode, IsAt, Moves
  <2>2. sessions' \subseteq sessions
    BY <1>15 DEF IssueCode
  <2> QED
    BY <1>c, <1>0, <2>1, <2>2 DEF Moves, Known
<1>16. ASSUME NEW r \in Requests, WrongCode(r)
      PROVE  Existing'
  <2>1. Moves(r, req'[r].at) /\ (req'[r].at # "idle" => req[r].at # "idle")
    BY <1>16, WrongCodeMoves DEF WrongCode, IsAt, Moves
  <2>2. sessions' \subseteq sessions
    BY <1>16 DEF WrongCode
  <2> QED
    BY <1>c, <1>0, <2>1, <2>2 DEF Moves, Known
<1>17. ASSUME NEW r \in Requests, VoidCodes(r)
      PROVE  Existing'
  <2>1. Moves(r, req'[r].at) /\ (req'[r].at # "idle" => req[r].at # "idle")
    BY <1>17, FinishMoves DEF VoidCodes, IsAt, Moves
  <2>2. sessions' \subseteq sessions
    BY <1>17 DEF VoidCodes
  <2> QED
    BY <1>c, <1>0, <2>1, <2>2 DEF Moves, Known
<1>18. ASSUME NEW r \in Requests, RightCode(r)
      PROVE  Existing'
  <2>1. Moves(r, req'[r].at) /\ (req'[r].at # "idle" => req[r].at # "idle")
    BY <1>18, RightCodeMoves DEF RightCode, IsAt, Moves
  <2>2. sessions' \subseteq sessions
    BY <1>18 DEF RightCode
  <2> QED
    BY <1>c, <1>0, <2>1, <2>2 DEF Moves, Known
<1>19. ASSUME NEW r \in Requests, Abandon(r)
      PROVE  Existing'
  <2>1. Moves(r, req'[r].at) /\ (req'[r].at # "idle" => req[r].at # "idle")
    BY <1>19, FinishMoves DEF Abandon, IsAt, Moves
  <2>2. sessions' \subseteq sessions
    BY <1>19 DEF Abandon
  <2> QED
    BY <1>c, <1>0, <2>1, <2>2 DEF Moves, Known
<1>20. ASSUME NEW s \in sessions, Logout(s)
      PROVE  Existing'
  BY <1>20, <1>c, <1>0 DEF Logout, Known
<1>21. ASSUME NEW u \in Users, CreateAdmin(u)
      PROVE  Existing'
  BY <1>21, <1>c, <1>0 DEF CreateAdmin, Known
<1>22. CASE Tick
  BY <1>22, <1>c, <1>0 DEF Tick, Known
<1>23. CASE UNCHANGED vars
  BY <1>23, <1>c, <1>0 DEF vars, Known
<1> QED
  BY <1>1, <1>2, <1>3, <1>4, <1>5, <1>6, <1>7, <1>8, <1>9, <1>10, <1>11, <1>12,
     <1>13, <1>14, <1>15, <1>16, <1>17, <1>18, <1>19, <1>20, <1>21, <1>22, <1>23
  DEF Next, LoginStep, Register, RegisterWithGoogle, PasswordStep, RecoveryStep

\* No step makes a login that has read a lock still in force.
LEMMA ReadUnlockedStep ==
  ASSUME TypeOK, ReadUnlocked, [Next]_vars
  PROVE  ReadUnlocked'
<1> DEFINE Known ==
      /\ clock' \in Nat /\ clock' >= clock
      /\ \A q \in Requests : req'[q].at \in {"verify", "welcome", "lock"} =>
           \/ /\ req[q].at \in {"verify", "welcome", "lock"}
              /\ req'[q].lockedUntil = req[q].lockedUntil /\ req'[q].start = req[q].start
           \/ req'[q].lockedUntil <= req'[q].start /\ req'[q].start <= clock
<1>0. /\ req \in [Requests -> Request] /\ clock \in Nat
      /\ \A q \in Requests : req'[q].start \in Nat /\ req[q].start \in Nat
  <2>1. TypeOK'
    BY TypeStep
  <2>2. \A q \in Requests : req'[q] \in Request
    BY <2>1 DEF TypeOK
  <2> QED
    BY <2>2, ReqStep, LimitAssumption DEF TypeOK, Request
<1>c. Known => ReadUnlocked'
  BY <1>0 DEF ReadUnlocked
<1>1. ASSUME NEW r \in Requests, NEW u \in Users, Login(r, u)
      PROVE  ReadUnlocked'
  <2>1. account[u].lockedUntil <= clock /\ clock' = clock
    BY <1>1 DEF Login
  <2> QED
    BY <1>1, <1>c, <1>0, <2>1, LoginMoves DEF Known, Moves
<1>2. ASSUME NEW r \in Requests, NEW u \in Users,
             NEW next \in {"session", "welcome"}, CreateOwner(r, u, next)
      PROVE  ReadUnlocked'
  <2>1. clock' = clock /\ Moves(r, next)
    BY <1>2, RegisterMoves DEF CreateOwner
  <2>2. req'[r].start = 0 /\ req'[r].lockedUntil = 0
    BY <1>2, RegisterMoves
  <2> QED
    BY <1>c, <1>0, <2>1, <2>2 DEF Known, Moves
<1>3. ASSUME NEW r \in Requests, NEW u \in Users, ChangePassword(r, u)
      PROVE  ReadUnlocked'
  <2>1. clock' = clock /\ Moves(r, req'[r].at) /\ req'[r].at \notin {"verify", "welcome", "lock"}
    BY <1>3, BeginMoves DEF ChangePassword, Stages, Moves
  <2> QED
    BY <1>c, <1>0, <2>1 DEF Known, Moves
<1>4. ASSUME NEW r \in Requests, NEW u \in Users, ResetAdminPassword(r, u)
      PROVE  ReadUnlocked'
  <2>1. clock' = clock /\ Moves(r, req'[r].at) /\ req'[r].at \notin {"verify", "welcome", "lock"}
    BY <1>4, BeginMoves DEF ResetAdminPassword, Stages, Moves
  <2> QED
    BY <1>c, <1>0, <2>1 DEF Known, Moves
<1>5. ASSUME NEW r \in Requests, NEW u \in Users, DeactivateAdmin(r, u)
      PROVE  ReadUnlocked'
  <2>1. clock' = clock /\ Moves(r, req'[r].at) /\ req'[r].at \notin {"verify", "welcome", "lock"}
    BY <1>5, BeginMoves DEF DeactivateAdmin, Stages, Moves
  <2> QED
    BY <1>c, <1>0, <2>1 DEF Known, Moves
<1>6. ASSUME NEW r \in Requests, NEW u \in Users, ForceLogout(r, u)
      PROVE  ReadUnlocked'
  <2>1. clock' = clock /\ Moves(r, req'[r].at) /\ req'[r].at \notin {"verify", "welcome", "lock"}
    BY <1>6, BeginMoves DEF ForceLogout, Stages, Moves
  <2> QED
    BY <1>c, <1>0, <2>1 DEF Known, Moves
<1>7. ASSUME NEW r \in Requests, NEW u \in Users, RequestCode(r, u)
      PROVE  ReadUnlocked'
  <2>1. clock' = clock /\ Moves(r, req'[r].at) /\ req'[r].at \notin {"verify", "welcome", "lock"}
    BY <1>7, RequestCodeMoves DEF RequestCode, Moves
  <2> QED
    BY <1>c, <1>0, <2>1 DEF Known, Moves
<1>8. ASSUME NEW r \in Requests, NEW u \in Users, ConfirmReset(r, u)
      PROVE  ReadUnlocked'
  <2>1. clock' = clock /\ Moves(r, req'[r].at) /\ req'[r].at \notin {"verify", "welcome", "lock"}
    BY <1>8, ConfirmMoves DEF ConfirmReset, Moves
  <2> QED
    BY <1>c, <1>0, <2>1 DEF Known, Moves
<1>9. ASSUME NEW r \in Requests, WrongPassword(r)
      PROVE  ReadUnlocked'
  <2>1. clock' = clock /\ req[r].at = "verify"
    BY <1>9 DEF WrongPassword, IsAt
  <2> QED
    BY <1>9, <1>c, <1>0, <2>1, WrongPasswordMoves DEF Known, Moves
<1>10. ASSUME NEW r \in Requests, Lock(r)
      PROVE  ReadUnlocked'
  <2>1. clock' = clock /\ Moves(r, req'[r].at) /\ req'[r].at \notin {"verify", "welcome", "lock"}
    BY <1>10, FinishMoves DEF Lock, Moves
  <2> QED
    BY <1>c, <1>0, <2>1 DEF Known, Moves
<1>11. ASSUME NEW r \in Requests, Succeed(r)
      PROVE  ReadUnlocked'
  <2>1. clock' = clock /\ Moves(r, req'[r].at) /\ req'[r].at \notin {"verify", "welcome", "lock"}
    BY <1>11, SucceedMoves DEF Succeed, Moves
  <2> QED
    BY <1>c, <1>0, <2>1 DEF Known, Moves
<1>12. ASSUME NEW r \in Requests, IssueSession(r)
      PROVE  ReadUnlocked'
  <2>1. clock' = clock /\ Moves(r, req'[r].at) /\ req'[r].at \notin {"verify", "welcome", "lock"}
    BY <1>12, FinishMoves DEF IssueSession, Moves
  <2> QED
    BY <1>c, <1>0, <2>1 DEF Known, Moves
<1>13. ASSUME NEW r \in Requests, UpdatePassword(r)
      PROVE  ReadUnlocked'
  <2>1. clock' = clock /\ Moves(r, req'[r].at) /\ req'[r].at \notin {"verify", "welcome", "lock"}
    BY <1>13, UpdateMoves DEF UpdatePassword, Moves
  <2> QED
    BY <1>c, <1>0, <2>1 DEF Known, Moves
<1>14. ASSUME NEW r \in Requests, RevokeAll(r)
      PROVE  ReadUnlocked'
  <2>1. clock' = clock /\ Moves(r, req'[r].at) /\ req'[r].at \notin {"verify", "welcome", "lock"}
    BY <1>14, FinishMoves DEF RevokeAll, Moves
  <2> QED
    BY <1>c, <1>0, <2>1 DEF Known, Moves
<1>15. ASSUME NEW r \in Requests, IssueCode(r)
      PROVE  ReadUnlocked'
  <2>1. clock' = clock /\ Moves(r, req'[r].at) /\ req'[r].at \notin {"verify", "welcome", "lock"}
    BY <1>15, FinishMoves DEF IssueCode, Moves
  <2> QED
    BY <1>c, <1>0, <2>1 DEF Known, Moves
<1>16. ASSUME NEW r \in Requests, WrongCode(r)
      PROVE  ReadUnlocked'
  <2>1. clock' = clock /\ Moves(r, req'[r].at) /\ req'[r].at \notin {"verify", "welcome", "lock"}
    BY <1>16, WrongCodeMoves DEF WrongCode, Moves
  <2> QED
    BY <1>c, <1>0, <2>1 DEF Known, Moves
<1>17. ASSUME NEW r \in Requests, VoidCodes(r)
      PROVE  ReadUnlocked'
  <2>1. clock' = clock /\ Moves(r, req'[r].at) /\ req'[r].at \notin {"verify", "welcome", "lock"}
    BY <1>17, FinishMoves DEF VoidCodes, Moves
  <2> QED
    BY <1>c, <1>0, <2>1 DEF Known, Moves
<1>18. ASSUME NEW r \in Requests, RightCode(r)
      PROVE  ReadUnlocked'
  <2>1. clock' = clock /\ Moves(r, req'[r].at) /\ req'[r].at \notin {"verify", "welcome", "lock"}
    BY <1>18, RightCodeMoves DEF RightCode, Moves
  <2> QED
    BY <1>c, <1>0, <2>1 DEF Known, Moves
<1>19. ASSUME NEW r \in Requests, Abandon(r)
      PROVE  ReadUnlocked'
  <2>1. clock' = clock /\ Moves(r, req'[r].at) /\ req'[r].at \notin {"verify", "welcome", "lock"}
    BY <1>19, FinishMoves DEF Abandon, Moves
  <2> QED
    BY <1>c, <1>0, <2>1 DEF Known, Moves
<1>20. ASSUME NEW s \in sessions, Logout(s)
      PROVE  ReadUnlocked'
  BY <1>20, <1>c, <1>0 DEF Logout, Known
<1>21. ASSUME NEW u \in Users, CreateAdmin(u)
      PROVE  ReadUnlocked'
  BY <1>21, <1>c, <1>0 DEF CreateAdmin, Known
<1>22. CASE Tick
  BY <1>22, <1>c, <1>0 DEF Tick, Known
<1>23. CASE UNCHANGED vars
  BY <1>23, <1>c, <1>0 DEF vars, Known
<1> QED
  BY <1>1, <1>2, <1>3, <1>4, <1>5, <1>6, <1>7, <1>8, <1>9, <1>10, <1>11, <1>12,
     <1>13, <1>14, <1>15, <1>16, <1>17, <1>18, <1>19, <1>20, <1>21, <1>22, <1>23
  DEF Next, LoginStep, Register, RegisterWithGoogle, PasswordStep, RecoveryStep

LEMMA SessionsStep ==
  ASSUME TypeOK, Existing, OldSessionsExplained, [Next]_vars
  PROVE  OldSessionsExplained'
<1> DEFINE Quiet ==
      /\ sessions' \subseteq sessions
      /\ \A s \in sessions : account'[s.user].password = account[s.user].password
      /\ \A q \in Requests : req[q].at = "revoke" =>
           \/ req'[q].at = "revoke" /\ req'[q].user = req[q].user
           \/ <<req[q].user, "revoke">> \in lost'
      /\ \A v \in Users : <<v, "revoke">> \in lost => <<v, "revoke">> \in lost'
<1>0. /\ account \in [Users -> Account] /\ req \in [Requests -> Request]
      /\ \A s \in sessions : s.user \in Users
      /\ \A q \in Requests : req[q].user \in Users
  BY ReqStep DEF TypeOK, Session
<1>c. Quiet => OldSessionsExplained'
  BY <1>0 DEF OldSessionsExplained, IsAt
<1>1. ASSUME NEW r \in Requests, NEW u \in Users, Login(r, u)
      PROVE  OldSessionsExplained'
  <2>1. Moves(r, req'[r].at) /\ req[r].at # "revoke"
    BY <1>1, LoginMoves DEF Login, Moves, IsAt
  <2>2. account' = account
    BY <1>1 DEF Login
  <2>3. sessions' = sessions /\ lost \subseteq lost'
    BY <1>1 DEF Login
  <2> QED
    BY <1>c, <1>0, <2>1, <2>2, <2>3 DEF Quiet, Moves
<1>2. ASSUME NEW r \in Requests, NEW u \in Users,
             NEW next \in {"session", "welcome"}, CreateOwner(r, u, next)
      PROVE  OldSessionsExplained'
  <2>1. Moves(r, req'[r].at) /\ req[r].at # "revoke"
    BY <1>2, RegisterMoves DEF CreateOwner, Moves, IsAt
  <2>2. \A s \in sessions : account'[s.user].password = account[s.user].password
    BY <1>2, <1>0 DEF CreateOwner, Existing
  <2>3. sessions' = sessions /\ lost \subseteq lost'
    BY <1>2 DEF CreateOwner
  <2> QED
    BY <1>c, <1>0, <2>1, <2>2, <2>3 DEF Quiet, Moves
<1>3. ASSUME NEW r \in Requests, NEW u \in Users, ChangePassword(r, u)
      PROVE  OldSessionsExplained'
  <2>1. Moves(r, req'[r].at) /\ req[r].at # "revoke"
    BY <1>3, BeginMoves DEF ChangePassword, Stages, Moves, IsAt
  <2>2. account' = account
    BY <1>3 DEF ChangePassword
  <2>3. sessions' = sessions /\ lost \subseteq lost'
    BY <1>3 DEF ChangePassword
  <2> QED
    BY <1>c, <1>0, <2>1, <2>2, <2>3 DEF Quiet, Moves
<1>4. ASSUME NEW r \in Requests, NEW u \in Users, ResetAdminPassword(r, u)
      PROVE  OldSessionsExplained'
  <2>1. Moves(r, req'[r].at) /\ req[r].at # "revoke"
    BY <1>4, BeginMoves DEF ResetAdminPassword, Stages, Moves, IsAt
  <2>2. account' = account
    BY <1>4 DEF ResetAdminPassword
  <2>3. sessions' = sessions /\ lost \subseteq lost'
    BY <1>4 DEF ResetAdminPassword
  <2> QED
    BY <1>c, <1>0, <2>1, <2>2, <2>3 DEF Quiet, Moves
<1>5. ASSUME NEW r \in Requests, NEW u \in Users, DeactivateAdmin(r, u)
      PROVE  OldSessionsExplained'
  <2>1. Moves(r, req'[r].at) /\ req[r].at # "revoke"
    BY <1>5, BeginMoves DEF DeactivateAdmin, Stages, Moves, IsAt
  <2>2. \A v \in Users : account'[v].password = account[v].password
    BY <1>5, <1>0, Fields DEF DeactivateAdmin
  <2>3. sessions' = sessions /\ lost \subseteq lost'
    BY <1>5 DEF DeactivateAdmin
  <2> QED
    BY <1>c, <1>0, <2>1, <2>2, <2>3 DEF Quiet, Moves
<1>6. ASSUME NEW r \in Requests, NEW u \in Users, ForceLogout(r, u)
      PROVE  OldSessionsExplained'
  <2>1. Moves(r, req'[r].at) /\ req[r].at # "revoke"
    BY <1>6, BeginMoves DEF ForceLogout, Stages, Moves, IsAt
  <2>2. account' = account
    BY <1>6 DEF ForceLogout
  <2>3. sessions' = sessions /\ lost \subseteq lost'
    BY <1>6 DEF ForceLogout
  <2> QED
    BY <1>c, <1>0, <2>1, <2>2, <2>3 DEF Quiet, Moves
<1>7. ASSUME NEW r \in Requests, NEW u \in Users, RequestCode(r, u)
      PROVE  OldSessionsExplained'
  <2>1. Moves(r, req'[r].at) /\ req[r].at # "revoke"
    BY <1>7, RequestCodeMoves DEF RequestCode, Moves, IsAt
  <2>2. account' = account
    BY <1>7 DEF RequestCode
  <2>3. sessions' = sessions /\ lost \subseteq lost'
    BY <1>7 DEF RequestCode
  <2> QED
    BY <1>c, <1>0, <2>1, <2>2, <2>3 DEF Quiet, Moves
<1>8. ASSUME NEW r \in Requests, NEW u \in Users, ConfirmReset(r, u)
      PROVE  OldSessionsExplained'
  <2>1. Moves(r, req'[r].at) /\ req[r].at # "revoke"
    BY <1>8, ConfirmMoves DEF ConfirmReset, Moves, IsAt
  <2>2. account' = account
    BY <1>8 DEF ConfirmReset
  <2>3. sessions' = sessions /\ lost \subseteq lost'
    BY <1>8 DEF ConfirmReset
  <2> QED
    BY <1>c, <1>0, <2>1, <2>2, <2>3 DEF Quiet, Moves
<1>9. ASSUME NEW r \in Requests, WrongPassword(r)
      PROVE  OldSessionsExplained'
  <2>1. Moves(r, req'[r].at) /\ req[r].at # "revoke"
    BY <1>9, WrongPasswordMoves DEF WrongPassword, Moves, IsAt
  <2>2. \A v \in Users : account'[v].password = account[v].password
    BY <1>9, <1>0, Fields DEF WrongPassword
  <2>3. sessions' = sessions /\ lost \subseteq lost'
    BY <1>9 DEF WrongPassword
  <2> QED
    BY <1>c, <1>0, <2>1, <2>2, <2>3 DEF Quiet, Moves
<1>10. ASSUME NEW r \in Requests, Lock(r)
      PROVE  OldSessionsExplained'
  <2>1. Moves(r, req'[r].at) /\ req[r].at # "revoke"
    BY <1>10, FinishMoves DEF Lock, Moves, IsAt
  <2>2. \A v \in Users : account'[v].password = account[v].password
    BY <1>10, <1>0, Fields DEF Lock
  <2>3. sessions' = sessions /\ \A v \in Users : <<v, "revoke">> \in lost => <<v, "revoke">> \in lost'
    BY <1>10 DEF Lock, Settle
  <2> QED
    BY <1>c, <1>0, <2>1, <2>2, <2>3 DEF Quiet, Moves
<1>11. ASSUME NEW r \in Requests, Succeed(r)
      PROVE  OldSessionsExplained'
  <2>1. Moves(r, req'[r].at) /\ req[r].at # "revoke"
    BY <1>11, SucceedMoves DEF Succeed, Moves, IsAt
  <2>2. \A v \in Users : account'[v].password = account[v].password
    BY <1>11, <1>0, Fields DEF Succeed
  <2>3. sessions' = sessions /\ \A v \in Users : <<v, "revoke">> \in lost => <<v, "revoke">> \in lost'
    BY <1>11 DEF Succeed, Settle
  <2> QED
    BY <1>c, <1>0, <2>1, <2>2, <2>3 DEF Quiet, Moves
<1>12. ASSUME NEW r \in Requests, IssueSession(r)
      PROVE  OldSessionsExplained'
  <2>1. /\ Moves(r, "idle") /\ req[r].at = "session"
        /\ account' = account /\ lost' = lost
    BY <1>12, FinishMoves DEF IssueSession, IsAt
  <2>2. ASSUME NEW s \in sessions'
        PROVE  s \in sessions \/ s.late \/ s.password = account[s.user].password
    <3> DEFINE new == [user |-> req[r].user, password |-> req[r].password,
                       late |-> req[r].password # account[req[r].user].password]
    <3>1. s \in sessions \/ s = new
      BY <1>12, <2>2 DEF IssueSession
    <3>2. /\ new.user = req[r].user /\ new.password = req[r].password
          /\ new.late = (req[r].password # account[req[r].user].password)
      BY Zenon
    <3> QED
      BY <3>1, <3>2, Zenon
  <2>3. \A q \in Requests : req[q].at = "revoke" => req'[q] = req[q]
    BY <2>1 DEF Moves
  <2> QED
    BY <2>1, <2>2, <2>3 DEF OldSessionsExplained, IsAt
<1>13. ASSUME NEW r \in Requests, UpdatePassword(r)
      PROVE  OldSessionsExplained'
  <2>1. /\ Moves(r, "revoke") /\ req[r].at = "update" /\ req'[r].user = req[r].user
        /\ sessions' = sessions
    BY <1>13, UpdateMoves DEF UpdatePassword, IsAt, Moves
  <2>2. /\ \A v \in Users : v # req[r].user => account'[v] = account[v]
        /\ \A v \in Users : <<v, "revoke">> \in lost => <<v, "revoke">> \in lost'
    BY <1>13, <1>0 DEF UpdatePassword, Settle
  <2>3. \A q \in Requests : req[q].at = "revoke" => req'[q] = req[q]
    BY <2>1 DEF Moves
  <2>4. ASSUME NEW s \in sessions, s.user = req[r].user
        PROVE  \E q \in Requests : req'[q].at = "revoke" /\ req'[q].user = s.user
    BY <2>1, <2>4 DEF Moves
  <2>5. ASSUME NEW s \in sessions, s.user # req[r].user,
               s.password # account'[s.user].password
        PROVE  \/ s.late
               \/ \E q \in Requests : req'[q].at = "revoke" /\ req'[q].user = s.user
               \/ <<s.user, "revoke">> \in lost'
    <3>1. s.user \in Users /\ s.password # account[s.user].password
      BY <1>0, <2>2, <2>5
    <3> QED
      BY <2>2, <2>3, <3>1 DEF OldSessionsExplained, IsAt
  <2> QED
    BY <2>1, <2>4, <2>5 DEF OldSessionsExplained, IsAt
<1>14. ASSUME NEW r \in Requests, RevokeAll(r)
      PROVE  OldSessionsExplained'
  <2>1. /\ Moves(r, "idle") /\ account' = account
        /\ \A s \in sessions' : s \in sessions /\ s.user # req[r].user
        /\ \A v \in Users : v # req[r].user /\ <<v, "revoke">> \in lost =>
             <<v, "revoke">> \in lost'
    BY <1>14, FinishMoves DEF RevokeAll
  <2>2. \A q \in Requests : req[q].user # req[r].user => req'[q] = req[q]
    BY <2>1 DEF Moves
  <2> QED
    BY <1>0, <2>1, <2>2 DEF OldSessionsExplained, IsAt
<1>15. ASSUME NEW r \in Requests, IssueCode(r)
      PROVE  OldSessionsExplained'
  <2>1. Moves(r, req'[r].at) /\ req[r].at # "revoke"
    BY <1>15, FinishMoves DEF IssueCode, Moves, IsAt
  <2>2. account' = account
    BY <1>15 DEF IssueCode
  <2>3. sessions' = sessions /\ lost \subseteq lost'
    BY <1>15 DEF IssueCode
  <2> QED
    BY <1>c, <1>0, <2>1, <2>2, <2>3 DEF Quiet, Moves
<1>16. ASSUME NEW r \in Requests, WrongCode(r)
      PROVE  OldSessionsExplained'
  <2>1. Moves(r, req'[r].at) /\ req[r].at # "revoke"
    BY <1>16, WrongCodeMoves DEF WrongCode, Moves, IsAt
  <2>2. account' = account
    BY <1>16 DEF WrongCode
  <2>3. sessions' = sessions /\ lost \subseteq lost'
    BY <1>16 DEF WrongCode
  <2> QED
    BY <1>c, <1>0, <2>1, <2>2, <2>3 DEF Quiet, Moves
<1>17. ASSUME NEW r \in Requests, VoidCodes(r)
      PROVE  OldSessionsExplained'
  <2>1. Moves(r, req'[r].at) /\ req[r].at # "revoke"
    BY <1>17, FinishMoves DEF VoidCodes, Moves, IsAt
  <2>2. account' = account
    BY <1>17 DEF VoidCodes
  <2>3. sessions' = sessions /\ lost \subseteq lost'
    BY <1>17 DEF VoidCodes
  <2> QED
    BY <1>c, <1>0, <2>1, <2>2, <2>3 DEF Quiet, Moves
<1>18. ASSUME NEW r \in Requests, RightCode(r)
      PROVE  OldSessionsExplained'
  <2>1. Moves(r, req'[r].at) /\ req[r].at # "revoke"
    BY <1>18, RightCodeMoves DEF RightCode, Moves, IsAt
  <2>2. account' = account
    BY <1>18 DEF RightCode
  <2>3. sessions' = sessions /\ lost \subseteq lost'
    BY <1>18 DEF RightCode
  <2> QED
    BY <1>c, <1>0, <2>1, <2>2, <2>3 DEF Quiet, Moves
<1>19. ASSUME NEW r \in Requests, Abandon(r)
      PROVE  OldSessionsExplained'
  <2>1. Moves(r, "idle") /\ (req[r].at = "revoke" => <<req[r].user, "revoke">> \in lost')
    BY <1>19, FinishMoves DEF Abandon
  <2>2. account' = account
    BY <1>19 DEF Abandon
  <2>3. sessions' = sessions /\ lost \subseteq lost'
    BY <1>19 DEF Abandon
  <2> QED
    BY <1>c, <1>0, <2>1, <2>2, <2>3 DEF Quiet, Moves
<1>20. ASSUME NEW s \in sessions, Logout(s)
      PROVE  OldSessionsExplained'
  BY <1>20, <1>c, <1>0 DEF Logout, Quiet
<1>21. ASSUME NEW u \in Users, CreateAdmin(u)
      PROVE  OldSessionsExplained'
  <2>1. \A s \in sessions : account'[s.user].password = account[s.user].password
    BY <1>21, <1>0 DEF CreateAdmin, Existing
  <2> QED
    BY <1>21, <1>c, <1>0, <2>1 DEF CreateAdmin, Quiet
<1>22. CASE Tick
  BY <1>22, <1>c, <1>0 DEF Tick, Quiet
<1>23. CASE UNCHANGED vars
  BY <1>23, <1>c, <1>0 DEF vars, Quiet
<1> QED
  BY <1>1, <1>2, <1>3, <1>4, <1>5, <1>6, <1>7, <1>8, <1>9, <1>10, <1>11, <1>12,
     <1>13, <1>14, <1>15, <1>16, <1>17, <1>18, <1>19, <1>20, <1>21, <1>22, <1>23
  DEF Next, LoginStep, Register, RegisterWithGoogle, PasswordStep, RecoveryStep

LEMMA LockoutStep ==
  ASSUME TypeOK, LockoutComes, [Next]_vars
  PROVE  LockoutComes'
<1> DEFINE Quiet ==
      /\ \A v \in Users : account'[v].failures = account[v].failures
                        \/ ~(account'[v].failures >= MaxFailed)
      /\ \A q \in Requests : req[q].at = "lock" =>
           \/ req'[q].at = "lock" /\ req'[q].user = req[q].user
           \/ <<req[q].user, "lock">> \in lost'
           \/ ~(account'[req[q].user].failures >= MaxFailed)
      /\ \A v \in Users : <<v, "lock">> \in lost =>
           <<v, "lock">> \in lost' \/ ~(account'[v].failures >= MaxFailed)
<1>0. /\ account \in [Users -> Account] /\ req \in [Requests -> Request]
      /\ \A q \in Requests : req[q].user \in Users
      /\ ~(0 >= MaxFailed)
  BY ReqStep, LimitAssumption DEF TypeOK
<1>c. Quiet => LockoutComes'
  BY <1>0 DEF LockoutComes, IsAt
<1>1. ASSUME NEW r \in Requests, NEW u \in Users, Login(r, u)
      PROVE  LockoutComes'
  <2>1. Moves(r, req'[r].at) /\ req[r].at # "lock"
    BY <1>1, LoginMoves DEF Login, Moves, IsAt
  <2>2. account' = account
    BY <1>1 DEF Login
  <2>3. lost' = lost
    BY <1>1 DEF Login
  <2> QED
    BY <1>c, <1>0, <2>1, <2>2, <2>3 DEF Quiet, Moves
<1>2. ASSUME NEW r \in Requests, NEW u \in Users,
             NEW next \in {"session", "welcome"}, CreateOwner(r, u, next)
      PROVE  LockoutComes'
  <2>1. Moves(r, req'[r].at) /\ req[r].at # "lock"
    BY <1>2, RegisterMoves DEF CreateOwner, Moves, IsAt
  <2>2. \A v \in Users : account'[v].failures = account[v].failures \/ account'[v].failures = 0
    BY <1>2, <1>0 DEF CreateOwner, NewAccount
  <2>3. lost' = lost
    BY <1>2 DEF CreateOwner
  <2> QED
    BY <1>c, <1>0, <2>1, <2>2, <2>3 DEF Quiet, Moves
<1>3. ASSUME NEW r \in Requests, NEW u \in Users, ChangePassword(r, u)
      PROVE  LockoutComes'
  <2>1. Moves(r, req'[r].at) /\ req[r].at # "lock"
    BY <1>3, BeginMoves DEF ChangePassword, Stages, Moves, IsAt
  <2>2. account' = account
    BY <1>3 DEF ChangePassword
  <2>3. lost' = lost
    BY <1>3 DEF ChangePassword
  <2> QED
    BY <1>c, <1>0, <2>1, <2>2, <2>3 DEF Quiet, Moves
<1>4. ASSUME NEW r \in Requests, NEW u \in Users, ResetAdminPassword(r, u)
      PROVE  LockoutComes'
  <2>1. Moves(r, req'[r].at) /\ req[r].at # "lock"
    BY <1>4, BeginMoves DEF ResetAdminPassword, Stages, Moves, IsAt
  <2>2. account' = account
    BY <1>4 DEF ResetAdminPassword
  <2>3. lost' = lost
    BY <1>4 DEF ResetAdminPassword
  <2> QED
    BY <1>c, <1>0, <2>1, <2>2, <2>3 DEF Quiet, Moves
<1>5. ASSUME NEW r \in Requests, NEW u \in Users, DeactivateAdmin(r, u)
      PROVE  LockoutComes'
  <2>1. Moves(r, req'[r].at) /\ req[r].at # "lock"
    BY <1>5, BeginMoves DEF DeactivateAdmin, Stages, Moves, IsAt
  <2>2. \A v \in Users : account'[v].failures = account[v].failures \/ account'[v].failures = 0
    BY <1>5, <1>0, Fields DEF DeactivateAdmin
  <2>3. lost' = lost
    BY <1>5 DEF DeactivateAdmin
  <2> QED
    BY <1>c, <1>0, <2>1, <2>2, <2>3 DEF Quiet, Moves
<1>6. ASSUME NEW r \in Requests, NEW u \in Users, ForceLogout(r, u)
      PROVE  LockoutComes'
  <2>1. Moves(r, req'[r].at) /\ req[r].at # "lock"
    BY <1>6, BeginMoves DEF ForceLogout, Stages, Moves, IsAt
  <2>2. account' = account
    BY <1>6 DEF ForceLogout
  <2>3. lost' = lost
    BY <1>6 DEF ForceLogout
  <2> QED
    BY <1>c, <1>0, <2>1, <2>2, <2>3 DEF Quiet, Moves
<1>7. ASSUME NEW r \in Requests, NEW u \in Users, RequestCode(r, u)
      PROVE  LockoutComes'
  <2>1. Moves(r, req'[r].at) /\ req[r].at # "lock"
    BY <1>7, RequestCodeMoves DEF RequestCode, Moves, IsAt
  <2>2. account' = account
    BY <1>7 DEF RequestCode
  <2>3. lost' = lost
    BY <1>7 DEF RequestCode
  <2> QED
    BY <1>c, <1>0, <2>1, <2>2, <2>3 DEF Quiet, Moves
<1>8. ASSUME NEW r \in Requests, NEW u \in Users, ConfirmReset(r, u)
      PROVE  LockoutComes'
  <2>1. Moves(r, req'[r].at) /\ req[r].at # "lock"
    BY <1>8, ConfirmMoves DEF ConfirmReset, Moves, IsAt
  <2>2. account' = account
    BY <1>8 DEF ConfirmReset
  <2>3. lost' = lost
    BY <1>8 DEF ConfirmReset
  <2> QED
    BY <1>c, <1>0, <2>1, <2>2, <2>3 DEF Quiet, Moves
<1>9. ASSUME NEW r \in Requests, WrongPassword(r)
      PROVE  LockoutComes'
  <2> DEFINE f == account[req[r].user].failures + 1
  <2>1. /\ req[r].at = "verify" /\ lost' = lost
        /\ account'[req[r].user].failures = f
        /\ \A v \in Users : v # req[r].user => account'[v] = account[v]
    BY <1>9, <1>0, Fields DEF WrongPassword, IsAt
  <2>2. CASE Moves(r, "idle") /\ ~(f >= MaxFailed)
    BY <2>1, <2>2, <1>0, <1>c DEF Quiet, Moves
  <2>3. CASE Moves(r, "lock")
    <3>1. req'[r].at = "lock" /\ req'[r].user = req[r].user
          /\ \A q \in Requests : req[q].at = "lock" => req'[q] = req[q]
      BY <2>1, <2>3 DEF Moves
    <3>2. ASSUME NEW v \in Users, v # req[r].user, account'[v].failures >= MaxFailed
          PROVE  \/ \E q \in Requests : req'[q].at = "lock" /\ req'[q].user = v
                 \/ <<v, "lock">> \in lost'
      BY <2>1, <3>1, <3>2 DEF LockoutComes, IsAt
    <3> QED
      BY <3>1, <3>2 DEF LockoutComes, IsAt
  <2> QED
    BY <1>9, <2>2, <2>3, WrongPasswordMoves
<1>10. ASSUME NEW r \in Requests, Lock(r)
      PROVE  LockoutComes'
  <2>1. /\ Moves(r, "idle") /\ account'[req[r].user].failures = 0
        /\ \A v \in Users : v # req[r].user => account'[v] = account[v]
    BY <1>10, <1>0, FinishMoves, Fields DEF Lock
  <2>2. \A v \in Users : v # req[r].user /\ <<v, "lock">> \in lost => <<v, "lock">> \in lost'
    BY <1>10 DEF Lock, Settle
  <2> QED
    BY <1>c, <1>0, <2>1, <2>2 DEF Quiet, Moves
<1>11. ASSUME NEW r \in Requests, Succeed(r)
      PROVE  LockoutComes'
  <2>1. Moves(r, req'[r].at) /\ req[r].at # "lock"
    BY <1>11, SucceedMoves DEF Succeed, Moves, IsAt
  <2>2. \A v \in Users : account'[v].failures = account[v].failures \/ account'[v].failures = 0
    BY <1>11, <1>0, Fields DEF Succeed
  <2>3. \A v \in Users : <<v, "lock">> \in lost =>
          <<v, "lock">> \in lost' \/ account'[v].failures = 0
    BY <1>11, <1>0, Fields DEF Succeed, Settle
  <2> QED
    BY <1>c, <1>0, <2>1, <2>2, <2>3 DEF Quiet, Moves
<1>12. ASSUME NEW r \in Requests, IssueSession(r)
      PROVE  LockoutComes'
  <2>1. Moves(r, req'[r].at) /\ req[r].at # "lock"
    BY <1>12, FinishMoves DEF IssueSession, Moves, IsAt
  <2>2. account' = account
    BY <1>12 DEF IssueSession
  <2>3. lost' = lost
    BY <1>12 DEF IssueSession
  <2> QED
    BY <1>c, <1>0, <2>1, <2>2, <2>3 DEF Quiet, Moves
<1>13. ASSUME NEW r \in Requests, UpdatePassword(r)
      PROVE  LockoutComes'
  <2>1. Moves(r, req'[r].at) /\ req[r].at # "lock"
    BY <1>13, UpdateMoves DEF UpdatePassword, Moves, IsAt
  <2>2. \A v \in Users : account'[v].failures = account[v].failures \/ account'[v].failures = 0
    BY <1>13, <1>0, Fields DEF UpdatePassword
  <2>3. \A v \in Users : <<v, "lock">> \in lost =>
          <<v, "lock">> \in lost' \/ account'[v].failures = 0
    BY <1>13, <1>0, Fields DEF UpdatePassword, Settle
  <2> QED
    BY <1>c, <1>0, <2>1, <2>2, <2>3 DEF Quiet, Moves
<1>14. ASSUME NEW r \in Requests, RevokeAll(r)
      PROVE  LockoutComes'
  <2>1. Moves(r, req'[r].at) /\ req[r].at # "lock"
    BY <1>14, FinishMoves DEF RevokeAll, Moves, IsAt
  <2>2. account' = account
    BY <1>14 DEF RevokeAll
  <2>3. \A v \in Users : <<v, "lock">> \in lost => <<v, "lock">> \in lost'
    BY <1>14 DEF RevokeAll
  <2> QED
    BY <1>c, <1>0, <2>1, <2>2, <2>3 DEF Quiet, Moves
<1>15. ASSUME NEW r \in Requests, IssueCode(r)
      PROVE  LockoutComes'
  <2>1. Moves(r, req'[r].at) /\ req[r].at # "lock"
    BY <1>15, FinishMoves DEF IssueCode, Moves, IsAt
  <2>2. account' = account
    BY <1>15 DEF IssueCode
  <2>3. lost' = lost
    BY <1>15 DEF IssueCode
  <2> QED
    BY <1>c, <1>0, <2>1, <2>2, <2>3 DEF Quiet, Moves
<1>16. ASSUME NEW r \in Requests, WrongCode(r)
      PROVE  LockoutComes'
  <2>1. Moves(r, req'[r].at) /\ req[r].at # "lock"
    BY <1>16, WrongCodeMoves DEF WrongCode, Moves, IsAt
  <2>2. account' = account
    BY <1>16 DEF WrongCode
  <2>3. lost' = lost
    BY <1>16 DEF WrongCode
  <2> QED
    BY <1>c, <1>0, <2>1, <2>2, <2>3 DEF Quiet, Moves
<1>17. ASSUME NEW r \in Requests, VoidCodes(r)
      PROVE  LockoutComes'
  <2>1. Moves(r, req'[r].at) /\ req[r].at # "lock"
    BY <1>17, FinishMoves DEF VoidCodes, Moves, IsAt
  <2>2. account' = account
    BY <1>17 DEF VoidCodes
  <2>3. lost' = lost
    BY <1>17 DEF VoidCodes
  <2> QED
    BY <1>c, <1>0, <2>1, <2>2, <2>3 DEF Quiet, Moves
<1>18. ASSUME NEW r \in Requests, RightCode(r)
      PROVE  LockoutComes'
  <2>1. Moves(r, req'[r].at) /\ req[r].at # "lock"
    BY <1>18, RightCodeMoves DEF RightCode, Moves, IsAt
  <2>2. account' = account
    BY <1>18 DEF RightCode
  <2>3. lost' = lost
    BY <1>18 DEF RightCode
  <2> QED
    BY <1>c, <1>0, <2>1, <2>2, <2>3 DEF Quiet, Moves
<1>19. ASSUME NEW r \in Requests, Abandon(r)
      PROVE  LockoutComes'
  <2>1. /\ Moves(r, "idle") /\ account' = account /\ lost \subseteq lost'
        /\ req[r].at = "lock" => <<req[r].user, "lock">> \in lost'
    BY <1>19, FinishMoves DEF Abandon
  <2> QED
    BY <1>c, <1>0, <2>1 DEF Quiet, Moves
<1>20. ASSUME NEW s \in sessions, Logout(s)
      PROVE  LockoutComes'
  BY <1>20, <1>c, <1>0 DEF Logout, Quiet
<1>21. ASSUME NEW u \in Users, CreateAdmin(u)
      PROVE  LockoutComes'
  <2>1. \A v \in Users : account'[v].failures = account[v].failures \/ account'[v].failures = 0
    BY <1>21, <1>0 DEF CreateAdmin, NewAccount
  <2> QED
    BY <1>21, <1>c, <1>0, <2>1 DEF CreateAdmin, Quiet
<1>22. CASE Tick
  BY <1>22, <1>c, <1>0 DEF Tick, Quiet
<1>23. CASE UNCHANGED vars
  BY <1>23, <1>c, <1>0 DEF vars, Quiet
<1> QED
  BY <1>1, <1>2, <1>3, <1>4, <1>5, <1>6, <1>7, <1>8, <1>9, <1>10, <1>11, <1>12,
     <1>13, <1>14, <1>15, <1>16, <1>17, <1>18, <1>19, <1>20, <1>21, <1>22, <1>23
  DEF Next, LoginStep, Register, RegisterWithGoogle, PasswordStep, RecoveryStep

LEMMA CodeFields ==
  ASSUME NEW k \in Code, NEW n
  PROVE  [k EXCEPT !.fate = n].fate = n /\ [k EXCEPT !.attempts = n].fate = k.fate
BY DEF Code

LEMMA CodesStep ==
  ASSUME TypeOK, CodesResetOnce, Claims, [Next]_vars
  PROVE  (CodesResetOnce /\ Claims)'
<1> DEFINE Quiet ==
      /\ \A c \in Codes :
           code'[c].fate = code[c].fate \/ (code[c].fate = "live" /\ code'[c].fate = "void")
      /\ UNCHANGED <<issued, resets>>
      /\ \A q \in Requests : req'[q].code # 0 => req'[q].at = "confirm" \/ req'[q] = req[q]
      /\ \A q \in Requests : req'[q].at = "confirm" => req'[q].code # 0
<1>0. /\ req \in [Requests -> Request] /\ code \in [Codes -> Code]
      /\ resets \in [Codes -> Nat] /\ issued \in 0..MaxCodes /\ MaxCodes \in Nat
      /\ \A q \in Requests : req[q].code # 0 => req[q].code \in Codes
  BY ReqStep, LimitAssumption DEF TypeOK, Codes
<1>c. Quiet => (CodesResetOnce /\ Claims)'
  <2> HAVE Quiet
  <2>1. CodesResetOnce'
    BY <1>0 DEF CodesResetOnce
  <2>2. \A c \in Codes : c > issued' => code'[c].fate = "none"
    BY <1>0 DEF Claims
  <2>3. \A q \in Requests : req'[q].code # 0 => req'[q].at \in {"confirm", "update"}
    BY DEF Claims
  <2>4. \A q \in Requests : req'[q].at = "update" /\ req'[q].code # 0 =>
          req'[q] = req[q] /\ req[q].at = "update" /\ req[q].code \in Codes
    BY <1>0
  <2>5. \A q \in Requests : req'[q].at = "update" /\ req'[q].code # 0 =>
          code'[req'[q].code].fate = "spent" /\ resets'[req'[q].code] = 0
    BY <2>4 DEF Claims, IsAt
  <2>6. \A q, p \in Requests : /\ req'[q].at = "update" /\ req'[q].code # 0
                               /\ req'[p].at = "update" /\ req'[p].code = req'[q].code
                               => p = q
    BY <2>4 DEF Claims, IsAt
  <2>7. Claims'
    BY <2>2, <2>3, <2>5, <2>6 DEF Claims, IsAt
  <2> QED
    BY <2>1, <2>7
<1> HIDE DEF Quiet
<1>1. ASSUME NEW r \in Requests, NEW u \in Users, Login(r, u)
      PROVE  (CodesResetOnce /\ Claims)'
  <2>1. /\ Moves(r, req'[r].at) /\ req'[r].at # "confirm" /\ req'[r].code = 0
    BY <1>1, LoginMoves DEF Login, Moves
  <2>2. UNCHANGED <<code, issued, resets>>
    BY <1>1 DEF Login
  <2>9. Quiet
    BY <1>0, <2>1, <2>2 DEF Quiet, Moves, Claims, IsAt
  <2> QED
    BY <1>c, <2>9
<1>2. ASSUME NEW r \in Requests, NEW u \in Users,
             NEW next \in {"session", "welcome"}, CreateOwner(r, u, next)
      PROVE  (CodesResetOnce /\ Claims)'
  <2>1. /\ Moves(r, req'[r].at) /\ req'[r].at # "confirm" /\ req'[r].code = 0
    BY <1>2, RegisterMoves DEF CreateOwner, Moves
  <2>2. UNCHANGED <<code, issued, resets>>
    BY <1>2 DEF CreateOwner
  <2>9. Quiet
    BY <1>0, <2>1, <2>2 DEF Quiet, Moves, Claims, IsAt
  <2> QED
    BY <1>c, <2>9
<1>3. ASSUME NEW r \in Requests, NEW u \in Users, ChangePassword(r, u)
      PROVE  (CodesResetOnce /\ Claims)'
  <2>1. /\ Moves(r, req'[r].at) /\ req'[r].at # "confirm" /\ req'[r].code = 0
    BY <1>3, BeginMoves DEF ChangePassword, Stages, Moves
  <2>2. UNCHANGED <<code, issued, resets>>
    BY <1>3 DEF ChangePassword
  <2>9. Quiet
    BY <1>0, <2>1, <2>2 DEF Quiet, Moves, Claims, IsAt
  <2> QED
    BY <1>c, <2>9
<1>4. ASSUME NEW r \in Requests, NEW u \in Users, ResetAdminPassword(r, u)
      PROVE  (CodesResetOnce /\ Claims)'
  <2>1. /\ Moves(r, req'[r].at) /\ req'[r].at # "confirm" /\ req'[r].code = 0
    BY <1>4, BeginMoves DEF ResetAdminPassword, Stages, Moves
  <2>2. UNCHANGED <<code, issued, resets>>
    BY <1>4 DEF ResetAdminPassword
  <2>9. Quiet
    BY <1>0, <2>1, <2>2 DEF Quiet, Moves, Claims, IsAt
  <2> QED
    BY <1>c, <2>9
<1>5. ASSUME NEW r \in Requests, NEW u \in Users, DeactivateAdmin(r, u)
      PROVE  (CodesResetOnce /\ Claims)'
  <2>1. /\ Moves(r, req'[r].at) /\ req'[r].at # "confirm" /\ req'[r].code = 0
    BY <1>5, BeginMoves DEF DeactivateAdmin, Stages, Moves
  <2>2. UNCHANGED <<code, issued, resets>>
    BY <1>5 DEF DeactivateAdmin
  <2>9. Quiet
    BY <1>0, <2>1, <2>2 DEF Quiet, Moves, Claims, IsAt
  <2> QED
    BY <1>c, <2>9
<1>6. ASSUME NEW r \in Requests, NEW u \in Users, ForceLogout(r, u)
      PROVE  (CodesResetOnce /\ Claims)'
  <2>1. /\ Moves(r, req'[r].at) /\ req'[r].at # "confirm" /\ req'[r].code = 0
    BY <1>6, BeginMoves DEF ForceLogout, Stages, Moves
  <2>2. UNCHANGED <<code, issued, resets>>
    BY <1>6 DEF ForceLogout
  <2>9. Quiet
    BY <1>0, <2>1, <2>2 DEF Quiet, Moves, Claims, IsAt
  <2> QED
    BY <1>c, <2>9
<1>7. ASSUME NEW r \in Requests, NEW u \in Users, RequestCode(r, u)
      PROVE  (CodesResetOnce /\ Claims)'
  <2>1. /\ Moves(r, req'[r].at) /\ req'[r].at # "confirm" /\ req'[r].code = 0
        /\ UNCHANGED <<issued, resets>>
    BY <1>7, RequestCodeMoves DEF RequestCode, Moves
  <2>2. \A c \in Codes :
          code'[c].fate = code[c].fate \/ (code[c].fate = "live" /\ code'[c].fate = "void")
    BY <1>7, <1>0, CodeFields DEF RequestCode, WithoutCodesOf
  <2>9. Quiet
    BY <1>0, <2>1, <2>2 DEF Quiet, Moves, Claims, IsAt
  <2> QED
    BY <1>c, <2>9
<1>8. ASSUME NEW r \in Requests, NEW u \in Users, ConfirmReset(r, u)
      PROVE  (CodesResetOnce /\ Claims)'
  <2>1. /\ Moves(r, req'[r].at) /\ req'[r].at = "confirm" /\ req'[r].code # 0
    BY <1>8, ConfirmMoves DEF Codes, Moves
  <2>2. UNCHANGED <<code, issued, resets>>
    BY <1>8 DEF ConfirmReset
  <2>9. Quiet
    BY <1>0, <2>1, <2>2 DEF Quiet, Moves, Claims, IsAt
  <2> QED
    BY <1>c, <2>9
<1>9. ASSUME NEW r \in Requests, WrongPassword(r)
      PROVE  (CodesResetOnce /\ Claims)'
  <2>1. /\ Moves(r, req'[r].at) /\ req'[r].at # "confirm" /\ req'[r].code = 0
    <3>1. req[r].at \in {"verify", "welcome"} /\ req[r].code = 0
      BY <1>9, <1>0 DEF WrongPassword, IsAt, Claims
    <3> QED
      BY <1>9, <3>1, WrongPasswordMoves DEF Moves
  <2>2. UNCHANGED <<code, issued, resets>>
    BY <1>9 DEF WrongPassword
  <2>9. Quiet
    BY <1>0, <2>1, <2>2 DEF Quiet, Moves, Claims, IsAt
  <2> QED
    BY <1>c, <2>9
<1>10. ASSUME NEW r \in Requests, Lock(r)
      PROVE  (CodesResetOnce /\ Claims)'
  <2>1. /\ Moves(r, req'[r].at) /\ req'[r].at # "confirm" /\ req'[r].code = 0
    BY <1>10, FinishMoves DEF Lock, Moves
  <2>2. UNCHANGED <<code, issued, resets>>
    BY <1>10 DEF Lock
  <2>9. Quiet
    BY <1>0, <2>1, <2>2 DEF Quiet, Moves, Claims, IsAt
  <2> QED
    BY <1>c, <2>9
<1>11. ASSUME NEW r \in Requests, Succeed(r)
      PROVE  (CodesResetOnce /\ Claims)'
  <2>1. /\ Moves(r, req'[r].at) /\ req'[r].at # "confirm" /\ req'[r].code = 0
    <3>1. req[r].at \in {"verify", "welcome"} /\ req[r].code = 0
      BY <1>11, <1>0 DEF Succeed, IsAt, Claims
    <3> QED
      BY <1>11, <3>1, SucceedMoves DEF Moves
  <2>2. UNCHANGED <<code, issued, resets>>
    BY <1>11 DEF Succeed
  <2>9. Quiet
    BY <1>0, <2>1, <2>2 DEF Quiet, Moves, Claims, IsAt
  <2> QED
    BY <1>c, <2>9
<1>12. ASSUME NEW r \in Requests, IssueSession(r)
      PROVE  (CodesResetOnce /\ Claims)'
  <2>1. /\ Moves(r, req'[r].at) /\ req'[r].at # "confirm" /\ req'[r].code = 0
    BY <1>12, FinishMoves DEF IssueSession, Moves
  <2>2. UNCHANGED <<code, issued, resets>>
    BY <1>12 DEF IssueSession
  <2>9. Quiet
    BY <1>0, <2>1, <2>2 DEF Quiet, Moves, Claims, IsAt
  <2> QED
    BY <1>c, <2>9
<1>13. ASSUME NEW r \in Requests, UpdatePassword(r)
      PROVE  (CodesResetOnce /\ Claims)'
  <2>1. /\ Moves(r, "revoke") /\ req'[r].code = 0 /\ req[r].at = "update"
        /\ UNCHANGED <<code, issued>>
    BY <1>13, UpdateMoves DEF UpdatePassword, IsAt
  <2>2. CASE req[r].code = 0
    <3>1. resets' = resets
      BY <1>13, <2>2 DEF UpdatePassword
    <3>9. Quiet
      BY <1>0, <2>1, <3>1 DEF Quiet, Moves, Claims, IsAt
    <3> QED
      BY <1>c, <3>9
  <2>3. CASE req[r].code # 0
    <3> DEFINE d == req[r].code
    <3>1. d \in Codes /\ code[d].fate = "spent" /\ resets[d] = 0
      BY <1>0, <2>1, <2>3, ReqStep DEF Claims, IsAt, Codes
    <3>2. resets' = [resets EXCEPT ![d] = resets[d] + 1]
      BY <1>13, <2>3 DEF UpdatePassword
    <3>3. resets'[d] = 1 /\ \A c \in Codes : c # d => resets'[c] = resets[c]
      BY <1>0, <3>1, <3>2
    <3>4. \A q \in Requests : q # r => req'[q] = req[q]
      BY <2>1 DEF Moves
    <3>5. CodesResetOnce'
      BY <2>1, <3>1, <3>3 DEF CodesResetOnce
    <3>6. \A q \in Requests : req'[q].at = "update" /\ req'[q].code # 0 =>
            q # r /\ req[q].at = "update" /\ req[q].code # d /\ req[q].code \in Codes
      BY <2>1, <2>3, <3>4, ReqStep DEF Moves, Claims, IsAt, Codes
    <3>7. \A q \in Requests : req'[q].at = "update" /\ req'[q].code # 0 =>
            code'[req'[q].code].fate = "spent" /\ resets'[req'[q].code] = 0
      BY <2>1, <3>3, <3>4, <3>6 DEF Claims, IsAt
    <3>8. \A q, p \in Requests : /\ req'[q].at = "update" /\ req'[q].code # 0
                                 /\ req'[p].at = "update" /\ req'[p].code = req'[q].code
                                 => p = q
      BY <3>4, <3>6 DEF Claims, IsAt
    <3>9. \A q \in Requests : req'[q].code # 0 => req'[q].at \in {"confirm", "update"}
      BY <2>1, <3>4 DEF Claims
    <3>10. \A q \in Requests : req'[q].at = "confirm" => req'[q].code # 0
      BY <2>1, <3>4 DEF Claims, IsAt, Moves
    <3>11. Claims'
      BY <2>1, <3>7, <3>8, <3>9, <3>10 DEF Claims, IsAt
    <3> QED
      BY <3>5, <3>11
  <2> QED
    BY <2>2, <2>3
<1>14. ASSUME NEW r \in Requests, RevokeAll(r)
      PROVE  (CodesResetOnce /\ Claims)'
  <2>1. /\ Moves(r, req'[r].at) /\ req'[r].at # "confirm" /\ req'[r].code = 0
    BY <1>14, FinishMoves DEF RevokeAll, Moves
  <2>2. UNCHANGED <<code, issued, resets>>
    BY <1>14 DEF RevokeAll
  <2>9. Quiet
    BY <1>0, <2>1, <2>2 DEF Quiet, Moves, Claims, IsAt
  <2> QED
    BY <1>c, <2>9
<1>15. ASSUME NEW r \in Requests, IssueCode(r)
      PROVE  (CodesResetOnce /\ Claims)'
  <2> DEFINE d == issued + 1
  <2>1. /\ Moves(r, "idle") /\ req'[r].code = 0 /\ resets' = resets /\ issued' = d
    BY <1>15, FinishMoves DEF IssueCode
  <2>2. d \in Codes /\ issued \in Nat
    BY <1>15, <1>0 DEF IssueCode, Codes
  <2>3. code[d].fate = "none" /\ resets[d] = 0
    BY <1>0, <2>2 DEF Claims, CodesResetOnce, Codes
  <2>4. code'[d].fate = "live" /\ \A c \in Codes : c # d => code'[c] = code[c]
    BY <1>15, <1>0, <2>2 DEF IssueCode
  <2>5. CodesResetOnce'
    <3>1. ASSUME NEW c \in Codes
          PROVE  resets'[c] <= 1 /\ (resets'[c] = 1 => code'[c].fate = "spent")
      <4>1. CASE c = d
        BY <4>1, <2>1, <2>3
      <4>2. CASE c # d
        BY <4>2, <2>1, <2>4 DEF CodesResetOnce
      <4> QED
        BY <4>1, <4>2
    <3> QED
      BY <3>1 DEF CodesResetOnce
  <2>6. \A c \in Codes : c > issued' => code'[c].fate = "none"
    <3>1. ASSUME NEW c \in Codes, c > issued'
          PROVE  code'[c].fate = "none"
      <4>1. c # d /\ c > issued
        BY <2>1, <2>2, <3>1 DEF Codes
      <4> QED
        BY <2>4, <4>1 DEF Claims
    <3> QED
      BY <3>1
  <2>7. \A q \in Requests : req'[q].code # 0 => req'[q] = req[q]
    BY <2>1 DEF Moves
  <2>8. \A q \in Requests : req[q].at = "update" /\ req[q].code # 0 =>
          req[q].code \in Codes /\ req[q].code # d
    BY <1>0, <2>3, ReqStep DEF Claims, IsAt, Codes
  <2>9. \A q \in Requests : req'[q].at = "confirm" => req'[q].code # 0
    BY <2>1 DEF Moves, Claims, IsAt
  <2>10. \A q \in Requests : req'[q].at = "update" /\ req'[q].code # 0 =>
           code'[req'[q].code].fate = "spent" /\ resets'[req'[q].code] = 0
    BY <2>1, <2>4, <2>7, <2>8 DEF Claims, IsAt
  <2>11. Claims'
    BY <2>6, <2>7, <2>9, <2>10 DEF Claims, IsAt
  <2> QED
    BY <2>5, <2>11
<1>16. ASSUME NEW r \in Requests, WrongCode(r)
      PROVE  (CodesResetOnce /\ Claims)'
  <2>1. /\ Moves(r, req'[r].at) /\ req'[r].at # "confirm" /\ req'[r].code = 0
        /\ UNCHANGED <<issued, resets>>
    BY <1>16, WrongCodeMoves DEF WrongCode, Moves
  <2>2. \A c \in Codes : code'[c].fate = code[c].fate
    BY <1>16, <1>0, CodeFields DEF WrongCode
  <2>9. Quiet
    BY <1>0, <2>1, <2>2 DEF Quiet, Moves, Claims, IsAt
  <2> QED
    BY <1>c, <2>9
<1>17. ASSUME NEW r \in Requests, VoidCodes(r)
      PROVE  (CodesResetOnce /\ Claims)'
  <2>1. /\ Moves(r, req'[r].at) /\ req'[r].at # "confirm" /\ req'[r].code = 0
        /\ UNCHANGED <<issued, resets>>
    BY <1>17, FinishMoves DEF VoidCodes, Moves
  <2>2. \A c \in Codes :
          code'[c].fate = code[c].fate \/ (code[c].fate = "live" /\ code'[c].fate = "void")
    BY <1>17, <1>0, CodeFields DEF VoidCodes, WithoutCodesOf
  <2>9. Quiet
    BY <1>0, <2>1, <2>2 DEF Quiet, Moves, Claims, IsAt
  <2> QED
    BY <1>c, <2>9
<1>18. ASSUME NEW r \in Requests, RightCode(r)
      PROVE  (CodesResetOnce /\ Claims)'
  <2>1. req[r].at = "confirm" /\ UNCHANGED <<issued, resets>>
    BY <1>18 DEF RightCode, IsAt
  <2>2. CASE Moves(r, "idle") /\ req'[r].code = 0 /\ code' = code
    <3>1. Quiet
      BY <1>0, <2>1, <2>2 DEF Quiet, Moves, Claims, IsAt
    <3> QED
      BY <1>c, <3>1
  <2>3. CASE /\ Moves(r, "update") /\ req'[r].code = req[r].code
             /\ code[req[r].code].fate = "live"
             /\ code' = [code EXCEPT ![req[r].code].fate = "spent"]
    <3> DEFINE d == req[r].code
    <3>1. d \in Codes /\ d # 0
      BY <2>1, ReqStep DEF Claims, IsAt, Codes
    <3>2. resets[d] = 0
      BY <1>0, <2>3, <3>1 DEF CodesResetOnce
    <3>3. code'[d].fate = "spent" /\ \A c \in Codes : c # d => code'[c] = code[c]
      BY <1>0, <2>3, <3>1, CodeFields
    <3>4. \A q \in Requests : q # r => req'[q] = req[q]
      BY <2>3 DEF Moves
    <3>5. CodesResetOnce'
      BY <2>1, <3>2, <3>3 DEF CodesResetOnce
    <3>6. \A q \in Requests : req[q].at = "update" /\ req[q].code # 0 =>
            req[q].code \in Codes /\ req[q].code # d
      BY <1>0, <2>3, ReqStep DEF Claims, IsAt, Codes
    <3>7. \A c \in Codes : c > issued => code'[c].fate = "none"
      BY <1>0, <2>3, <3>1, <3>3 DEF Claims
    <3>8. \A q \in Requests : req'[q].code # 0 => req'[q].at \in {"confirm", "update"}
      BY <2>3, <3>4 DEF Claims, Moves
    <3>9. \A q \in Requests : req'[q].at = "confirm" => req'[q].code # 0
      BY <2>3, <3>4 DEF Claims, IsAt, Moves
    <3>10. \A q \in Requests : req'[q].at = "update" /\ req'[q].code # 0 =>
             code'[req'[q].code].fate = "spent" /\ resets'[req'[q].code] = 0
      BY <2>1, <2>3, <3>1, <3>2, <3>3, <3>4, <3>6 DEF Claims, IsAt
    <3>11. \A q, p \in Requests : /\ req'[q].at = "update" /\ req'[q].code # 0
                                  /\ req'[p].at = "update" /\ req'[p].code = req'[q].code
                                  => p = q
      BY <2>3, <3>4, <3>6 DEF Claims, IsAt
    <3>12. Claims'
      BY <2>1, <3>7, <3>8, <3>9, <3>10, <3>11 DEF Claims, IsAt
    <3> QED
      BY <3>5, <3>12
  <2> QED
    BY <1>18, <2>2, <2>3, RightCodeMoves
<1>19. ASSUME NEW r \in Requests, Abandon(r)
      PROVE  (CodesResetOnce /\ Claims)'
  <2>1. /\ Moves(r, req'[r].at) /\ req'[r].at # "confirm" /\ req'[r].code = 0
    BY <1>19, FinishMoves DEF Abandon, Moves
  <2>2. UNCHANGED <<code, issued, resets>>
    BY <1>19 DEF Abandon
  <2>9. Quiet
    BY <1>0, <2>1, <2>2 DEF Quiet, Moves, Claims, IsAt
  <2> QED
    BY <1>c, <2>9
<1>20. ASSUME NEW s \in sessions, Logout(s)
      PROVE  (CodesResetOnce /\ Claims)'
  <2>1. Quiet
    BY <1>20, <1>0 DEF Logout, Quiet, Claims, IsAt
  <2> QED
    BY <1>c, <2>1
<1>21. ASSUME NEW u \in Users, CreateAdmin(u)
      PROVE  (CodesResetOnce /\ Claims)'
  <2>1. Quiet
    BY <1>21, <1>0 DEF CreateAdmin, Quiet, Claims, IsAt
  <2> QED
    BY <1>c, <2>1
<1>22. CASE Tick
  <2>1. Quiet
    BY <1>22, <1>0 DEF Tick, Quiet, Claims, IsAt
  <2> QED
    BY <1>c, <2>1
<1>23. CASE UNCHANGED vars
  <2>1. Quiet
    BY <1>23, <1>0 DEF vars, Quiet, Claims, IsAt
  <2> QED
    BY <1>c, <2>1
<1> QED
  BY <1>1, <1>2, <1>3, <1>4, <1>5, <1>6, <1>7, <1>8, <1>9, <1>10, <1>11, <1>12,
     <1>13, <1>14, <1>15, <1>16, <1>17, <1>18, <1>19, <1>20, <1>21, <1>22, <1>23
  DEF Next, LoginStep, Register, RegisterWithGoogle, PasswordStep, RecoveryStep

-----------------------------------------------------------------------------
(* The theorems                                                            *)

LEMMA Inductive == Spec => []IInv
<1>1. Init => IInv
  BY InitInv
<1>2. IInv /\ [Next]_vars => IInv'
  BY TypeStep, ExistingStep, ReadUnlockedStep, SessionsStep, LockoutStep, CodesStep
  DEF IInv
<1> QED
  BY <1>1, <1>2, PTL DEF Spec

\* Every variable stays in its domain.
THEOREM TypeCorrect == Spec => []TypeOK
<1>1. IInv => TypeOK
  BY DEF IInv
<1> QED
  BY <1>1, Inductive, PTL

\* A session that outlives its password is late, about to be revoked, or what an
\* interrupted revocation has left (changePassword, confirmReset).
THEOREM OldSessions == Spec => []OldSessionsExplained
<1>1. IInv => OldSessionsExplained
  BY DEF IInv
<1> QED
  BY <1>1, Inductive, PTL

\* The account whose failures have reached the limit is about to be locked.
THEOREM Lockout == Spec => []LockoutComes
<1>1. IInv => LockoutComes
  BY DEF IInv
<1> QED
  BY <1>1, Inductive, PTL

\* A recovery code sets one password at most: consume lets one request through.
THEOREM CodeOnce == Spec => []CodesResetOnce
<1>1. IInv => CodesResetOnce
  BY DEF IInv
<1> QED
  BY <1>1, Inductive, PTL

\* What LocksHold says of a step.
Held ==
  \A u \in Users :
    /\ account[u].lockedUntil > clock
    /\ account'[u].lockedUntil < account[u].lockedUntil
    => \/ account'[u].password # account[u].password
       \/ \E r \in Requests : /\ req[r].at \in {"verify", "welcome", "lock"}
                              /\ req[r].user = u
                              /\ req[r].lockedUntil # account[u].lockedUntil
                              /\ req'[r] # req[r]

\* A login lifts or shortens no lock that was there when it read the account.
LEMMA HeldStep ==
  ASSUME TypeOK, Existing, ReadUnlocked, [Next]_vars
  PROVE  Held
<1> DEFINE Quiet == \A u \in Users : \/ account'[u].lockedUntil = account[u].lockedUntil
                                     \/ account'[u].password # account[u].password
<1>0. /\ account \in [Users -> Account] /\ req \in [Requests -> Request]
      /\ clock \in Nat
      /\ \A q \in Requests : req[q] \in Request /\ req[q].user \in Users
      /\ \A u \in Users : account[u].lockedUntil \in Nat /\ account[u].password \in Nat
      /\ \A q \in Requests : req[q].lockedUntil \in Nat /\ req[q].start \in Nat
  BY ReqStep, AccountFields, LimitAssumption DEF TypeOK, Request
<1>c. Quiet => Held
  BY <1>0 DEF Held
\* A login that has read the account is not late for a lock in force.
<1>d. ASSUME NEW r \in Requests, req[r].at \in {"verify", "welcome", "lock"}, req'[r].at # req[r].at,
             \A u \in Users : u # req[r].user => account'[u] = account[u]
      PROVE  Held
  <2>1. req[r].lockedUntil <= clock
    BY <1>0, <1>d DEF ReadUnlocked
  <2>2. account[req[r].user].lockedUntil > clock =>
          req[r].lockedUntil # account[req[r].user].lockedUntil
    BY <1>0, <2>1
  <2>3. req'[r] # req[r]
    BY <1>d
  <2> QED
    BY <1>0, <1>d, <2>2, <2>3 DEF Held
<1>1. ASSUME NEW r \in Requests, NEW u \in Users, Login(r, u)
      PROVE  Held
  BY <1>1, <1>c DEF Login
<1>2. ASSUME NEW r \in Requests, NEW u \in Users,
             NEW next \in {"session", "welcome"}, CreateOwner(r, u, next)
      PROVE  Held
  BY <1>2, <1>c, <1>0 DEF CreateOwner, Existing, NewAccount, NoAccount
<1>3. ASSUME NEW r \in Requests, NEW u \in Users, ChangePassword(r, u)
      PROVE  Held
  BY <1>3, <1>c DEF ChangePassword
<1>4. ASSUME NEW r \in Requests, NEW u \in Users, ResetAdminPassword(r, u)
      PROVE  Held
  BY <1>4, <1>c DEF ResetAdminPassword
<1>5. ASSUME NEW r \in Requests, NEW u \in Users, DeactivateAdmin(r, u)
      PROVE  Held
  BY <1>5, <1>c, <1>0, Fields DEF DeactivateAdmin
<1>6. ASSUME NEW r \in Requests, NEW u \in Users, ForceLogout(r, u)
      PROVE  Held
  BY <1>6, <1>c DEF ForceLogout
<1>7. ASSUME NEW r \in Requests, NEW u \in Users, RequestCode(r, u)
      PROVE  Held
  BY <1>7, <1>c DEF RequestCode
<1>8. ASSUME NEW r \in Requests, NEW u \in Users, ConfirmReset(r, u)
      PROVE  Held
  BY <1>8, <1>c DEF ConfirmReset
<1>9. ASSUME NEW r \in Requests, WrongPassword(r)
      PROVE  Held
  BY <1>9, <1>c, <1>0, Fields DEF WrongPassword
<1>10. ASSUME NEW r \in Requests, Lock(r)
      PROVE  Held
  <2>1. req[r].at \in {"verify", "welcome", "lock"} /\ req'[r].at # req[r].at
    BY <1>10, FinishMoves DEF Lock, IsAt, Moves
  <2>2. \A u \in Users : u # req[r].user => account'[u] = account[u]
    BY <1>10, <1>0 DEF Lock
  <2> QED
    BY <1>d, <2>1, <2>2
<1>11. ASSUME NEW r \in Requests, Succeed(r)
      PROVE  Held
  <2>1. req[r].at \in {"verify", "welcome", "lock"} /\ req'[r].at # req[r].at
    BY <1>11, SucceedMoves DEF Succeed, IsAt, Moves
  <2>2. \A u \in Users : u # req[r].user => account'[u] = account[u]
    BY <1>11, <1>0 DEF Succeed
  <2> QED
    BY <1>d, <2>1, <2>2
<1>12. ASSUME NEW r \in Requests, IssueSession(r)
      PROVE  Held
  BY <1>12, <1>c DEF IssueSession
<1>13. ASSUME NEW r \in Requests, UpdatePassword(r)
      PROVE  Held
  BY <1>13, <1>c, <1>0, Fields DEF UpdatePassword
<1>14. ASSUME NEW r \in Requests, RevokeAll(r)
      PROVE  Held
  BY <1>14, <1>c DEF RevokeAll
<1>15. ASSUME NEW r \in Requests, IssueCode(r)
      PROVE  Held
  BY <1>15, <1>c DEF IssueCode
<1>16. ASSUME NEW r \in Requests, WrongCode(r)
      PROVE  Held
  BY <1>16, <1>c DEF WrongCode
<1>17. ASSUME NEW r \in Requests, VoidCodes(r)
      PROVE  Held
  BY <1>17, <1>c DEF VoidCodes
<1>18. ASSUME NEW r \in Requests, RightCode(r)
      PROVE  Held
  BY <1>18, <1>c DEF RightCode
<1>19. ASSUME NEW r \in Requests, Abandon(r)
      PROVE  Held
  BY <1>19, <1>c DEF Abandon
<1>20. ASSUME NEW s \in sessions, Logout(s)
      PROVE  Held
  BY <1>20, <1>c DEF Logout
<1>21. ASSUME NEW u \in Users, CreateAdmin(u)
      PROVE  Held
  BY <1>21, <1>c, <1>0 DEF CreateAdmin, Existing, NewAccount, NoAccount
<1>22. CASE Tick
  BY <1>22, <1>c DEF Tick
<1>23. CASE UNCHANGED vars
  BY <1>23, <1>c DEF vars
<1> QED
  BY <1>1, <1>2, <1>3, <1>4, <1>5, <1>6, <1>7, <1>8, <1>9, <1>10, <1>11, <1>12,
     <1>13, <1>14, <1>15, <1>16, <1>17, <1>18, <1>19, <1>20, <1>21, <1>22, <1>23
  DEF Next, LoginStep, Register, RegisterWithGoogle, PasswordStep, RecoveryStep

\* A lock in force gives way only to a new password or to a login that had read
\* the account before that lock was set.
THEOREM LocksKept == Spec => LocksHold
<1>1. IInv /\ [Next]_vars => Held
  BY HeldStep DEF IInv
<1>2. Spec => [][Held]_vars
  BY <1>1, Inductive, PTL DEF Spec
<1>3. LocksHold <=> [][Held]_vars
  BY DEF LocksHold, Held
<1> QED
  BY <1>2, <1>3
=============================================================================
