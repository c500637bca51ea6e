------------------------- MODULE ResubmissionProofs -------------------------
(***************************************************************************)
(* Proofs about module Resubmission, for any number of requests, keys and  *)
(* codes and any caps.                                                     *)
(*                                                                         *)
(* That a code buys one proof follows from the guards of the transaction.  *)
(* The caps are compared with copies, so their proofs count what is under  *)
(* way: a wrong guess not yet charged to its code (Counted), a code that   *)
(* has been granted and not yet issued (RoomLeft).                         *)
(***************************************************************************)
EXTENDS Resubmission, FiniteSetTheorems, TLAPS

\* The requests whose wrong guess is not yet charged to the code it was
\* compared with, and those about to issue a code.
Wrong(c) == {r \in Requests : stage[r] = "wrong" /\ found[r] = c}
Issuing == {r \in Requests : stage[r] = "issuing"}

\* What a request has read or issued is a code, what it presents was asked for.
Reads ==
  \A r \in Requests :
    /\ stage[r] \in {"sending", "wrong", "right"} => found[r] \in 1..issued
    /\ stage[r] \in {"asked", "keyed", "wrong", "right"} => ask[r] \in Asks

\* As long as a code is unused, its guesses are its attempts and those to come.
Counted ==
  \A c \in Codes :
    /\ guesses[c] >= attempts[c] + Cardinality(Wrong(c))
    /\ c \notin used => guesses[c] <= attempts[c] + Cardinality(Wrong(c))

\* Live codes and codes about to be issued share the room that overlapping
\* requests can have seen.
RoomLeft ==
  Cardinality(Live) + Cardinality(Issuing) <= MaxActive + (Cardinality(Requests) - 1)

IInv ==
  /\ TypeOK
  /\ Reads
  /\ Counted
  /\ GuessesCapped
  /\ RoomLeft
  /\ CodesBuyOnce

-----------------------------------------------------------------------------
(* Counting.                                                               *)

LEMMA RequestCount ==
  Cardinality(Requests) \in Nat
BY CapAssumption, FS_CardinalityType

LEMMA WrongCount ==
  ASSUME NEW c
  PROVE  /\ IsFiniteSet(Wrong(c))
         /\ Cardinality(Wrong(c)) \in Nat
         /\ Cardinality(Wrong(c)) <= Cardinality(Requests)
<1>1. Wrong(c) \in SUBSET Requests
  BY DEF Wrong
<1> QED
  BY <1>1, CapAssumption, FS_Subset, FS_CardinalityType

LEMMA IssuingCount ==
  /\ IsFiniteSet(Issuing)
  /\ Cardinality(Issuing) \in Nat
  /\ Cardinality(Issuing) <= Cardinality(Requests)
<1>1. Issuing \in SUBSET Requests
  BY DEF Issuing
<1> QED
  BY <1>1, CapAssumption, FS_Subset, FS_CardinalityType

LEMMA LiveCount ==
  ASSUME TypeOK
  PROVE  IsFiniteSet(Live) /\ Cardinality(Live) \in Nat
<1>1. issued \in Nat
  BY CapAssumption DEF TypeOK
<1>2. Live \in SUBSET (1..issued)
  BY DEF Live, Unused
<1>3. IsFiniteSet(1..issued)
  BY <1>1, FS_Interval
<1> QED
  BY <1>2, <1>3, FS_Subset, FS_CardinalityType

LEMMA IssuedAreCodes ==
  ASSUME TypeOK, NEW c \in 1..issued
  PROVE  c \in Codes
<1>1. issued \in 0..MaxCodes /\ MaxCodes \in Nat
  BY CapAssumption DEF TypeOK
<1> QED
  BY <1>1 DEF Codes

\* A request that neither had nor has a guess to account for changes no count.
LEMMA SameWrong ==
  ASSUME TypeOK, NEW r \in Requests, NEW s, NEW c,
         stage[r] # "wrong", s # "wrong", Go(r, s),
         \A q \in Requests \ {r} : found'[q] = found[q]
  PROVE  Wrong(c)' = Wrong(c)
BY DEF TypeOK, Wrong, Go

LEMMA MoreWrong ==
  ASSUME TypeOK, NEW r \in Requests, NEW c, NEW d,
         stage[r] # "wrong", Go(r, "wrong"),
         found' = [found EXCEPT ![r] = c]
  PROVE  Cardinality(Wrong(d)') =
           IF d = c THEN Cardinality(Wrong(d)) + 1 ELSE Cardinality(Wrong(d))
<1>1. CASE d = c
  <2>1. Wrong(d)' = Wrong(d) \cup {r}
    BY <1>1 DEF TypeOK, Wrong, Go
  <2>2. r \notin Wrong(d)
    BY DEF Wrong
  <2> QED
    BY <1>1, <2>1, <2>2, WrongCount, FS_AddElement
<1>2. CASE d # c
  <2>1. Wrong(d)' = Wrong(d)
    BY <1>2 DEF TypeOK, Wrong, Go
  <2> QED
    BY <1>2, <2>1
<1> QED
  BY <1>1, <1>2

LEMMA LessWrong ==
  ASSUME TypeOK, NEW r \in Requests, NEW d,
         stage[r] = "wrong", Finish(r)
  PROVE  Cardinality(Wrong(d)') =
           IF d = found[r] THEN Cardinality(Wrong(d)) - 1 ELSE Cardinality(Wrong(d))
<1>1. CASE d = found[r]
  <2>1. Wrong(d)' = Wrong(d) \ {r}
    BY <1>1 DEF TypeOK, Wrong, Finish, Go
  <2>2. r \in Wrong(d)
    BY <1>1 DEF Wrong
  <2> QED
    BY <1>1, <2>1, <2>2, WrongCount, FS_RemoveElement
<1>2. CASE d # found[r]
  <2>1. Wrong(d)' = Wrong(d)
    BY <1>2 DEF TypeOK, Wrong, Finish, Go
  <2> QED
    BY <1>2, <2>1
<1> QED
  BY <1>1, <1>2

\* A request that does not start to issue a code adds nothing to those that do.
LEMMA NoMoreIssuing ==
  ASSUME TypeOK, NEW r \in Requests, NEW s, s # "issuing", Go(r, s)
  PROVE  Cardinality(Issuing') \in Nat /\ Cardinality(Issuing') <= Cardinality(Issuing)
<1>1. Issuing' \in SUBSET Issuing
  BY DEF TypeOK, Issuing, Go
<1> QED
  BY <1>1, IssuingCount, FS_Subset, FS_CardinalityType

\* Codes are used and expire, and never come back to life.
LEMMA NoMoreLive ==
  ASSUME TypeOK, issued' = issued, used \subseteq used',
         expired' = expired \/ expired' = expired + 1
  PROVE  Cardinality(Live') \in Nat /\ Cardinality(Live') <= Cardinality(Live)
<1>1. expired \in Nat
  BY DEF TypeOK
<1>2. Live' \in SUBSET Live
  <2> SUFFICES ASSUME NEW c \in Live' PROVE c \in Live
    OBVIOUS
  <2>1. c \in 1..issued /\ c \notin used /\ c > expired'
    BY DEF Live, Unused
  <2>2. c > expired
    BY <1>1, <2>1
  <2> QED
    BY <2>1, <2>2 DEF Live, Unused
<1> QED
  BY <1>2, LiveCount, FS_Subset, FS_CardinalityType

-----------------------------------------------------------------------------
(* What most steps leave alone.                                            *)

LEMMA QuietGuesses ==
  ASSUME TypeOK, Counted, GuessesCapped,
         NEW r \in Requests, NEW s, stage[r] # "wrong", s # "wrong", Go(r, s),
         \A q \in Requests \ {r} : found'[q] = found[q],
         attempts' = attempts, guesses' = guesses, used \subseteq used'
  PROVE  Counted' /\ GuessesCapped'
<1>1. \A c \in Codes : Wrong(c)' = Wrong(c)
  BY SameWrong
<1>2. ASSUME NEW c \in Codes
      PROVE  /\ guesses'[c] >= attempts'[c] + Cardinality(Wrong(c)')
             /\ c \notin used' => guesses'[c] <= attempts'[c] + Cardinality(Wrong(c)')
  BY <1>1 DEF Counted
<1> QED
  BY <1>2 DEF Counted, GuessesCapped

LEMMA QuietRoom ==
  ASSUME TypeOK, RoomLeft,
         NEW r \in Requests, NEW s, s # "issuing", Go(r, s),
         issued' = issued, expired' = expired, used \subseteq used'
  PROVE  RoomLeft'
<1>1. /\ Cardinality(Issuing') \in Nat
      /\ Cardinality(Issuing') <= Cardinality(Issuing)
  BY NoMoreIssuing
<1>2. /\ Cardinality(Live') \in Nat
      /\ Cardinality(Live') <= Cardinality(Live)
  BY NoMoreLive
<1>3. MaxActive \in Nat
  BY CapAssumption
<1> QED
  BY <1>1, <1>2, <1>3, RequestCount, IssuingCount, LiveCount DEF RoomLeft

-----------------------------------------------------------------------------
(* The invariant, action by action.                                        *)

LEMMA InitInv == Init => IInv
<1> SUFFICES ASSUME Init PROVE IInv
  OBVIOUS
<1>1. TypeOK
  BY CapAssumption DEF Init, TypeOK, Stages
<1>2. Reads
  BY DEF Init, Reads
<1>3. \A c : Wrong(c) = {}
  BY DEF Init, Wrong
<1>4. Issuing = {} /\ Live = {}
  BY DEF Init, Issuing, Live, Unused
<1>5. Counted
  BY <1>3, FS_EmptySet DEF Init, Counted
<1>6. GuessesCapped
  BY CapAssumption, RequestCount DEF Init, GuessesCapped
<1>7. RoomLeft
  BY <1>4, FS_EmptySet, CapAssumption, RequestCount DEF RoomLeft
<1>8. CodesBuyOnce
  BY DEF Init, CodesBuyOnce
<1> QED
  BY <1>1, <1>2, <1>5, <1>6, <1>7, <1>8 DEF IInv

LEMMA CountCodesInv ==
  ASSUME IInv, NEW r \in Requests, CountCodes(r)
  PROVE  IInv'
<1>1. TypeOK' /\ Reads' /\ CodesBuyOnce'
  BY DEF IInv, CountCodes, Go, codes, TypeOK, Stages, Reads, CodesBuyOnce
<1>2. Counted' /\ GuessesCapped'
  BY QuietGuesses DEF IInv, CountCodes, codes
<1>3. RoomLeft'
  <2>1. Issuing' = Issuing \cup {r}
    BY DEF IInv, CountCodes, Go, TypeOK, Issuing
  <2>2. r \notin Issuing
    BY DEF CountCodes, Issuing
  <2>3. Issuing \in SUBSET (Requests \ {r})
    BY <2>2 DEF Issuing
  <2>4. /\ IsFiniteSet(Requests \ {r})
        /\ Cardinality(Requests \ {r}) = Cardinality(Requests) - 1
    BY CapAssumption, FS_RemoveElement
  <2>5. Cardinality(Issuing) <= Cardinality(Requests) - 1
    BY <2>3, <2>4, FS_Subset
  <2>6. Cardinality(Issuing') = Cardinality(Issuing) + 1
    BY <2>1, <2>2, IssuingCount, FS_AddElement
  <2>7. Live' = Live
    BY DEF CountCodes, codes, Live, Unused
  <2>8. Cardinality(Live) < MaxActive
    BY DEF CountCodes
  <2> QED
    BY <2>5, <2>6, <2>7, <2>8, CapAssumption, RequestCount, IssuingCount, LiveCount
    DEF IInv, RoomLeft
<1> QED
  BY <1>1, <1>2, <1>3 DEF IInv

LEMMA IssueCodeInv ==
  ASSUME IInv, NEW r \in Requests, IssueCode(r)
  PROVE  IInv'
<1>0. issued \in Nat /\ issued + 1 \in 0..MaxCodes /\ expired \in 0..issued
  BY CapAssumption DEF IInv, TypeOK, IssueCode
<1>1. TypeOK'
  <2>1. found' \in [Requests -> 0..(issued + 1)]
    BY <1>0 DEF IInv, TypeOK, IssueCode
  <2> QED
    BY <1>0, <2>1 DEF IInv, IssueCode, Go, TypeOK, Stages
<1>2. Reads'
  BY <1>0 DEF IInv, IssueCode, Go, TypeOK, Reads
<1>3. CodesBuyOnce'
  BY DEF IInv, IssueCode, CodesBuyOnce
<1>4. Counted' /\ GuessesCapped'
  <2>1. \A q \in Requests \ {r} : found'[q] = found[q]
    BY DEF IInv, TypeOK, IssueCode
  <2> QED
    BY <2>1, QuietGuesses DEF IInv, IssueCode
<1>5. RoomLeft'
  <2>1. Issuing' = Issuing \ {r} /\ r \in Issuing
    BY DEF IInv, IssueCode, Go, TypeOK, Issuing
  <2>2. Cardinality(Issuing') = Cardinality(Issuing) - 1
    BY <2>1, IssuingCount, FS_RemoveElement
  <2>3. Live' = Live \cup {issued + 1} /\ issued + 1 \notin Live
    BY <1>0 DEF IInv, TypeOK, IssueCode, Live, Unused
  <2>4. Cardinality(Live') = Cardinality(Live) + 1
    BY <2>3, LiveCount, FS_AddElement DEF IInv
  <2> QED
    BY <2>2, <2>4, CapAssumption, RequestCount, IssuingCount, LiveCount
    DEF IInv, RoomLeft
<1> QED
  BY <1>1, <1>2, <1>3, <1>4, <1>5 DEF IInv

LEMMA SendCodeInv ==
  ASSUME IInv, NEW r \in Requests, SendCode(r)
  PROVE  IInv'
<1>0. used \subseteq used'
  BY DEF SendCode
<1>1. TypeOK'
  BY DEF IInv, SendCode, Finish, Go, TypeOK, Stages, Reads
<1>2. Reads'
  BY DEF IInv, SendCode, Finish, Go, TypeOK, Reads
<1>3. CodesBuyOnce'
  BY <1>0 DEF IInv, SendCode, CodesBuyOnce
<1>4. Counted' /\ GuessesCapped'
  BY <1>0, QuietGuesses DEF IInv, SendCode, Finish, TypeOK
<1>5. RoomLeft'
  BY <1>0, QuietRoom DEF IInv, SendCode, Finish
<1> QED
  BY <1>1, <1>2, <1>3, <1>4, <1>5 DEF IInv

LEMMA SubmitInv ==
  ASSUME IInv, NEW r \in Requests, NEW c \in Codes \cup {0}, NEW k \in Keys,
         Submit(r, c, k)
  PROVE  IInv'
<1>0. [code |-> c, key |-> k] \in Asks
  BY CapAssumption DEF Asks, Codes
<1>1. TypeOK'
  BY <1>0 DEF IInv, Submit, Go, codes, TypeOK, Stages
<1>2. Reads'
  BY <1>0 DEF IInv, Submit, Go, codes, TypeOK, Reads
<1>3. CodesBuyOnce'
  BY DEF IInv, Submit, codes, CodesBuyOnce
<1>4. Counted' /\ GuessesCapped'
  BY QuietGuesses DEF IInv, Submit, codes
<1>5. RoomLeft'
  BY QuietRoom DEF IInv, Submit, codes
<1> QED
  BY <1>1, <1>2, <1>3, <1>4, <1>5 DEF IInv

LEMMA LookUpKeyInv ==
  ASSUME IInv, NEW r \in Requests, LookUpKey(r)
  PROVE  IInv'
<1>0. PICK s \in {"idle", "keyed"} :
        /\ Go(r, s)
        /\ s = "keyed" => UNCHANGED <<ask, found>>
        /\ s = "idle" => ask' = [ask EXCEPT ![r] = Nothing] /\ found' = [found EXCEPT ![r] = 0]
  BY DEF LookUpKey, Finish
<1>1. TypeOK'
  BY <1>0 DEF IInv, LookUpKey, Go, codes, TypeOK, Stages
<1>2. Reads'
  BY <1>0 DEF IInv, LookUpKey, Go, codes, TypeOK, Reads
<1>3. CodesBuyOnce'
  BY DEF IInv, LookUpKey, codes, CodesBuyOnce
<1>4. Counted' /\ GuessesCapped'
  <2>1. \A q \in Requests \ {r} : found'[q] = found[q]
    BY <1>0 DEF IInv, TypeOK
  <2> QED
    BY <1>0, <2>1, QuietGuesses DEF IInv, LookUpKey, codes
<1>5. RoomLeft'
  BY <1>0, QuietRoom DEF IInv, LookUpKey, codes
<1> QED
  BY <1>1, <1>2, <1>3, <1>4, <1>5 DEF IInv

LEMMA CheckCodeInv ==
  ASSUME IInv, NEW r \in Requests, CheckCode(r)
  PROVE  IInv'
<1>0. PICK c \in Codes :
        /\ IsNewest(c) /\ IsUsable(c)
        /\ found' = [found EXCEPT ![r] = c]
        /\ IF ask[r].code = c THEN Go(r, "right") /\ UNCHANGED guesses
           ELSE Go(r, "wrong") /\ guesses' = [guesses EXCEPT ![c] = @ + 1]
  BY DEF CheckCode
<1>1. /\ c \in 1..issued /\ c \notin used /\ attempts[c] < MaxAttempts
      /\ attempts[c] \in Nat /\ guesses[c] \in Nat /\ guesses[c] + 1 \in Nat
  BY <1>0 DEF IInv, TypeOK, IsNewest, IsUsable, Unused
<1>2. /\ stage[r] = "keyed"
      /\ UNCHANGED <<status, issued, expired, used, attempts, proofs, ask>>
  BY DEF CheckCode, codes
<1>3. PICK s \in {"right", "wrong"} : Go(r, s)
  BY <1>0
<1>4. guesses' \in [Codes -> Nat] /\ \A d \in Codes : guesses'[d] >= guesses[d]
  BY <1>0, <1>1 DEF IInv, TypeOK
<1>5. TypeOK'
  <2>1. found' \in [Requests -> 0..issued]
    BY <1>0, <1>1 DEF IInv, TypeOK
  <2>2. \A d \in Codes : attempts[d] <= guesses'[d]
    BY <1>4 DEF IInv, TypeOK
  <2> QED
    BY <1>2, <1>3, <1>4, <2>1, <2>2 DEF IInv, Go, TypeOK, Stages
<1>6. Reads'
  BY <1>0, <1>1, <1>2, <1>3 DEF IInv, Go, TypeOK, Reads
<1>7. CodesBuyOnce'
  BY <1>2 DEF IInv, CodesBuyOnce
<1>8. Counted' /\ GuessesCapped'
  <2>1. CASE ask[r].code = c
    <3>1. Go(r, "right") /\ guesses' = guesses
      BY <1>0, <2>1
    <3>2. \A q \in Requests \ {r} : found'[q] = found[q]
      BY <1>0 DEF IInv, TypeOK
    <3> QED
      BY <1>2, <3>1, <3>2, QuietGuesses DEF IInv
  <2>2. CASE ask[r].code # c
    <3>1. Go(r, "wrong") /\ guesses' = [guesses EXCEPT ![c] = @ + 1]
      BY <1>0, <2>2
    <3>2. \A d : Cardinality(Wrong(d)') =
                   IF d = c THEN Cardinality(Wrong(d)) + 1 ELSE Cardinality(Wrong(d))
      BY <1>0, <1>2, <3>1, MoreWrong DEF IInv
    <3>3. Counted'
      <4> SUFFICES ASSUME NEW d \in Codes
                   PROVE  /\ guesses'[d] >= attempts'[d] + Cardinality(Wrong(d)')
                          /\ d \notin used' =>
                               guesses'[d] <= attempts'[d] + Cardinality(Wrong(d)')
        BY DEF Counted
      <4>1. guesses'[d] = IF d = c THEN guesses[d] + 1 ELSE guesses[d]
        BY <3>1 DEF IInv, TypeOK
      <4>2. attempts[d] \in Nat /\ guesses[d] \in Nat
        BY DEF IInv, TypeOK
      <4> QED
        BY <1>2, <3>2, <4>1, <4>2, WrongCount DEF IInv, Counted
    <3>4. GuessesCapped'
      <4>1. Wrong(c) \in SUBSET (Requests \ {r})
        BY <1>2 DEF Wrong
      <4>2. /\ IsFiniteSet(Requests \ {r})
            /\ Cardinality(Requests \ {r}) = Cardinality(Requests) - 1
        BY CapAssumption, FS_RemoveElement
      <4>3. Cardinality(Wrong(c)) <= Cardinality(Requests) - 1
        BY <4>1, <4>2, FS_Subset
      <4>4. guesses[c] <= attempts[c] + Cardinality(Wrong(c))
        BY <1>1 DEF IInv, Counted
      <4>5. guesses[c] + 1 <= MaxAttempts + (Cardinality(Requests) - 1)
        BY <1>1, <4>3, <4>4, WrongCount, RequestCount, CapAssumption
      <4> QED
        BY <3>1, <4>5 DEF IInv, TypeOK, GuessesCapped
    <3> QED
      BY <3>3, <3>4
  <2> QED
    BY <2>1, <2>2
<1>9. RoomLeft'
  BY <1>2, <1>3, QuietRoom DEF IInv
<1> QED
  BY <1>5, <1>6, <1>7, <1>8, <1>9 DEF IInv

LEMMA RegisterAttemptInv ==
  ASSUME IInv, NEW r \in Requests, RegisterAttempt(r)
  PROVE  IInv'
<1>0. /\ stage[r] = "wrong" /\ Finish(r)
      /\ attempts' = IF found[r] \in used THEN attempts
                      ELSE [attempts EXCEPT ![found[r]] = @ + 1]
      /\ UNCHANGED <<status, issued, expired, used, proofs, guesses>>
  BY DEF RegisterAttempt
<1>1. found[r] \in 1..issued /\ found[r] \in Codes
  <2>1. found[r] \in 1..issued
    BY <1>0 DEF IInv, Reads
  <2> QED
    BY <2>1, IssuedAreCodes DEF IInv
<1>2. attempts' \in [Codes -> Nat]
  BY <1>0, <1>1 DEF IInv, TypeOK
<1>3. Counted'
  <2> SUFFICES ASSUME NEW d \in Codes
               PROVE  /\ guesses'[d] >= attempts'[d] + Cardinality(Wrong(d)')
                      /\ d \notin used' =>
                           guesses'[d] <= attempts'[d] + Cardinality(Wrong(d)')
    BY DEF Counted
  <2>1. Cardinality(Wrong(d)') =
          IF d = found[r] THEN Cardinality(Wrong(d)) - 1 ELSE Cardinality(Wrong(d))
    BY <1>0, LessWrong DEF IInv
  <2>2. attempts'[d] =
          IF d = found[r] /\ d \notin used THEN attempts[d] + 1 ELSE attempts[d]
    BY <1>0, <1>1 DEF IInv, TypeOK
  <2>3. attempts[d] \in Nat /\ guesses[d] \in Nat
    BY DEF IInv, TypeOK
  <2> QED
    BY <1>0, <2>1, <2>2, <2>3, WrongCount DEF IInv, Counted
<1>4. TypeOK'
  <2>1. \A d \in Codes : attempts'[d] <= guesses'[d]
    <3> SUFFICES ASSUME NEW d \in Codes PROVE attempts'[d] <= guesses'[d]
      OBVIOUS
    <3>1. Wrong(d)' \in SUBSET Requests
      BY DEF Wrong
    <3>2. Cardinality(Wrong(d)') \in Nat
      BY <3>1, CapAssumption, FS_Subset, FS_CardinalityType
    <3>3. guesses'[d] >= attempts'[d] + Cardinality(Wrong(d)')
      BY <1>3 DEF Counted
    <3>4. attempts'[d] \in Nat /\ guesses'[d] \in Nat
      BY <1>0, <1>2 DEF IInv, TypeOK
    <3> QED
      BY <3>2, <3>3, <3>4
  <2> QED
    BY <1>0, <1>2, <2>1 DEF IInv, Finish, Go, TypeOK, Stages
<1>5. Reads'
  BY <1>0 DEF IInv, Finish, Go, TypeOK, Reads
<1>6. CodesBuyOnce' /\ GuessesCapped'
  BY <1>0 DEF IInv, CodesBuyOnce, GuessesCapped
<1>7. RoomLeft'
  BY <1>0, QuietRoom DEF IInv, Finish
<1> QED
  BY <1>3, <1>4, <1>5, <1>6, <1>7 DEF IInv

LEMMA ResubmitInv ==
  ASSUME IInv, NEW r \in Requests, Resubmit(r)
  PROVE  IInv'
<1>0. /\ stage[r] = "right" /\ Finish(r) /\ found[r] \notin used
      /\ \A p \in proofs : p.key # ask[r].key
      /\ status' = "PAYMENT_PENDING"
      /\ used' = used \cup {found[r]}
      /\ proofs' = proofs \cup {[key |-> ask[r].key, code |-> found[r]]}
      /\ UNCHANGED <<issued, expired, attempts, guesses>>
  BY DEF Resubmit
<1>1. found[r] \in 1..issued /\ found[r] \in Codes /\ ask[r].key \in Keys
  <2>1. found[r] \in 1..issued
    BY <1>0 DEF IInv, Reads
  <2>2. found[r] \in Codes
    BY <2>1, IssuedAreCodes DEF IInv
  <2>3. ask[r] \in Asks
    BY <1>0 DEF IInv, Reads
  <2> QED
    BY <2>1, <2>2, <2>3 DEF Asks
<1>2. TypeOK'
  <2>1. proofs' \subseteq [key : Keys, code : Codes]
    BY <1>0, <1>1 DEF IInv, TypeOK
  <2>2. used' \subseteq 1..issued
    BY <1>0, <1>1 DEF IInv, TypeOK
  <2>3. found' \in [Requests -> 0..issued]
    BY <1>0 DEF IInv, TypeOK, Finish
  <2> QED
    BY <1>0, <2>1, <2>2, <2>3 DEF IInv, Finish, Go, TypeOK, Stages
<1>3. Reads'
  BY <1>0 DEF IInv, Finish, Go, TypeOK, Reads
<1>4. CodesBuyOnce'
  BY <1>0 DEF IInv, CodesBuyOnce
<1>5. Counted' /\ GuessesCapped'
  BY <1>0, QuietGuesses DEF IInv, Finish, TypeOK
<1>6. RoomLeft'
  BY <1>0, QuietRoom DEF IInv, Finish
<1> QED
  BY <1>2, <1>3, <1>4, <1>5, <1>6 DEF IInv

LEMMA EndInv ==
  ASSUME IInv, NEW r \in Requests, End(r)
  PROVE  IInv'
<1>0. /\ Finish(r)
      /\ guesses' = IF stage[r] = "wrong" THEN [guesses EXCEPT ![found[r]] = @ - 1]
                     ELSE guesses
      /\ UNCHANGED <<status, issued, expired, used, attempts, proofs>>
  BY DEF End, codes
<1>1. Reads' /\ CodesBuyOnce'
  BY <1>0 DEF IInv, Finish, Go, TypeOK, Reads, CodesBuyOnce
<1>2. RoomLeft'
  BY <1>0, QuietRoom DEF IInv, Finish
<1>3. CASE stage[r] # "wrong"
  <2>1. TypeOK'
    BY <1>0, <1>3 DEF IInv, Finish, Go, TypeOK, Stages
  <2>2. Counted' /\ GuessesCapped'
    BY <1>0, <1>3, QuietGuesses DEF IInv, Finish, TypeOK
  <2> QED
    BY <1>1, <1>2, <2>1, <2>2 DEF IInv
<1>4. CASE stage[r] = "wrong"
  <2>1. found[r] \in Codes
    <3>1. found[r] \in 1..issued
      BY <1>4 DEF IInv, Reads
    <3> QED
      BY <3>1, IssuedAreCodes DEF IInv
  <2>2. r \in Wrong(found[r])
    BY <1>4 DEF Wrong
  <2>3. Cardinality(Wrong(found[r])) >= 1
    BY <2>2, WrongCount, FS_EmptySet
  <2>4. \A d \in Codes :
          /\ guesses'[d] = IF d = found[r] THEN guesses[d] - 1 ELSE guesses[d]
          /\ attempts'[d] = attempts[d] /\ attempts[d] \in Nat /\ guesses[d] \in Nat
    BY <1>0, <1>4, <2>1 DEF IInv, TypeOK
  <2>5. \A d : Cardinality(Wrong(d)') =
                 IF d = found[r] THEN Cardinality(Wrong(d)) - 1 ELSE Cardinality(Wrong(d))
    BY <1>0, <1>4, LessWrong DEF IInv
  <2>6. \A d \in Codes :
          /\ guesses[d] >= attempts[d] + Cardinality(Wrong(d))
          /\ d \notin used => guesses[d] <= attempts[d] + Cardinality(Wrong(d))
    BY DEF IInv, Counted
  <2>7. ASSUME NEW d \in Codes
        PROVE  /\ guesses'[d] \in Nat /\ guesses'[d] <= guesses[d]
               /\ attempts[d] <= guesses'[d]
               /\ guesses'[d] >= attempts'[d] + Cardinality(Wrong(d)')
               /\ d \notin used' => guesses'[d] <= attempts'[d] + Cardinality(Wrong(d)')
    BY <1>0, <2>3, <2>4, <2>5, <2>6, WrongCount
  <2>8. Counted'
    BY <2>7 DEF Counted
  <2>9. GuessesCapped'
    BY <2>4, <2>7, CapAssumption, RequestCount DEF IInv, GuessesCapped
  <2>10. guesses' \in [Codes -> Nat]
    BY <1>0, <1>4, <2>7 DEF IInv, TypeOK
  <2>11. TypeOK'
    BY <1>0, <2>7, <2>10 DEF IInv, Finish, Go, TypeOK, Stages
  <2> QED
    BY <1>1, <1>2, <2>8, <2>9, <2>11 DEF IInv
<1> QED
  BY <1>3, <1>4

\* A decision by the owner changes nothing that is counted.
LEMMA OwnerDecidesInv ==
  ASSUME IInv, OwnerDecides
  PROVE  IInv'
<1>1. UNCHANGED <<issued, expired, used, attempts, proofs, stage, ask, found, guesses>>
  BY DEF OwnerDecides, codes
<1>2. TypeOK'
  BY <1>1 DEF IInv, OwnerDecides, TypeOK
<1>3. Wrong(0)' = Wrong(0) /\ \A c : Wrong(c)' = Wrong(c)
  BY <1>1 DEF Wrong
<1>4. Counted'
  BY <1>1, <1>3 DEF IInv, Counted
<1> QED
  BY <1>1, <1>2, <1>4
  DEF IInv, Reads, GuessesCapped, RoomLeft, Live, Unused, Issuing, CodesBuyOnce

LEMMA ExpireInv ==
  ASSUME IInv, Expire
  PROVE  IInv'
<1>1. /\ UNCHANGED <<status, issued, used, attempts, proofs, stage, ask, found, guesses>>
      /\ expired' = expired + 1 /\ expired < issued
  BY DEF Expire
<1>2. TypeOK'
  BY <1>1 DEF IInv, TypeOK
<1>3. \A c : Wrong(c)' = Wrong(c)
  BY <1>1 DEF Wrong
<1>4. Counted'
  BY <1>1, <1>3 DEF IInv, Counted
<1>5. RoomLeft'
  <2>1. /\ Cardinality(Live') \in Nat
        /\ Cardinality(Live') <= Cardinality(Live)
    BY <1>1, NoMoreLive DEF IInv
  <2>2. Issuing' = Issuing
    BY <1>1 DEF Issuing
  <2>3. MaxActive \in Nat
    BY CapAssumption
  <2> QED
    BY <2>1, <2>2, <2>3, RequestCount, IssuingCount, LiveCount DEF IInv, RoomLeft
<1> QED
  BY <1>1, <1>2, <1>4, <1>5 DEF IInv, Reads, GuessesCapped, CodesBuyOnce

LEMMA StepInv == IInv /\ [Next]_vars => IInv'
<1> SUFFICES ASSUME IInv, [Next]_vars PROVE IInv'
  OBVIOUS
<1>1. CASE UNCHANGED vars
  <2>1. \A c : Wrong(c)' = Wrong(c)
    BY <1>1 DEF vars, Wrong
  <2>2. Counted'
    BY <1>1, <2>1 DEF vars, codes, IInv, Counted
  <2> QED
    BY <1>1, <2>2 DEF vars, codes, IInv, TypeOK, Reads, GuessesCapped, RoomLeft, Live,
                      Unused, Issuing, CodesBuyOnce
<1>2. ASSUME NEW r \in Requests,
             \/ CountCodes(r) \/ IssueCode(r) \/ SendCode(r)
             \/ \E c \in Codes \cup {0}, k \in Keys : Submit(r, c, k)
             \/ LookUpKey(r) \/ CheckCode(r) \/ RegisterAttempt(r) \/ Resubmit(r) \/ End(r)
      PROVE  IInv'
  BY <1>2, CountCodesInv, IssueCodeInv, SendCodeInv, SubmitInv, LookUpKeyInv,
     CheckCodeInv, RegisterAttemptInv, ResubmitInv, EndInv
<1>3. CASE OwnerDecides
  BY <1>3, OwnerDecidesInv
<1>4. CASE Expire
  BY <1>4, ExpireInv
<1> QED
  BY <1>1, <1>2, <1>3, <1>4 DEF Next

LEMMA Invariance == Spec => []IInv
BY InitInv, StepInv, PTL DEF Spec

-----------------------------------------------------------------------------
\* The types; no code is charged with more attempts than it was compared with.
THEOREM TypeCorrect == Spec => []TypeOK
<1>1. IInv => TypeOK
  BY DEF IInv
<1> QED
  BY <1>1, Invariance, PTL

\* markUsed and the unique submission key inside the transaction of resubmit: a
\* code is spent once, a key makes one proof, however resubmissions overlap.
THEOREM BuyOnce == Spec => []CodesBuyOnce
<1>1. IInv => CodesBuyOnce
  BY DEF IInv
<1> QED
  BY <1>1, Invariance, PTL

\* MAX_ATTEMPTS and MAX_ACTIVE_CODES are compared with copies, and are exceeded by
\* one less than the number of requests at most, however long that goes on.
THEOREM Capped == Spec => []CapsHold
<1>1. IInv => CapsHold
  <2> SUFFICES ASSUME IInv PROVE LiveCodesCapped
    BY DEF IInv, CapsHold
  <2> QED
    BY IssuingCount, LiveCount, RequestCount, CapAssumption
    DEF IInv, RoomLeft, LiveCodesCapped
<1> QED
  BY <1>1, Invariance, PTL
=============================================================================
