--------------------------- MODULE TelegramProofs ---------------------------
(***************************************************************************)
(* Proofs about module Telegram, for any numbers of updates, chats,        *)
(* bookings and codes.                                                     *)
(*                                                                         *)
(* A used button is a token that is in one place at a time: in the hand of *)
(* the update that is dealing with it, in a chat's memory, in a call made, *)
(* or forgotten (Tokens).  Whoever holds it was sent from a chat that the  *)
(* button's connection had after a tap on it (Welcomed).                   *)
(***************************************************************************)
EXTENDS Telegram, FiniteSetTheorems, TLAPS

Said == Taps \cup Texts \cup Starts \cup {Unsaid}
Stages == Busy \cup {"unsent", "sent", "done"}

Types ==
  /\ says \in [Updates -> Said]
  /\ stage \in [Updates -> Stages]
  /\ holds \in [Updates -> SUBSET Buttons]
  /\ code \in [Codes -> CodeStates]
  /\ chat \in [Codes -> SUBSET Chats]
  /\ row \in [Updates -> SUBSET Codes]
  /\ button \in [Buttons -> {"NONE", "OPEN", "USED"}]
  /\ pending \in [Chats -> SUBSET Buttons]
  /\ old \subseteq Chats
  /\ calls \subseteq [button : Buttons, update : Updates]
  /\ welcome \subseteq Updates \X Codes
  /\ forgotten \subseteq Buttons

\* A connection has one chat at a time, a chat one rejection to remember, and an
\* update one to make.
Singles ==
  /\ \A c \in Codes : \A g, h \in chat[c] : g = h
  /\ \A c \in Chats : \A x, y \in pending[c] : x = y
  /\ \A u \in Updates : \A x, y \in holds[u] : x = y

\* What an update says decides what is done about it.
Fits ==
  \A u \in Updates :
    /\ stage[u] = "unsent" <=> says[u] = Unsaid
    /\ stage[u] \in {"claiming", "accepting", "prompting"} => says[u] \in Taps
    /\ stage[u] = "prompting" => says[u].button.action = "reject"
    /\ stage[u] \in {"redeeming", "binding"} => says[u] \in Starts
    /\ stage[u] = "rejecting" => says[u] \in Texts
    /\ holds[u] # {} => stage[u] = "rejecting"

TInv == Types /\ Singles /\ Fits

-----------------------------------------------------------------------------
\* What is said is of the kind it names.
LEMMA KindTells ==
  ASSUME NEW m \in Said
  PROVE  /\ m.kind = "tap" => m \in Taps
         /\ m.kind = "text" => m \in Texts
         /\ m.kind = "start" => m \in Starts
         /\ m \in Taps \cup Texts \cup Starts => m # Unsaid
BY DEF Said, Taps, Texts, Starts, Unsaid

LEMMA Parts ==
  /\ \A m \in Taps : m.chat \in Chats /\ m.button \in Buttons
  /\ \A m \in Texts : m.chat \in Chats
  /\ \A m \in Starts : m.chat \in Chats /\ m.code \in Codes
  /\ \A x \in Buttons : x.connection \in Codes /\ x.action \in {"accept", "reject"}
BY DEF Taps, Texts, Starts, Buttons

\* An update that moves on, with nothing in its hands.
LEMMA MovesOn ==
  ASSUME TInv, NEW u \in Updates, NEW s \in Stages \ {"unsent", "rejecting"},
         stage[u] # "unsent", stage[u] # "rejecting", Go(u, s),
         s \in {"claiming", "accepting", "prompting"} => says[u] \in Taps,
         s = "prompting" => says[u].button.action = "reject",
         s \in {"redeeming", "binding"} => says[u] \in Starts,
         UNCHANGED <<says, holds>>
  PROVE  stage' \in [Updates -> Stages] /\ Fits'
<1>1. stage' \in [Updates -> Stages]
  BY DEF TInv, Types, Go
<1>2. ASSUME NEW v \in Updates, v # u PROVE stage'[v] = stage[v]
  BY <1>2 DEF TInv, Types, Go
<1>3. stage'[u] = s /\ holds[u] = {} /\ says[u] # Unsaid
  BY DEF TInv, Types, Fits, Go
<1> QED
  BY <1>1, <1>2, <1>3 DEF TInv, Fits

LEMMA ConnectingTypes ==
  ASSUME TInv, NEW u \in Updates,
         ReadCode(u) \/ FindConnection(u) \/ Bind(u)
  PROVE  TInv'
<1>1. CASE ReadCode(u)
  <2>1. says[u] \in Starts /\ says[u].code \in Codes
    BY <1>1, KindTells, Parts DEF ReadCode, Is, TInv, Types
  <2>2. stage' \in [Updates -> Stages] /\ Fits'
    BY <1>1, <2>1, MovesOn DEF ReadCode, Is, Stages, Busy
  <2>3. code' \in [Codes -> CodeStates]
    BY <1>1, <2>1 DEF ReadCode, TInv, Types, CodeStates
  <2> QED
    BY <1>1, <2>2, <2>3 DEF ReadCode, TInv, Types, Singles, memory, history
<1>2. CASE FindConnection(u)
  <2>1. stage' \in [Updates -> Stages] /\ Fits'
    BY <1>2, MovesOn DEF FindConnection, Stages, Busy, TInv, Fits
  <2>2. row' \in [Updates -> SUBSET Codes]
    BY <1>2 DEF FindConnection, TInv, Types, Connected
  <2> QED
    BY <1>2, <2>1, <2>2 DEF FindConnection, TInv, Types, Singles, memory, history
<1>3. CASE Bind(u)
  <2>1. says[u] \in Starts /\ says[u].chat \in Chats /\ says[u].code \in Codes
    BY <1>3, Parts DEF Bind, TInv, Fits
  <2>2. stage' \in [Updates -> Stages] /\ Fits'
    BY <1>3, MovesOn DEF Bind, Stages, Busy
  <2>3. code' \in [Codes -> CodeStates] /\ row' \in [Updates -> SUBSET Codes]
    BY <1>3, <2>1 DEF Bind, TInv, Types, CodeStates
  <2> DEFINE found == IF row[u] = {} THEN {says[u].code} ELSE row[u]
  <2>0. found \subseteq Codes
    BY <2>1 DEF TInv, Types
  <2>4. PICK n \in found :
          /\ chat' = [chat EXCEPT ![n] = {says[u].chat}]
          /\ welcome' = welcome \cup
               {<<v, n>> : v \in {w \in Updates : /\ stage[w] \in {"sent", "taken"}
                                                 /\ says[w].chat = says[u].chat}}
    BY <1>3 DEF Bind
  <2> HIDE DEF found
  <2>5. chat' \in [Codes -> SUBSET Chats]
    BY <2>0, <2>1, <2>4 DEF TInv, Types
  <2>6. \A c \in Codes : \A g, h \in chat'[c] : g = h
    BY <2>4 DEF TInv, Types, Singles
  <2>7. welcome' \subseteq Updates \X Codes
    BY <2>0, <2>4 DEF TInv, Types
  <2> QED
    BY <1>3, <2>2, <2>3, <2>5, <2>6, <2>7 DEF Bind, TInv, Types, Singles, memory
<1> QED
  BY <1>1, <1>2, <1>3

LEMMA ButtonTypes ==
  ASSUME TInv, NEW u \in Updates,
         ReadButton(u) \/ Claim(u) \/ Accept(u) \/ Prompt(u)
  PROVE  TInv'
<1>1. CASE ReadButton(u)
  <2>1. says[u] \in Taps
    BY <1>1, KindTells DEF ReadButton, Is, TInv, Types
  <2>2. stage' \in [Updates -> Stages] /\ Fits'
    BY <1>1, <2>1, MovesOn DEF ReadButton, Is, Stages, Busy
  <2> QED
    BY <1>1, <2>2 DEF ReadButton, TInv, Types, Singles, connection, memory, history
<1>2. CASE Claim(u)
  <2>1. says[u] \in Taps /\ says[u].button.action \in {"accept", "reject"}
    BY <1>2, Parts DEF Claim, TInv, Fits
  <2>2. stage' \in [Updates -> Stages] /\ Fits'
    BY <1>2, <2>1, MovesOn DEF Claim, Stages, Busy
  <2>3. button' \in [Buttons -> {"NONE", "OPEN", "USED"}]
    BY <1>2 DEF Claim, TInv, Types
  <2> QED
    BY <1>2, <2>2, <2>3 DEF Claim, TInv, Types, Singles, connection, memory, history
<1>3. CASE Accept(u)
  <2>1. says[u].button \in Buttons
    BY <1>3, Parts DEF Accept, TInv, Fits
  <2>2. stage' \in [Updates -> Stages] /\ Fits'
    BY <1>3, MovesOn DEF Accept, Stages, Busy
  <2>3. calls' \subseteq [button : Buttons, update : Updates]
    BY <1>3, <2>1 DEF Accept, Call, TInv, Types
  <2> QED
    BY <1>3, <2>2, <2>3 DEF Accept, TInv, Types, Singles, connection, memory
<1>4. CASE Prompt(u)
  <2>1. says[u].button \in Buttons /\ says[u].chat \in Chats
    BY <1>4, Parts DEF Prompt, TInv, Fits
  <2>2. stage' \in [Updates -> Stages] /\ Fits'
    BY <1>4, MovesOn DEF Prompt, Stages, Busy
  <2>3. /\ pending' \in [Chats -> SUBSET Buttons] /\ old' \subseteq Chats
        /\ \A c \in Chats : \A x, y \in pending'[c] : x = y
        /\ forgotten' \subseteq Buttons
    BY <1>4, <2>1 DEF Prompt, TInv, Types, Singles
  <2> QED
    BY <1>4, <2>2, <2>3 DEF Prompt, TInv, Types, Singles, connection
<1> QED
  BY <1>1, <1>2, <1>3, <1>4

LEMMA ReasonTypes ==
  ASSUME TInv, NEW u \in Updates,
         TakeOldPrompt(u) \/ TakePrompt(u) \/ Reject(u)
  PROVE  TInv'
<1>1. CASE TakeOldPrompt(u)
  <2>1. says[u] \in Texts /\ says[u].chat \in Chats
    BY <1>1, KindTells, Parts DEF TakeOldPrompt, Is, TInv, Types
  <2>2. stage' \in [Updates -> Stages] /\ Fits'
    BY <1>1, MovesOn DEF TakeOldPrompt, Is, Stages, Busy
  <2>3. /\ pending' \in [Chats -> SUBSET Buttons] /\ old' \subseteq Chats
        /\ \A c \in Chats : \A x, y \in pending'[c] : x = y
        /\ forgotten' \subseteq Buttons
    BY <1>1, <2>1 DEF TakeOldPrompt, TInv, Types, Singles
  <2> QED
    BY <1>1, <2>2, <2>3 DEF TakeOldPrompt, TInv, Types, Singles, connection
<1>2. CASE TakePrompt(u)
  <2>1. says[u] \in Texts /\ says[u].chat \in Chats
    BY <1>2, KindTells, Parts DEF TakePrompt, Is, TInv, Types
  <2>2. stage' \in [Updates -> Stages] /\ stage'[u] = "rejecting"
    BY <1>2 DEF TakePrompt, Go, TInv, Types, Stages, Busy
  <2>3. /\ holds' \in [Updates -> SUBSET Buttons]
        /\ \A v \in Updates : \A x, y \in holds'[v] : x = y
    BY <1>2, <2>1 DEF TakePrompt, TInv, Types, Singles
  <2>4. \A v \in Updates \ {u} : stage'[v] = stage[v] /\ holds'[v] = holds[v]
    BY <1>2 DEF TakePrompt, Go, TInv, Types
  <2>5. says[u] # Unsaid /\ UNCHANGED says
    BY <1>2, <2>1, KindTells DEF TakePrompt, TInv, Types
  <2>6. Fits'
    BY <2>1, <2>2, <2>4, <2>5 DEF TInv, Fits
  <2>7. /\ pending' \in [Chats -> SUBSET Buttons]
        /\ \A c \in Chats : \A x, y \in pending'[c] : x = y
    BY <1>2, <2>1 DEF TakePrompt, TInv, Types, Singles
  <2> QED
    BY <1>2, <2>2, <2>3, <2>6, <2>7
    DEF TakePrompt, TInv, Types, Singles, connection, history
<1>3. CASE Reject(u)
  <2>1. stage' \in [Updates -> Stages] /\ stage'[u] = "done"
    BY <1>3 DEF Reject, Go, TInv, Types, Stages
  <2>2. /\ holds' \in [Updates -> SUBSET Buttons] /\ holds'[u] = {}
        /\ \A v \in Updates : \A x, y \in holds'[v] : x = y
    BY <1>3 DEF Reject, TInv, Types, Singles
  <2>3. \A v \in Updates \ {u} : stage'[v] = stage[v] /\ holds'[v] = holds[v]
    BY <1>3 DEF Reject, Go, TInv, Types
  <2>4. says[u] # Unsaid /\ UNCHANGED says
    BY <1>3 DEF Reject, TInv, Fits
  <2>5. Fits'
    BY <2>1, <2>2, <2>3, <2>4 DEF TInv, Fits
  <2>6. calls' \subseteq [button : Buttons, update : Updates]
    BY <1>3 DEF Reject, Call, TInv, Types
  <2> QED
    BY <1>3, <2>1, <2>2, <2>5, <2>6 DEF Reject, TInv, Types, Singles, connection, memory
<1> QED
  BY <1>1, <1>2, <1>3

LEMMA OtherTypes ==
  ASSUME TInv,
         \/ \E u \in Updates : \/ \E m \in Taps \cup Texts \cup Starts : Send(u, m)
                               \/ Deliver(u) \/ Stop(u)
         \/ \E c \in Codes : AskForCode(c) \/ ExpireCodes(c) \/ IssueCode(c)
         \/ \E b \in Bookings : Publish(b)
         \/ \E c \in Chats : PromptGrowsOld(c)
         \/ Restart \/ UNCHANGED vars
  PROVE  TInv'
<1>1. ASSUME NEW u \in Updates, NEW m \in Taps \cup Texts \cup Starts, Send(u, m)
      PROVE  TInv'
  <2>1. m \in Said /\ m # Unsaid
    BY KindTells DEF Said
  <2>2. says' \in [Updates -> Said] /\ stage' \in [Updates -> Stages]
    BY <1>1, <2>1 DEF Send, Go, TInv, Types, Stages
  <2>3. /\ says'[u] = m /\ stage'[u] = "sent" /\ holds[u] = {}
        /\ \A v \in Updates \ {u} : stage'[v] = stage[v] /\ says'[v] = says[v]
    BY <1>1 DEF Send, Go, TInv, Types, Fits
  <2>4. Fits' /\ UNCHANGED holds
    BY <1>1, <2>1, <2>3 DEF Send, TInv, Fits
  <2>5. welcome' \subseteq Updates \X Codes
    BY <1>1 DEF Send, TInv, Types
  <2> QED
    BY <1>1, <2>2, <2>4, <2>5 DEF Send, TInv, Types, Singles, connection, memory
<1>2. ASSUME NEW u \in Updates, Deliver(u)
      PROVE  TInv'
  <2>1. stage' \in [Updates -> Stages] /\ Fits'
    BY <1>2, MovesOn DEF Deliver, Stages, Busy
  <2> QED
    BY <1>2, <2>1 DEF Deliver, TInv, Types, Singles, connection, memory, history
<1>3. ASSUME NEW u \in Updates, Stop(u)
      PROVE  TInv'
  <2>1. stage' \in [Updates -> Stages] /\ stage'[u] = "done" /\ stage[u] # "unsent"
    BY <1>3 DEF Stop, Go, TInv, Types, Stages, Busy
  <2>2. /\ holds' \in [Updates -> SUBSET Buttons] /\ holds'[u] = {}
        /\ \A v \in Updates : \A x, y \in holds'[v] : x = y
        /\ row' \in [Updates -> SUBSET Codes]
    BY <1>3 DEF Stop, TInv, Types, Singles
  <2>3. \A v \in Updates \ {u} : stage'[v] = stage[v] /\ holds'[v] = holds[v]
    BY <1>3 DEF Stop, Go, TInv, Types
  <2>4. Fits'
    BY <1>3, <2>1, <2>2, <2>3 DEF Stop, TInv, Fits
  <2>5. InHand(u) \subseteq Buttons
    BY Parts DEF InHand, TInv, Types, Fits
  <2>6. forgotten' \subseteq Buttons
    BY <1>3, <2>5 DEF Stop, TInv, Types
  <2> QED
    BY <1>3, <2>1, <2>2, <2>4, <2>6 DEF Stop, TInv, Types, Singles, memory
<1>4. ASSUME NEW c \in Codes, AskForCode(c) \/ ExpireCodes(c) \/ IssueCode(c)
      PROVE  TInv'
  <2>1. code' \in [Codes -> CodeStates]
    BY <1>4 DEF AskForCode, ExpireCodes, IssueCode, TInv, Types, CodeStates, Requested
  <2>2. UNCHANGED <<says, stage, holds, chat, row, button, memory, history>>
    BY <1>4 DEF AskForCode, ExpireCodes, IssueCode
  <2> QED
    BY <2>1, <2>2 DEF TInv, Types, Singles, Fits, memory, history
<1>5. ASSUME NEW b \in Bookings, Publish(b)
      PROVE  TInv'
  <2>1. button' \in [Buttons -> {"NONE", "OPEN", "USED"}]
    BY <1>5 DEF Publish, TInv, Types
  <2> QED
    BY <1>5, <2>1 DEF Publish, TInv, Types, Singles, Fits, connection, memory, history
<1>6. ASSUME NEW c \in Chats, PromptGrowsOld(c)
      PROVE  TInv'
  BY <1>6 DEF PromptGrowsOld, TInv, Types, Singles, Fits, connection, history
<1>7. CASE Restart
  <2>1. /\ stage' \in [Updates -> Stages]
        /\ \A u \in Updates :
             /\ stage'[u] \in {"unsent", "sent", "done"}
             /\ stage'[u] = "unsent" <=> stage[u] = "unsent"
    BY <1>7 DEF Restart, TInv, Types, Stages, Busy
  <2>2. /\ holds' = [u \in Updates |-> {}] /\ row' = [u \in Updates |-> {}]
        /\ pending' = [c \in Chats |-> {}] /\ old' = {}
        /\ UNCHANGED <<says, code, chat, button, calls, welcome>>
    BY <1>7 DEF Restart
  <2>3. Fits'
    BY <2>1, <2>2 DEF TInv, Fits
  <2>4. \A u \in Updates : InHand(u) \subseteq Buttons
    BY Parts DEF InHand, TInv, Types, Fits
  <2> DEFINE inHands == UNION {InHand(u) : u \in Updates}
             inMemory == UNION {pending[c] : c \in Chats}
  <2>5. inHands \subseteq Buttons
    BY <2>4
  <2>6. inMemory \subseteq Buttons
    BY DEF TInv, Types
  <2>7. forgotten' = forgotten \cup inHands \cup inMemory
    BY <1>7 DEF Restart
  <2> HIDE DEF inHands, inMemory
  <2>8. forgotten' \subseteq Buttons
    BY <2>5, <2>6, <2>7 DEF TInv, Types
  <2> QED
    BY <2>1, <2>2, <2>3, <2>8 DEF TInv, Types, Singles
<1>8. CASE UNCHANGED vars
  BY <1>8 DEF vars, TInv, Types, Singles, Fits, connection, memory, history
<1> QED
  BY <1>1, <1>2, <1>3, <1>4, <1>5, <1>6, <1>7, <1>8

LEMMA TypesStep ==
  ASSUME TInv, [Next]_vars
  PROVE  TInv'
BY ConnectingTypes, ButtonTypes, ReasonTypes, OtherTypes DEF Next

-----------------------------------------------------------------------------
(* Where the used buttons are.                                             *)

Called(x) == \E y \in calls : y.button = x

\* A used button is in one place only ...
Tokens ==
  /\ \A u \in Updates : \A x \in InHand(u) :
       button[x] = "USED" /\ ~Called(x) /\ \A c \in Chats : x \notin pending[c]
  /\ \A u, v \in Updates : \A x \in InHand(u) \cap InHand(v) : u = v
  /\ \A c \in Chats : \A x \in pending[c] :
       button[x] = "USED" /\ ~Called(x) /\ x.action = "reject"
  /\ \A c, d \in Chats : \A x \in pending[c] \cap pending[d] : c = d
  /\ \A u \in Updates : \A x \in holds[u] : x.action = "reject"
  /\ \A y \in calls : button[y.button] = "USED" /\ stage[y.update] = "done"

TokensInv == Tokens /\ OneCallEach /\ UsedTapsExplained

\* What is in hand at which stage.
LEMMA HandOf ==
  ASSUME TInv, NEW u \in Updates
  PROVE  /\ stage[u] \in {"accepting", "prompting"} => InHand(u) = {says[u].button}
         /\ stage[u] = "rejecting" => InHand(u) = holds[u]
         /\ stage[u] \notin {"accepting", "prompting", "rejecting"} => InHand(u) = {}
         /\ InHand(u) \subseteq Buttons
BY Parts DEF InHand, TInv, Types, Fits

\* A step of one update leaves what the others hold alone.
LEMMA OthersHold ==
  ASSUME TInv, TInv', NEW u \in Updates, NEW s, Go(u, s), UNCHANGED says,
         \A v \in Updates \ {u} : holds'[v] = holds[v]
  PROVE  \A v \in Updates \ {u} : InHand(v)' = InHand(v) /\ stage'[v] = stage[v]
BY DEF InHand, TInv, Types, Go

\* Steps that move no button.
LEMMA NothingMoves ==
  ASSUME TInv, TInv', TokensInv,
         UNCHANGED <<holds, pending, calls, forgotten>>,
         \A u \in Updates : InHand(u)' = InHand(u),
         \A u \in Updates : stage[u] = "done" => stage'[u] = "done",
         \A x \in Buttons : button'[x] = "USED" <=> button[x] = "USED"
  PROVE  TokensInv'
<1>1. /\ \A u \in Updates : InHand(u) \subseteq Buttons
      /\ \A c \in Chats : pending[c] \subseteq Buttons
      /\ \A y \in calls : y.button \in Buttons /\ y.update \in Updates
  BY HandOf DEF TInv, Types
<1>2. \A x : Called(x)' <=> Called(x)
  BY DEF Called
<1>3. Tokens'
  BY <1>1, <1>2 DEF TokensInv, Tokens
<1>4. OneCallEach'
  BY DEF TokensInv, OneCallEach
<1>5. UsedTapsExplained'
  BY DEF TokensInv, UsedTapsExplained
<1> QED
  BY <1>3, <1>4, <1>5 DEF TokensInv

LEMMA QuietStep ==
  ASSUME TInv, TInv', TokensInv,
         \/ \E u \in Updates :
              \/ \E m \in Taps \cup Texts \cup Starts : Send(u, m)
              \/ Deliver(u) \/ ReadCode(u) \/ FindConnection(u) \/ Bind(u) \/ ReadButton(u)
         \/ \E c \in Codes : AskForCode(c) \/ ExpireCodes(c) \/ IssueCode(c)
         \/ \E b \in Bookings : Publish(b)
         \/ \E c \in Chats : PromptGrowsOld(c)
         \/ UNCHANGED vars
  PROVE  TokensInv'
<1>1. ASSUME NEW u \in Updates, NEW m \in Taps \cup Texts \cup Starts, Send(u, m)
      PROVE  TokensInv'
  <2>1. \A v \in Updates : InHand(v)' = InHand(v)
    BY <1>1 DEF Send, Go, InHand, TInv, Types
  <2>2. \A v \in Updates : stage[v] = "done" => stage'[v] = "done"
    BY <1>1 DEF Send, Go, TInv, Types
  <2> QED
    BY <1>1, <2>1, <2>2, NothingMoves DEF Send, memory
<1>2. ASSUME NEW u \in Updates,
             Deliver(u) \/ ReadCode(u) \/ FindConnection(u) \/ Bind(u) \/ ReadButton(u)
      PROVE  TokensInv'
  <2>1. /\ UNCHANGED <<says, holds, button, pending, calls, forgotten>>
        /\ stage[u] \in {"sent", "taken", "redeeming", "binding"}
    BY <1>2 DEF Deliver, ReadCode, FindConnection, Bind, ReadButton, Is, memory, history
  <2>2. PICK s \in {"taken", "redeeming", "binding", "done", "claiming"} : Go(u, s)
    BY <1>2 DEF Deliver, ReadCode, FindConnection, Bind, ReadButton
  <2>3. \A v \in Updates : InHand(v)' = InHand(v)
    BY <2>1, <2>2 DEF Go, InHand, TInv, Types
  <2>4. \A v \in Updates : stage[v] = "done" => stage'[v] = "done"
    BY <2>1, <2>2 DEF Go, TInv, Types
  <2> QED
    BY <2>1, <2>3, <2>4, NothingMoves
<1>3. ASSUME NEW b \in Bookings, Publish(b)
      PROVE  TokensInv'
  <2>1. \A v \in Updates : InHand(v)' = InHand(v)
    BY <1>3 DEF Publish, InHand
  <2>2. \A x \in Buttons : button'[x] = "USED" <=> button[x] = "USED"
    BY <1>3 DEF Publish
  <2> QED
    BY <1>3, <2>1, <2>2, NothingMoves DEF Publish, memory, history
<1>4. ASSUME \/ \E c \in Codes : AskForCode(c) \/ ExpireCodes(c) \/ IssueCode(c)
             \/ \E c \in Chats : PromptGrowsOld(c)
             \/ UNCHANGED vars
      PROVE  TokensInv'
  <2>1. UNCHANGED <<says, stage, holds, button, pending, calls, forgotten>>
    BY <1>4 DEF AskForCode, ExpireCodes, IssueCode, PromptGrowsOld, vars, memory, history
  <2>2. \A v \in Updates : InHand(v)' = InHand(v)
    BY <2>1 DEF InHand
  <2> QED
    BY <2>1, <2>2, NothingMoves
<1> QED
  BY <1>1, <1>2, <1>3, <1>4

\* The claim takes an open button, which is nowhere yet.
LEMMA ClaimStep ==
  ASSUME TInv, TInv', TokensInv, NEW u \in Updates, Claim(u)
  PROVE  TokensInv'
<1> DEFINE x == says[u].button
<1>1. /\ x \in Buttons /\ button[x] = "OPEN" /\ button' = [button EXCEPT ![x] = "USED"]
      /\ UNCHANGED <<says, holds, pending, calls, forgotten>>
  BY Parts DEF Claim, TInv, Fits, memory, history
<1>2. /\ stage[u] = "claiming" /\ stage'[u] \in {"accepting", "prompting"}
      /\ \A v \in Updates \ {u} : InHand(v)' = InHand(v) /\ stage'[v] = stage[v]
  BY <1>1, OthersHold DEF Claim, Go, TInv, Types
<1>3. InHand(u) = {} /\ InHand(u)' = {x} /\ holds[u] = {}
  BY <1>1, <1>2 DEF InHand, TInv, Fits
<1>4. \A y \in Buttons \ {x} : button'[y] = button[y]
  BY <1>1 DEF TInv, Types
<1>5. /\ button'[x] = "USED" /\ ~Called(x)
      /\ \A c \in Chats : x \notin pending[c]
      /\ \A v \in Updates : x \notin InHand(v)
  BY <1>1 DEF TokensInv, Tokens, Called, TInv, Types
<1>6. /\ \A v \in Updates : InHand(v) \subseteq Buttons
      /\ \A c \in Chats : pending[c] \subseteq Buttons
      /\ \A y \in calls : y.button \in Buttons /\ y.update \in Updates
  BY HandOf DEF TInv, Types
<1>7. \A y : Called(y)' <=> Called(y)
  BY <1>1 DEF Called
<1> HIDE DEF x
<1>8. Tokens'
  BY <1>1, <1>2, <1>3, <1>4, <1>5, <1>6, <1>7 DEF TokensInv, Tokens
<1>9. OneCallEach'
  BY <1>1 DEF TokensInv, OneCallEach
<1>10. UsedTapsExplained'
  BY <1>1, <1>2, <1>3, <1>4 DEF TokensInv, UsedTapsExplained
<1> QED
  BY <1>8, <1>9, <1>10 DEF TokensInv

\* A call spends what its update had in hand.
LEMMA CallStep ==
  ASSUME TInv, TInv', TokensInv, NEW u \in Updates, NEW x \in Buttons,
         InHand(u) = {x}, stage[u] # "done",
         Call(u, x), Go(u, "done"), holds' = [holds EXCEPT ![u] = {}],
         UNCHANGED <<says, button, pending, forgotten>>
  PROVE  TokensInv'
<1>1. /\ stage'[u] = "done" /\ holds'[u] = {}
      /\ \A v \in Updates \ {u} : holds'[v] = holds[v]
      /\ \A v \in Updates \ {u} : InHand(v)' = InHand(v) /\ stage'[v] = stage[v]
  BY OthersHold DEF Go, TInv, Types
<1>2. InHand(u)' = {}
  BY <1>1 DEF InHand
<1> DEFINE new == [button |-> x, update |-> u]
<1>3. new.button = x /\ new.update = u /\ calls' = calls \cup {new}
  BY DEF Call
<1> HIDE DEF new
<1>4. \A y \in calls : y.button # x /\ y.update # u /\ y.update \in Updates
  BY DEF TokensInv, Tokens, Called, TInv, Types
<1>5. \A y : Called(y)' <=> Called(y) \/ y = x
  BY <1>3 DEF Called
<1>6. /\ button[x] = "USED" /\ \A c \in Chats : x \notin pending[c]
      /\ \A v \in Updates \ {u} : x \notin InHand(v)
  BY DEF TokensInv, Tokens
<1>7. Tokens'
  BY <1>1, <1>2, <1>3, <1>4, <1>5, <1>6 DEF TokensInv, Tokens
<1>8. OneCallEach'
  BY <1>3, <1>4 DEF TokensInv, OneCallEach
<1>9. UsedTapsExplained'
  BY <1>1, <1>2, <1>3 DEF TokensInv, UsedTapsExplained
<1> QED
  BY <1>7, <1>8, <1>9 DEF TokensInv

LEMMA AcceptOrReject ==
  ASSUME TInv, TInv', TokensInv, NEW u \in Updates, Accept(u) \/ Reject(u)
  PROVE  TokensInv'
<1>1. CASE Accept(u)
  <2>1. InHand(u) = {says[u].button} /\ says[u].button \in Buttons
    BY <1>1, HandOf DEF Accept
  <2>2. holds' = [holds EXCEPT ![u] = {}]
    BY <1>1 DEF Accept, TInv, Types, Fits
  <2> QED
    BY <1>1, <2>1, <2>2, CallStep DEF Accept, memory
<1>2. CASE Reject(u)
  <2>1. PICK x \in holds[u] : Call(u, x)
    BY <1>2 DEF Reject
  <2>2. holds[u] = {x} /\ x \in Buttons
    BY <2>1 DEF TInv, Types, Singles
  <2>3. InHand(u) = {x}
    BY <1>2, <2>2, HandOf DEF Reject
  <2> QED
    BY <1>2, <2>1, <2>2, <2>3, CallStep DEF Reject, memory
<1> QED
  BY <1>1, <1>2

\* A prompt moves a rejection from hand to memory, and displaces the last one.
LEMMA PromptStep ==
  ASSUME TInv, TInv', TokensInv, NEW u \in Updates, Prompt(u)
  PROVE  TokensInv'
<1> DEFINE x == says[u].button
           c == says[u].chat
<1>1. /\ x \in Buttons /\ c \in Chats /\ x.action = "reject"
      /\ InHand(u) = {x} /\ stage[u] = "prompting" /\ holds[u] = {}
      /\ pending' = [pending EXCEPT ![c] = {x}]
      /\ forgotten' = forgotten \cup pending[c]
      /\ Go(u, "done")
      /\ UNCHANGED <<says, holds, button, calls>>
  BY HandOf, Parts DEF Prompt, TInv, Fits
<1>2. /\ stage'[u] = "done"
      /\ \A v \in Updates \ {u} : InHand(v)' = InHand(v) /\ stage'[v] = stage[v]
  BY <1>1, OthersHold DEF Go, TInv, Types
<1>3. InHand(u)' = {}
  BY <1>1, <1>2 DEF InHand
<1> HIDE DEF x, c
<1>4. pending'[c] = {x} /\ \A d \in Chats \ {c} : pending'[d] = pending[d]
  BY <1>1 DEF TInv, Types
<1>5. /\ button[x] = "USED" /\ ~Called(x) /\ \A d \in Chats : x \notin pending[d]
      /\ \A v \in Updates \ {u} : x \notin InHand(v)
  BY <1>1 DEF TokensInv, Tokens
<1>6. \A y : Called(y)' <=> Called(y)
  BY <1>1 DEF Called
<1>7. \A y \in calls : y.update \in Updates
  BY DEF TInv, Types
<1>8. Tokens'
  BY <1>1, <1>2, <1>3, <1>4, <1>5, <1>6, <1>7 DEF TokensInv, Tokens
<1>9. OneCallEach'
  BY <1>1 DEF TokensInv, OneCallEach
<1>10. UsedTapsExplained'
  BY <1>1, <1>2, <1>3, <1>4 DEF TokensInv, UsedTapsExplained
<1> QED
  BY <1>8, <1>9, <1>10 DEF TokensInv

\* The next message of the chat takes the rejection out of its memory, to make it
\* or, if it is old, to forget it.
LEMMA TakeStep ==
  ASSUME TInv, TInv', TokensInv, NEW u \in Updates, TakePrompt(u) \/ TakeOldPrompt(u)
  PROVE  TokensInv'
<1> DEFINE c == says[u].chat
<1>1. /\ c \in Chats /\ InHand(u) = {} /\ stage[u] = "taken"
      /\ pending' = [pending EXCEPT ![c] = {}]
      /\ UNCHANGED <<says, button, calls>>
  <2>1. stage[u] = "taken" /\ says[u].kind = "text"
    BY DEF TakePrompt, TakeOldPrompt, Is
  <2>2. says[u] \in Texts
    BY <2>1, KindTells DEF TInv, Types
  <2> QED
    BY <2>1, <2>2, Parts, HandOf DEF TakePrompt, TakeOldPrompt, history
<1>2. pending'[c] = {} /\ \A d \in Chats \ {c} : pending'[d] = pending[d]
  BY <1>1 DEF TInv, Types
<1>3. /\ \A v \in Updates \ {u} : InHand(v)' = InHand(v) /\ stage'[v] = stage[v]
      /\ \A v \in Updates \ {u} : holds'[v] = holds[v]
      /\ \/ InHand(u)' = pending[c] /\ holds'[u] = pending[c] /\ forgotten' = forgotten
         \/ InHand(u)' = {} /\ holds'[u] = {} /\ forgotten' = forgotten \cup pending[c]
  <2>1. CASE TakePrompt(u)
    <3>1. /\ holds' = [holds EXCEPT ![u] = pending[c]] /\ Go(u, "rejecting")
          /\ forgotten' = forgotten
      BY <2>1 DEF TakePrompt, history
    <3>2. /\ holds'[u] = pending[c] /\ stage'[u] = "rejecting"
          /\ \A v \in Updates \ {u} : holds'[v] = holds[v]
      BY <3>1 DEF Go, TInv, Types
    <3>3. InHand(u)' = pending[c]
      BY <3>2 DEF InHand
    <3> QED
      BY <1>1, <3>1, <3>2, <3>3, OthersHold
  <2>2. CASE TakeOldPrompt(u)
    <3>1. /\ UNCHANGED holds /\ Go(u, "done")
          /\ forgotten' = forgotten \cup pending[c]
      BY <2>2 DEF TakeOldPrompt
    <3>2. holds'[u] = {} /\ stage'[u] = "done"
      BY <1>1, <3>1 DEF Go, TInv, Types, Fits
    <3>3. InHand(u)' = {}
      BY <3>2 DEF InHand
    <3> QED
      BY <1>1, <3>1, <3>2, <3>3, OthersHold
  <2> QED
    BY <2>1, <2>2
<1> HIDE DEF c
<1>4. \A y : Called(y)' <=> Called(y)
  BY <1>1 DEF Called
<1>5. \A y \in calls : y.update \in Updates \ {u}
  BY <1>1 DEF TokensInv, Tokens, TInv, Types
<1>6. Tokens'
  BY <1>1, <1>2, <1>3, <1>4, <1>5 DEF TokensInv, Tokens
<1>7. OneCallEach'
  BY <1>1 DEF TokensInv, OneCallEach
<1>8. UsedTapsExplained'
  BY <1>1, <1>2, <1>3, <1>4 DEF TokensInv, UsedTapsExplained
<1> QED
  BY <1>6, <1>7, <1>8 DEF TokensInv

\* What is cut short is forgotten.
LEMMA LossStep ==
  ASSUME TInv, TInv', TokensInv,
         (\E u \in Updates : Stop(u)) \/ Restart
  PROVE  TokensInv'
<1>1. ASSUME NEW u \in Updates, Stop(u)
      PROVE  TokensInv'
  <2>1. /\ holds' = [holds EXCEPT ![u] = {}] /\ Go(u, "done")
        /\ forgotten' = forgotten \cup InHand(u)
        /\ UNCHANGED <<says, button, pending, calls>>
    BY <1>1 DEF Stop, memory
  <2>2. /\ stage'[u] = "done" /\ holds'[u] = {}
        /\ \A v \in Updates \ {u} : holds'[v] = holds[v]
    BY <2>1 DEF Go, TInv, Types
  <2>3. \A v \in Updates \ {u} : InHand(v)' = InHand(v) /\ stage'[v] = stage[v]
    BY <2>1, <2>2, OthersHold
  <2>4. InHand(u)' = {}
    BY <2>2 DEF InHand
  <2>5. \A y : Called(y)' <=> Called(y)
    BY <2>1 DEF Called
  <2>6. \A y \in calls : y.update \in Updates
    BY DEF TInv, Types
  <2>7. Tokens'
    BY <2>1, <2>2, <2>3, <2>4, <2>5, <2>6 DEF TokensInv, Tokens
  <2>8. OneCallEach'
    BY <2>1 DEF TokensInv, OneCallEach
  <2>9. UsedTapsExplained'
    BY <2>1, <2>2, <2>3, <2>4 DEF TokensInv, UsedTapsExplained
  <2> QED
    BY <2>7, <2>8, <2>9 DEF TokensInv
<1>2. CASE Restart
  <2>1. /\ forgotten' = forgotten \cup (UNION {InHand(u) : u \in Updates})
                         \cup (UNION {pending[c] : c \in Chats})
        /\ holds' = [u \in Updates |-> {}] /\ pending' = [c \in Chats |-> {}]
        /\ UNCHANGED <<says, button, calls>>
    BY <1>2 DEF Restart
  <2>2. \A u \in Updates :
          /\ stage'[u] \in {"unsent", "sent", "done"}
          /\ stage[u] = "done" => stage'[u] = "done"
    BY <1>2 DEF Restart, TInv, Types, Stages, Busy
  <2>3. \A u \in Updates : InHand(u)' = {}
    BY <2>1, <2>2 DEF InHand
  <2>4. \A x : \/ x \in forgotten
               \/ \E u \in Updates : x \in InHand(u)
               \/ \E c \in Chats : x \in pending[c]
               => x \in forgotten'
    BY <2>1
  <2>5. \A y : Called(y)' <=> Called(y)
    BY <2>1 DEF Called
  <2>6. \A y \in calls : y.update \in Updates
    BY DEF TInv, Types
  <2>7. Tokens'
    BY <2>1, <2>2, <2>3, <2>5, <2>6 DEF TokensInv, Tokens
  <2>8. OneCallEach'
    BY <2>1 DEF TokensInv, OneCallEach
  <2>9. UsedTapsExplained'
    BY <2>1, <2>4 DEF TokensInv, UsedTapsExplained
  <2> QED
    BY <2>7, <2>8, <2>9 DEF TokensInv
<1> QED
  BY <1>1, <1>2

LEMMA TokensStep ==
  ASSUME TInv, TInv', TokensInv, [Next]_vars
  PROVE  TokensInv'
BY QuietStep, ClaimStep, AcceptOrReject, PromptStep, TakeStep, LossStep DEF Next

-----------------------------------------------------------------------------
(* Who decides.                                                            *)

\* Button x was tapped in chat c, which its connection had then or later.
TappedIn(x, c) ==
  \E u \in Updates : /\ says[u] \in Taps /\ says[u].button = x /\ says[u].chat = c
                     /\ <<u, x.connection>> \in welcome

Welcomed ==
  /\ \A u \in Updates : \A n \in Codes :
       stage[u] \in {"sent", "taken"} /\ says[u].chat \in chat[n] => <<u, n>> \in welcome
  /\ \A u \in Updates : stage[u] \in {"claiming", "accepting", "prompting"} =>
       TappedIn(says[u].button, says[u].chat)
  /\ \A c \in Chats : \A x \in pending[c] : TappedIn(x, c)
  /\ \A u \in Updates : \A x \in holds[u] : TappedIn(x, says[u].chat)
  /\ DecidedInOwnersChat

\* Whoever was welcome stays welcome, and what was said was said.
LEMMA TappedStays ==
  ASSUME TInv, [Next]_vars, NEW x, NEW c, TappedIn(x, c)
  PROVE  TappedIn(x, c)'
<1>1. PICK u \in Updates :
        /\ says[u] \in Taps /\ says[u].button = x /\ says[u].chat = c
        /\ <<u, x.connection>> \in welcome
  BY DEF TappedIn
<1>2. says[u] # Unsaid /\ stage[u] # "unsent"
  BY <1>1, KindTells DEF TInv, Types, Fits
<1>3. welcome \subseteq welcome' /\ says'[u] = says[u]
  <2>1. ASSUME NEW v \in Updates, NEW m \in Taps \cup Texts \cup Starts, Send(v, m)
        PROVE  welcome \subseteq welcome' /\ says'[u] = says[u]
    BY <1>2, <2>1 DEF Send, TInv, Types
  <2>2. ASSUME NEW v \in Updates, Bind(v)
        PROVE  welcome \subseteq welcome' /\ says'[u] = says[u]
    BY <2>2 DEF Bind
  <2>3. ASSUME NEW v \in Updates,
               \/ Deliver(v) \/ ReadCode(v) \/ FindConnection(v)
               \/ ReadButton(v) \/ Claim(v) \/ Accept(v) \/ Prompt(v)
               \/ TakeOldPrompt(v) \/ TakePrompt(v) \/ Reject(v) \/ Stop(v)
        PROVE  UNCHANGED <<says, welcome>>
    BY <2>3 DEF Deliver, ReadCode, FindConnection, ReadButton, Claim, Accept, Prompt,
       TakeOldPrompt, TakePrompt, Reject, Stop, history
  <2>4. ASSUME \/ \E d \in Codes : AskForCode(d) \/ ExpireCodes(d) \/ IssueCode(d)
               \/ \E b \in Bookings : Publish(b)
               \/ \E d \in Chats : PromptGrowsOld(d)
               \/ Restart \/ UNCHANGED vars
        PROVE  UNCHANGED <<says, welcome>>
    BY <2>4 DEF AskForCode, ExpireCodes, IssueCode, Publish, PromptGrowsOld, Restart,
       vars, history
  <2> QED
    BY <2>1, <2>2, <2>3, <2>4 DEF Next
<1> QED
  BY <1>1, <1>3 DEF TappedIn

\* A step after which less is under way than before, and nobody has moved.
LEMMA LessInPlay ==
  ASSUME TInv, Welcomed, [Next]_vars, UNCHANGED <<says, chat, welcome, calls>>,
         \A u \in Updates :
           /\ stage'[u] \in {"sent", "taken"} => stage[u] \in {"sent", "taken"}
           /\ stage'[u] \in {"claiming", "accepting", "prompting"} =>
                stage[u] \in {"claiming", "accepting", "prompting"}
           /\ holds'[u] \subseteq holds[u],
         \A c \in Chats : pending'[c] \subseteq pending[c]
  PROVE  Welcomed'
<1>1. \A x, c : TappedIn(x, c)' <=> TappedIn(x, c)
  BY DEF TappedIn
<1>2. DecidedInOwnersChat'
  BY DEF Welcomed, DecidedInOwnersChat
<1> QED
  BY <1>1, <1>2 DEF Welcomed

LEMMA FadingSteps ==
  ASSUME TInv, Welcomed, [Next]_vars,
         \/ \E u \in Updates :
              \/ Deliver(u) \/ ReadCode(u) \/ FindConnection(u) \/ Claim(u)
              \/ TakeOldPrompt(u) \/ Stop(u)
         \/ \E c \in Codes : AskForCode(c) \/ ExpireCodes(c) \/ IssueCode(c)
         \/ \E b \in Bookings : Publish(b)
         \/ \E c \in Chats : PromptGrowsOld(c)
         \/ Restart \/ UNCHANGED vars
  PROVE  Welcomed'
<1>1. ASSUME NEW u \in Updates, Deliver(u) \/ ReadCode(u) \/ FindConnection(u)
      PROVE  Welcomed'
  <2>1. UNCHANGED <<says, holds, chat, welcome, calls, pending>>
    BY <1>1 DEF Deliver, ReadCode, FindConnection, memory, history, connection
  <2>2. PICK s \in {"taken", "redeeming", "binding", "done"} :
          Go(u, s) /\ (s = "taken" => stage[u] = "sent")
    BY <1>1 DEF Deliver, ReadCode, FindConnection
  <2> QED
    BY <2>1, <2>2, LessInPlay DEF Go, TInv, Types
<1>2. ASSUME NEW u \in Updates, Claim(u)
      PROVE  Welcomed'
  <2>1. UNCHANGED <<says, holds, chat, welcome, calls, pending>> /\ stage[u] = "claiming"
    BY <1>2 DEF Claim, memory, history, connection
  <2>2. PICK s \in {"accepting", "prompting"} : Go(u, s)
    BY <1>2 DEF Claim
  <2> QED
    BY <2>1, <2>2, LessInPlay DEF Go, TInv, Types
<1>3. ASSUME NEW u \in Updates, TakeOldPrompt(u) \/ Stop(u)
      PROVE  Welcomed'
  <2>1. UNCHANGED <<says, chat, welcome, calls>> /\ Go(u, "done")
    BY <1>3 DEF TakeOldPrompt, Stop, connection
  <2>2. /\ \A v \in Updates : holds'[v] \subseteq holds[v]
        /\ \A c \in Chats : pending'[c] \subseteq pending[c]
    BY <1>3 DEF TakeOldPrompt, Stop, memory, TInv, Types
  <2> QED
    BY <2>1, <2>2, LessInPlay DEF Go, TInv, Types
<1>4. CASE Restart
  <2>1. /\ UNCHANGED <<says, chat, welcome, calls>>
        /\ holds' = [v \in Updates |-> {}] /\ pending' = [c \in Chats |-> {}]
        /\ \A v \in Updates : stage'[v] = stage[v] \/ stage'[v] = "done"
    BY <1>4 DEF Restart
  <2> QED
    BY <2>1, LessInPlay
<1>5. ASSUME \/ \E c \in Codes : AskForCode(c) \/ ExpireCodes(c) \/ IssueCode(c)
             \/ \E b \in Bookings : Publish(b)
             \/ \E c \in Chats : PromptGrowsOld(c)
             \/ UNCHANGED vars
      PROVE  Welcomed'
  <2>1. UNCHANGED <<says, stage, holds, chat, welcome, calls, pending>>
    BY <1>5 DEF AskForCode, ExpireCodes, IssueCode, Publish, PromptGrowsOld, vars, memory,
       history, connection
  <2> QED
    BY <2>1, LessInPlay
<1> QED
  BY <1>1, <1>2, <1>3, <1>4, <1>5

\* Calls that were right stay right.
LEMMA DecisionsStand ==
  ASSUME TInv, Welcomed, [Next]_vars, UNCHANGED calls,
         \A y \in calls : says'[y.update] = says[y.update]
  PROVE  DecidedInOwnersChat'
<1> SUFFICES ASSUME NEW y \in calls
             PROVE  \E u \in Updates :
                      /\ says'[u] \in Taps /\ says'[u].button = y.button
                      /\ says'[u].chat = says'[y.update].chat
                      /\ <<u, y.button.connection>> \in welcome'
  BY DEF DecidedInOwnersChat
<1>1. PICK x, c : x = y.button /\ c = says[y.update].chat
  OBVIOUS
<1>2. TappedIn(x, c)
  BY <1>1 DEF Welcomed, DecidedInOwnersChat, TappedIn
<1>3. TappedIn(x, c)'
  BY <1>2, TappedStays
<1> QED
  BY <1>1, <1>3 DEF TappedIn

LEMMA WelcomedStep ==
  ASSUME TInv, TokensInv, Welcomed, [Next]_vars
  PROVE  Welcomed'
<1>1. ASSUME NEW u \in Updates, NEW m \in Taps \cup Texts \cup Starts, Send(u, m)
      PROVE  Welcomed'
  <2>1. /\ says'[u] = m /\ stage'[u] = "sent" /\ holds[u] = {} /\ stage[u] = "unsent"
        /\ \A v \in Updates \ {u} : stage'[v] = stage[v] /\ says'[v] = says[v]
        /\ UNCHANGED <<holds, chat, pending, calls>>
        /\ welcome' = welcome \cup {<<u, n>> : n \in {c \in Codes : m.chat \in chat[c]}}
    BY <1>1 DEF Send, Go, TInv, Types, Fits, connection, memory
  <2>2. \A n \in Codes : m.chat \in chat'[n] => <<u, n>> \in welcome'
    BY <2>1
  <2>4. \A y \in calls : y.update \in Updates \ {u}
    BY <2>1 DEF TokensInv, Tokens, TInv, Types
  <2>5. DecidedInOwnersChat'
    BY <2>1, <2>4, DecisionsStand
  <2> QED
    BY <2>1, <2>2, <2>5, TappedStays DEF Welcomed
<1>2. ASSUME NEW u \in Updates, Bind(u)
      PROVE  Welcomed'
  <2> DEFINE c == says[u].chat
  <2>1. PICK n :
          /\ chat' = [chat EXCEPT ![n] = {c}]
          /\ welcome' = welcome \cup
               {<<v, n>> : v \in {w \in Updates : /\ stage[w] \in {"sent", "taken"}
                                                 /\ says[w].chat = c}}
    BY <1>2 DEF Bind
  <2>2. /\ stage'[u] = "done"
        /\ \A v \in Updates \ {u} : stage'[v] = stage[v]
        /\ UNCHANGED <<says, holds, pending, calls>>
    BY <1>2 DEF Bind, Go, TInv, Types, memory
  <2> HIDE DEF c
  <2>3. \A v \in Updates : \A m \in Codes :
          stage'[v] \in {"sent", "taken"} /\ says[v].chat \in chat'[m] =>
            <<v, m>> \in welcome'
    BY <2>1, <2>2 DEF Welcomed, TInv, Types
  <2>6. DecidedInOwnersChat'
    BY <2>2, DecisionsStand
  <2> QED
    BY <2>2, <2>3, <2>6, TappedStays DEF Welcomed
<1>3. ASSUME NEW u \in Updates, ReadButton(u)
      PROVE  Welcomed'
  <2>1. /\ says[u] \in Taps /\ says[u].button.connection \in Codes
        /\ says[u].chat \in chat[says[u].button.connection]
        /\ stage[u] = "taken" /\ stage'[u] = "claiming"
        /\ \A v \in Updates \ {u} : stage'[v] = stage[v]
        /\ UNCHANGED <<says, holds, chat, pending, calls, welcome>>
    BY <1>3, KindTells, Parts
    DEF ReadButton, Is, Go, TInv, Types, connection, memory, history
  <2>2. TappedIn(says[u].button, says[u].chat)
    BY <2>1 DEF Welcomed, TappedIn
  <2>3. DecidedInOwnersChat'
    BY <2>1 DEF Welcomed, DecidedInOwnersChat
  <2> QED
    BY <2>1, <2>2, <2>3, TappedStays DEF Welcomed
<1>4. ASSUME NEW u \in Updates, Accept(u) \/ Reject(u)
      PROVE  Welcomed'
  <2>1. /\ stage'[u] = "done"
        /\ \A v \in Updates \ {u} : stage'[v] = stage[v]
        /\ \A v \in Updates : holds'[v] \subseteq holds[v]
        /\ UNCHANGED <<says, chat, pending, welcome>>
    BY <1>4 DEF Accept, Reject, Go, TInv, Types, connection, memory
  <2>2. PICK x : Call(u, x) /\ TappedIn(x, says[u].chat)
    BY <1>4 DEF Accept, Reject, Welcomed
  <2>3. DecidedInOwnersChat'
    BY <2>1, <2>2 DEF Call, Welcomed, DecidedInOwnersChat, TappedIn
  <2> QED
    BY <2>1, <2>3, TappedStays DEF Welcomed
<1>5. ASSUME NEW u \in Updates, Prompt(u)
      PROVE  Welcomed'
  <2>1. /\ stage[u] = "prompting" /\ stage'[u] = "done"
        /\ \A v \in Updates \ {u} : stage'[v] = stage[v]
        /\ UNCHANGED <<says, holds, chat, calls, welcome>>
        /\ \A c \in Chats : \A x \in pending'[c] :
             x \in pending[c] \/ (c = says[u].chat /\ x = says[u].button)
    BY <1>5 DEF Prompt, Go, TInv, Types, connection
  <2>2. DecidedInOwnersChat'
    BY <2>1 DEF Welcomed, DecidedInOwnersChat
  <2> QED
    BY <2>1, <2>2, TappedStays DEF Welcomed
<1>6. ASSUME NEW u \in Updates, TakePrompt(u)
      PROVE  Welcomed'
  <2>1. /\ says[u].chat \in Chats /\ stage'[u] = "rejecting"
        /\ \A v \in Updates \ {u} : stage'[v] = stage[v] /\ holds'[v] = holds[v]
        /\ holds'[u] = pending[says[u].chat]
        /\ \A c \in Chats : pending'[c] \subseteq pending[c]
        /\ UNCHANGED <<says, chat, calls, welcome>>
    BY <1>6, KindTells, Parts DEF TakePrompt, Is, Go, TInv, Types, connection, history
  <2>2. DecidedInOwnersChat'
    BY <2>1 DEF Welcomed, DecidedInOwnersChat
  <2> QED
    BY <2>1, <2>2, TappedStays DEF Welcomed
<1> QED
  BY <1>1, <1>2, <1>3, <1>4, <1>5, <1>6, FadingSteps DEF Next

-----------------------------------------------------------------------------
LEMMA Invariance == Spec => [](TInv /\ TokensInv /\ Welcomed)
<1>1. Init => TInv /\ TokensInv /\ Welcomed
  <2> SUFFICES ASSUME Init PROVE TInv /\ TokensInv /\ Welcomed
    OBVIOUS
  <2>1. TInv
    BY DEF Init, TInv, Types, Singles, Fits, Said, Stages, CodeStates, Requested
  <2>2. \A u \in Updates : InHand(u) = {}
    BY DEF Init, InHand
  <2>3. TokensInv
    BY <2>2 DEF Init, TokensInv, Tokens, OneCallEach, UsedTapsExplained
  <2>4. Welcomed
    BY DEF Init, Welcomed, DecidedInOwnersChat
  <2> QED
    BY <2>1, <2>3, <2>4
<1>2. TInv /\ TokensInv /\ Welcomed /\ [Next]_vars => (TInv /\ TokensInv /\ Welcomed)'
  BY TypesStep, TokensStep, WelcomedStep
<1> QED
  BY <1>1, <1>2, PTL DEF Spec

\* The types, and that whatever is remembered or about to be made is a rejection
\* whose button is used (startReject, submitRejectReason).
THEOREM TypeCorrect == Spec => []TypeOK
<1>1. TInv /\ TokensInv => TypeOK
  <2> SUFFICES ASSUME TInv, TokensInv PROVE TypeOK
    OBVIOUS
  <2>1. ASSUME NEW c \in Codes PROVE Cardinality(chat[c]) <= 1
    <3>1. CASE chat[c] = {}
      BY <3>1, FS_EmptySet
    <3>2. CASE chat[c] # {}
      <4>1. PICK h : h \in chat[c]
        BY <3>2
      <4>2. chat[c] = {h}
        BY <4>1 DEF TInv, Singles
      <4>3. Cardinality({h}) = 1
        BY FS_Singleton
      <4> QED
        BY <4>2, <4>3
    <3> QED
      BY <3>1, <3>2
  <2>2. ASSUME NEW x \in Buttons,
               (\E u \in Updates : x \in holds[u]) \/ (\E c \in Chats : x \in pending[c])
        PROVE  x.action = "reject" /\ button[x] = "USED"
    BY <2>2, HandOf DEF TokensInv, Tokens, TInv, Fits
  <2> QED
    BY <2>1, <2>2 DEF TypeOK, TInv, Types, Said, Stages
<1> QED
  BY <1>1, Invariance, PTL

\* No tap, text or update is acted upon twice (recordOnce, claim's WHERE
\* state = OPEN, the prompt taken out of memory before the call).
THEOREM EachCallsOnce == Spec => []OneCallEach
BY Invariance, PTL DEF TokensInv

\* A decision comes from a chat the button's connection had, at or after a tap on
\* that button there (claim, submitRejectReason).
THEOREM OwnersChatDecides == Spec => []DecidedInOwnersChat
BY Invariance, PTL DEF Welcomed

\* A used button is called, in hand, remembered, or lost for one of the known
\* reasons.
THEOREM UsedTapsAccountedFor == Spec => []UsedTapsExplained
BY Invariance, PTL DEF TokensInv
=============================================================================
