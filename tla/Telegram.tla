------------------------------ MODULE Telegram ------------------------------
(***************************************************************************)
(* What the owner of a business does by chat (telegram-webhook.service.ts, *)
(* telegram-callback.service.ts, telegram-connection.service.ts):          *)
(* connecting a chat with a one-time code, and the Accept and Reject       *)
(* buttons under the notification of a payment proof.                      *)
(*                                                                         *)
(* Telegram delivers each update at least once, several at a time and in   *)
(* any order; the first delivery to arrive inserts its update_id, and all  *)
(* others stop there, so an update is handled by one process at most.  A   *)
(* handler awaits the database between its steps, and an error at any of   *)
(* them is swallowed.  A tap on Reject is only half of a rejection: the    *)
(* reason is the chat's next message, and what it is for is remembered in  *)
(* the process's memory (pending).                                         *)
(*                                                                         *)
(* What accepting or rejecting does to the booking is module Booking's     *)
(* subject; here it is a call.  Customers' connections are made the same   *)
(* way as the owner's and have no buttons; theirs are left out.            *)
(***************************************************************************)
EXTENDS Naturals, FiniteSets

CONSTANTS Updates,   \* update_ids
          Chats,
          Bookings,  \* with a proof the owner is told of
          Codes      \* connection codes the owner may ask for

VARIABLES
  says,      \* what each update says
  stage,     \* how far it has been handled
  holds,     \* the rejection it is about to make, taken out of pending
  code,      \* telegram_connection_token.state
  chat,      \* telegram_connection.chat_id, of the owner's connections; each is
             \* named by the code that made it, and empty before that
  row,       \* the connection a redemption has found to exist
  button,    \* telegram_callback.state
  pending,   \* memory: the rejection each chat has been asked a reason for
  old,       \* chats whose prompt is older than PROMPT_TTL_MS
  calls,     \* history: calls of acceptProof and rejectProof, with the update
  welcome,   \* history: updates sent from a connection's own chat, or which the
             \* connection has moved to before they were looked at; with it
  forgotten  \* history: used buttons that came to nothing

connection == <<code, chat, row>>
memory == <<pending, old>>
history == <<calls, welcome, forgotten>>
vars == <<says, stage, holds, connection, button, memory, history>>

Buttons == [booking : Bookings, connection : Codes, action : {"accept", "reject"}]
Taps == [kind : {"tap"}, chat : Chats, button : Buttons]
Texts == [kind : {"text"}, chat : Chats]
Starts == [kind : {"start"}, chat : Chats, code : Codes]
Unsaid == [kind |-> "unsaid"]

Requested == {"NONE", "ASKED", "ISSUING"}   \* not in the table yet
CodeStates == Requested \cup {"ISSUED", "REDEEMED", "EXPIRED"}
Busy == {"taken", "redeeming", "binding", "claiming", "accepting", "prompting",
         "rejecting"}
Connected == {n \in Codes : chat[n] # {}}

Init ==
  /\ says = [u \in Updates |-> Unsaid]
  /\ stage = [u \in Updates |-> "unsent"]
  /\ holds = [u \in Updates |-> {}]
  /\ code = [c \in Codes |-> "NONE"]
  /\ chat = [c \in Codes |-> {}]
  /\ row = [u \in Updates |-> {}]
  /\ button = [x \in Buttons |-> "NONE"]
  /\ pending = [c \in Chats |-> {}]
  /\ old = {}
  /\ calls = {} /\ welcome = {} /\ forgotten = {}

-----------------------------------------------------------------------------
Go(u, s) == stage' = [stage EXCEPT ![u] = s]

Is(u, kind, s) == stage[u] = s /\ says[u].kind = kind

Call(u, x) == calls' = calls \cup {[button |-> x, update |-> u]}

\* What an update has taken upon itself and would be lost with it.
InHand(u) ==
  holds[u] \cup IF stage[u] \in {"accepting", "prompting"} THEN {says[u].button} ELSE {}

-----------------------------------------------------------------------------
\* The owner, or whoever else has the chat, taps, writes or starts.
Send(u, m) ==
  /\ stage[u] = "unsent"
  /\ m \in Taps => button[m.button] # "NONE"
  /\ m \in Starts => code[m.code] \notin Requested
  /\ says' = [says EXCEPT ![u] = m]
  /\ welcome' = welcome \cup {<<u, n>> : n \in {c \in Codes : m.chat \in chat[c]}}
  /\ Go(u, "sent")
  /\ UNCHANGED <<holds, connection, button, memory, calls, forgotten>>

\* The first delivery, the one that inserts the update_id.
Deliver(u) ==
  /\ stage[u] = "sent"
  /\ Go(u, "taken")
  /\ UNCHANGED <<says, holds, connection, button, memory, history>>

-----------------------------------------------------------------------------
(* Connecting.                                                             *)

\* connectOwner: an owner who is connected gets no code.
AskForCode(c) ==
  /\ code[c] = "NONE" /\ Connected = {}
  /\ code' = [code EXCEPT ![c] = "ASKED"]
  /\ UNCHANGED <<says, stage, holds, chat, row, button, memory, history>>

\* expireActiveCodes.
ExpireCodes(c) ==
  /\ code[c] = "ASKED"
  /\ code' = [d \in Codes |-> IF d = c THEN "ISSUING"
                              ELSE IF code[d] = "ISSUED" THEN "EXPIRED" ELSE code[d]]
  /\ UNCHANGED <<says, stage, holds, chat, row, button, memory, history>>

IssueCode(c) ==
  /\ code[c] = "ISSUING"
  /\ code' = [code EXCEPT ![c] = "ISSUED"]
  /\ UNCHANGED <<says, stage, holds, chat, row, button, memory, history>>

\* redeem reads the code; one found overdue is marked.
ReadCode(u) ==
  /\ Is(u, "start", "taken") /\ code[says[u].code] = "ISSUED"
  /\ \/ Go(u, "redeeming") /\ UNCHANGED code
     \/ Go(u, "done") /\ code' = [code EXCEPT ![says[u].code] = "EXPIRED"]
  /\ UNCHANGED <<says, holds, chat, row, button, memory, history>>

\* The transaction locks the code's row, without a look at its state, and finds
\* the owner's connection: the newest, by a clock the commits need not follow.
FindConnection(u) ==
  /\ stage[u] = "redeeming"
  /\ \A v \in Updates : stage[v] = "binding" => says[v].code # says[u].code
  /\ IF Connected = {} THEN UNCHANGED row
     ELSE \E n \in Connected : row' = [row EXCEPT ![u] = {n}]
  /\ Go(u, "binding")
  /\ UNCHANGED <<says, holds, code, chat, button, memory, history>>

\* It commits, unless another connection has the chat.
Bind(u) ==
  /\ stage[u] = "binding"
  /\ \E n \in IF row[u] = {} THEN {says[u].code} ELSE row[u] :
       /\ \A m \in Codes \ {n} : says[u].chat \notin chat[m]
       /\ chat' = [chat EXCEPT ![n] = {says[u].chat}]
       /\ welcome' = welcome \cup
            {<<v, n>> : v \in {w \in Updates : /\ stage[w] \in {"sent", "taken"}
                                              /\ says[w].chat = says[u].chat}}
  /\ code' = [code EXCEPT ![says[u].code] = "REDEEMED"]
  /\ row' = [row EXCEPT ![u] = {}]
  /\ Go(u, "done")
  /\ UNCHANGED <<says, holds, button, memory, calls, forgotten>>

-----------------------------------------------------------------------------
(* Buttons.                                                                *)

\* writeOwnerDeliveries: two buttons for each connection.
Publish(b) ==
  /\ Connected # {} /\ \A x \in Buttons : x.booking = b => button[x] = "NONE"
  /\ button' = [x \in Buttons |->
       IF x.booking = b /\ x.connection \in Connected THEN "OPEN" ELSE button[x]]
  /\ UNCHANGED <<says, stage, holds, connection, memory, history>>

ReadAnyChat(u) ==   \* mutant: no comparison with the connection's chat
  /\ Is(u, "tap", "taken") /\ button[says[u].button] = "OPEN"
  /\ Go(u, "claiming")
  /\ UNCHANGED <<says, holds, connection, button, memory, history>>

\* claim: the button is open, and the tap comes from its connection's chat.
ReadButton(u) ==
  /\ Is(u, "tap", "taken") /\ button[says[u].button] = "OPEN"
  /\ chat[says[u].button.connection] = {says[u].chat}
  /\ Go(u, "claiming")
  /\ UNCHANGED <<says, holds, connection, button, memory, history>>

ClaimBlindly(u) ==   \* mutant: the update has no WHERE state = OPEN
  /\ stage[u] = "claiming"
  /\ button' = [button EXCEPT ![says[u].button] = "USED"]
  /\ Go(u, IF says[u].button.action = "accept" THEN "accepting" ELSE "prompting")
  /\ UNCHANGED <<says, holds, connection, memory, history>>

\* UPDATE ... WHERE state = OPEN.  The chat is not looked at again.
Claim(u) ==
  /\ stage[u] = "claiming" /\ button[says[u].button] = "OPEN"
  /\ button' = [button EXCEPT ![says[u].button] = "USED"]
  /\ Go(u, IF says[u].button.action = "accept" THEN "accepting" ELSE "prompting")
  /\ UNCHANGED <<says, holds, connection, memory, history>>

\* acceptProof; the button is used, whatever comes of the call.
Accept(u) ==
  /\ stage[u] = "accepting"
  /\ Call(u, says[u].button)
  /\ Go(u, "done")
  /\ UNCHANGED <<says, holds, connection, button, memory, welcome, forgotten>>

\* startReject: a chat remembers one rejection, the last.
Prompt(u) ==
  /\ stage[u] = "prompting"
  /\ pending' = [pending EXCEPT ![says[u].chat] = {says[u].button}]
  /\ old' = old \ {says[u].chat}
  /\ forgotten' = forgotten \cup pending[says[u].chat]
  /\ Go(u, "done")
  /\ UNCHANGED <<says, holds, connection, button, calls, welcome>>

-----------------------------------------------------------------------------
(* submitRejectReason.  The look at the memory and the removal are one     *)
(* step of the event loop.                                                 *)

TakeOldPrompt(u) ==
  /\ Is(u, "text", "taken") /\ says[u].chat \in old
  /\ pending' = [pending EXCEPT ![says[u].chat] = {}]
  /\ old' = old \ {says[u].chat}
  /\ forgotten' = forgotten \cup pending[says[u].chat]
  /\ Go(u, "done")
  /\ UNCHANGED <<says, holds, connection, button, calls, welcome>>

ForgetPrompt(u) ==   \* mutant: the prompt is removed before it is looked at
  /\ Is(u, "text", "taken") /\ says[u].chat \notin old /\ pending[says[u].chat] # {}
  /\ pending' = [pending EXCEPT ![says[u].chat] = {}]
  /\ Go(u, "rejecting")
  /\ UNCHANGED <<says, holds, connection, button, old, history>>

\* The rejection is this update's alone from here on.
TakePrompt(u) ==
  /\ Is(u, "text", "taken") /\ says[u].chat \notin old /\ pending[says[u].chat] # {}
  /\ holds' = [holds EXCEPT ![u] = pending[says[u].chat]]
  /\ pending' = [pending EXCEPT ![says[u].chat] = {}]
  /\ Go(u, "rejecting")
  /\ UNCHANGED <<says, connection, button, old, history>>

\* rejectProof, in the name of the connection's user, from whatever chat.
Reject(u) ==
  /\ stage[u] = "rejecting"
  /\ \E x \in holds[u] : Call(u, x)
  /\ holds' = [holds EXCEPT ![u] = {}]
  /\ Go(u, "done")
  /\ UNCHANGED <<says, connection, button, memory, welcome, forgotten>>

-----------------------------------------------------------------------------
\* The update is ignored or refused, or a step fails: nothing else happens.
Stop(u) ==
  /\ stage[u] \in Busy
  /\ forgotten' = forgotten \cup InHand(u)
  /\ holds' = [holds EXCEPT ![u] = {}]
  /\ row' = [row EXCEPT ![u] = {}]
  /\ Go(u, "done")
  /\ UNCHANGED <<says, code, chat, button, memory, calls, welcome>>

PromptGrowsOld(c) ==
  /\ pending[c] # {} /\ c \notin old
  /\ old' = old \cup {c}
  /\ UNCHANGED <<says, stage, holds, connection, button, pending, history>>

\* What is under way and what is remembered is lost.
Restart ==
  /\ (\E u \in Updates : stage[u] \in Busy) \/ (\E c \in Chats : pending[c] # {})
  /\ stage' = [u \in Updates |-> IF stage[u] \in Busy THEN "done" ELSE stage[u]]
  /\ forgotten' = forgotten \cup (UNION {InHand(u) : u \in Updates})
                    \cup (UNION {pending[c] : c \in Chats})
  /\ holds' = [u \in Updates |-> {}]
  /\ row' = [u \in Updates |-> {}]
  /\ pending' = [c \in Chats |-> {}]
  /\ old' = {}
  /\ UNCHANGED <<says, code, chat, button, calls, welcome>>

Next ==
  \/ \E u \in Updates :
       \/ \E m \in Taps \cup Texts \cup Starts : Send(u, m)
       \/ Deliver(u)
       \/ ReadCode(u)      \/ FindConnection(u) \/ Bind(u)
       \/ ReadButton(u)    \/ Claim(u)      \/ Accept(u)  \/ Prompt(u)
       \/ TakeOldPrompt(u) \/ TakePrompt(u) \/ Reject(u)
       \/ Stop(u)
  \/ \E c \in Codes : AskForCode(c) \/ ExpireCodes(c) \/ IssueCode(c)
  \/ \E b \in Bookings : Publish(b)
  \/ \E c \in Chats : PromptGrowsOld(c)
  \/ Restart

Spec == Init /\ [][Next]_vars

-----------------------------------------------------------------------------
(* Properties                                                              *)

\* Every variable stays in its domain; what is remembered, or about to be done,
\* is a rejection whose button is used.
TypeOK ==
  /\ says \in [Updates -> Taps \cup Texts \cup Starts \cup {Unsaid}]
  /\ stage \in [Updates -> Busy \cup {"unsent", "sent", "done"}]
  /\ code \in [Codes -> CodeStates]
  /\ \A c \in Codes : chat[c] \subseteq Chats /\ Cardinality(chat[c]) <= 1
  /\ welcome \subseteq Updates \X Codes
  /\ row \in [Updates -> SUBSET Codes]
  /\ button \in [Buttons -> {"NONE", "OPEN", "USED"}]
  /\ old \subseteq Chats
  /\ calls \subseteq [button : Buttons, update : Updates]
  /\ forgotten \subseteq Buttons
  /\ \A x \in Buttons :
       (\E u \in Updates : x \in holds[u]) \/ (\E c \in Chats : x \in pending[c])
         => x.action = "reject" /\ button[x] = "USED"

\* However often a button is tapped, a message sent or an update delivered, a
\* button makes one call, and so does an update.
OneCallEach ==
  \A x, y \in calls : x.button = y.button \/ x.update = y.update => x = y

\* A decision comes from a chat in which its own button was tapped, and which the
\* button's connection had after the tap was made: once a connection has moved to
\* another chat, nothing that is tapped in the old one decides anything.
DecidedInOwnersChat ==
  \A x \in calls : \E u \in Updates :
    /\ says[u] \in Taps /\ says[u].button = x.button
    /\ says[u].chat = says[x.update].chat
    /\ <<u, x.button.connection>> \in welcome

\* A used button that has made no call yet is being handled or waits for its
\* reason, unless an error, a restart, an old prompt or a later one undid it.
UsedTapsExplained ==
  \A x \in Buttons :
    button[x] = "USED" =>
      \/ \E y \in calls : y.button = x
      \/ \E u \in Updates : x \in InHand(u)
      \/ \E c \in Chats : x \in pending[c]
      \/ x \in forgotten
=============================================================================
