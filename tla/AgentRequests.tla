---------------------------- MODULE AgentRequests ----------------------------
(* The life of one incoming message: internal/core/agent.go from attachment to *)
(* reply, through the button interface (internal/telegram/ui) and the pending  *)
(* clarification of the chat. With polling one message is handled at a time;   *)
(* with a webhook every message has a goroutine of its own, and what lies      *)
(* between two calls of the store or of the database is open to the others.    *)
EXTENDS UISessions, Faults

CONSTANTS
  Handlers,     \* goroutines that handle messages
  Allowed,      \* users the configuration allows
  Confirming,   \* skills that are mutating or declare a Confirm prompt
  Chat,         \* the chat skill
  Questions,    \* clarification questions, numbered in the order they are asked
  NoQuestion,
  NoToken,
  MaxMessages   \* bound: messages sent

ASSUME RequestsAssumption ==
  /\ Allowed \subseteq Users
  /\ MaxMessages \in Nat
  /\ NoToken \notin Tokens
  /\ Questions \subseteq Nat
  /\ Confirming \subseteq Skills
  /\ Chat \in Skills /\ Inputs[Chat] = 0 /\ Chat \notin Confirming

VARIABLES
  mode,        \* "polling" or "webhook"; never changes
  handler,     \* handler[h]: the message h works on and where it is
  question,    \* agent.db: the pending clarification of the chat
  ran,         \* history: ran[t] = how often the call behind token t was executed
  confirmer,   \* history: who pressed Confirm when it was claimed
  loaded,      \* history: loaded[q] = how many messages were routed with question q
  sent         \* messages sent so far

requests == <<mode, handler, question, ran, confirmer, loaded, sent, faults>>
vars == <<sessions, requests>>

\* What a message can be. A button press carries what the button encodes.
Typed == {"text", "command", "screen", "chat_screen", "status_screen", "menu", "voice", "image", "document"}
Presses == {"skill", "action", "quick", "navigate", "confirm", "cancel"}

Idle(s) == [at |-> "idle", user |-> NoUser, kind |-> "text", skill |-> s, token |-> NoToken,
            field |-> 0, filled |-> {}, via |-> "none", asked |-> NoQuestion, decision |-> "none"]

Stages == {"idle", "attach", "auth", "press", "ui", "peek", "answer", "finish", "watch",
           "route", "load", "clear", "decide", "exec", "reply"}

\* What a handler works on: a message, and what was made of it so far.
Work == [at : Stages, user : Users \cup {NoUser}, kind : Typed \cup Presses, skill : Skills,
         token : Tokens \cup {NoToken}, field : Nat, filled : SUBSET AllFields,
         via : {"none", "button", "flow", "confirmed", "command", "router"},
         asked : Questions \cup {NoQuestion},
         decision : {"none", "skill", "chat", "clarify"}]

TypeOK ==
  /\ SessionsTypeOK
  /\ mode \in {"polling", "webhook"}
  /\ handler \in [Handlers -> Work]
  /\ question \in [id : Questions, stale : BOOLEAN] \cup {NoQuestion}
  /\ ran \in [Tokens -> Nat]
  /\ confirmer \in [Tokens -> Users \cup {NoUser}]
  /\ loaded \in [Questions -> Nat]
  /\ sent \in 0 .. MaxMessages /\ FaultsTypeOK

Init ==
  /\ SessionsInit
  /\ mode \in {"polling", "webhook"}
  /\ handler = [h \in Handlers |-> Idle(Chat)]
  /\ question = NoQuestion
  /\ ran = [t \in Tokens |-> 0]
  /\ confirmer = [t \in Tokens |-> NoUser]
  /\ loaded = [q \in Questions |-> 0]
  /\ sent = 0 /\ FaultsInit

(* -------------------------------- helpers -------------------------------- *)

At(h, stage) == handler[h].at = stage
Set(h, rec) == handler' = [handler EXCEPT ![h] = rec]
Goto(h, stage) == handler' = [handler EXCEPT ![h].at = stage]
Done(h) == Set(h, Idle(Chat))
Execute(h, s, via) ==
  handler' = [handler EXCEPT ![h].at = "exec", ![h].skill = s, ![h].via = via]

HistoryKept == UNCHANGED <<ran, confirmer, loaded>>

\* confirmAndRun: the call is stored under a fresh token, then the prompt is sent.
ConfirmAndRun(h, s) ==
  /\ \E t \in Tokens :
       /\ StoreMutation(t, s, handler[h].user)
       /\ \A r \in Tokens : mutation[r].state = "free" => t <= r
  /\ Goto(h, "reply")

\* A command names a skill, a menu button too; the buttons of a confirmation
\* carry the token of a call that was stored before they were sent.
Carried(k, s, t) ==
  /\ k \notin {"command", "skill"} => s = Chat
  /\ (k \in {"confirm", "cancel"}) = (t # NoToken)
  /\ t # NoToken => mutation[t].state # "free"

FirstStage(k) == IF k \in {"voice", "image", "document"} THEN "attach" ELSE "auth"

\* A slash command: it names a skill, never fills in a field or a question.
IsCommand(h) == handler[h].kind = "command"

\* What the router is asked again about when a question is pending.
LooksLikeAnswer(h) == handler[h].kind = "text"

(* ------------------------ arrival and attachments ------------------------ *)

\* Polling hands over the next message when the last one is done.
Receive(h) ==
  /\ At(h, "idle")
  /\ mode = "polling" => \A g \in Handlers : At(g, "idle")
  /\ sent < MaxMessages
  /\ sent' = sent + 1
  /\ \E u \in Users, k \in Typed \cup Presses, s \in Skills, t \in Tokens \cup {NoToken} :
       /\ Carried(k, s, t)
       /\ Set(h, [Idle(s) EXCEPT !.user = u, !.kind = k, !.token = t, !.at = FirstStage(k)])
  /\ UNCHANGED <<sessions, mode, question, faults>>
  /\ HistoryKept

\* A voice note becomes what was said; without a transcript the user is told.
Voice(h) ==
  /\ At(h, "attach") /\ handler[h].kind = "voice"
  /\ \/ \E k \in {"text", "menu"} :
          handler' = [handler EXCEPT ![h].kind = k, ![h].at = "auth"]
     \/ Goto(h, "reply")
  /\ UNCHANGED <<sessions, mode, question, sent, faults>>
  /\ HistoryKept

\* Refused, too large, not downloaded, not archived, known or saved: one reply
\* each; with memory off the message is dropped.
Document(h) ==
  /\ At(h, "attach") /\ handler[h].kind = "document"
  /\ Goto(h, "reply") \/ Done(h)
  /\ UNCHANGED <<sessions, mode, question, sent, faults>>
  /\ HistoryKept

\* A picture answers a pending prompt with its path when it can be downloaded;
\* otherwise the inbox deals with it, before any command or flow.
Image(h) ==
  /\ At(h, "attach") /\ handler[h].kind = "image"
  /\ Pending
  /\ \/ HasFlow /\ handler' = [handler EXCEPT ![h].kind = "text", ![h].at = "auth"]
     \/ Goto(h, "reply")
  /\ UNCHANGED <<mutation, freeChat, mode, question, sent, faults>>
  /\ HistoryKept

Authorize(h) ==
  /\ At(h, "auth")
  /\ Goto(h, IF handler[h].user \notin Allowed THEN "reply"
             ELSE IF handler[h].kind \in Presses THEN "press" ELSE "ui")
  /\ UNCHANGED <<sessions, mode, question, sent, faults>>
  /\ HistoryKept

(* ------------------------------- buttons ------------------------------- *)

\* A button of a skill: its fields are asked for first, then the confirmation.
PressSkill(h) ==
  /\ At(h, "press") /\ handler[h].kind = "skill"
  /\ LET s == handler[h].skill IN
     \/ Inputs[s] > 0 /\ StartInput(s) /\ Goto(h, "reply") /\ UNCHANGED mutation
     \/ Inputs[s] = 0 /\ s \in Confirming /\ ConfirmAndRun(h, s) /\ UNCHANGED flow
     \/ Inputs[s] = 0 /\ s \notin Confirming /\ Execute(h, s, "button")
        /\ UNCHANGED <<flow, mutation>>
  /\ UNCHANGED <<freeChat, mode, question, sent, faults>>
  /\ HistoryKept

\* The contextual buttons: restart and watch ask, refresh and logs run.
PressAction(h) ==
  /\ At(h, "press") /\ handler[h].kind = "action"
  /\ \/ \E s \in Confirming : ConfirmAndRun(h, s)
     \/ \E s \in Skills \ Confirming : Execute(h, s, "button") /\ UNCHANGED mutation
  /\ UNCHANGED <<flow, freeChat, mode, question, sent, faults>>
  /\ HistoryKept

\* Quick actions are read-only skills without input.
PressQuick(h) ==
  /\ At(h, "press") /\ handler[h].kind = "quick"
  /\ \E s \in Skills \ Confirming : Inputs[s] = 0 /\ Execute(h, s, "button")
  /\ UNCHANGED <<sessions, mode, question, sent, faults>>
  /\ HistoryKept

\* Home, group, page, Back, and the Cancel button of an input prompt, which is
\* a Back button: the message is edited and nothing else changes.
PressNavigate(h) ==
  /\ At(h, "press") /\ handler[h].kind = "navigate"
  /\ Goto(h, "reply")
  /\ UNCHANGED <<sessions, mode, question, sent, faults>>
  /\ HistoryKept

PressConfirm(h) ==
  /\ At(h, "press") /\ handler[h].kind = "confirm"
  /\ LET t == handler[h].token IN
     /\ ClaimMutation(t, handler[h].user)
     /\ \/ /\ Claimable(t, handler[h].user)
           /\ Execute(h, mutation[t].skill, "confirmed")
           /\ confirmer' = [confirmer EXCEPT ![t] = handler[h].user]
        \/ ~Claimable(t, handler[h].user) /\ Goto(h, "reply") /\ UNCHANGED confirmer
  /\ UNCHANGED <<flow, freeChat, mode, question, ran, loaded, sent, faults>>

PressCancel(h) ==
  /\ At(h, "press") /\ handler[h].kind = "cancel"
  /\ CancelMutation(handler[h].token, handler[h].user)
  /\ Goto(h, "reply")
  /\ UNCHANGED <<flow, freeChat, mode, question, sent, faults>>
  /\ HistoryKept

(* ---------------------------- the UI pipeline ---------------------------- *)

\* A tap on the reply keyboard or /menu ends a pending flow and opens a screen;
\* Status runs the status skill, AI turns free chat on.
Screen(h) ==
  /\ At(h, "ui")
  /\ handler[h].kind \in {"screen", "chat_screen", "status_screen", "menu"}
  /\ ClearInput
  /\ freeChat' = (handler[h].kind = "chat_screen")
  /\ IF handler[h].kind = "status_screen"
     THEN \E s \in Skills \ Confirming : Inputs[s] = 0 /\ Execute(h, s, "button")
     ELSE Goto(h, "reply")
  /\ UNCHANGED <<mutation, mode, question, sent, faults>>
  /\ HistoryKept

\* A new command ends a pending flow.
EndFlow(h) ==
  /\ At(h, "ui") /\ handler[h].kind \in {"text", "command"}
  /\ IF HasFlow /\ IsCommand(h) THEN ClearInput ELSE Pending
  /\ Goto(h, "peek")
  /\ UNCHANGED <<mutation, freeChat, mode, question, sent, faults>>
  /\ HistoryKept

\* Is a flow pending? The message then is its next field; else it is free chat,
\* or goes on to the watches and the router.
Peek(h) ==
  /\ At(h, "peek")
  /\ Pending
  /\ \/ /\ HasFlow
        /\ flow.step < Inputs[flow.skill]
        /\ handler' = [handler EXCEPT ![h].at = "answer", ![h].skill = flow.skill,
                                      ![h].field = flow.step]
     \/ /\ ~HasFlow
        /\ IF freeChat /\ handler[h].kind = "text" THEN Execute(h, Chat, "router")
           ELSE Goto(h, "watch")
  /\ UNCHANGED <<mutation, freeChat, mode, question, sent, faults>>
  /\ HistoryKept

\* Every field was answered by another handler, whose ClearInput is yet to come.
PeekPastEnd(h) ==
  /\ At(h, "peek")
  /\ HasFlow /\ flow.step >= Inputs[flow.skill]
  /\ ClearInput
  /\ Done(h)
  /\ UNCHANGED <<mutation, freeChat, mode, question, sent, faults>>
  /\ HistoryKept

\* The value is refused, or recorded in whatever flow the chat has by now.
Answer(h) ==
  /\ At(h, "answer")
  /\ \/ Goto(h, "reply") /\ UNCHANGED flow
     \/ flow = NoFlow /\ Done(h) /\ UNCHANGED flow
     \/ /\ AdvanceInput(handler[h].skill, handler[h].field)
        /\ handler' = [handler EXCEPT ![h].filled = flow'.filled,
             ![h].at = IF flow'.step < Inputs[handler[h].skill] THEN "reply" ELSE "finish"]
  /\ UNCHANGED <<mutation, freeChat, mode, question, sent, faults>>
  /\ HistoryKept

\* Faulty: a flow's last answer runs the skill, mutating or not.
FinishUnasked(h) ==
  /\ At(h, "finish")
  /\ ClearInput
  /\ Execute(h, handler[h].skill, "flow") /\ UNCHANGED mutation
  /\ UNCHANGED <<freeChat, mode, question, sent, faults>>
  /\ HistoryKept

\* The last field: the flow is over and the call is confirmed or made.
Finish(h) ==
  /\ At(h, "finish")
  /\ ClearInput
  /\ IF handler[h].skill \in Confirming
     THEN ConfirmAndRun(h, handler[h].skill)
     ELSE Execute(h, handler[h].skill, "flow") /\ UNCHANGED mutation
  /\ UNCHANGED <<freeChat, mode, question, sent, faults>>
  /\ HistoryKept

(* ------------------------- watches and the router ------------------------- *)

\* The watch service takes yes, no and its buttons, and answers them itself.
WatchAction(h) ==
  /\ At(h, "watch")
  /\ Goto(h, "route") \/ Done(h)
  /\ UNCHANGED <<sessions, mode, question, sent, faults>>
  /\ HistoryKept

\* The classifier may fail: the message ends here and the question stays.
Route(h) ==
  /\ At(h, "route")
  /\ \/ handler[h].kind = "text" /\ Goto(h, "reply")
     \/ \E d \in IF IsCommand(h) THEN {"skill"} ELSE {"none", "skill", "chat", "clarify"} :
          handler' = [handler EXCEPT ![h].decision = d, ![h].at = "load"]
  /\ UNCHANGED <<sessions, mode, question, sent, faults>>
  /\ HistoryKept

\* An answer is routed again, with the question before it; a command never is.
\* A question past its TTL is removed and not used.
LoadQuestion(h) ==
  /\ At(h, "load")
  /\ \/ /\ question # NoQuestion /\ ~question.stale
        /\ loaded' = [loaded EXCEPT ![question.id] = @ + 1]
        /\ \E d \in IF LooksLikeAnswer(h) THEN {handler[h].decision, "none", "skill", "chat", "clarify"}
                    ELSE {handler[h].decision} :
             handler' = [handler EXCEPT ![h].at = "clear", ![h].asked = question.id, ![h].decision = d]
        /\ UNCHANGED <<question, faults>>
     \/ /\ question # NoQuestion /\ question.stale
        /\ question' = NoQuestion
        /\ Goto(h, "decide") /\ UNCHANGED <<loaded, faults>>
     \/ /\ question = NoQuestion \/ CanFail("db_failed")
        /\ IF question = NoQuestion THEN NoFault ELSE Fault
        /\ Goto(h, "decide") /\ UNCHANGED <<question, loaded>>
  /\ UNCHANGED <<sessions, mode, ran, confirmer, sent>>

\* The question is cleared, whether it was used or not; a failed write is logged.
ClearQuestion(h) ==
  /\ At(h, "clear")
  /\ \/ question' = NoQuestion /\ NoFault
     \/ CanFail("db_failed") /\ Fault /\ UNCHANGED question
  /\ Goto(h, "decide")
  /\ UNCHANGED <<sessions, mode, sent>>
  /\ HistoryKept

NextQuestion == {q \in Questions : \A p \in Questions : loaded[p] > 0 => p < q}

\* A question is stored and asked.
Clarify(h) ==
  /\ At(h, "decide") /\ handler[h].decision = "clarify"
  /\ \/ /\ \E q \in NextQuestion :
             question' = [id |-> q, stale |-> FALSE] /\ \A p \in NextQuestion : q <= p
        /\ NoFault
     \/ CanFail("db_failed") /\ Fault /\ UNCHANGED question
  /\ Goto(h, "reply")
  /\ UNCHANGED <<sessions, mode, sent>>
  /\ HistoryKept

\* What the router chose is executed. A bare command of a skill that needs input
\* opens a flow unless the router filled in its (empty) argument; an unmatched
\* message is for the chat skill.
Decide(h) ==
  /\ At(h, "decide") /\ handler[h].decision # "clarify"
  /\ \/ /\ IsCommand(h) /\ Inputs[handler[h].skill] > 0
        /\ StartInput(handler[h].skill)
        /\ Done(h)
     \/ IsCommand(h) /\ Execute(h, handler[h].skill, "command") /\ UNCHANGED flow
     \/ /\ ~IsCommand(h)
        /\ \E s \in IF handler[h].decision = "skill" THEN Skills ELSE {Chat} : Execute(h, s, "router")
        /\ UNCHANGED flow
  /\ UNCHANGED <<mutation, freeChat, mode, question, sent, faults>>
  /\ HistoryKept

(* --------------------------- execution and reply -------------------------- *)

Exec(h) ==
  /\ At(h, "exec")
  /\ ran' = IF handler[h].via = "confirmed" THEN [ran EXCEPT ![handler[h].token] = @ + 1] ELSE ran
  /\ Goto(h, "reply")
  /\ UNCHANGED <<sessions, mode, question, confirmer, loaded, sent, faults>>

Reply(h) ==
  /\ At(h, "reply")
  /\ Done(h)
  /\ UNCHANGED <<sessions, mode, question, sent, faults>>
  /\ HistoryKept

Restart ==
  /\ SessionsLost
  /\ handler' = [h \in Handlers |-> Idle(Chat)]
  /\ Fault
  /\ UNCHANGED <<mode, question, sent>>
  /\ HistoryKept

\* A reply that cannot be sent ends Poll, and with it the process, which the
\* service manager starts again; a webhook handler only logs it.
ReplyFails(h) ==
  /\ At(h, "reply") /\ CanFail("reply_failed")
  /\ \/ mode = "polling" /\ Restart
     \/ mode = "webhook" /\ Done(h) /\ Fault
        /\ UNCHANGED <<sessions, mode, question, sent>> /\ HistoryKept

Crash == CanFail("crash") /\ Restart

(* ------------------------------ environment ------------------------------ *)

TimePasses ==
  /\ \/ FlowExpires /\ UNCHANGED question
     \/ (\E t \in Tokens : MutationExpires(t)) /\ UNCHANGED question
     \/ /\ question # NoQuestion /\ ~question.stale
        /\ question' = [question EXCEPT !.stale = TRUE]
        /\ UNCHANGED sessions
  /\ UNCHANGED <<mode, handler, sent, faults>>
  /\ HistoryKept

Next ==
  \/ \E h \in Handlers :
       \/ Receive(h) \/ Voice(h) \/ Document(h) \/ Image(h) \/ Authorize(h)
       \/ PressSkill(h) \/ PressAction(h) \/ PressQuick(h) \/ PressNavigate(h)
       \/ PressConfirm(h) \/ PressCancel(h)
       \/ Screen(h) \/ EndFlow(h) \/ Peek(h) \/ PeekPastEnd(h) \/ Answer(h) \/ Finish(h)
       \/ WatchAction(h) \/ Route(h) \/ LoadQuestion(h) \/ ClearQuestion(h)
       \/ Clarify(h) \/ Decide(h) \/ Exec(h) \/ Reply(h) \/ ReplyFails(h)
  \/ Crash \/ TimePasses

Spec == Init /\ [][Next]_vars

(* ------------------------------- properties ------------------------------- *)

\* A stored call is executed at most once, and only after its owner pressed
\* Confirm: not after Cancel, not after the restart that lost it, and not by
\* another member of the chat (sessions.go:144-178, ui.go:419-434).
ConfirmedByOwnerOnce ==
  \A t \in Tokens :
    /\ ran[t] <= 1
    /\ ran[t] = 1 => /\ mutation[t].state = "claimed"
                     /\ confirmer[t] = mutation[t].owner

\* The call behind a claimed token is in the hands of at most one handler, which
\* has not made it yet: the strengthening that makes ConfirmedByOwnerOnce inductive.
ClaimsHeld ==
  /\ \A h \in Handlers : At(h, "exec") /\ handler[h].via = "confirmed" =>
       /\ handler[h].token \in Tokens
       /\ mutation[handler[h].token].state = "claimed"
       /\ ran[handler[h].token] = 0
       /\ \A g \in Handlers \ {h} :
            ~(At(g, "exec") /\ handler[g].via = "confirmed" /\ handler[g].token = handler[h].token)
  /\ \A t \in Tokens :
       /\ mutation[t].state # "claimed" => ran[t] = 0
       /\ mutation[t].state = "claimed" => confirmer[t] = mutation[t].owner

\* Through buttons and input flows a skill that wants a confirmation is run with
\* one, whatever the way to it: its menu button, a contextual button, a screen or
\* the last answer of a flow (ui.go:218-229, 496-503).
ButtonsAsk ==
  \A h \in Handlers : At(h, "exec") /\ handler[h].via \in {"button", "flow"} =>
    handler[h].skill \notin Confirming

\* With one message at a time a flow's skill gets every field it declares.
\* (Two webhook handlers may answer the same field and leave the last one out.)
FieldsComplete ==
  mode = "polling" => \A h \in Handlers :
    At(h, "finish") => handler[h].filled = Fields(handler[h].skill)

\* With one message at a time a command, /menu or a tap on the keyboard is never
\* taken as the answer to a prompt (agent.go:297-322).
CommandsEscape ==
  mode = "polling" => \A h \in Handlers : At(h, "answer") => handler[h].kind = "text"

\* With one message at a time the router sees a clarification question with one
\* message only; a second one needs a failed write (agent.go:355-358).
QuestionUsedOnce ==
  mode = "polling" => \A q \in Questions : loaded[q] <= 1 + faults

\* A dialogue asks what its skill needs, ends when the user leaves it, and is
\* never answered twice (HandlePendingInput, AdvanceInput, shouldUsePendingClarification).
DialoguesHold == ButtonsAsk /\ FieldsComplete /\ CommandsEscape /\ QuestionUsedOnce

Status == [t \in Tokens |->
  CASE mutation[t].state = "free" -> "none"
    [] mutation[t].state = "stored" -> "offered"
    [] mutation[t].state = "claimed" -> (IF ran[t] = 0 THEN "accepted" ELSE IF ran[t] = 1 THEN "done" ELSE "twice")
    [] OTHER -> "withdrawn"]

Confirmation == INSTANCE OneShotConfirmation WITH status <- Status

\* The store and its callers implement the promise of a Confirm button.
KeepsConfirmation == Confirmation!Spec
=============================================================================
