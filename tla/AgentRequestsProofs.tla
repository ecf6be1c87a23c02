-------------------------- MODULE AgentRequestsProofs --------------------------
(***************************************************************************)
(* A stored call is executed at most once and only after its owner pressed *)
(* Confirm, and buttons and input flows never execute a skill that wants a *)
(* confirmation: for any number of users, skills, tokens and handlers, with*)
(* polling or webhook, whatever crashes. The invariant says of a claimed   *)
(* call that one handler at most has it in hand. Every other step leaves   *)
(* the claimed calls, and who has them, alone.                             *)
(***************************************************************************)
EXTENDS AgentRequests, TLAPS

\* A Confirm or Cancel button carries a token, and an answer is one of a field.
Carriage ==
  \A h \in Handlers :
    /\ handler[h].kind \in {"confirm", "cancel"} => handler[h].token \in Tokens
    /\ At(h, "answer") => handler[h].field \in Fields(handler[h].skill)

RequestsInv == TypeOK /\ Carriage /\ ButtonsAsk /\ ClaimsHeld /\ ConfirmedByOwnerOnce

\* h has a confirmed call in hand.
Holds(h) == At(h, "exec") /\ handler[h].via = "confirmed"

\* A step that is no Confirm and no execution: nobody gets a claimed call, and a
\* stored call is offered or withdrawn.
NobodyClaims == \A h \in Handlers : Holds(h)' => Holds(h) /\ handler'[h].token = handler[h].token
OffersOnly ==
  \A t \in Tokens :
    \/ mutation'[t].state = mutation[t].state /\ mutation'[t].owner = mutation[t].owner
    \/ mutation[t].state = "free" /\ mutation'[t].state = "stored"
    \/ mutation[t].state = "stored" /\ mutation'[t].state \in {"cancelled", "gone"}
Aside == NobodyClaims /\ OffersOnly /\ UNCHANGED <<ran, confirmer>>

\* What a step does to the handler that takes it, when the others stand still.
Others(h) == \A g \in Handlers \ {h} : handler'[g] = handler[g]
Moves(h, stage) ==
  /\ handler' \in [Handlers -> Work] /\ Others(h)
  /\ handler'[h].at = stage

LEMMA GotoMoves ==
  ASSUME handler \in [Handlers -> Work], NEW h \in Handlers, NEW stage \in Stages, Goto(h, stage)
  PROVE  /\ Moves(h, stage)
         /\ handler'[h].kind = handler[h].kind /\ handler'[h].token = handler[h].token
         /\ handler'[h].field = handler[h].field /\ handler'[h].skill = handler[h].skill
         /\ handler'[h].via = handler[h].via
BY DEF Goto, Moves, Others, Work

LEMMA ExecuteMoves ==
  ASSUME handler \in [Handlers -> Work], NEW h \in Handlers, NEW s \in Skills,
         NEW via \in {"none", "button", "flow", "confirmed", "command", "router"}, Execute(h, s, via)
  PROVE  /\ Moves(h, "exec")
         /\ handler'[h].kind = handler[h].kind /\ handler'[h].token = handler[h].token
         /\ handler'[h].skill = s /\ handler'[h].via = via
<1>. DEFINE new == [handler[h] EXCEPT !.at = "exec", !.skill = s, !.via = via]
<1>1. handler[h] \in Work
  OBVIOUS
<1>2. "exec" \in Stages
  BY DEF Stages
<1>3. /\ new \in Work
      /\ new.at = "exec" /\ new.skill = s /\ new.via = via
      /\ new.kind = handler[h].kind /\ new.token = handler[h].token
  BY <1>1, <1>2 DEF Work
<1>4. handler' = [handler EXCEPT ![h] = new]
  BY DEF Execute
<1>5. handler' \in [Handlers -> Work] /\ Others(h) /\ handler'[h] = new
  <2>. HIDE DEF new
  <2>. QED  BY <1>3, <1>4 DEF Others
<1>. QED  BY <1>3, <1>5 DEF Moves

LEMMA IdleType ==
  ASSUME NEW s \in Skills
  PROVE  Idle(s) \in Work
BY DEF Idle, Work, Stages, Typed, Presses

LEMMA DoneMoves ==
  ASSUME handler \in [Handlers -> Work], NEW h \in Handlers, Done(h)
  PROVE  Moves(h, "idle") /\ handler'[h].kind = "text"
<1>1. Idle(Chat) \in Work
  BY IdleType, RequestsAssumption
<1>. QED  BY <1>1 DEF Done, Set, Moves, Others, Idle

\* A handler that moves within its message keeps what it carries.
LEMMA MoveKeepsCarriage ==
  ASSUME Carriage, NEW h \in Handlers, NEW stage, Moves(h, stage), stage # "answer",
         handler'[h].kind \in {"confirm", "cancel"} => handler'[h].token \in Tokens
  PROVE  Carriage'
BY DEF Carriage, Moves, Others, At

LEMMA MoveKeepsAsking ==
  ASSUME ButtonsAsk, NEW h \in Handlers, NEW stage, Moves(h, stage),
         stage = "exec" /\ handler'[h].via \in {"button", "flow"} => handler'[h].skill \notin Confirming
  PROVE  ButtonsAsk'
BY DEF ButtonsAsk, Moves, Others, At

LEMMA MoveClaimsNothing ==
  ASSUME NEW h \in Handlers, NEW stage, Moves(h, stage),
         stage = "exec" => handler'[h].via # "confirmed"
  PROVE  NobodyClaims
BY DEF NobodyClaims, Holds, Moves, Others, At

\* The four facts of a handler's step, from what the handler does.
LEMMA Moved ==
  ASSUME RequestsInv, NEW h \in Handlers, NEW stage \in Stages \ {"answer"}, Moves(h, stage),
         handler'[h].kind \in {"confirm", "cancel"} => handler'[h].token \in Tokens,
         stage = "exec" => /\ handler'[h].via # "confirmed"
                           /\ handler'[h].via \in {"button", "flow"} => handler'[h].skill \notin Confirming
  PROVE  handler' \in [Handlers -> Work] /\ Carriage' /\ ButtonsAsk' /\ NobodyClaims
<1>1. Carriage'
  BY MoveKeepsCarriage DEF RequestsInv
<1>2. ButtonsAsk'
  BY MoveKeepsAsking DEF RequestsInv
<1>3. NobodyClaims
  BY MoveClaimsNothing
<1>. QED  BY <1>1, <1>2, <1>3 DEF Moves

LEMMA GotoAside ==
  ASSUME RequestsInv, NEW h \in Handlers, NEW stage \in Stages \ {"answer", "exec"}, Goto(h, stage)
  PROVE  handler' \in [Handlers -> Work] /\ Carriage' /\ ButtonsAsk' /\ NobodyClaims
<1>1. /\ Moves(h, stage)
      /\ handler'[h].kind = handler[h].kind /\ handler'[h].token = handler[h].token
  BY GotoMoves DEF RequestsInv, TypeOK
<1>2. handler'[h].kind \in {"confirm", "cancel"} => handler'[h].token \in Tokens
  BY <1>1 DEF RequestsInv, Carriage
<1>. QED  BY <1>1, <1>2, Moved

LEMMA ExecuteAside ==
  ASSUME RequestsInv, NEW h \in Handlers, NEW s \in Skills,
         NEW via \in {"button", "flow", "command", "router"}, Execute(h, s, via),
         via \in {"button", "flow"} => s \notin Confirming
  PROVE  handler' \in [Handlers -> Work] /\ Carriage' /\ ButtonsAsk' /\ NobodyClaims
<1>1. /\ Moves(h, "exec")
      /\ handler'[h].kind = handler[h].kind /\ handler'[h].token = handler[h].token
      /\ handler'[h].skill = s /\ handler'[h].via = via
  BY ExecuteMoves DEF RequestsInv, TypeOK
<1>2. handler'[h].kind \in {"confirm", "cancel"} => handler'[h].token \in Tokens
  BY <1>1 DEF RequestsInv, Carriage
<1>. QED  BY <1>1, <1>2, Moved DEF Stages

LEMMA DoneAside ==
  ASSUME RequestsInv, NEW h \in Handlers, Done(h)
  PROVE  handler' \in [Handlers -> Work] /\ Carriage' /\ ButtonsAsk' /\ NobodyClaims
<1>1. Moves(h, "idle") /\ handler'[h].kind = "text"
  BY DoneMoves DEF RequestsInv, TypeOK
<1>. QED  BY <1>1, Moved DEF Stages

(* ------------------------------ the sessions ------------------------------ *)

LEMMA StoreOffers ==
  ASSUME SessionsTypeOK, NEW t \in Tokens, NEW s \in Skills, NEW u \in Users \cup {NoUser},
         StoreMutation(t, s, u)
  PROVE  mutation' \in [Tokens -> Mutations] /\ OffersOnly
BY DEF StoreMutation, SessionsTypeOK, Mutations, OffersOnly

LEMMA ConfirmAndRunAside ==
  ASSUME RequestsInv, NEW h \in Handlers, NEW s \in Skills, ConfirmAndRun(h, s)
  PROVE  /\ handler' \in [Handlers -> Work] /\ Carriage' /\ ButtonsAsk' /\ NobodyClaims
         /\ mutation' \in [Tokens -> Mutations] /\ OffersOnly
<1>1. handler[h].user \in Users \cup {NoUser}
  BY DEF RequestsInv, TypeOK, Work
<1>2. PICK t \in Tokens : StoreMutation(t, s, handler[h].user)
  BY DEF ConfirmAndRun
<1>3. mutation' \in [Tokens -> Mutations] /\ OffersOnly
  BY <1>1, <1>2, StoreOffers DEF RequestsInv, TypeOK
<1>4. Goto(h, "reply")
  BY DEF ConfirmAndRun
<1>. QED  BY <1>3, <1>4, GotoAside DEF Stages

LEMMA StartType ==
  ASSUME NEW s \in Skills, StartInput(s)
  PROVE  flow' \in Flows
BY DEF StartInput, Flows

LEMMA PendingType ==
  ASSUME SessionsTypeOK, Pending
  PROVE  flow' = NoFlow \/ flow' \in Flows
BY DEF Pending, SessionsTypeOK, HasFlow

LEMMA AdvanceType ==
  ASSUME SessionsTypeOK, NEW s \in Skills, NEW field \in AllFields, AdvanceInput(s, field)
  PROVE  flow' \in Flows
<1>. DEFINE filled == IF s = flow.skill THEN flow.filled \cup {field} ELSE flow.filled
            step == flow.step + 1
<1>1. flow \in Flows
  BY DEF AdvanceInput, SessionsTypeOK
<1>2. filled \in SUBSET AllFields /\ step \in Nat
  BY <1>1 DEF Flows
<1>3. flow' = [flow EXCEPT !.step = step, !.stale = FALSE, !.filled = filled]
  BY DEF AdvanceInput
<1>. HIDE DEF filled, step
<1>. QED  BY <1>1, <1>2, <1>3 DEF Flows

LEMMA CallsStill ==
  ASSUME mutation' = mutation
  PROVE  OffersOnly
BY DEF OffersOnly

(* ------------------------------- the steps ------------------------------- *)

\* What every step but a Confirm and an execution preserves.
StepsAside == TypeOK' /\ Carriage' /\ ButtonsAsk' /\ Aside
Rest == UNCHANGED <<mode, question, sent, faults>> /\ HistoryKept

LEMMA AsideFrom ==
  ASSUME RequestsInv, handler' \in [Handlers -> Work], Carriage', ButtonsAsk', NobodyClaims,
         OffersOnly, SessionsTypeOK', UNCHANGED <<mode, sent>>, HistoryKept,
         question' = question \/ question' \in [id : Questions, stale : BOOLEAN] \cup {NoQuestion},
         FaultsTypeOK'
  PROVE  StepsAside
BY DEF RequestsInv, TypeOK, StepsAside, Aside, HistoryKept

LEMMA StillAside ==
  ASSUME RequestsInv, handler' \in [Handlers -> Work], Carriage', ButtonsAsk', NobodyClaims,
         UNCHANGED sessions, Rest
  PROVE  StepsAside
<1>1. SessionsTypeOK' /\ OffersOnly /\ FaultsTypeOK'
  BY CallsStill DEF RequestsInv, TypeOK, SessionsTypeOK, FaultsTypeOK, sessions, Rest
<1>. QED  BY <1>1, AsideFrom DEF Rest

LEMMA FlowAside ==
  ASSUME RequestsInv, handler' \in [Handlers -> Work], Carriage', ButtonsAsk', NobodyClaims,
         flow' = NoFlow \/ flow' \in Flows, UNCHANGED mutation, freeChat' \in BOOLEAN, Rest
  PROVE  StepsAside
<1>1. SessionsTypeOK' /\ OffersOnly /\ FaultsTypeOK'
  BY CallsStill DEF RequestsInv, TypeOK, SessionsTypeOK, FaultsTypeOK, Rest
<1>. QED  BY <1>1, AsideFrom DEF Rest

LEMMA OfferAside ==
  ASSUME RequestsInv, handler' \in [Handlers -> Work], Carriage', ButtonsAsk', NobodyClaims,
         flow' = NoFlow \/ flow' \in Flows, UNCHANGED freeChat,
         mutation' \in [Tokens -> Mutations], OffersOnly, Rest
  PROVE  StepsAside
<1>1. SessionsTypeOK' /\ FaultsTypeOK'
  BY DEF RequestsInv, TypeOK, SessionsTypeOK, FaultsTypeOK, Rest
<1>. QED  BY <1>1, AsideFrom DEF Rest

LEMMA FlowKept ==
  ASSUME RequestsInv, UNCHANGED flow
  PROVE  flow' = NoFlow \/ flow' \in Flows
BY DEF RequestsInv, TypeOK, SessionsTypeOK

LEMMA ReceiveAside ==
  ASSUME RequestsInv, NEW h \in Handlers, Receive(h)
  PROVE  StepsAside
<1>1. PICK u \in Users, k \in Typed \cup Presses, s \in Skills, t \in Tokens \cup {NoToken} :
        /\ Carried(k, s, t)
        /\ Set(h, [Idle(s) EXCEPT !.user = u, !.kind = k, !.token = t, !.at = FirstStage(k)])
  BY DEF Receive
<1>. DEFINE new == [Idle(s) EXCEPT !.user = u, !.kind = k, !.token = t, !.at = FirstStage(k)]
<1>2. /\ new \in Work
      /\ new.at = FirstStage(k) /\ new.kind = k /\ new.token = t
  <2>1. FirstStage(k) \in Stages
    BY DEF FirstStage, Stages
  <2>2. Idle(s) \in Work
    BY IdleType
  <2>. QED  BY <2>1, <2>2 DEF Work
<1>3. handler' \in [Handlers -> Work] /\ Others(h) /\ handler'[h] = new
  <2>1. handler' = [handler EXCEPT ![h] = new]
    BY <1>1 DEF Set
  <2>. HIDE DEF new
  <2>. QED  BY <1>2, <2>1 DEF RequestsInv, TypeOK, Others
<1>4. FirstStage(k) \in Stages \ {"answer", "exec"}
  BY DEF FirstStage, Stages
<1>5. k \in {"confirm", "cancel"} => t \in Tokens
  BY <1>1 DEF Carried
<1>6. Carriage' /\ ButtonsAsk' /\ NobodyClaims
  <2>. HIDE DEF new
  <2>. QED  BY <1>2, <1>3, <1>4, <1>5, Moved DEF Moves
<1>7. sent' \in 0 .. MaxMessages
  BY RequestsAssumption DEF Receive, RequestsInv, TypeOK
<1>8. SessionsTypeOK' /\ OffersOnly /\ FaultsTypeOK'
  BY CallsStill DEF Receive, RequestsInv, TypeOK, SessionsTypeOK, FaultsTypeOK, sessions
<1>. QED  BY <1>3, <1>6, <1>7, <1>8 DEF Receive, RequestsInv, TypeOK, StepsAside, Aside, HistoryKept

\* A handler that turns its message into another kind of typed one.
LEMMA TurnAside ==
  ASSUME RequestsInv, NEW h \in Handlers, NEW k \in {"text", "menu"},
         handler' = [handler EXCEPT ![h].kind = k, ![h].at = "auth"]
  PROVE  handler' \in [Handlers -> Work] /\ Carriage' /\ ButtonsAsk' /\ NobodyClaims
<1>. DEFINE new == [handler[h] EXCEPT !.kind = k, !.at = "auth"]
<1>1. handler[h] \in Work
  BY DEF RequestsInv, TypeOK
<1>2. new \in Work /\ new.at = "auth" /\ new.kind = k
  <2>1. [handler[h] EXCEPT !.kind = k] \in Work
    BY <1>1 DEF Work, Typed
  <2>2. new = [[handler[h] EXCEPT !.kind = k] EXCEPT !.at = "auth"]
    BY <1>1 DEF Work
  <2>3. \A m \in Work : [m EXCEPT !.at = "auth"] \in Work
    BY DEF Work, Stages
  <2>. QED  BY <1>1, <2>1, <2>2, <2>3 DEF Work
<1>3. handler' = [handler EXCEPT ![h] = new]
  OBVIOUS
<1>4. Moves(h, "auth") /\ handler'[h].kind = k
  <2>. HIDE DEF new
  <2>. QED  BY <1>2, <1>3 DEF RequestsInv, TypeOK, Moves, Others
<1>. QED  BY <1>4, Moved DEF Stages

LEMMA AttachAside ==
  ASSUME RequestsInv, NEW h \in Handlers, Voice(h) \/ Document(h) \/ Image(h) \/ Authorize(h)
  PROVE  StepsAside
<1>1. CASE Voice(h)
  <2>1. handler' \in [Handlers -> Work] /\ Carriage' /\ ButtonsAsk' /\ NobodyClaims
    BY <1>1, TurnAside, GotoAside DEF Voice, Stages
  <2>. QED  BY <1>1, <2>1, StillAside DEF Voice, Rest
<1>2. CASE Document(h)
  <2>1. handler' \in [Handlers -> Work] /\ Carriage' /\ ButtonsAsk' /\ NobodyClaims
    BY <1>2, DoneAside, GotoAside DEF Document, Stages
  <2>. QED  BY <1>2, <2>1, StillAside DEF Document, Rest
<1>3. CASE Image(h)
  <2>1. handler' \in [Handlers -> Work] /\ Carriage' /\ ButtonsAsk' /\ NobodyClaims
    BY <1>3, TurnAside, GotoAside DEF Image, Stages
  <2>2. flow' = NoFlow \/ flow' \in Flows
    BY <1>3, PendingType DEF Image, RequestsInv, TypeOK
  <2>. QED  BY <1>3, <2>1, <2>2, FlowAside DEF Image, Rest, RequestsInv, TypeOK, SessionsTypeOK
<1>4. CASE Authorize(h)
  <2>. DEFINE stage == IF handler[h].user \notin Allowed THEN "reply"
                       ELSE IF handler[h].kind \in Presses THEN "press" ELSE "ui"
  <2>1. stage \in Stages \ {"answer", "exec"} /\ Goto(h, stage)
    BY <1>4 DEF Authorize, Stages
  <2>2. handler' \in [Handlers -> Work] /\ Carriage' /\ ButtonsAsk' /\ NobodyClaims
    <3>. HIDE DEF stage
    <3>. QED  BY <2>1, GotoAside
  <2>. QED  BY <1>4, <2>2, StillAside DEF Authorize, Rest
<1>. QED  BY <1>1, <1>2, <1>3, <1>4

LEMMA ButtonAside ==
  ASSUME RequestsInv, NEW h \in Handlers,
         PressSkill(h) \/ PressAction(h) \/ PressQuick(h) \/ PressNavigate(h) \/ PressCancel(h)
  PROVE  StepsAside
<1>1. CASE PressSkill(h)
  <2>. DEFINE s == handler[h].skill
  <2>1. s \in Skills
    BY DEF RequestsInv, TypeOK, Work
  <2>2. CASE Inputs[s] > 0 /\ StartInput(s) /\ Goto(h, "reply") /\ UNCHANGED mutation
    <3>1. handler' \in [Handlers -> Work] /\ Carriage' /\ ButtonsAsk' /\ NobodyClaims
      BY <2>2, GotoAside DEF Stages
    <3>2. flow' \in Flows
      BY <2>1, <2>2, StartType
    <3>. QED  BY <1>1, <2>2, <3>1, <3>2, FlowAside DEF PressSkill, Rest, RequestsInv, TypeOK, SessionsTypeOK
  <2>3. CASE Inputs[s] = 0 /\ s \in Confirming /\ ConfirmAndRun(h, s) /\ UNCHANGED flow
    BY <1>1, <2>1, <2>3, ConfirmAndRunAside, FlowKept, OfferAside DEF PressSkill, Rest
  <2>4. CASE /\ Inputs[s] = 0 /\ s \notin Confirming /\ Execute(h, s, "button")
             /\ UNCHANGED <<flow, mutation>>
    <3>1. handler' \in [Handlers -> Work] /\ Carriage' /\ ButtonsAsk' /\ NobodyClaims
      BY <2>1, <2>4, ExecuteAside
    <3>. QED  BY <1>1, <2>4, <3>1, StillAside DEF PressSkill, Rest, sessions
  <2>. QED  BY <1>1, <2>2, <2>3, <2>4 DEF PressSkill
<1>2. CASE PressAction(h)
  <2>1. CASE \E s \in Confirming : ConfirmAndRun(h, s)
    <3>1. PICK s \in Skills : ConfirmAndRun(h, s)
      BY <2>1, RequestsAssumption
    <3>. QED  BY <1>2, <3>1, ConfirmAndRunAside, FlowKept, OfferAside DEF PressAction, Rest
  <2>2. CASE \E s \in Skills \ Confirming : Execute(h, s, "button") /\ UNCHANGED mutation
    <3>1. handler' \in [Handlers -> Work] /\ Carriage' /\ ButtonsAsk' /\ NobodyClaims
      BY <2>2, ExecuteAside
    <3>. QED  BY <1>2, <2>2, <3>1, StillAside DEF PressAction, Rest, sessions
  <2>. QED  BY <1>2, <2>1, <2>2 DEF PressAction
<1>3. CASE PressQuick(h)
  <2>1. handler' \in [Handlers -> Work] /\ Carriage' /\ ButtonsAsk' /\ NobodyClaims
    BY <1>3, ExecuteAside DEF PressQuick
  <2>. QED  BY <1>3, <2>1, StillAside DEF PressQuick, Rest
<1>4. CASE PressNavigate(h)
  <2>1. handler' \in [Handlers -> Work] /\ Carriage' /\ ButtonsAsk' /\ NobodyClaims
    BY <1>4, GotoAside DEF PressNavigate, Stages
  <2>. QED  BY <1>4, <2>1, StillAside DEF PressNavigate, Rest
<1>5. CASE PressCancel(h)
  <2>1. handler' \in [Handlers -> Work] /\ Carriage' /\ ButtonsAsk' /\ NobodyClaims
    BY <1>5, GotoAside DEF PressCancel, Stages
  <2>2. handler[h].token \in Tokens
    BY <1>5 DEF PressCancel, RequestsInv, Carriage
  <2>3. mutation' \in [Tokens -> Mutations] /\ OffersOnly
    BY <1>5, <2>2 DEF PressCancel, CancelMutation, Waiting, RequestsInv, TypeOK, SessionsTypeOK, Mutations, OffersOnly
  <2>. QED  BY <1>5, <2>1, <2>3, FlowKept, OfferAside DEF PressCancel, Rest
<1>. QED  BY <1>1, <1>2, <1>3, <1>4, <1>5

LEMMA ScreenAside ==
  ASSUME RequestsInv, NEW h \in Handlers, Screen(h)
  PROVE  StepsAside
<1>1. handler' \in [Handlers -> Work] /\ Carriage' /\ ButtonsAsk' /\ NobodyClaims
  BY GotoAside, ExecuteAside DEF Screen, Stages
<1>2. flow' = NoFlow /\ freeChat' \in BOOLEAN
  BY DEF Screen, ClearInput
<1>. QED  BY <1>1, <1>2, FlowAside DEF Screen, Rest

LEMMA EndFlowAside ==
  ASSUME RequestsInv, NEW h \in Handlers, EndFlow(h)
  PROVE  StepsAside
<1>1. handler' \in [Handlers -> Work] /\ Carriage' /\ ButtonsAsk' /\ NobodyClaims
  BY GotoAside DEF EndFlow, Stages
<1>2. flow' = NoFlow \/ flow' \in Flows
  BY PendingType DEF EndFlow, ClearInput, RequestsInv, TypeOK
<1>. QED  BY <1>1, <1>2, FlowAside DEF EndFlow, Rest, RequestsInv, TypeOK, SessionsTypeOK

\* The field a message is to answer is the one its flow has reached.
LEMMA PeekAside ==
  ASSUME RequestsInv, NEW h \in Handlers, Peek(h)
  PROVE  StepsAside
<1>1. flow' = NoFlow \/ flow' \in Flows
  BY PendingType DEF Peek, RequestsInv, TypeOK
<1>2. handler' \in [Handlers -> Work] /\ Carriage' /\ ButtonsAsk' /\ NobodyClaims
  <2>1. CASE /\ HasFlow
             /\ flow.step < Inputs[flow.skill]
             /\ handler' = [handler EXCEPT ![h].at = "answer", ![h].skill = flow.skill,
                                           ![h].field = flow.step]
    <3>. DEFINE new == [handler[h] EXCEPT !.at = "answer", !.skill = flow.skill, !.field = flow.step]
    <3>1. flow \in Flows /\ handler[h] \in Work
      BY <2>1 DEF HasFlow, RequestsInv, TypeOK, SessionsTypeOK
    <3>2. /\ new \in Work /\ new.at = "answer" /\ new.field \in Fields(new.skill)
          /\ new.kind = handler[h].kind /\ new.token = handler[h].token
      <4>1. flow.skill \in Skills /\ flow.step \in Nat
        BY <3>1 DEF Flows
      <4>2. flow.step \in Fields(flow.skill)
        BY <2>1, <4>1, SessionsAssumption DEF Fields
      <4>3. "answer" \in Stages
        BY DEF Stages
      <4>4. /\ new \in Work /\ new.at = "answer" /\ new.field = flow.step /\ new.skill = flow.skill
            /\ new.kind = handler[h].kind /\ new.token = handler[h].token
        BY <3>1, <4>1, <4>3 DEF Work
      <4>. QED  BY <4>2, <4>4, Zenon
    <3>3. handler' = [handler EXCEPT ![h] = new]
      BY <2>1
    <3>4. handler' \in [Handlers -> Work] /\ Others(h) /\ handler'[h] = new
      <4>. HIDE DEF new
      <4>. QED  BY <3>2, <3>3 DEF RequestsInv, TypeOK, Others
    <3>5. Carriage' /\ ButtonsAsk' /\ NobodyClaims
      <4>. HIDE DEF new
      <4>. QED  BY <3>2, <3>4 DEF Carriage, ButtonsAsk, NobodyClaims, Holds, At, RequestsInv, Others
    <3>. QED  BY <3>4, <3>5
  <2>2. CASE IF freeChat /\ handler[h].kind = "text" THEN Execute(h, Chat, "router")
             ELSE Goto(h, "watch")
    BY <2>2, ExecuteAside, GotoAside, RequestsAssumption DEF Stages
  <2>. QED  BY <2>1, <2>2 DEF Peek
<1>. QED  BY <1>1, <1>2, FlowAside DEF Peek, Rest, RequestsInv, TypeOK, SessionsTypeOK

LEMMA PeekPastEndAside ==
  ASSUME RequestsInv, NEW h \in Handlers, PeekPastEnd(h)
  PROVE  StepsAside
<1>1. handler' \in [Handlers -> Work] /\ Carriage' /\ ButtonsAsk' /\ NobodyClaims
  BY DoneAside DEF PeekPastEnd
<1>2. flow' = NoFlow
  BY DEF PeekPastEnd, ClearInput
<1>. QED  BY <1>1, <1>2, FlowAside DEF PeekPastEnd, Rest, RequestsInv, TypeOK, SessionsTypeOK

\* A value of another skill's field is not kept, so what is filled in are fields.
LEMMA AnswerAside ==
  ASSUME RequestsInv, NEW h \in Handlers, Answer(h)
  PROVE  StepsAside
<1>1. flow' = NoFlow \/ flow' \in Flows
  <2>1. CASE AdvanceInput(handler[h].skill, handler[h].field)
    <3>1. flow \in Flows /\ handler[h] \in Work
      BY <2>1 DEF AdvanceInput, RequestsInv, TypeOK, SessionsTypeOK
    <3>2. handler[h].field \in AllFields
      BY <3>1 DEF Answer, RequestsInv, Carriage, AllFields, Work
    <3>. QED  BY <2>1, <3>1, <3>2, AdvanceType DEF RequestsInv, TypeOK, Work
  <2>2. CASE UNCHANGED flow
    BY <2>2, FlowKept
  <2>. QED  BY <2>1, <2>2 DEF Answer
<1>2. handler' \in [Handlers -> Work] /\ Carriage' /\ ButtonsAsk' /\ NobodyClaims
  <2>1. CASE Goto(h, "reply") \/ Done(h)
    BY <2>1, GotoAside, DoneAside DEF Stages
  <2>2. CASE /\ AdvanceInput(handler[h].skill, handler[h].field)
             /\ handler' = [handler EXCEPT ![h].filled = flow'.filled,
                  ![h].at = IF flow'.step < Inputs[handler[h].skill] THEN "reply" ELSE "finish"]
    <3>. DEFINE stage == IF flow'.step < Inputs[handler[h].skill] THEN "reply" ELSE "finish"
                new == [handler[h] EXCEPT !.filled = flow'.filled, !.at = stage]
    <3>1. stage \in Stages \ {"answer", "exec"}
      BY DEF Stages
    <3>2. flow' \in Flows /\ handler[h] \in Work
      <4>1. flow \in Flows /\ handler[h] \in Work
        BY <2>2 DEF AdvanceInput, RequestsInv, TypeOK, SessionsTypeOK
      <4>2. handler[h].field \in AllFields
        BY <4>1 DEF Answer, RequestsInv, Carriage, AllFields, Work
      <4>. QED  BY <2>2, <4>1, <4>2, AdvanceType DEF RequestsInv, TypeOK, Work
    <3>3. flow'.filled \in SUBSET AllFields
      BY <3>2 DEF Flows
    <3>4. /\ new \in Work /\ new.at = stage
          /\ new.kind = handler[h].kind /\ new.token = handler[h].token
      <4>. HIDE DEF stage
      <4>. QED  BY <3>1, <3>2, <3>3 DEF Work
    <3>5. handler' = [handler EXCEPT ![h] = new]
      BY <2>2
    <3>6. Moves(h, stage) /\ handler'[h].kind = handler[h].kind /\ handler'[h].token = handler[h].token
      <4>. HIDE DEF new, stage
      <4>. QED  BY <3>4, <3>5 DEF RequestsInv, TypeOK, Moves, Others
    <3>7. handler[h].kind \in {"confirm", "cancel"} => handler[h].token \in Tokens
      BY DEF RequestsInv, Carriage
    <3>. HIDE DEF new, stage
    <3>. QED  BY <3>1, <3>6, <3>7, Moved
  <2>. QED  BY <2>1, <2>2 DEF Answer
<1>. QED  BY <1>1, <1>2, FlowAside DEF Answer, Rest, RequestsInv, TypeOK, SessionsTypeOK

LEMMA FinishAside ==
  ASSUME RequestsInv, NEW h \in Handlers, Finish(h)
  PROVE  StepsAside
<1>1. handler[h].skill \in Skills /\ flow' = NoFlow
  BY DEF Finish, ClearInput, RequestsInv, TypeOK, Work
<1>2. CASE handler[h].skill \in Confirming /\ ConfirmAndRun(h, handler[h].skill)
  BY <1>1, <1>2, ConfirmAndRunAside, OfferAside DEF Finish, Rest
<1>3. CASE /\ handler[h].skill \notin Confirming
           /\ Execute(h, handler[h].skill, "flow") /\ UNCHANGED mutation
  <2>1. handler' \in [Handlers -> Work] /\ Carriage' /\ ButtonsAsk' /\ NobodyClaims
    BY <1>1, <1>3, ExecuteAside
  <2>. QED  BY <1>1, <1>3, <2>1, FlowAside DEF Finish, Rest, RequestsInv, TypeOK, SessionsTypeOK
<1>. QED  BY <1>2, <1>3 DEF Finish

LEMMA WatchAside ==
  ASSUME RequestsInv, NEW h \in Handlers, WatchAction(h) \/ Reply(h)
  PROVE  StepsAside
<1>1. handler' \in [Handlers -> Work] /\ Carriage' /\ ButtonsAsk' /\ NobodyClaims
  BY GotoAside, DoneAside DEF WatchAction, Reply, Stages
<1>. QED  BY <1>1, StillAside DEF WatchAction, Reply, Rest

\* A step within the router, which no button and no flow reaches.
LEMMA RouterMoves ==
  ASSUME RequestsInv, NEW h \in Handlers, NEW new \in Work, handler' = [handler EXCEPT ![h] = new],
         new.at \in {"load", "clear"}, new.kind = handler[h].kind, new.token = handler[h].token
  PROVE  handler' \in [Handlers -> Work] /\ Carriage' /\ ButtonsAsk' /\ NobodyClaims
<1>1. Moves(h, new.at) /\ handler'[h] = new
  BY DEF RequestsInv, TypeOK, Moves, Others
<1>2. handler[h].kind \in {"confirm", "cancel"} => handler[h].token \in Tokens
  BY DEF RequestsInv, Carriage
<1>3. new.at \in Stages \ {"answer", "exec"}
  BY DEF Stages
<1>. QED  BY <1>1, <1>2, <1>3, Moved

LEMMA RouteAside ==
  ASSUME RequestsInv, NEW h \in Handlers, Route(h)
  PROVE  StepsAside
<1>1. handler' \in [Handlers -> Work] /\ Carriage' /\ ButtonsAsk' /\ NobodyClaims
  <2>1. CASE Goto(h, "reply")
    BY <2>1, GotoAside DEF Stages
  <2>2. CASE \E d \in {"none", "skill", "chat", "clarify"} :
               handler' = [handler EXCEPT ![h].decision = d, ![h].at = "load"]
    <3>1. PICK d \in {"none", "skill", "chat", "clarify"} :
            handler' = [handler EXCEPT ![h] = [handler[h] EXCEPT !.decision = d, !.at = "load"]]
      BY <2>2
    <3>. DEFINE new == [handler[h] EXCEPT !.decision = d, !.at = "load"]
    <3>2. handler[h] \in Work /\ "load" \in Stages
      BY DEF RequestsInv, TypeOK, Stages
    <3>3. /\ new \in Work /\ new.at = "load"
          /\ new.kind = handler[h].kind /\ new.token = handler[h].token
      BY <3>2 DEF Work
    <3>. HIDE DEF new
    <3>. QED  BY <3>1, <3>3, RouterMoves DEF new
  <2>. QED  BY <2>1, <2>2 DEF Route
<1>. QED  BY <1>1, StillAside DEF Route, Rest

LEMMA LoadAside ==
  ASSUME RequestsInv, NEW h \in Handlers, LoadQuestion(h)
  PROVE  StepsAside
<1>1. CASE /\ question # NoQuestion /\ UNCHANGED <<question, faults>>
           /\ loaded' = [loaded EXCEPT ![question.id] = @ + 1]
           /\ \E d \in {handler[h].decision, "none", "skill", "chat", "clarify"} :
                handler' = [handler EXCEPT ![h].at = "clear", ![h].asked = question.id, ![h].decision = d]
  <2>1. PICK d \in {handler[h].decision, "none", "skill", "chat", "clarify"} :
          handler' = [handler EXCEPT ![h] =
                       [handler[h] EXCEPT !.at = "clear", !.asked = question.id, !.decision = d]]
    <3>1. PICK d \in {handler[h].decision, "none", "skill", "chat", "clarify"} :
            handler' = [handler EXCEPT ![h].at = "clear", ![h].asked = question.id, ![h].decision = d]
      BY <1>1
    <3>. QED  BY <3>1
  <2>. DEFINE new == [handler[h] EXCEPT !.at = "clear", !.asked = question.id, !.decision = d]
  <2>2. handler[h] \in Work /\ "clear" \in Stages /\ question.id \in Questions
    BY <1>1 DEF RequestsInv, TypeOK, Stages
  <2>3. d \in {"none", "skill", "chat", "clarify"}
    BY <2>2 DEF Work
  <2>4. /\ new \in Work /\ new.at = "clear"
        /\ new.kind = handler[h].kind /\ new.token = handler[h].token
    BY <2>2, <2>3 DEF Work
  <2>5. handler' \in [Handlers -> Work] /\ Carriage' /\ ButtonsAsk' /\ NobodyClaims
    <3>. HIDE DEF new
    <3>. QED  BY <2>1, <2>4, RouterMoves DEF new
  <2>6. loaded' \in [Questions -> Nat]
    BY <1>1, <2>2 DEF RequestsInv, TypeOK
  <2>7. SessionsTypeOK' /\ OffersOnly /\ FaultsTypeOK'
    BY <1>1, CallsStill DEF LoadQuestion, RequestsInv, TypeOK, SessionsTypeOK, FaultsTypeOK, sessions
  <2>. QED  BY <1>1, <2>5, <2>6, <2>7 DEF LoadQuestion, RequestsInv, TypeOK, StepsAside, Aside
<1>2. CASE /\ Goto(h, "decide") /\ UNCHANGED loaded
           /\ question' = question \/ question' = NoQuestion
           /\ FaultsTypeOK'
  <2>1. handler' \in [Handlers -> Work] /\ Carriage' /\ ButtonsAsk' /\ NobodyClaims
    BY <1>2, GotoAside DEF Stages
  <2>2. SessionsTypeOK' /\ OffersOnly
    BY CallsStill DEF LoadQuestion, RequestsInv, TypeOK, SessionsTypeOK, sessions
  <2>. QED  BY <1>2, <2>1, <2>2, AsideFrom DEF LoadQuestion, HistoryKept
<1>3. UNCHANGED faults \/ (Fault /\ faults < MaxEvents) => FaultsTypeOK'
  BY FaultsAssumption DEF RequestsInv, TypeOK, FaultsTypeOK, Fault
<1>. QED  BY <1>1, <1>2, <1>3 DEF LoadQuestion, NoFault, CanFail

LEMMA QuestionAside ==
  ASSUME RequestsInv, NEW h \in Handlers, ClearQuestion(h) \/ Clarify(h)
  PROVE  StepsAside
<1>1. handler' \in [Handlers -> Work] /\ Carriage' /\ ButtonsAsk' /\ NobodyClaims
  BY GotoAside DEF ClearQuestion, Clarify, Stages
<1>2. SessionsTypeOK' /\ OffersOnly /\ UNCHANGED <<mode, sent>> /\ HistoryKept
  BY CallsStill DEF ClearQuestion, Clarify, RequestsInv, TypeOK, SessionsTypeOK, sessions
<1>3. FaultsTypeOK'
  BY FaultsAssumption DEF ClearQuestion, Clarify, CanFail, NoFault, Fault, RequestsInv, TypeOK, FaultsTypeOK
<1>4. question' = question \/ question' \in [id : Questions, stale : BOOLEAN] \cup {NoQuestion}
  <2>1. NextQuestion \subseteq Questions
    BY DEF NextQuestion
  <2>2. CASE Clarify(h)
    <3>1. CASE \E q \in NextQuestion : question' = [id |-> q, stale |-> FALSE]
      BY <2>1, <3>1
    <3>2. CASE UNCHANGED question
      BY <3>2
    <3>. QED  BY <2>2, <3>1, <3>2 DEF Clarify
  <2>3. CASE ClearQuestion(h)
    BY <2>3 DEF ClearQuestion
  <2>. QED  BY <2>2, <2>3
<1>. QED  BY <1>1, <1>2, <1>3, <1>4, AsideFrom

LEMMA DecideAside ==
  ASSUME RequestsInv, NEW h \in Handlers, Decide(h)
  PROVE  StepsAside
<1>1. handler[h].skill \in Skills /\ Chat \in Skills
  BY RequestsAssumption DEF RequestsInv, TypeOK, Work
<1>2. handler' \in [Handlers -> Work] /\ Carriage' /\ ButtonsAsk' /\ NobodyClaims
  BY <1>1, DoneAside, ExecuteAside DEF Decide
<1>3. flow' = NoFlow \/ flow' \in Flows
  BY <1>1, StartType, FlowKept DEF Decide
<1>. QED  BY <1>2, <1>3, FlowAside DEF Decide, Rest, RequestsInv, TypeOK, SessionsTypeOK

LEMMA RestartAside ==
  ASSUME RequestsInv, Restart, faults < MaxEvents
  PROVE  StepsAside
<1>1. Idle(Chat) \in Work /\ Idle(Chat).kind = "text" /\ Idle(Chat).at = "idle"
  <2>1. Idle(Chat) \in Work
    BY IdleType, RequestsAssumption
  <2>. QED  BY <2>1 DEF Idle
<1>2. handler' \in [Handlers -> Work] /\ Carriage' /\ ButtonsAsk' /\ NobodyClaims
  <2>1. handler' \in [Handlers -> Work] /\ \A h \in Handlers : handler'[h] = Idle(Chat)
    BY <1>1 DEF Restart
  <2>. QED  BY <1>1, <2>1 DEF Carriage, ButtonsAsk, NobodyClaims, Holds, At
<1>3. SessionsTypeOK' /\ OffersOnly
  <2>1. mutation \in [Tokens -> Mutations]
    BY DEF RequestsInv, TypeOK, SessionsTypeOK
  <2>2. mutation' = [t \in Tokens |->
          IF mutation[t].state = "stored" THEN [mutation[t] EXCEPT !.state = "gone"] ELSE mutation[t]]
    BY DEF Restart, SessionsLost
  <2>3. \A m \in Mutations : /\ [m EXCEPT !.state = "gone"] \in Mutations
                             /\ [m EXCEPT !.state = "gone"].state = "gone"
    BY DEF Mutations
  <2>4. mutation' \in [Tokens -> Mutations] /\ OffersOnly
    BY <2>1, <2>2, <2>3 DEF OffersOnly
  <2>. QED  BY <2>4 DEF Restart, SessionsLost, SessionsTypeOK
<1>4. FaultsTypeOK'
  BY FaultsAssumption DEF Restart, Fault, RequestsInv, TypeOK, FaultsTypeOK
<1>. QED  BY <1>2, <1>3, <1>4, AsideFrom DEF Restart

LEMMA FailAside ==
  ASSUME RequestsInv, Crash \/ \E h \in Handlers : ReplyFails(h)
  PROVE  StepsAside
<1>1. CASE Crash
  BY <1>1, RestartAside DEF Crash, CanFail
<1>2. ASSUME NEW h \in Handlers, ReplyFails(h)
      PROVE  StepsAside
  <2>1. CASE Restart
    BY <1>2, <2>1, RestartAside DEF ReplyFails, CanFail
  <2>2. CASE Done(h) /\ Fault /\ UNCHANGED <<sessions, mode, question, sent>> /\ HistoryKept
    <3>1. handler' \in [Handlers -> Work] /\ Carriage' /\ ButtonsAsk' /\ NobodyClaims
      BY <2>2, DoneAside
    <3>2. SessionsTypeOK' /\ OffersOnly
      BY <2>2, CallsStill DEF RequestsInv, TypeOK, SessionsTypeOK, sessions
    <3>3. FaultsTypeOK'
      BY <1>2, <2>2, FaultsAssumption DEF ReplyFails, CanFail, Fault, RequestsInv, TypeOK, FaultsTypeOK
    <3>. QED  BY <2>2, <3>1, <3>2, <3>3, AsideFrom
  <2>. QED  BY <1>2, <2>1, <2>2 DEF ReplyFails
<1>. QED  BY <1>1, <1>2

LEMMA TimeAside ==
  ASSUME RequestsInv, TimePasses
  PROVE  StepsAside
<1>1. handler' \in [Handlers -> Work] /\ Carriage' /\ ButtonsAsk' /\ NobodyClaims
  BY DEF TimePasses, RequestsInv, TypeOK, Carriage, ButtonsAsk, NobodyClaims, Holds, At
<1>2. SessionsTypeOK' /\ OffersOnly
  <2>1. CASE FlowExpires
    <3>1. flow \in Flows
      BY <2>1 DEF FlowExpires, HasFlow, RequestsInv, TypeOK, SessionsTypeOK
    <3>. QED  BY <2>1, <3>1, CallsStill DEF FlowExpires, Flows, RequestsInv, TypeOK, SessionsTypeOK
  <2>2. CASE \E t \in Tokens : MutationExpires(t)
    <3>1. PICK t \in Tokens : MutationExpires(t)
      BY <2>2
    <3>2. mutation \in [Tokens -> Mutations] /\ mutation' = [mutation EXCEPT ![t].stale = TRUE]
      BY <3>1 DEF MutationExpires, RequestsInv, TypeOK, SessionsTypeOK
    <3>3. mutation' \in [Tokens -> Mutations]
      BY <3>2 DEF Mutations
    <3>4. \A r \in Tokens : mutation'[r].state = mutation[r].state /\ mutation'[r].owner = mutation[r].owner
      BY <3>2 DEF Mutations
    <3>. QED  BY <3>1, <3>3, <3>4 DEF MutationExpires, OffersOnly, RequestsInv, TypeOK, SessionsTypeOK
  <2>3. CASE UNCHANGED sessions
    BY <2>3, CallsStill DEF sessions, RequestsInv, TypeOK, SessionsTypeOK
  <2>. QED  BY <2>1, <2>2, <2>3 DEF TimePasses
<1>3. question' = question \/ question' \in [id : Questions, stale : BOOLEAN] \cup {NoQuestion}
  BY DEF TimePasses, RequestsInv, TypeOK
<1>4. FaultsTypeOK' /\ UNCHANGED <<mode, sent>> /\ HistoryKept
  BY DEF TimePasses, RequestsInv, TypeOK, FaultsTypeOK
<1>. QED  BY <1>1, <1>2, <1>3, <1>4, AsideFrom

\* Every step but a Confirm and an execution leaves the claimed calls alone.
LEMMA StepAside ==
  ASSUME RequestsInv, Next, \A h \in Handlers : ~PressConfirm(h) /\ ~Exec(h)
  PROVE  StepsAside
BY ReceiveAside, AttachAside, ButtonAside, ScreenAside, EndFlowAside, PeekAside, PeekPastEndAside,
   AnswerAside, FinishAside, WatchAside, RouteAside, LoadAside, QuestionAside, DecideAside,
   FailAside, TimeAside DEF Next

LEMMA AsideKeepsClaims ==
  ASSUME RequestsInv, StepsAside
  PROVE  ClaimsHeld' /\ ConfirmedByOwnerOnce'
<1>1. /\ mutation \in [Tokens -> Mutations] /\ ran \in [Tokens -> Nat]
      /\ UNCHANGED <<ran, confirmer>> /\ NobodyClaims /\ OffersOnly
  BY DEF RequestsInv, TypeOK, SessionsTypeOK, StepsAside, Aside
<1>2. \A t \in Tokens :
        \/ mutation'[t].state = mutation[t].state /\ mutation'[t].owner = mutation[t].owner
        \/ mutation[t].state # "claimed" /\ mutation'[t].state # "claimed"
  BY <1>1 DEF OffersOnly
<1>3. ConfirmedByOwnerOnce'
  <2>. SUFFICES ASSUME NEW t \in Tokens
                PROVE  ran[t] <= 1 /\ (ran[t] = 1 => /\ mutation'[t].state = "claimed"
                                                    /\ confirmer[t] = mutation'[t].owner)
    BY <1>1 DEF ConfirmedByOwnerOnce
  <2>. QED  BY <1>2 DEF RequestsInv, ConfirmedByOwnerOnce
<1>4. ClaimsHeld'
  <2>1. ASSUME NEW t \in Tokens
        PROVE  /\ mutation'[t].state # "claimed" => ran'[t] = 0
               /\ mutation'[t].state = "claimed" => confirmer'[t] = mutation'[t].owner
    BY <1>1, <1>2 DEF RequestsInv, ClaimsHeld
  <2>2. ASSUME NEW h \in Handlers, Holds(h)'
        PROVE  /\ handler'[h].token \in Tokens
               /\ mutation'[handler'[h].token].state = "claimed"
               /\ ran'[handler'[h].token] = 0
               /\ \A g \in Handlers \ {h} :
                    ~(At(g, "exec")' /\ handler'[g].via = "confirmed" /\ handler'[g].token = handler'[h].token)
    <3>1. Holds(h) /\ handler'[h].token = handler[h].token
      BY <1>1, <2>2 DEF NobodyClaims
    <3>2. \A g \in Handlers : At(g, "exec")' /\ handler'[g].via = "confirmed" =>
            Holds(g) /\ handler'[g].token = handler[g].token
      BY <1>1 DEF NobodyClaims, Holds
    <3>. QED  BY <1>1, <1>2, <3>1, <3>2 DEF RequestsInv, ClaimsHeld, Holds
  <2>. QED  BY <2>1, <2>2 DEF ClaimsHeld, Holds, At
<1>. QED  BY <1>3, <1>4

(* -------------------------- Confirm and execution -------------------------- *)

\* A Confirm that finds nothing to claim.
LEMMA ConfirmAside ==
  ASSUME RequestsInv, NEW h \in Handlers, PressConfirm(h), ~Claimable(handler[h].token, handler[h].user)
  PROVE  StepsAside
<1>1. handler' \in [Handlers -> Work] /\ Carriage' /\ ButtonsAsk' /\ NobodyClaims
  BY GotoAside DEF PressConfirm, Stages
<1>2. handler[h].token \in Tokens
  BY DEF PressConfirm, RequestsInv, Carriage
<1>3. mutation' \in [Tokens -> Mutations] /\ OffersOnly
  <2>. DEFINE t == handler[h].token
  <2>1. mutation \in [Tokens -> Mutations]
    BY DEF RequestsInv, TypeOK, SessionsTypeOK
  <2>2. \/ mutation' = mutation
        \/ mutation' = [mutation EXCEPT ![t].state = "gone"] /\ mutation[t].state = "stored"
    BY <1>2 DEF PressConfirm, ClaimMutation, Claimable, Waiting
  <2>. QED  BY <1>2, <2>1, <2>2 DEF Mutations, OffersOnly
<1>. QED  BY <1>1, <1>3, FlowKept, OfferAside DEF PressConfirm, Rest, HistoryKept

\* A Confirm that claims: the owner's, of a call that was never made.
LEMMA ConfirmClaims ==
  ASSUME RequestsInv, NEW h \in Handlers, PressConfirm(h), Claimable(handler[h].token, handler[h].user)
  PROVE  /\ RequestsInv'
         /\ ran' = ran
         /\ \A t \in Tokens :
              \/ mutation'[t].state = mutation[t].state
              \/ mutation[t].state = "stored" /\ mutation'[t].state = "claimed"
<1>. DEFINE t == handler[h].token
<1>1. t \in Tokens /\ handler[h].user \in Users \cup {NoUser}
  BY DEF PressConfirm, RequestsInv, Carriage, TypeOK, Work
<1>2. /\ mutation \in [Tokens -> Mutations] /\ mutation[t].skill \in Skills
      /\ mutation[t].state = "stored" /\ mutation[t].owner = handler[h].user
  BY <1>1 DEF Claimable, Waiting, RequestsInv, TypeOK, SessionsTypeOK, Mutations
<1>3. /\ mutation' \in [Tokens -> Mutations]
      /\ mutation'[t].state = "claimed" /\ mutation'[t].owner = handler[h].user
      /\ \A r \in Tokens \ {t} : mutation'[r] = mutation[r]
  BY <1>1, <1>2 DEF PressConfirm, ClaimMutation, Claimable, Mutations
<1>4. /\ Moves(h, "exec")
      /\ handler'[h].kind = handler[h].kind /\ handler'[h].token = t
      /\ handler'[h].via = "confirmed"
  BY <1>2, ExecuteMoves DEF PressConfirm, RequestsInv, TypeOK
<1>5. /\ confirmer' \in [Tokens -> Users \cup {NoUser}] /\ confirmer'[t] = handler[h].user
      /\ \A r \in Tokens \ {t} : confirmer'[r] = confirmer[r]
  BY <1>1 DEF PressConfirm, RequestsInv, TypeOK
<1>6. /\ ran' = ran /\ ran \in [Tokens -> Nat] /\ ran[t] = 0
  BY <1>1, <1>2 DEF PressConfirm, RequestsInv, TypeOK, ClaimsHeld
<1>7. TypeOK'
  BY <1>3, <1>4, <1>5, <1>6 DEF PressConfirm, RequestsInv, TypeOK, SessionsTypeOK, FaultsTypeOK, Moves
<1>8. Carriage' /\ ButtonsAsk'
  <2>1. handler'[h].kind \in {"confirm", "cancel"} => handler'[h].token \in Tokens
    BY <1>1, <1>4
  <2>. QED  BY <1>4, <2>1, MoveKeepsCarriage, MoveKeepsAsking DEF RequestsInv
<1>9. ConfirmedByOwnerOnce'
  BY <1>1, <1>3, <1>5, <1>6 DEF RequestsInv, ConfirmedByOwnerOnce
<1>10. ClaimsHeld'
  <2>1. ASSUME NEW r \in Tokens
        PROVE  /\ mutation'[r].state # "claimed" => ran'[r] = 0
               /\ mutation'[r].state = "claimed" => confirmer'[r] = mutation'[r].owner
    BY <1>3, <1>5, <1>6 DEF RequestsInv, ClaimsHeld
  <2>2. ASSUME NEW g \in Handlers \ {h}, Holds(g)'
        PROVE  /\ Holds(g) /\ handler'[g] = handler[g]
               /\ handler'[g].token \in Tokens \ {t}
               /\ mutation'[handler'[g].token].state = "claimed"
               /\ ran'[handler'[g].token] = 0
    <3>1. handler'[g] = handler[g] /\ Holds(g)
      BY <1>4, <2>2 DEF Moves, Others, Holds, At
    <3>2. handler[g].token \in Tokens /\ mutation[handler[g].token].state = "claimed" /\ ran[handler[g].token] = 0
      BY <3>1 DEF RequestsInv, ClaimsHeld, Holds
    <3>. QED  BY <1>2, <1>3, <1>6, <3>1, <3>2
  <2>3. ASSUME NEW g \in Handlers, Holds(g)', NEW f \in Handlers \ {g}, Holds(f)'
        PROVE  handler'[f].token # handler'[g].token
    <3>1. CASE g = h \/ f = h
      BY <1>4, <2>2, <2>3, <3>1
    <3>2. CASE g # h /\ f # h
      BY <2>2, <2>3, <3>2 DEF RequestsInv, ClaimsHeld, Holds
    <3>. QED  BY <3>1, <3>2
  <2>4. ASSUME NEW g \in Handlers, Holds(g)'
        PROVE  /\ handler'[g].token \in Tokens
               /\ mutation'[handler'[g].token].state = "claimed"
               /\ ran'[handler'[g].token] = 0
    BY <1>1, <1>3, <1>4, <1>6, <2>2, <2>4
  <2>. QED  BY <2>1, <2>3, <2>4 DEF ClaimsHeld, Holds, At
<1>11. \A r \in Tokens :
         \/ mutation'[r].state = mutation[r].state
         \/ mutation[r].state = "stored" /\ mutation'[r].state = "claimed"
  BY <1>2, <1>3
<1>. QED  BY <1>6, <1>7, <1>8, <1>9, <1>10, <1>11 DEF RequestsInv

LEMMA ExecOther ==
  ASSUME RequestsInv, NEW h \in Handlers, Exec(h), handler[h].via # "confirmed"
  PROVE  StepsAside
<1>1. handler' \in [Handlers -> Work] /\ Carriage' /\ ButtonsAsk' /\ NobodyClaims
  BY GotoAside DEF Exec, Stages
<1>. QED  BY <1>1, StillAside DEF Exec, Rest, HistoryKept

\* The execution of a confirmed call: its handler was the only one to have it.
LEMMA ExecConfirmed ==
  ASSUME RequestsInv, NEW h \in Handlers, Exec(h), handler[h].via = "confirmed"
  PROVE  /\ RequestsInv'
         /\ mutation' = mutation
         /\ \A t \in Tokens :
              \/ ran'[t] = ran[t]
              \/ mutation[t].state = "claimed" /\ ran[t] = 0 /\ ran'[t] = 1
<1>. DEFINE t == handler[h].token
<1>1. Holds(h)
  BY DEF Exec, Holds
<1>2. t \in Tokens /\ mutation[t].state = "claimed" /\ ran[t] = 0 /\ ran \in [Tokens -> Nat]
  BY <1>1 DEF RequestsInv, TypeOK, ClaimsHeld, Holds
<1>3. ran' \in [Tokens -> Nat] /\ ran'[t] = 1 /\ \A r \in Tokens \ {t} : ran'[r] = ran[r]
  BY <1>2 DEF Exec
<1>4. handler' \in [Handlers -> Work] /\ Carriage' /\ ButtonsAsk' /\ NobodyClaims
  BY GotoAside DEF Exec, Stages
<1>5. /\ mutation' = mutation /\ confirmer' = confirmer
  BY DEF Exec, sessions
<1>6. TypeOK'
  BY <1>3, <1>4, <1>5 DEF Exec, RequestsInv, TypeOK, SessionsTypeOK, FaultsTypeOK, sessions
<1>7. ConfirmedByOwnerOnce'
  BY <1>2, <1>3, <1>5 DEF RequestsInv, ConfirmedByOwnerOnce, ClaimsHeld
<1>8. ClaimsHeld'
  <2>1. ~Holds(h)'
    BY GotoMoves DEF Exec, Stages, Holds, At, Moves, RequestsInv, TypeOK
  <2>2. ASSUME NEW g \in Handlers, Holds(g)'
        PROVE  /\ g # h /\ Holds(g) /\ handler'[g].token = handler[g].token
               /\ handler[g].token \in Tokens \ {t}
    BY <1>1, <1>4, <2>1, <2>2 DEF NobodyClaims, RequestsInv, ClaimsHeld, Holds
  <2>3. ASSUME NEW g \in Handlers, Holds(g)', NEW f \in Handlers \ {g}, Holds(f)'
        PROVE  handler'[f].token # handler'[g].token
    BY <2>2, <2>3 DEF RequestsInv, ClaimsHeld, Holds
  <2>4. ASSUME NEW g \in Handlers, Holds(g)'
        PROVE  /\ handler'[g].token \in Tokens
               /\ mutation'[handler'[g].token].state = "claimed"
               /\ ran'[handler'[g].token] = 0
    BY <1>3, <1>5, <2>2, <2>4 DEF RequestsInv, ClaimsHeld, Holds
  <2>5. ASSUME NEW r \in Tokens
        PROVE  /\ mutation'[r].state # "claimed" => ran'[r] = 0
               /\ mutation'[r].state = "claimed" => confirmer'[r] = mutation'[r].owner
    BY <1>2, <1>3, <1>5 DEF RequestsInv, ClaimsHeld
  <2>. QED  BY <2>3, <2>4, <2>5 DEF ClaimsHeld, Holds, At
<1>9. \A r \in Tokens :
        \/ ran'[r] = ran[r]
        \/ mutation[r].state = "claimed" /\ ran[r] = 0 /\ ran'[r] = 1
  BY <1>2, <1>3
<1>. QED  BY <1>4, <1>5, <1>6, <1>7, <1>8, <1>9 DEF RequestsInv

(* ------------------------------- the results ------------------------------- *)

LEMMA InitRequestsInv ==
  ASSUME Init
  PROVE  RequestsInv
<1>1. /\ handler \in [Handlers -> Work]
      /\ \A h \in Handlers : handler[h].at = "idle" /\ handler[h].kind = "text"
  <2>1. Idle(Chat) \in Work /\ Idle(Chat).at = "idle" /\ Idle(Chat).kind = "text"
    <3>1. Idle(Chat) \in Work
      BY IdleType, RequestsAssumption
    <3>. QED  BY <3>1 DEF Idle
  <2>. QED  BY <2>1 DEF Init
<1>2. SessionsTypeOK /\ \A t \in Tokens : mutation[t].state = "free"
  <2>. DEFINE s == CHOOSE s \in Skills : TRUE
  <2>1. s \in Skills
    BY RequestsAssumption
  <2>2. NoMutation(s) \in Mutations /\ NoMutation(s).state = "free"
    <3>. HIDE DEF s
    <3>. QED  BY <2>1 DEF NoMutation, Mutations
  <2>3. mutation = [t \in Tokens |-> NoMutation(s)] /\ flow = NoFlow /\ freeChat \in BOOLEAN
    BY DEF Init, SessionsInit
  <2>. HIDE DEF s
  <2>. QED  BY <2>2, <2>3 DEF SessionsTypeOK
<1>3. TypeOK
  BY <1>1, <1>2, RequestsAssumption, FaultsAssumption DEF Init, TypeOK, FaultsInit, FaultsTypeOK
<1>4. Carriage /\ ButtonsAsk
  BY <1>1 DEF Carriage, ButtonsAsk, At
<1>5. ConfirmedByOwnerOnce /\ ClaimsHeld
  BY <1>1, <1>2 DEF Init, ConfirmedByOwnerOnce, ClaimsHeld, At
<1>. QED  BY <1>3, <1>4, <1>5 DEF RequestsInv

LEMMA AsideInv ==
  ASSUME RequestsInv, StepsAside
  PROVE  RequestsInv'
BY AsideKeepsClaims DEF RequestsInv, StepsAside

LEMMA NextRequestsInv ==
  ASSUME RequestsInv, [Next]_vars
  PROVE  RequestsInv'
<1>1. CASE \E h \in Handlers : PressConfirm(h)
  BY <1>1, ConfirmAside, ConfirmClaims, AsideInv
<1>2. CASE \E h \in Handlers : Exec(h)
  BY <1>2, ExecOther, ExecConfirmed, AsideInv
<1>3. CASE Next /\ \A h \in Handlers : ~PressConfirm(h) /\ ~Exec(h)
  BY <1>3, StepAside, AsideInv
<1>4. CASE UNCHANGED vars
  BY <1>4 DEF vars, sessions, requests, RequestsInv, TypeOK, SessionsTypeOK, FaultsTypeOK, Carriage,
              ButtonsAsk, ClaimsHeld, ConfirmedByOwnerOnce, At
<1>. QED  BY <1>1, <1>2, <1>3, <1>4

\* The invariant of message handling, for any instance of it.
THEOREM RequestsInvariant == Spec => []RequestsInv
<1>1. Init => RequestsInv
  BY InitRequestsInv
<1>2. RequestsInv /\ [Next]_vars => RequestsInv'
  BY NextRequestsInv
<1>. QED  BY <1>1, <1>2, PTL DEF Spec

\* Every variable keeps its type: what the chat has pending, what each handler
\* works on, and the history (internal/core/agent.go, ui/sessions).
THEOREM RequestsTypeCorrect == Spec => []TypeOK
<1>1. RequestsInv => TypeOK
  BY DEF RequestsInv
<1>. QED  BY <1>1, RequestsInvariant, PTL

\* A stored call is made at most once, and only after its owner pressed Confirm
\* (sessions.go:144-178, ui.go:419-434).
THEOREM ConfirmedOnce == Spec => []ConfirmedByOwnerOnce
<1>1. RequestsInv => ConfirmedByOwnerOnce
  BY DEF RequestsInv
<1>. QED  BY <1>1, RequestsInvariant, PTL

\* No button and no input flow leads to a skill that wants a confirmation
\* without one (ui.go:218-229, 496-503).
THEOREM ButtonsConfirm == Spec => []ButtonsAsk
<1>1. RequestsInv => ButtonsAsk
  BY DEF RequestsInv
<1>. QED  BY <1>1, RequestsInvariant, PTL

(* ------------------------------ the promise ------------------------------ *)

\* What the promise sees of a call, when the invariant holds.
Seen ==
  \A t \in Tokens :
    /\ \/ mutation[t].state = "free" /\ Status[t] = "none"
       \/ mutation[t].state = "stored" /\ Status[t] = "offered"
       \/ mutation[t].state = "claimed" /\ Status[t] = (IF ran[t] = 0 THEN "accepted" ELSE "done")
       \/ mutation[t].state \in {"cancelled", "gone"} /\ Status[t] = "withdrawn"
    /\ ran[t] \in {0, 1}
    /\ mutation[t].state # "claimed" => ran[t] = 0
    /\ Status[t] \in Confirmation!Statuses

LEMMA StatusSeen == RequestsInv => Seen
<1>. SUFFICES ASSUME RequestsInv, NEW t \in Tokens
              PROVE  /\ \/ mutation[t].state = "free" /\ Status[t] = "none"
                        \/ mutation[t].state = "stored" /\ Status[t] = "offered"
                        \/ /\ mutation[t].state = "claimed"
                           /\ Status[t] = (IF ran[t] = 0 THEN "accepted" ELSE "done")
                        \/ mutation[t].state \in {"cancelled", "gone"} /\ Status[t] = "withdrawn"
                     /\ ran[t] \in {0, 1}
                     /\ mutation[t].state # "claimed" => ran[t] = 0
                     /\ Status[t] \in Confirmation!Statuses
  BY DEF Seen
<1>1. mutation[t].state \in {"free", "stored", "claimed", "cancelled", "gone"}
  BY DEF RequestsInv, TypeOK, SessionsTypeOK, Mutations
<1>2. ran[t] \in {0, 1} /\ (mutation[t].state # "claimed" => ran[t] = 0)
  BY DEF RequestsInv, TypeOK, ConfirmedByOwnerOnce, ClaimsHeld
<1>3. CASE mutation[t].state = "free"
  BY <1>2, <1>3 DEF Status, Confirmation!Statuses
<1>4. CASE mutation[t].state = "stored"
  BY <1>2, <1>4 DEF Status, Confirmation!Statuses
<1>5. CASE mutation[t].state = "claimed"
  BY <1>2, <1>5 DEF Status, Confirmation!Statuses
<1>6. CASE mutation[t].state \in {"cancelled", "gone"}
  BY <1>2, <1>6 DEF Status, Confirmation!Statuses
<1>. QED  BY <1>1, <1>3, <1>4, <1>5, <1>6

LEMMA InitConfirmation ==
  ASSUME Init
  PROVE  Confirmation!Init
<1>1. \A t \in Tokens : mutation[t].state = "free"
  <2>. DEFINE s == CHOOSE s \in Skills : TRUE
  <2>1. mutation = [t \in Tokens |-> NoMutation(s)]
    BY DEF Init, SessionsInit
  <2>. HIDE DEF s
  <2>. QED  BY <2>1 DEF NoMutation
<1>. QED  BY <1>1 DEF Confirmation!Init, Status

\* A step is lawful for every call when each call stands still, is offered,
\* withdrawn, claimed, or made after it was claimed.
Advances(t) ==
  \/ mutation'[t].state = mutation[t].state /\ ran'[t] = ran[t]
  \/ /\ mutation[t].state = "free" /\ mutation'[t].state = "stored"
  \/ /\ mutation[t].state = "stored" /\ mutation'[t].state \in {"cancelled", "gone"}
  \/ /\ mutation[t].state = "stored" /\ mutation'[t].state = "claimed" /\ ran'[t] = ran[t]
  \/ /\ mutation[t].state = "claimed" /\ mutation'[t].state = "claimed" /\ ran[t] = 0 /\ ran'[t] = 1

LEMMA AdvancesLawful ==
  ASSUME Seen, Seen', \A t \in Tokens : Advances(t)
  PROVE  Confirmation!Next
<1>1. Status' \in [Tokens -> Confirmation!Statuses]
  BY DEF Seen, Status
<1>2. ASSUME NEW t \in Tokens
      PROVE  Status'[t] = Status[t] \/ <<Status[t], Status'[t]>> \in Confirmation!Lawful
  <2>1. CASE mutation'[t].state = mutation[t].state /\ ran'[t] = ran[t]
    BY <2>1 DEF Status
  <2>2. CASE mutation[t].state = "free" /\ mutation'[t].state = "stored"
    BY <2>2 DEF Seen, Confirmation!Lawful
  <2>3. CASE mutation[t].state = "stored" /\ mutation'[t].state \in {"cancelled", "gone"}
    BY <2>3 DEF Seen, Confirmation!Lawful
  <2>4. CASE mutation[t].state = "stored" /\ mutation'[t].state = "claimed" /\ ran'[t] = ran[t]
    BY <2>4 DEF Seen, Confirmation!Lawful
  <2>5. CASE mutation[t].state = "claimed" /\ mutation'[t].state = "claimed" /\ ran[t] = 0 /\ ran'[t] = 1
    BY <2>5 DEF Seen, Confirmation!Lawful
  <2>6. Advances(t)
    OBVIOUS
  <2>. QED  BY <2>1, <2>2, <2>3, <2>4, <2>5, <2>6 DEF Advances
<1>. QED  BY <1>1, <1>2 DEF Confirmation!Next

LEMMA NextAdvances ==
  ASSUME RequestsInv, [Next]_vars
  PROVE  \A t \in Tokens : Advances(t)
<1>1. ASSUME StepsAside
      PROVE  \A t \in Tokens : Advances(t)
  BY <1>1 DEF StepsAside, Aside, OffersOnly, Advances
<1>2. CASE \E h \in Handlers : PressConfirm(h)
  <2>1. PICK h \in Handlers : PressConfirm(h)
    BY <1>2
  <2>2. CASE Claimable(handler[h].token, handler[h].user)
    BY <2>1, <2>2, ConfirmClaims DEF Advances
  <2>. QED  BY <1>1, <2>1, <2>2, ConfirmAside
<1>3. CASE \E h \in Handlers : Exec(h)
  <2>1. PICK h \in Handlers : Exec(h)
    BY <1>3
  <2>2. CASE handler[h].via = "confirmed"
    BY <2>1, <2>2, ExecConfirmed DEF Advances
  <2>. QED  BY <1>1, <2>1, <2>2, ExecOther
<1>4. CASE Next /\ \A h \in Handlers : ~PressConfirm(h) /\ ~Exec(h)
  BY <1>1, <1>4, StepAside
<1>5. CASE UNCHANGED vars
  BY <1>5 DEF vars, sessions, requests, Advances
<1>. QED  BY <1>2, <1>3, <1>4, <1>5

\* Message handling keeps the promise of a Confirm button: what is offered is
\* accepted or withdrawn once, and made once after it was accepted.
THEOREM ImplementsConfirmation == Spec => KeepsConfirmation
<1>1. Init => Confirmation!Init
  BY InitConfirmation
<1>2. RequestsInv /\ RequestsInv' /\ [Next]_vars => [Confirmation!Next]_Status
  <2>. SUFFICES ASSUME RequestsInv, RequestsInv', [Next]_vars
                PROVE  Confirmation!Next
    OBVIOUS
  <2>1. Seen /\ Seen'
    <3>1. RequestsInv => Seen
      BY StatusSeen
    <3>2. RequestsInv' => Seen'
      BY StatusSeen, PTL
    <3>. QED  BY <3>1, <3>2
  <2>2. \A t \in Tokens : Advances(t)
    BY NextAdvances
  <2>. QED  BY <2>1, <2>2, AdvancesLawful
<1>. QED  BY <1>1, <1>2, RequestsInvariant, PTL DEF Spec, KeepsConfirmation, Confirmation!Spec
(* ------------------------------- the dialogue ------------------------------ *)

\* With one message at a time all handlers but one are idle.
Alone == \A g, h \in Handlers : ~At(g, "idle") /\ ~At(h, "idle") => g = h

\* A flow holds the values of the fields before its step.
FlowFits == flow # NoFlow => flow.filled = 0 .. (flow.step - 1)

\* What a handler took from the flow is still what the chat is asked, and with the
\* last field every field was filled in.
HandlerFits(h) ==
  /\ At(h, "peek") => /\ handler[h].kind \in {"text", "command"}
                      /\ IsCommand(h) => flow = NoFlow
  /\ At(h, "answer") => /\ handler[h].kind = "text"
                        /\ flow # NoFlow => /\ flow.skill = handler[h].skill
                                            /\ flow.step = handler[h].field
  /\ At(h, "finish") => handler[h].filled = Fields(handler[h].skill)

\* A question was routed once for every write that failed, and once more when it
\* is about to be cleared.
QuestionFits ==
  /\ (\A h \in Handlers : ~At(h, "clear")) /\ question # NoQuestion => loaded[question.id] <= faults
  /\ \A q \in Questions : loaded[q] <= 1 + faults

DialogueInv ==
  mode = "polling" => Alone /\ FlowFits /\ QuestionFits /\ \A h \in Handlers : HandlerFits(h)

\* Polling, and h is the handler that may move.
Turn(h) ==
  /\ RequestsInv /\ DialogueInv /\ mode = "polling"
  /\ At(h, "idle") => \A g \in Handlers : At(g, "idle")

LEMMA TurnFits ==
  ASSUME NEW h \in Handlers, Turn(h)
  PROVE  /\ Alone /\ FlowFits /\ QuestionFits /\ HandlerFits(h)
         /\ \A g \in Handlers \ {h} : At(g, "idle")
BY DEF Turn, DialogueInv, Alone

LEMMA AloneKept ==
  ASSUME NEW h \in Handlers, Turn(h), Others(h), HandlerFits(h)'
  PROVE  Alone' /\ \A g \in Handlers : HandlerFits(g)'
<1>1. \A g \in Handlers \ {h} : At(g, "idle")'
  BY TurnFits DEF Others, At
<1>2. Alone'
  BY <1>1 DEF Alone
<1>3. \A g \in Handlers \ {h} : HandlerFits(g)'
  BY <1>1 DEF HandlerFits, At
<1>. QED  BY <1>2, <1>3

LEMMA QuestionKept ==
  ASSUME NEW h \in Handlers, Turn(h), ~At(h, "clear"), UNCHANGED <<question, loaded>>,
         faults' \in {faults, faults + 1}
  PROVE  QuestionFits'
<1>1. \A g \in Handlers : ~At(g, "clear")
  BY TurnFits DEF At
<1>2. faults \in Nat /\ loaded \in [Questions -> Nat]
  BY FaultsAssumption DEF Turn, RequestsInv, TypeOK, FaultsTypeOK
<1>3. question # NoQuestion => question.id \in Questions
  BY DEF Turn, RequestsInv, TypeOK
<1>. QED  BY <1>1, <1>2, <1>3, TurnFits DEF QuestionFits

\* What a step of h has to show when it leaves the question alone.
LEMMA TurnKept ==
  ASSUME NEW h \in Handlers, Turn(h), ~At(h, "clear"), Others(h), HandlerFits(h)', FlowFits',
         UNCHANGED <<question, loaded, faults>>
  PROVE  DialogueInv'
<1>1. Alone' /\ \A g \in Handlers : HandlerFits(g)'
  BY AloneKept
<1>2. QuestionFits'
  BY QuestionKept
<1>. QED  BY <1>1, <1>2 DEF DialogueInv

\* Stages in which a handler relies on nothing that a flow could say.
Free == Stages \ {"peek", "answer", "finish"}

LEMMA FreeFits ==
  ASSUME NEW h \in Handlers, NEW stage \in Free, Moves(h, stage)
  PROVE  Others(h) /\ HandlerFits(h)'
BY DEF Moves, HandlerFits, Free, At

LEMMA GotoFree ==
  ASSUME RequestsInv, NEW h \in Handlers, NEW stage \in Free, Goto(h, stage)
  PROVE  Others(h) /\ HandlerFits(h)'
BY GotoMoves, FreeFits DEF Free, RequestsInv, TypeOK

LEMMA ExecuteFree ==
  ASSUME RequestsInv, NEW h \in Handlers, NEW s \in Skills,
         NEW via \in {"button", "flow", "confirmed", "command", "router"}, Execute(h, s, via)
  PROVE  Others(h) /\ HandlerFits(h)'
BY ExecuteMoves, FreeFits DEF Free, Stages, RequestsInv, TypeOK

LEMMA DoneFree ==
  ASSUME RequestsInv, NEW h \in Handlers, Done(h)
  PROVE  Others(h) /\ HandlerFits(h)'
BY DoneMoves, FreeFits DEF Free, Stages, RequestsInv, TypeOK

LEMMA ConfirmFree ==
  ASSUME RequestsInv, NEW h \in Handlers, NEW s \in Skills, ConfirmAndRun(h, s)
  PROVE  Others(h) /\ HandlerFits(h)'
BY GotoFree DEF ConfirmAndRun, Free, Stages

LEMMA FlowStill ==
  ASSUME NEW h \in Handlers, Turn(h), flow' = flow \/ Pending \/ ClearInput
  PROVE  FlowFits'
BY TurnFits DEF FlowFits, Pending, ClearInput

LEMMA FlowStarted ==
  ASSUME NEW s \in Skills, StartInput(s)
  PROVE  FlowFits'
BY DEF StartInput, FlowFits

LEMMA ReceiveFits ==
  ASSUME NEW h \in Handlers, Turn(h), Receive(h)
  PROVE  DialogueInv'
<1>1. PICK u \in Users, k \in Typed \cup Presses, s \in Skills, t \in Tokens \cup {NoToken} :
        Set(h, [Idle(s) EXCEPT !.user = u, !.kind = k, !.token = t, !.at = FirstStage(k)])
  BY DEF Receive
<1>. DEFINE new == [Idle(s) EXCEPT !.user = u, !.kind = k, !.token = t, !.at = FirstStage(k)]
<1>2. new.at \in Free
  BY DEF Idle, FirstStage, Free, Stages
<1>3. handler' = [handler EXCEPT ![h] = new]
  BY <1>1 DEF Set
<1>4. Others(h) /\ HandlerFits(h)'
  <2>. HIDE DEF new
  <2>. QED  BY <1>2, <1>3 DEF Turn, RequestsInv, TypeOK, Others, HandlerFits, Free, At
<1>5. FlowFits'
  BY FlowStill DEF Receive, sessions
<1>. QED  BY <1>4, <1>5, TurnKept DEF Receive, HistoryKept, At

LEMMA TurnedFits ==
  ASSUME NEW h \in Handlers, Turn(h), NEW k \in {"text", "menu"},
         handler' = [handler EXCEPT ![h].kind = k, ![h].at = "auth"]
  PROVE  Others(h) /\ HandlerFits(h)'
<1>1. handler'[h].at = "auth" /\ Others(h)
  BY DEF Turn, RequestsInv, TypeOK, Work, Others
<1>. QED  BY <1>1 DEF HandlerFits, At

LEMMA AttachFits ==
  ASSUME NEW h \in Handlers, Turn(h), Voice(h) \/ Document(h) \/ Image(h) \/ Authorize(h)
  PROVE  DialogueInv'
<1>1. CASE Voice(h) \/ Document(h) \/ Image(h)
  <2>1. Others(h) /\ HandlerFits(h)'
    BY <1>1, TurnedFits, DoneFree, GotoFree DEF Voice, Document, Image, Free, Stages, Turn
  <2>2. FlowFits'
    BY <1>1, FlowStill DEF Voice, Document, Image, sessions
  <2>. QED  BY <1>1, <2>1, <2>2, TurnKept DEF Voice, Document, Image, HistoryKept, At
<1>2. CASE Authorize(h)
  <2>. DEFINE stage == IF handler[h].user \notin Allowed THEN "reply"
                       ELSE IF handler[h].kind \in Presses THEN "press" ELSE "ui"
  <2>1. stage \in Free /\ Goto(h, stage)
    BY <1>2 DEF Authorize, Stages, Free
  <2>2. Others(h) /\ HandlerFits(h)'
    <3>. HIDE DEF stage
    <3>. QED  BY <2>1, GotoFree DEF Turn
  <2>3. FlowFits'
    BY <1>2, FlowStill DEF Authorize, sessions
  <2>. QED  BY <1>2, <2>2, <2>3, TurnKept DEF Authorize, HistoryKept, At
<1>. QED  BY <1>1, <1>2

LEMMA ButtonFits ==
  ASSUME NEW h \in Handlers, Turn(h),
         \/ PressSkill(h) \/ PressAction(h) \/ PressQuick(h) \/ PressNavigate(h)
         \/ PressConfirm(h) \/ PressCancel(h)
  PROVE  DialogueInv'
<1>1. RequestsInv /\ handler[h].skill \in Skills /\ Confirming \subseteq Skills
  BY RequestsAssumption DEF Turn, RequestsInv, TypeOK, Work
<1>2. CASE PressSkill(h)
  <2>1. Others(h) /\ HandlerFits(h)'
    BY <1>1, <1>2, GotoFree, ConfirmFree, ExecuteFree DEF PressSkill, Free, Stages
  <2>2. FlowFits'
    BY <1>1, <1>2, FlowStill, FlowStarted DEF PressSkill
  <2>. QED  BY <1>2, <2>1, <2>2, TurnKept DEF PressSkill, HistoryKept, At
<1>3. CASE PressAction(h)
  <2>1. Others(h) /\ HandlerFits(h)'
    BY <1>1, <1>3, ConfirmFree, ExecuteFree DEF PressAction
  <2>. QED  BY <1>3, <2>1, FlowStill, TurnKept DEF PressAction, HistoryKept, At
<1>4. CASE PressQuick(h)
  <2>1. Others(h) /\ HandlerFits(h)'
    BY <1>1, <1>4, ExecuteFree DEF PressQuick
  <2>. QED  BY <1>4, <2>1, FlowStill, TurnKept DEF PressQuick, HistoryKept, sessions, At
<1>5. CASE PressNavigate(h) \/ PressCancel(h)
  <2>1. Others(h) /\ HandlerFits(h)'
    BY <1>1, <1>5, GotoFree DEF PressNavigate, PressCancel, Free, Stages
  <2>. QED  BY <1>5, <2>1, FlowStill, TurnKept DEF PressNavigate, PressCancel, HistoryKept, sessions, At
<1>6. CASE PressConfirm(h)
  <2>1. Claimable(handler[h].token, handler[h].user) => mutation[handler[h].token].skill \in Skills
    BY <1>1, <1>6 DEF PressConfirm, Carriage, RequestsInv, TypeOK, SessionsTypeOK, Mutations
  <2>2. Others(h) /\ HandlerFits(h)'
    BY <1>1, <1>6, <2>1, GotoFree, ExecuteFree DEF PressConfirm, Free, Stages
  <2>. QED  BY <1>6, <2>2, FlowStill, TurnKept DEF PressConfirm, At
<1>. QED  BY <1>2, <1>3, <1>4, <1>5, <1>6

\* A command ends the flow before anybody looks for one.
LEMMA PipelineFits ==
  ASSUME NEW h \in Handlers, Turn(h), Screen(h) \/ EndFlow(h) \/ PeekPastEnd(h)
  PROVE  DialogueInv'
<1>1. RequestsInv /\ handler \in [Handlers -> Work]
  BY DEF Turn, RequestsInv, TypeOK
<1>2. CASE Screen(h)
  <2>1. Others(h) /\ HandlerFits(h)'
    BY <1>1, <1>2, GotoFree, ExecuteFree DEF Screen, Free, Stages
  <2>. QED  BY <1>2, <2>1, FlowStill, TurnKept DEF Screen, HistoryKept, At
<1>3. CASE EndFlow(h)
  <2>1. Moves(h, "peek") /\ handler'[h].kind = handler[h].kind
    BY <1>1, <1>3, GotoMoves DEF EndFlow, Stages
  <2>2. IsCommand(h) => flow' = NoFlow
    BY <1>3 DEF EndFlow, ClearInput, Pending
  <2>3. Others(h) /\ HandlerFits(h)'
    BY <1>3, <2>1, <2>2 DEF EndFlow, Moves, HandlerFits, IsCommand, At
  <2>. QED  BY <1>3, <2>3, FlowStill, TurnKept DEF EndFlow, HistoryKept, At
<1>4. CASE PeekPastEnd(h)
  BY <1>1, <1>4, DoneFree, FlowStill, TurnKept DEF PeekPastEnd, HistoryKept, At
<1>. QED  BY <1>2, <1>3, <1>4

LEMMA PeekFits ==
  ASSUME NEW h \in Handlers, Turn(h), Peek(h)
  PROVE  DialogueInv'
<1>1. RequestsInv /\ handler \in [Handlers -> Work] /\ Chat \in Skills
  BY RequestsAssumption DEF Turn, RequestsInv, TypeOK
<1>2. CASE /\ HasFlow
           /\ handler' = [handler EXCEPT ![h].at = "answer", ![h].skill = flow.skill,
                                         ![h].field = flow.step]
  <2>1. /\ handler'[h].at = "answer" /\ handler'[h].skill = flow.skill
        /\ handler'[h].field = flow.step /\ handler'[h].kind = handler[h].kind
        /\ Others(h)
    BY <1>1, <1>2 DEF Work, Others
  <2>2. handler[h].kind = "text" /\ flow' = flow
    BY <1>2, TurnFits DEF Peek, HandlerFits, IsCommand, HasFlow, Pending
  <2>3. HandlerFits(h)'
    BY <2>1, <2>2 DEF HandlerFits, At
  <2>. QED  BY <2>1, <2>3, FlowStill, TurnKept DEF Peek, HistoryKept, At
<1>3. CASE IF freeChat /\ handler[h].kind = "text" THEN Execute(h, Chat, "router")
           ELSE Goto(h, "watch")
  <2>1. Others(h) /\ HandlerFits(h)'
    BY <1>1, <1>3, ExecuteFree, GotoFree DEF Free, Stages
  <2>. QED  BY <2>1, FlowStill, TurnKept DEF Peek, HistoryKept, At
<1>. QED  BY <1>2, <1>3 DEF Peek

\* The answer goes to the flow it was taken from: nobody else moved meanwhile.
LEMMA AnswerFits ==
  ASSUME NEW h \in Handlers, Turn(h), Answer(h)
  PROVE  DialogueInv'
<1>1. RequestsInv /\ handler \in [Handlers -> Work]
  BY DEF Turn, RequestsInv, TypeOK
<1>2. CASE (Goto(h, "reply") \/ Done(h)) /\ UNCHANGED flow
  <2>1. Others(h) /\ HandlerFits(h)'
    BY <1>1, <1>2, GotoFree, DoneFree DEF Free, Stages
  <2>. QED  BY <1>2, <2>1, FlowStill, TurnKept DEF Answer, HistoryKept, At
<1>3. CASE /\ AdvanceInput(handler[h].skill, handler[h].field)
           /\ handler' = [handler EXCEPT ![h].filled = flow'.filled,
                ![h].at = IF flow'.step < Inputs[handler[h].skill] THEN "reply" ELSE "finish"]
  <2>. DEFINE s == handler[h].skill
              n == handler[h].field
  <2>1. /\ flow \in Flows /\ flow.skill = s /\ flow.step = n
        /\ flow.filled = 0 .. (n - 1)
    BY <1>1, <1>3, TurnFits DEF Answer, AdvanceInput, RequestsInv, TypeOK, SessionsTypeOK, HandlerFits, FlowFits
  <2>2. s \in Skills /\ n \in Nat /\ n \in Fields(s) /\ Inputs[s] \in Nat
    BY <1>1, SessionsAssumption DEF Answer, Work, RequestsInv, Carriage
  <2>3. flow' = [flow EXCEPT !.step = n + 1, !.stale = FALSE, !.filled = flow.filled \cup {n}]
    BY <1>3, <2>1 DEF AdvanceInput
  <2>4. flow'.step = n + 1 /\ flow'.filled = flow.filled \cup {n}
    BY <2>1, <2>3 DEF Flows
  <2>5. flow'.filled = 0 .. n
    BY <2>1, <2>2, <2>4
  <2>6. FlowFits'
    BY <2>2, <2>4, <2>5 DEF FlowFits
  <2>7. /\ Others(h) /\ handler'[h].skill = s /\ handler'[h].filled = flow'.filled
        /\ handler'[h].at = IF flow'.step < Inputs[s] THEN "reply" ELSE "finish"
    BY <1>1, <1>3 DEF Work, Others
  <2>8. flow'.step < Inputs[s] \/ flow'.filled = Fields(s)
    BY <2>2, <2>4, <2>5 DEF Fields
  <2>9. HandlerFits(h)'
    BY <2>7, <2>8 DEF HandlerFits, At
  <2>. QED  BY <2>6, <2>7, <2>9, TurnKept DEF Answer, HistoryKept, At
<1>. QED  BY <1>2, <1>3 DEF Answer

LEMMA FinishFits ==
  ASSUME NEW h \in Handlers, Turn(h), Finish(h)
  PROVE  DialogueInv'
<1>1. RequestsInv /\ handler[h].skill \in Skills
  BY DEF Turn, RequestsInv, TypeOK, Work
<1>2. Others(h) /\ HandlerFits(h)'
  BY <1>1, ConfirmFree, ExecuteFree DEF Finish
<1>. QED  BY <1>2, FlowStill, TurnKept DEF Finish, HistoryKept, At

LEMMA RouterFits ==
  ASSUME NEW h \in Handlers, Turn(h), WatchAction(h) \/ Route(h) \/ Exec(h) \/ Reply(h)
  PROVE  DialogueInv'
<1>1. RequestsInv /\ handler \in [Handlers -> Work]
  BY DEF Turn, RequestsInv, TypeOK
<1>2. Others(h) /\ HandlerFits(h)'
  <2>1. CASE \E d : handler' = [handler EXCEPT ![h].decision = d, ![h].at = "load"]
    <3>1. handler'[h].at = "load" /\ Others(h)
      BY <1>1, <2>1 DEF Work, Others
    <3>. QED  BY <3>1 DEF HandlerFits, At
  <2>2. CASE Goto(h, "route") \/ Goto(h, "reply") \/ Done(h)
    BY <1>1, <2>2, GotoFree, DoneFree DEF Free, Stages
  <2>. QED  BY <2>1, <2>2 DEF WatchAction, Route, Exec, Reply
<1>3. UNCHANGED <<flow, question, loaded, faults>> /\ ~At(h, "clear")
  BY DEF WatchAction, Route, Exec, Reply, HistoryKept, sessions, At
<1>. QED  BY <1>2, <1>3, FlowStill, TurnKept

\* A question is counted when it is loaded, and counted for the write that failed
\* when it is not cleared.
LEMMA LoadFits ==
  ASSUME NEW h \in Handlers, Turn(h), LoadQuestion(h)
  PROVE  DialogueInv'
<1>1. RequestsInv /\ handler \in [Handlers -> Work]
  BY DEF Turn, RequestsInv, TypeOK
<1>2. /\ faults \in Nat /\ loaded \in [Questions -> Nat]
      /\ question # NoQuestion => question.id \in Questions
  BY <1>1, FaultsAssumption DEF RequestsInv, TypeOK, FaultsTypeOK
<1>3. FlowFits'
  BY FlowStill DEF LoadQuestion, sessions
<1>4. /\ question # NoQuestion => loaded[question.id] <= faults
      /\ \A q \in Questions : loaded[q] <= 1 + faults
  <2>1. \A g \in Handlers : ~At(g, "clear")
    BY TurnFits DEF LoadQuestion, At
  <2>. QED  BY <2>1, TurnFits DEF QuestionFits
<1>5. CASE /\ question # NoQuestion /\ UNCHANGED <<question, faults>>
           /\ loaded' = [loaded EXCEPT ![question.id] = @ + 1]
           /\ \E d : handler' = [handler EXCEPT ![h].at = "clear", ![h].asked = question.id, ![h].decision = d]
  <2>1. handler'[h].at = "clear" /\ Others(h)
    BY <1>1, <1>5 DEF Work, Others
  <2>2. HandlerFits(h)'
    BY <2>1 DEF HandlerFits, At
  <2>3. \A q \in Questions : loaded'[q] <= 1 + faults'
    BY <1>2, <1>4, <1>5
  <2>4. QuestionFits'
    BY <2>1, <2>3 DEF QuestionFits, At
  <2>. QED  BY <1>3, <2>1, <2>2, <2>4, AloneKept DEF DialogueInv
<1>6. CASE /\ Goto(h, "decide") /\ UNCHANGED loaded
           /\ question' = question \/ question' = NoQuestion
           /\ faults' \in {faults, faults + 1}
  <2>1. Others(h) /\ HandlerFits(h)'
    BY <1>1, <1>6, GotoFree DEF Free, Stages
  <2>2. QuestionFits'
    BY <1>2, <1>4, <1>6 DEF QuestionFits
  <2>. QED  BY <1>3, <2>1, <2>2, AloneKept DEF DialogueInv
<1>. QED  BY <1>5, <1>6 DEF LoadQuestion, NoFault, Fault

LEMMA ClearFits ==
  ASSUME NEW h \in Handlers, Turn(h), ClearQuestion(h)
  PROVE  DialogueInv'
<1>1. RequestsInv
  BY DEF Turn
<1>2. /\ faults \in Nat /\ loaded \in [Questions -> Nat]
      /\ question # NoQuestion => question.id \in Questions
  BY <1>1, FaultsAssumption DEF RequestsInv, TypeOK, FaultsTypeOK
<1>3. FlowFits'
  BY FlowStill DEF ClearQuestion, sessions
<1>4. Others(h) /\ HandlerFits(h)'
  BY <1>1, GotoFree DEF ClearQuestion, Free, Stages
<1>5. \A q \in Questions : loaded[q] <= 1 + faults
  BY TurnFits DEF QuestionFits
<1>6. QuestionFits'
  BY <1>2, <1>5 DEF ClearQuestion, NoFault, Fault, HistoryKept, QuestionFits
<1>. QED  BY <1>3, <1>4, <1>6, AloneKept DEF DialogueInv

\* A new question was never loaded.
LEMMA ClarifyFits ==
  ASSUME NEW h \in Handlers, Turn(h), Clarify(h)
  PROVE  DialogueInv'
<1>1. RequestsInv
  BY DEF Turn
<1>2. faults \in Nat /\ loaded \in [Questions -> Nat]
  BY <1>1, FaultsAssumption DEF RequestsInv, TypeOK, FaultsTypeOK
<1>3. FlowFits'
  BY FlowStill DEF Clarify, sessions
<1>4. Others(h) /\ HandlerFits(h)'
  BY <1>1, GotoFree DEF Clarify, Free, Stages
<1>5. QuestionFits'
  <2>1. CASE UNCHANGED question /\ Fault
    BY <2>1, QuestionKept DEF Clarify, HistoryKept, Fault, At
  <2>2. CASE NoFault /\ \E q \in NextQuestion : question' = [id |-> q, stale |-> FALSE]
    <3>1. PICK q \in NextQuestion : question' = [id |-> q, stale |-> FALSE]
      BY <2>2
    <3>2. q \in Questions /\ loaded[q] = 0
      BY <1>2, RequestsAssumption DEF NextQuestion
    <3>. QED  BY <1>2, <2>2, <3>1, <3>2, TurnFits DEF Clarify, NoFault, HistoryKept, QuestionFits
  <2>. QED  BY <2>1, <2>2 DEF Clarify
<1>. QED  BY <1>3, <1>4, <1>5, AloneKept DEF DialogueInv

LEMMA DecideFits ==
  ASSUME NEW h \in Handlers, Turn(h), Decide(h)
  PROVE  DialogueInv'
<1>1. RequestsInv /\ handler[h].skill \in Skills /\ Chat \in Skills
  BY RequestsAssumption DEF Turn, RequestsInv, TypeOK, Work
<1>2. Others(h) /\ HandlerFits(h)'
  BY <1>1, DoneFree, ExecuteFree DEF Decide
<1>3. FlowFits'
  BY <1>1, FlowStill, FlowStarted DEF Decide
<1>. QED  BY <1>2, <1>3, TurnKept DEF Decide, HistoryKept, At

\* A process that starts again has no message, no flow, and the old question.
LEMMA RestartFits ==
  ASSUME RequestsInv, DialogueInv, mode = "polling", Restart
  PROVE  DialogueInv'
<1>1. \A h \in Handlers : At(h, "idle")'
  BY DEF Restart, Idle, At
<1>2. Alone' /\ \A h \in Handlers : HandlerFits(h)'
  <2>1. ASSUME NEW h \in Handlers
        PROVE  HandlerFits(h)'
    BY <1>1 DEF HandlerFits, At
  <2>2. ASSUME NEW g \in Handlers, NEW h \in Handlers, ~At(g, "idle")'
        PROVE  FALSE
    BY <1>1, <2>2
  <2>. QED  BY <2>1, <2>2 DEF Alone
<1>3. FlowFits'
  BY DEF Restart, SessionsLost, FlowFits
<1>4. /\ faults \in Nat /\ loaded \in [Questions -> Nat]
      /\ question # NoQuestion => question.id \in Questions
  BY FaultsAssumption DEF RequestsInv, TypeOK, FaultsTypeOK
<1>5. QuestionFits'
  BY <1>4 DEF DialogueInv, QuestionFits, Restart, Fault, HistoryKept
<1>. QED  BY <1>2, <1>3, <1>5 DEF DialogueInv

LEMMA TimeFits ==
  ASSUME RequestsInv, DialogueInv, mode = "polling", TimePasses
  PROVE  DialogueInv'
<1>1. handler' = handler /\ loaded' = loaded /\ faults' = faults
  BY DEF TimePasses, HistoryKept
<1>2. \/ flow' = flow
      \/ /\ flow # NoFlow /\ flow \in Flows
         /\ flow' = [flow EXCEPT !.stale = TRUE]
  BY DEF TimePasses, FlowExpires, HasFlow, MutationExpires, sessions, RequestsInv, TypeOK, SessionsTypeOK
<1>3. /\ FlowFits'
      /\ (flow = NoFlow => flow' = NoFlow)
      /\ flow # NoFlow => flow'.skill = flow.skill /\ flow'.step = flow.step
  BY <1>2 DEF DialogueInv, FlowFits, Flows
<1>4. question' # NoQuestion => question # NoQuestion /\ question'.id = question.id
  BY DEF TimePasses, RequestsInv, TypeOK
<1>5. Alone' /\ QuestionFits'
  BY <1>1, <1>4 DEF DialogueInv, Alone, QuestionFits, At
<1>6. \A h \in Handlers : HandlerFits(h)'
  BY <1>1, <1>3 DEF DialogueInv, HandlerFits, IsCommand, At
<1>. QED  BY <1>3, <1>5, <1>6 DEF DialogueInv

LEMMA NextDialogueInv ==
  ASSUME RequestsInv, DialogueInv, [Next]_vars
  PROVE  DialogueInv'
<1>. SUFFICES ASSUME mode' = "polling"
              PROVE  DialogueInv'
  BY DEF DialogueInv
<1>1. CASE UNCHANGED vars
  BY <1>1 DEF vars, sessions, requests, DialogueInv, Alone, FlowFits, QuestionFits, HandlerFits, IsCommand, At
<1>2. ASSUME NEW h \in Handlers, Receive(h)
      PROVE  DialogueInv'
  <2>1. Turn(h)
    BY <1>2 DEF Receive, Turn
  <2>. QED  BY <1>2, <2>1, ReceiveFits
<1>3. ASSUME NEW h \in Handlers,
             \/ Voice(h) \/ Document(h) \/ Image(h) \/ Authorize(h)
             \/ PressSkill(h) \/ PressAction(h) \/ PressQuick(h) \/ PressNavigate(h)
             \/ PressConfirm(h) \/ PressCancel(h)
      PROVE  DialogueInv'
  <2>1. Turn(h)
    BY <1>3 DEF Voice, Document, Image, Authorize, PressSkill, PressAction, PressQuick, PressNavigate,
                PressConfirm, PressCancel, Turn, At
  <2>. QED  BY <1>3, <2>1, AttachFits, ButtonFits
<1>4. ASSUME NEW h \in Handlers,
             \/ Screen(h) \/ EndFlow(h) \/ Peek(h) \/ PeekPastEnd(h) \/ Answer(h) \/ Finish(h)
             \/ WatchAction(h) \/ Route(h) \/ Exec(h) \/ Reply(h)
      PROVE  DialogueInv'
  <2>1. Turn(h)
    BY <1>4 DEF Screen, EndFlow, Peek, PeekPastEnd, Answer, Finish, WatchAction, Route, Exec, Reply, Turn, At
  <2>. QED  BY <1>4, <2>1, PipelineFits, PeekFits, AnswerFits, FinishFits, RouterFits
<1>5. ASSUME NEW h \in Handlers, LoadQuestion(h) \/ ClearQuestion(h) \/ Clarify(h) \/ Decide(h)
      PROVE  DialogueInv'
  <2>1. Turn(h)
    BY <1>5 DEF LoadQuestion, ClearQuestion, Clarify, Decide, Turn, At
  <2>. QED  BY <1>5, <2>1, LoadFits, ClearFits, ClarifyFits, DecideFits
<1>6. CASE Crash \/ \E h \in Handlers : ReplyFails(h)
  <2>1. mode = "polling" /\ Restart
    BY <1>6 DEF Crash, ReplyFails, Restart
  <2>. QED  BY <2>1, RestartFits
<1>7. CASE TimePasses
  <2>1. mode = "polling"
    BY <1>7 DEF TimePasses
  <2>. QED  BY <1>7, <2>1, TimeFits
<1>. QED  BY <1>1, <1>2, <1>3, <1>4, <1>5, <1>6, <1>7 DEF Next

LEMMA InitDialogueInv ==
  ASSUME Init
  PROVE  DialogueInv
<1>1. \A h \in Handlers : At(h, "idle")
  BY DEF Init, Idle, At
<1>2. Alone /\ \A h \in Handlers : HandlerFits(h)
  BY <1>1 DEF Alone, HandlerFits, At
<1>3. FlowFits /\ QuestionFits
  BY DEF Init, SessionsInit, FaultsInit, FlowFits, QuestionFits
<1>. QED  BY <1>2, <1>3 DEF DialogueInv

LEMMA DialogueInvHolds ==
  ASSUME RequestsInv, DialogueInv
  PROVE  DialoguesHold
<1>1. ButtonsAsk
  BY DEF RequestsInv
<1>2. FieldsComplete /\ CommandsEscape
  BY DEF DialogueInv, HandlerFits, FieldsComplete, CommandsEscape
<1>3. QuestionUsedOnce
  BY DEF DialogueInv, QuestionFits, QuestionUsedOnce
<1>. QED  BY <1>1, <1>2, <1>3 DEF DialoguesHold

\* A skill gets every field it asked for, a command or a tap on the keyboard is
\* never an answer, and a clarification question is used once for each failed
\* write and once more - with one message at a time; and buttons and flows always
\* ask before they change anything (ui.go:297-503, agent.go:297-358).
THEOREM DialoguesKept == Spec => []DialoguesHold
<1>1. Init => RequestsInv /\ DialogueInv
  BY InitRequestsInv, InitDialogueInv
<1>2. (RequestsInv /\ DialogueInv) /\ [Next]_vars => (RequestsInv /\ DialogueInv)'
  BY NextRequestsInv, NextDialogueInv
<1>3. RequestsInv /\ DialogueInv => DialoguesHold
  BY DialogueInvHolds
<1>. QED  BY <1>1, <1>2, <1>3, PTL DEF Spec
=============================================================================
