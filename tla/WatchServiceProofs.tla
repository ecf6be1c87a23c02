-------------------------- MODULE WatchServiceProofs --------------------------
(***************************************************************************)
(* Alerts are a cooldown apart, open incidents are known to their watch,   *)
(* and a button restarts a service once: for any watches, durations and    *)
(* number of incidents, whatever crashes and fails.  Each holds while some *)
(* kinds of messages stay away, because both sides write back whole rows.  *)
(***************************************************************************)
EXTENDS WatchService, TLAPS, SequenceTheorems, FiniteSetTheorems, WellFoundedInduction

\* Where the poller has a watch, an incident, and a copy of it.
WithWatch == {"bad", "good", "create", "prompt", "heal", "healed", "alert", "busy", "resolve",
              "tell_resolved", "clear"}
WithIncident == {"prompt", "heal", "healed", "alert", "resolve"}
WithCopy == {"prompt", "heal", "healed", "resolve"}
Answering == {"late", "take", "progress", "run", "reread", "finish"}

\* What a local state refers to is there.
PollerRefers ==
  /\ poller.expired \subseteq DOMAIN incidents
  /\ poller.pc \in WithWatch => poller.w \in Watches
  /\ poller.pc \in WithIncident => poller.i \in DOMAIN incidents
  /\ poller.pc \in WithCopy => poller.inc \in Incident
  /\ poller.pc = "healed" => poller.action \in {"succeeded", "failed"}
HandlersRefer ==
  \A h \in Handlers :
    /\ handler[h].pc \in {"toggle", "pack"} => handler[h].w \in Watches
    /\ handler[h].pc \in Answering => handler[h].i \in DOMAIN incidents /\ handler[h].inc \in Incident
    /\ handler[h].pc \in {"reread", "finish"} => handler[h].action \in {"ignore", "succeeded", "failed"}
TypesInv == TypeOK /\ PollerRefers /\ HandlersRefer

(* --------------------------- local states --------------------------- *)

LEMMA FreshType == Fresh \in Watch /\ \A is \in {"unused", "removed"} : Missing(is) \in Watch
<1>1. 0 \in Time
  BY WatchAssumption DEF Time
<1>2. Fresh \in Watch
  BY <1>1 DEF Fresh, Watch
<1>. QED  BY <1>2 DEF Missing, Watch

LEMMA IdleTypes ==
  /\ PollerIdle \in PollerState /\ PollerIdle.pc = "idle" /\ PollerIdle.expired = {} /\ PollerIdle.todo = {}
  /\ HandlerIdle \in HandlerState /\ HandlerIdle.pc = "idle"
BY FreshType, WatchAssumption DEF PollerIdle, HandlerIdle, PollerState, HandlerState, Stages, Time

LEMMA GotoMoves ==
  ASSUME poller \in PollerState, NEW pc \in Stages, Goto(pc)
  PROVE  /\ poller' \in PollerState /\ poller'.pc = pc
         /\ poller'.at = poller.at /\ poller'.expired = poller.expired /\ poller'.todo = poller.todo
         /\ poller'.w = poller.w /\ poller'.row = poller.row /\ poller'.i = poller.i
         /\ poller'.inc = poller.inc /\ poller'.action = poller.action
BY DEF Goto, PollerState

LEMMA NextWatchMoves ==
  ASSUME poller \in PollerState
  PROVE  /\ NextWatch \in PollerState /\ NextWatch.pc = "pick"
         /\ NextWatch.at = poller.at /\ NextWatch.expired = {} /\ NextWatch.todo = poller.todo
<1>1. /\ poller.at \in Time /\ poller.todo \in SUBSET [w : Watches, row : Watch]
  BY DEF PollerState
<1>. QED  BY <1>1, IdleTypes DEF NextWatch, PollerState, Stages

LEMMA IncidentSaved ==
  ASSUME incidents \in Seq(Incident), NEW i \in DOMAIN incidents, NEW inc \in Incident,
         SaveIncident(i, inc)
  PROVE  /\ incidents' \in Seq(Incident) /\ Len(incidents') = Len(incidents)
         /\ DOMAIN incidents' = DOMAIN incidents /\ incidents'[i] = inc /\ Present(i)
         /\ \A j \in DOMAIN incidents : j # i => incidents'[j] = incidents[j]
<1>1. incidents' = [incidents EXCEPT ![i] = inc] /\ Present(i)
  BY DEF SaveIncident
<1>2. incidents' \in Seq(Incident) /\ Len(incidents') = Len(incidents)
  BY <1>1, ExceptSeq
<1>. QED  BY <1>1, <1>2

LEMMA WatchSaved ==
  ASSUME watches \in [Watches -> Watch], NEW w \in Watches, NEW row \in Watch,
         SaveWatch(w, row) \/ WatchNotSaved(w)
  PROVE  watches' \in [Watches -> Watch]
BY DEF SaveWatch, WatchNotSaved

(* ------------------------------- types ------------------------------- *)

\* The table of incidents keeps its type and its rows.
RowsStay ==
  incidents' \in Seq(Incident) /\ Len(incidents') <= MaxIncidents /\ DOMAIN incidents \subseteq DOMAIN incidents'

LEMMA DomainBounded ==
  ASSUME TypesInv
  PROVE  /\ DOMAIN incidents = 1..Len(incidents) /\ Len(incidents) \in Nat
         /\ DOMAIN incidents \subseteq 1..MaxIncidents
<1>1. incidents \in Seq(Incident) /\ Len(incidents) <= MaxIncidents
  BY DEF TypesInv, TypeOK
<1>2. DOMAIN incidents = 1..Len(incidents) /\ Len(incidents) \in Nat
  BY <1>1
<1>. QED  BY <1>1, <1>2, WatchAssumption

LEMMA UntouchedRowsStay ==
  ASSUME TypesInv, UNCHANGED incidents
  PROVE  RowsStay
BY DEF TypesInv, TypeOK, RowsStay

LEMMA SavedRowsStay ==
  ASSUME TypesInv, NEW i \in DOMAIN incidents, NEW inc \in Incident,
         SaveIncident(i, inc) \/ IncidentNotSaved(i)
  PROVE  RowsStay
<1>1. CASE SaveIncident(i, inc)
  BY <1>1, IncidentSaved DEF TypesInv, TypeOK, RowsStay
<1>2. CASE IncidentNotSaved(i)
  BY <1>2, UntouchedRowsStay DEF IncidentNotSaved
<1>. QED  BY <1>1, <1>2

\* The poller goes on in its own frame, with the copies it has.
LEMMA GotoTypes ==
  ASSUME TypesInv, RowsStay, NEW pc \in Stages, Goto(pc), pc # "healed",
         pc \in WithWatch => poller.pc \in WithWatch,
         pc \in WithIncident => poller.pc \in WithIncident,
         pc \in WithCopy => poller.pc \in WithCopy
  PROVE  poller' \in PollerState /\ PollerRefers'
<1>1. poller \in PollerState /\ PollerRefers
  BY DEF TypesInv, TypeOK
<1>. QED  BY <1>1, GotoMoves DEF PollerRefers, RowsStay

LEMMA RestTypes ==
  ASSUME TypesInv, RowsStay, poller' \in {PollerIdle, NextWatch, [PollerIdle EXCEPT !.at = poller.at]}
  PROVE  poller' \in PollerState /\ PollerRefers'
<1>1. poller \in PollerState
  BY DEF TypesInv, TypeOK
<1>2. [PollerIdle EXCEPT !.at = poller.at] \in PollerState
  BY <1>1, IdleTypes DEF PollerState
<1>3. poller' \in PollerState /\ poller'.pc \in {"idle", "pick"} /\ poller'.expired = {}
  BY <1>1, <1>2, IdleTypes, NextWatchMoves DEF PollerIdle
<1>. QED  BY <1>3 DEF PollerRefers, WithWatch, WithIncident, WithCopy

LEMMA HandlersStay ==
  ASSUME TypesInv, RowsStay, UNCHANGED handler
  PROVE  handler' \in [Handlers -> HandlerState] /\ HandlersRefer'
BY DEF TypesInv, TypeOK, HandlersRefer, RowsStay

LEMMA PollerTypes ==
  ASSUME TypesInv, RowsStay, poller' \in PollerState, PollerRefers', PollerOnly,
         watches' \in [Watches -> Watch], alerted' \subseteq DOMAIN incidents'
  PROVE  TypesInv'
<1>1. handler' \in [Handlers -> HandlerState] /\ HandlersRefer'
  BY HandlersStay DEF PollerOnly
<1>. QED  BY <1>1 DEF TypesInv, TypeOK, PollerOnly, RowsStay

LEMMA CycleTypes ==
  ASSUME TypesInv, StartCycle \/ ListWatches \/ EndCycle \/ Probe
  PROVE  TypesInv'
<1>1. RowsStay
  BY UntouchedRowsStay DEF StartCycle, ListWatches, EndCycle, Probe
<1>2. poller \in PollerState /\ now \in Time /\ watches \in [Watches -> Watch]
  BY DEF TypesInv, TypeOK
<1>3. DOMAIN incidents \subseteq 1..MaxIncidents /\ DOMAIN incidents' = DOMAIN incidents
  BY DomainBounded DEF StartCycle, ListWatches, EndCycle, Probe
<1>4. poller' \in PollerState /\ PollerRefers'
  <2>1. ASSUME NEW pc \in {"stopped"}, Goto(pc)
        PROVE  poller' \in PollerState /\ PollerRefers'
    BY <1>1, <2>1, GotoTypes DEF Stages, WithWatch, WithIncident, WithCopy
  <2>2. CASE StartCycle
    <3>. DEFINE expired == {i \in DOMAIN incidents : Expired(incidents[i], now)}
                new == [PollerIdle EXCEPT !.pc = "expire", !.at = now, !.expired = expired]
    <3>1. expired \subseteq DOMAIN incidents
      OBVIOUS
    <3>2. new \in PollerState /\ new.pc = "expire" /\ new.expired = expired
      <4>. HIDE DEF expired
      <4>. QED  BY <1>2, <1>3, <3>1, IdleTypes DEF PollerState, Stages
    <3>3. CASE poller' = new
      <4>. HIDE DEF new, expired
      <4>. QED  BY <1>3, <3>1, <3>2, <3>3 DEF PollerRefers, WithWatch, WithIncident, WithCopy
    <3>. QED  BY <2>1, <2>2, <3>3 DEF StartCycle
  <2>3. CASE ListWatches
    <3>. DEFINE todo == {[w |-> w, row |-> watches[w]] : w \in {v \in Watches : Live(v) /\ watches[v].enabled}}
                new == [PollerIdle EXCEPT !.pc = "pick", !.at = poller.at, !.todo = todo]
    <3>1. todo \subseteq [w : Watches, row : Watch] /\ poller.at \in Time
      BY <1>2 DEF PollerState
    <3>2. new \in PollerState /\ new.pc = "pick" /\ new.expired = {}
      <4>. HIDE DEF todo
      <4>. QED  BY <3>1, IdleTypes DEF PollerState, Stages
    <3>3. CASE poller' = new
      <4>. HIDE DEF new
      <4>. QED  BY <3>2, <3>3 DEF PollerRefers, WithWatch, WithIncident, WithCopy
    <3>. QED  BY <2>1, <2>3, <3>3 DEF ListWatches
  <2>4. CASE EndCycle
    BY <1>1, <2>4, RestTypes DEF EndCycle
  <2>5. CASE Probe
    <3>1. PICK t \in poller.todo :
            \/ \E pc \in {"bad", "good"} :
                 poller' = [poller EXCEPT !.pc = pc, !.todo = @ \ {t}, !.w = t.w, !.row = t.row]
            \/ poller' = [poller EXCEPT !.todo = @ \ {t}]
      BY <2>5 DEF Probe
    <3>2. t.w \in Watches /\ t.row \in Watch /\ poller.todo \in SUBSET [w : Watches, row : Watch]
      BY <1>2 DEF PollerState
    <3>3. CASE poller' = [poller EXCEPT !.todo = @ \ {t}]
      <4>1. poller' \in PollerState /\ poller'.pc = "pick" /\ poller'.expired = poller.expired
        BY <1>2, <2>5, <3>2, <3>3 DEF PollerState, Probe, At
      <4>. QED  BY <1>3, <4>1 DEF PollerRefers, TypesInv, WithWatch, WithIncident, WithCopy
    <3>4. ASSUME NEW pc \in {"bad", "good"},
                 poller' = [poller EXCEPT !.pc = pc, !.todo = @ \ {t}, !.w = t.w, !.row = t.row]
          PROVE  poller' \in PollerState /\ PollerRefers'
      <4>1. poller' \in PollerState /\ poller'.pc = pc /\ poller'.expired = poller.expired /\ poller'.w = t.w
        BY <1>2, <3>2, <3>4 DEF PollerState, Stages
      <4>. QED  BY <1>3, <3>2, <4>1 DEF PollerRefers, TypesInv, WithWatch, WithIncident, WithCopy
    <3>. QED  BY <3>1, <3>3, <3>4
  <2>. QED  BY <2>2, <2>3, <2>4, <2>5
<1>5. PollerOnly /\ UNCHANGED <<watches, alerted>>
  BY DEF StartCycle, ListWatches, EndCycle, Probe
<1>. QED  BY <1>1, <1>2, <1>3, <1>4, <1>5, PollerTypes DEF TypesInv, TypeOK

\* The rows that the poller writes are rows.
LEMMA PollerRows ==
  ASSUME TypesInv, poller.pc \in WithWatch
  PROVE  /\ poller.w \in Watches /\ poller.row \in Watch
         /\ Held \in Watch /\ [Held EXCEPT !.state = "open", !.last = poller.at] \in Watch
         /\ Quiet \in Watch /\ [Quiet EXCEPT !.state = "clear"] \in Watch
<1>1. poller.w \in Watches /\ poller.row \in Watch /\ poller.at \in Time /\ 0 \in Time
  BY WatchAssumption DEF TypesInv, TypeOK, PollerState, PollerRefers, Time
<1>. QED  BY <1>1 DEF Held, Quiet, Watch

LEMMA WatchWriteTypes ==
  ASSUME TypesInv, KeepWaiting \/ Trigger \/ StayClear \/ LeaveRunning \/ ClearWatch
  PROVE  TypesInv'
<1>1. RowsStay
  BY UntouchedRowsStay DEF KeepWaiting, Trigger, StayClear, LeaveRunning, ClearWatch
<1>2. poller.pc \in WithWatch
  BY DEF KeepWaiting, Trigger, StayClear, LeaveRunning, ClearWatch, At, WithWatch
<1>3. watches' \in [Watches -> Watch]
  BY <1>2, PollerRows, WatchSaved DEF KeepWaiting, Trigger, StayClear, LeaveRunning, ClearWatch, TypesInv, TypeOK
<1>4. poller' = NextWatch \/ Goto("create")
  BY DEF KeepWaiting, Trigger, StayClear, LeaveRunning, ClearWatch
<1>5. poller' \in PollerState /\ PollerRefers'
  BY <1>1, <1>2, <1>4, RestTypes, GotoTypes DEF Stages, WithWatch, WithIncident, WithCopy
<1>6. PollerOnly /\ UNCHANGED <<incidents, alerted>>
  BY DEF KeepWaiting, Trigger, StayClear, LeaveRunning, ClearWatch
<1>. QED  BY <1>1, <1>3, <1>5, <1>6, PollerTypes DEF TypesInv, TypeOK

LEMMA CreateTypes ==
  ASSUME TypesInv, CreateIncident
  PROVE  TypesInv'
<1>1. poller \in PollerState /\ poller.w \in Watches /\ poller.at \in 0..MaxTime
  BY DEF CreateIncident, At, TypesInv, TypeOK, PollerRefers, PollerState, WithWatch, Time
<1>2. CASE incidents' = Append(incidents, Opened) /\ Len(incidents) < MaxIncidents
  <2>. DEFINE pc == CASE Mode[poller.w] = "ask" -> "prompt" [] Mode[poller.w] = "auto" -> "heal"
                      [] OTHER -> "alert"
              i == Len(incidents) + 1
              new == [poller EXCEPT !.i = i, !.inc = Opened, !.pc = pc]
  <2>1. Opened \in Incident
    <3>1. poller.at + AskTTL \in 0..(MaxTime + AskTTL) /\ 0 \in 0..(MaxTime + AskTTL)
      BY <1>1, WatchAssumption
    <3>. QED  BY <1>1, <3>1 DEF Opened, Incident, ActionStatus, Time
  <2>2. RowsStay /\ i \in DOMAIN incidents' /\ i \in 0..MaxIncidents
    <3>1. incidents \in Seq(Incident) /\ Len(incidents) \in Nat
      BY DomainBounded DEF TypesInv, TypeOK
    <3>2. incidents' \in Seq(Incident) /\ Len(incidents') = Len(incidents) + 1
      BY <1>2, <2>1, <3>1
    <3>3. DOMAIN incidents = 1..Len(incidents) /\ DOMAIN incidents' = 1..Len(incidents')
      BY <3>1, <3>2
    <3>. QED  BY <1>2, <3>1, <3>2, <3>3, WatchAssumption DEF RowsStay
  <2>3. pc \in {"prompt", "heal", "alert"} /\ pc \in Stages
    BY DEF Stages
  <2>4. new \in PollerState /\ new.pc = pc /\ new.i = i /\ new.inc = Opened /\ new.w = poller.w
        /\ new.expired = poller.expired
    <3>. HIDE DEF pc, i
    <3>. QED  BY <1>1, <2>1, <2>2, <2>3 DEF PollerState
  <2>5. CASE poller' = new
    <3>1. poller' \in PollerState /\ PollerRefers'
      <4>. HIDE DEF new, pc, i
      <4>. QED  BY <1>1, <2>1, <2>2, <2>3, <2>4, <2>5
                DEF PollerRefers, TypesInv, RowsStay, WithWatch, WithIncident, WithCopy
    <3>2. PollerOnly /\ UNCHANGED <<watches, alerted>>
      BY DEF CreateIncident
    <3>3. watches' \in [Watches -> Watch] /\ alerted' \subseteq DOMAIN incidents'
      BY <2>2, <3>2 DEF TypesInv, TypeOK, RowsStay
    <3>. QED  BY <2>2, <3>1, <3>2, <3>3, PollerTypes
  <2>6. CASE poller' = NextWatch /\ UNCHANGED incidents
    <3>1. RowsStay
      BY <2>6, UntouchedRowsStay
    <3>2. poller' \in PollerState /\ PollerRefers'
      BY <2>6, <3>1, RestTypes
    <3>. QED  BY <2>6, <3>1, <3>2, PollerTypes DEF CreateIncident, TypesInv, TypeOK
  <2>. QED  BY <1>2, <2>5, <2>6 DEF CreateIncident
<1>3. CASE poller' = NextWatch /\ UNCHANGED incidents
  <2>1. RowsStay
    BY <1>3, UntouchedRowsStay
  <2>2. poller' \in PollerState /\ PollerRefers'
    BY <1>3, <2>1, RestTypes
  <2>. QED  BY <1>3, <2>1, <2>2, PollerTypes DEF CreateIncident, TypesInv, TypeOK
<1>. QED  BY <1>2, <1>3 DEF CreateIncident

LEMMA IncidentWriteTypes ==
  ASSUME TypesInv, ExpireOne \/ StorePrompt \/ StoreHealed \/ Resolve
  PROVE  TypesInv'
<1>1. poller \in PollerState /\ incidents \in Seq(Incident)
  BY DEF TypesInv, TypeOK
<1>2. PollerOnly /\ UNCHANGED <<watches, alerted>>
  BY DEF ExpireOne, StorePrompt, StoreHealed, Resolve
<1>3. ASSUME RowsStay, poller' \in PollerState, PollerRefers'
      PROVE  TypesInv'
  <2>1. watches' \in [Watches -> Watch] /\ alerted' \subseteq DOMAIN incidents'
    BY <1>2, <1>3 DEF TypesInv, TypeOK, RowsStay
  <2>. QED  BY <1>2, <1>3, <2>1, PollerTypes
<1>4. CASE ExpireOne
  <2>1. PICK i \in poller.expired :
          \/ /\ SaveIncident(i, [incidents[i] EXCEPT !.status = "open", !.action = "expired"])
             /\ poller' = [poller EXCEPT !.pc = "tell_expired", !.expired = @ \ {i}]
          \/ IncidentNotSaved(i) /\ Goto("stopped")
    BY <1>4 DEF ExpireOne
  <2>. DEFINE inc == [incidents[i] EXCEPT !.status = "open", !.action = "expired"]
  <2>2. i \in DOMAIN incidents /\ inc \in Incident
    <3>1. i \in DOMAIN incidents
      BY DEF TypesInv, PollerRefers
    <3>2. incidents[i] \in Incident
      BY <1>1, <3>1
    <3>. QED  BY <3>1, <3>2 DEF Incident, ActionStatus
  <2>3. RowsStay
    <3>. HIDE DEF inc
    <3>1. SaveIncident(i, inc) \/ IncidentNotSaved(i)
      BY <2>1 DEF inc
    <3>. QED  BY <2>2, <3>1, SavedRowsStay
  <2>4. CASE Goto("stopped")
    BY <1>3, <2>3, <2>4, GotoTypes DEF Stages, WithWatch, WithIncident, WithCopy
  <2>5. CASE poller' = [poller EXCEPT !.pc = "tell_expired", !.expired = @ \ {i}]
    <3>1. poller' \in PollerState /\ poller'.pc = "tell_expired" /\ poller'.expired \subseteq poller.expired
      BY <1>1, <2>5 DEF PollerState, Stages
    <3>2. PollerRefers'
      BY <2>3, <3>1 DEF RowsStay, TypesInv, PollerRefers, WithWatch, WithIncident, WithCopy
    <3>. QED  BY <1>3, <2>3, <3>1, <3>2
  <2>. QED  BY <2>1, <2>4, <2>5
<1>5. CASE StorePrompt \/ StoreHealed \/ Resolve
  <2>1. /\ poller.pc \in WithCopy \cap WithWatch \cap WithIncident
        /\ poller.i \in DOMAIN incidents /\ poller.inc \in Incident
        /\ poller.pc = "healed" => poller.action \in {"succeeded", "failed"}
    BY <1>5 DEF StorePrompt, StoreHealed, Resolve, At, WithCopy, WithWatch, WithIncident, TypesInv, PollerRefers
  <2>2. PICK inc \in Incident :
          \/ SaveIncident(poller.i, inc) \/ IncidentNotSaved(poller.i)
          \/ UNCHANGED incidents
    <3>1. CASE StorePrompt
      BY <2>1, <3>1 DEF StorePrompt
    <3>2. CASE StoreHealed
      <4>1. [poller.inc EXCEPT !.action = poller.action] \in Incident
        BY <2>1, <3>2 DEF StoreHealed, At, Incident, ActionStatus
      <4>. QED  BY <3>2, <4>1 DEF StoreHealed
    <3>3. CASE Resolve
      <4>1. [poller.inc EXCEPT !.status = "resolved", !.action = IF @ = "pending" THEN "expired" ELSE @] \in Incident
        BY <2>1 DEF Incident, ActionStatus
      <4>. QED  BY <3>3, <4>1 DEF Resolve
    <3>. QED  BY <1>5, <3>1, <3>2, <3>3
  <2>3. RowsStay
    BY <2>1, <2>2, SavedRowsStay, UntouchedRowsStay
  <2>4. poller' = NextWatch \/ Goto("alert") \/ Goto("tell_resolved")
    BY <1>5 DEF StorePrompt, StoreHealed, Resolve
  <2>5. poller' \in PollerState /\ PollerRefers'
    BY <2>1, <2>3, <2>4, RestTypes, GotoTypes DEF Stages, WithWatch, WithIncident, WithCopy
  <2>. QED  BY <1>3, <2>3, <2>5
<1>. QED  BY <1>4, <1>5

LEMMA LargestExists ==
  ASSUME NEW n \in Nat, NEW S, S \subseteq 1..n, S # {}
  PROVE  \E m \in S : \A x \in S : x <= m
<1>. DEFINE T == {n - x : x \in S}
<1>1. \A x \in S : x \in Nat /\ n - x \in Nat
  OBVIOUS
<1>2. T \subseteq Nat /\ T # {}
  <2>1. PICK x \in S : TRUE
    OBVIOUS
  <2>2. n - x \in T
    BY <2>1
  <2>3. T \subseteq Nat
    BY <1>1
  <2>. QED  BY <2>2, <2>3
<1>3. PICK t \in T : \A u \in T : ~ (<<u, t>> \in OpToRel(<, Nat))
  <2>. HIDE DEF T
  <2>. QED  BY <1>2, NatLessThanWellFounded, WFMin, Zenon
<1>4. \A u \in T : ~ (u < t)
  BY <1>2, <1>3 DEF OpToRel
<1>5. PICK m \in S : t = n - m
  BY <1>3
<1>6. ASSUME NEW x \in S PROVE x <= m
  <2>1. n - x \in T
    OBVIOUS
  <2>. QED  BY <2>1, <1>1, <1>4, <1>5
<1>. QED  BY <1>6

\* Among the open incidents of a watch Latest picks one.
LEMMA LatestOpen ==
  ASSUME TypesInv, NEW w, OpenOf(w) # {}
  PROVE  Latest(OpenOf(w)) \in OpenOf(w)
<1>1. OpenOf(w) \subseteq 1..MaxIncidents
  BY DomainBounded DEF OpenOf
<1>2. \E m \in OpenOf(w) : \A x \in OpenOf(w) : x <= m
  BY <1>1, LargestExists, WatchAssumption
<1>. QED  BY <1>2 DEF Latest

LEMMA PollerTellTypes ==
  ASSUME TypesInv, TellExpired \/ Heal \/ SendAlert \/ FindOpen \/ TellResolved
  PROVE  TypesInv'
<1>1. RowsStay /\ DOMAIN incidents' = DOMAIN incidents
  BY UntouchedRowsStay DEF TellExpired, Heal, SendAlert, FindOpen, TellResolved
<1>2. poller \in PollerState /\ incidents \in Seq(Incident)
  BY DEF TypesInv, TypeOK
<1>3. ASSUME PollerOnly, UNCHANGED watches, alerted' \subseteq DOMAIN incidents', poller' \in PollerState, PollerRefers'
      PROVE  TypesInv'
  BY <1>1, <1>3, PollerTypes DEF TypesInv, TypeOK
<1>4. alerted \subseteq DOMAIN incidents
  BY DEF TypesInv, TypeOK
<1>5. CASE TellExpired
  <2>1. poller' \in PollerState /\ PollerRefers'
    BY <1>1, <1>5, GotoTypes DEF TellExpired, Stages, WithWatch, WithIncident, WithCopy
  <2>. QED  BY <1>1, <1>3, <1>4, <1>5, <2>1 DEF TellExpired
<1>6. CASE SendAlert
  <2>1. poller' \in PollerState /\ PollerRefers'
    BY <1>1, <1>6, RestTypes DEF SendAlert
  <2>2. alerted' \subseteq DOMAIN incidents'
    BY <1>1, <1>4, <1>6 DEF SendAlert, At, TypesInv, PollerRefers, WithIncident
  <2>. QED  BY <1>3, <1>6, <2>1, <2>2 DEF SendAlert
<1>7. CASE TellResolved
  <2>1. poller' \in PollerState /\ PollerRefers'
    BY <1>1, <1>7, GotoTypes, RestTypes DEF TellResolved, At, Stages, WithWatch, WithIncident, WithCopy
  <2>. QED  BY <1>1, <1>3, <1>4, <1>7, <2>1 DEF TellResolved
<1>8. CASE Heal
  <2>1. PICK action \in {"succeeded", "failed"} : poller' = [poller EXCEPT !.pc = "healed", !.action = action]
    BY <1>8 DEF Heal
  <2>2. /\ poller' \in PollerState /\ poller'.pc = "healed" /\ poller'.action = action
        /\ poller'.w = poller.w /\ poller'.i = poller.i /\ poller'.inc = poller.inc
        /\ poller'.expired = poller.expired
    BY <1>2, <2>1 DEF PollerState, Stages
  <2>3. PollerRefers'
    BY <1>1, <1>8, <2>2 DEF Heal, At, TypesInv, PollerRefers, WithWatch, WithIncident, WithCopy
  <2>4. sick' \in [Watches -> BOOLEAN]
    BY <1>8 DEF Heal, TypesInv, TypeOK
  <2>. QED  BY <1>1, <1>8, <2>2, <2>3, <2>4, HandlersStay DEF Heal, TypesInv, TypeOK, RowsStay
<1>9. CASE FindOpen
  <2>1. ASSUME NEW i \in DOMAIN incidents, NEW pc \in {"busy", "resolve"},
               poller' = [poller EXCEPT !.i = i, !.inc = incidents[i], !.pc = pc]
        PROVE  poller' \in PollerState /\ PollerRefers'
    <3>1. i \in 0..MaxIncidents /\ incidents[i] \in Incident
      BY <1>2, DomainBounded
    <3>2. /\ poller' \in PollerState /\ poller'.pc = pc /\ poller'.w = poller.w /\ poller'.i = i
          /\ poller'.inc = incidents[i] /\ poller'.expired = poller.expired
      BY <1>2, <2>1, <3>1 DEF PollerState, Stages
    <3>. QED  BY <1>1, <1>9, <3>1, <3>2 DEF FindOpen, At, TypesInv, PollerRefers, WithWatch, WithIncident, WithCopy
  <2>2. poller' \in PollerState /\ PollerRefers'
    <3>1. CASE Goto("clear")
      BY <1>1, <1>9, <3>1, GotoTypes DEF FindOpen, At, Stages, WithWatch, WithIncident, WithCopy
    <3>2. CASE poller' = NextWatch
      BY <1>1, <3>2, RestTypes
    <3>3. CASE \E i \in DOMAIN incidents, pc \in {"busy", "resolve"} :
                 poller' = [poller EXCEPT !.i = i, !.inc = incidents[i], !.pc = pc]
      BY <2>1, <3>3
    <3>4. ASSUME OpenOf(poller.w) # {}
          PROVE  Latest(OpenOf(poller.w)) \in DOMAIN incidents
      BY <3>4, LatestOpen DEF OpenOf
    <3>. QED  BY <1>9, <3>1, <3>2, <3>3, <3>4 DEF FindOpen
  <2>. QED  BY <1>1, <1>3, <1>4, <1>9, <2>2 DEF FindOpen
<1>. QED  BY <1>5, <1>6, <1>7, <1>8, <1>9

LEMMA PollerStepTypes ==
  ASSUME TypesInv, PollerStep
  PROVE  TypesInv'
BY CycleTypes, WatchWriteTypes, CreateTypes, IncidentWriteTypes, PollerTellTypes DEF PollerStep

\* A handler's step moves that handler; the others stand still.
Others(h) == \A g \in Handlers \ {h} : handler'[g] = handler[g]

LEMMA HandlerTypes ==
  ASSUME TypesInv, NEW h \in Handlers, handler' \in [Handlers -> HandlerState], Others(h),
         handler'[h].pc \in {"toggle", "pack"} => handler'[h].w \in Watches,
         handler'[h].pc \in Answering =>
           handler'[h].i \in DOMAIN incidents /\ handler'[h].inc \in Incident,
         handler'[h].pc \in {"reread", "finish"} =>
           handler'[h].action \in {"ignore", "succeeded", "failed"},
         RowsStay, watches' \in [Watches -> Watch], sick' \in [Watches -> BOOLEAN],
         restarts' \in [1..MaxIncidents -> 0..2], UNCHANGED <<now, poller, alerted>>
  PROVE  TypesInv'
<1>1. HandlersRefer'
  BY DEF TypesInv, HandlersRefer, Others, RowsStay
<1>2. PollerRefers'
  BY DEF TypesInv, PollerRefers, RowsStay
<1>. QED  BY <1>1, <1>2 DEF TypesInv, TypeOK, RowsStay

LEMMA DoneMoves ==
  ASSUME TypesInv, NEW h \in Handlers, Done(h)
  PROVE  handler' \in [Handlers -> HandlerState] /\ Others(h) /\ handler'[h].pc = "idle"
BY IdleTypes DEF Done, Others, TypesInv, TypeOK

LEMMA ThenMoves ==
  ASSUME TypesInv, NEW h \in Handlers, NEW pc \in {"progress", "run"}, Then(h, pc)
  PROVE  /\ handler' \in [Handlers -> HandlerState] /\ Others(h) /\ handler'[h].pc = pc
         /\ handler'[h].i = handler[h].i /\ handler'[h].inc = handler[h].inc
<1>1. handler[h] \in HandlerState /\ handler \in [Handlers -> HandlerState]
  BY DEF TypesInv, TypeOK
<1>2. [handler[h] EXCEPT !.pc = pc] \in HandlerState
  BY <1>1 DEF HandlerState
<1>3. handler' = [handler EXCEPT ![h] = [handler[h] EXCEPT !.pc = pc]]
  BY DEF Then
<1>. QED  BY <1>1, <1>2, <1>3 DEF Others, HandlerState

LEMMA WatchMessageTypes ==
  ASSUME TypesInv, NEW h \in Handlers, NEW w \in Watches,
         AddWatch(h, w) \/ DeleteWatch(h, w) \/ ReadWatch(h, w, "toggle") \/ ReadWatch(h, w, "pack")
  PROVE  TypesInv'
<1>1. watches \in [Watches -> Watch] /\ incidents \in Seq(Incident) /\ handler \in [Handlers -> HandlerState]
  BY DEF TypesInv, TypeOK
<1>2. HandlersRefer
  BY DEF TypesInv
<1>3. CASE AddWatch(h, w)
  <2>1. watches' \in [Watches -> Watch]
    BY <1>1, <1>3, FreshType DEF AddWatch
  <2>2. RowsStay
    BY <1>3, UntouchedRowsStay DEF AddWatch
  <2>. QED  BY <1>3, <2>1, <2>2, HandlerTypes DEF AddWatch, HandlerOnly, Others, TypesInv, TypeOK, HandlersRefer
<1>4. CASE DeleteWatch(h, w)
  <2>1. watches' \in [Watches -> Watch]
    BY <1>1, <1>4, FreshType DEF DeleteWatch
  <2>2. RowsStay
    <3>. DEFINE row(i) == IF incidents[i].watch = w THEN [incidents[i] EXCEPT !.status = "gone"] ELSE incidents[i]
    <3>1. DOMAIN incidents = 1..Len(incidents) /\ Len(incidents) \in Nat
      BY DomainBounded
    <3>2. \A i \in 1..Len(incidents) : row(i) \in Incident
      <4>1. \A i \in 1..Len(incidents) : incidents[i] \in Incident
        BY <1>1
      <4>. QED  BY <4>1 DEF Incident
    <3>3. incidents' = [i \in 1..Len(incidents) |-> row(i)]
      BY <1>4, <3>1 DEF DeleteWatch
    <3>4. incidents' \in Seq(Incident) /\ Len(incidents') = Len(incidents) /\ DOMAIN incidents' = 1..Len(incidents)
      <4>. HIDE DEF row
      <4>. QED  BY <3>1, <3>2, <3>3
    <3>. QED  BY <3>1, <3>4 DEF RowsStay, TypesInv, TypeOK
  <2>. QED  BY <1>4, <2>1, <2>2, HandlerTypes DEF DeleteWatch, HandlerOnly, Others, TypesInv, TypeOK, HandlersRefer
<1>5. ASSUME NEW command \in {"toggle", "pack"}, ReadWatch(h, w, command)
      PROVE  TypesInv'
  <2>. DEFINE new == [handler[h] EXCEPT !.pc = command, !.w = w, !.row = watches[w]]
  <2>1. new \in HandlerState /\ new.pc = command /\ new.w = w
    BY <1>1 DEF HandlerState
  <2>2. handler' = [handler EXCEPT ![h] = new]
    BY <1>5 DEF ReadWatch
  <2>3. handler' \in [Handlers -> HandlerState] /\ Others(h) /\ handler'[h].pc = command /\ handler'[h].w = w
    <3>. HIDE DEF new
    <3>. QED  BY <1>1, <2>1, <2>2 DEF Others
  <2>4. RowsStay
    BY <1>5, UntouchedRowsStay DEF ReadWatch
  <2>5. /\ UNCHANGED watches /\ handler'[h].pc \notin Answering
        /\ UNCHANGED <<now, sick, incidents, poller, alerted, restarts>>
    BY <1>5, <2>3 DEF ReadWatch, HandlerOnly, Answering
  <2>. QED  BY <1>5, <2>3, <2>4, <2>5, HandlerTypes DEF TypesInv, TypeOK
<1>. QED  BY <1>3, <1>4, <1>5

LEMMA WriteWatchTypes ==
  ASSUME TypesInv, NEW h \in Handlers, WriteWatch(h)
  PROVE  TypesInv'
<1>. DEFINE row == handler[h].row
            toggled == [row EXCEPT !.enabled = ~@, !.since = IF row.enabled THEN 0 ELSE @]
            enabled == [row EXCEPT !.enabled = TRUE]
<1>1. row \in Watch /\ handler[h].w \in Watches /\ watches \in [Watches -> Watch]
  BY DEF TypesInv, TypeOK, HandlerState, HandlersRefer, WriteWatch, Is
<1>2. toggled \in Watch /\ enabled \in Watch
  <2>1. 0 \in Time
    BY WatchAssumption DEF Time
  <2>. QED  BY <1>1, <2>1 DEF Watch
<1>3. watches' \in [Watches -> Watch]
  <2>1. \/ SaveWatch(handler[h].w, toggled) \/ SaveWatch(handler[h].w, enabled)
        \/ UNCHANGED watches \/ WatchNotSaved(handler[h].w)
    BY DEF WriteWatch
  <2>. HIDE DEF toggled, enabled, row
  <2>. QED  BY <1>1, <1>2, <2>1, WatchSaved
<1>4. RowsStay
  BY UntouchedRowsStay DEF WriteWatch
<1>5. Done(h)
  BY DEF WriteWatch
<1>. QED  BY <1>3, <1>4, <1>5, DoneMoves, HandlerTypes DEF WriteWatch, HandlerOnly, Answering, TypesInv, TypeOK

LEMMA RequestTypes ==
  ASSUME TypesInv, NEW h \in Handlers, NEW i \in DOMAIN incidents, NEW a \in {"restart", "ignore", "yes"},
         Request(h, i, a)
  PROVE  TypesInv'
<1>1. incidents[i] \in Incident /\ i \in 0..MaxIncidents /\ handler \in [Handlers -> HandlerState]
  BY DomainBounded DEF TypesInv, TypeOK
<1>2. RowsStay
  BY UntouchedRowsStay DEF Request
<1>3. CASE UNCHANGED handler
  BY <1>1, <1>2, <1>3, HandlerTypes DEF Request, HandlerOnly, Others, TypesInv, TypeOK, HandlersRefer
<1>4. ASSUME NEW pc \in {"reread", "late", "take"}, pc = "reread" => a = "ignore",
             handler' = [handler EXCEPT ![h].pc = pc, ![h].i = i, ![h].inc = incidents[i], ![h].action = a]
      PROVE  TypesInv'
  <2>. DEFINE new == [handler[h] EXCEPT !.pc = pc, !.i = i, !.inc = incidents[i], !.action = a]
  <2>1. new \in HandlerState /\ new.pc = pc /\ new.i = i /\ new.inc = incidents[i] /\ new.action = a
    BY <1>1 DEF HandlerState
  <2>2. handler' = [handler EXCEPT ![h] = new]
    BY <1>4
  <2>3. handler' \in [Handlers -> HandlerState] /\ Others(h) /\ handler'[h] = new
    <3>. HIDE DEF new
    <3>. QED  BY <1>1, <2>1, <2>2 DEF Others
  <2>. HIDE DEF new
  <2>4. /\ handler'[h].pc \notin {"toggle", "pack", "finish"}
        /\ handler'[h].pc = "reread" => handler'[h].action = "ignore"
        /\ handler'[h].i \in DOMAIN incidents /\ handler'[h].inc \in Incident
    BY <1>1, <1>4, <2>1, <2>3
  <2>5. /\ watches' \in [Watches -> Watch] /\ sick' \in [Watches -> BOOLEAN]
        /\ restarts' \in [1..MaxIncidents -> 0..2] /\ UNCHANGED <<now, poller, alerted>>
    BY DEF Request, HandlerOnly, TypesInv, TypeOK
  <2>. QED  BY <1>2, <2>3, <2>4, <2>5, HandlerTypes
<1>. QED  BY <1>3, <1>4 DEF Request

LEMMA AnswerTypes ==
  ASSUME TypesInv, NEW h \in Handlers,
         StoreDecision(h) \/ SendProgress(h) \/ Reread(h) \/ StoreResult(h)
  PROVE  TypesInv'
<1>1. /\ handler[h] \in HandlerState /\ handler \in [Handlers -> HandlerState]
      /\ handler[h].i \in DOMAIN incidents /\ handler[h].inc \in Incident
      /\ handler[h].pc \in {"reread", "finish"} => handler[h].action \in {"ignore", "succeeded", "failed"}
  BY DEF StoreDecision, SendProgress, Reread, StoreResult, Is, Answering, TypesInv, TypeOK, HandlersRefer
<1>2. UNCHANGED <<now, sick, poller, alerted, restarts, watches>>
  BY DEF StoreDecision, SendProgress, Reread, StoreResult, HandlerOnly
<1>3. ASSUME RowsStay, Done(h) \/ Then(h, "progress") \/ Then(h, "run")
      PROVE  TypesInv'
  <2>1. CASE Done(h)
    BY <1>2, <1>3, <2>1, DoneMoves, HandlerTypes DEF Answering, TypesInv, TypeOK
  <2>2. CASE Then(h, "progress") \/ Then(h, "run")
    BY <1>1, <1>2, <1>3, <2>2, ThenMoves, HandlerTypes DEF TypesInv, TypeOK
  <2>. QED  BY <1>3, <2>1, <2>2
<1>4. CASE StoreDecision(h)
  <2>1. \A action \in {"expired", "running"} : [handler[h].inc EXCEPT !.action = action] \in Incident
    BY <1>1 DEF Incident, ActionStatus
  <2>2. RowsStay
    BY <1>1, <1>4, <2>1, SavedRowsStay DEF StoreDecision
  <2>. QED  BY <1>3, <1>4, <2>2 DEF StoreDecision
<1>5. CASE SendProgress(h)
  BY <1>3, <1>5, UntouchedRowsStay DEF SendProgress
<1>6. CASE Reread(h)
  <2>1. RowsStay
    BY <1>6, UntouchedRowsStay DEF Reread
  <2>2. CASE Done(h)
    BY <1>3, <2>1, <2>2
  <2>3. CASE handler' = [handler EXCEPT ![h].pc = "finish",
               ![h].inc = IF Present(handler[h].i) THEN incidents[handler[h].i] ELSE @]
    <3>. DEFINE inc == IF Present(handler[h].i) THEN incidents[handler[h].i] ELSE handler[h].inc
                new == [handler[h] EXCEPT !.pc = "finish", !.inc = inc]
    <3>1. inc \in Incident
      BY <1>1 DEF TypesInv, TypeOK
    <3>2. /\ new \in HandlerState /\ new.pc = "finish" /\ new.inc = inc /\ new.i = handler[h].i
          /\ new.action = handler[h].action
      <4>. HIDE DEF inc
      <4>. QED  BY <1>1, <3>1 DEF HandlerState
    <3>3. handler' = [handler EXCEPT ![h] = new]
      BY <2>3
    <3>4. handler' \in [Handlers -> HandlerState] /\ Others(h) /\ handler'[h] = new
      <4>. HIDE DEF new, inc
      <4>. QED  BY <1>1, <3>2, <3>3 DEF Others
    <3>. HIDE DEF new, inc
    <3>. QED  BY <1>1, <1>2, <1>6, <2>1, <3>1, <3>2, <3>4, HandlerTypes DEF Reread, Is, TypesInv, TypeOK
  <2>. QED  BY <1>6, <2>2, <2>3 DEF Reread
<1>7. CASE StoreResult(h)
  <2>1. [handler[h].inc EXCEPT !.action = IF handler[h].action = "ignore" THEN "declined" ELSE handler[h].action]
          \in Incident
    BY <1>1, <1>7 DEF StoreResult, Is, Incident, ActionStatus
  <2>2. RowsStay
    BY <1>1, <1>7, <2>1, SavedRowsStay DEF StoreResult
  <2>. QED  BY <1>3, <1>7, <2>2 DEF StoreResult
<1>. QED  BY <1>4, <1>5, <1>6, <1>7

LEMMA RestartTypes ==
  ASSUME TypesInv, NEW h \in Handlers, RestartService(h)
  PROVE  TypesInv'
<1>1. /\ handler[h] \in HandlerState /\ handler \in [Handlers -> HandlerState]
      /\ handler[h].i \in DOMAIN incidents /\ handler[h].inc \in Incident
  BY DEF RestartService, Is, Answering, TypesInv, TypeOK, HandlersRefer
<1>2. PICK action \in {"succeeded", "failed"} : handler' = [handler EXCEPT ![h].pc = "reread", ![h].action = action]
  BY DEF RestartService
<1>. DEFINE new == [handler[h] EXCEPT !.pc = "reread", !.action = action]
<1>3. /\ new \in HandlerState /\ new.pc = "reread" /\ new.action = action /\ new.i = handler[h].i
      /\ new.inc = handler[h].inc
  BY <1>1 DEF HandlerState
<1>4. handler' \in [Handlers -> HandlerState] /\ Others(h) /\ handler'[h] = new
  <2>1. handler' = [handler EXCEPT ![h] = new]
    BY <1>2
  <2>. HIDE DEF new
  <2>. QED  BY <1>1, <1>3, <2>1 DEF Others
<1>5. sick' \in [Watches -> BOOLEAN]
  BY DEF RestartService, TypesInv, TypeOK
<1>6. restarts' \in [1..MaxIncidents -> 0..2]
  <2>1. restarts \in [1..MaxIncidents -> 0..2] /\ handler[h].i \in 1..MaxIncidents
    BY <1>1, DomainBounded DEF TypesInv, TypeOK
  <2>. QED  BY <2>1 DEF RestartService
<1>7. RowsStay
  BY UntouchedRowsStay DEF RestartService
<1>. HIDE DEF new
<1>. QED  BY <1>1, <1>3, <1>4, <1>5, <1>6, <1>7, HandlerTypes DEF RestartService, TypesInv, TypeOK

LEMMA EnvironmentTypes ==
  ASSUME TypesInv, Tick \/ Crash \/ \E w \in Watches : Change(w)
  PROVE  TypesInv'
<1>1. RowsStay
  BY UntouchedRowsStay DEF Tick, Crash, Change
<1>2. CASE Tick
  <2>1. now' \in Time
    BY <1>2, WatchAssumption DEF Tick, TypesInv, TypeOK, Time
  <2>. QED  BY <1>2, <2>1 DEF Tick, TypesInv, TypeOK, PollerRefers, HandlersRefer
<1>3. CASE Crash
  <2>1. handler' \in [Handlers -> HandlerState] /\ HandlersRefer'
    BY <1>3, IdleTypes DEF Crash, HandlersRefer, Answering
  <2>2. poller' \in PollerState /\ PollerRefers'
    BY <1>1, <1>3, RestTypes DEF Crash
  <2>. QED  BY <1>1, <1>3, <2>1, <2>2 DEF Crash, TypesInv, TypeOK
<1>4. ASSUME NEW w \in Watches, Change(w)
      PROVE  TypesInv'
  BY <1>4 DEF Change, TypesInv, TypeOK, PollerRefers, HandlersRefer
<1>. QED  BY <1>2, <1>3, <1>4

LEMMA InitTypes ==
  ASSUME Init
  PROVE  TypesInv
<1>1. now \in Time
  BY WatchAssumption DEF Init, Time
<1>2. watches \in [Watches -> Watch]
  BY FreshType DEF Init
<1>3. incidents \in Seq(Incident) /\ Len(incidents) <= MaxIncidents
  BY WatchAssumption DEF Init
<1>4. poller \in PollerState /\ PollerRefers /\ handler \in [Handlers -> HandlerState] /\ HandlersRefer
  BY IdleTypes DEF Init, PollerRefers, HandlersRefer, WithWatch, WithIncident, WithCopy, Answering
<1>. QED  BY <1>1, <1>2, <1>3, <1>4 DEF Init, TypesInv, TypeOK

LEMMA StepTypes ==
  ASSUME TypesInv, [Next]_vars
  PROVE  TypesInv'
<1>1. CASE UNCHANGED vars
  BY <1>1 DEF vars, TypesInv, TypeOK, PollerRefers, HandlersRefer
<1>2. ASSUME NEW h \in Handlers, Message(h) \/ HandlerStep(h)
      PROVE  TypesInv'
  BY <1>2, WatchMessageTypes, WriteWatchTypes, RequestTypes, AnswerTypes, RestartTypes DEF Message, HandlerStep
<1>. QED  BY <1>1, <1>2, PollerStepTypes, EnvironmentTypes DEF Next

\* The tables, the clock and the copies that poller and handlers hold keep their types,
\* and a copy is one of a row that is there (internal/watch/service.go).
THEOREM WatchTypeCorrect == Spec => [](TypeOK /\ TypesInv)
<1>1. Init => TypesInv
  BY InitTypes
<1>2. TypesInv /\ [Next]_vars => TypesInv'
  BY StepTypes
<1>3. TypesInv => TypeOK
  BY DEF TypesInv
<1>. QED  BY <1>1, <1>2, <1>3, PTL DEF Spec

(* ---------------------------- one restart ---------------------------- *)

OneHandler == \A g, h \in Handlers : g = h
NoTypedYes == "yes" \notin Events

\* The prompt is stored before the alert is sent; what was restarted for was decided
\* before; and who is about to restart is the first to.
PromptFirst == poller.pc = "prompt" => poller.i \notin alerted
RestartDecided ==
  \A i \in 1..MaxIncidents : restarts[i] > 0 => i \in alerted /\ incidents[i].action # "pending"
TakerIsFirst ==
  \A h \in Handlers : handler[h].pc \in {"take", "progress", "run"} =>
    /\ handler[h].i \in alerted /\ restarts[handler[h].i] = 0
    /\ handler[h].pc # "take" => incidents[handler[h].i].action # "pending"
RestartInv == TypesInv /\ PromptFirst /\ RestartDecided /\ TakerIsFirst /\ RestartOnce

\* What was decided about an alert is not asked again.
DecidedStays ==
  \A i \in alerted : incidents[i].action # "pending" => incidents'[i].action # "pending"

LEMMA SaveDecides ==
  ASSUME TypesInv, NEW i \in DOMAIN incidents, NEW inc \in Incident,
         inc.action # "pending" \/ i \notin alerted,
         SaveIncident(i, inc) \/ IncidentNotSaved(i)
  PROVE  DecidedStays
<1>1. alerted \subseteq DOMAIN incidents /\ incidents \in Seq(Incident)
  BY DEF TypesInv, TypeOK
<1>2. CASE SaveIncident(i, inc)
  BY <1>1, <1>2, IncidentSaved DEF DecidedStays
<1>3. CASE IncidentNotSaved(i)
  BY <1>3 DEF IncidentNotSaved, DecidedStays
<1>. QED  BY <1>2, <1>3

LEMMA PollerDecides ==
  ASSUME TypesInv, PromptFirst, PollerStep
  PROVE  DecidedStays /\ PromptFirst'
<1>1. incidents \in Seq(Incident) /\ alerted \subseteq DOMAIN incidents /\ poller \in PollerState
  BY DEF TypesInv, TypeOK
<1>2. CASE UNCHANGED incidents /\ poller'.pc # "prompt"
  BY <1>2 DEF DecidedStays, PromptFirst
<1>3. CASE StartCycle \/ TellExpired \/ ListWatches \/ EndCycle \/ Probe \/ KeepWaiting \/ Trigger
           \/ Heal \/ SendAlert \/ StayClear \/ FindOpen \/ LeaveRunning \/ TellResolved \/ ClearWatch
  <2>1. UNCHANGED incidents
    BY <1>3 DEF StartCycle, TellExpired, ListWatches, EndCycle, Probe, KeepWaiting, Trigger, Heal, SendAlert,
                StayClear, FindOpen, LeaveRunning, TellResolved, ClearWatch
  <2>2. poller'.pc # "prompt"
    <3>1. CASE StartCycle \/ ListWatches \/ EndCycle
      BY <1>1, <3>1, GotoMoves, IdleTypes DEF StartCycle, ListWatches, EndCycle, Stages, PollerState
    <3>2. CASE Probe
      BY <1>1, <3>2 DEF Probe, At, PollerState
    <3>3. CASE TellExpired \/ KeepWaiting \/ Trigger \/ SendAlert \/ StayClear \/ LeaveRunning
               \/ TellResolved \/ ClearWatch
      BY <1>1, <3>3, GotoMoves, NextWatchMoves DEF TellExpired, KeepWaiting, Trigger, SendAlert, StayClear,
         LeaveRunning, TellResolved, ClearWatch, Stages
    <3>4. CASE Heal
      BY <1>1, <3>4 DEF Heal, PollerState
    <3>5. CASE FindOpen
      BY <1>1, <3>5, GotoMoves, NextWatchMoves DEF FindOpen, Stages, PollerState
    <3>. QED  BY <1>3, <3>1, <3>2, <3>3, <3>4, <3>5
  <2>. QED  BY <1>2, <2>1, <2>2
<1>4. CASE ExpireOne
  <2>1. PICK i \in poller.expired :
          \/ /\ SaveIncident(i, [incidents[i] EXCEPT !.status = "open", !.action = "expired"])
             /\ poller' = [poller EXCEPT !.pc = "tell_expired", !.expired = @ \ {i}]
          \/ IncidentNotSaved(i) /\ Goto("stopped")
    BY <1>4 DEF ExpireOne
  <2>. DEFINE inc == [incidents[i] EXCEPT !.status = "open", !.action = "expired"]
  <2>2. i \in DOMAIN incidents /\ inc \in Incident /\ inc.action = "expired"
    <3>1. i \in DOMAIN incidents
      BY DEF TypesInv, PollerRefers
    <3>2. incidents[i] \in Incident
      BY <1>1, <3>1
    <3>. QED  BY <3>1, <3>2 DEF Incident, ActionStatus
  <2>3. DecidedStays
    <3>. HIDE DEF inc
    <3>1. SaveIncident(i, inc) \/ IncidentNotSaved(i)
      BY <2>1 DEF inc
    <3>. QED  BY <2>2, <3>1, SaveDecides
  <2>4. poller'.pc # "prompt"
    BY <1>1, <2>1, GotoMoves DEF Stages, PollerState
  <2>. QED  BY <2>3, <2>4 DEF PromptFirst
<1>5. CASE CreateIncident
  <2>1. Len(incidents) + 1 \notin DOMAIN incidents
    BY DomainBounded
  <2>2. DecidedStays
    <3>1. CASE incidents' = Append(incidents, Opened)
      <4>1. \A i \in 1..Len(incidents) : incidents'[i] = incidents[i]
        BY <1>1, <3>1
      <4>. QED  BY <1>1, <4>1, DomainBounded DEF DecidedStays
    <3>2. CASE UNCHANGED incidents
      BY <3>2 DEF DecidedStays
    <3>. QED  BY <1>5, <3>1, <3>2 DEF CreateIncident
  <2>3. poller'.pc = "prompt" => poller'.i = Len(incidents) + 1
    BY <1>1, <1>5, NextWatchMoves DEF CreateIncident, PollerState
  <2>. QED  BY <1>1, <1>5, <2>1, <2>2, <2>3 DEF CreateIncident, PromptFirst
<1>6. CASE StorePrompt \/ StoreHealed \/ Resolve
  <2>1. /\ poller.i \in DOMAIN incidents /\ poller.inc \in Incident
        /\ poller.pc = "healed" => poller.action \in {"succeeded", "failed"}
    BY <1>6 DEF StorePrompt, StoreHealed, Resolve, At, WithCopy, WithIncident, TypesInv, PollerRefers
  <2>2. poller'.pc # "prompt"
    BY <1>1, <1>6, GotoMoves, NextWatchMoves DEF StorePrompt, StoreHealed, Resolve, Stages
  <2>3. CASE StorePrompt
    BY <2>1, <2>2, <2>3, SaveDecides DEF StorePrompt, At, PromptFirst
  <2>4. CASE StoreHealed
    <3>. DEFINE inc == [poller.inc EXCEPT !.action = poller.action]
    <3>1. inc \in Incident /\ inc.action # "pending"
      BY <2>1, <2>4 DEF StoreHealed, At, Incident, ActionStatus
    <3>2. SaveIncident(poller.i, inc) \/ IncidentNotSaved(poller.i) \/ UNCHANGED incidents
      BY <2>4 DEF StoreHealed
    <3>. HIDE DEF inc
    <3>. QED  BY <2>1, <2>2, <3>1, <3>2, SaveDecides DEF DecidedStays, PromptFirst
  <2>5. CASE Resolve
    <3>. DEFINE inc == [poller.inc EXCEPT !.status = "resolved", !.action = IF @ = "pending" THEN "expired" ELSE @]
    <3>1. inc \in Incident /\ inc.action # "pending"
      BY <2>1 DEF Incident, ActionStatus
    <3>2. SaveIncident(poller.i, inc) \/ IncidentNotSaved(poller.i)
      BY <2>5 DEF Resolve
    <3>. HIDE DEF inc
    <3>. QED  BY <2>1, <2>2, <3>1, <3>2, SaveDecides DEF PromptFirst
  <2>. QED  BY <1>6, <2>3, <2>4, <2>5
<1>. QED  BY <1>3, <1>4, <1>5, <1>6 DEF PollerStep

\* Steps of the handlers that restart nothing and get nobody closer to a restart.
NobodyNewTakes ==
  \A h \in Handlers : handler'[h].pc \in {"take", "progress", "run"} =>
    /\ handler[h].pc \in {"take", "progress", "run"} /\ handler'[h].i = handler[h].i
    /\ handler'[h].pc # "take" => handler[h].pc # "take"

LEMMA QuietStep ==
  ASSUME RestartInv, TypesInv', PromptFirst', DecidedStays, NobodyNewTakes, UNCHANGED restarts,
         alerted \subseteq alerted'
  PROVE  RestartInv'
<1>1. RestartDecided'
  BY DEF RestartInv, RestartDecided, DecidedStays
<1>2. TakerIsFirst'
  BY DEF RestartInv, TakerIsFirst, DecidedStays, NobodyNewTakes
<1>. QED  BY <1>1, <1>2 DEF RestartInv, RestartOnce

LEMMA PollerQuiet ==
  ASSUME RestartInv, PollerStep
  PROVE  RestartInv'
<1>1. TypesInv' /\ DecidedStays /\ PromptFirst'
  BY PollerStepTypes, PollerDecides DEF RestartInv
<1>2. UNCHANGED <<handler, restarts>> /\ alerted \subseteq alerted'
  BY DEF PollerStep, PollerOnly, StartCycle, ExpireOne, TellExpired, ListWatches, EndCycle, Probe,
         KeepWaiting, Trigger, CreateIncident, StorePrompt, Heal, StoreHealed, SendAlert, StayClear,
         FindOpen, LeaveRunning, Resolve, TellResolved, ClearWatch
<1>. QED  BY <1>1, <1>2, QuietStep DEF NobodyNewTakes

LEMMA SavedDecidesToo ==
  ASSUME RestartInv, NEW h \in Handlers, handler[h].pc \in Answering,
         NEW action \in {"running", "expired", "declined", "succeeded", "failed"},
         \/ SaveIncident(handler[h].i, [handler[h].inc EXCEPT !.action = action])
         \/ IncidentNotSaved(handler[h].i)
  PROVE  DecidedStays
<1>. DEFINE inc == [handler[h].inc EXCEPT !.action = action]
<1>1. handler[h].i \in DOMAIN incidents /\ handler[h].inc \in Incident
  BY DEF RestartInv, TypesInv, HandlersRefer
<1>2. inc \in Incident /\ inc.action # "pending"
  BY <1>1 DEF Incident, ActionStatus
<1>3. SaveIncident(handler[h].i, inc) \/ IncidentNotSaved(handler[h].i)
  OBVIOUS
<1>. HIDE DEF inc
<1>. QED  BY <1>1, <1>2, <1>3, SaveDecides DEF RestartInv

LEMMA MessageRestarts ==
  ASSUME RestartInv, OneHandler, NoTypedYes, TypesInv', NEW h \in Handlers, Message(h)
  PROVE  RestartInv'
<1>1. UNCHANGED <<poller, alerted, restarts>>
  BY DEF Message, AddWatch, DeleteWatch, ReadWatch, Request, HandlerOnly
<1>2. PromptFirst'
  BY <1>1 DEF RestartInv, PromptFirst
<1>3. handler \in [Handlers -> HandlerState]
  BY DEF RestartInv, TypesInv, TypeOK
<1>4. ASSUME NEW w \in Watches, AddWatch(h, w) \/ ReadWatch(h, w, "toggle") \/ ReadWatch(h, w, "pack")
      PROVE  RestartInv'
  <2>1. NobodyNewTakes
    BY <1>3, <1>4 DEF AddWatch, ReadWatch, NobodyNewTakes, HandlerState
  <2>2. DecidedStays
    BY <1>4 DEF AddWatch, ReadWatch, DecidedStays
  <2>. QED  BY <1>1, <1>2, <2>1, <2>2, QuietStep
<1>5. ASSUME NEW w \in Watches, DeleteWatch(h, w)
      PROVE  RestartInv'
  <2>1. NobodyNewTakes
    BY <1>5 DEF DeleteWatch, NobodyNewTakes
  <2>2. DecidedStays
    <3>1. alerted \subseteq DOMAIN incidents /\ \A i \in DOMAIN incidents : incidents[i] \in Incident
      BY DEF RestartInv, TypesInv, TypeOK
    <3>2. \A i \in DOMAIN incidents : [incidents[i] EXCEPT !.status = "gone"].action = incidents[i].action
      BY <3>1 DEF Incident
    <3>. QED  BY <1>5, <3>1, <3>2 DEF DeleteWatch, DecidedStays
  <2>. QED  BY <1>1, <1>2, <2>1, <2>2, QuietStep
<1>6. ASSUME NEW i \in DOMAIN incidents, NEW a \in {"restart", "ignore", "yes"}, Request(h, i, a)
      PROVE  RestartInv'
  <2>1. DecidedStays
    BY <1>6 DEF Request, DecidedStays
  <2>2. CASE NobodyNewTakes
    BY <1>1, <1>2, <2>1, <2>2, QuietStep
  <2>3. CASE /\ incidents[i].action = "pending" /\ a # "ignore"
             /\ handler' = [handler EXCEPT ![h].pc = "take", ![h].i = i, ![h].inc = incidents[i], ![h].action = a]
    <3>1. a = "restart" /\ i \in alerted
      BY <1>6, <2>3 DEF Request, Happens, NoTypedYes, Offered
    <3>2. restarts[i] = 0
      <4>1. TypesInv /\ RestartDecided
        BY DEF RestartInv
      <4>2. i \in 1..MaxIncidents /\ restarts[i] \in 0..2
        BY <4>1, DomainBounded DEF TypesInv, TypeOK
      <4>. QED  BY <2>3, <4>1, <4>2 DEF RestartDecided
    <3>3. handler'[h].pc = "take" /\ handler'[h].i = i
      BY <1>3, <2>3 DEF HandlerState
    <3>4. TakerIsFirst'
      BY <1>1, <3>1, <3>2, <3>3 DEF OneHandler, TakerIsFirst
    <3>5. RestartDecided' /\ RestartOnce'
      BY <1>1, <1>6 DEF Request, RestartInv, RestartDecided, RestartOnce
    <3>. QED  BY <1>2, <3>4, <3>5 DEF RestartInv
  <2>4. CASE \E pc \in {"reread", "late"} :
               handler' = [handler EXCEPT ![h].pc = pc, ![h].i = i, ![h].inc = incidents[i], ![h].action = a]
    <3>1. NobodyNewTakes
      BY <1>3, <2>4 DEF NobodyNewTakes, HandlerState
    <3>. QED  BY <2>2, <3>1
  <2>5. CASE UNCHANGED handler
    BY <2>2, <2>5 DEF NobodyNewTakes
  <2>. QED  BY <1>6, <2>3, <2>4, <2>5 DEF Request
<1>. QED  BY <1>4, <1>5, <1>6 DEF Message

LEMMA HandlerRestarts ==
  ASSUME RestartInv, OneHandler, TypesInv', NEW h \in Handlers, HandlerStep(h)
  PROVE  RestartInv'
<1>1. UNCHANGED <<poller, alerted>>
  BY DEF HandlerStep, WriteWatch, StoreDecision, SendProgress, RestartService, Reread, StoreResult, HandlerOnly
<1>2. PromptFirst'
  BY <1>1 DEF RestartInv, PromptFirst
<1>3. handler \in [Handlers -> HandlerState] /\ TypesInv
  BY DEF RestartInv, TypesInv, TypeOK
<1>4. Done(h) => NobodyNewTakes
  BY <1>3, DoneMoves DEF NobodyNewTakes, Others
<1>5. CASE WriteWatch(h)
  <2>1. NobodyNewTakes /\ DecidedStays /\ UNCHANGED restarts
    BY <1>4, <1>5 DEF WriteWatch, HandlerOnly, DecidedStays
  <2>. QED  BY <1>1, <1>2, <2>1, QuietStep
<1>6. CASE StoreDecision(h)
  <2>1. handler[h].pc \in Answering /\ UNCHANGED restarts
    BY <1>6 DEF StoreDecision, Is, Answering, HandlerOnly
  <2>2. DecidedStays
    BY <1>6, <2>1, SavedDecidesToo DEF StoreDecision
  <2>3. CASE Done(h)
    BY <1>1, <1>2, <1>4, <2>1, <2>2, <2>3, QuietStep
  <2>4. CASE /\ Is(h, "take") /\ Then(h, "progress")
             /\ SaveIncident(handler[h].i, [handler[h].inc EXCEPT !.action = "running"])
    <3>. DEFINE inc == [handler[h].inc EXCEPT !.action = "running"]
    <3>1. handler'[h].pc = "progress" /\ handler'[h].i = handler[h].i
      BY <1>3, <2>4, ThenMoves
    <3>2. handler[h].i \in DOMAIN incidents /\ inc \in Incident /\ inc.action = "running"
      <4>1. handler[h].i \in DOMAIN incidents /\ handler[h].inc \in Incident
        BY <1>3, <2>1 DEF TypesInv, HandlersRefer
      <4>. QED  BY <4>1 DEF Incident, ActionStatus
    <3>3. incidents'[handler[h].i].action = "running"
      <4>1. SaveIncident(handler[h].i, inc) /\ incidents \in Seq(Incident)
        BY <1>3, <2>4 DEF TypesInv, TypeOK
      <4>. HIDE DEF inc
      <4>. QED  BY <3>2, <4>1, IncidentSaved
    <3>4. handler[h].i \in alerted /\ restarts[handler[h].i] = 0
      BY <2>4 DEF Is, RestartInv, TakerIsFirst
    <3>5. TakerIsFirst'
      BY <1>1, <2>1, <3>1, <3>3, <3>4 DEF OneHandler, TakerIsFirst
    <3>6. RestartDecided' /\ RestartOnce'
      BY <1>1, <2>1, <2>2 DEF RestartInv, RestartDecided, RestartOnce, DecidedStays
    <3>. QED  BY <1>2, <3>5, <3>6 DEF RestartInv
  <2>. QED  BY <1>6, <2>3, <2>4 DEF StoreDecision
<1>7. CASE SendProgress(h)
  <2>1. DecidedStays /\ UNCHANGED restarts
    BY <1>7 DEF SendProgress, HandlerOnly, DecidedStays
  <2>2. NobodyNewTakes
    <3>1. CASE Then(h, "run")
      BY <1>3, <1>7, <3>1, ThenMoves DEF SendProgress, Is, NobodyNewTakes, Others
    <3>. QED  BY <1>4, <1>7, <3>1 DEF SendProgress
  <2>. QED  BY <1>1, <1>2, <2>1, <2>2, QuietStep
<1>8. CASE RestartService(h)
  <2>. DEFINE i == handler[h].i
  <2>1. i \in alerted /\ restarts[i] = 0 /\ incidents[i].action # "pending"
    BY <1>8 DEF RestartService, Is, RestartInv, TakerIsFirst
  <2>2. restarts \in [1..MaxIncidents -> 0..2] /\ i \in 1..MaxIncidents
    BY <1>3, <2>1, DomainBounded DEF TypesInv, TypeOK
  <2>3. restarts' = [restarts EXCEPT ![i] = 1] /\ UNCHANGED incidents
    BY <1>8, <2>1 DEF RestartService
  <2>4. RestartDecided' /\ RestartOnce'
    BY <1>1, <2>1, <2>2, <2>3 DEF RestartInv, RestartDecided, RestartOnce
  <2>5. handler'[h].pc = "reread"
    BY <1>3, <1>8 DEF RestartService, HandlerState
  <2>6. TakerIsFirst'
    BY <2>5 DEF OneHandler, TakerIsFirst
  <2>. QED  BY <1>2, <2>4, <2>6 DEF RestartInv
<1>9. CASE Reread(h)
  <2>1. DecidedStays /\ UNCHANGED restarts
    BY <1>9 DEF Reread, HandlerOnly, DecidedStays
  <2>2. NobodyNewTakes
    <3>1. CASE handler' = [handler EXCEPT ![h].pc = "finish",
                 ![h].inc = IF Present(handler[h].i) THEN incidents[handler[h].i] ELSE @]
      BY <1>3, <3>1 DEF NobodyNewTakes, HandlerState
    <3>. QED  BY <1>4, <1>9, <3>1 DEF Reread
  <2>. QED  BY <1>1, <1>2, <2>1, <2>2, QuietStep
<1>10. CASE StoreResult(h)
  <2>. DEFINE result == IF handler[h].action = "ignore" THEN "declined" ELSE handler[h].action
  <2>1. handler[h].pc \in Answering /\ result \in {"declined", "succeeded", "failed"} /\ UNCHANGED restarts
    BY <1>3, <1>10 DEF StoreResult, Is, Answering, HandlerOnly, TypesInv, HandlersRefer
  <2>2. \/ SaveIncident(handler[h].i, [handler[h].inc EXCEPT !.action = result])
        \/ IncidentNotSaved(handler[h].i)
    BY <1>10 DEF StoreResult
  <2>3. DecidedStays
    <3>. HIDE DEF result
    <3>. QED  BY <2>1, <2>2, SavedDecidesToo
  <2>. QED  BY <1>1, <1>2, <1>4, <1>10, <2>1, <2>3, QuietStep DEF StoreResult
<1>. QED  BY <1>5, <1>6, <1>7, <1>8, <1>9, <1>10 DEF HandlerStep

LEMMA StepRestarts ==
  ASSUME RestartInv, OneHandler, NoTypedYes, [Next]_vars
  PROVE  RestartInv'
<1>1. TypesInv'
  BY StepTypes DEF RestartInv
<1>2. CASE UNCHANGED vars
  BY <1>1, <1>2 DEF vars, RestartInv, PromptFirst, RestartDecided, TakerIsFirst, RestartOnce
<1>3. CASE Tick \/ \E w \in Watches : Change(w)
  BY <1>1, <1>3 DEF Tick, Change, RestartInv, PromptFirst, RestartDecided, TakerIsFirst, RestartOnce
<1>4. CASE Crash
  <2>1. NobodyNewTakes /\ PromptFirst' /\ DecidedStays
    BY <1>4, IdleTypes DEF Crash, NobodyNewTakes, PromptFirst, DecidedStays
  <2>. QED  BY <1>1, <1>4, <2>1, QuietStep DEF Crash
<1>. QED  BY <1>1, <1>2, <1>3, <1>4, PollerQuiet, MessageRestarts, HandlerRestarts DEF Next

\* When messages are handled one at a time and the answer comes from the buttons of the
\* alert, its restart runs at most once, whatever crashes, fails or expires in between
\* (internal/watch/service.go handleIncidentAction).
THEOREM RestartsAtMostOnce == OneHandler /\ NoTypedYes /\ Spec => []RestartsOnce
<1>. SUFFICES ASSUME OneHandler, NoTypedYes
              PROVE  Spec => []RestartsOnce
  OBVIOUS
<1>1. Init => RestartInv
  BY InitTypes, IdleTypes DEF Init, RestartInv, PromptFirst, RestartDecided, TakerIsFirst, RestartOnce
<1>2. RestartInv /\ [Next]_vars => RestartInv'
  BY StepRestarts
<1>3. RestartInv => RestartsOnce
  BY DEF RestartInv, RestartsOnce, TypesInv
<1>. QED  BY <1>1, <1>2, <1>3, PTL DEF Spec

(* ------------------------- the rows of watches ------------------------- *)

NoRowWrites == "toggle" \notin Events /\ "pack" \notin Events

\* Where the poller's copy of the row is still what the table holds.
WithRow == {"bad", "good", "busy", "resolve", "tell_resolved", "clear"}

\* No handler holds a row; the poller's copies are those of the table, unless the watch
\* was removed meanwhile; and a watch is evaluated once in a cycle.
RowsNotHeld == \A h \in Handlers : handler[h].pc \notin {"toggle", "pack"}
ListedFresh ==
  \A t \in poller.todo :
    /\ t.row.is = "live" /\ watches[t.w].is # "unused" /\ (Live(t.w) => t.row = watches[t.w])
    /\ \A u \in poller.todo : t.w = u.w => t = u
CurrentFresh ==
  poller.pc \in WithWatch =>
    /\ poller.row.is = "live" /\ watches[poller.w].is # "unused"
    /\ \A t \in poller.todo : t.w # poller.w
    /\ poller.pc \in WithRow /\ Live(poller.w) => poller.row = watches[poller.w]
FreshInv == RowsNotHeld /\ ListedFresh /\ CurrentFresh

LEMMA WithRowIsWithWatch == WithRow \subseteq WithWatch
BY DEF WithRow, WithWatch

\* The poller moves on with the rows it has.
CarriesRows ==
  /\ poller'.todo = poller.todo
  /\ poller'.pc \in WithWatch => poller.pc \in WithWatch /\ poller'.w = poller.w /\ poller'.row = poller.row
  /\ poller'.pc \in WithRow => poller.pc \in WithRow

LEMMA CarryFresh ==
  ASSUME FreshInv, RowsNotHeld', UNCHANGED watches, CarriesRows
  PROVE  FreshInv'
BY DEF FreshInv, ListedFresh, CurrentFresh, CarriesRows, Live

\* A watch is added, or removed.
LEMMA ChangeFresh ==
  ASSUME TypesInv, FreshInv, RowsNotHeld', UNCHANGED poller, NEW w \in Watches, NEW row \in Watch,
         watches' = [watches EXCEPT ![w] = row],
         watches[w].is = "unused" \/ row.is = "removed"
  PROVE  FreshInv'
<1>1. /\ watches \in [Watches -> Watch] /\ poller.todo \subseteq [w : Watches, row : Watch]
      /\ poller.pc \in WithWatch => poller.w \in Watches
  BY DEF TypesInv, TypeOK, PollerState, PollerRefers
<1>2. /\ watches'[w] = row
      /\ \A v \in Watches : v # w => watches'[v] = watches[v]
  BY <1>1
<1>3. ListedFresh'
  <2>1. \A t \in poller.todo : t.w \in Watches
    BY <1>1
  <2>. QED  BY <1>2, <2>1 DEF FreshInv, ListedFresh, Live
<1>4. CurrentFresh'
  BY <1>1, <1>2 DEF FreshInv, CurrentFresh, Live
<1>. QED  BY <1>3, <1>4 DEF FreshInv

\* The poller writes its row back and takes the next watch, or creates the incident.
LEMMA SaveFresh ==
  ASSUME TypesInv, FreshInv, RowsNotHeld', poller.pc \in WithWatch, NEW row \in Watch, row.is = "live",
         SaveWatch(poller.w, row) \/ WatchNotSaved(poller.w),
         CarriesRows, poller'.pc \notin WithRow
  PROVE  FreshInv'
<1>1. /\ watches \in [Watches -> Watch] /\ poller.todo \subseteq [w : Watches, row : Watch]
      /\ poller.w \in Watches
  BY DEF TypesInv, TypeOK, PollerState, PollerRefers
<1>2. CASE SaveWatch(poller.w, row)
  <2>1. /\ watches'[poller.w] = row
        /\ \A v \in Watches : v # poller.w => watches'[v] = watches[v]
    BY <1>1, <1>2 DEF SaveWatch
  <2>2. \A t \in poller.todo : t.w \in Watches /\ t.w # poller.w
    BY <1>1 DEF FreshInv, CurrentFresh
  <2>3. ListedFresh'
    BY <2>1, <2>2 DEF FreshInv, ListedFresh, CarriesRows, Live
  <2>4. CurrentFresh'
    BY <2>1, <2>2 DEF FreshInv, CurrentFresh, CarriesRows
  <2>. QED  BY <2>3, <2>4 DEF FreshInv
<1>3. CASE WatchNotSaved(poller.w)
  BY <1>3, CarryFresh DEF WatchNotSaved
<1>. QED  BY <1>2, <1>3

LEMMA NextCarries ==
  ASSUME TypesInv, poller' = NextWatch
  PROVE  CarriesRows /\ poller'.pc \notin WithRow
BY NextWatchMoves DEF TypesInv, TypeOK, CarriesRows, WithWatch, WithRow

LEMMA GotoCarries ==
  ASSUME TypesInv, NEW pc \in Stages, Goto(pc),
         pc \in WithWatch => poller.pc \in WithWatch, pc \in WithRow => poller.pc \in WithRow
  PROVE  CarriesRows /\ poller'.pc = pc
BY GotoMoves DEF TypesInv, TypeOK, CarriesRows

LEMMA CycleFresh ==
  ASSUME TypesInv, FreshInv, StartCycle \/ ListWatches \/ EndCycle \/ Probe
  PROVE  FreshInv'
<1>1. UNCHANGED <<watches, handler>> /\ RowsNotHeld'
  BY DEF StartCycle, ListWatches, EndCycle, Probe, PollerOnly, FreshInv, RowsNotHeld
<1>2. poller \in PollerState /\ watches \in [Watches -> Watch]
  BY DEF TypesInv, TypeOK
<1>3. CASE poller'.todo = {} /\ poller'.pc \notin WithWatch
  BY <1>1, <1>3 DEF FreshInv, ListedFresh, CurrentFresh
<1>4. CASE Goto("stopped")
  BY <1>1, <1>4, GotoCarries, CarryFresh DEF Stages, WithWatch, WithRow
<1>5. CASE StartCycle \/ EndCycle
  <2>1. CASE ~Goto("stopped")
    <3>1. poller'.todo = {} /\ poller'.pc \in {"idle", "expire"}
      BY <1>5, <2>1 DEF StartCycle, EndCycle, PollerIdle
    <3>. QED  BY <1>3, <3>1 DEF WithWatch
  <2>. QED  BY <1>4, <2>1
<1>6. CASE ListWatches
  <2>1. CASE ~Goto("stopped")
    <3>. DEFINE todo == {[w |-> w, row |-> watches[w]] : w \in {v \in Watches : Live(v) /\ watches[v].enabled}}
    <3>1. poller'.todo = todo /\ poller'.pc = "pick"
      BY <1>6, <2>1 DEF ListWatches, PollerIdle
    <3>2. \A t \in todo : Live(t.w) /\ t.row = watches[t.w]
      OBVIOUS
    <3>3. \A t, u \in todo : t.w = u.w => t = u
      OBVIOUS
    <3>4. ListedFresh'
      <4>. HIDE DEF todo
      <4>. QED  BY <1>1, <3>1, <3>2, <3>3 DEF ListedFresh, Live
    <3>. QED  BY <1>1, <3>1, <3>4 DEF FreshInv, CurrentFresh, WithWatch
  <2>. QED  BY <1>4, <2>1
<1>7. CASE Probe
  <2>1. PICK t \in poller.todo :
          \/ \E pc \in {"bad", "good"} :
               poller' = [poller EXCEPT !.pc = pc, !.todo = @ \ {t}, !.w = t.w, !.row = t.row]
          \/ poller' = [poller EXCEPT !.todo = @ \ {t}]
    BY <1>7 DEF Probe
  <2>2. poller'.todo = poller.todo \ {t}
    BY <1>2, <2>1 DEF PollerState
  <2>3. ListedFresh'
    BY <1>1, <2>2 DEF FreshInv, ListedFresh, Live
  <2>4. CASE poller' = [poller EXCEPT !.todo = @ \ {t}]
    <3>1. poller'.pc = "pick"
      BY <1>2, <1>7, <2>4 DEF PollerState, Probe, At
    <3>. QED  BY <1>1, <2>3, <3>1 DEF FreshInv, CurrentFresh, WithWatch
  <2>5. ASSUME NEW pc \in {"bad", "good"},
               poller' = [poller EXCEPT !.pc = pc, !.todo = @ \ {t}, !.w = t.w, !.row = t.row]
        PROVE  FreshInv'
    <3>1. poller'.pc = pc /\ poller'.w = t.w /\ poller'.row = t.row
      BY <1>2, <2>5 DEF PollerState
    <3>2. CurrentFresh'
      BY <1>1, <2>2, <3>1 DEF FreshInv, ListedFresh, CurrentFresh, Live
    <3>. QED  BY <1>1, <2>3, <3>2 DEF FreshInv
  <2>. QED  BY <2>1, <2>4, <2>5
<1>. QED  BY <1>5, <1>6, <1>7

LEMMA WatchWriteFresh ==
  ASSUME TypesInv, FreshInv, KeepWaiting \/ Trigger \/ StayClear \/ LeaveRunning \/ ClearWatch
  PROVE  FreshInv'
<1>1. poller.pc \in WithWatch /\ UNCHANGED handler
  BY DEF KeepWaiting, Trigger, StayClear, LeaveRunning, ClearWatch, At, WithWatch, PollerOnly
<1>2. RowsNotHeld'
  BY <1>1 DEF FreshInv, RowsNotHeld
<1>3. poller.row \in Watch /\ poller.row.is = "live"
  BY <1>1 DEF TypesInv, TypeOK, PollerState, FreshInv, CurrentFresh
<1>4. Held.is = "live" /\ [Held EXCEPT !.state = "open", !.last = poller.at].is = "live"
      /\ Quiet.is = "live" /\ [Quiet EXCEPT !.state = "clear"].is = "live"
  BY <1>3 DEF Held, Quiet, Watch
<1>5. PICK row \in Watch : row.is = "live" /\ (SaveWatch(poller.w, row) \/ WatchNotSaved(poller.w))
  BY <1>1, <1>4, PollerRows DEF KeepWaiting, Trigger, StayClear, LeaveRunning, ClearWatch
<1>6. poller' = NextWatch \/ Goto("create")
  BY DEF KeepWaiting, Trigger, StayClear, LeaveRunning, ClearWatch
<1>7. CarriesRows /\ poller'.pc \notin WithRow
  BY <1>1, <1>6, NextCarries, GotoCarries DEF Stages, WithRow
<1>. QED  BY <1>1, <1>2, <1>5, <1>7, SaveFresh

LEMMA OtherPollerFresh ==
  ASSUME TypesInv, FreshInv,
         ExpireOne \/ TellExpired \/ CreateIncident \/ StorePrompt \/ Heal \/ StoreHealed \/ SendAlert
           \/ FindOpen \/ Resolve \/ TellResolved
  PROVE  FreshInv'
<1>1. UNCHANGED <<watches, handler>> /\ RowsNotHeld'
  BY DEF ExpireOne, TellExpired, CreateIncident, StorePrompt, Heal, StoreHealed, SendAlert, FindOpen,
         Resolve, TellResolved, PollerOnly, FreshInv, RowsNotHeld
<1>2. poller \in PollerState
  BY DEF TypesInv, TypeOK
<1>3. CarriesRows
  <2>1. CASE ExpireOne \/ TellExpired
    <3>1. CASE Goto("expire") \/ Goto("stopped")
      BY <3>1, GotoCarries DEF Stages, WithWatch, WithRow
    <3>2. CASE \E i \in poller.expired : poller' = [poller EXCEPT !.pc = "tell_expired", !.expired = @ \ {i}]
      BY <1>2, <3>2 DEF PollerState, CarriesRows, WithWatch, WithRow
    <3>. QED  BY <2>1, <3>1, <3>2 DEF ExpireOne, TellExpired
  <2>2. CASE CreateIncident
    <3>1. CASE poller' = NextWatch
      BY <3>1, NextCarries
    <3>2. CASE \E pc \in {"prompt", "heal", "alert"} :
                 poller' = [poller EXCEPT !.i = Len(incidents) + 1, !.inc = Opened, !.pc = pc]
      BY <1>2, <2>2, <3>2 DEF CreateIncident, At, PollerState, CarriesRows, WithWatch, WithRow
    <3>. QED  BY <2>2, <3>1, <3>2 DEF CreateIncident
  <2>3. CASE StorePrompt \/ StoreHealed \/ SendAlert
    BY <2>3, NextCarries, GotoCarries DEF StorePrompt, StoreHealed, SendAlert, At, Stages, WithWatch, WithRow
  <2>4. CASE Heal
    BY <1>2, <2>4 DEF Heal, At, PollerState, CarriesRows, WithWatch, WithRow
  <2>5. CASE FindOpen
    <3>1. CASE poller' = NextWatch \/ Goto("clear")
      BY <2>5, <3>1, NextCarries, GotoCarries DEF FindOpen, At, Stages, WithWatch, WithRow
    <3>2. CASE \E i \in OpenOf(poller.w), pc \in {"busy", "resolve"} :
                 poller' = [poller EXCEPT !.i = i, !.inc = incidents[i], !.pc = pc]
      BY <1>2, <2>5, <3>2 DEF FindOpen, At, PollerState, CarriesRows, WithWatch, WithRow
    <3>. QED  BY <2>5, <3>1, <3>2, LatestOpen DEF FindOpen
  <2>6. CASE Resolve \/ TellResolved
    BY <2>6, NextCarries, GotoCarries DEF Resolve, TellResolved, At, Stages, WithWatch, WithRow
  <2>. QED  BY <2>1, <2>2, <2>3, <2>4, <2>5, <2>6
<1>. QED  BY <1>1, <1>3, CarryFresh

LEMMA StepFresh ==
  ASSUME NoRowWrites, TypesInv, FreshInv, [Next]_vars
  PROVE  FreshInv'
<1>1. handler \in [Handlers -> HandlerState] /\ RowsNotHeld
  BY DEF TypesInv, TypeOK, FreshInv
<1>2. CASE UNCHANGED <<poller, watches, handler>>
  BY <1>1, <1>2, CarryFresh DEF CarriesRows, RowsNotHeld
<1>3. CASE Crash
  BY <1>3, IdleTypes DEF Crash, FreshInv, RowsNotHeld, ListedFresh, CurrentFresh, WithWatch
<1>4. ASSUME NEW h \in Handlers, Message(h)
      PROVE  FreshInv'
  <2>1. UNCHANGED poller
    BY <1>4 DEF Message, AddWatch, DeleteWatch, ReadWatch, Request, HandlerOnly
  <2>2. ASSUME NEW w \in Watches, AddWatch(h, w) \/ DeleteWatch(h, w)
        PROVE  FreshInv'
    <3>1. RowsNotHeld'
      BY <1>1, <2>2 DEF AddWatch, DeleteWatch, RowsNotHeld
    <3>2. /\ Fresh \in Watch /\ Missing("removed") \in Watch
          /\ Missing("removed").is = "removed"
      BY FreshType DEF Missing, Fresh
    <3>. QED  BY <2>1, <2>2, <3>1, <3>2, ChangeFresh DEF AddWatch, DeleteWatch
  <2>3. ASSUME NEW i \in DOMAIN incidents, NEW a \in {"restart", "ignore", "yes"}, Request(h, i, a)
        PROVE  FreshInv'
    <3>1. RowsNotHeld'
      BY <1>1, <2>3 DEF Request, RowsNotHeld, HandlerState
    <3>. QED  BY <2>1, <2>3, <3>1, CarryFresh DEF Request, CarriesRows
  <2>. QED  BY <1>4, <2>2, <2>3 DEF Message, ReadWatch, Happens, NoRowWrites
<1>5. ASSUME NEW h \in Handlers, HandlerStep(h)
      PROVE  FreshInv'
  <2>1. ~WriteWatch(h)
    BY <1>1 DEF WriteWatch, Is, RowsNotHeld
  <2>2. UNCHANGED <<poller, watches>>
    BY <1>5, <2>1 DEF HandlerStep, StoreDecision, SendProgress, RestartService, Reread, StoreResult, HandlerOnly
  <2>3. RowsNotHeld'
    <3>1. CASE Done(h) \/ Then(h, "progress") \/ Then(h, "run")
      BY <1>1, <3>1, DoneMoves, ThenMoves DEF RowsNotHeld, Others
    <3>2. CASE RestartService(h) \/ Reread(h)
      BY <1>1, <3>1, <3>2 DEF RestartService, Reread, RowsNotHeld, HandlerState
    <3>. QED  BY <1>5, <2>1, <3>1, <3>2 DEF HandlerStep, StoreDecision, SendProgress, StoreResult
  <2>. QED  BY <2>2, <2>3, CarryFresh DEF CarriesRows
<1>6. CASE PollerStep
  BY <1>6, CycleFresh, WatchWriteFresh, OtherPollerFresh DEF PollerStep
<1>7. CASE Tick \/ \E w \in Watches : Change(w)
  BY <1>2, <1>7 DEF Tick, Change
<1>. QED  BY <1>2, <1>3, <1>4, <1>5, <1>6, <1>7 DEF Next, vars

LEMMA InitFresh ==
  ASSUME Init
  PROVE  FreshInv
BY IdleTypes DEF Init, FreshInv, RowsNotHeld, ListedFresh, CurrentFresh, WithWatch

(* ----------------------- alerts a cooldown apart ----------------------- *)

Active == poller.pc \notin {"idle", "stopped"}

\* Incidents are as old as the last one of their watch, or older, and older than the cycle.
DatesKnown ==
  /\ now >= 1 /\ \A i \in DOMAIN incidents : incidents[i].opened >= 1 /\ incidents[i].opened <= now
  /\ \A i \in DOMAIN incidents : Present(i) =>
       Live(incidents[i].watch) /\ incidents[i].opened <= watches[incidents[i].watch].last
CycleDated ==
  Active => /\ poller.at >= 1 /\ poller.at <= now
            /\ \A i \in DOMAIN incidents : incidents[i].opened <= poller.at
\* The incident to be created comes a cooldown after the others of its watch.
CreateApart ==
  poller.pc = "create" /\ Live(poller.w) =>
    /\ watches[poller.w].last = poller.at
    /\ \A i \in DOMAIN incidents : Present(i) /\ incidents[i].watch = poller.w =>
         poller.at - incidents[i].opened >= Cooldown
\* A copy is of the incident it will be written to.
SameIncident(inc, i) == inc.watch = incidents[i].watch /\ inc.opened = incidents[i].opened
PollerCopies == poller.pc \in WithCopy => SameIncident(poller.inc, poller.i)
HandlerCopies ==
  \A h \in Handlers : handler[h].pc \in Answering => SameIncident(handler[h].inc, handler[h].i)
DateInv ==
  TypesInv /\ FreshInv /\ DatesKnown /\ CycleDated /\ CreateApart /\ PollerCopies /\ HandlerCopies
    /\ CooldownKept

\* No incident comes, changes its watch or its date, or comes back.
DatesStay ==
  /\ DOMAIN incidents' = DOMAIN incidents
  /\ \A i \in DOMAIN incidents :
       /\ incidents'[i].watch = incidents[i].watch /\ incidents'[i].opened = incidents[i].opened
       /\ Present(i)' => Present(i)
\* The watches that have incidents keep the time of the last one.
LastStays ==
  \A i \in DOMAIN incidents : Present(i)' /\ Live(incidents[i].watch) =>
    /\ watches'[incidents[i].watch].is = "live"
    /\ watches'[incidents[i].watch].last = watches[incidents[i].watch].last
\* The cycle goes on as it began, and creates no incident.
CycleStays ==
  /\ Active' => Active /\ poller'.at = poller.at
  /\ poller'.pc # "create"

LEMMA UntouchedDates ==
  ASSUME UNCHANGED incidents
  PROVE  DatesStay
BY DEF DatesStay, Present

LEMMA SavedDates ==
  ASSUME TypesInv, NEW i \in DOMAIN incidents, NEW inc \in Incident, SameIncident(inc, i),
         SaveIncident(i, inc) \/ IncidentNotSaved(i)
  PROVE  DatesStay
<1>1. CASE SaveIncident(i, inc)
  <2>1. incidents \in Seq(Incident)
    BY DEF TypesInv, TypeOK
  <2>. QED  BY <1>1, <2>1, IncidentSaved DEF DatesStay, SameIncident, Present
<1>2. CASE IncidentNotSaved(i)
  BY <1>2, UntouchedDates DEF IncidentNotSaved
<1>. QED  BY <1>1, <1>2

LEMMA IncidentDates ==
  ASSUME TypesInv, NEW i \in DOMAIN incidents
  PROVE  /\ incidents[i].watch \in Watches /\ incidents[i].opened \in Nat
         /\ watches[incidents[i].watch].last \in Nat
<1>1. incidents[i] \in Incident /\ watches \in [Watches -> Watch]
  BY DEF TypesInv, TypeOK
<1>. QED  BY <1>1, WatchAssumption DEF Incident, Watch, Time

\* A step that opens no incident and no way to one.
LEMMA DatedStep ==
  ASSUME DateInv, TypesInv', FreshInv', DatesStay, LastStays, PollerCopies', HandlerCopies',
         Active' => Active /\ poller'.at = poller.at, CreateApart', now' >= now
  PROVE  DateInv'
<1>1. now \in Nat /\ now' \in Nat /\ TypesInv
  BY WatchAssumption DEF DateInv, TypesInv, TypeOK, Time
<1>2. DatesKnown'
  <2>1. now' >= 1 /\ \A i \in DOMAIN incidents' : incidents'[i].opened >= 1 /\ incidents'[i].opened <= now'
    BY <1>1, IncidentDates DEF DateInv, DatesKnown, DatesStay
  <2>2. \A i \in DOMAIN incidents' : Present(i)' =>
          Live(incidents[i].watch)' /\ incidents'[i].opened <= watches'[incidents'[i].watch].last
    BY DEF DateInv, DatesKnown, DatesStay, LastStays, Live
  <2>. QED  BY <2>1, <2>2 DEF DatesKnown
<1>3. CycleDated'
  <2>1. poller.at \in Nat
    BY <1>1, WatchAssumption DEF TypesInv, TypeOK, PollerState, Time
  <2>. QED  BY <1>1, <2>1 DEF DateInv, CycleDated, DatesStay
<1>4. CooldownKept'
  BY DEF DateInv, CooldownKept, DatesStay
<1>. QED  BY <1>2, <1>3, <1>4 DEF DateInv

LEMMA WatchesStill ==
  ASSUME UNCHANGED watches
  PROVE  LastStays
BY DEF LastStays, Live

\* The copies of those who stand still remain true to their incidents.
LEMMA HandlersStill ==
  ASSUME DateInv, DatesStay, UNCHANGED handler
  PROVE  HandlerCopies'
BY DEF DateInv, TypesInv, HandlersRefer, HandlerCopies, DatesStay, SameIncident

LEMMA PollerStill ==
  ASSUME DateInv, DatesStay,
         poller'.pc \in WithCopy =>
           poller.pc \in WithCopy /\ poller'.i = poller.i /\ poller'.inc = poller.inc
  PROVE  PollerCopies'
<1>1. poller.pc \in WithCopy => poller.i \in DOMAIN incidents
  BY DEF DateInv, TypesInv, PollerRefers, WithCopy, WithIncident
<1>. QED  BY <1>1 DEF DateInv, PollerCopies, DatesStay, SameIncident

\* What the poller writes back has the time of the last incident that it read.
LEMMA BackKeepsLast ==
  ASSUME DateInv, poller.pc \in WithRow, NEW row \in Watch, row.is = "live", row.last = poller.row.last,
         SaveWatch(poller.w, row) \/ WatchNotSaved(poller.w)
  PROVE  LastStays
<1>1. CASE SaveWatch(poller.w, row)
  <2>1. poller.w \in Watches /\ Live(poller.w) /\ poller.row = watches[poller.w]
    BY <1>1, WithRowIsWithWatch DEF SaveWatch, DateInv, TypesInv, PollerRefers, FreshInv, CurrentFresh
  <2>2. watches' = [watches EXCEPT ![poller.w] = row] /\ watches \in [Watches -> Watch]
    BY <1>1 DEF SaveWatch, DateInv, TypesInv, TypeOK
  <2>. QED  BY <2>1, <2>2, IncidentDates DEF LastStays, Live, DateInv
<1>2. CASE WatchNotSaved(poller.w)
  BY <1>2, WatchesStill DEF WatchNotSaved
<1>. QED  BY <1>1, <1>2

LEMMA NextStays ==
  ASSUME DateInv, Active, poller' = NextWatch
  PROVE  CycleStays /\ poller'.pc \notin WithCopy
BY NextWatchMoves DEF DateInv, TypesInv, TypeOK, CycleStays, Active, WithCopy

LEMMA GotoStays ==
  ASSUME DateInv, Active, NEW pc \in Stages, Goto(pc), pc # "create"
  PROVE  /\ CycleStays /\ poller'.pc = pc /\ poller'.i = poller.i /\ poller'.inc = poller.inc
BY GotoMoves DEF DateInv, TypesInv, TypeOK, CycleStays, Active

LEMMA PollerDated ==
  ASSUME DateInv, TypesInv', FreshInv', PollerOnly \/ UNCHANGED <<now, handler>>,
         DatesStay, LastStays, CycleStays, PollerCopies'
  PROVE  DateInv'
<1>1. UNCHANGED <<now, handler>> /\ now \in Nat
  BY WatchAssumption DEF PollerOnly, DateInv, TypesInv, TypeOK, Time
<1>2. HandlerCopies' /\ CreateApart'
  BY <1>1, HandlersStill DEF CreateApart, CycleStays
<1>. QED  BY <1>1, <1>2, DatedStep DEF CycleStays

\* A step of the poller without a write: to the next watch, or on with the same copies.
LEMMA WritelessDated ==
  ASSUME DateInv, TypesInv', FreshInv', PollerOnly, UNCHANGED <<watches, incidents>>,
         CycleStays,
         poller'.pc \in WithCopy =>
           poller.pc \in WithCopy /\ poller'.i = poller.i /\ poller'.inc = poller.inc
  PROVE  DateInv'
BY UntouchedDates, WatchesStill, PollerStill, PollerDated

LEMMA CycleDates ==
  ASSUME DateInv, TypesInv', FreshInv', StartCycle \/ ListWatches \/ EndCycle \/ Probe
  PROVE  DateInv'
<1>1. PollerOnly /\ UNCHANGED <<watches, incidents, handler, now>>
  BY DEF StartCycle, ListWatches, EndCycle, Probe, PollerOnly
<1>2. poller \in PollerState
  BY DEF DateInv, TypesInv, TypeOK
<1>3. CASE poller'.pc \in {"idle", "stopped"}
  BY <1>1, <1>3, WritelessDated DEF CycleStays, Active, WithCopy
<1>4. CASE poller'.pc = "pick" /\ poller'.at = poller.at /\ Active
  BY <1>1, <1>4, WritelessDated DEF CycleStays, Active, WithCopy
<1>5. CASE Goto("stopped")
  BY <1>2, <1>3, <1>5, GotoMoves DEF Stages
<1>6. CASE StartCycle
  <2>1. CASE poller'.pc = "expire" /\ poller'.at = now
    <3>1. DatesKnown' /\ CooldownKept'
      BY <1>1 DEF DateInv, DatesKnown, CooldownKept, Present, Live
    <3>2. CycleDated'
      <4>1. now \in Nat /\ \A i \in DOMAIN incidents : incidents[i].opened <= now
        BY WatchAssumption DEF DateInv, DatesKnown, TypesInv, TypeOK, Time
      <4>. QED  BY <1>1, <2>1, <4>1 DEF DateInv, DatesKnown, CycleDated
    <3>3. CreateApart' /\ PollerCopies'
      BY <2>1 DEF CreateApart, PollerCopies, WithCopy
    <3>4. HandlerCopies'
      BY <1>1, UntouchedDates, HandlersStill
    <3>. QED  BY <3>1, <3>2, <3>3, <3>4 DEF DateInv
  <2>. QED  BY <1>5, <1>6, <2>1 DEF StartCycle, PollerIdle
<1>7. CASE ListWatches
  BY <1>4, <1>5, <1>7 DEF ListWatches, At, Active, PollerIdle
<1>8. CASE EndCycle
  BY <1>3, <1>8 DEF EndCycle, PollerIdle
<1>9. CASE Probe
  <2>1. CASE \E t \in poller.todo : poller' = [poller EXCEPT !.todo = @ \ {t}]
    BY <1>2, <1>4, <1>9, <2>1 DEF Probe, At, Active, PollerState
  <2>2. CASE \E t \in poller.todo, pc \in {"bad", "good"} :
               poller' = [poller EXCEPT !.pc = pc, !.todo = @ \ {t}, !.w = t.w, !.row = t.row]
    <3>1. poller'.pc \in {"bad", "good"} /\ poller'.at = poller.at /\ Active
      BY <1>2, <1>9, <2>2 DEF Probe, At, Active, PollerState
    <3>. QED  BY <1>1, <3>1, WritelessDated DEF CycleStays, WithCopy
  <2>. QED  BY <1>9, <2>1, <2>2 DEF Probe
<1>. QED  BY <1>6, <1>7, <1>8, <1>9

LEMMA BackDates ==
  ASSUME DateInv, TypesInv', FreshInv', KeepWaiting \/ StayClear \/ LeaveRunning \/ ClearWatch
  PROVE  DateInv'
<1>1. poller.pc \in WithRow /\ Active /\ poller' = NextWatch /\ PollerOnly /\ UNCHANGED incidents
  BY DEF KeepWaiting, StayClear, LeaveRunning, ClearWatch, At, WithRow, Active
<1>2. /\ poller.row \in Watch /\ poller.row.is = "live"
      /\ Held \in Watch /\ Quiet \in Watch /\ [Quiet EXCEPT !.state = "clear"] \in Watch
  BY <1>1, WithRowIsWithWatch, PollerRows DEF DateInv, FreshInv, CurrentFresh
<1>3. \A row \in {Held, Quiet, [Quiet EXCEPT !.state = "clear"]} :
        row \in Watch /\ row.is = "live" /\ row.last = poller.row.last
  <2>1. Held.is = "live" /\ Held.last = poller.row.last
    BY <1>2 DEF Held, Watch
  <2>2. Quiet.is = "live" /\ Quiet.last = poller.row.last
    BY <1>2 DEF Quiet, Watch
  <2>3. /\ [Quiet EXCEPT !.state = "clear"].is = Quiet.is
        /\ [Quiet EXCEPT !.state = "clear"].last = Quiet.last
    BY <1>2 DEF Watch
  <2>. QED  BY <1>2, <2>1, <2>2, <2>3
<1>4. \E row \in {Held, Quiet, [Quiet EXCEPT !.state = "clear"]} :
        SaveWatch(poller.w, row) \/ WatchNotSaved(poller.w)
  BY DEF KeepWaiting, StayClear, LeaveRunning, ClearWatch
<1>5. LastStays
  BY <1>1, <1>3, <1>4, BackKeepsLast
<1>6. CycleStays /\ PollerCopies'
  BY <1>1, NextStays DEF PollerCopies
<1>. QED  BY <1>1, <1>5, <1>6, UntouchedDates, PollerDated

LEMMA TriggerDates ==
  ASSUME DateInv, TypesInv', FreshInv', Trigger
  PROVE  DateInv'
<1>1. PollerOnly /\ UNCHANGED <<incidents, now, handler>> /\ poller.pc = "bad" /\ Active
  BY DEF Trigger, At, PollerOnly, Active
<1>2. CASE WatchNotSaved(poller.w) /\ poller' = NextWatch
  BY <1>1, <1>2, NextStays, WritelessDated DEF WatchNotSaved
<1>3. CASE /\ SaveWatch(poller.w, [Held EXCEPT !.state = "open", !.last = poller.at])
           /\ Goto("create")
  <2>. DEFINE row == [Held EXCEPT !.state = "open", !.last = poller.at]
  <2>1. /\ poller.w \in Watches /\ Live(poller.w) /\ poller.row = watches[poller.w]
        /\ poller.row \in Watch /\ poller.row.is = "live"
    BY <1>1, <1>3, PollerRows DEF SaveWatch, WithRow, WithWatch, DateInv, FreshInv, CurrentFresh
  <2>2. row \in Watch /\ row.is = "live" /\ row.last = poller.at
    <3>1. poller.at \in Time
      BY DEF DateInv, TypesInv, TypeOK, PollerState
    <3>. QED  BY <1>1, <2>1, <3>1, PollerRows DEF Held, Watch, DateInv, WithWatch
  <2>3. /\ watches'[poller.w].is = "live" /\ watches'[poller.w].last = poller.at
        /\ \A v \in Watches : v # poller.w => watches'[v] = watches[v]
    <3>1. watches' = [watches EXCEPT ![poller.w] = row] /\ watches \in [Watches -> Watch]
      BY <1>3 DEF SaveWatch, DateInv, TypesInv, TypeOK
    <3>. HIDE DEF row
    <3>. QED  BY <2>1, <2>2, <3>1
  <2>4. /\ poller'.pc = "create" /\ poller'.at = poller.at /\ poller'.w = poller.w
        /\ poller.at \in Nat /\ poller.row.last \in Nat
    <3>1. poller \in PollerState
      BY DEF DateInv, TypesInv, TypeOK
    <3>2. "create" \in Stages
      BY DEF Stages
    <3>3. poller'.pc = "create" /\ poller'.at = poller.at /\ poller'.w = poller.w
      BY <1>3, <3>1, <3>2, GotoMoves
    <3>4. poller.at \in Nat /\ poller.row.last \in Nat
      BY <2>1, <3>1, WatchAssumption DEF PollerState, Watch, Time
    <3>. QED  BY <3>3, <3>4
  <2>5. \A i \in DOMAIN incidents :
          /\ incidents[i].watch \in Watches /\ incidents[i].opened \in Nat
          /\ incidents[i].opened >= 1 /\ incidents[i].opened <= poller.at
          /\ Present(i) => Live(incidents[i].watch) /\ incidents[i].opened <= watches[incidents[i].watch].last
    BY <1>1, IncidentDates DEF DateInv, DatesKnown, CycleDated
  <2>6. DatesKnown'
    BY <1>1, <2>3, <2>5 DEF DateInv, DatesKnown, Present, Live
  <2>7. CycleDated'
    BY <1>1, <2>4 DEF DateInv, CycleDated, Active
  <2>8. CreateApart'
    <3>1. Cooldown \in Nat /\ ~InCooldown(poller.row, poller.at)
      BY WatchAssumption DEF Trigger, MayTrigger
    <3>2. ASSUME NEW i \in DOMAIN incidents, Present(i), incidents[i].watch = poller.w
          PROVE  poller.at - incidents[i].opened >= Cooldown
      <4>1. incidents[i].opened >= 1 /\ incidents[i].opened <= poller.row.last
            /\ incidents[i].opened \in Nat /\ incidents[i].opened <= poller.at
        BY <2>1, <2>5, <3>2
      <4>2. Cooldown = 0 \/ poller.at - poller.row.last >= Cooldown
        BY <2>4, <3>1, <4>1 DEF InCooldown
      <4>. QED  BY <2>4, <3>1, <4>1, <4>2
    <3>. QED  BY <1>1, <2>3, <2>4, <3>2 DEF CreateApart, Present
  <2>9. PollerCopies' /\ HandlerCopies' /\ CooldownKept'
    BY <1>1, <2>4, UntouchedDates, HandlersStill DEF DateInv, PollerCopies, WithCopy, CooldownKept, Present
  <2>. QED  BY <2>6, <2>7, <2>8, <2>9 DEF DateInv
<1>. QED  BY <1>2, <1>3 DEF Trigger

LEMMA CreateDates ==
  ASSUME DateInv, TypesInv', FreshInv', CreateIncident
  PROVE  DateInv'
<1>1. PollerOnly /\ UNCHANGED <<watches, now, handler>> /\ poller.pc = "create" /\ Active
  BY DEF CreateIncident, At, PollerOnly, Active
<1>2. poller \in PollerState /\ incidents \in Seq(Incident)
  BY DEF DateInv, TypesInv, TypeOK
<1>3. CASE poller' = NextWatch /\ UNCHANGED incidents
  BY <1>1, <1>3, NextStays, WritelessDated
<1>4. CASE Live(poller.w) /\ incidents' = Append(incidents, Opened) /\ ~ (poller' = NextWatch)
  <2>. DEFINE n == Len(incidents) + 1
  <2>1. /\ DOMAIN incidents = 1..Len(incidents) /\ Len(incidents) \in Nat
        /\ DOMAIN incidents' = 1..n /\ incidents'[n] = Opened
        /\ \A i \in DOMAIN incidents : incidents'[i] = incidents[i] /\ i < n
    <3>1. DOMAIN incidents = 1..Len(incidents) /\ Len(incidents) \in Nat
      BY <1>2
    <3>2. Len(incidents') = n /\ DOMAIN incidents' = 1..n
      BY <1>2, <1>4, <3>1
    <3>. QED  BY <1>2, <1>4, <3>1, <3>2
  <2>2. Opened.watch = poller.w /\ Opened.opened = poller.at
    BY DEF Opened
  <2>3. /\ poller'.at = poller.at /\ poller'.i = n /\ poller'.inc = Opened
        /\ poller'.pc \in {"prompt", "heal", "alert"}
    BY <1>2, <1>4 DEF CreateIncident, PollerState
  <2>4. /\ poller.at \in Nat /\ poller.at >= 1 /\ poller.at <= now /\ now \in Nat
        /\ watches[poller.w].last = poller.at
        /\ \A i \in DOMAIN incidents :
             /\ incidents[i].opened <= poller.at
             /\ Present(i) /\ incidents[i].watch = poller.w => poller.at - incidents[i].opened >= Cooldown
    BY <1>1, <1>2, <1>4, WatchAssumption
       DEF DateInv, CycleDated, CreateApart, PollerState, Time, TypesInv, TypeOK
  <2>5. DatesKnown'
    <3>1. now' >= 1 /\ \A i \in DOMAIN incidents' : incidents'[i].opened >= 1 /\ incidents'[i].opened <= now'
      BY <1>1, <2>1, <2>2, <2>4 DEF DateInv, DatesKnown
    <3>2. \A i \in DOMAIN incidents' : Present(i)' =>
            Live(incidents[i].watch)' /\ incidents'[i].opened <= watches'[incidents'[i].watch].last
      BY <1>1, <1>4, <2>1, <2>2, <2>4 DEF DateInv, DatesKnown, Present, Live
    <3>. QED  BY <3>1, <3>2 DEF DatesKnown
  <2>6. CycleDated'
    BY <1>1, <2>1, <2>2, <2>3, <2>4 DEF CycleDated
  <2>7. CreateApart' /\ PollerCopies'
    BY <2>1, <2>2, <2>3 DEF CreateApart, PollerCopies, SameIncident
  <2>8. HandlerCopies'
    BY <1>1, <2>1 DEF DateInv, TypesInv, HandlersRefer, HandlerCopies, SameIncident
  <2>9. CooldownKept'
    <3>. SUFFICES ASSUME NEW i \in DOMAIN incidents', NEW j \in DOMAIN incidents', i < j,
                         incidents'[i].watch = incidents'[j].watch, Present(i)', Present(j)'
                  PROVE  incidents'[j].opened - incidents'[i].opened >= Cooldown
      BY DEF CooldownKept
    <3>1. i \in DOMAIN incidents
      BY <2>1
    <3>2. CASE j = n
      BY <2>1, <2>2, <2>4, <3>1, <3>2 DEF Present
    <3>3. CASE j \in DOMAIN incidents
      BY <2>1, <3>1, <3>3 DEF DateInv, CooldownKept, Present
    <3>. QED  BY <2>1, <3>2, <3>3
  <2>. QED  BY <2>5, <2>6, <2>7, <2>8, <2>9 DEF DateInv
<1>5. CASE poller' = NextWatch /\ incidents' = Append(incidents, Opened)
  \* Not a step of CreateIncident: the poller goes to the prompt, the restart or the alert.
  <2>1. poller'.pc \in {"prompt", "heal", "alert"} \/ UNCHANGED incidents
    BY <1>2 DEF CreateIncident, PollerState
  <2>2. poller'.pc = "pick"
    BY <1>2, <1>5, NextWatchMoves
  <2>. QED  BY <1>3, <1>5, <2>1, <2>2
<1>. QED  BY <1>3, <1>4, <1>5 DEF CreateIncident

LEMMA IncidentWriteDates ==
  ASSUME DateInv, TypesInv', FreshInv', ExpireOne \/ StorePrompt \/ StoreHealed \/ Resolve
  PROVE  DateInv'
<1>1. PollerOnly /\ UNCHANGED watches /\ Active
  BY DEF ExpireOne, StorePrompt, StoreHealed, Resolve, At, Active
<1>2. poller \in PollerState /\ incidents \in Seq(Incident) /\ TypesInv
  BY DEF DateInv, TypesInv, TypeOK
<1>3. LastStays
  BY <1>1, WatchesStill
<1>4. CASE ExpireOne
  <2>1. PICK i \in poller.expired :
          \/ /\ SaveIncident(i, [incidents[i] EXCEPT !.status = "open", !.action = "expired"])
             /\ poller' = [poller EXCEPT !.pc = "tell_expired", !.expired = @ \ {i}]
          \/ IncidentNotSaved(i) /\ Goto("stopped")
    BY <1>4 DEF ExpireOne
  <2>. DEFINE inc == [incidents[i] EXCEPT !.status = "open", !.action = "expired"]
  <2>2. i \in DOMAIN incidents /\ inc \in Incident /\ SameIncident(inc, i)
    <3>1. i \in DOMAIN incidents
      BY <1>2 DEF TypesInv, PollerRefers
    <3>2. incidents[i] \in Incident
      BY <1>2, <3>1
    <3>. QED  BY <3>1, <3>2 DEF Incident, ActionStatus, SameIncident
  <2>3. DatesStay
    <3>. HIDE DEF inc
    <3>1. SaveIncident(i, inc) \/ IncidentNotSaved(i)
      BY <2>1 DEF inc
    <3>. QED  BY <1>2, <2>2, <3>1, SavedDates
  <2>4. CycleStays /\ poller'.pc \notin WithCopy
    <3>1. CASE Goto("stopped")
      BY <1>1, <3>1, GotoStays DEF Stages, WithCopy
    <3>2. CASE poller' = [poller EXCEPT !.pc = "tell_expired", !.expired = @ \ {i}]
      BY <1>1, <1>2, <3>2 DEF PollerState, CycleStays, WithCopy
    <3>. QED  BY <2>1, <3>1, <3>2
  <2>. QED  BY <1>1, <1>3, <2>3, <2>4, PollerDated DEF PollerCopies
<1>5. CASE StorePrompt \/ StoreHealed \/ Resolve
  <2>1. /\ poller.i \in DOMAIN incidents /\ poller.inc \in Incident /\ SameIncident(poller.inc, poller.i)
        /\ poller.pc = "healed" => poller.action \in {"succeeded", "failed"}
    BY <1>5 DEF StorePrompt, StoreHealed, Resolve, At, WithCopy, WithIncident, DateInv, TypesInv, PollerRefers, PollerCopies
  <2>2. PICK inc \in Incident :
          /\ SameIncident(inc, poller.i)
          /\ SaveIncident(poller.i, inc) \/ IncidentNotSaved(poller.i) \/ UNCHANGED incidents
    <3>1. CASE StorePrompt
      BY <2>1, <3>1 DEF StorePrompt
    <3>2. CASE StoreHealed
      <4>1. /\ [poller.inc EXCEPT !.action = poller.action] \in Incident
            /\ SameIncident([poller.inc EXCEPT !.action = poller.action], poller.i)
        BY <2>1, <3>2 DEF StoreHealed, At, Incident, ActionStatus, SameIncident
      <4>. QED  BY <3>2, <4>1 DEF StoreHealed
    <3>3. CASE Resolve
      <4>. DEFINE inc == [poller.inc EXCEPT !.status = "resolved", !.action = IF @ = "pending" THEN "expired" ELSE @]
      <4>1. inc \in Incident /\ SameIncident(inc, poller.i)
        BY <2>1 DEF Incident, ActionStatus, SameIncident
      <4>2. SaveIncident(poller.i, inc) \/ IncidentNotSaved(poller.i)
        BY <3>3 DEF Resolve
      <4>. HIDE DEF inc
      <4>. QED  BY <4>1, <4>2
    <3>. QED  BY <1>5, <3>1, <3>2, <3>3
  <2>3. DatesStay
    BY <1>2, <2>1, <2>2, SavedDates, UntouchedDates
  <2>4. poller' = NextWatch \/ Goto("alert") \/ Goto("tell_resolved")
    BY <1>5 DEF StorePrompt, StoreHealed, Resolve
  <2>5. CycleStays /\ poller'.pc \notin WithCopy
    BY <1>1, <2>4, NextStays, GotoStays DEF Stages, WithCopy
  <2>. QED  BY <1>1, <1>3, <2>3, <2>5, PollerDated DEF PollerCopies
<1>. QED  BY <1>4, <1>5

LEMMA TellDates ==
  ASSUME DateInv, TypesInv', FreshInv', TellExpired \/ Heal \/ SendAlert \/ FindOpen \/ TellResolved
  PROVE  DateInv'
<1>1. UNCHANGED <<watches, incidents, now, handler>> /\ Active
  BY DEF TellExpired, Heal, SendAlert, FindOpen, TellResolved, At, PollerOnly, Active
<1>2. poller \in PollerState /\ TypesInv
  BY DEF DateInv, TypesInv, TypeOK
<1>3. ASSUME CycleStays, PollerCopies'
      PROVE  DateInv'
  BY <1>1, <1>3, UntouchedDates, WatchesStill, PollerDated
<1>4. CASE poller' = NextWatch \/ Goto("expire") \/ Goto("stopped") \/ Goto("clear")
  <2>1. CycleStays /\ poller'.pc \notin WithCopy
    BY <1>1, <1>4, NextStays, GotoStays DEF Stages, WithCopy
  <2>. QED  BY <1>3, <2>1 DEF PollerCopies
<1>5. CASE Heal
  <2>1. CycleStays /\ poller.pc \in WithCopy /\ poller'.i = poller.i /\ poller'.inc = poller.inc
    BY <1>1, <1>2, <1>5 DEF Heal, At, PollerState, CycleStays, WithCopy
  <2>. QED  BY <1>1, <1>3, <2>1, UntouchedDates, PollerStill
<1>6. CASE FindOpen
  <2>1. CASE \E i \in OpenOf(poller.w), pc \in {"busy", "resolve"} :
               poller' = [poller EXCEPT !.i = i, !.inc = incidents[i], !.pc = pc]
    <3>1. CycleStays /\ poller'.inc = incidents[poller'.i]
      BY <1>1, <1>2, <2>1 DEF PollerState, CycleStays
    <3>. QED  BY <1>1, <1>3, <3>1 DEF PollerCopies, SameIncident
  <2>. QED  BY <1>2, <1>4, <1>6, <2>1, LatestOpen DEF FindOpen
<1>. QED  BY <1>4, <1>5, <1>6 DEF TellExpired, SendAlert, TellResolved

LEMMA PollerDates ==
  ASSUME DateInv, TypesInv', FreshInv', PollerStep
  PROVE  DateInv'
BY CycleDates, BackDates, TriggerDates, CreateDates, IncidentWriteDates, TellDates DEF PollerStep

\* A step beside the poller: it finds its watch as it left it, or removed.
LEMMA BesideDates ==
  ASSUME DateInv, TypesInv', FreshInv', UNCHANGED poller, DatesStay, LastStays, HandlerCopies', now' >= now,
         poller.pc = "create" /\ Live(poller.w)' =>
           Live(poller.w) /\ watches'[poller.w].last = watches[poller.w].last
  PROVE  DateInv'
<1>1. PollerCopies'
  BY PollerStill
<1>2. CreateApart'
  BY DEF DateInv, CreateApart, DatesStay
<1>. QED  BY <1>1, <1>2, DatedStep DEF Active

\* A handler that stands on an incident has a copy of it.
LEMMA CopyDated ==
  ASSUME DateInv, DatesStay, NEW h \in Handlers, Others(h),
         handler'[h].pc \in Answering =>
           /\ handler'[h].i \in DOMAIN incidents
           /\ SameIncident(handler'[h].inc, handler'[h].i)
  PROVE  HandlerCopies'
<1>. SUFFICES ASSUME NEW g \in Handlers, handler'[g].pc \in Answering
              PROVE  SameIncident(handler[g].inc, handler[g].i)'
  BY DEF HandlerCopies
<1>1. CASE g = h
  BY <1>1 DEF DatesStay, SameIncident
<1>2. CASE g # h
  BY <1>2 DEF Others, DateInv, TypesInv, HandlersRefer, HandlerCopies, DatesStay, SameIncident
<1>. QED  BY <1>1, <1>2

LEMMA WatchMessageDates ==
  ASSUME DateInv, TypesInv', FreshInv', NEW h \in Handlers, NEW w \in Watches,
         AddWatch(h, w) \/ DeleteWatch(h, w)
  PROVE  DateInv'
<1>1. /\ watches \in [Watches -> Watch] /\ incidents \in Seq(Incident) /\ now \in Nat
      /\ poller.pc = "create" => poller.w \in Watches /\ watches[poller.w].is # "unused"
  BY WatchAssumption DEF DateInv, TypesInv, TypeOK, Time, PollerRefers, FreshInv, CurrentFresh, WithWatch
<1>2. UNCHANGED <<now, poller, handler>>
  BY DEF AddWatch, DeleteWatch, HandlerOnly
<1>3. CASE AddWatch(h, w)
  <2>1. /\ watches[w].is = "unused" /\ UNCHANGED incidents
        /\ \A v \in Watches : v # w => watches'[v] = watches[v]
    BY <1>1, <1>3 DEF AddWatch
  <2>2. DatesStay
    BY <2>1, UntouchedDates
  <2>3. LastStays
    BY <2>1, IncidentDates DEF LastStays, Live, DateInv
  <2>4. poller.pc = "create" => watches'[poller.w] = watches[poller.w]
    BY <1>1, <2>1
  <2>. QED  BY <1>1, <1>2, <2>2, <2>3, <2>4, HandlersStill, BesideDates DEF Live
<1>4. CASE DeleteWatch(h, w)
  <2>1. /\ DOMAIN incidents' = DOMAIN incidents
        /\ \A i \in DOMAIN incidents :
             /\ incidents[i].watch = w => incidents'[i] = [incidents[i] EXCEPT !.status = "gone"]
             /\ incidents[i].watch # w => incidents'[i] = incidents[i]
    BY <1>1, <1>4 DEF DeleteWatch
  <2>2. \A i \in DOMAIN incidents :
          /\ incidents'[i].watch = incidents[i].watch /\ incidents'[i].opened = incidents[i].opened
          /\ Present(i)' => Present(i) /\ incidents[i].watch # w
    <3>1. \A i \in DOMAIN incidents : incidents[i] \in Incident
      BY <1>1
    <3>. QED  BY <2>1, <3>1 DEF Present, Incident
  <2>3. DatesStay
    BY <2>1, <2>2 DEF DatesStay
  <2>4. /\ watches'[w].is = "removed"
        /\ \A v \in Watches : v # w => watches'[v] = watches[v]
    BY <1>1, <1>4 DEF DeleteWatch, Missing, Fresh
  <2>5. LastStays
    BY <2>2, <2>4, IncidentDates DEF LastStays, Live, DateInv
  <2>6. poller.pc = "create" /\ Live(poller.w)' => watches'[poller.w] = watches[poller.w]
    BY <1>1, <1>2, <2>4 DEF Live
  <2>. QED  BY <1>1, <1>2, <2>3, <2>5, <2>6, HandlersStill, BesideDates DEF Live
<1>. QED  BY <1>3, <1>4

LEMMA RequestDates ==
  ASSUME DateInv, TypesInv', FreshInv', NEW h \in Handlers, NEW i \in DOMAIN incidents,
         NEW a \in {"restart", "ignore", "yes"}, Request(h, i, a)
  PROVE  DateInv'
<1>1. UNCHANGED <<now, poller, watches, incidents>> /\ now \in Nat
      /\ handler \in [Handlers -> HandlerState]
  BY WatchAssumption DEF Request, HandlerOnly, DateInv, TypesInv, TypeOK, Time
<1>2. DatesStay /\ LastStays
  BY <1>1, UntouchedDates, WatchesStill
<1>3. HandlerCopies'
  <2>1. CASE UNCHANGED handler
    BY <1>2, <2>1, HandlersStill
  <2>2. ASSUME NEW pc \in {"reread", "late", "take"},
               handler' = [handler EXCEPT ![h].pc = pc, ![h].i = i, ![h].inc = incidents[i], ![h].action = a]
        PROVE  HandlerCopies'
    <3>1. handler'[h].i = i /\ handler'[h].inc = incidents[i] /\ Others(h)
      BY <1>1, <2>2 DEF Others, HandlerState
    <3>. QED  BY <1>2, <3>1, CopyDated DEF SameIncident
  <2>. QED  BY <2>1, <2>2 DEF Request
<1>. QED  BY <1>1, <1>2, <1>3, BesideDates DEF Live

LEMMA AnswerDates ==
  ASSUME DateInv, TypesInv', FreshInv', NEW h \in Handlers,
         StoreDecision(h) \/ SendProgress(h) \/ RestartService(h) \/ Reread(h) \/ StoreResult(h)
  PROVE  DateInv'
<1>1. UNCHANGED <<now, poller, watches>> /\ now \in Nat /\ TypesInv
  BY WatchAssumption DEF StoreDecision, SendProgress, RestartService, Reread, StoreResult, HandlerOnly,
                         DateInv, TypesInv, TypeOK, Time
<1>2. /\ handler[h].i \in DOMAIN incidents /\ handler[h].inc \in Incident
      /\ SameIncident(handler[h].inc, handler[h].i)
      /\ handler[h].pc \in {"reread", "finish"} => handler[h].action \in {"ignore", "succeeded", "failed"}
      /\ handler[h] \in HandlerState /\ handler \in [Handlers -> HandlerState]
  BY DEF StoreDecision, SendProgress, RestartService, Reread, StoreResult, Is, Answering,
         DateInv, TypesInv, TypeOK, HandlersRefer, HandlerCopies
<1>3. DatesStay
  <2>1. \A action \in ActionStatus :
          /\ [handler[h].inc EXCEPT !.action = action] \in Incident
          /\ SameIncident([handler[h].inc EXCEPT !.action = action], handler[h].i)
    BY <1>2 DEF Incident, SameIncident
  <2>2. CASE StoreDecision(h)
    <3>1. PICK action \in ActionStatus :
            SaveIncident(handler[h].i, [handler[h].inc EXCEPT !.action = action])
              \/ IncidentNotSaved(handler[h].i)
      BY <2>2 DEF StoreDecision, ActionStatus
    <3>. QED  BY <1>1, <1>2, <2>1, <3>1, SavedDates
  <2>3. CASE StoreResult(h)
    <3>1. PICK action \in ActionStatus :
            SaveIncident(handler[h].i, [handler[h].inc EXCEPT !.action = action])
              \/ IncidentNotSaved(handler[h].i)
      BY <1>2, <2>3 DEF StoreResult, Is, ActionStatus
    <3>. QED  BY <1>1, <1>2, <2>1, <3>1, SavedDates
  <2>4. CASE SendProgress(h) \/ RestartService(h) \/ Reread(h)
    BY <2>4, UntouchedDates DEF SendProgress, RestartService, Reread
  <2>. QED  BY <2>2, <2>3, <2>4
<1>4. HandlerCopies'
  <2>1. CASE Done(h)
    BY <1>1, <1>3, <2>1, DoneMoves, CopyDated DEF Answering
  <2>2. CASE Then(h, "progress") \/ Then(h, "run")
    BY <1>1, <1>2, <1>3, <2>2, ThenMoves, CopyDated
  <2>3. CASE RestartService(h)
    <3>1. handler'[h].i = handler[h].i /\ handler'[h].inc = handler[h].inc /\ Others(h)
      BY <1>2, <2>3 DEF RestartService, Others, HandlerState
    <3>. QED  BY <1>2, <1>3, <3>1, CopyDated
  <2>4. CASE Reread(h) /\ ~Done(h)
    <3>1. /\ handler'[h].i = handler[h].i /\ Others(h)
          /\ handler'[h].inc = IF Present(handler[h].i) THEN incidents[handler[h].i] ELSE handler[h].inc
      BY <1>2, <2>4 DEF Reread, Others, HandlerState
    <3>2. SameIncident(handler'[h].inc, handler[h].i)
      BY <1>2, <3>1 DEF SameIncident
    <3>. QED  BY <1>2, <1>3, <3>1, <3>2, CopyDated
  <2>. QED  BY <2>1, <2>2, <2>3, <2>4 DEF StoreDecision, SendProgress, StoreResult
<1>. QED  BY <1>1, <1>3, <1>4, WatchesStill, BesideDates DEF Live

LEMMA StepDates ==
  ASSUME NoRowWrites, DateInv, [Next]_vars
  PROVE  DateInv'
<1>1. TypesInv' /\ FreshInv' /\ now \in Nat
  BY StepTypes, StepFresh, WatchAssumption DEF DateInv, TypesInv, TypeOK, Time
<1>2. CASE UNCHANGED <<poller, handler, watches, incidents>> /\ now' >= now
  BY <1>1, <1>2, UntouchedDates, WatchesStill, HandlersStill, BesideDates DEF Live
<1>3. CASE Tick \/ (\E w \in Watches : Change(w)) \/ UNCHANGED vars
  BY <1>1, <1>2, <1>3 DEF Tick, Change, vars
<1>4. CASE Crash
  <2>1. poller'.pc = "idle" /\ HandlerCopies'
    BY <1>4, IdleTypes DEF Crash, HandlerCopies, Answering
  <2>2. PollerCopies' /\ CreateApart' /\ ~Active'
    BY <2>1 DEF PollerCopies, CreateApart, WithCopy, Active
  <2>3. DatesStay /\ LastStays /\ now' = now
    BY <1>4, UntouchedDates, WatchesStill DEF Crash
  <2>. QED  BY <1>1, <2>1, <2>2, <2>3, DatedStep
<1>5. ASSUME NEW h \in Handlers, Message(h) \/ HandlerStep(h)
      PROVE  DateInv'
  <2>1. \A w \in Watches : ~ReadWatch(h, w, "toggle") /\ ~ReadWatch(h, w, "pack")
    BY DEF ReadWatch, Happens, NoRowWrites
  <2>2. ~WriteWatch(h)
    BY DEF WriteWatch, Is, DateInv, FreshInv, RowsNotHeld
  <2>. QED  BY <1>1, <1>5, <2>1, <2>2, WatchMessageDates, RequestDates, AnswerDates DEF Message, HandlerStep
<1>. QED  BY <1>1, <1>3, <1>4, <1>5, PollerDates DEF Next

LEMMA InitDates ==
  ASSUME Init
  PROVE  DateInv
<1>1. DOMAIN incidents = {} /\ now = 1 /\ poller.pc = "idle" /\ \A h \in Handlers : handler[h].pc = "idle"
  BY IdleTypes DEF Init
<1>2. DatesKnown /\ CycleDated /\ CreateApart /\ PollerCopies /\ HandlerCopies /\ CooldownKept
  BY <1>1 DEF DatesKnown, CycleDated, CreateApart, PollerCopies, HandlerCopies, CooldownKept,
              Active, WithCopy, Answering
<1>. QED  BY <1>2, InitTypes, InitFresh DEF DateInv

\* Where nobody pauses a watch or enables a pack, two incidents of one watch are at least the
\* cooldown apart: through crashes, failed writes, removals and alerts that are lost, since the
\* time is written before the incident is (internal/watch/service.go processWatch).
THEOREM AlertsCooldownApart == NoRowWrites /\ Spec => []CooldownKept
<1>. SUFFICES ASSUME NoRowWrites
              PROVE  Spec => []CooldownKept
  OBVIOUS
<1>1. Init => DateInv
  BY InitDates
<1>2. DateInv /\ [Next]_vars => DateInv'
  BY StepDates
<1>3. DateInv => CooldownKept
  BY DEF DateInv
<1>. QED  BY <1>1, <1>2, <1>3, PTL DEF Spec

(* ------------------- open incidents and their watches ------------------- *)

NoAnswers == Events \cap {"restart", "ignore", "yes"} = {}

\* The poller is the only one that writes incidents, apart from a removal, which takes them all.
HandlersIdle == \A h \in Handlers : handler[h].pc = "idle"
OneOpen ==
  \A i, j \in DOMAIN incidents :
    incidents[i].status = "open" /\ incidents[j].status = "open" /\ incidents[i].watch = incidents[j].watch
      => i = j
OpenOrGone(i) == incidents[i].status \in {"open", "gone"}
\* What the poller writes back as open is open still, or gone.
ExpireOpen == poller.pc \in {"expire", "tell_expired"} => \A i \in poller.expired : OpenOrGone(i)
CopyOpen ==
  poller.pc \in WithCopy =>
    poller.inc.status = "open" /\ OpenOrGone(poller.i) /\ incidents[poller.i].watch = poller.w
\* Before an incident opens, and after it was resolved, its watch has none.
NoneOpen == poller.pc \in {"create", "tell_resolved", "clear"} => OpenOf(poller.w) = {}
Marked == poller.pc = "create" /\ Live(poller.w) => watches[poller.w].state = "open"
LocalOpen == ExpireOpen /\ CopyOpen /\ NoneOpen /\ Marked
OpenInv == DateInv /\ HandlersIdle /\ OneOpen /\ OpenIsKnown /\ LocalOpen

\* No incident opens, and what is open remains so or goes with its watch.
NoneOpens ==
  /\ DOMAIN incidents' = DOMAIN incidents
  /\ \A i \in DOMAIN incidents :
       /\ incidents'[i].watch = incidents[i].watch
       /\ incidents'[i].status = "open" => incidents[i].status = "open"
OpenStays == NoneOpens /\ \A i \in DOMAIN incidents : OpenOrGone(i) => OpenOrGone(i)'
StatesStay ==
  \A i \in DOMAIN incidents : incidents'[i].status = "open" =>
    watches'[incidents[i].watch].state = watches[incidents[i].watch].state

LEMMA OpenStep ==
  ASSUME OpenInv, DateInv', HandlersIdle', NoneOpens, StatesStay, LocalOpen'
  PROVE  OpenInv'
<1>1. OneOpen' /\ OpenIsKnown'
  BY DEF OpenInv, OneOpen, OpenIsKnown, NoneOpens, StatesStay
<1>. QED  BY <1>1 DEF OpenInv

LEMMA NoneOpenStays ==
  ASSUME NoneOpens, OpenOf(poller.w) = {}, poller'.w = poller.w
  PROVE  OpenOf(poller.w)' = {}
BY DEF NoneOpens, OpenOf

LEMMA UntouchedOpen ==
  ASSUME UNCHANGED incidents
  PROVE  OpenStays
BY DEF OpenStays, NoneOpens, OpenOrGone

\* The row of an incident that is open or gone is replaced by one that says open.
LEMMA SavedOpen ==
  ASSUME OpenInv, NEW i \in DOMAIN incidents, NEW inc \in Incident, SameIncident(inc, i),
         OpenOrGone(i), inc.status = "open", SaveIncident(i, inc) \/ IncidentNotSaved(i)
  PROVE  OpenStays
<1>1. CASE SaveIncident(i, inc)
  <2>1. incidents \in Seq(Incident)
    BY DEF OpenInv, DateInv, TypesInv, TypeOK
  <2>2. /\ DOMAIN incidents' = DOMAIN incidents /\ incidents'[i] = inc /\ Present(i)
        /\ \A j \in DOMAIN incidents : j # i => incidents'[j] = incidents[j]
    BY <1>1, <2>1, IncidentSaved
  <2>. QED  BY <2>2 DEF OpenStays, NoneOpens, OpenOrGone, SameIncident, Present
<1>2. CASE IncidentNotSaved(i)
  BY <1>2, UntouchedOpen DEF IncidentNotSaved
<1>. QED  BY <1>1, <1>2

\* A step of the poller that opens nothing and leaves the tables to where it goes next.
Onward == {"idle", "stopped", "pick", "bad", "good", "alert", "busy"}

LEMMA OnwardOpen ==
  ASSUME OpenInv, DateInv', UNCHANGED handler, NoneOpens, StatesStay, poller'.pc \in Onward
  PROVE  OpenInv'
<1>1. LocalOpen'
  BY DEF LocalOpen, ExpireOpen, CopyOpen, NoneOpen, Marked, Onward, WithCopy
<1>2. HandlersIdle'
  BY DEF OpenInv, HandlersIdle
<1>. QED  BY <1>1, <1>2, OpenStep

LEMMA WatchesSame ==
  ASSUME UNCHANGED watches
  PROVE  StatesStay
BY DEF StatesStay

LEMMA NextOnward ==
  ASSUME OpenInv, poller' = NextWatch
  PROVE  poller'.pc \in Onward
BY NextWatchMoves DEF OpenInv, DateInv, TypesInv, TypeOK, Onward

LEMMA CycleOpen ==
  ASSUME OpenInv, DateInv', StartCycle \/ ListWatches \/ EndCycle \/ Probe
  PROVE  OpenInv'
<1>1. UNCHANGED <<watches, incidents, handler>>
  BY DEF StartCycle, ListWatches, EndCycle, Probe, PollerOnly
<1>2. OpenStays /\ NoneOpens /\ StatesStay
  BY <1>1, UntouchedOpen, WatchesSame DEF OpenStays
<1>3. poller \in PollerState
  BY DEF OpenInv, DateInv, TypesInv, TypeOK
<1>4. CASE poller'.pc \in Onward
  BY <1>1, <1>2, <1>4, OnwardOpen
<1>5. CASE poller'.pc = "expire" /\ poller'.expired = {i \in DOMAIN incidents : Expired(incidents[i], now)}
  <2>1. LocalOpen'
    BY <1>1, <1>5 DEF LocalOpen, ExpireOpen, CopyOpen, NoneOpen, Marked, WithCopy, OpenOrGone, Expired
  <2>2. HandlersIdle'
    BY <1>1 DEF OpenInv, HandlersIdle
  <2>. QED  BY <1>2, <2>1, <2>2, OpenStep
<1>6. CASE Goto("stopped")
  BY <1>3, <1>4, <1>6, GotoMoves DEF Stages, Onward
<1>7. CASE StartCycle
  BY <1>5, <1>6, <1>7 DEF StartCycle, PollerIdle
<1>8. CASE ListWatches
  BY <1>4, <1>6, <1>8 DEF ListWatches, PollerIdle, Onward
<1>9. CASE EndCycle
  BY <1>4, <1>9 DEF EndCycle, PollerIdle, Onward
<1>10. CASE Probe
  <2>1. poller'.pc \in {"pick", "bad", "good"}
    BY <1>3, <1>10 DEF Probe, At, PollerState
  <2>. QED  BY <1>4, <2>1 DEF Onward
<1>. QED  BY <1>7, <1>8, <1>9, <1>10

LEMMA BackOpen ==
  ASSUME OpenInv, DateInv', KeepWaiting \/ StayClear \/ LeaveRunning \/ ClearWatch
  PROVE  OpenInv'
<1>1. /\ poller.pc \in WithRow /\ poller' = NextWatch /\ UNCHANGED <<handler, incidents>>
      /\ ClearWatch => poller.pc = "clear"
  BY DEF KeepWaiting, StayClear, LeaveRunning, ClearWatch, At, WithRow, PollerOnly
<1>2. NoneOpens
  BY <1>1, UntouchedOpen DEF OpenStays
<1>3. /\ poller.row \in Watch /\ poller.w \in Watches /\ watches \in [Watches -> Watch]
      /\ Live(poller.w) => poller.row = watches[poller.w]
  BY <1>1, WithRowIsWithWatch, PollerRows DEF OpenInv, DateInv, TypesInv, TypeOK, FreshInv, CurrentFresh
<1>4. Held.state = poller.row.state /\ Quiet.state = poller.row.state
  BY <1>3 DEF Held, Quiet, Watch
<1>5. StatesStay
  <2>1. ASSUME NEW row, SaveWatch(poller.w, row), row.state = poller.row.state
        PROVE  StatesStay
    <3>1. watches' = [watches EXCEPT ![poller.w] = row] /\ Live(poller.w)
      BY <2>1 DEF SaveWatch
    <3>2. watches'[poller.w] = row /\ \A v \in Watches : v # poller.w => watches'[v] = watches[v]
      BY <1>3, <3>1
    <3>3. watches'[poller.w].state = watches[poller.w].state
      BY <1>3, <2>1, <3>1, <3>2
    <3>. QED  BY <3>2, <3>3, IncidentDates DEF StatesStay, OpenInv, DateInv
  <2>2. CASE WatchNotSaved(poller.w)
    BY <2>2, WatchesSame DEF WatchNotSaved
  <2>3. CASE ClearWatch /\ ~WatchNotSaved(poller.w)
    <3>1. OpenOf(poller.w) = {}
      BY <1>1, <2>3 DEF OpenInv, LocalOpen, NoneOpen
    <3>2. \A v \in Watches : v # poller.w => watches'[v] = watches[v]
      BY <1>3, <2>3 DEF ClearWatch, SaveWatch
    <3>. QED  BY <1>1, <3>1, <3>2, IncidentDates DEF StatesStay, OpenOf, OpenInv, DateInv
  <2>. QED  BY <1>4, <2>1, <2>2, <2>3 DEF KeepWaiting, StayClear, LeaveRunning
<1>. QED  BY <1>1, <1>2, <1>5, NextOnward, OnwardOpen

LEMMA TriggerOpen ==
  ASSUME OpenInv, DateInv', Trigger
  PROVE  OpenInv'
<1>1. UNCHANGED <<handler, incidents>> /\ poller.pc = "bad"
  BY DEF Trigger, At, PollerOnly
<1>2. NoneOpens
  BY <1>1, UntouchedOpen DEF OpenStays
<1>3. CASE WatchNotSaved(poller.w) /\ poller' = NextWatch
  BY <1>1, <1>2, <1>3, WatchesSame, NextOnward, OnwardOpen DEF WatchNotSaved
<1>4. CASE SaveWatch(poller.w, [Held EXCEPT !.state = "open", !.last = poller.at]) /\ Goto("create")
  <2>. DEFINE row == [Held EXCEPT !.state = "open", !.last = poller.at]
  <2>1. /\ poller.w \in Watches /\ Live(poller.w) /\ poller.row = watches[poller.w]
        /\ poller.row \in Watch /\ watches \in [Watches -> Watch]
    BY <1>1, <1>4, PollerRows DEF SaveWatch, WithRow, WithWatch, OpenInv, DateInv, TypesInv, TypeOK,
                                  FreshInv, CurrentFresh
  <2>2. row.state = "open" /\ watches[poller.w].state = "clear"
    BY <2>1 DEF Trigger, MayTrigger, Held, Watch
  <2>3. /\ watches'[poller.w] = row
        /\ \A v \in Watches : v # poller.w => watches'[v] = watches[v]
    <3>. HIDE DEF row
    <3>1. watches' = [watches EXCEPT ![poller.w] = row]
      BY <1>4 DEF SaveWatch, row
    <3>. QED  BY <2>1, <3>1
  <2>4. OpenOf(poller.w) = {}
    BY <2>2 DEF OpenInv, OpenIsKnown, OpenOf
  <2>5. StatesStay
    BY <1>1, <2>3, <2>4, IncidentDates DEF StatesStay, OpenOf, OpenInv, DateInv
  <2>6. poller'.pc = "create" /\ poller'.w = poller.w
    BY <1>4, GotoMoves DEF OpenInv, DateInv, TypesInv, TypeOK, Stages
  <2>7. LocalOpen'
    <3>1. OpenOf(poller.w)' = {}
      BY <1>2, <2>4, <2>6, NoneOpenStays
    <3>2. NoneOpen'
      BY <2>6, <3>1 DEF NoneOpen, OpenOf
    <3>. QED  BY <2>2, <2>3, <2>6, <3>2 DEF LocalOpen, ExpireOpen, CopyOpen, Marked, WithCopy
  <2>8. HandlersIdle'
    BY <1>1 DEF OpenInv, HandlersIdle
  <2>. QED  BY <1>2, <2>5, <2>7, <2>8, OpenStep
<1>. QED  BY <1>3, <1>4 DEF Trigger

LEMMA CreateOpen ==
  ASSUME OpenInv, DateInv', CreateIncident
  PROVE  OpenInv'
<1>1. UNCHANGED <<watches, handler>> /\ poller.pc = "create"
  BY DEF CreateIncident, At, PollerOnly
<1>2. poller \in PollerState /\ incidents \in Seq(Incident)
  BY DEF OpenInv, DateInv, TypesInv, TypeOK
<1>3. CASE poller' = NextWatch /\ UNCHANGED incidents
  BY <1>1, <1>3, UntouchedOpen, WatchesSame, NextOnward, OnwardOpen DEF OpenStays
<1>4. CASE /\ Live(poller.w) /\ incidents' = Append(incidents, Opened)
           /\ \E pc \in {"prompt", "heal", "alert"} :
                poller' = [poller EXCEPT !.i = Len(incidents) + 1, !.inc = Opened, !.pc = pc]
  <2>. DEFINE n == Len(incidents) + 1
  <2>1. /\ DOMAIN incidents = 1..Len(incidents) /\ Len(incidents) \in Nat
        /\ DOMAIN incidents' = 1..n /\ incidents'[n] = Opened
        /\ \A i \in DOMAIN incidents : incidents'[i] = incidents[i]
    <3>1. DOMAIN incidents = 1..Len(incidents) /\ Len(incidents) \in Nat
      BY <1>2
    <3>2. Len(incidents') = n /\ DOMAIN incidents' = 1..n
      BY <1>2, <1>4, <3>1
    <3>. QED  BY <1>2, <1>4, <3>1, <3>2
  <2>2. Opened.watch = poller.w /\ Opened.status = "open"
    BY DEF Opened
  <2>3. /\ poller'.i = n /\ poller'.inc = Opened /\ poller'.w = poller.w
        /\ poller'.pc \in {"prompt", "heal", "alert"}
    BY <1>2, <1>4 DEF PollerState
  <2>4. /\ \A i \in DOMAIN incidents : incidents[i].watch = poller.w => incidents[i].status # "open"
        /\ watches[poller.w].state = "open"
    BY <1>1, <1>4 DEF OpenInv, LocalOpen, NoneOpen, Marked, OpenOf
  <2>5. OneOpen'
    BY <2>1, <2>2, <2>4 DEF OpenInv, OneOpen
  <2>6. OpenIsKnown'
    BY <1>1, <2>1, <2>2, <2>4 DEF OpenInv, OpenIsKnown
  <2>7. LocalOpen'
    BY <2>1, <2>2, <2>3 DEF LocalOpen, ExpireOpen, CopyOpen, NoneOpen, Marked, OpenOrGone
  <2>8. HandlersIdle'
    BY <1>1 DEF OpenInv, HandlersIdle
  <2>. QED  BY <2>5, <2>6, <2>7, <2>8 DEF OpenInv
<1>. QED  BY <1>3, <1>4 DEF CreateIncident

LEMMA IncidentWriteOpen ==
  ASSUME OpenInv, DateInv', ExpireOne \/ StorePrompt \/ StoreHealed
  PROVE  OpenInv'
<1>1. UNCHANGED <<watches, handler>> /\ StatesStay
  BY WatchesSame DEF ExpireOne, StorePrompt, StoreHealed, PollerOnly
<1>2. poller \in PollerState /\ TypesInv /\ incidents \in Seq(Incident)
  BY DEF OpenInv, DateInv, TypesInv, TypeOK
<1>3. CASE ExpireOne
  <2>1. PICK i \in poller.expired :
          \/ /\ SaveIncident(i, [incidents[i] EXCEPT !.status = "open", !.action = "expired"])
             /\ poller' = [poller EXCEPT !.pc = "tell_expired", !.expired = @ \ {i}]
          \/ IncidentNotSaved(i) /\ Goto("stopped")
    BY <1>3 DEF ExpireOne
  <2>. DEFINE inc == [incidents[i] EXCEPT !.status = "open", !.action = "expired"]
  <2>2. i \in DOMAIN incidents /\ OpenOrGone(i)
    BY <1>2, <1>3 DEF ExpireOne, At, TypesInv, PollerRefers, OpenInv, LocalOpen, ExpireOpen
  <2>3. inc \in Incident /\ SameIncident(inc, i) /\ inc.status = "open"
    <3>1. incidents[i] \in Incident
      BY <1>2, <2>2
    <3>. QED  BY <3>1 DEF Incident, ActionStatus, SameIncident
  <2>4. OpenStays
    <3>1. SaveIncident(i, inc) \/ IncidentNotSaved(i)
      BY <2>1
    <3>. HIDE DEF inc
    <3>. QED  BY <2>2, <2>3, <3>1, SavedOpen
  <2>5. CASE Goto("stopped")
    BY <1>1, <1>2, <2>4, <2>5, GotoMoves, OnwardOpen DEF Stages, Onward, OpenStays
  <2>6. CASE poller' = [poller EXCEPT !.pc = "tell_expired", !.expired = @ \ {i}]
    <3>1. poller'.pc = "tell_expired" /\ poller'.expired = poller.expired \ {i}
      BY <1>2, <2>6 DEF PollerState
    <3>2. \A j \in poller.expired : j \in DOMAIN incidents /\ OpenOrGone(j)'
      BY <1>2, <1>3, <2>4 DEF ExpireOne, At, TypesInv, PollerRefers, OpenInv, LocalOpen, ExpireOpen, OpenStays
    <3>3. LocalOpen'
      <4>1. ExpireOpen'
        BY <3>1, <3>2 DEF ExpireOpen, OpenOrGone
      <4>. QED  BY <3>1, <4>1 DEF LocalOpen, CopyOpen, NoneOpen, Marked, WithCopy
    <3>4. HandlersIdle'
      BY <1>1 DEF OpenInv, HandlersIdle
    <3>. QED  BY <1>1, <2>4, <3>3, <3>4, OpenStep DEF OpenStays
  <2>. QED  BY <2>1, <2>5, <2>6
<1>4. CASE StorePrompt \/ StoreHealed
  <2>1. /\ poller.i \in DOMAIN incidents /\ poller.inc \in Incident /\ SameIncident(poller.inc, poller.i)
        /\ poller.inc.status = "open" /\ OpenOrGone(poller.i)
        /\ poller.pc = "healed" => poller.action \in {"succeeded", "failed"}
    BY <1>4 DEF StorePrompt, StoreHealed, At, WithCopy, WithIncident, OpenInv, DateInv, TypesInv,
                PollerRefers, PollerCopies, LocalOpen, CopyOpen
  <2>2. OpenStays
    <3>1. CASE StorePrompt
      BY <2>1, <3>1, SavedOpen DEF StorePrompt
    <3>2. CASE StoreHealed
      <4>. DEFINE inc == [poller.inc EXCEPT !.action = poller.action]
      <4>1. inc \in Incident /\ SameIncident(inc, poller.i) /\ inc.status = "open"
        BY <2>1, <3>2 DEF StoreHealed, At, Incident, ActionStatus, SameIncident
      <4>2. SaveIncident(poller.i, inc) \/ IncidentNotSaved(poller.i) \/ UNCHANGED incidents
        BY <3>2 DEF StoreHealed
      <4>. HIDE DEF inc
      <4>. QED  BY <2>1, <4>1, <4>2, SavedOpen, UntouchedOpen
    <3>. QED  BY <1>4, <3>1, <3>2
  <2>3. poller'.pc \in Onward
    <3>1. poller' = NextWatch \/ Goto("alert")
      BY <1>4 DEF StorePrompt, StoreHealed
    <3>. QED  BY <1>2, <3>1, NextOnward, GotoMoves DEF Stages, Onward
  <2>. QED  BY <1>1, <2>2, <2>3, OnwardOpen DEF OpenStays
<1>. QED  BY <1>3, <1>4

LEMMA ResolveOpen ==
  ASSUME OpenInv, DateInv', Resolve
  PROVE  OpenInv'
<1>1. UNCHANGED <<watches, handler>> /\ StatesStay /\ poller.pc = "resolve"
  BY WatchesSame DEF Resolve, PollerOnly, At
<1>2. poller \in PollerState /\ incidents \in Seq(Incident)
  BY DEF OpenInv, DateInv, TypesInv, TypeOK
<1>3. CASE IncidentNotSaved(poller.i) /\ poller' = NextWatch
  BY <1>1, <1>3, UntouchedOpen, NextOnward, OnwardOpen DEF OpenStays, IncidentNotSaved
<1>4. CASE /\ SaveIncident(poller.i, [poller.inc EXCEPT !.status = "resolved",
                !.action = IF @ = "pending" THEN "expired" ELSE @])
           /\ Goto("tell_resolved")
  <2>. DEFINE inc == [poller.inc EXCEPT !.status = "resolved", !.action = IF @ = "pending" THEN "expired" ELSE @]
  <2>1. /\ poller.i \in DOMAIN incidents /\ poller.inc \in Incident /\ SameIncident(poller.inc, poller.i)
        /\ OpenOrGone(poller.i) /\ incidents[poller.i].watch = poller.w
    BY <1>1 DEF WithCopy, WithIncident, OpenInv, DateInv, TypesInv, PollerRefers, PollerCopies, LocalOpen, CopyOpen
  <2>2. inc \in Incident /\ inc.watch = poller.w /\ inc.status = "resolved"
    BY <2>1 DEF Incident, ActionStatus, SameIncident
  <2>3. /\ DOMAIN incidents' = DOMAIN incidents /\ incidents'[poller.i] = inc /\ Present(poller.i)
        /\ \A j \in DOMAIN incidents : j # poller.i => incidents'[j] = incidents[j]
    <3>. HIDE DEF inc
    <3>1. SaveIncident(poller.i, inc)
      BY <1>4 DEF inc
    <3>. QED  BY <1>2, <2>1, <2>2, <3>1, IncidentSaved
  <2>4. NoneOpens
    BY <2>1, <2>2, <2>3 DEF NoneOpens
  <2>5. poller'.pc = "tell_resolved" /\ poller'.w = poller.w
    BY <1>2, <1>4, GotoMoves DEF Stages
  <2>6. OpenOf(poller.w)' = {}
    <3>1. incidents[poller.i].status = "open"
      BY <2>1, <2>3 DEF OpenOrGone, Present
    <3>2. \A j \in DOMAIN incidents : incidents[j].watch = poller.w /\ incidents[j].status = "open" => j = poller.i
      BY <2>1, <3>1 DEF OpenInv, OneOpen
    <3>3. \A j \in DOMAIN incidents' : incidents'[j].watch = poller.w => incidents'[j].status # "open"
      BY <2>2, <2>3, <3>2
    <3>. QED  BY <2>5, <3>3 DEF OpenOf
  <2>7. LocalOpen'
    <3>1. NoneOpen'
      BY <2>5, <2>6 DEF NoneOpen, OpenOf
    <3>. QED  BY <2>5, <3>1 DEF LocalOpen, ExpireOpen, CopyOpen, Marked, WithCopy
  <2>8. HandlersIdle'
    BY <1>1 DEF OpenInv, HandlersIdle
  <2>. QED  BY <1>1, <2>4, <2>7, <2>8, OpenStep
<1>. QED  BY <1>3, <1>4 DEF Resolve

LEMMA TellOpen ==
  ASSUME OpenInv, DateInv', TellExpired \/ Heal \/ SendAlert \/ FindOpen \/ TellResolved
  PROVE  OpenInv'
<1>1. UNCHANGED <<watches, incidents, handler>> /\ OpenStays /\ NoneOpens /\ StatesStay
  BY UntouchedOpen, WatchesSame DEF TellExpired, Heal, SendAlert, FindOpen, TellResolved, PollerOnly, OpenStays
<1>2. poller \in PollerState /\ TypesInv
  BY DEF OpenInv, DateInv, TypesInv, TypeOK
<1>3. CASE poller'.pc \in Onward
  BY <1>1, <1>3, OnwardOpen
<1>4. CASE poller' = NextWatch \/ Goto("stopped")
  BY <1>2, <1>3, <1>4, NextOnward, GotoMoves DEF Stages, Onward
<1>5. ASSUME LocalOpen'
      PROVE  OpenInv'
  <2>1. HandlersIdle'
    BY <1>1 DEF OpenInv, HandlersIdle
  <2>. QED  BY <1>1, <1>5, <2>1, OpenStep
<1>6. CASE Goto("expire") /\ TellExpired
  <2>1. poller'.pc = "expire" /\ poller'.expired = poller.expired
    BY <1>2, <1>6, GotoMoves DEF Stages
  <2>. QED  BY <1>1, <1>5, <1>6, <2>1
            DEF TellExpired, At, OpenInv, LocalOpen, ExpireOpen, CopyOpen, NoneOpen, Marked, WithCopy, OpenOrGone
<1>7. CASE Goto("clear") /\ (OpenOf(poller.w) = {} \/ TellResolved)
  <2>1. poller'.pc = "clear" /\ poller'.w = poller.w
    BY <1>2, <1>7, GotoMoves DEF Stages
  <2>2. OpenOf(poller.w) = {}
    BY <1>7 DEF TellResolved, At, OpenInv, LocalOpen, NoneOpen
  <2>. QED  BY <1>1, <1>5, <2>1, <2>2 DEF LocalOpen, ExpireOpen, CopyOpen, NoneOpen, Marked, WithCopy, OpenOf
<1>8. CASE Heal
  <2>1. /\ poller.pc = "heal" /\ poller'.pc = "healed"
        /\ poller'.i = poller.i /\ poller'.inc = poller.inc /\ poller'.w = poller.w
    BY <1>2, <1>8 DEF Heal, At, PollerState
  <2>. QED  BY <1>1, <1>5, <2>1
            DEF OpenInv, LocalOpen, ExpireOpen, CopyOpen, NoneOpen, Marked, WithCopy, OpenOrGone
<1>9. CASE FindOpen
  <2>1. CASE \E i \in OpenOf(poller.w), pc \in {"busy", "resolve"} :
               poller' = [poller EXCEPT !.i = i, !.inc = incidents[i], !.pc = pc]
    <3>1. PICK i \in OpenOf(poller.w), pc \in {"busy", "resolve"} :
            poller' = [poller EXCEPT !.i = i, !.inc = incidents[i], !.pc = pc]
      BY <2>1
    <3>2. poller'.pc = pc /\ poller'.i = i /\ poller'.inc = incidents[i] /\ poller'.w = poller.w
      BY <1>2, <3>1 DEF PollerState
    <3>3. incidents[i].watch = poller.w /\ incidents[i].status = "open"
      BY DEF OpenOf
    <3>. QED  BY <1>1, <1>5, <3>2, <3>3
              DEF LocalOpen, ExpireOpen, CopyOpen, NoneOpen, Marked, WithCopy, OpenOrGone
  <2>. QED  BY <1>2, <1>4, <1>7, <1>9, <2>1, LatestOpen DEF FindOpen
<1>. QED  BY <1>4, <1>6, <1>7, <1>8, <1>9 DEF TellExpired, SendAlert, TellResolved

LEMMA PollerOpen ==
  ASSUME OpenInv, DateInv', PollerStep
  PROVE  OpenInv'
BY CycleOpen, BackOpen, TriggerOpen, CreateOpen, IncidentWriteOpen, ResolveOpen, TellOpen DEF PollerStep

\* A step beside the poller: what it holds stays true, unless its watch was removed.
LEMMA BesideOpen ==
  ASSUME OpenInv, DateInv', UNCHANGED poller, HandlersIdle', OpenStays, StatesStay,
         poller.pc = "create" /\ Live(poller.w)' =>
           Live(poller.w) /\ watches'[poller.w].state = watches[poller.w].state
  PROVE  OpenInv'
<1>1. TypesInv
  BY DEF OpenInv, DateInv
<1>2. ExpireOpen'
  BY <1>1 DEF OpenInv, LocalOpen, ExpireOpen, OpenStays, TypesInv, PollerRefers
<1>3. CopyOpen'
  <2>1. poller.pc \in WithCopy => poller.i \in DOMAIN incidents
    BY <1>1 DEF TypesInv, PollerRefers, WithCopy, WithIncident
  <2>. QED  BY <2>1 DEF OpenInv, LocalOpen, CopyOpen, OpenStays, NoneOpens
<1>4. NoneOpen'
  BY NoneOpenStays DEF OpenInv, LocalOpen, NoneOpen, OpenStays, NoneOpens, OpenOf
<1>5. Marked'
  BY DEF OpenInv, LocalOpen, Marked
<1>. QED  BY <1>2, <1>3, <1>4, <1>5, OpenStep DEF LocalOpen, OpenStays

LEMMA WatchMessageOpen ==
  ASSUME OpenInv, DateInv', NEW h \in Handlers, NEW w \in Watches, AddWatch(h, w) \/ DeleteWatch(h, w)
  PROVE  OpenInv'
<1>1. /\ watches \in [Watches -> Watch] /\ incidents \in Seq(Incident)
      /\ poller.pc = "create" => poller.w \in Watches /\ watches[poller.w].is # "unused"
  BY DEF OpenInv, DateInv, TypesInv, TypeOK, PollerRefers, FreshInv, CurrentFresh, WithWatch
<1>2. UNCHANGED <<poller, handler>> /\ HandlersIdle'
  BY DEF AddWatch, DeleteWatch, HandlerOnly, OpenInv, HandlersIdle
<1>3. CASE AddWatch(h, w)
  <2>1. /\ watches[w].is = "unused" /\ UNCHANGED incidents
        /\ \A v \in Watches : v # w => watches'[v] = watches[v]
    BY <1>1, <1>3 DEF AddWatch
  <2>2. \A i \in DOMAIN incidents : incidents[i].status = "open" => incidents[i].watch # w
    BY <2>1 DEF OpenInv, DateInv, DatesKnown, Present, Live
  <2>3. StatesStay
    BY <2>1, <2>2, IncidentDates DEF StatesStay, OpenInv, DateInv
  <2>4. poller.pc = "create" => watches'[poller.w] = watches[poller.w]
    BY <1>1, <2>1
  <2>. QED  BY <1>2, <2>1, <2>3, <2>4, UntouchedOpen, BesideOpen DEF Live
<1>4. CASE DeleteWatch(h, w)
  <2>1. /\ DOMAIN incidents' = DOMAIN incidents
        /\ \A i \in DOMAIN incidents :
             /\ incidents[i].watch = w => incidents'[i] = [incidents[i] EXCEPT !.status = "gone"]
             /\ incidents[i].watch # w => incidents'[i] = incidents[i]
    BY <1>1, <1>4 DEF DeleteWatch
  <2>2. \A i \in DOMAIN incidents :
          /\ incidents'[i].watch = incidents[i].watch
          /\ incidents[i].watch = w => incidents'[i].status = "gone"
          /\ incidents[i].watch # w => incidents'[i].status = incidents[i].status
    <3>1. \A i \in DOMAIN incidents : incidents[i] \in Incident
      BY <1>1
    <3>. QED  BY <2>1, <3>1 DEF Incident
  <2>3. OpenStays
    BY <2>1, <2>2 DEF OpenStays, NoneOpens, OpenOrGone
  <2>4. /\ watches'[w].is = "removed"
        /\ \A v \in Watches : v # w => watches'[v] = watches[v]
    BY <1>1, <1>4 DEF DeleteWatch, Missing, Fresh
  <2>5. StatesStay
    BY <2>2, <2>4, IncidentDates DEF StatesStay, OpenInv, DateInv
  <2>6. poller.pc = "create" /\ Live(poller.w)' => watches'[poller.w] = watches[poller.w]
    BY <1>1, <1>2, <2>4 DEF Live
  <2>. QED  BY <1>2, <2>3, <2>5, <2>6, BesideOpen DEF Live
<1>. QED  BY <1>3, <1>4

LEMMA StepOpen ==
  ASSUME NoRowWrites, NoAnswers, OpenInv, [Next]_vars
  PROVE  OpenInv'
<1>1. DateInv'
  BY StepDates DEF OpenInv
<1>2. CASE UNCHANGED <<poller, handler, watches, incidents>>
  <2>1. HandlersIdle'
    BY <1>2 DEF OpenInv, HandlersIdle
  <2>. QED  BY <1>1, <1>2, <2>1, UntouchedOpen, WatchesSame, BesideOpen DEF Live
<1>3. CASE Tick \/ (\E w \in Watches : Change(w)) \/ UNCHANGED vars
  BY <1>2, <1>3 DEF Tick, Change, vars
<1>4. CASE Crash
  <2>1. poller'.pc = "idle" /\ HandlersIdle'
    BY <1>4, IdleTypes DEF Crash, HandlersIdle
  <2>2. LocalOpen'
    BY <2>1 DEF LocalOpen, ExpireOpen, CopyOpen, NoneOpen, Marked, WithCopy
  <2>. QED  BY <1>1, <1>4, <2>1, <2>2, UntouchedOpen, WatchesSame, OpenStep DEF Crash, OpenStays
<1>5. ASSUME NEW h \in Handlers, Message(h) \/ HandlerStep(h)
      PROVE  OpenInv'
  <2>1. \A w \in Watches : ~ReadWatch(h, w, "toggle") /\ ~ReadWatch(h, w, "pack")
    BY DEF ReadWatch, Happens, NoRowWrites
  <2>2. \A i \in DOMAIN incidents, a \in {"restart", "ignore", "yes"} : ~Request(h, i, a)
    BY DEF Request, Happens, NoAnswers
  <2>3. ~HandlerStep(h)
    BY DEF HandlerStep, WriteWatch, StoreDecision, SendProgress, RestartService, Reread, StoreResult, Is,
           OpenInv, HandlersIdle
  <2>. QED  BY <1>1, <1>5, <2>1, <2>2, <2>3, WatchMessageOpen DEF Message
<1>. QED  BY <1>1, <1>3, <1>4, <1>5, PollerOpen DEF Next

LEMMA OneOpenCounted ==
  ASSUME OneOpen
  PROVE  OneOpenIncident
<1>. SUFFICES ASSUME NEW w \in Watches
              PROVE  Cardinality(OpenOf(w)) <= 1
  BY DEF OneOpenIncident
<1>1. CASE OpenOf(w) = {}
  BY <1>1, FS_EmptySet
<1>2. CASE OpenOf(w) # {}
  <2>1. PICK i \in OpenOf(w) : TRUE
    BY <1>2
  <2>2. OpenOf(w) = {i}
    BY <2>1 DEF OneOpen, OpenOf
  <2>. QED  BY <2>2, FS_Singleton
<1>. QED  BY <1>1, <1>2

\* Where no message writes a row, a watch has one open incident at most and its own row says so:
\* the poller finds it again after a crash, and resolves it (internal/watch/service.go
\* processWatch marks the watch before it creates, and resolves before it clears).
THEOREM OpenIncidentsKnown == NoRowWrites /\ NoAnswers /\ Spec => [](OpenIsKnown /\ OneOpenIncident)
<1>. SUFFICES ASSUME NoRowWrites, NoAnswers
              PROVE  Spec => [](OpenIsKnown /\ OneOpenIncident)
  OBVIOUS
<1>1. Init => OpenInv
  <2>. SUFFICES ASSUME Init
                PROVE  OpenInv
    OBVIOUS
  <2>1. DOMAIN incidents = {} /\ poller.pc = "idle" /\ HandlersIdle
    BY IdleTypes DEF Init, HandlersIdle
  <2>2. OneOpen /\ OpenIsKnown /\ LocalOpen
    BY <2>1 DEF OneOpen, OpenIsKnown, LocalOpen, ExpireOpen, CopyOpen, NoneOpen, Marked, WithCopy
  <2>. QED  BY <2>1, <2>2, InitDates DEF OpenInv
<1>2. OpenInv /\ [Next]_vars => OpenInv'
  BY StepOpen
<1>3. OpenInv => OpenIsKnown /\ OneOpenIncident
  BY OneOpenCounted DEF OpenInv
<1>. QED  BY <1>1, <1>2, <1>3, PTL DEF Spec

\* Both together: what the poller promises of two alerts of a watch, of its open
\* incident and of its row, through crashes and failures.
THEOREM WatchesKept == NoRowWrites /\ NoAnswers /\ Spec => []WatchesHold
<1>1. CooldownKept /\ OpenIsKnown /\ OneOpenIncident => WatchesHold
  BY DEF WatchesHold
<1>. QED  BY AlertsCooldownApart, OpenIncidentsKnown, <1>1, PTL
=============================================================================
