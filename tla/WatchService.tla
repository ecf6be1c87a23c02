----------------------------- MODULE WatchService -----------------------------
(***************************************************************************)
(* The watch subsystem (internal/watch): the poller goroutine that         *)
(* evaluates the enabled watches and opens and resolves incidents, and the *)
(* message handlers that pause, remove and seed watches and act on alerts, *)
(* over the tables watches and watch_incidents of the same database.       *)
(*                                                                         *)
(* Every repository call is one SQL statement, hence one atomic step, but  *)
(* callers read a row, work on the copy and write the whole row back:      *)
(* poller.row, poller.inc, handler[h].row and handler[h].inc are those     *)
(* copies.  In polling mode messages are handled one at a time; in webhook *)
(* mode every update has its own goroutine (Handlers).                     *)
(*                                                                         *)
(* Time is counted in ticks; 0 is Go's zero time.  A Status or Logs button *)
(* changes nothing and is left out.  Failures, crashes and users' messages *)
(* are bounded by MaxEvents, each kind enabled by its membership in Events *)
(***************************************************************************)
EXTENDS Integers, Sequences, FiniteSets

CONSTANTS
  Watches,       \* ids of watches, never reused (AUTOINCREMENT)
  Seeded,        \* those whose row exists at the start
  NoWatch,
  Mode,          \* [Watches -> {"notify", "ask", "auto"}], the reaction mode
  Handlers,      \* goroutines that handle messages
  Duration, Cooldown, AskTTL,   \* in ticks
  MaxTime,       \* bound on the clock
  Punctual,      \* whether a cycle of the poller ends within one tick
  MaxIncidents,  \* bound on the incidents of one behaviour
  Events, MaxEvents

ASSUME WatchAssumption ==
  /\ Seeded \subseteq Watches /\ NoWatch \notin Watches /\ Punctual \in BOOLEAN
  /\ Mode \in [Watches -> {"notify", "ask", "auto"}]
  /\ Duration \in Nat \ {0} /\ Cooldown \in Nat /\ AskTTL \in Nat
  /\ MaxTime \in Nat \ {0} /\ MaxIncidents \in Nat /\ MaxEvents \in Nat

VARIABLES
  now,        \* the clock
  sick,       \* the watched condition, by watch
  watches,    \* the table watches
  incidents,  \* the table watch_incidents, in order of creation
  poller,     \* the poller's local state
  handler,    \* the handlers' local state
  alerted,    \* history: incidents whose alert reached the chat
  restarts,   \* history: restarts asked for in the chat, by incident (up to 2)
  events      \* messages, failures and crashes so far

vars == <<now, sick, watches, incidents, poller, handler, alerted, restarts, events>>

Time == 0..MaxTime
Watch == [is : {"unused", "live", "removed"}, enabled : BOOLEAN, state : {"clear", "open"}, since : Time, last : Time]
ActionStatus == {"none", "pending", "running", "succeeded", "failed", "declined", "expired"}
Incident == [watch : Watches, status : {"open", "resolved", "gone"}, action : ActionStatus,
             opened : Time, expires : 0..(MaxTime + AskTTL)]

Fresh == [is |-> "live", enabled |-> TRUE, state |-> "clear", since |-> 0, last |-> 0]
Missing(is) == [Fresh EXCEPT !.is = is]
NoIncident == [watch |-> NoWatch]

Stages == {"idle", "stopped", "expire", "tell_expired", "pick", "bad", "good", "create", "prompt",
           "heal", "healed", "alert", "busy", "resolve", "tell_resolved", "clear"}
PollerState == [pc : Stages, at : Time, expired : SUBSET (1..MaxIncidents),
                todo : SUBSET [w : Watches, row : Watch], w : Watches \cup {NoWatch}, row : Watch,
                i : 0..MaxIncidents, inc : Incident \cup {NoIncident},
                action : {"none", "succeeded", "failed"}]
HandlerState == [pc : {"idle", "toggle", "pack", "late", "take", "progress", "run", "reread", "finish"},
                 w : Watches \cup {NoWatch}, row : Watch, i : 0..MaxIncidents,
                 inc : Incident \cup {NoIncident},
                 action : {"none", "restart", "ignore", "yes", "succeeded", "failed"}]

PollerIdle == [pc |-> "idle", at |-> 0, expired |-> {}, todo |-> {}, w |-> NoWatch,
               row |-> Fresh, i |-> 0, inc |-> NoIncident, action |-> "none"]
HandlerIdle == [pc |-> "idle", w |-> NoWatch, row |-> Fresh, i |-> 0, inc |-> NoIncident,
                action |-> "none"]

Init ==
  /\ now = 1
  /\ sick = [w \in Watches |-> FALSE]
  /\ watches = [w \in Watches |-> IF w \in Seeded THEN Fresh ELSE Missing("unused")]
  /\ incidents = << >>
  /\ poller = PollerIdle
  /\ handler = [h \in Handlers |-> HandlerIdle]
  /\ alerted = {}
  /\ restarts = [i \in 1..MaxIncidents |-> 0]
  /\ events = 0

Happens(e) == e \in Events /\ events < MaxEvents /\ events' = events + 1

\* UpdateWatch and UpdateWatchIncident: the whole row, or ErrNotFound.
Live(w) == watches[w].is = "live"
SaveWatch(w, row) ==
  Live(w) /\ watches' = [watches EXCEPT ![w] = row] /\ UNCHANGED events
WatchNotSaved(w) ==
  /\ UNCHANGED watches
  /\ \/ ~Live(w) /\ UNCHANGED events
     \/ Happens("db_failed")
Present(i) == incidents[i].status # "gone"
SaveIncident(i, inc) ==
  Present(i) /\ incidents' = [incidents EXCEPT ![i] = inc] /\ UNCHANGED events
IncidentNotSaved(i) ==
  /\ UNCHANGED incidents
  /\ \/ ~Present(i) /\ UNCHANGED events
     \/ Happens("db_failed")

-----------------------------------------------------------------------------
(* The poller: Run, runCycle, expirePendingIncidents, processWatch.        *)

At(pc) == poller.pc = pc
NextWatch == [PollerIdle EXCEPT !.pc = "pick", !.at = poller.at, !.todo = poller.todo]
Goto(pc) == poller' = [poller EXCEPT !.pc = pc]
PollerOnly == UNCHANGED <<now, sick, handler, restarts>>

\* An incident as the handler finds it once the window to answer is closed.
Expired(inc, time) == inc.status = "open" /\ inc.action = "pending" /\ inc.expires < time

StartCycle ==
  /\ At("idle")
  /\ \/ /\ poller' = [PollerIdle EXCEPT !.pc = "expire", !.at = now,
             !.expired = {i \in DOMAIN incidents : Expired(incidents[i], now)}]
        /\ UNCHANGED events
     \/ Goto("stopped") /\ Happens("db_failed")
  /\ PollerOnly /\ UNCHANGED <<watches, incidents, alerted>>

\* The copy that is written back still says open and pending.  An error ends Run,
\* and nobody reads its result before the agent itself stops (cmd/openlight/agent.go).
ExpireOne ==
  /\ At("expire")
  /\ \E i \in poller.expired :
       \/ /\ SaveIncident(i, [incidents[i] EXCEPT !.status = "open", !.action = "expired"])
          /\ poller' = [poller EXCEPT !.pc = "tell_expired", !.expired = @ \ {i}]
       \/ IncidentNotSaved(i) /\ Goto("stopped")
  /\ PollerOnly /\ UNCHANGED <<watches, alerted>>

TellExpired ==
  /\ At("tell_expired")
  /\ \/ Goto("expire") /\ UNCHANGED events
     \/ Goto("stopped") /\ Happens("send_failed")
  /\ PollerOnly /\ UNCHANGED <<watches, incidents, alerted>>

ListWatches ==
  /\ At("expire") /\ poller.expired = {}
  /\ \/ /\ poller' = [PollerIdle EXCEPT !.pc = "pick", !.at = poller.at,
             !.todo = {[w |-> w, row |-> watches[w]] :
                         w \in {v \in Watches : Live(v) /\ watches[v].enabled}}]
        /\ UNCHANGED events
     \/ Goto("stopped") /\ Happens("db_failed")
  /\ PollerOnly /\ UNCHANGED <<watches, incidents, alerted>>

EndCycle ==
  /\ At("pick") /\ poller.todo = {}
  /\ poller' = [PollerIdle EXCEPT !.at = poller.at]
  /\ PollerOnly /\ UNCHANGED <<watches, incidents, alerted, events>>

\* evaluateWatch.  A probe that fails counts as "down" for a service, and skips
\* the watch for the other kinds, which only notify.
Probe ==
  /\ At("pick")
  /\ \E t \in poller.todo :
       LET judged(condition) ==
             [poller EXCEPT !.pc = IF condition THEN "bad" ELSE "good", !.todo = @ \ {t},
                            !.w = t.w, !.row = t.row]
       IN  \/ poller' = judged(sick[t.w]) /\ UNCHANGED events
           \/ poller' = judged(TRUE) /\ Happens("probe_failed")
           \/ /\ Mode[t.w] = "notify" /\ Happens("probe_failed")
              /\ poller' = [poller EXCEPT !.todo = @ \ {t}]
  /\ PollerOnly /\ UNCHANGED <<watches, incidents, alerted>>

\* Faulty: the time the condition began moves on with every cycle.
HeldNow == [poller.row EXCEPT !.since = poller.at]
Held == [poller.row EXCEPT !.since = IF @ = 0 THEN poller.at ELSE @]
InCooldown(row, time) == Cooldown > 0 /\ row.last # 0 /\ time - row.last < Cooldown
MayTrigger ==
  /\ poller.row.state = "clear"
  /\ poller.at - Held.since >= Duration
  /\ ~InCooldown(poller.row, poller.at)

\* The condition holds but opens nothing: already open, too short, or too soon.
KeepWaiting ==
  /\ At("bad") /\ ~MayTrigger
  /\ (SaveWatch(poller.w, Held) \/ WatchNotSaved(poller.w))
  /\ poller' = NextWatch
  /\ PollerOnly /\ UNCHANGED <<incidents, alerted>>

\* Faulty: the watch is not marked open before its incident is created.
TriggerUnmarked ==
  /\ At("bad") /\ MayTrigger
  /\ SaveWatch(poller.w, [Held EXCEPT !.last = poller.at]) /\ Goto("create")
  /\ PollerOnly /\ UNCHANGED <<incidents, alerted>>

\* First the watch is marked open, then the incident is created.
Trigger ==
  /\ At("bad") /\ MayTrigger
  /\ \/ /\ SaveWatch(poller.w, [Held EXCEPT !.state = "open", !.last = poller.at])
        /\ Goto("create")
     \/ WatchNotSaved(poller.w) /\ poller' = NextWatch
  /\ PollerOnly /\ UNCHANGED <<incidents, alerted>>

\* The foreign key refuses an incident of a removed watch.
Opened ==
  [watch |-> poller.w, status |-> "open", opened |-> poller.at,
   action |-> IF Mode[poller.w] = "ask" THEN "pending" ELSE "none",
   expires |-> IF Mode[poller.w] = "ask" THEN poller.at + AskTTL ELSE 0]
CreateIncident ==
  /\ At("create")
  /\ \/ /\ Live(poller.w) /\ Len(incidents) < MaxIncidents
        /\ incidents' = Append(incidents, Opened)
        /\ poller' = [poller EXCEPT !.i = Len(incidents) + 1, !.inc = Opened,
             !.pc = CASE Mode[poller.w] = "ask" -> "prompt" [] Mode[poller.w] = "auto" -> "heal"
                      [] OTHER -> "alert"]
        /\ UNCHANGED events
     \/ ~Live(poller.w) /\ poller' = NextWatch /\ UNCHANGED <<incidents, events>>
     \/ Happens("db_failed") /\ poller' = NextWatch /\ UNCHANGED incidents
  /\ PollerOnly /\ UNCHANGED <<watches, alerted>>

\* The prompt of an "ask" alert is stored with the copy made at creation.
StorePrompt ==
  /\ At("prompt")
  /\ \/ SaveIncident(poller.i, poller.inc) /\ Goto("alert")
     \/ IncidentNotSaved(poller.i) /\ poller' = NextWatch
  /\ PollerOnly /\ UNCHANGED <<watches, alerted>>

\* "auto": the restart, which may fail, and its result, stored under the context
\* of the probe: a slow restart outlives it and the write is refused.
Heal ==
  /\ At("heal")
  /\ \/ /\ sick' = [sick EXCEPT ![poller.w] = FALSE]
        /\ poller' = [poller EXCEPT !.pc = "healed", !.action = "succeeded"]
     \/ /\ poller' = [poller EXCEPT !.pc = "healed", !.action = "failed"]
        /\ UNCHANGED sick
  /\ UNCHANGED <<now, handler, restarts, watches, incidents, alerted, events>>

StoreHealed ==
  /\ At("healed")
  /\ \/ /\ SaveIncident(poller.i, [poller.inc EXCEPT !.action = poller.action])
        /\ Goto("alert")
     \/ IncidentNotSaved(poller.i) /\ poller' = NextWatch
     \/ Happens("slow_restart") /\ UNCHANGED incidents /\ poller' = NextWatch
  /\ PollerOnly /\ UNCHANGED <<watches, alerted>>

SendAlert ==
  /\ At("alert")
  /\ \/ alerted' = alerted \cup {poller.i} /\ UNCHANGED events
     \/ Happens("send_failed") /\ UNCHANGED alerted
  /\ poller' = NextWatch
  /\ PollerOnly /\ UNCHANGED <<watches, incidents>>

Quiet == [poller.row EXCEPT !.since = 0]

StayClear ==
  /\ At("good") /\ poller.row.state = "clear"
  /\ (SaveWatch(poller.w, Quiet) \/ WatchNotSaved(poller.w))
  /\ poller' = NextWatch
  /\ PollerOnly /\ UNCHANGED <<incidents, alerted>>

\* GetOpenWatchIncident: the latest open incident of the watch, if any.
OpenOf(w) == {i \in DOMAIN incidents : incidents[i].watch = w /\ incidents[i].status = "open"}
Latest(S) == CHOOSE i \in S : \A j \in S : j <= i

FindOpen ==
  /\ At("good") /\ poller.row.state = "open"
  /\ LET found == OpenOf(poller.w)
         i == Latest(found)
     IN  \/ found = {} /\ Goto("clear") /\ UNCHANGED events
         \/ /\ found # {} /\ UNCHANGED events
            /\ poller' = [poller EXCEPT !.i = i, !.inc = incidents[i],
                 !.pc = IF incidents[i].action = "running" THEN "busy" ELSE "resolve"]
         \/ Happens("db_failed") /\ poller' = NextWatch
  /\ PollerOnly /\ UNCHANGED <<watches, incidents, alerted>>

\* An action is running: the watch stays open until a later cycle.
LeaveRunning ==
  /\ At("busy")
  /\ (SaveWatch(poller.w, Quiet) \/ WatchNotSaved(poller.w))
  /\ poller' = NextWatch
  /\ PollerOnly /\ UNCHANGED <<incidents, alerted>>

\* Faulty: the status is not set, or set in the wrong column.
ResolveTo(inc) ==
  /\ At("resolve") /\ SaveIncident(poller.i, inc) /\ Goto("tell_resolved")
  /\ PollerOnly /\ UNCHANGED <<watches, alerted>>
Resolve ==
  /\ At("resolve")
  /\ \/ /\ SaveIncident(poller.i, [poller.inc EXCEPT !.status = "resolved",
             !.action = IF @ = "pending" THEN "expired" ELSE @])
        /\ Goto("tell_resolved")
     \/ IncidentNotSaved(poller.i) /\ poller' = NextWatch
  /\ PollerOnly /\ UNCHANGED <<watches, alerted>>

TellResolved ==
  /\ At("tell_resolved")
  /\ \/ Goto("clear") /\ UNCHANGED events
     \/ poller' = NextWatch /\ Happens("send_failed")
  /\ PollerOnly /\ UNCHANGED <<watches, incidents, alerted>>

\* Faulty: the watch stays open.
ClearWatchNot ==
  /\ At("clear") /\ SaveWatch(poller.w, Quiet) /\ poller' = NextWatch
  /\ PollerOnly /\ UNCHANGED <<incidents, alerted>>

ClearWatch ==
  /\ At("clear")
  /\ (SaveWatch(poller.w, [Quiet EXCEPT !.state = "clear"]) \/ WatchNotSaved(poller.w))
  /\ poller' = NextWatch
  /\ PollerOnly /\ UNCHANGED <<incidents, alerted>>

PollerStep ==
  \/ StartCycle \/ ExpireOne \/ TellExpired \/ ListWatches \/ EndCycle \/ Probe
  \/ KeepWaiting \/ Trigger \/ CreateIncident \/ StorePrompt \/ Heal \/ StoreHealed
  \/ SendAlert \/ StayClear \/ FindOpen \/ LeaveRunning \/ Resolve \/ TellResolved
  \/ ClearWatch

-----------------------------------------------------------------------------
(* The handlers: AddWatch, ToggleWatch, DeleteWatch, EnablePack, and        *)
(* HandleAction with handleIncidentAction.                                  *)

Is(h, pc) == handler[h].pc = pc
Then(h, pc) == handler' = [handler EXCEPT ![h].pc = pc]
Done(h) == handler' = [handler EXCEPT ![h] = HandlerIdle]
HandlerOnly == UNCHANGED <<now, sick, poller, alerted, restarts>>

AddWatch(h, w) ==
  /\ Is(h, "idle") /\ Happens("add") /\ watches[w].is = "unused"
  /\ watches' = [watches EXCEPT ![w] = Fresh]
  /\ HandlerOnly /\ UNCHANGED <<incidents, handler>>

\* GetWatch, then the DELETE; the incidents go with the watch (ON DELETE CASCADE).
DeleteWatch(h, w) ==
  /\ Is(h, "idle") /\ Happens("delete") /\ Live(w)
  /\ watches' = [watches EXCEPT ![w] = Missing("removed")]
  /\ incidents' = [i \in DOMAIN incidents |->
       IF incidents[i].watch = w THEN [incidents[i] EXCEPT !.status = "gone"] ELSE incidents[i]]
  /\ HandlerOnly /\ UNCHANGED handler

ReadWatch(h, w, command) ==
  /\ Is(h, "idle") /\ Happens(command) /\ Live(w)
  /\ handler' = [handler EXCEPT ![h].pc = command, ![h].w = w, ![h].row = watches[w]]
  /\ HandlerOnly /\ UNCHANGED <<watches, incidents>>

\* ToggleWatch flips enabled; ensureWatchSpec enables, and writes nothing when the
\* watch is as the pack wants it (its other settings may differ or not).
WriteWatch(h) ==
  LET row == handler[h].row
      toggled == [row EXCEPT !.enabled = ~@, !.since = IF row.enabled THEN 0 ELSE @]
  IN  /\ \/ Is(h, "toggle") /\ SaveWatch(handler[h].w, toggled)
         \/ Is(h, "pack") /\ SaveWatch(handler[h].w, [row EXCEPT !.enabled = TRUE])
         \/ Is(h, "pack") /\ row.enabled /\ UNCHANGED <<watches, events>>
         \/ (Is(h, "toggle") \/ Is(h, "pack")) /\ WatchNotSaved(handler[h].w)
      /\ Done(h)
      /\ HandlerOnly /\ UNCHANGED incidents

\* Buttons come with the alert ("restart" only under "ask"); "yes" is typed and
\* finds the pending incidents in the table, with or without an alert.  A typed
\* "no" is an "ignore".
Answerable(i) ==
  incidents[i].status = "open" /\ incidents[i].action = "pending" /\ incidents[i].expires >= now
Offered(i, a) ==
  \/ a = "ignore" /\ i \in alerted /\ Mode[incidents[i].watch] # "auto"
  \/ a = "restart" /\ i \in alerted /\ Mode[incidents[i].watch] = "ask"
  \/ a \in {"yes", "ignore"} /\ Answerable(i)

\* handleIncidentAction up to its first write.
Request(h, i, a) ==
  LET inc == incidents[i]
      copied(pc) == handler' = [handler EXCEPT ![h].pc = pc, ![h].i = i, ![h].inc = inc,
                                              ![h].action = a]
      tooLate == inc.expires # 0 /\ inc.expires < now
  IN  /\ Is(h, "idle") /\ Offered(i, a) /\ Happens(a)
      /\ IF inc.status # "open" THEN UNCHANGED handler
         ELSE IF a = "ignore"
         THEN IF inc.action = "declined" THEN UNCHANGED handler ELSE copied("reread")
         ELSE IF inc.action = "pending" THEN copied(IF tooLate THEN "late" ELSE "take")
         ELSE UNCHANGED handler
      /\ HandlerOnly /\ UNCHANGED <<watches, incidents>>

\* Faulty: the restart is not recorded before it runs.
StoreDecisionLater(h) ==
  /\ Is(h, "take") /\ Then(h, "progress")
  /\ HandlerOnly /\ UNCHANGED <<watches, incidents, events>>

\* The window is closed, or the action is taken: the copy is written back.
StoreDecision(h) ==
  LET save(action) == SaveIncident(handler[h].i, [handler[h].inc EXCEPT !.action = action])
  IN  /\ \/ Is(h, "late") /\ save("expired") /\ Done(h)
         \/ Is(h, "take") /\ save("running") /\ Then(h, "progress")
         \/ (Is(h, "late") \/ Is(h, "take")) /\ IncidentNotSaved(handler[h].i) /\ Done(h)
      /\ HandlerOnly /\ UNCHANGED watches

\* "Restarting ...": when it cannot be sent the handler gives up.
SendProgress(h) ==
  /\ Is(h, "progress")
  /\ \/ Then(h, "run") /\ UNCHANGED events
     \/ Done(h) /\ Happens("send_failed")
  /\ HandlerOnly /\ UNCHANGED <<watches, incidents>>

RestartService(h) ==
  LET i == handler[h].i IN
  /\ Is(h, "run")
  /\ restarts' = [restarts EXCEPT ![i] = IF @ < 2 THEN @ + 1 ELSE @]
  /\ \/ /\ sick' = [sick EXCEPT ![incidents[i].watch] = FALSE]
        /\ handler' = [handler EXCEPT ![h].pc = "reread", ![h].action = "succeeded"]
     \/ /\ handler' = [handler EXCEPT ![h].pc = "reread", ![h].action = "failed"]
        /\ UNCHANGED sick
  /\ UNCHANGED <<now, poller, alerted, watches, incidents, events>>

Reread(h) ==
  /\ Is(h, "reread")
  /\ \/ /\ handler' = [handler EXCEPT ![h].pc = "finish",
             ![h].inc = IF Present(handler[h].i) THEN incidents[handler[h].i] ELSE @]
        /\ UNCHANGED events
     \/ Done(h) /\ Happens("db_failed")
  /\ HandlerOnly /\ UNCHANGED <<watches, incidents>>

StoreResult(h) ==
  LET result == IF handler[h].action = "ignore" THEN "declined" ELSE handler[h].action IN
  /\ Is(h, "finish")
  /\ \/ SaveIncident(handler[h].i, [handler[h].inc EXCEPT !.action = result])
     \/ IncidentNotSaved(handler[h].i)
  /\ Done(h)
  /\ HandlerOnly /\ UNCHANGED watches

HandlerStep(h) ==
  WriteWatch(h) \/ StoreDecision(h) \/ SendProgress(h) \/ RestartService(h) \/ Reread(h)
    \/ StoreResult(h)
Message(h) ==
  \/ \E w \in Watches : AddWatch(h, w) \/ DeleteWatch(h, w)
                        \/ ReadWatch(h, w, "toggle") \/ ReadWatch(h, w, "pack")
  \/ \E i \in DOMAIN incidents, a \in {"restart", "ignore", "yes"} : Request(h, i, a)

-----------------------------------------------------------------------------
(* The environment.                                                        *)

Tick ==
  /\ now < MaxTime /\ now' = now + 1
  /\ Punctual => At("idle") /\ poller.at = now
  /\ UNCHANGED <<sick, watches, incidents, poller, handler, alerted, restarts, events>>
Change(w) ==
  /\ sick' = [sick EXCEPT ![w] = ~@]
  /\ UNCHANGED <<now, watches, incidents, poller, handler, alerted, restarts, events>>
\* The agent is killed and started again.
Crash ==
  /\ Happens("crash")
  /\ poller' = PollerIdle /\ handler' = [h \in Handlers |-> HandlerIdle]
  /\ UNCHANGED <<now, sick, watches, incidents, alerted, restarts>>

Next ==
  \/ PollerStep
  \/ \E h \in Handlers : Message(h) \/ HandlerStep(h)
  \/ Tick \/ Crash
  \/ \E w \in Watches : Change(w)

Spec == Init /\ [][Next]_vars

\* The ticker fires, a handler that was started goes on, the clock advances (strong
\* fairness: Punctual makes it wait for the end of a cycle).
Fairness ==
  /\ WF_vars(PollerStep) /\ SF_vars(Tick)
  /\ \A h \in Handlers : WF_vars(HandlerStep(h))

FairSpec == Spec /\ Fairness
-----------------------------------------------------------------------------
(* Properties.                                                             *)

(* The types of the tables, of the clock and of the copies.                *)
TypeOK ==
  /\ now \in Time
  /\ sick \in [Watches -> BOOLEAN]
  /\ watches \in [Watches -> Watch]
  /\ incidents \in Seq(Incident) /\ Len(incidents) <= MaxIncidents
  /\ poller \in PollerState
  /\ handler \in [Handlers -> HandlerState]
  /\ alerted \subseteq DOMAIN incidents
  /\ restarts \in [1..MaxIncidents -> 0..2]

(* Two incidents of one watch are at least Cooldown apart, through crashes, *)
(* failed writes and lost alerts (processWatch writes last_triggered_at     *)
(* before it creates the incident; docs/WATCHES.md:100).                    *)
CooldownKept ==
  \A i, j \in DOMAIN incidents :
    i < j /\ incidents[i].watch = incidents[j].watch /\ Present(i) /\ Present(j) =>
      incidents[j].opened - incidents[i].opened >= Cooldown

(* As long as no handler writes, an open incident belongs to a watch that   *)
(* knows it is open, so the poller will resolve it (the order of writes in  *)
(* processWatch, both ways).                                                *)
OpenIsKnown ==
  \A i \in DOMAIN incidents : incidents[i].status = "open" =>
    watches[incidents[i].watch].state = "open"

(* ... and there is one of them at most: a new one opens only after the     *)
(* last one was resolved.                                                   *)
OneOpenIncident == \A w \in Watches : Cardinality(OpenOf(w)) <= 1

\* What the poller promises where no message changes a watch's row and no alert
\* is answered.
WatchesHold == CooldownKept /\ OpenIsKnown /\ OneOpenIncident

(* A restart asked for by a button runs at most once per alert when         *)
(* messages are handled one at a time, whatever crashes and failures fall   *)
(* in between: the status "running" is stored before the restart.           *)
RestartOnce == \A i \in 1..MaxIncidents : restarts[i] <= 1
RestartsOnce == TypeOK /\ RestartOnce

(* A pause lasts until a handler changes it: the poller never enables a     *)
(* watch again ("Watch #n is now paused", internal/skills/watch/skills.go). *)
PauseLasts ==
  [][PollerStep => \A w \in Watches : watches'[w].enabled => watches[w].enabled]_vars

Settles == now + Duration + Cooldown + 1 < MaxTime
Reported(w) == \E i \in DOMAIN incidents :
  incidents[i].watch = w /\ incidents[i].status = "open" /\ i \in alerted
Watched(w) == Live(w) /\ watches[w].enabled

(* As long as nothing fails, a condition that persists is reported: an      *)
(* alert about it reaches the chat (docs/WATCHES.md:3-5).                   *)
EventuallyReported ==
  \A w \in Watches :
    (sick[w] /\ Settles /\ events = 0)
      ~> (~sick[w] \/ ~Watched(w) \/ Reported(w) \/ events > 0)

(* Whatever crashes, an incident whose condition is gone is resolved        *)
(* (docs/ARCHITECTURE.md:372).                                              *)
EventuallyResolved ==
  \A w \in Watches : ~sick[w] ~> (sick[w] \/ OpenOf(w) = {})

(* ... and the watch itself goes back to "clear", ready to trigger again.   *)
EventuallyCleared ==
  \A w \in Watches : ~sick[w] ~> (sick[w] \/ watches[w].state = "clear" \/ ~Watched(w))

(* The poller goes on polling (docs/WATCHES.md:18-19).                      *)
KeepsPolling == []<>(poller.pc = "idle")

(* After a condition has gone nothing of it is left, and the poller is free *)
(* for the next one, whatever crashed (processWatch, Run).                  *)
EventuallyRecovered == EventuallyResolved /\ EventuallyCleared /\ KeepsPolling
=============================================================================
