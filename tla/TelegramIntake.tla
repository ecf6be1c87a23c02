---------------------------- MODULE TelegramIntake ----------------------------
(* internal/telegram: how updates reach the handler. Telegram keeps an update  *)
(* until getUpdates confirms it with a higher offset, or until the webhook     *)
(* answered 200. Polling handles one update after the other and remembers the  *)
(* offset in memory only; a webhook gives every update a goroutine.            *)
EXTENDS Faults, FiniteSets, Sequences

CONSTANTS
  Updates,    \* update ids, in the order Telegram hands them out; a bound
  Ignored     \* updates that are neither a message nor a button press

ASSUME IntakeAssumption ==
  /\ Updates \subseteq Nat \ {0} /\ IsFiniteSet(Updates)
  /\ Ignored \subseteq Updates

VARIABLES
  mode,        \* "polling" or "webhook"; a setting, never changes
  drop,        \* drop_pending_updates; a setting, never changes
  bot,         \* where Poll is: off, starting, listening, on, failed, stopped
  cancelled,   \* the context of the run is cancelled
  queue,       \* Telegram: the updates that are not confirmed
  webhook,     \* Telegram: the webhook is registered
  offset,      \* of the next getUpdates
  batch,       \* fetched and not yet handled
  active,      \* active[u]: handlers of u that are running
  completed,   \* history: updates a handler returned from without an error
  started,     \* history: how often a handler was started for an update
  arrived,     \* history: the run of the process in which an update arrived
  startedIn,   \* history: the run in which it was last given to a handler
  runs         \* history: how often Poll was started

intake == <<mode, drop, bot, cancelled, queue, webhook, offset, batch, active,
            completed, started, arrived, startedIn, runs>>
intakeSettings == <<mode, drop>>
intakeHistory == <<completed, started, arrived, startedIn, runs>>

IntakeTypeOK ==
  /\ mode \in {"polling", "webhook"} /\ drop \in BOOLEAN
  /\ bot \in {"off", "starting", "listening", "on", "failed", "stopped"}
  /\ cancelled \in BOOLEAN /\ webhook \in BOOLEAN
  /\ queue \subseteq Updates /\ completed \subseteq Updates
  /\ offset \in Nat
  /\ batch \in Seq(Updates) /\ Len(batch) <= Cardinality(Updates)
  /\ active \in [Updates -> Nat] /\ started \in [Updates -> Nat]
  /\ arrived \in [Updates -> Nat] /\ startedIn \in [Updates -> Nat] /\ runs \in Nat

IntakeInit ==
  /\ mode \in {"polling", "webhook"} /\ drop \in BOOLEAN
  /\ bot = "off" /\ cancelled = FALSE
  /\ queue = {} /\ webhook = FALSE
  /\ offset = 0 /\ batch = <<>>
  /\ active = [u \in Updates |-> 0]
  /\ completed = {}
  /\ started = [u \in Updates |-> 0]
  /\ arrived = [u \in Updates |-> 0] /\ startedIn = [u \in Updates |-> 0]
  /\ runs = 0

HandlerBusy == \E u \in Updates : active[u] > 0
Arrived(u) == u \in queue \/ started[u] > 0 \/ arrived[u] > 0

(* -------------------------------- Telegram -------------------------------- *)

\* Somebody writes. runs is 0 for what arrives before the first start.
Arrive ==
  /\ \E u \in Updates :
       /\ ~Arrived(u) /\ \A v \in Updates : v < u => Arrived(v)
       /\ queue' = queue \cup {u}
       /\ arrived' = [arrived EXCEPT ![u] = runs + 1]
  /\ UNCHANGED <<intakeSettings, bot, cancelled, webhook, offset, batch, active,
                 completed, started, startedIn, runs>>

(* --------------------------------- Poll --------------------------------- *)

StartPoll ==
  /\ bot' = "starting"
  /\ offset' = 0 /\ batch' = <<>>
  /\ runs' = runs + 1
  /\ UNCHANGED <<intakeSettings, queue, webhook, active, completed, started, arrived, startedIn>>

\* deleteWebhook comes before the first getUpdates and clears the backlog.
DeleteWebhook ==
  /\ bot = "starting" /\ mode = "polling"
  /\ \/ /\ bot' = "on"
        /\ webhook' = FALSE
        /\ queue' = IF drop THEN {} ELSE queue
        /\ NoFault
     \/ /\ CanFail("telegram_failed") /\ Fault
        /\ bot' = "failed"
        /\ UNCHANGED <<webhook, queue>>
  /\ UNCHANGED <<intakeSettings, cancelled, offset, batch, active, intakeHistory>>

\* Telegram hands updates out in the order of their ids.
ById(updates) ==
  CHOOSE list \in [1 .. Cardinality(updates) -> updates] :
    \A i, j \in 1 .. Cardinality(updates) : i < j => list[i] < list[j]

\* The offset confirms what lies before it; what remains is handed over again.
GetUpdates ==
  /\ bot = "on" /\ mode = "polling" /\ batch = <<>> /\ ~HandlerBusy /\ ~cancelled
  /\ \/ /\ queue' = {u \in queue : u >= offset}
        /\ queue' # {}
        /\ batch' = ById(queue')
        /\ NoFault /\ UNCHANGED bot
     \/ /\ CanFail("telegram_failed") /\ Fault
        /\ bot' = "failed"
        /\ UNCHANGED <<queue, batch>>
  /\ UNCHANGED <<intakeSettings, cancelled, webhook, offset, active, intakeHistory>>

\* A handler begins to work on an update.
StartHandler(u) ==
  /\ active' = [active EXCEPT ![u] = @ + 1]
  /\ started' = [started EXCEPT ![u] = @ + 1]
  /\ startedIn' = [startedIn EXCEPT ![u] = runs]
  /\ UNCHANGED <<completed, arrived, runs>>

\* Faulty: the offset is never moved.
TakeKeepsOffset ==
  /\ bot = "on" /\ batch # <<>> /\ ~HandlerBusy
  /\ batch' = Tail(batch)
  /\ StartHandler(Head(batch))
  /\ UNCHANGED <<intakeSettings, bot, cancelled, queue, webhook, offset, faults>>

\* The offset moves on before the handler runs.
Take ==
  /\ bot = "on" /\ batch # <<>> /\ ~HandlerBusy
  /\ batch' = Tail(batch)
  /\ offset' = IF Head(batch) >= offset THEN Head(batch) + 1 ELSE offset
  /\ IF Head(batch) \in Ignored
     THEN completed' = completed \cup {Head(batch)} /\ UNCHANGED <<active, started, arrived, startedIn, runs>>
     ELSE StartHandler(Head(batch))
  /\ UNCHANGED <<intakeSettings, bot, cancelled, queue, webhook, faults>>

\* The listener is up before Telegram is told where it is.
Listen ==
  /\ bot = "starting" /\ mode = "webhook"
  /\ \/ bot' = "listening" /\ NoFault
     \/ CanFail("telegram_failed") /\ Fault /\ bot' = "failed"
  /\ UNCHANGED <<intakeSettings, cancelled, queue, webhook, offset, batch, active, intakeHistory>>

SetWebhook ==
  /\ bot = "listening"
  /\ \/ /\ bot' = "on" /\ webhook' = TRUE
        /\ queue' = IF drop THEN {} ELSE queue
        /\ NoFault
     \/ /\ CanFail("telegram_failed") /\ Fault
        /\ bot' = "failed" /\ UNCHANGED <<webhook, queue>>
  /\ UNCHANGED <<intakeSettings, cancelled, offset, batch, active, intakeHistory>>

\* The answer 200 leaves before the handler has run. When it is lost Telegram
\* sends the update again.
Deliver ==
  /\ mode = "webhook" /\ webhook
  /\ bot \in {"listening", "on"} /\ ~cancelled
  /\ \E u \in queue :
       /\ \/ queue' = queue \ {u} /\ NoFault
          \/ CanFail("answer_lost") /\ Fault /\ UNCHANGED queue
       /\ IF u \in Ignored
          THEN completed' = completed \cup {u} /\ UNCHANGED <<active, started, arrived, startedIn, runs>>
          ELSE StartHandler(u)
  /\ UNCHANGED <<intakeSettings, bot, cancelled, webhook, offset, batch>>

\* Faulty: polling logs a handler's error and goes on.
HandlerReturnsForgiven ==
  /\ \E u \in Updates :
       /\ active[u] > 0
       /\ active' = [active EXCEPT ![u] = @ - 1]
       /\ \/ completed' = completed \cup {u} /\ NoFault
          \/ CanFail("handler_failed") /\ Fault /\ UNCHANGED completed
  /\ UNCHANGED <<intakeSettings, bot, cancelled, queue, webhook, offset, batch,
                 started, arrived, startedIn, runs>>

\* A handler's error ends polling; a webhook logs it. A handler may end because
\* the context is cancelled, and that ends polling without a failure.
HandlerReturns ==
  /\ \E u \in Updates :
       /\ active[u] > 0
       /\ active' = [active EXCEPT ![u] = @ - 1]
       /\ \/ completed' = completed \cup {u} /\ NoFault /\ UNCHANGED bot
          \/ /\ CanFail("handler_failed") /\ Fault
             /\ bot' = IF mode = "polling" THEN "failed" ELSE bot
             /\ UNCHANGED completed
          \/ /\ cancelled /\ NoFault
             /\ bot' = IF mode = "polling" THEN "stopped" ELSE bot
             /\ UNCHANGED completed
  /\ UNCHANGED <<intakeSettings, cancelled, queue, webhook, offset, batch,
                 started, arrived, startedIn, runs>>

\* The server ends with an error, which is looked at once the webhook is set.
ServeFails ==
  /\ bot = "on" /\ mode = "webhook"
  /\ CanFail("telegram_failed") /\ Fault /\ bot' = "failed"
  /\ UNCHANGED <<intakeSettings, cancelled, queue, webhook, offset, batch, active, intakeHistory>>

\* A cancelled context ends the loop between two batches, and the server at once:
\* its goroutines are not waited for. A connection that does not end in 5 s
\* makes the shutdown an error.
StopPoll ==
  /\ cancelled
  /\ bot \in {"starting", "listening", "on"}
  /\ mode = "polling" => ~HandlerBusy /\ batch = <<>>
  /\ \/ bot' = "stopped" /\ NoFault
     \/ mode = "webhook" /\ CanFail("telegram_failed") /\ Fault /\ bot' = "failed"
  /\ UNCHANGED <<intakeSettings, cancelled, queue, webhook, offset, batch, active, intakeHistory>>

\* The process is gone, and with it the offset, the batch and the handlers.
IntakeLost ==
  /\ bot' = "off"
  /\ offset' = 0 /\ batch' = <<>>
  /\ active' = [u \in Updates |-> 0]
  /\ cancelled' = FALSE
  /\ UNCHANGED <<intakeSettings, queue, webhook, intakeHistory>>

IntakeNext ==
  \/ Arrive /\ NoFault
  \/ DeleteWebhook \/ GetUpdates \/ Take \/ Listen \/ SetWebhook \/ Deliver
  \/ HandlerReturns \/ ServeFails \/ StopPoll

(* ------------------------------- properties ------------------------------- *)

\* Polling that drops the backlog gives no update to a handler twice, whatever
\* fails and however often the process is started again.
AtMostOnce == mode = "polling" /\ drop => \A u \in Updates : started[u] <= 1

\* Polling that keeps the backlog loses no update: until a handler returned from
\* it, Telegram has it.
NothingLost ==
  mode = "polling" /\ ~drop => \A u \in Updates : Arrived(u) => u \in queue \cup completed

\* Polling that drops the backlog starts clean: what is handled arrived in the
\* same run (client.go:100-102, 144-146).
CleanStart ==
  mode = "polling" /\ drop => \A u \in Updates : started[u] > 0 => startedIn[u] = arrived[u] - 1

\* Polling handles updates one at a time and in their order.
InOrder ==
  mode = "polling" =>
    /\ \A u, v \in Updates : active[u] > 0 /\ active[v] > 0 => u = v
    /\ \A u, v \in Updates : u < v /\ active[u] > 0 => startedIn[v] < startedIn[u]

\* What polling keeps to, by the setting of drop_pending_updates (pollUpdates,
\* deleteWebhook).
UpdatesKept == AtMostOnce /\ NothingLost /\ CleanStart /\ InOrder
=============================================================================
