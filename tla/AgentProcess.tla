---------------------------- MODULE AgentProcess ----------------------------
(* cmd/openlight/agent.go and runtime.BuildRuntime: one process of the agent,  *)
(* from its start by the service manager to its exit. It builds its parts in   *)
(* order, starts the background workers, hands the foreground to Telegram, and *)
(* on a signal waits for the workers. Memory workers, watch poller and visual  *)
(* watch poller appear as what Run returns; TelegramIntake is the foreground.  *)
EXTENDS TelegramIntake

CONSTANTS
  Configurations   \* sets of optional parts to try; a bound

Workers == {"memory", "watch", "visual"}
BuildSteps == <<"repository", "memory_db", "providers", "services", "mcp",
                "vision", "memory", "registry", "remote_skills">>
\* Steps whose resource the runtime closes.
Resources == {"repository", "memory_db", "mcp", "memory"}
OptionalParts == Workers \cup {"memory_db", "mcp", "remote_skills"}

ASSUME ProcessAssumption ==
  \A parts \in Configurations : parts \subseteq OptionalParts /\ ("memory_db" \in parts => "memory" \in parts)

VARIABLES
  token,      \* a bot token is configured; a setting, never changes
  parts,      \* optional parts that are configured; a setting, never changes
  phase,      \* down, building, running, brain_only, draining, closing
  step,       \* of BuildSteps, while building
  open,       \* resources that are open
  worker,     \* worker[w]: off, running, stopped (by the context), failed
  exit,       \* how the process ended last: none, ok, error
  orphans     \* workers that were running when the resources were closed

process == <<token, parts, phase, step, open, worker, exit, orphans>>
processSettings == <<token, parts>>

ProcessTypeOK ==
  /\ IntakeTypeOK /\ FaultsTypeOK
  /\ token \in BOOLEAN /\ parts \in Configurations
  /\ phase \in {"down", "building", "running", "brain_only", "draining", "closing"}
  /\ step \in 1 .. Len(BuildSteps) + 1
  /\ open \subseteq Resources /\ orphans \subseteq Workers
  /\ worker \in [Workers -> {"off", "running", "stopped", "failed"}]
  /\ exit \in {"none", "ok", "error"}
  /\ phase = "down" => open = {} /\ bot = "off"

ProcessInit ==
  /\ IntakeInit
  /\ token \in BOOLEAN /\ parts \in Configurations
  /\ phase = "down" /\ step = 1 /\ open = {}
  /\ worker = [w \in Workers |-> "off"]
  /\ exit = "none" /\ orphans = {}

IntakeStays == UNCHANGED intake

(* -------------------------------- start -------------------------------- *)

StartProcess ==
  /\ phase = "down"
  /\ phase' = "building" /\ step' = 1
  /\ worker' = [w \in Workers |-> "off"]
  /\ exit' = "none" /\ orphans' = {}
  /\ IntakeStays /\ UNCHANGED <<processSettings, open, faults>>

Configured(s) == s \in parts \cup {"repository"}

\* A step that fails closes what is open, and the process ends.
GiveUp ==
  /\ phase' = "down" /\ exit' = "error" /\ open' = {}
  /\ IntakeLost

\* The memory subsystem and the brain's skills are extras: their errors are
\* logged and the agent starts without them.
BuildStep ==
  /\ phase = "building" /\ step <= Len(BuildSteps)
  /\ LET s == BuildSteps[step] IN
     \/ /\ open' = IF s \in Resources /\ Configured(s) THEN open \cup {s} ELSE open
        /\ step' = step + 1
        /\ NoFault /\ IntakeStays /\ UNCHANGED <<phase, exit>>
     \/ /\ s \in {"memory", "remote_skills"} /\ Configured(s)
        /\ CanFail("build_failed") /\ Fault
        /\ step' = step + 1
        /\ IntakeStays /\ UNCHANGED <<phase, exit, open>>
     \/ /\ s \notin {"memory", "remote_skills"}
        /\ \/ CanFail("build_failed") /\ Fault
           \/ cancelled /\ s \in Resources /\ Configured(s) /\ NoFault
        /\ GiveUp /\ UNCHANGED step
  /\ UNCHANGED <<processSettings, worker, orphans>>

\* Memory works in both modes, the watches need a bot to tell somebody.
Wanted(w) == IF w = "memory" THEN "memory" \in open ELSE w \in parts /\ token

StartWorkers ==
  /\ phase = "building" /\ step > Len(BuildSteps)
  /\ worker' = [w \in Workers |-> IF Wanted(w) THEN "running" ELSE "off"]
  /\ IF token
     THEN phase' = "running" /\ StartPoll /\ UNCHANGED cancelled
     ELSE phase' = "brain_only" /\ IntakeStays
  /\ UNCHANGED <<processSettings, step, open, exit, orphans, faults>>

(* ------------------------------- running ------------------------------- *)

\* SIGTERM or SIGINT.
Signal ==
  /\ phase # "down" /\ ~cancelled
  /\ CanFail("signal") /\ Fault
  /\ cancelled' = TRUE
  /\ UNCHANGED <<process, mode, drop, bot, queue, webhook, offset, batch, active, intakeHistory>>

\* Run returns the context's error.
WorkerStops(w) ==
  /\ phase # "down" /\ worker[w] = "running" /\ cancelled
  /\ worker' = [worker EXCEPT ![w] = "stopped"]
  /\ IntakeStays /\ UNCHANGED <<processSettings, phase, step, open, exit, orphans, faults>>

\* Only the watch poller returns the error of a cycle.
WatchFails ==
  /\ phase # "down" /\ worker["watch"] = "running"
  /\ CanFail("cycle_failed") /\ Fault
  /\ worker' = [worker EXCEPT !["watch"] = "failed"]
  /\ IntakeStays /\ UNCHANGED <<processSettings, phase, step, open, exit, orphans>>

(* --------------------------------- stop --------------------------------- *)

\* The foreground ends and takes the rest with it. An unexpected error is
\* returned before anything is waited for.
ForegroundEnds ==
  /\ phase = "running" /\ bot \in {"stopped", "failed"}
  /\ cancelled' = TRUE
  /\ IF bot = "failed"
     THEN phase' = "closing" /\ exit' = "error"
     ELSE phase' = "draining" /\ UNCHANGED exit
  /\ UNCHANGED <<processSettings, step, open, worker, orphans, faults,
                 mode, drop, bot, queue, webhook, offset, batch, active, intakeHistory>>

\* Faulty: only a worker that the context stopped counts as ended.
AwaitedStrict(order) ==
  IF \A i \in 1 .. Len(order) : worker[order[i]] \in {"off", "stopped"} THEN "ok" ELSE "none"

\* What waiting for workers in order comes to, "none" as long as it blocks.
Awaited(order) ==
  LET Ended(i) == worker[order[i]] \in {"off", "stopped"}
  IN CASE \A i \in 1 .. Len(order) : Ended(i) -> "ok"
       [] \E i \in 1 .. Len(order) :
            worker[order[i]] = "failed" /\ \A j \in 1 .. i - 1 : Ended(j) -> "error"
       [] OTHER -> "none"

\* Faulty: the memory workers are not waited for.
AwaitOrderForgets == IF token THEN <<"watch", "visual">> ELSE <<>>

AwaitOrder == IF token THEN <<"watch", "visual", "memory">> ELSE <<"memory">>

Drain ==
  /\ phase = "draining" \/ (phase = "brain_only" /\ cancelled)
  /\ Awaited(AwaitOrder) # "none"
  /\ exit' = Awaited(AwaitOrder)
  /\ phase' = "closing"
  /\ IntakeStays /\ UNCHANGED <<processSettings, step, open, worker, orphans, faults>>

\* CloseRuntime, and main returns.
Close ==
  /\ phase = "closing"
  /\ phase' = "down" /\ open' = {}
  /\ orphans' = {w \in Workers : worker[w] = "running"}
  /\ IntakeLost
  /\ UNCHANGED <<processSettings, step, worker, exit, faults>>

Kill ==
  /\ phase # "down"
  /\ CanFail("killed") /\ Fault
  /\ phase' = "down" /\ exit' = "error" /\ open' = {}
  /\ IntakeLost
  /\ UNCHANGED <<processSettings, step, worker, orphans>>

Foreground == phase = "running" /\ IntakeNext /\ UNCHANGED process

ProcessNext ==
  \/ StartProcess \/ BuildStep \/ StartWorkers \/ Signal
  \/ \E w \in Workers : WorkerStops(w)
  \/ WatchFails \/ ForegroundEnds \/ Drain \/ Close \/ Kill
  \/ (Arrive /\ NoFault /\ UNCHANGED process)
  \/ Foreground

(* ------------------------------- properties ------------------------------- *)

\* The exit code tells the service manager the truth: an exit without an error
\* left no worker running on closed databases and hid no worker's failure
\* (agent.go:212-234, CloseRuntime).
CleanExit ==
  phase = "down" /\ exit = "ok" =>
    orphans = {} /\ \A w \in Workers : worker[w] \in {"off", "stopped"}

\* The states of the process are what they should be, and its exit code is true.
ProcessInv == ProcessTypeOK /\ CleanExit

\* Workers, handlers and Telegram's answers take time and come to an end; the
\* service manager starts an agent that failed (Restart=on-failure).
ProcessFairness ==
  /\ WF_<<intake, process, faults>>(BuildStep \/ StartWorkers \/ ForegroundEnds \/ Drain \/ Close)
  /\ WF_<<intake, process, faults>>(Foreground)
  /\ \A w \in Workers : WF_<<intake, process, faults>>(WorkerStops(w))
  /\ WF_<<intake, process, faults>>(exit = "error" /\ StartProcess)

ProcessSpec == ProcessInit /\ FaultsInit /\ [][ProcessNext]_<<intake, process, faults>> /\ ProcessFairness

\* A signal ends the process: nothing it waits for stays away.
EventuallyDown == cancelled ~> phase = "down"

\* Polling that keeps the backlog answers every message in the end, over
\* failures and restarts, once the agent was started and until somebody stops it.
EventuallyAnswered ==
  \A u \in Updates :
    (token /\ mode = "polling" /\ ~drop /\ u \in queue /\ phase # "down") ~> (u \in completed \/ exit = "ok")
=============================================================================
