# openLight: a verification project

openLight is an infrastructure agent that a user talks to over Telegram. It runs skills on a
host, watches services, metrics and web pages, asks before it repairs or changes something, and
keeps a long-term memory of what it is told. This directory holds TLA+ models of the parts of it
whose correctness depends on order, concurrency and failure, the TLC runs that check them, and
proofs for every value of the constants.

To check: `tlc -workers 2 -config <run>.cfg <module>` for each run of `PROJECT.json`, and
`tlapm <module>.tla` for each module whose name ends in `Proofs`.

## 1. Inventory

| Component | State it keeps | Operations | What makes it correct | Here |
|---|---|---|---|---|
| Memory job queue (`internal/memory/store.go`) | `memory_jobs` | enqueue, claim, complete, reschedule, park, reclaim, retry | one active job per source and kind; no job lost or worked on twice | `JobQueue` |
| Memory ingestion (`ingest.go`, `retrieve.go`, `openlight memory`) | `memory_sources`, `memory_chunks`, the points, the workers | Ingest, RememberText, the pipeline, retry and park, startup, `retry`, `reindex` | what is acknowledged is indexed or parked; what is completed can be found | `MemoryIngest`, `ArchivePromise` |
| Memory provisioning (`service.go`, `embed*.go`, `vectorstore`) | the model on the brain, the collection, widths that processes remember | pull, probe, create, drop | every creator ends with one collection of the model's width | `MemoryProvisioning` |
| Chunking (`chunk.go`) | none | `ChunkText` | no text lost, chunks of a bounded size, under their heading | `MemoryChunks` |
| Archive and extraction (`raw.go`, `extract*.go`) | files | Put, Extract | atomic files; errors classified | outcomes in `MemoryIngest` |
| Episodes and facts (`episodes.go`, `facts.go`, `distill.go`) | open episodes and turns, current facts | record a turn, close when idle, summarise, distil, supersede | one open episode per chat; only finished ones are summarised, whole; one current value per subject and predicate but for calls that meet | `MemoryEpisodes`, `MemoryFacts` |
| Prompt context and gate (`context.go`, `gate.go`) | none | `BuildContext`, `ShouldRetrieve` | the budget holds, nothing is told twice, no source crowds out the others | `MemoryContext`, `ChatPrompt` |
| Chat and think skills (`internal/skills/chat`) | the message log | save, retrieve, read the history, ask, cut, save | the question is asked once, a failure of memory costs no answer | `ChatPrompt` |
| Watches (`internal/watch`) | `watches`, `watch_incidents` | poll cycle, alert buttons, typed yes and no, add, pause, delete, packs | one alert per episode of a condition; cooldown; one restart per alert; recovery noticed | `WatchService` |
| Visual watches (`internal/visualwatch`, `imagediff`) | `visual_watches`, baseline pictures | capture, compare, alert, test | cooldown; changes that add up are told of | `VisualWatch` |
| Telegram transport (`internal/telegram`) | polling offset; Telegram's queue | poll, webhook, stop | each update handled once, in order, none lost | `TelegramIntake` |
| Agent process (`cmd/openlight/agent.go`, `internal/runtime`) | the parts it started | build, start, signal, wait, close | the exit code is true and the process ends | `AgentProcess` |
| Inline user interface (`internal/telegram/ui`) | input flows, one-shot confirmations | start, advance, claim, cancel, expire | a confirmation runs once, for its user, in time | `UISessions`, `OneShotConfirmation` |
| Request lifecycle (`internal/core`, `auth`, `voice`) | the pending clarification of a chat | authorise, press, answer, route, clarify, execute, reply | a dialogue takes its own answers only | `AgentRequests` |
| Routing (`internal/router`) | none | slash, explicit, shortcut, registry, rules, model | the model decides within bounds, never over a command | `Routing` |
| Skill registry (`internal/skills`, `external`) | names and aliases | register, resolve | a name stays with its first owner | `SkillRegistry` |
| Brain server and its clients (`internal/brain`, `llm`, `skills/remote.go`) | stubs, temporary files | serve, invoke, time out | work is done once, files go with their call | `RemoteCalls` |
| MCP client (`internal/mcp`, `skills/mcp`) | one pipe, request ids | handshake, call, time out | a call gets its own answer | `McpClient` |
| Local modules (`internal/localmod`) | timers | DailyAt, Every | once on every day | `LocalSchedule` |
| Service skills (`internal/skills/services`) | none | list, status, restart, logs, exec | acts once, reports on the right service | `HostServices` |
| Other skills, watch command parsing, configuration, CLI harness, smoke tests, deployment | none, or single rows | one call each | I/O, parsing, wiring | not modelled |

How they interact. `cmd/openlight/agent.go` builds the runtime, starts one goroutine for the
watch poller, one for visual watches, and `memory.Service.Run`, which starts the bootstrap, the
ingestion workers, the turn writer and the consolidator; then it hands incoming messages to
`core.Agent`, one at a time when polling Telegram, one goroutine each with a webhook. A message
goes through the user interface's session store, the watches, the pending clarification and the
router to a skill; chat skills ask memory for context. Handlers and background goroutines share
nothing but SQLite (and Qdrant) and the session store: every call is one statement or one short
transaction, and what lies between two calls is open to everyone else. `openlight memory ...` is
a second process on the same database. A brain node is another process over HTTP, which sleeps.

What is hard here: read-modify-write of whole rows by pollers and handlers; two writes that
belong together (watch and incident, status and job, points and chunks, baseline and row) with a
crash or a failure between them; retries that count what they should not, or repeat what has been
done; a queue shared by workers and processes; an operator's command in the middle of a job; a
button pressed twice; an answer that arrives after its caller gave up; values remembered by one
process and changed by another; errors that end a loop. `PROJECT.json` lists each such hazard at
its line.

## 2. Modules

Three groups, by the state they share: memory's tables; the watches' tables; and everything else,
where every component has its own state. `Faults` is the fault model most of them extend: kinds
of events (`Events`, what a run allows) and how many (`MaxEvents`). Definitions marked `Faulty:`
are plausible bugs of the definition after them, kept to show that each property notices one; the
specification does not use them.

### JobQueue
One SQL statement per operator, `jobs` a function from row ids to rows. Abstractions:
`next_retry_at` is the Boolean `due`; `attempts` saturates at `MaxAttempts`, the only value it
is compared with; among due rows any may be claimed, since which is the oldest depends on clock
values that are not kept; ids of deleted rows may be reused, which is unobservable because only
the worker holding a job deletes it. `permanent` is a history field.

### MemoryIngest and ArchivePromise
Extends the queue with everything that uses it.

| TLA+ | Code |
|---|---|
| `sources`, `chunks`, `jobs` | the tables of memory.db; a source is its content hash |
| `index`, `collection` | the points in Qdrant and the collection itself |
| `arriving` | calls of `Ingest` and `RememberText` between two of their writes |
| `worker[w]` | the local state of a worker between two steps of `processNext` |
| `cli` | a running `openlight memory reindex` |
| `up` | the backends that answer |
| `acked` | history: `Ingest` returned without an error |

`buildChunks` draws new ids in every run, so a run is a *generation*; `chunks[s]` is the stored
one and `index[s]` the set of those with points. Each stage of the pipeline is one action with
its failures; `Outcome` says what may come out of a source's extraction, and includes
`raw_missing`. `Settle` leads to the three endings of a job; parking is two writes, hence two
actions. A failed write (`write_failed`) has the effect the code gives it: logged and forgotten,
ignored, or reported to the caller. Commands that fail part-way are covered by `Interrupt`.
`ArchivePromise` is the abstract specification: an item goes from unknown to owed, to indexed
or parked, a parked item may be owed again, an indexed one stays indexed. `KeepsPromise` says
that ingestion implements it under the mapping `Fate`.

### MemoryFacts
`RememberFact` in its three statements: `Lookup`, `Supersede`, `InsertFact`; `remember[r]` holds
the locals of goroutine `r`'s call between them. A key is a normalised pair of subject and
predicate. Ids are numbered in the order in which calls draw them, which is that of
`valid_from`. Nothing keeps two calls from being under way at once (an ingestion worker and the
handler of "remember a.b = v", two workers, two webhook handlers); the history variable `met`
counts, for each key, the calls that began while another one about it was under way.

### MemoryEpisodes
Extends `JobQueue` and `MemoryFacts`.

| TLA+ | Code |
|---|---|
| `channel` | the buffer of `Service.turns`, as a number of turns |
| `episodes` | `EpisodesInv` (with the types), `SummariesWhole`, `FewCurrent`, `HistoryRuns` | one worker, one fact, 4 turns, 2 episodes; or two message handlers that remember 4 facts of 2 keys at once; two crashes, failed writes, outages or retries |
| `closer["writer"]`, `closer["consolidator"]` | `writeTurn` and `consolidateIdle` between two of their statements; both run `closeEpisode` |
| `worker[w]` | `runSummarizeJob` between two of its steps |
| `digests`, `distilled`, `full` | history: the turns each archived summary was made of, what a job has dealt with, the turns at the first close |

One chat is modelled: chats share only the queue and the workers. A summary is what `Distill` is
handed; the trimming of its text to 1500 tokens is left out, and what becomes of the archived
summary is `MemoryIngest`'s subject. A distillation yields at most one fact.

### MemoryProvisioning
The bootstrap loop, the worker's lazy `EnsureCollection` and `openlight memory reindex --all`
from another process, statement by statement: `HasModel`, `Pull`, `ConfirmModel`,
`VectorDimensions`, `CollectionExists`, `CreateCollection`. `where[who]` is where each of the three
stands and `held[who]` the width it took; `cache` is what each process remembers
(`Service.dimensions`, the embedder's). The brain sleeps, loses its model and is given another
one; Qdrant stops, and its volume may be wiped. A pull may answer 200 and do nothing, which is
why the code looks again. The model on the brain changes before the rebuild only.

### MemoryChunks, MemoryContext
`ChunkText` and `BuildContext` are loops over data and are modelled as such, one line, block,
sentence, word, piece, fact or result a step. In `MemoryChunks` the words of a document are numbered,
so that "nothing is lost" is that every chunk is a passage and consecutive chunks meet; a text is
its words and its runes. `loop` is the loop `ChunkText` and the functions it calls are in:
`splitBlocks` (`LookAtLine`, `gathered`), the loop over the blocks (`OpenSection`, `AddParagraph`,
`CutParagraph`), `splitOversizedBlock` and `splitWords` (`PackSentence`, `PackWord`, `cut`), and
the pieces that become chunks (`EmitPiece`). The words of a document are of one length and in Latin
letters. A line of text ends a sentence: one that runs on into the next line reads and
weighs the same when the two are written as one, since a line break is a rune as a space is.
In `MemoryContext` a text is its size in narrow and in wide runes (`tokenCounter` counts four and
two to a token); ranking with the tilt by age, duplicates by key, chunk, source and opening, and
the cut of a text to what is left are operators.

### ChatPrompt
Several questions of one chat at once, each through the stages of `Skill.Execute` or
`ThinkSkill.Execute`: the message is saved before it is answered, the gate decides on retrieval,
each stage of which may fail, the history is read, fitted and given to the model, the answer is cut
and sent. A text has the traits the gate looks at; `stored` differs from its name where the log
redacts. `via` is who runs the skill:

- `"agent"`: `executeSkillAndReply` or `runFreeChat`. `request_timeout` bounds the whole request,
  and the deadline `MemoryPrompt` sets within it is of the same length (`runtime.go:599`), so it
  passes no sooner: `RequestEnds` while memory is looked up fails every call that comes after. What
  is sent is saved, the reason for having no answer too.
- `"flow"`: `UI.runSkill`, after a bare `/chat` or its button. There is no deadline but the one of
  `MemoryPrompt` (`RetrievalEnds`), the skill is not told what was typed (`Raw`), and nothing of
  the answer is saved.

### WatchService
The poller's cycle, statement by statement (expire, list, probe, and for each watch the
branches of `processWatch`), and the message handlers. `poller.row`, `poller.inc`,
`handler[h].row` and `handler[h].inc` are the copies that the code reads, modifies and writes
back as whole rows: the point of the model. `Handlers` with one element is polling mode, with
two webhook mode.

Abstractions. Time is counted in ticks and 0 is the zero time. A watch's reaction mode is a
constant (`Mode`): a pack may change it, which is left out. `ask` and `auto` watches are service
watches; the actions of other kinds change nothing but "ignore". The Status and Logs buttons
write nothing and are left out. A removed incident keeps its index with the status "gone". The
two reads of one incident in `processWatch:527-532` are one step. The expiry of incidents takes
them in any order.

### VisualWatch
One row, one baseline file, and two evaluators that may overlap: the poller and the skill
`visual_watch_test`, each with its own copy of the row (`eval[p].row`), written back whole at the
end. How a page looks is a number; a baseline may be missing or torn (a crash inside
`copyFile`). `told`, `sinceAlert`, `swallowed`, `troubled`, `tooSoon` are history: what the chat
has been shown, and why it may differ from what the row says.

### UISessions, OneShotConfirmation, AgentRequests
`UISessions` is the store under its mutex, one operator per method: input flows, mutations under
a token with owner and lifetime, expiry, loss on restart. `AgentRequests` extends it with one
handler per message and one action per step of `HandleMessage` between two calls of the store or
the database: attachments, authorisation, each kind of button (`PressSkill` ... `PressCancel`),
the input flow (`Peek`, `Answer`, `Finish`), watch answers, the pending clarification (`Route`,
`LoadQuestion`, `ClearQuestion`, `Clarify`), execution and reply. `mode` is "polling" or
"webhook". `ran`, `confirmer`, `loaded` are history. `OneShotConfirmation` is the promise of a
Confirm button - offered, accepted or withdrawn, and done once after it was accepted - and
`KeepsConfirmation` that the requests implement it under the mapping `Status`.

### TelegramIntake, AgentProcess
`TelegramIntake` has Telegram's queue on one side and the goroutines on the other: `offset` is in
memory only, an answer of Telegram may be lost, a handler may fail, an update may be one the bot
ignores; the webhook's server may end with an error (`ServeFails`), and `Poll` with it. `AgentProcess` extends it with the process around it: `BuildSteps` in order, each of
which may fail and closes what was built, the workers, a signal, the waits with their timeouts
(`AwaitOrder`), `Close`, and the service manager that starts it again after an error.

### SkillRegistry, RemoteCalls, McpClient, LocalSchedule, HostServices, Routing
- `SkillRegistry`: `Register` with its partial effects, over all origins in the order of
  `BuildRegistryWithWatch`; which refusals end the start and which are skipped.
- `RemoteCalls`: calls of an edge to a brain that starts in stages and may crash; what each
  caller makes of each outcome (`Told`); temporary files on the brain.
- `McpClient`: requests and answers as lines on one pipe; a call that times out leaves its
  reader behind; notifications; a server that dies.
- `LocalSchedule`: `nextDaily` over a local clock that is put forward or back once, in hours of a
  short day.
- `HostServices`: the configured list and its validation, and a request as the sequence of
  commands it runs - second attempts with legacy compose, sudo, another format, another
  connection - each with an outcome and perhaps an effect.
- `Routing`: the order of the deterministic stages over texts of a small vocabulary, the two
  stages of the classifier with any answer of the model, heuristic rescue, clarification and
  arguments. A few members stand for each phrase table.

### Instances, composition and proofs
`MCMemoryIngest`, `MCMemoryEpisodes`, `MCWatchService` and `MCChatPrompt` give constants their
values. `MCMemoryArchive` adds to `MCMemoryIngest` the history of whether a full rebuild has begun.
`MCMemoryEpisodes`, `MCMemoryLive`, `MCComponents` and `MCLive` put components, or scenarios of one,
side by side in one run: a behaviour belongs to the *part* chosen in `Init`, and the variables of
the other parts stay as they are. This is sound because the parts share no state; where
components do share state they are composed by EXTENDS and interleave (queue with ingestion, and
with episodes and facts; session store with requests; intake with process). `MCComponents` extends
the parts whose names do not meet; each keeps its own variables, at rest while it is another's
turn. Only the watches are instantiated, with `v1` ... `v9` for variables. `MCLive` extends
`AgentProcess` and `VisualWatch` and instantiates `MemoryProvisioning`.

Proofs are kept apart from the models: `JobQueueProofs`, `MemoryIngestProofs`,
`MemoryEpisodesProofs` (with the facts), `WatchServiceProofs`, `AgentRequestsProofs`,
`AgentProcessProofs` (with the intake), `PromptProofs` (what is made of texts: `MemoryContext`,
`ChatPrompt` and `MemoryChunks`) and
`ComponentProofs`, one section for each of the smaller components.

## 3. Runs

| Run | Checks | Instance |
|---|---|---|
| `archive` | `IngestInv` (with the types), `OneRunPerSource`, `KeepsPromise`, `CompletedUntilRebuilt`, `SearchableUntilRebuilt` | one item to be remembered (an indexing and an extraction job), 2 workers, two events of any kind |
| `memory_live` | `NoStuckRunning`, `EventuallyIndexed`, `EventuallyDistilled` | one worker, fair, two events; and 3 turns, 2 episodes, one event |
| `episodes` | `EpisodesInv` (with the types), `SummariesWhole`, `OneCurrent`, `HistoryRuns` | one worker, one message handler, 4 turns, 2 episodes, 2 facts of one key, two crashes, failed writes, outages or retries |
| `watch` | `RestartsOnce` (with the types) | one watch that asks, added in the run; one handler with buttons, pauses, packs and removal; crashes, failed writes and sends; four events |
| `watch_recovers` | `WatchesHold`, `EventuallyReported`, `EventuallyRecovered` | automatic recovery, a cooldown of two ticks, two faults, punctual poller |
| `components` | the safety of 12 other components, and of the poller over two watches | below |
| `live` | what process, intake, visual watch and provisioning must do in the end, and their invariants | two updates, one of them ignored, 3 configurations, two faults; a page that changes twice; one model |

`components` has, for each part, what is hard for it: two handlers, three users of whom two are
allowed, three messages, two tokens; every clash of names between two origins; two remote calls of
all five kinds; three MCP calls and two faults; four days with the clock changed on
the second; five lists of services, two of which must be refused; texts of three words out of
twelve; documents of four lines out of eight kinds; fact and result lists at both ends of the
budget; two questions, run by the agent or by the flow, with redacted, reset and over-long texts; one page change with overlapping
evaluations; two models of different width with two faults; two watches (ask, auto), one added or
removed in the run, with two faults and a cooldown of two ticks of three. Requests, remote calls,
pages and questions see one fault (`OneFault`), the others two. Its properties:

| Property | Of | Says |
|---|---|---|
| `ConfirmedByOwnerOnce`, `KeepsConfirmation` | `AgentRequests` | a stored call is made at most once, after its owner's Confirm |
| `DialoguesHold` | `AgentRequests` | buttons ask before they run; a flow collects every field; commands escape; a question is used once |
| `EdgeCallsHold` | `RemoteCalls` | work is done once, what is reported was done, and no file is left without a fault |
| `ToolCallsHold` | `McpClient` | an answer is the one to that call; without faults calls are read in turn |
| `ScheduleHolds` | `LocalSchedule` | no day without a run, none with two where the clock is not changed |
| `RoutingHolds` | `Routing` | the model stays within the group it was sure of, and never decides what is a command |
| `ServicesHold` | `HostServices` | one effect per request; what is told was found out about that service |
| `ContextHolds` | `MemoryContext` | the block keeps its budget but for rounding; no duplicates; a fair share for each source |
| `ChunksHold` | `MemoryChunks` | no word lost, sizes bounded, headings right |
| `ChatHolds` | `ChatPrompt` | own question once where the agent runs it, history within its limits and without a gap where it fits, memory failures cost no answer |
| `VisualCooldownKept` | `VisualWatch` | alerts are a cooldown apart |
| `TwoWatchesHold` | `WatchService` | `WatchesHold` of two watches: alerts are a cooldown apart; an open incident is its watch's only one, and the watch knows |
| `ProvisioningHolds` | `MemoryProvisioning` | three creators of the collection never fail each other |
| `RegistryHolds` | `SkillRegistry` | names keep their owner, aliases lead to skills, core commands are there |
| `PartsTypeOK` | all | types |

Sizes: `memory_live` has 93 thousand states, `live` 205 thousand, `watch_recovers` 408 thousand,
`episodes` 1.3 million, `components` 1.9 million, `watch` 3 million, `archive` 4.1 million, one to
three minutes each. Symmetry (workers, goroutines, values, allowed users) is used in safety runs only.
Deadlock is not checked: with the bounds on events and on the clock the system may come to rest.

**Bounds.** `MaxEvents` bounds crashes, outages, failed writes and sends, messages and commands
together; `Events` says which kinds a run allows. Two events are enough for each disagreement
found below, and the messages to one watch have four: its creation, two buttons and a fault between them.
`MaxAttempts` is 2, the least value that tells a retry from giving up. One item is enough for
`archive`: every table and every guard of ingestion is by source, and what its two kinds of jobs
share is the item. Three job ids hold one active and two parked rows of a kind; four generations
exceed the runs that two workers and two events can leave alive. `MaxTime` lets an incident open, its cooldown (1 or 2 ticks) pass
and another one open; `MaxIncidents` is never the obstacle to the properties checked, since an
incident beyond it could only open later. Of the episodes, four turns with `MinTurns` 2 and
`MaxTurns` 3 make one episode full and another one idle, or leave a turn that arrives late; a
buffer of two overflows. Four facts let two handlers meet about one key, and a later call find what
they left. Three messages are
the request, its Confirm and a second press; two tokens let a call be confirmed while another
waits.

**Fairness.** Workers loop on a timer and claim due rows in the order of `next_retry_at`, and a
retry moves a row to the back: weak fairness of a worker's step, strong fairness of the claim of
a row. Timers fire, a handler goes on, a service manager restarts an agent that failed
(`Restart=on-failure` in `deployments/systemd`), a backend that is away comes back. The poller is a loop and the clock
goes on: weak and strong fairness. `Punctual` says that a cycle ends within a tick; it is assumed
where a property speaks of durations. `bootstrapLoop` and the visual poller are timer loops, and
each of their calls has a deadline: weak fairness. Of the process: builds and closes come to an
end, workers return when their context is cancelled, and an exit with an error is started again. No
fairness is assumed of users, of the watched condition or page, of signals or of faults.

### What the code does differently from its documentation
Each of these runs ends in a counterexample; the finding in `PROJECT.json` quotes the line.

| Run | What happens |
|---|---|
| `ingest_v_transients` | outages count towards `max_attempts`: after some, one hard failure parks the job |
| `ingest_v_retry` | a source parked twice makes `memory retry` fail for everything |
| `facts_v_two` | two calls of `RememberFact` at once leave two current values of one key |
| `prompt_v_memory` | retrieval that runs out of time costs the answer: its deadline is the request's |
| `watch_v_pause` | the poller writes an old row back and undoes a pause |

More that the models contain and no run is spent on:

- `buildChunks` draws a new id for every chunk of every run (`ingest.go:325`), so after a crash
  between `Upsert` and `ReplaceChunks` the points of the first run stay in the index, although
  docs/MEMORY.md:81 calls point ids stable and a re-run idempotent. The error of a brain that is
  offline is not among the transient ones (`ingest.go:182`), so the extraction of a remembered
  text is parked after `max_attempts`, although docs/MEMORY.md:143-144 says that it catches up.
- `memory reindex --all` drops the collection, although docs/MEMORY.md:261 says that a reindex
  only enqueues work. After a change of model a worker may create it again in the width its
  process remembers, between the rebuild's drop and its creation; upserts then fail as transient
  until the agent is started again.
- `nextDaily` adds 24 hours: on a day of 25 hours a job planned after midnight gets a time that is
  not "strictly after now" (`scheduler.go:81-88`) and runs again at once.
- `agent.go:355-357` says that a pending clarification is always cleared on the way out; an error
  of the router leaves it, and so does a message that is not taken for its answer.
- `Client.call` (`mcp/client.go:33-36`) leaves a reader on the pipe when it times out; the next
  call and the reader then take each other's lines, and a notification has the same effect. The
  id is compared, so the effect is an error and never a wrong answer (`OwnAnswers`).
- A second attempt of compose follows from the text of an error (`services/manager.go:1050`), which
  may be the container's own; `exec` then runs twice. `RunsOnce` is stated with that exception.
- The text of a 500 from the brain that mentions a refused connection is told as "offline"
  (`llm/remote.go:64-66`).
- The budget of `BuildContext` is called hard (`context.go:18-19`); the block exceeds it by the
  rounding of its lines. `SmallOverrun` states how much, and is proved.
- `/note delete 3` (docs/SKILLS.md:141) saves a note "delete 3": a slash command is its first
  word only (`router.go:220-234`).
- External skills "register last so a builtin module can never be shadowed" (`runtime.go:604-606`);
  the core module registers after them, so a manifest named `help` takes the name first and its
  clash with the core ends the start. So do two MCP tools whose names normalise to one.
- "Skip the just-persisted raw input" (`chat/skill.go:176`): the messages are compared with the
  question as typed, so where the log redacted it the question is put twice. The input flow passes
  no raw text (`ui.go:537`), so after a bare `/chat` or its button every question is put twice.
  `OwnQuestionOnce` excepts both.
- A visual change within the cooldown becomes the baseline and is never told of
  (`visualwatch/service.go:231-264`); it is `swallowed` in the model.

### What the passing runs leave out, and why
A property is checked under every kind of event that does not break it; the kinds left out do
break it, and adding them to `Events` of the run gives the counterexample.

- `CompletedUntilRebuilt` and `SearchableUntilRebuilt` are silent after a full rebuild: the
  collection is dropped under a job past its upsert, whose enqueue the active row swallows; the
  source ends completed and not in the index. Workers, crashes and all other properties of
  `archive` go on through the rebuild. Two sources at once are not in the run; what holds of any
  number of them is proved.
- `NoStuckRunning` with `write_failed`: the row of a job whose last write failed stays running
  until the next start (`ingest.go:143`).
- `EventuallyDistilled` after a crash or a failed write: between closing an episode and queueing
  its job (`episodes.go:102`) either leaves a closed episode that nothing looks for again.
  `SummariesWhole` counts these: a failed write forgets one, a crash two at most. In the same way
  a fault between closing a fact and inserting its successor leaves a key without a value, which
  `HistoryRuns` counts.
- `FewCurrent` and `HistoryRuns` count calls that meet: such a call may leave a current value more
  (`facts_v_two`), or be replaced by one that started earlier.
- `MemoryCostsOnlyTime` (of `ChatHolds`) excepts the time retrieval takes where the agent runs the
  skill: `prompt_v_memory`.
- `EventuallyIndexed` speaks of no failed writes to the queue: after one the row stays running until
  the next start.
- A late `CloseEpisode` of the consolidator may take an episode from summarized back to closed
  and clear its link; the job it queues distils it again. A turn appended after the job has read
  the episode is in no summary. Neither contradicts a property above.
- `WatchesHold` (its `CooldownKept`) with `toggle` or `pack`: the handler writes back the row it read before the
  poller triggered, and the old `last_triggered_at` with it.
- `WatchesHold` (its `OpenIsKnown`) with buttons, and `EventuallyRecovered` with them: the
  result of an action is written over the poller's resolution and the incident is open again, its
  watch clear.
- `RestartsOnce` with `yes`: a yes typed before the prompt is stored sets running, the poller's
  copy sets pending again, and the button restarts once more; with two handlers (webhook): two
  taps both read pending.
- `EventuallyReported` after a crash: between marking the watch open and creating the incident
  a crash silences the condition. The property is stated for behaviours without events.
- `EventuallyRecovered` with `restart` and `crash`: the action stays running for ever, and so does
  the watch stay open. With `send_failed` or `db_failed`: an expiry notice that cannot be sent, or
  a listing that fails, ends `Run` for the life of the process.
- `FieldsComplete`, `CommandsEscape`, `QuestionUsedOnce` speak of polling: two webhook handlers
  may answer the same field of a flow, or both load the one question.
- `UpdatesKept` speaks of polling, and of each setting of `drop_pending_updates` by itself; a
  webhook answers 200 before the handler runs, so a crash loses the update.
- `CleanExit` does not say that the exit comes without an error: a shutdown that times out, or a
  poller that failed long ago, is reported at the end only.
- `NoDayMissed` excepts runs that last over their next time and, when the clock is changed, jobs
  whose hour is next to midnight; it speaks of the day of the start only when the job's hour is
  still to come (`Expected`).

## 4. Proofs

**Ingestion.** For any sets of sources, workers, job ids and generations, any outcomes and any
number of events, from `MaxAttemptsAssumption` and `IngestAssumption` only:

- `IngestInvariant`: `Spec => []IngestInv`. The properties are not inductive as they stand.
  That no source is run twice at once needs that a busy worker holds a *running row* of the
  queue (`HeldRows`), that no two hold the same one (`HeldApart`), that a crashed agent holds
  none (`DownIdle`, which makes the reclaim at startup safe) and that active rows are unique
  (`ActiveUnique`). That acknowledged items are kept needs that chunks exist whenever a job
  ends well (last conjuncts of `HeldRows`) or a source is completed (`CompletedHasChunks`).
- `TypeCorrect`, `NoConcurrentRuns`, `AcknowledgedKept` (`AckedKept`, a part of `IngestInv`) follow
  from it.
- `PromiseKept`: the refinement. Every step maps to a lawful change of each item or a stutter;
  the lemmas say which changes of the queue keep rows (`KeepsRows`) and when chunks may appear.
- `CompletedSearchable`, `SearchNeverLost`: with no full rebuild among the events the stored
  generation stays in the index, because the points are there before the chunks are replaced.
- `NoneStuckRunning`: with no failed writes, the reclaim at startup leaves no orphan.

`JobQueueProofs` has the lemmas on the statements: each keeps the types and the unique active row.

**Conversation memory.** For any workers, episodes, job ids, limits, keys, values and goroutines
that remember, and any number of turns, calls and events, from `MaxAttemptsAssumption`,
`FactsAssumption` and `EpisodesAssumption`:

- `EpisodesInvariant`: `Spec => []EpisodesInv`. That only closed episodes are queued needs that
  whoever is about to queue one has closed it (`ClosersHold`), which holds because no statement
  opens an episode again (`ClosedStays`, shown of every action). That a worker's statements hit an
  existing row needs `WorkersHold`: an episode and a job are known from the claim on. One
  open episode: `OpenEpisode` inserts only when its query found none, and only the writer inserts.
- `OneEpisodeOpen`, `OnlyClosedQueued`, `LinksArchived` follow from it.
- `SummariesAreWhole`, from `SummaryInv`. Episodes stay bounded because an open one is a turn short
  of its bound unless the writer is about to close it, and losing that intention costs a fault
  (`GrowthInv`, `WriterStays`). Summaries are whole because a worker's episode is closed, which no
  step undoes, has at least the turns of its close, and what a worker has read covers them
  (`WholeInv`); turns appended after the close, a late write of the writer, only add to it.
  No more closed episodes are forgotten than twice the faults (`FewForgotten`): a worker's job is
  its own, running and about its episode (`JobsHeld`), so the only row that goes is one whose
  episode has been distilled; what a crash forgets is what its two closers were about to queue.
- `FewCurrentValues`, `HistoryRunsForward`, from `FactsInv`, however calls overlap. The current
  values of a key and the calls about it that are under way are counted together (`Weight`): a call
  that finishes turns from one into the other or closes a row, so only a call that begins beside
  another one adds to the sum, which `met` counts. Before the first of such calls closes a row there
  is one more (`NothingClosed`), which that closing takes. What a call is about to replace has
  another value than its own, and what points to it was replaced by it, also when it dies between
  the two writes; where no two calls met it is the latest of its key (`CallHolds`, `MetApart`).
  A key that had a value and has none, with nobody about to insert one, is lost: only the end of a
  call at its insertion loses one, which takes a fault (`LostKeys`, `LossStep`).
  This is shown for any surrounding steps (`FactsChange`), and `NextChangesFacts` says that
  those of `MemoryEpisodes` are such.

**Confirmations** (`AgentRequestsProofs`). For any handlers, users, skills, tokens and questions,
any number of messages and faults, in both modes, from `RequestsAssumption`, `SessionsAssumption`
where it is needed, and `FaultsAssumption`:

- `RequestsInvariant`: `Spec => []RequestsInv`. `ConfirmedByOwnerOnce` needs `ClaimsHeld`: the
  call behind a claimed token is in the hands of one handler, which has not made it, and a token
  that is not claimed has never run. That a handler's step knows its token, owner and skill is
  `Carriage`, and that buttons ask is `ButtonsAsk`.
- `RequestsTypeCorrect`, `ConfirmedOnce`, `ButtonsConfirm` follow from it.
- `ImplementsConfirmation`: the refinement of `OneShotConfirmation`. A step changes the status of
  a token only by a lawful edge; claiming is the one that needs the claim's mutex
  (`ClaimMutation` tests and sets in one step), running the one that needs the invariant.

- `DialoguesKept`: `Spec => []DialoguesHold`. What it says of fields, commands and questions is
  about polling, and rests on `Alone`: in that mode one handler at a time is under way, so that
  the flow it peeked at is the one it answers (`FlowFits`), and the question it loaded is the one it
  clears unless a write fails (`QuestionFits`); `HandlerFits` says what a handler carries.

**Process and intake** (`AgentProcessProofs`). For any finite set of updates, configurations and
order of waits, from `IntakeAssumption`, `ProcessAssumption` and `FaultsAssumption`:

- `PollingKeepsUpdates`: `ProcessSpec => []UpdatesKept`. Updates arrive in order
  (`ArrivedInOrder`), the batch in hand lies at the offset and beyond (`BatchAhead`), and what this run
  has begun lies right before it (`OffsetBehind`). Where the backlog is kept, an update before the
  offset that Telegram still has was handled or is being handled (`KeepsBacklog`); where it is
  dropped, everything there is arrived in this run (`DropsBacklog`).
- `ProcessEndsClean`: `ProcessSpec => []ProcessInv`. A stage of the process determines which parts
  may still run (`PhaseFits`); an exit without an error has waited for each of them (`EndsClean`).

**Documents and prompts** (`PromptProofs`). For any documents, targets and overlaps, lists of facts
and results, questions, texts, answers and limits, from `ChunksAssumption`, `ContextAssumption`,
`ChatAssumption` and `FaultsAssumption`:

- `ContextTypeCorrect`; `ContextBudget`: the block exceeds its budget by at most what rounding down
  the tokens of each line can hide, from `ContextInv`, which relates what was paid to the size of
  what was written (`Paid`).
- `ContextKept`: `ContextSpec => []ContextHolds`. With that, a cut text fits, a document has two places at
  most, no opening appears twice, results keep the order of their rank.
- `PromptKept`: `ChatSpec => []ChatHolds`. `ChatIInv` has, for each question, what its stage
  knows (`PromptFits`), and that the log holds of a question only its own text and answers
  (`Spoken`). The choice of the history is a recursive function; that the function exists and that
  each step of it keeps what has been chosen within the limits, in order and without gaps
  (`WellChosen`, `ConsiderKeeps`) is carried over its domain by least elements (`Reaches`,
  `RunExists`, `PassChooses`). Lost answers and what retrieval missed are counted together against
  the faults (`Costs`): an answer counts as lost as soon as the agent's request is late, and what
  retrieval then lacks for time is not counted again.
- `ChunksKept`: `ChunksSpec => []ChunksHold`, from `ChunksInv`. That no word is lost needs to know
  where the words are that are in no chunk yet: gathered in a paragraph (`Gathering`), in the chunk
  being filled (`Filling`), or in the pieces, the open piece and the rest of the paragraph that is
  cut (`Pieced`, `Progress`), always one passage that begins where the last chunk ends. Sizes follow
  from costs: a text of cost c has less than 9 c runes, rounding included; a chunk over its target is
  a paragraph or a piece and the tail of the chunk before (`TailSmall`, `PieceSmall`; a word may
  cost more than the target by itself). A chunk is filed under its headings because the path is that of the headings read
  (`Sectioned`), which is where nested levels are needed, and because what comes later begins
  behind the chunk (`Rising`).

**The smaller components** (`ComponentProofs`). Each from its own named assumption and, where it has
faults, `FaultsAssumption`; for any number of them.

- `EdgeCallsKept` (`RemoteCalls`), from `CallsIInv`: a call that is on its way has work left
  (`CallFits`), and the files on the brain are at least those of calls it is handling (`Holding`),
  exactly those as long as there was no fault.
- `ToolCallsKept` (`McpClient`), from `McpIInv`: calls come after the handshake (`InSequence`), what a
  caller accepts bears its id (`OwnAnswers`), and without faults the one goroutine that reads belongs
  to the one call that waits (`OneAtATime`).
- `VisualAlertsApart`, `DriftIsSeen` (`VisualWatch`), from `VisualIInv`. As long as evaluations
  neither overlap nor lose their row (`Untroubled`), the copy an evaluation works on knows of the last
  alert (`Dated`), and the baseline differs little from what the chat saw, except between an alert
  and the copy of its picture (`AsShown`, `Fits`).
- `CreatorsAgree` (`MemoryProvisioning`), from `ProvisioningIInv`: as long as brain and Qdrant are
  left alone (`Undisturbed`), every width that is remembered or held is that of the model (`Sound`).
- `RegistryKept` (`SkillRegistry`), `ServicesToldRight` (`HostServices`), `RoutingKept` (`Routing`;
  what the stages before have ruled out is `NothingSoFar`, and the model's group `SureOfGroup`).
- `RoutesToSkills` (`Routing`), from `RoutingAssumption` and `RoutingTIInv`: a decision is for a skill
  the router knows, whether a stage (`DeterministicSkill`), the phrases (`SuggestedSkill`) or the
  model takes it.
- `TypesKept`: the types of the others, each a conjunct of its inductive invariant but for the
  schedule, whose types are inductive by themselves. `PromptTypesKept` has those of the prompt.
- `ScheduleKept` (`LocalSchedule`), from `ScheduleIInv`: the plan lies ahead (`PlannedAhead`), what
  ran lies behind (`RanBefore`), every day in between has its run (`Covered`) and one only
  while the clock stays (`OncePerDay`).

**Watches** (`WatchServiceProofs`). For any watches, reaction modes, handlers, durations and
bounds, and any number of faults, from `WatchAssumption`:

- `WatchTypeCorrect`: a copy that a poller or handler will write is one of a row that is there.
- `RestartsAtMostOnce`, with one handler (`OneHandler`) and no typed yes (`NoTypedYes`): the
  restart is written before it runs (`RestartDecided`); the write that could take it back, the
  poller's copy at the prompt, comes before the alert whose button asks (`PromptFirst`), and a
  handler about to take a restart finds none made before it (`TakerIsFirst`).
- `AlertsCooldownApart`, where no message writes the row of a watch (`NoRowWrites`: no pause, no
  pack; removal and creation are allowed). The poller's copies are then those of the table
  (`FreshInv`), incidents are no later than the `last_triggered_at` of their watch (`DatesKnown`),
  which is written first, and whoever is about to create one has waited (`CreateApart`).
- `OpenIncidentsKnown`, where also no alert is answered (`NoAnswers`): a watch is marked before
  its incident is created and cleared after it was resolved (`LocalOpen`), and what the poller
  writes back as open is open or gone with its watch.
- `WatchesKept` puts the last two together, as `WatchesHold`.

Each hypothesis leaves out a kind of message with which TLC finds a counterexample (section 3).

Only model-checked:

- liveness (`Eventually...`): fairness and ENABLED are out of the prover's reach;
- `PartsTypeOK` and `TwoWatchesHold`, as properties of the parts side by side in `MCComponents`. What
  they say of each part is proved of its own specification: the types by `RequestsTypeCorrect`,
  `ContextTypeCorrect`, `RoutesToSkills`, `TypesKept`, `PromptTypesKept` and `WatchTypeCorrect`, the
  two watches by `WatchesKept`, of which they are an instance.

The functions of `ChatPrompt` and `MemoryContext` are recursive functions, for which induction can
be done through least elements; what a fold of the library computes could not be reasoned about,
since its facts take an operator as parameter. The loops of `ChunkText` are steps for that reason.

## 5. Not modelled, and why
Text: extraction of file formats, rendering, redaction, prompts, watch commands, the phrase
tables and scores of routing (a few members stand for them). I/O with one call and no state of its
own: system, file, browser, vision and account skills, notes, voice transcription as such, status
pages. Wiring: configuration, CLI harness, smoke tests, deployment. Of modelled components:
the pack's change of a watch's reaction mode and packs that create watches twice, `Forget` of a
source or a fact (no caller), the 30-second cache of health reports, the split of long messages and
file transfers, the text of logs. `PROJECT.json` gives the reason for each component.
`/watch test` only evaluates the watch (`ProbeWatch`), although docs/WATCHES.md:97 calls it a
synthetic incident that exercises the alert path; nothing there changes state.

## 6. Plan

1. (done) `JobQueue`, `MemoryIngest` with `ArchivePromise`, and their proofs.
2. (done) `WatchService`, and the proofs of its safety invariants.
3. (done) `MemoryFacts` and `MemoryEpisodes`, and their proofs.
4. (done) `UISessions`, `AgentRequests` with `OneShotConfirmation`, and their proofs.
5. (done) `TelegramIntake` and `AgentProcess`; `VisualWatch`; the calls between processes;
   registry, schedule, services, routing, chat, chunks, provisioning; `MemoryContext` with proofs.
6. (done) Proofs of dialogues, process and intake, chat, watches together, and of every small
   component.
7. (done) The chunker with its loops as steps instead of folds, and the proof of `ChunksHold`.
8. Packs in `WatchService` that create watches and change their mode.
