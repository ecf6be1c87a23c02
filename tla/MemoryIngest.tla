---------------------------- MODULE MemoryIngest ----------------------------
(***************************************************************************)
(* Ingestion of the long-term memory (internal/memory): the callers of     *)
(* Service.Ingest and RememberText inside the agent, the ingestion workers *)
(* with their persistent queue, the chunk table and the vector index, and  *)
(* the separate `openlight memory` process that retries and reindexes      *)
(* against the same database.  A source is identified by its content hash  *)
(* (memory_sources has a UNIQUE index on it).                              *)
(*                                                                         *)
(* Every pipeline run of a source draws fresh chunk ids (buildChunks calls *)
(* newID), so a run is a "generation" of that source: chunks[s] is the     *)
(* generation SQLite holds, index[s] the generations whose points Qdrant   *)
(* holds.                                                                  *)
(*                                                                         *)
(* Environment events (crash of the agent, interruption of the CLI, an     *)
(* outage, a lost answer, a failed write, an operator's command) are       *)
(* bounded by MaxEvents, each kind enabled by its membership in Events.    *)
(***************************************************************************)
EXTENDS JobQueue, Sequences

CONSTANTS
  Sources,      \* content hashes the environment may hand to Ingest
  Remembered,   \* those that arrive through RememberText (explicit "remember")
  Workers,      \* ingestion workers, 1..4 in the code
  Gens,         \* generations of one source: bounds the pipeline runs alive at once
  NoGen,        \* "no chunks"
  NoJob, NoSource,
  Outcome,      \* [Sources -> SUBSET {"ok", "unsupported", "error", "raw_missing"}]
  Events,       \* kinds of environment events a run allows
  MaxEvents     \* how many of them in one behaviour

ASSUME IngestAssumption ==
  /\ Owners = Sources /\ Kinds = {"ingest", "facts"}
  /\ Remembered \subseteq Sources
  /\ NoGen \notin Gens /\ NoJob \notin JobIds /\ NoSource \notin Sources
  /\ MaxEvents \in Nat

Backends == {"embedder", "vectors", "brain"}

VARIABLES
  sources,     \* memory_sources.status by source, "absent" when there is no row
  chunks,      \* memory_chunks: the generation a source's rows belong to
  index,       \* Qdrant: the generations of each source that have points
  collection,  \* the Qdrant collection exists
  agent,       \* "up" or "down"
  arriving,    \* Ingest / RememberText calls in flight: what they do next
  worker,      \* the workers' local state
  cli,         \* the `openlight memory reindex` process
  up,          \* the backends that answer
  events,      \* environment events so far
  acked        \* history: sources for which Ingest has returned without error

vars == <<jobs, sources, chunks, index, collection, agent, arriving, worker,
          cli, up, events, acked>>

SourceStatus == {"absent", "pending", "processing", "completed", "failed", "skipped"}
Pipeline == {"load", "extract", "ensure", "embed", "upsert", "replace", "complete"}
Steps == {"idle", "distill", "settle", "park"} \cup Pipeline
Results == {"none", "ok", "unsupported", "transient", "error"}

WorkerState == [pc : Steps, job : JobIds \cup {NoJob}, src : Sources \cup {NoSource},
                gen : Gens \cup {NoGen}, result : Results]
Idle == [pc |-> "idle", job |-> NoJob, src |-> NoSource, gen |-> NoGen, result |-> "none"]
CliState == [pc : {"idle", "create", "list", "mark", "enqueue"}, todo : SUBSET Sources,
             lists : Seq(SUBSET SourceStatus), cur : Sources \cup {NoSource}]
CliIdle == [pc |-> "idle", todo |-> {}, lists |-> << >>, cur |-> NoSource]

Happens(e) == e \in Events /\ events < MaxEvents /\ events' = events + 1

\* A statement on the queue; when it fails the caller only logs the error.
Write(statement) ==
  \/ statement /\ UNCHANGED events
  \/ UNCHANGED jobs /\ Happens("write_failed")

Init ==
  /\ QueueInit
  /\ sources = [s \in Sources |-> "absent"]
  /\ chunks = [s \in Sources |-> NoGen]
  /\ index = [s \in Sources |-> {}]
  /\ collection = FALSE
  /\ agent = "up"
  /\ arriving = [s \in Sources |-> "none"]
  /\ worker = [w \in Workers |-> Idle]
  /\ cli = CliIdle
  /\ up = Backends
  /\ events = 0
  /\ acked = {}

-----------------------------------------------------------------------------
(* Service.Ingest and Service.RememberText, called by message handlers.    *)

\* RawStore.Put and InsertSource: the row of a known hash is returned as it is.
\* A duplicate that already completed needs no ingest job.
Archive(s) ==
  /\ agent = "up" /\ arriving[s] = "none"
  /\ IF sources[s] = "absent" THEN UNCHANGED events ELSE Happens("resend")
  /\ sources' = [sources EXCEPT ![s] = IF @ = "absent" THEN "pending" ELSE @]
  /\ arriving' = [arriving EXCEPT ![s] =
       IF sources[s] # "completed" THEN "ingest" ELSE IF s \in Remembered THEN "facts" ELSE "none"]
  /\ acked' = IF sources[s] = "completed" THEN acked \cup {s} ELSE acked
  /\ UNCHANGED <<jobs, chunks, index, collection, agent, worker, cli, up>>

\* Ingest commits the job row and returns; RememberText goes on to the facts job.
\* A failed write is reported to the user, and the source row stays.
Enqueue(s) ==
  /\ agent = "up" /\ arriving[s] = "ingest"
  /\ \/ /\ EnqueueJob(s, "ingest") /\ acked' = acked \cup {s} /\ UNCHANGED events
        /\ arriving' = [arriving EXCEPT ![s] = IF s \in Remembered THEN "facts" ELSE "none"]
     \/ /\ Happens("write_failed") /\ UNCHANGED <<jobs, acked>>
        /\ arriving' = [arriving EXCEPT ![s] = "none"]
  /\ UNCHANGED <<sources, chunks, index, collection, agent, worker, cli, up>>

EnqueueFacts(s) ==
  /\ agent = "up" /\ arriving[s] = "facts"
  /\ Write(EnqueueJob(s, "facts"))
  /\ arriving' = [arriving EXCEPT ![s] = "none"]
  /\ UNCHANGED <<sources, chunks, index, collection, agent, worker, cli, up, acked>>

-----------------------------------------------------------------------------
(* A worker: processNext, runIngestJob, runFactsJob, handleJobFailure.     *)

At(w, pc) == agent = "up" /\ worker[w].pc = pc
Goto(w, pc) == worker' = [worker EXCEPT ![w].pc = pc]
Settle(w, r) == worker' = [worker EXCEPT ![w].pc = "settle", ![w].result = r]
Src(w) == worker[w].src

Claim(w, j) ==
  /\ At(w, "idle")
  /\ ClaimJob(j)
  /\ worker' = [worker EXCEPT ![w] =
       [pc |-> IF jobs[j].kind = "facts" THEN "distill" ELSE "load",
        job |-> j, src |-> jobs[j].source, gen |-> NoGen, result |-> "none"]]
  /\ UNCHANGED <<sources, chunks, index, collection, agent, arriving, cli, up, events, acked>>

\* Faulty: the old chunks are dropped before the new ones exist.
LoadSourceClears(w) ==
  /\ At(w, "load") /\ Goto(w, "extract")
  /\ sources' = [sources EXCEPT ![Src(w)] = "processing"]
  /\ chunks' = [chunks EXCEPT ![Src(w)] = NoGen]
  /\ UNCHANGED <<jobs, index, collection, agent, arriving, cli, up, events, acked>>

\* SetSourceStatus; the pipeline ignores its error.
SetStatus(s, status) ==
  \/ sources' = [sources EXCEPT ![s] = status] /\ UNCHANGED events
  \/ UNCHANGED sources /\ Happens("write_failed")

\* The source row is read, the RAW file looked for, the source marked processing.
LoadSource(w) ==
  /\ At(w, "load")
  /\ \/ /\ "raw_missing" \in Outcome[Src(w)] /\ Settle(w, "unsupported")
        /\ UNCHANGED <<sources, events>>
     \/ Goto(w, "extract") /\ SetStatus(Src(w), "processing")
  /\ UNCHANGED <<jobs, chunks, index, collection, agent, arriving, cli, up, acked>>

\* Extractors.Extract and buildChunks: no text and no chunks are "unsupported".
Extract(w) ==
  /\ At(w, "extract")
  /\ \/ "ok" \in Outcome[Src(w)] /\ Goto(w, "ensure")
     \/ \E r \in {"unsupported", "error"} \cap Outcome[Src(w)] : Settle(w, r)
  /\ UNCHANGED <<jobs, sources, chunks, index, collection, agent, arriving, cli, up, events, acked>>

\* vectorDimensions (cached after the first answer) and EnsureCollection.
EnsureCollection(w) ==
  /\ At(w, "ensure")
  /\ \/ "vectors" \in up /\ Goto(w, "embed") /\ collection' = TRUE
     \/ ~({"embedder", "vectors"} \subseteq up) /\ Settle(w, "transient") /\ UNCHANGED collection
  /\ UNCHANGED <<jobs, sources, chunks, index, agent, arriving, cli, up, events, acked>>

Embed(w) ==
  /\ At(w, "embed")
  /\ IF "embedder" \in up THEN Goto(w, "upsert") ELSE Settle(w, "transient")
  /\ UNCHANGED <<jobs, sources, chunks, index, collection, agent, arriving, cli, up, events, acked>>

\* Fresh chunk ids: a generation neither stored nor about to be.
Fresh(s) == Gens \ (index[s] \cup {chunks[s]} \cup {worker[w].gen : w \in Workers})
NewGen(s) == CHOOSE g \in Fresh(s) : TRUE

\* Faulty: an unavailable index does not stop the run; the old points are dropped
\* first; the chunks are never stored.
UpsertTo(w, pc, kept) ==
  /\ At(w, "upsert") /\ Fresh(Src(w)) # {}
  /\ index' = [index EXCEPT ![Src(w)] =
       IF "vectors" \in up /\ collection THEN kept \cup {NewGen(Src(w))} ELSE @]
  /\ worker' = [worker EXCEPT ![w].pc = pc, ![w].gen = NewGen(Src(w))]
  /\ UNCHANGED <<jobs, sources, chunks, collection, agent, arriving, cli, up, events, acked>>
UpsertAnyway(w) == UpsertTo(w, "replace", index[Src(w)])
UpsertDropsOld(w) == UpsertTo(w, "replace", {})
UpsertOnly(w) == UpsertTo(w, "complete", index[Src(w)])

\* Vectors.Upsert; its answer may be lost after Qdrant has applied it.
Upsert(w) ==
  /\ At(w, "upsert")
  /\ IF "vectors" \in up /\ collection
     THEN /\ Fresh(Src(w)) # {}
          /\ index' = [index EXCEPT ![Src(w)] = @ \cup {NewGen(Src(w))}]
          /\ \/ /\ worker' = [worker EXCEPT ![w].pc = "replace", ![w].gen = NewGen(Src(w))]
                /\ UNCHANGED events
             \/ Settle(w, "transient") /\ Happens("lost_answer")
     ELSE Settle(w, "transient") /\ UNCHANGED <<index, events>>
  /\ UNCHANGED <<jobs, sources, chunks, collection, agent, arriving, cli, up, acked>>

ReplaceChunks(w) ==
  /\ At(w, "replace")
  /\ \/ /\ Goto(w, "complete") /\ chunks' = [chunks EXCEPT ![Src(w)] = worker[w].gen]
        /\ UNCHANGED events
     \/ Settle(w, "error") /\ UNCHANGED chunks /\ Happens("write_failed")
  /\ UNCHANGED <<jobs, sources, index, collection, agent, arriving, cli, up, acked>>

MarkCompleted(w) ==
  /\ At(w, "complete")
  /\ \/ /\ Settle(w, "ok") /\ sources' = [sources EXCEPT ![Src(w)] = "completed"]
        /\ UNCHANGED events
     \/ Settle(w, "error") /\ UNCHANGED sources /\ Happens("write_failed")
  /\ UNCHANGED <<jobs, chunks, index, collection, agent, arriving, cli, up, acked>>

\* runFactsJob: Distill goes to the chat model.  A dial error becomes
\* ErrBrainOffline (llm/remote.go), a timeout stays a deadline error.
Distill(w) ==
  /\ At(w, "distill")
  /\ IF "brain" \in up THEN Settle(w, "ok") ELSE \E r \in {"error", "transient"} : Settle(w, r)
  /\ UNCHANGED <<jobs, sources, chunks, index, collection, agent, arriving, cli, up, events, acked>>

\* CompleteJob, RescheduleJob or FailJob.  A failed write is only logged, so the
\* row then stays running; FailJob's caller marks the source either way.
GivesUp(w) ==
  \/ worker[w].result = "unsupported"
  \/ worker[w].result = "error" /\ jobs[worker[w].job].attempts + 1 >= MaxAttempts

FinishJob(w) ==
  /\ At(w, "settle") /\ worker[w].result = "ok"
  /\ Write(CompleteJob(worker[w].job))
  /\ worker' = [worker EXCEPT ![w] = Idle]
  /\ UNCHANGED <<sources, chunks, index, collection, agent, arriving, cli, up, acked>>

RetryLater(w) ==
  /\ At(w, "settle") /\ worker[w].result \in {"transient", "error"} /\ ~GivesUp(w)
  /\ Write(RescheduleJob(worker[w].job, worker[w].result = "error"))
  /\ worker' = [worker EXCEPT ![w] = Idle]
  /\ UNCHANGED <<sources, chunks, index, collection, agent, arriving, cli, up, acked>>

Park(w) ==
  /\ At(w, "settle") /\ GivesUp(w)
  /\ Write(FailJob(worker[w].job, worker[w].result = "error"))
  /\ Goto(w, "park")
  /\ UNCHANGED <<sources, chunks, index, collection, agent, arriving, cli, up, acked>>

MarkParked(w) ==
  /\ At(w, "park")
  /\ SetStatus(Src(w), IF worker[w].result = "unsupported" THEN "skipped" ELSE "failed")
  /\ worker' = [worker EXCEPT ![w] = Idle]
  /\ UNCHANGED <<jobs, chunks, index, collection, agent, arriving, cli, up, acked>>

WorkerStep(w) ==
  \/ LoadSource(w) \/ Extract(w) \/ EnsureCollection(w) \/ Embed(w) \/ Upsert(w)
  \/ ReplaceChunks(w) \/ MarkCompleted(w) \/ Distill(w)
  \/ FinishJob(w) \/ RetryLater(w) \/ Park(w) \/ MarkParked(w)

RetryDue(j) ==
  /\ RetryTimeReached(j)
  /\ UNCHANGED <<sources, chunks, index, collection, agent, arriving, worker, cli, up, events, acked>>

-----------------------------------------------------------------------------
(* `openlight memory retry` and `reindex`, a process of its own.           *)

CliRetry ==
  /\ cli.pc = "idle" /\ Happens("retry")
  /\ RetryFailedJobs
  /\ UNCHANGED <<sources, chunks, index, collection, agent, arriving, worker, cli, up, acked>>

CliReindexSource(s) ==
  /\ cli.pc = "idle" /\ Happens("reindex_source") /\ sources[s] # "absent"
  /\ sources' = [sources EXCEPT ![s] = "pending"]
  /\ cli' = [CliIdle EXCEPT !.pc = "enqueue", !.cur = s]
  /\ UNCHANGED <<jobs, chunks, index, collection, agent, arriving, worker, up, acked>>

\* The failed sources are listed, then (after they are requeued) the skipped ones.
CliReindexFailed ==
  /\ cli.pc = "idle" /\ Happens("reindex_failed")
  /\ RetryFailedJobs
  /\ cli' = IF RetryCollides THEN cli
            ELSE [CliIdle EXCEPT !.pc = "list", !.lists = <<{"failed"}, {"skipped"}>>]
  /\ UNCHANGED <<sources, chunks, index, collection, agent, arriving, worker, up, acked>>

\* DeleteCollection; "unavailable" is ignored.
CliReindexAll ==
  /\ cli.pc = "idle" /\ Happens("reindex_all")
  /\ IF "vectors" \in up
     THEN collection' = FALSE /\ index' = [s \in Sources |-> {}]
     ELSE UNCHANGED <<collection, index>>
  /\ cli' = [CliIdle EXCEPT !.pc = "create"]
  /\ UNCHANGED <<jobs, sources, chunks, agent, arriving, worker, up, acked>>

CliCreate ==
  /\ cli.pc = "create"
  /\ collection' = (collection \/ {"embedder", "vectors"} \subseteq up)
  /\ cli' = [cli EXCEPT !.pc = "list", !.lists = <<SourceStatus \ {"absent"}>>]
  /\ UNCHANGED <<jobs, sources, chunks, index, agent, arriving, worker, up, events, acked>>

CliList ==
  /\ cli.pc = "list"
  /\ cli' = IF cli.lists = << >> THEN CliIdle
            ELSE [cli EXCEPT !.pc = "mark", !.lists = Tail(@),
                             !.todo = {s \in Sources : sources[s] \in Head(cli.lists)}]
  /\ UNCHANGED <<jobs, sources, chunks, index, collection, agent, arriving, worker, up, events, acked>>

CliMark ==
  /\ cli.pc = "mark"
  /\ \/ /\ cli.todo = {}
        /\ cli' = [cli EXCEPT !.pc = "list"]
        /\ UNCHANGED sources
     \/ \E s \in cli.todo :
          /\ sources' = [sources EXCEPT ![s] = "pending"]
          /\ cli' = [cli EXCEPT !.pc = "enqueue", !.cur = s, !.todo = @ \ {s}]
  /\ UNCHANGED <<jobs, chunks, index, collection, agent, arriving, worker, up, events, acked>>

CliEnqueue ==
  /\ cli.pc = "enqueue"
  /\ EnqueueJob(cli.cur, "ingest")
  /\ cli' = [cli EXCEPT !.pc = "mark", !.cur = NoSource]
  /\ UNCHANGED <<sources, chunks, index, collection, agent, arriving, worker, up, events, acked>>

CliStep == CliCreate \/ CliList \/ CliMark \/ CliEnqueue

-----------------------------------------------------------------------------
(* The environment.                                                        *)

Outage(b) ==
  /\ b \in up /\ Happens("outage") /\ up' = up \ {b}
  /\ UNCHANGED <<jobs, sources, chunks, index, collection, agent, arriving, worker, cli, acked>>

Recover(b) ==
  /\ b \notin up /\ up' = up \cup {b}
  /\ UNCHANGED <<jobs, sources, chunks, index, collection, agent, arriving, worker, cli, events, acked>>

Interrupt ==
  /\ cli.pc # "idle" /\ Happens("interrupt") /\ cli' = CliIdle
  /\ UNCHANGED <<jobs, sources, chunks, index, collection, agent, arriving, worker, up, acked>>

\* A crash, or a shutdown: the workers leave their job running.
Crash ==
  /\ agent = "up" /\ Happens("crash") /\ agent' = "down"
  /\ worker' = [w \in Workers |-> Idle]
  /\ arriving' = [s \in Sources |-> "none"]
  /\ UNCHANGED <<jobs, sources, chunks, index, collection, cli, up, acked>>

\* Service.Run.
Restart ==
  /\ agent = "down" /\ agent' = "up"
  /\ Write(ReclaimRunningJobs)
  /\ UNCHANGED <<sources, chunks, index, collection, arriving, worker, cli, up, acked>>

-----------------------------------------------------------------------------
Next ==
  \/ \E s \in Sources : Archive(s) \/ Enqueue(s) \/ EnqueueFacts(s) \/ CliReindexSource(s)
  \/ \E w \in Workers : WorkerStep(w) \/ \E j \in Rows : Claim(w, j)
  \/ \E j \in Rows : RetryDue(j)
  \/ CliRetry \/ CliReindexFailed \/ CliReindexAll \/ CliStep
  \/ \E b \in Backends : Outage(b) \/ Recover(b)
  \/ Interrupt \/ Crash \/ Restart

Spec == Init /\ [][Next]_vars

\* Workers run and poll, timers fire, a started handler or command goes on, the
\* service manager restarts the agent, a backend that is away comes back.  A due
\* row is claimed eventually: rows are taken in the order of next_retry_at and
\* every retry moves a row to the back (ClaimJob, RescheduleJob).
Fairness ==
  /\ \A w \in Workers : WF_vars(WorkerStep(w))
  /\ \A j \in JobIds : SF_vars(\E w \in Workers : j \in Rows /\ Claim(w, j))
  /\ \A j \in JobIds : WF_vars(j \in Rows /\ RetryDue(j))
  /\ \A s \in Sources : WF_vars(Enqueue(s) \/ EnqueueFacts(s))
  /\ \A b \in Backends : WF_vars(Recover(b))
  /\ WF_vars(CliStep) /\ WF_vars(Restart)

FairSpec == Spec /\ Fairness
-----------------------------------------------------------------------------
(* Properties.                                                             *)

StateTypeOK ==
  /\ sources \in [Sources -> SourceStatus]
  /\ chunks \in [Sources -> Gens \cup {NoGen}]
  /\ index \in [Sources -> SUBSET Gens]
  /\ collection \in BOOLEAN
  /\ agent \in {"up", "down"}
  /\ arriving \in [Sources -> {"none", "ingest", "facts"}]
  /\ worker \in [Workers -> WorkerState]
  /\ cli \in CliState
  /\ up \in SUBSET Backends
  /\ events \in 0..MaxEvents
  /\ acked \in SUBSET Sources

(* The types of the tables, the index, the workers and the command.         *)
TypeOK == QueueTypeOK /\ StateTypeOK

Holds(w) == worker[w].pc \notin {"idle", "park"}

(* A source is never run through the pipeline by two workers at once: the   *)
(* claim, the active index and the reclaim at startup together exclude it   *)
(* (store.go ClaimJob, ReclaimRunningJobs).                                 *)
OneRunPerSource ==
  \A v, w \in Workers :
    worker[v].pc \in Pipeline /\ worker[w].pc \in Pipeline /\ Src(v) = Src(w) => v = w

(* While the agent is up, a row in state running is in the hands of a       *)
(* worker: nothing is left running with nobody to finish it, whatever       *)
(* crashes came before (service.go Run, reclaim at startup).                *)
NoStuckRunning ==
  agent = "up" =>
    \A j \in Rows : jobs[j].status = "running" => \E w \in Workers : Holds(w) /\ worker[w].job = j

(* What Ingest has acknowledged is never forgotten: until a source has      *)
(* chunks it has a row in the queue, active or parked ("an offline backend  *)
(* must not cause data loss").                                              *)
AckedKept ==
  \A s \in acked : chunks[s] # NoGen \/ HasActive(s, "ingest") \/ HasParked(s, "ingest")

(* A source marked completed can be found: its chunks have points in the    *)
(* index, or an ingest job or a reindex command is at work on it            *)
(* (ingest.go:306-309, "vector first, then SQLite").                        *)
Rebuilding(s) == HasActive(s, "ingest") \/ cli.pc # "idle"
CompletedIsSearchable ==
  \A s \in Sources : sources[s] = "completed" => chunks[s] \in index[s] \/ Rebuilding(s)

(* Outside a full rebuild, a source that search can find stays findable,    *)
(* through retries, crashes and reindexing of that source                   *)
(* (store.go ReplaceChunks).                                                *)
Searchable(s) == chunks[s] \in index[s]
SearchableStays == [][\A s \in Sources : Searchable(s) => Searchable(s)']_vars

(* The whole subsystem implements the promise made for archived items.      *)
Fate ==
  [s \in Sources |->
    IF chunks[s] # NoGen THEN "indexed"
    ELSE IF HasActive(s, "ingest") THEN "owed"
    ELSE IF HasParked(s, "ingest") THEN "parked"
    ELSE "unknown"]
Promise == INSTANCE ArchivePromise WITH Items <- Sources, fate <- Fate
KeepsPromise == Promise!Spec

(* Everything acknowledged is eventually indexed or parked: outages that    *)
(* end, crashes and interrupted commands only delay it.                     *)
EventuallySettled ==
  \A s \in Sources : s \in acked ~> (chunks[s] # NoGen \/ HasParked(s, "ingest"))

(* The queue drains: in the end only parked rows are left in it.            *)
QueueDrains == <>[](\A j \in Rows : jobs[j].status = "failed")

-----------------------------------------------------------------------------
(* The inductive strengthening behind the safety invariants.               *)

\* A busy worker owns a running row of its source; past ReplaceChunks the
\* chunks are there, whatever other runs of the source did before.
HeldRows ==
  \A w \in Workers : Holds(w) =>
    /\ worker[w].job \in Rows
    /\ jobs[worker[w].job].status = "running"
    /\ jobs[worker[w].job].source = Src(w)
    /\ worker[w].pc \in Pipeline => jobs[worker[w].job].kind = "ingest"
    /\ worker[w].pc = "distill" => jobs[worker[w].job].kind = "facts"
    /\ worker[w].pc = "replace" => worker[w].gen \in Gens
    /\ worker[w].pc = "complete" => chunks[Src(w)] # NoGen
    /\ worker[w].pc = "settle" /\ worker[w].result = "ok"
         /\ jobs[worker[w].job].kind = "ingest" => chunks[Src(w)] # NoGen

HeldApart ==
  \A v, w \in Workers : Holds(v) /\ Holds(w) /\ worker[v].job = worker[w].job => v = w
DownIdle == agent = "down" => \A w \in Workers : worker[w].pc = "idle"
CompletedHasChunks == \A s \in Sources : sources[s] = "completed" => chunks[s] # NoGen
CliHasTarget == cli.pc = "enqueue" => cli.cur \in Sources

(* The inductive invariant of ingestion: with TypeOK and ActiveUnique it    *)
(* carries OneRunPerSource, AckedKept and the refinement.                   *)
IngestInv ==
  /\ TypeOK /\ ActiveUnique
  /\ HeldRows /\ HeldApart /\ DownIdle
  /\ CompletedHasChunks /\ CliHasTarget /\ AckedKept

-----------------------------------------------------------------------------
(* Statements of the documentation and comments that the code does not keep *)

(* docs/MEMORY.md:79, service.go:70-72: transient failures never count      *)
(* towards max_attempts, so giving up on an error takes MaxAttempts errors. *)
TransientsDoNotCount ==
  \A w \in Workers : worker[w].pc = "park" /\ worker[w].result = "error" =>
    jobs[worker[w].job].permanent = MaxAttempts

(* docs/MEMORY.md:253, store.go:413: retry re-queues every parked job.      *)
RetryRequeuesAll == [][CliRetry => \A j \in DOMAIN jobs' : jobs'[j].status # "failed"]_vars
=============================================================================
