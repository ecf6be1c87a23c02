--------------------------- MODULE MemoryEpisodes ---------------------------
(***************************************************************************)
(* Conversation memory (internal/memory/episodes.go): the turns of a chat  *)
(* go through a bounded channel to the turn writer, which collects them in *)
(* the chat's open episode; the writer closes an episode that is full, the *)
(* consolidator one that is idle; whoever closes it queues a summarise job *)
(* (JobQueue), and the ingestion workers distil it into a summary, which   *)
(* Ingest archives (MemoryIngest says what becomes of it), and facts       *)
(* (MemoryFacts).  Message handlers may remember facts directly.           *)
(*                                                                         *)
(* One chat is modelled: chats share the queue and the workers only.  No   *)
(* property tells turns apart, so an episode and the channel hold numbers  *)
(* of turns.  That an episode has been quiet for IdleTimeout is a Boolean  *)
(* of it.  Options.Conversations has AutoMemory and Summarize on.          *)
(***************************************************************************)
EXTENDS JobQueue, MemoryFacts, Sequences

CONSTANTS
  Workers,       \* ingestion workers
  MaxEpisodes,   \* bound on the episodes: Owners = 1..MaxEpisodes
  MaxSaid,       \* bound on the turns handed to RecordTurn
  Buffer,        \* capacity of the channel, 256 in the code
  MinTurns, MaxTurns,
  ReadLimit,     \* the limit of EpisodeTurns, 200 in the code
  NoJob, NoEpisode,
  Distilled      \* what the model may answer: SUBSET {"useful", "empty", "error"}

ASSUME EpisodesAssumption ==
  /\ Owners = 1..MaxEpisodes /\ MaxEpisodes \in Nat /\ NoEpisode \notin Owners
  /\ Kinds = {"summarize"} /\ NoJob \notin JobIds
  /\ Workers \subseteq Rememberers
  /\ MaxSaid \in Nat /\ Buffer \in Nat \ {0} /\ ReadLimit \in Nat
  /\ MinTurns \in Nat \ {0} /\ MaxTurns \in Nat \ {0}

Closers == {"writer", "consolidator"}

VARIABLES
  agent,      \* "up" or "down"
  said,       \* turns handed to RecordTurn so far
  channel,    \* turns in the buffer
  episodes,   \* the table memory_episodes with its turns
  closer,     \* the turn writer and the consolidator
  worker,     \* the workers' local state
  brain,      \* whether the chat model answers
  digests,    \* history: the summaries archived for an episode, each as the number of its turns
  distilled,  \* history: episodes a summarise job has dealt with
  full        \* history: turns an episode had when it was first closed

vars == <<jobs, factVars, events, agent, said, channel, episodes, closer, worker, brain,
          digests, distilled, full>>

Episode == [status : {"absent", "open", "closed", "summarized"}, turns : Nat,
            idle : BOOLEAN, summary : Nat]
Closer == [pc : {"idle", "append", "close", "enqueue"}, cur : Owners \cup {NoEpisode},
           count : Nat, todo : SUBSET Owners]
CloserIdle == [pc |-> "idle", cur |-> NoEpisode, count |-> 0, todo |-> {}]
Steps == {"idle", "read", "short", "distill", "empty", "ingest", "facts", "remembering", "link",
          "settle"}
WorkerState == [pc : Steps, job : JobIds \cup {NoJob}, cur : Owners \cup {NoEpisode},
                turns : Nat, result : {"none", "ok", "transient", "error"}]
Idle == [pc |-> "idle", job |-> NoJob, cur |-> NoEpisode, turns |-> 0, result |-> "none"]

Init ==
  /\ QueueInit /\ FactsInit
  /\ agent = "up" /\ said = 0 /\ channel = 0
  /\ episodes = [e \in Owners |-> [status |-> "absent", turns |-> 0, idle |-> FALSE, summary |-> 0]]
  /\ closer = [c \in Closers |-> CloserIdle]
  /\ worker = [w \in Workers |-> Idle]
  /\ brain = TRUE
  /\ digests = [e \in Owners |-> << >>] /\ distilled = {}
  /\ full = [e \in Owners |-> 0]

Open(e) == episodes[e].status = "open"
Closed(e) == episodes[e].status \in {"closed", "summarized"}
History == UNCHANGED <<digests, distilled, full>>
-----------------------------------------------------------------------------
(* RecordTurn, turnWriterLoop and writeTurn.                               *)

\* It never blocks: a full buffer drops the turn.
RecordTurn ==
  /\ agent = "up" /\ said < MaxSaid /\ said' = said + 1
  /\ channel' = IF channel < Buffer THEN channel + 1 ELSE channel
  /\ UNCHANGED <<jobs, factVars, events, agent, episodes, closer, worker, brain>> /\ History

At(c, pc) == agent = "up" /\ closer[c].pc = pc
Cur(c) == closer[c].cur
Goto(c, pc) == closer' = [closer EXCEPT ![c].pc = pc]
Drop(c) == closer' = [closer EXCEPT ![c] = [CloserIdle EXCEPT !.todo = closer[c].todo]]
ClosersOnly == UNCHANGED <<factVars, agent, said, worker, brain>>

\* OpenEpisode: the latest open episode, or a new row (only the writer inserts).
OpenOnes == {e \in Owners : Open(e)}
AbsentOnes == {e \in Owners : episodes[e].status = "absent"}
LatestOpen == CHOOSE e \in OpenOnes : \A f \in OpenOnes : f <= e
NextNew == CHOOSE e \in AbsentOnes : \A f \in AbsentOnes : e <= f
TakeUp(e) ==
  closer' = [closer EXCEPT !["writer"] =
    [CloserIdle EXCEPT !.pc = "append", !.cur = e, !.count = episodes[e].turns]]

OpenEpisode ==
  /\ At("writer", "idle") /\ channel > 0 /\ channel' = channel - 1
  /\ \/ OpenOnes # {} /\ TakeUp(LatestOpen) /\ UNCHANGED <<episodes, events>>
     \/ /\ OpenOnes = {} /\ AbsentOnes # {} /\ TakeUp(NextNew)
        /\ episodes' = [episodes EXCEPT ![NextNew].status = "open"]
        /\ UNCHANGED events
     \/ Happens("db_failed") /\ UNCHANGED <<episodes, closer>>
  /\ ClosersOnly /\ UNCHANGED jobs /\ History

IsFull(count) == count + 1 >= MaxTurns

\* The row is updated by its id, open or not.
AppendTurn ==
  /\ At("writer", "append")
  /\ \/ /\ episodes' = [episodes EXCEPT ![Cur("writer")].turns = @ + 1,
                                        ![Cur("writer")].idle = FALSE]
        /\ IF IsFull(closer["writer"].count) THEN Goto("writer", "close") ELSE Drop("writer")
        /\ UNCHANGED events
     \/ Happens("db_failed") /\ Drop("writer") /\ UNCHANGED episodes
  /\ ClosersOnly /\ UNCHANGED <<jobs, channel>> /\ History

-----------------------------------------------------------------------------
(* consolidatorLoop, consolidateIdle and closeEpisode.                     *)

Quiet == {e \in OpenOnes : episodes[e].idle /\ episodes[e].turns >= MinTurns}

\* The limit of ten episodes is not reached.
ListIdleEpisodes ==
  /\ At("consolidator", "idle") /\ closer["consolidator"].todo = {}
  /\ Quiet # {} /\ closer' = [closer EXCEPT !["consolidator"].todo = Quiet]
  /\ ClosersOnly /\ UNCHANGED <<jobs, events, channel, episodes>> /\ History

NextIdle ==
  /\ At("consolidator", "idle")
  /\ \E e \in closer["consolidator"].todo :
       closer' = [closer EXCEPT !["consolidator"] =
         [CloserIdle EXCEPT !.pc = "close", !.cur = e, !.todo = closer["consolidator"].todo \ {e}]]
  /\ ClosersOnly /\ UNCHANGED <<jobs, events, channel, episodes>> /\ History

\* The row is updated whatever its status: the summary link is cleared.
CloseEpisode(c) ==
  /\ At(c, "close")
  /\ \/ /\ episodes' = [episodes EXCEPT ![Cur(c)].status = "closed", ![Cur(c)].summary = 0]
        /\ full' = [full EXCEPT ![Cur(c)] = IF Open(Cur(c)) THEN episodes[Cur(c)].turns ELSE @]
        /\ Goto(c, "enqueue") /\ UNCHANGED events
     \/ Happens("db_failed") /\ Drop(c) /\ UNCHANGED <<episodes, full>>
  /\ ClosersOnly /\ UNCHANGED <<jobs, channel, digests, distilled>>

\* Faulty: only the consolidator queues a summary.
EnqueueIfIdle(c) ==
  /\ At(c, "enqueue")
  /\ IF c = "consolidator" THEN EnqueueJob(Cur(c), "summarize") ELSE UNCHANGED jobs
  /\ Drop(c)
  /\ ClosersOnly /\ UNCHANGED <<events, channel, episodes>> /\ History

EnqueueSummarize(c) ==
  /\ At(c, "enqueue")
  /\ \/ EnqueueJob(Cur(c), "summarize") /\ UNCHANGED events
     \/ Happens("db_failed") /\ UNCHANGED jobs
  /\ Drop(c)
  /\ ClosersOnly /\ UNCHANGED <<channel, episodes>> /\ History

Closing(c) == CloseEpisode(c) \/ EnqueueSummarize(c)
WriterStep == OpenEpisode \/ AppendTurn \/ Closing("writer")
ConsolidatorStep == ListIdleEpisodes \/ NextIdle \/ Closing("consolidator")

-----------------------------------------------------------------------------
(* A worker: processNext, runSummarizeJob, handleJobFailure.               *)

Works(w, pc) == agent = "up" /\ worker[w].pc = pc
To(w, pc) == worker' = [worker EXCEPT ![w].pc = pc]
Settle(w, r) == worker' = [worker EXCEPT ![w].pc = "settle", ![w].result = r]
WorkersOnly == UNCHANGED <<agent, said, channel, closer, brain, full>>

Claim(w, j) ==
  /\ Works(w, "idle") /\ ClaimJob(j)
  /\ worker' = [worker EXCEPT ![w] =
       [pc |-> "read", job |-> j, cur |-> jobs[j].source, turns |-> 0, result |-> "none"]]
  /\ WorkersOnly /\ UNCHANGED <<factVars, events, episodes, digests, distilled>>

\* EpisodeTurns: the first ReadLimit turns.
ReadShort(n) == IF n <= MinTurns THEN n ELSE n - 1      \* Faulty: off by one.
Read(n) == IF n <= ReadLimit THEN n ELSE ReadLimit
EpisodeTurns(w) ==
  LET n == Read(episodes[worker[w].cur].turns) IN
  /\ Works(w, "read")
  /\ \/ /\ worker' = [worker EXCEPT ![w].pc = IF n < MinTurns THEN "short" ELSE "distill",
                                    ![w].turns = n]
        /\ UNCHANGED events
     \/ Happens("db_failed") /\ Settle(w, "error")
  /\ WorkersOnly /\ UNCHANGED <<jobs, factVars, episodes, digests, distilled>>

Distill(w) ==
  /\ Works(w, "distill")
  /\ \/ brain /\ "useful" \in Distilled /\ To(w, "ingest")
     \/ brain /\ "empty" \in Distilled /\ To(w, "empty")
     \/ brain /\ "error" \in Distilled /\ Settle(w, "error")
     \/ ~brain /\ \E r \in {"error", "transient"} : Settle(w, r)
  /\ WorkersOnly /\ UNCHANGED <<jobs, factVars, events, episodes, digests, distilled>>

\* Nothing worth keeping: the result of CloseEpisode is ignored.
Summarized(e, summary) ==
  episodes' = [episodes EXCEPT ![e].status = "summarized", ![e].summary = summary]
CloseEmpty(w) ==
  /\ Works(w, "short") \/ Works(w, "empty")
  /\ \/ Summarized(worker[w].cur, 0) /\ UNCHANGED events
     \/ Happens("db_failed") /\ UNCHANGED episodes
  /\ Settle(w, "ok")
  /\ distilled' = distilled \cup {worker[w].cur}
  /\ WorkersOnly /\ UNCHANGED <<jobs, factVars, digests>>

\* Ingest: when it fails the source may have been archived already, without a job.
IngestSummary(w) ==
  LET archive == digests' = [digests EXCEPT ![worker[w].cur] = Append(@, worker[w].turns)] IN
  /\ Works(w, "ingest")
  /\ \/ archive /\ To(w, "facts") /\ UNCHANGED events
     \/ (archive \/ UNCHANGED digests) /\ Settle(w, "error") /\ Happens("db_failed")
  /\ WorkersOnly /\ UNCHANGED <<jobs, factVars, episodes, distilled>>

\* The facts of a distillation, here one or none; errors are only logged.
RememberFacts(w) ==
  /\ \/ /\ Works(w, "facts") /\ To(w, "remembering")
        /\ \E k \in Keys, v \in Values : Remember(w, k, v)
     \/ /\ Works(w, "facts") \/ (Works(w, "remembering") /\ Calls(w, "idle"))
        /\ To(w, "link") /\ UNCHANGED factVars
  /\ WorkersOnly /\ UNCHANGED <<jobs, events, episodes, digests, distilled>>

\* Faulty: the link is one ahead of the archive.
LinkNext(w) ==
  /\ Works(w, "link") /\ Settle(w, "ok")
  /\ Summarized(worker[w].cur, Len(digests[worker[w].cur]) + 1)
  /\ distilled' = distilled \cup {worker[w].cur}
  /\ WorkersOnly /\ UNCHANGED <<jobs, factVars, events, digests>>

LinkSummary(w) ==
  /\ Works(w, "link")
  /\ \/ Summarized(worker[w].cur, Len(digests[worker[w].cur])) /\ Settle(w, "ok") /\ UNCHANGED events
     \/ Happens("db_failed") /\ Settle(w, "error") /\ UNCHANGED episodes
  /\ distilled' = distilled \cup {worker[w].cur}
  /\ WorkersOnly /\ UNCHANGED <<jobs, factVars, digests>>

\* CompleteJob, RescheduleJob or FailJob, whose failures are only logged.
GivesUp(w) ==
  worker[w].result = "error" /\ jobs[worker[w].job].attempts + 1 >= MaxAttempts
FinishJob(w) ==
  /\ Works(w, "settle")
  /\ \/ /\ \/ worker[w].result = "ok" /\ CompleteJob(worker[w].job)
           \/ GivesUp(w) /\ FailJob(worker[w].job, TRUE)
           \/ /\ worker[w].result # "ok" /\ ~GivesUp(w)
              /\ RescheduleJob(worker[w].job, worker[w].result = "error")
        /\ UNCHANGED events
     \/ Happens("db_failed") /\ UNCHANGED jobs
  /\ worker' = [worker EXCEPT ![w] = Idle]
  /\ WorkersOnly /\ UNCHANGED <<factVars, episodes, digests, distilled>>

WorkerStep(w) ==
  \/ EpisodeTurns(w) \/ Distill(w) \/ CloseEmpty(w) \/ IngestSummary(w) \/ RememberFacts(w)
  \/ LinkSummary(w) \/ FinishJob(w)

\* The rest of a RememberFact, of a worker or of a message handler.
FactStep(r) ==
  /\ agent = "up" /\ RememberStep(r)
  /\ UNCHANGED <<jobs, agent, said, channel, episodes, closer, worker, brain>> /\ History

HandlerRemembers(r) ==
  /\ agent = "up" /\ r \notin Workers
  /\ \E k \in Keys, v \in Values : Remember(r, k, v)
  /\ UNCHANGED <<jobs, events, agent, said, channel, episodes, closer, worker, brain>> /\ History

-----------------------------------------------------------------------------
(* The environment.                                                        *)

\* IdleTimeout has passed since the last turn of an open episode.
GoesQuiet(e) ==
  /\ Open(e) /\ ~episodes[e].idle /\ episodes' = [episodes EXCEPT ![e].idle = TRUE]
  /\ UNCHANGED <<jobs, factVars, events, agent, said, channel, closer, worker, brain>> /\ History
RetryDue(j) ==
  /\ RetryTimeReached(j)
  /\ UNCHANGED <<factVars, events, agent, said, channel, episodes, closer, worker, brain>> /\ History
CliRetry ==
  /\ Happens("retry") /\ RetryFailedJobs
  /\ UNCHANGED <<factVars, agent, said, channel, episodes, closer, worker, brain>> /\ History
BrainChanges ==
  /\ brain' = ~brain /\ IF brain THEN Happens("outage") ELSE UNCHANGED events
  /\ UNCHANGED <<jobs, factVars, agent, said, channel, episodes, closer, worker>> /\ History

\* The buffer and everything the goroutines were doing is lost.
Crash ==
  /\ agent = "up" /\ Happens("crash") /\ agent' = "down" /\ channel' = 0
  /\ closer' = [c \in Closers |-> CloserIdle] /\ worker' = [w \in Workers |-> Idle]
  /\ remember' = [r \in Rememberers |-> NoCall]
  /\ UNCHANGED <<jobs, facts, drawn, met, said, episodes, brain>> /\ History
Restart ==
  /\ agent = "down" /\ agent' = "up" /\ ReclaimRunningJobs
  /\ UNCHANGED <<factVars, events, said, channel, episodes, closer, worker, brain>> /\ History

Next ==
  \/ RecordTurn \/ WriterStep \/ ConsolidatorStep
  \/ \E w \in Workers : WorkerStep(w) \/ \E j \in Rows : Claim(w, j)
  \/ \E r \in Rememberers : FactStep(r) \/ HandlerRemembers(r)
  \/ \E e \in Owners : GoesQuiet(e)
  \/ \E j \in Rows : RetryDue(j)
  \/ CliRetry \/ BrainChanges \/ Crash \/ Restart

Spec == Init /\ [][Next]_vars

\* The goroutines run, the tickers fire and time passes, the service manager restarts
\* the agent, the brain comes back; a due row is claimed in the end.
Fairness ==
  /\ WF_vars(WriterStep) /\ WF_vars(ConsolidatorStep) /\ WF_vars(Restart)
  /\ \A w \in Workers : WF_vars(WorkerStep(w))
  /\ \A r \in Rememberers : WF_vars(FactStep(r))
  /\ \A j \in JobIds : SF_vars(\E w \in Workers : j \in Rows /\ Claim(w, j))
  /\ \A j \in JobIds : WF_vars(j \in Rows /\ RetryDue(j))
  /\ \A e \in Owners : WF_vars(GoesQuiet(e))
  /\ WF_vars(~brain /\ BrainChanges)

FairSpec == Spec /\ Fairness
-----------------------------------------------------------------------------
(* Properties.                                                             *)

(* The types of the tables and of the goroutines.                          *)
TypeOK ==
  /\ QueueTypeOK /\ FactsTypeOK
  /\ agent \in {"up", "down"} /\ said \in 0..MaxSaid /\ channel \in 0..Buffer
  /\ episodes \in [Owners -> Episode]
  /\ closer \in [Closers -> Closer]
  /\ worker \in [Workers -> WorkerState]
  /\ brain \in BOOLEAN
  /\ digests \in [Owners -> Seq(Nat)] /\ distilled \subseteq Owners
  /\ full \in [Owners -> Nat]

(* A chat has one open episode at most (store.go OpenEpisode).              *)
OneOpenEpisode == \A e, f \in OpenOnes : e = f

(* An open episode is never queued for a summary, and one that was closed   *)
(* never opens again: a summary is made of a finished conversation          *)
(* (closeEpisode returns when the status cannot be written).                *)
QueuedIsClosed == \A j \in Rows : Closed(jobs[j].source)

(* An episode grows beyond MaxTurns only by the turns whose closing a crash *)
(* or a failed write prevented (writeTurn).                                 *)
EpisodeBounded == \A e \in Owners : episodes[e].turns <= MaxTurns + events.faults

(* What a summary is made of covers all the turns its episode had when it   *)
(* was closed, unless they exceed the limit of EpisodeTurns; of a long text *)
(* Distill uses the first 1500 tokens (runSummarizeJob, distill.go:118-122).*)
DigestIsWhole ==
  \A e \in Owners : \A i \in DOMAIN digests[e] : digests[e][i] >= full[e] \/ digests[e][i] = ReadLimit

\* Closed episodes that were not distilled, and that no job and nobody remembers.
BeingQueued(e) == \E c \in Closers : closer[c].pc = "enqueue" /\ closer[c].cur = e
Forgotten ==
  {e \in Owners : /\ Closed(e) /\ e \notin distilled /\ ~BeingQueued(e)
                  /\ \A j \in Rows : jobs[j].source # e}

(* Closing an episode and queueing its job are two writes, and nothing looks *)
(* for closed episodes without a job (episodes.go closeEpisode): a failed    *)
(* write forgets one episode, a crash the two its two closers hold at most,  *)
(* and no step of the queue and the workers loses any.                       *)
FewForgotten == Cardinality(Forgotten) <= 2 * events.faults

(* Episodes stay short enough to be summarised whole, and are summarised    *)
(* but for those a fault made forgotten (writeTurn, closeEpisode,           *)
(* runSummarizeJob).                                                       *)
SummariesWhole == EpisodeBounded /\ DigestIsWhole /\ FewForgotten

(* The summary an episode is linked to has been archived (runSummarizeJob   *)
(* calls Ingest before CloseEpisode), whatever failed and was retried.      *)
LinkIsArchived == \A e \in Owners : episodes[e].summary <= Len(digests[e])

(* An episode that has gone quiet is closed in the end, through crashes and *)
(* failed writes (docs/MEMORY.md:88-90).                                    *)
EventuallyClosed ==
  \A e \in Owners : (Open(e) /\ episodes[e].turns >= MinTurns) ~> Closed(e)

(* As long as nothing crashes and no write fails, a closed episode is       *)
(* distilled in the end, or parked: a brain that is away delays it.         *)
EventuallyDistilled ==
  \A e \in Owners : (Closed(e) /\ events.faults = 0)
    ~> (e \in distilled \/ HasParked(e, "summarize") \/ events.faults > 0)
-----------------------------------------------------------------------------
(* The inductive strengthening behind the safety invariants.               *)

\* Who closes an episode has one, and queues it after it was closed.
ClosersHold ==
  \A c \in Closers :
    /\ closer[c].pc # "idle" => closer[c].cur \in Owners
    /\ closer[c].pc = "enqueue" => Closed(closer[c].cur)
WorkersHold ==
  \A w \in Workers : worker[w].pc # "idle" => worker[w].job \in JobIds /\ worker[w].cur \in Owners

(* The inductive invariant of conversation memory: the closing protocol and *)
(* the links hold together with what the goroutines keep between two steps. *)
EpisodesInv ==
  /\ TypeOK /\ CallsHold
  /\ ClosersHold /\ WorkersHold
  /\ OneOpenEpisode /\ QueuedIsClosed /\ LinkIsArchived
=============================================================================
